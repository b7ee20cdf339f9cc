----------------------------- MODULE ConfigApi -----------------------------
(***************************************************************************)
(* How a configuration is found, watched and replaced: ConfigApi with its  *)
(* FileDataProviders (inotify watches) and its CallbackPool, and the parts *)
(* of CarbonRouterInstance that drive it: spinUp, the callback that        *)
(* reconfigures, and the threads' start and end.                           *)
(*                                                                         *)
(* There are two files, the configuration and one that it may import.      *)
(* Anybody may edit, delete or restore them between any two steps, and the *)
(* process may die and be started again; then only the files and their     *)
(* backups are left.  A file's content is one of a few values, and its md5 *)
(* is the content.  What configure does to the proxies is the subject of   *)
(* DestinationTables; here it succeeds or fails, by the content.           *)
(*                                                                         *)
(* Reloading and dumping are enabled (disable_reload_configs,              *)
(* config_dump_root, max_dumped_config_age).                               *)
(***************************************************************************)
EXTENDS Integers, FiniteSets

CONSTANTS MaxEdits,     \* bound: changes of a file
          MaxRestarts   \* bound: restarts of the process

File == {"main", "import"}
NoContent == "none"
Missing == "missing"

\* The configuration: without an import, with it, no JSON, or of routes that
\* cannot be built.
ContentOf(f) ==
  IF f = "main" THEN {"alone", "importing", "garbled", "unroutable"} ELSE {"a", "b"}
OnDisk(f) == ContentOf(f) \cup {Missing}

VARIABLES disk,        \* disk[f]: the file
          backup,      \* backup[f]: its dump in config_dump_root
          edits, restarts,
          apc,         \* where the thread of spinUp and shutdown is
          opc,         \* where configThread_ is
          bpc,         \* where createConfigBuilder and what follows it are
          trackedFiles,\* trackedFiles[f]: what a file that was read contained
          fileInfos,   \* fileInfos[f]: the md5 of an observed file
          provider,    \* provider[f]: no watch ("none"), quiet or event
          subscribed,  \* the files subscribeToTrackedSources is done with
          fromBackup,  \* readFromBackupFiles_
          lastFromBackup, \* lastConfigFromBackupFiles_
          backupFiles, \* backupFiles[f]: the md5 of what was dumped
          polled,      \* files that checkFileUpdate has polled
          updated,     \* those of them that had an update
          handle,      \* configUpdateHandle_
          finish,      \* finish_
          good,        \* history: <<f, c>> was part of a configuration in use
          attempt,     \* history: what the last attempt has read
          unseen       \* history: files changed while nobody could notice

diskVars == <<disk, backup, edits, restarts>>
buildVars == <<trackedFiles, fileInfos, provider, subscribed, fromBackup,
               lastFromBackup, backupFiles>>
threadPcs == <<apc, opc, bpc>>
pollVars == <<polled, updated>>
historyVars == <<good, attempt, unseen>>
apiVars == <<diskVars, threadPcs, buildVars, pollVars, handle, finish, historyVars>>

Nothing == [f \in File |-> NoContent]

api_init ==
  /\ apc = "first" /\ opc = "off" /\ bpc = "main"
  /\ trackedFiles = Nothing /\ fileInfos = Nothing /\ backupFiles = Nothing
  /\ provider = [f \in File |-> "none"] /\ subscribed = {}
  /\ fromBackup = FALSE /\ lastFromBackup = FALSE
  /\ polled = {} /\ updated = {} /\ handle = FALSE /\ finish = FALSE
  /\ attempt = Nothing /\ unseen = {}
  /\ disk \in [File -> OnDisk("main") \cup OnDisk("import")]
  /\ \A f \in File : disk[f] \in OnDisk(f)
  /\ backup = Nothing /\ good = {} /\ edits = 0 /\ restarts = 0

-----------------------------------------------------------------------------
(* The world: files change, the process dies and is started again.         *)

\* A watch sees a change of the file it was put on, its deletion included.
Edit(f, c) ==
  /\ edits < MaxEdits /\ disk[f] /= c
  /\ edits' = edits + 1
  /\ disk' = [disk EXCEPT ![f] = c]
  /\ provider' = [provider EXCEPT ![f] = IF @ = "none" THEN @ ELSE "event"]
  /\ unseen' = IF provider[f] = "none" THEN unseen \cup {f} ELSE unseen
  /\ UNCHANGED <<backup, restarts, threadPcs, trackedFiles, fileInfos,
                 subscribed, fromBackup, lastFromBackup, backupFiles,
                 pollVars, handle, finish, good, attempt>>

Restart ==
  /\ restarts < MaxRestarts
  /\ restarts' = restarts + 1
  /\ apc' = "first" /\ opc' = "off" /\ bpc' = "main"
  /\ trackedFiles' = Nothing /\ fileInfos' = Nothing /\ backupFiles' = Nothing
  /\ provider' = [f \in File |-> "none"] /\ subscribed' = {}
  /\ fromBackup' = FALSE /\ lastFromBackup' = FALSE
  /\ polled' = {} /\ updated' = {} /\ handle' = FALSE /\ finish' = FALSE
  /\ attempt' = Nothing /\ unseen' = {}
  /\ UNCHANGED <<disk, backup, edits, good>>

-----------------------------------------------------------------------------
(* createConfigBuilder and configure.  They run in spinUp (opc is "off")   *)
(* or in the callback (opc is "callback").                                 *)

\* Mutant: a file is dumped when it is read.
GetAndDump(f, c, next) ==
  /\ trackedFiles' = [trackedFiles EXCEPT ![f] = c]
  /\ backup' = [backup EXCEPT ![f] = c]
  /\ bpc' = next

\* The end of get: the file is tracked.
Get(f, c, next) ==
  /\ trackedFiles' = [trackedFiles EXCEPT ![f] = c]
  /\ UNCHANGED backup
  /\ bpc' = next

\* What the builder does with the content of file f.
AfterReading(f, c) ==
  CASE c = "garbled" -> "builderError"
    [] c = "importing" -> "import"
    [] OTHER -> "configure"

\* readFile and get.  A backup is read if it exists and is not too old;
\* otherwise, and if the backup cannot be used, the file itself.
ReadFile(f, useBackup) ==
  LET c == IF useBackup THEN backup[f] ELSE disk[f]
  IN  /\ bpc = f
      /\ useBackup => fromBackup /\ backup[f] /= NoContent
      /\ attempt' = [attempt EXCEPT ![f] = c]
      /\ unseen' = IF useBackup /\ opc = "off" THEN unseen \cup {f} ELSE unseen \ {f}
      /\ IF c = Missing
         THEN bpc' = "builderError" /\ UNCHANGED <<trackedFiles, backup>>
         ELSE Get(f, c, AfterReading(f, c))
      /\ UNCHANGED <<disk, edits, restarts, apc, opc, fileInfos, provider,
                     subscribed, fromBackup, lastFromBackup, backupFiles,
                     pollVars, handle, finish, good>>

Tracked == {f \in File : trackedFiles[f] /= NoContent}

\* configure: the routes are built and given to the proxies, or not.
ConfigureProxies ==
  /\ bpc = "configure"
  /\ IF trackedFiles["main"] = "unroutable"
     THEN bpc' = "configureError" /\ UNCHANGED <<good, fromBackup, lastFromBackup>>
     ELSE /\ bpc' = "subscribe"
          /\ good' = good \cup {<<f, trackedFiles[f]>> : f \in Tracked}
          /\ lastFromBackup' = fromBackup
          /\ fromBackup' = FALSE
  /\ UNCHANGED <<diskVars, apc, opc, trackedFiles, fileInfos, provider,
                 subscribed, backupFiles, pollVars, handle, finish, attempt, unseen>>

\* abandonTrackedSources, after which the callback has failed, while spinUp
\* reads the backups and tries again: once after a builder error, and once
\* more after an error of configure.
Abandon ==
  /\ bpc \in {"builderError", "configureError"}
  /\ trackedFiles' = Nothing
  /\ IF opc = "callback"
     THEN opc' = "loop" /\ bpc' = "idle" /\ UNCHANGED <<apc, fromBackup, attempt>>
     ELSE /\ UNCHANGED opc
          /\ IF apc = "last" \/ (apc = "backup" /\ bpc = "builderError")
             THEN apc' = "failed" /\ bpc' = "idle" /\ UNCHANGED <<fromBackup, attempt>>
             ELSE /\ apc' = IF bpc = "builderError" THEN "backup" ELSE "last"
                  /\ fromBackup' = TRUE /\ bpc' = "main" /\ attempt' = Nothing
  /\ UNCHANGED <<diskVars, fileInfos, provider, subscribed,
                 lastFromBackup, backupFiles, pollVars, handle, finish, good, unseen>>

-----------------------------------------------------------------------------
(* subscribeToTrackedSources.                                              *)

\* dumpConfigSourceToDisk: what is in use is written, if it was not already.
\* The write may fail.
Dump(f, writes) ==
  IF lastFromBackup \/ ~writes \/ backupFiles[f] = trackedFiles[f]
  THEN UNCHANGED <<backup, backupFiles>>
  ELSE /\ backup' = [backup EXCEPT ![f] = trackedFiles[f]]
       /\ backupFiles' = [backupFiles EXCEPT ![f] = trackedFiles[f]]

\* Mutant: a new watch in place of the one there is.
ProvideAnew(f, watches) ==
  provider' = [provider EXCEPT
    ![f] = IF watches /\ disk[f] /= Missing THEN "quiet" ELSE "none"]

\* An existing provider is kept, with its pending events; a new one cannot be
\* made for a file that is not there, or may fail.
Provide(f, watches) ==
  provider' = [provider EXCEPT
    ![f] = IF @ /= "none" THEN @
           ELSE IF watches /\ disk[f] /= Missing THEN "quiet" ELSE "none"]

SubscribeFile(f, writes, watches) ==
  /\ bpc = "subscribe"
  /\ f \in Tracked \ subscribed
  /\ Dump(f, writes)
  /\ Provide(f, watches)
  /\ subscribed' = subscribed \cup {f}
  /\ UNCHANGED <<disk, edits, restarts, threadPcs, trackedFiles, fileInfos,
                 fromBackup, lastFromBackup, pollVars, handle, finish,
                 historyVars>>

\* fileInfos_ is replaced; the providers of files not used any more go.
SubscribeEnds ==
  /\ bpc = "subscribe"
  /\ subscribed = Tracked
  /\ fileInfos' = trackedFiles
  /\ provider' = [f \in File |-> IF f \in Tracked THEN provider[f] ELSE "none"]
  /\ trackedFiles' = Nothing /\ subscribed' = {}
  /\ bpc' = "idle"
  /\ IF opc = "callback"
     THEN opc' = "loop" /\ UNCHANGED apc
     ELSE apc' = "observe" /\ UNCHANGED opc
  /\ UNCHANGED <<diskVars, fromBackup, lastFromBackup, backupFiles,
                 pollVars, handle, finish, historyVars>>

-----------------------------------------------------------------------------
(* The thread that starts and stops the router.  The lock of callbacks_ is *)
(* held for reading while a callback runs, and for writing to come or go.  *)

StartObserving ==
  /\ apc = "observe"
  /\ apc' = "handle" /\ opc' = "loop"
  /\ UNCHANGED <<diskVars, bpc, buildVars, pollVars, handle, finish, historyVars>>

SubscribeToConfigUpdate ==
  /\ apc = "handle" /\ opc /= "callback"
  /\ apc' = "up" /\ handle' = TRUE
  /\ UNCHANGED <<diskVars, opc, bpc, buildVars, pollVars, finish, historyVars>>

JoinAuxiliaryThreads ==
  /\ apc = "up" /\ opc /= "callback"
  /\ apc' = "stop" /\ handle' = FALSE
  /\ UNCHANGED <<diskVars, opc, bpc, buildVars, pollVars, finish, historyVars>>

StopObserving ==
  /\ apc = "stop"
  /\ apc' = "join" /\ finish' = TRUE
  /\ UNCHANGED <<diskVars, opc, bpc, buildVars, pollVars, handle, historyVars>>

ThreadJoined ==
  /\ apc = "join" /\ opc = "exited"
  /\ apc' = "down"
  /\ UNCHANGED <<diskVars, opc, bpc, buildVars, pollVars, handle, finish, historyVars>>

-----------------------------------------------------------------------------
(* configThreadRun.                                                        *)

LoopOrFinish ==
  /\ opc = "loop"
  /\ opc' = IF finish THEN "exited" ELSE "check"
  /\ polled' = {} /\ updated' = {}
  /\ UNCHANGED <<diskVars, apc, bpc, buildVars, handle, finish, historyVars>>

\* A file of fileInfos_ that has a provider without events, or none.
CheckQuietFile(f) ==
  /\ opc = "check" /\ fileInfos[f] /= NoContent /\ f \notin polled
  /\ provider[f] /= "event"
  /\ polled' = polled \cup {f}
  /\ UNCHANGED <<diskVars, threadPcs, buildVars, updated, handle, finish, historyVars>>

\* hasUpdate: the events are read, and a new watch is put on the file.
CheckChangedFile(f) ==
  /\ opc = "check" /\ fileInfos[f] /= NoContent /\ f \notin polled
  /\ provider[f] = "event" /\ disk[f] /= Missing
  /\ polled' = polled \cup {f} /\ updated' = updated \cup {f}
  /\ provider' = [provider EXCEPT ![f] = "quiet"]
  /\ UNCHANGED <<diskVars, threadPcs, trackedFiles, fileInfos, subscribed,
                 fromBackup, lastFromBackup, backupFiles, handle, finish, historyVars>>

\* The new watch fails: the provider is given up.  If the last look at the
\* hash is long ago, the hash is looked at now.
CheckFails(f, hash) ==
  /\ opc = "check" /\ fileInfos[f] /= NoContent /\ f \notin polled
  /\ provider[f] = "event"
  /\ provider' = [provider EXCEPT ![f] = "none"]
  /\ ~(hash /\ disk[f] = Missing)
  /\ polled' = polled \cup {f}
  /\ updated' = IF hash /\ disk[f] /= fileInfos[f] THEN updated \cup {f} ELSE updated
  /\ fileInfos' = IF hash THEN [fileInfos EXCEPT ![f] = disk[f]] ELSE fileInfos
  /\ UNCHANGED <<diskVars, threadPcs, trackedFiles, subscribed,
                 fromBackup, lastFromBackup, backupFiles, handle, finish, historyVars>>

\* checkMd5Changed cannot read the file: checkFileUpdate throws, and what it
\* has found so far is forgotten.
CheckThrows(f) ==
  /\ opc = "check" /\ fileInfos[f] /= NoContent /\ f \notin polled
  /\ provider[f] = "event" /\ disk[f] = Missing
  /\ provider' = [provider EXCEPT ![f] = "none"]
  /\ opc' = "delay" /\ updated' = {}
  /\ unseen' = unseen \cup updated
  /\ UNCHANGED <<diskVars, apc, bpc, trackedFiles, fileInfos, subscribed,
                 fromBackup, lastFromBackup, backupFiles, polled, handle, finish,
                 good, attempt>>

CheckEnds ==
  /\ opc = "check"
  /\ \A f \in File : fileInfos[f] /= NoContent => f \in polled
  /\ opc' = "delay"
  /\ UNCHANGED <<diskVars, apc, bpc, buildVars, pollVars, handle, finish, historyVars>>

\* After reconfiguration_delay_ms: callbacks_.notify(), if there was an update.
Notify ==
  /\ opc = "delay"
  /\ IF updated = {} \/ ~handle
     THEN /\ opc' = "loop" /\ unseen' = unseen \cup updated
          /\ UNCHANGED <<bpc, attempt>>
     ELSE /\ opc' = "callback" /\ bpc' = "main" /\ attempt' = Nothing
          /\ UNCHANGED unseen
  /\ polled' = {} /\ updated' = {}
  /\ UNCHANGED <<diskVars, apc, buildVars, handle, finish, good>>

-----------------------------------------------------------------------------
ReadSteps ==
  \E f \in File, b \in BOOLEAN : ReadFile(f, b)

SubscribeSteps ==
  \E f \in File, w, p \in BOOLEAN : SubscribeFile(f, w, p)

Build == ReadSteps \/ ConfigureProxies \/ Abandon \/ SubscribeSteps \/ SubscribeEnds

ThreadSteps ==
  \/ LoopOrFinish \/ CheckEnds \/ Notify
  \/ \E f \in File : CheckQuietFile(f) \/ CheckChangedFile(f) \/ CheckThrows(f)
  \/ \E f \in File, h \in BOOLEAN : CheckFails(f, h)

RouterSteps ==
  \/ StartObserving \/ SubscribeToConfigUpdate \/ JoinAuxiliaryThreads
  \/ StopObserving \/ ThreadJoined

ApiNext ==
  \/ \E f \in File : \E c \in OnDisk(f) : Edit(f, c)
  \/ Restart
  \/ Build \/ ThreadSteps \/ RouterSteps

\* The threads run; nobody has to edit, restart or shut down anything.
ApiSpec ==
  /\ api_init /\ [][ApiNext]_apiVars
  /\ WF_apiVars(Build) /\ WF_apiVars(ThreadSteps)
  /\ WF_apiVars(StartObserving \/ SubscribeToConfigUpdate)

-----------------------------------------------------------------------------
\* No change of a watched file goes unnoticed.  When no configuration is being
\* built, a file whose watch is quiet and that has no update on its way to the
\* callback contains what the last attempt to configure has read, whether or
\* not the attempt succeeded.  The exceptions (unseen) are the changes that
\* come between the first reading of a file and the creation of its watch,
\* while it has no watch, when nobody is subscribed yet, or when another file
\* makes checkFileUpdate throw; and files that spinUp read from their backup.
NoChangeMissed ==
  bpc = "idle" =>
    \A f \in File :
      provider[f] = "quiet" /\ f \notin updated \cup unseen /\ attempt[f] /= NoContent
        => disk[f] = attempt[f]

\* What a later start can fall back to was in use: every backup is the content
\* of a file that was part of a configuration the proxies got, in this life of
\* the process or an earlier one, although files change while they are read
\* and dumped, attempts fail, and the process dies between two dumps.
BackupsGood ==
  \A f \in File : backup[f] /= NoContent => <<f, backup[f]>> \in good

\* A file that cannot be watched is checked for a change of its hash
\* (subscribeToTrackedSources: "it's not that bad, we will check for change in
\* hash"): if such a file differs from what was loaded, either that changes,
\* or the router reconfigures.
HashChecked ==
  \A f \in File :
    apc = "up" /\ provider[f] = "none" /\ fileInfos[f] \notin {NoContent, disk[f]}
      /\ disk[f] /= Missing
    ~> \/ opc = "callback" \/ apc /= "up" \/ provider[f] /= "none"
       \/ fileInfos[f] \in {NoContent, disk[f]} \/ disk[f] = Missing
=============================================================================
