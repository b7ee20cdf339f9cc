--------------------------- MODULE ServerSession ---------------------------
(***************************************************************************)
(* One connection of the memcache server: McServerSession with its request *)
(* contexts (McServerRequestContext), multi-gets (MultiOpParent) and write *)
(* buffers (WriteBufferQueue).                                             *)
(*                                                                         *)
(* Everything runs on one thread, but handlers call each other deeply:     *)
(* destroying a context can resume reading or destroy the session, closing *)
(* can end a multi-get, which replies.  A function of the code is therefore*)
(* an operator from the session's state s to the state it leaves; an event *)
(* of the loop is an action that applies one of them.                      *)
(*                                                                         *)
(* The parser may hand over several requests of one buffer; the socket's   *)
(* answer to a write is an event of its own.  Contexts are numbered in the *)
(* order of their creation, which is their reqid on an ASCII connection.   *)
(* Bytes, compression, TLS handshakes, zero copy and debug fifos are left  *)
(* out.                                                                    *)
(***************************************************************************)
EXTENDS Integers, Sequences, SequencesExt, FiniteSetsExt

CONSTANTS MaxItems,     \* bound: requests the client sends
          MaxId,        \* bound: contexts created
          MaxInFlight,  \* options_.maxInFlight, 0 for no limit
          GoAway        \* options_.goAwayTimeout > 0

ASSUME SessionAssumption ==
  /\ MaxItems \in Nat /\ MaxId \in Nat /\ MaxInFlight \in Nat
  /\ GoAway \in BOOLEAN

Id == 1 .. MaxId
NoId == 0

VARIABLES ordered,      \* an ASCII connection; otherwise Caret
          singleWrite,  \* options_.singleWrite
          s,            \* the session
          reading,      \* the parser is inside a buffer it was given
          items         \* requests parsed so far

vars == <<ordered, singleWrite, s, reading, items>>

\* What the client may send, and what the handler may answer.
AsciiItems == {"get", "longkey", "end", "set", "quiet", "version", "quit", "garbage"}
CaretItems == {"set", "version", "ack", "garbage"}
Results == {"hit", "miss", "error"}

\* none: not created; open: its handler has it; replied: it waits in a write
\* buffer (a block context: in its parent); done: destroyed.
Stages == {"none", "open", "replied", "done"}

Fresh ==
  [state    |-> "STREAMING",
   pause    |-> {},                      \* pauseState_
   readCB   |-> TRUE,                    \* the transport calls us for input
   good     |-> TRUE,                    \* transport_->good()
   inFlight |-> 0,                       \* inFlight_
   real     |-> 0,                       \* realRequestsInFlight_
   head     |-> 1,                       \* headReqid_
   tail     |-> 1,                       \* tailReqid_, also for Caret
   blocked  |-> {},                      \* blockedReplies_ with a buffer
   blank    |-> {},                      \* blockedReplies_ without one
   pending  |-> <<>>,                    \* pendingWrites_
   sched    |-> FALSE,                   \* writeScheduled_
   bufs     |-> <<>>,                    \* writeBufs_, one entry per batch
   sent     |-> <<>>,                    \* replies given to the transport
   multi    |-> NoId,                    \* currentMultiop_, by its block_
   goAway   |-> FALSE,                   \* goAwayTimeout_ is scheduled
   asked    |-> FALSE,                   \* the worker has shut down
   late     |-> FALSE,                   \* a command came after CLOSED
   st       |-> [i \in Id |-> "none"],
   kind     |-> [i \in Id |-> "plain"],  \* plain, sub, end or block
   parent   |-> [i \in Id |-> NoId],     \* the multi-get of a sub-request
   noReply  |-> [i \in Id |-> FALSE],    \* noReply_
   res      |-> [i \in Id |-> "none"],   \* what the handler answered
   waiting  |-> [i \in Id |-> 0],        \* MultiOpParent::waiting_, by block_
   error    |-> [i \in Id |-> FALSE],    \* MultiOpParent::error_
   endOf    |-> [i \in Id |-> NoId]]     \* MultiOpParent::end_

Init ==
  /\ ordered \in BOOLEAN /\ singleWrite \in BOOLEAN
  /\ s = Fresh
  /\ reading = FALSE
  /\ items = 0

-----------------------------------------------------------------------------
\* The state that Op leaves when it runs on t.
Then(t, Op(_)) == CHOOSE u \in {Op(v) : v \in {t}} : TRUE

Live(t, i) == t.st[i] \in {"open", "replied"}
IsSub(t, i) == t.kind[i] \in {"sub", "end"}

Pause(t, why) == [t EXCEPT !.pause = @ \cup {why}, !.readCB = FALSE]

\* Mutant: reading goes on as soon as one reason to pause is gone.
ResumeAtOnce(t, why) ==
  [t EXCEPT !.pause = @ \ {why},
            !.readCB = @ \/ (t.state = "STREAMING" /\ t.good)]

\* resume: reads are enabled when no reason to pause is left.
Resume(t, why) ==
  LET left == t.pause \ {why} IN
  [t EXCEPT !.pause = left,
            !.readCB = @ \/ (left = {} /\ t.state = "STREAMING" /\ t.good)]

Started(t, sub) ==
  LET counts == MaxInFlight > 0 /\ ~sub IN
  Then([t EXCEPT !.inFlight = @ + 1, !.real = IF counts THEN @ + 1 ELSE @],
       LAMBDA u : IF counts /\ u.real >= MaxInFlight THEN Pause(u, "throttled") ELSE u)

\* checkClosed: the last context is gone and close was called.
CheckClosed(t) ==
  IF t.inFlight = 0 /\ t.state = "CLOSING"
  THEN [t EXCEPT !.state = "CLOSED", !.readCB = FALSE]
  ELSE t

\* onTransactionCompleted for the contexts of D.
Completed(t, D) ==
  LET direct == IF MaxInFlight > 0 THEN {i \in D : ~IsSub(t, i)} ELSE {}
      counted == [t EXCEPT !.st = [i \in Id |-> IF i \in D THEN "done" ELSE @[i]],
                           !.inFlight = @ - Cardinality(D),
                           !.real = @ - Cardinality(direct)]
      Freed(u) == IF direct /= {} /\ u.real < MaxInFlight
                  THEN Resume(u, "throttled") ELSE u
  IN Then(Then(counted, Freed), CheckClosed)


\* The block contexts of multi-gets that nobody holds once D is destroyed: not
\* the session as its current one, and no other sub-request.
Unheld(t, D) ==
  {b \in Id : /\ t.kind[b] = "block" /\ Live(t, b) /\ t.multi /= b
              /\ \A i \in Id : t.parent[i] = b => ~Live(t, i) \/ i \in D}

\* ~McServerRequestContext for the contexts of D, and ~MultiOpParent.
Destroy(t, D) == Completed(t, D \cup Unheld(t, D))

\* A new McServerRequestContext with the next number.
NewContext(t, kind, parent, noReply) ==
  LET i == t.tail
      made == [t EXCEPT !.tail = @ + 1, !.st[i] = "open", !.kind[i] = kind,
                        !.parent[i] = parent, !.noReply[i] = noReply,
                        !.waiting = IF parent = NoId THEN @
                                    ELSE [@ EXCEPT ![parent] = @ + 1]]
  IN Then(made, LAMBDA u : Started(u, kind \in {"sub", "end"}))

-----------------------------------------------------------------------------
\* queueWrite for several buffers: at once, or at the end of the loop.
QueueWrites(t, ids) ==
  CASE ids = <<>> -> t
    [] ids /= <<>> /\ singleWrite ->
         Pause([t EXCEPT !.bufs = @ \o [k \in DOMAIN ids |-> <<ids[k]>>],
                         !.sent = @ \o ids], "write")
    [] OTHER -> [t EXCEPT !.pending = @ \o ids, !.sched = TRUE]

\* Mutant: a reply is written as soon as it is there.
SessionReplyAtOnce(t, i, buffer) ==
  QueueWrites(t, IF buffer THEN <<i>> ELSE <<>>)

\* McServerSession::reply: on an ordered connection the reply waits until
\* all earlier ones are there; the first one missing takes along those that
\* follow it without a gap.
SessionReply(t, i, buffer) ==
  LET blocked == IF buffer THEN t.blocked \cup {i} ELSE t.blocked
      blank == IF buffer THEN t.blank ELSE t.blank \cup {i}
      next == Min({n \in t.head .. t.tail : n \notin blocked \cup blank})
      ready == SelectSeq([k \in 1 .. next - t.head |-> t.head + k - 1],
                         LAMBDA n : n \in blocked)
  IN IF ordered
     THEN Then([t EXCEPT !.head = next,
                         !.blocked = {n \in blocked : n > next},
                         !.blank = {n \in blank : n > next}],
               LAMBDA u : QueueWrites(u, ready))
     ELSE QueueWrites(t, IF buffer THEN <<i>> ELSE <<>>)

\* McServerRequestContext::noReply, for replies other than lease-gets.
NoReply(t, i, res) ==
  \/ t.noReply[i]
  \/ t.parent[i] /= NoId /\ (t.error[t.parent[i]] \/ res /= "hit")

\* replyImpl2: the context moves into a write buffer, or stays with its owner
\* (who destroys it) when there is nothing to write.
ReplyImpl(t, i, res) ==
  LET buffer == ~NoReply(t, i, res) IN
  Then([t EXCEPT !.st[i] = "replied"], LAMBDA u : SessionReply(u, i, buffer))

\* MultiOpParent::release: first the end, then the block in front.
Release(t, b) ==
  Then(ReplyImpl(t, t.endOf[b], "hit"), LAMBDA u : ReplyImpl(u, b, "hit"))

\* MultiOpParent::reply: the first error is kept for the end context, and the
\* last sub-request releases the replies.
ParentReply(t, b, res) ==
  Then([t EXCEPT !.error[b] = @ \/ res = "error", !.waiting[b] = @ - 1],
       LAMBDA u : IF u.waiting[b] = 0 /\ u.endOf[b] /= NoId THEN Release(u, b) ELSE u)

\* McServerRequestContext::reply as the handler calls it, and the end of the
\* context if it has no write buffer.
HandlerReplies(t, i, res) ==
  LET noted == [t EXCEPT !.res[i] = res]
      Answered(u) ==
        IF NoReply(u, i, res)
        THEN Then(ReplyImpl(u, i, res), LAMBDA v : Destroy(v, {i}))
        ELSE ReplyImpl(u, i, res)
  IN IF t.parent[i] = NoId
     THEN Then(noted, Answered)
     ELSE Then(Then(noted, LAMBDA u : ParentReply(u, t.parent[i], res)), Answered)

\* processMultiOpEnd.
ProcessMultiOpEnd(t) ==
  LET b == t.multi
      Ended(u) == [u EXCEPT !.endOf[b] = t.tail]
      Released(u) == IF u.waiting[b] = 0 THEN Release(u, b) ELSE u
      Reset(u) == Then([u EXCEPT !.multi = NoId], LAMBDA v : Destroy(v, {}))
  IN Then(Then(Then(NewContext(t, "end", NoId, FALSE), Ended), Released), Reset)

\* close stops reading, completes a multi-get that was cut off, and starts
\* closing if nobody did before.
Off(t) == [t EXCEPT !.goAway = FALSE, !.readCB = FALSE]
Closing(t) == CheckClosed([t EXCEPT !.state = IF @ = "STREAMING" THEN "CLOSING" ELSE @])

\* Mutant: a multi-get that was cut off is forgotten.
CloseWithoutEnd(t) == Then(Off(t), Closing)

Close(t) ==
  IF t.multi = NoId
  THEN Then(Off(t), Closing)
  ELSE Then(Then(Off(t), ProcessMultiOpEnd), Closing)

\* A command that the session answers itself, and that has no reply if quiet.
Command(t, quiet) ==
  Then(NewContext(t, "plain", NoId, quiet), LAMBDA u : HandlerReplies(u, t.tail, "hit"))

\* beginClose: with GoAway, the client is asked to leave first.
BeginClose(t) ==
  LET asked == [t EXCEPT !.asked = TRUE] IN
  IF ~GoAway \/ ordered
  THEN Then(asked, Close)
  ELSE [Command(asked, FALSE) EXCEPT !.goAway = TRUE]

-----------------------------------------------------------------------------
\* asciiRequestReady for a key of a get: the first one opens a multi-get.
GetReady(t) ==
  LET Opened == [NewContext(t, "block", NoId, TRUE) EXCEPT !.multi = t.tail]
  IN Then(IF t.multi = NoId THEN Opened ELSE t,
          LAMBDA u : NewContext(u, "sub", u.multi, FALSE))

\* onRequest(McQuitRequest): the context lives until close has returned.
QuitReady(t) ==
  LET i == t.tail
      Replied(u) == ReplyImpl(u, i, "hit")
      Done(u) == Destroy(u, {i})
  IN Then(Then(Then(NewContext(t, "plain", NoId, TRUE), Replied), Close), Done)

ParseError(t) == Then(Command(t, FALSE), Close)

\* caretRequestReady whose body does not parse: the context is thrown away.
BadBody(t) ==
  Then(Then(NewContext(t, "plain", NoId, FALSE), LAMBDA u : Destroy(u, {t.tail})),
       ParseError)

\* What the parser's callbacks do with one item.  Those for version and quit
\* do not look at state_; the others drop what comes after close.
Handle(t, item) ==
  CASE ordered /\ item \in {"version", "quit"} /\ t.state = "CLOSED" ->
         [t EXCEPT !.late = TRUE]
    [] ordered /\ item = "version" /\ t.state /= "CLOSED" -> Command(t, FALSE)
    [] ordered /\ item = "quit" /\ t.state /= "CLOSED" -> QuitReady(t)
    [] ~(ordered /\ item \in {"version", "quit"}) /\ t.state /= "STREAMING" -> t
    [] ~ordered /\ item = "version" /\ t.state = "STREAMING" -> Command(t, FALSE)
    [] item = "get" /\ t.state = "STREAMING" -> GetReady(t)
    [] item = "longkey" /\ t.state = "STREAMING" ->
         Then(GetReady(t), LAMBDA u : HandlerReplies(u, u.tail - 1, "error"))
    [] item = "end" /\ t.state = "STREAMING" -> ProcessMultiOpEnd(t)
    [] item \in {"set", "quiet"} /\ t.state = "STREAMING" ->
         NewContext(t, "plain", NoId, item = "quiet")
    [] item = "ack" /\ t.state = "STREAMING" -> Close(t)
    [] item = "garbage" /\ t.state = "STREAMING" ->
         IF ordered THEN ParseError(t) ELSE BadBody(t)

\* Whether the parser can meet the item here: inside a multi-get only more
\* keys, its end or garbage; an acknowledgement only after a GoAway.
Parsable(item) ==
  /\ item \in IF ordered THEN AsciiItems ELSE CaretItems
  /\ s.multi /= NoId => item \in {"get", "longkey", "end", "garbage"}
  /\ item = "end" => s.multi /= NoId
  /\ item = "ack" => s.goAway

\* The bounds: each item takes at most three contexts, and one is kept for
\* the end of an open multi-get and one for a GoAway.
Room == items < MaxItems /\ s.tail + 4 <= MaxId

\* readDataAvailable: the next item of the buffer; more says whether the
\* buffer goes on after it.
Read(item, more) ==
  /\ Room /\ Parsable(item)
  /\ reading \/ (s.readCB /\ s.good)
  /\ s' = Handle(s, item)
  /\ reading' = more
  /\ items' = items + 1
  /\ UNCHANGED <<ordered, singleWrite>>

\* The buffer ends.
ReadEnd ==
  /\ reading
  /\ reading' = FALSE
  /\ UNCHANGED <<ordered, singleWrite, s, items>>

\* The handler of a request replies, inside its callback or later.
ReplyNow(i) ==
  /\ s.st[i] = "open" /\ s.kind[i] \in {"plain", "sub"}
  /\ \E res \in Results :
       /\ s.kind[i] = "plain" => res = "hit"
       /\ s' = HandlerReplies(s, i, res)
  /\ UNCHANGED <<ordered, singleWrite, reading, items>>

\* An event of the loop, at which the parser is not running.
Event(t) ==
  /\ ~reading /\ s.state /= "CLOSED"
  /\ s' = t
  /\ UNCHANGED <<ordered, singleWrite, reading, items>>

\* Mutant: the buffers of a failed multi-get are written too.
OnWire(t) == t.pending

\* The pending replies that are written: not those of a failed multi-get.
ToWrite(t) == SelectSeq(t.pending,
                        LAMBDA i : t.parent[i] = NoId \/ ~t.error[t.parent[i]])

SendWrites ==
  /\ s.sched
  /\ Event([s EXCEPT !.sched = FALSE, !.pending = <<>>,
                     !.bufs = Append(@, s.pending), !.sent = @ \o ToWrite(s)])

\* completeWrite: the contexts of the oldest batch are destroyed.
CompleteWrite(t) ==
  Then([t EXCEPT !.bufs = Tail(@)], LAMBDA u : Destroy(u, ToSet(Head(t.bufs))))

WriteSuccess ==
  /\ s.bufs /= <<>> /\ s.good
  /\ Event(Then(CompleteWrite(s),
                LAMBDA t : IF t.bufs = <<>> /\ t.state = "STREAMING"
                           THEN Resume(t, "write") ELSE t))

WriteErr ==
  /\ s.bufs /= <<>> /\ ~s.good
  /\ Event(Then(CompleteWrite(s), Close))

\* The connection breaks; whoever has a callback installed is told.
TransportFails ==
  /\ s.good
  /\ Event([s EXCEPT !.good = FALSE])

ReadErr ==
  /\ ~s.good /\ s.readCB
  /\ Event(Close(s))

\* The client closes its side, or the tracker evicts the session.
ReadEOF ==
  /\ s.readCB /\ s.good
  /\ Event(Close(s))

Evict ==
  /\ s.state = "STREAMING"
  /\ Event(Close(s))

\* AsyncMcServerWorker::shutdown, through ConnectionTracker::closeAll.
Shutdown ==
  /\ ~s.asked /\ s.tail + 1 <= MaxId
  /\ Event(BeginClose(s))

GoAwayTimeout ==
  /\ s.goAway
  /\ Event(Close(s))

Next ==
  \/ \E item \in AsciiItems \cup CaretItems, more \in BOOLEAN : Read(item, more)
  \/ ReadEnd
  \/ \E i \in Id : ReplyNow(i)
  \/ SendWrites \/ WriteSuccess \/ WriteErr
  \/ TransportFails \/ ReadErr \/ ReadEOF \/ Evict \/ Shutdown \/ GoAwayTimeout

\* The loop runs, handlers reply, and the transport accepts or refuses every
\* write (sendTimeout).  Nobody has to send or to close anything.
Fairness ==
  /\ WF_vars(ReadEnd) /\ WF_vars(SendWrites)
  /\ WF_vars(WriteSuccess) /\ WF_vars(WriteErr) /\ WF_vars(ReadErr)
  /\ WF_vars(GoAwayTimeout)
  /\ \A i \in Id : WF_vars(ReplyNow(i))

Spec == Init /\ [][Next]_vars /\ Fairness

-----------------------------------------------------------------------------

\* On an ASCII connection replies reach the transport in the order of the
\* requests, whatever the order in which the handlers answer: nothing that
\* still has to be written is older than something that was.
RepliesInOrder ==
  ordered =>
    \A k \in DOMAIN s.sent :
      /\ k > 1 => s.sent[k - 1] < s.sent[k]
      /\ \A j \in Id : j < s.sent[k] =>
           /\ s.st[j] /= "open" \/ s.kind[j] = "block"
           /\ j \notin s.blocked /\ j \notin ToSet(s.pending)

\* When the end of a multi-get is written, either every hit of it was written
\* before, or the end carries an error and none of its hits was (batched
\* writes; a session with singleWrite writes the hits before an error).
AllOrError ==
  ~singleWrite =>
    \A b \in Id : s.endOf[b] \in ToSet(s.sent) =>
      \A i \in Id : s.parent[i] = b =>
        (i \in ToSet(s.sent)) = (~s.error[b] /\ s.res[i] = "hit")

\* While a session streams over a working transport, it reads exactly when no
\* reason to pause is left, the throttle is on exactly when maxInFlight
\* requests are in flight, and it reads when nothing is in flight: no pause
\* is forgotten.  A session that is destroyed does not read.  (One that is
\* closing may: close, in the middle of a multi-get, completes it while the
\* state still is STREAMING, and its block context then resumes reading.)
ReadsEnabled ==
  /\ s.state = "STREAMING" /\ s.good =>
       /\ s.readCB = (s.pause = {})
       /\ MaxInFlight > 0 => ("throttled" \in s.pause) = (s.real >= MaxInFlight)
       /\ s.inFlight = 0 => s.readCB
  /\ s.state = "CLOSED" => ~s.readCB

\* Once close was called the session ends: every multi-get that was cut off
\* is completed, every reply is written or refused, and the last context
\* destroys the session.
ClosesEventually == s.state = "CLOSING" \/ s.goAway ~> s.state = "CLOSED"
=============================================================================
