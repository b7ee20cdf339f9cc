------------------------------ MODULE TkoTracker ------------------------------
(***************************************************************************)
(* TkoTracker (mcrouter/TkoTracker.cpp) and its caller                     *)
(* ProxyDestination::handleTko, one step per access to a shared atomic.    *)
(*                                                                         *)
(* Every proxy thread has its own ProxyDestination for a server; those of  *)
(* one server share a TkoTracker.  A destination runs one tracker call at  *)
(* a time (its proxy thread is single threaded), the calls of different    *)
(* destinations interleave.                                                *)
(*                                                                         *)
(* sumFailures_ keeps its representation: a number below the threshold     *)
(* counts soft failures, the address of a destination makes that           *)
(* destination responsible for a soft TKO, the address with its lowest bit *)
(* set for a hard one.  Destinations are therefore even numbers above the  *)
(* threshold, as pointers to objects are.                                  *)
(***************************************************************************)
EXTENDS Integers, FiniteSets

CONSTANTS
    Dst,         \* addresses of the ProxyDestinations
    Tracker,     \* the servers
    TrackerOf,   \* TrackerOf[d]: the server of destination d
    Threshold,   \* tkoThreshold_ (failures_until_tko)
    MaxFailures  \* bound of the model on consecutiveFailureCount_

ASSUME DstAssumption ==
    /\ IsFiniteSet(Dst)
    /\ Dst \subseteq {a \in Nat : a % 2 = 0 /\ a > Threshold}
ASSUME TrackerAssumption == TrackerOf \in [Dst -> Tracker]
ASSUME ThresholdAssumption == Threshold \in Nat \ {0}
ASSUME MaxFailuresAssumption == MaxFailures \in Nat

VARIABLES
    sumFailures,    \* sumFailures[t]: TkoTracker::sumFailures_
    failureCount,   \* failureCount[t]: TkoTracker::consecutiveFailureCount_
    tkoReason,      \* tkoReason[t]: TkoTracker::tkoReason_
    softTkos,       \* TkoCounters::softTkos, shared by all trackers
    hardTkos,       \* TkoCounters::hardTkos
    alive,          \* the destinations that exist
    probing,        \* the destinations with a probe timer (probeTimer_)
    pc,             \* pc[d]: where the call of d is, "idle" between calls
    cur,            \* cur[d]: the local curSumFailures
    value,          \* value[d]: the local value of the CAS loops
    isProbe         \* isProbe[d]: the is_probe_req argument of handleTko

shared == <<sumFailures, failureCount, tkoReason, softTkos, hardTkos>>
locals == <<pc, cur, value, isProbe>>
vars == <<shared, alive, probing, locals>>

PCs == {"idle",
        "soft.count", "soft.isTko", "soft.load", "soft.decide", "soft.cas",
        "soft.reason",
        "hard.count", "hard.isHard", "hard.isResponsible", "hard.convert",
        "hard.decSoft", "hard.incHard", "hard.load", "hard.cas", "hard.mark",
        "hard.reason",
        "ok.isTko", "ok.isResponsible", "ok.isSoft", "ok.decSoft", "ok.isHard",
        "ok.decHard", "ok.clear", "ok.clearCount", "ok.clearReason",
        "ok.isZero", "ok.load", "ok.cas", "ok.resetCount",
        "remove"}

Reasons == {"unknown", "timeout", "connect_error"}

-----------------------------------------------------------------------------

Goto(d, l) ==
    /\ pc' = [pc EXCEPT ![d] = l]
    /\ UNCHANGED <<cur, value, isProbe>>

(* Leave the call; its local variables are gone.                           *)
Return(d) ==
    /\ pc' = [pc EXCEPT ![d] = "idle"]
    /\ cur' = [cur EXCEPT ![d] = 0]
    /\ value' = [value EXCEPT ![d] = 0]
    /\ isProbe' = [isProbe EXCEPT ![d] = FALSE]

(* sumFailures_ > tkoThreshold_, and the two kinds told apart by its LSB.  *)
IsTko(s) == s > Threshold
IsHardTko(s) == IsTko(s) /\ s % 2 = 1
IsSoftTko(s) == IsTko(s) /\ s % 2 = 0

(* (sumFailures_ & ~1) == pdstn                                            *)
IsResponsible(s, d) == s - (s % 2) = d

(* pdstn | 1, of an even pdstn                                             *)
HardMark(d) == d + 1

Init ==
    /\ sumFailures = [t \in Tracker |-> 0]
    /\ failureCount = [t \in Tracker |-> 0]
    /\ tkoReason = [t \in Tracker |-> "unknown"]
    /\ softTkos = 0
    /\ hardTkos = 0
    /\ alive = Dst
    /\ probing = {}
    /\ pc = [d \in Dst |-> "idle"]
    /\ cur = [d \in Dst |-> 0]
    /\ value = [d \in Dst |-> 0]
    /\ isProbe = [d \in Dst |-> FALSE]

-----------------------------------------------------------------------------
(* ProxyDestination::handleTko: the reply to a request, or to a probe.     *)
(* Probes are sent only while the probe timer exists.                      *)

HandleSoftError(d) ==
    /\ d \in alive
    /\ pc[d] = "idle"
    /\ failureCount[TrackerOf[d]] < MaxFailures
    /\ Goto(d, "soft.count")
    /\ UNCHANGED <<shared, alive, probing>>

HandleHardError(d) ==
    /\ d \in alive
    /\ pc[d] = "idle"
    /\ failureCount[TrackerOf[d]] < MaxFailures
    /\ Goto(d, "hard.count")
    /\ UNCHANGED <<shared, alive, probing>>

HandleSuccess(d, probe) ==
    /\ d \in alive
    /\ pc[d] = "idle"
    /\ probe => d \in probing
    /\ pc' = [pc EXCEPT ![d] = "ok.isTko"]
    /\ isProbe' = [isProbe EXCEPT ![d] = probe]
    /\ UNCHANGED <<shared, alive, probing, cur, value>>

(* if (tracker->isTko()) { if (is_probe_req && recordSuccess()) ... }      *)
(* else recordSuccess()                                                    *)
HandleIsTko(d) ==
    /\ pc[d] = "ok.isTko"
    /\ IF IsTko(sumFailures[TrackerOf[d]]) /\ ~isProbe[d]
         THEN Return(d)
         ELSE Goto(d, "ok.isResponsible")
    /\ UNCHANGED <<shared, alive, probing>>

-----------------------------------------------------------------------------
(* TkoTracker::recordSoftFailure                                           *)

SoftCount(d) ==
    /\ pc[d] = "soft.count"
    /\ failureCount' = [failureCount EXCEPT ![TrackerOf[d]] = @ + 1]
    /\ Goto(d, "soft.isTko")
    /\ UNCHANGED <<sumFailures, tkoReason, softTkos, hardTkos, alive, probing>>

SoftIsTko(d) ==
    /\ pc[d] = "soft.isTko"
    /\ IF IsTko(sumFailures[TrackerOf[d]])
         THEN Return(d)
         ELSE Goto(d, "soft.load")
    /\ UNCHANGED <<shared, alive, probing>>

SoftLoad(d) ==
    /\ pc[d] = "soft.load"
    /\ cur' = [cur EXCEPT ![d] = sumFailures[TrackerOf[d]]]
    /\ value' = [value EXCEPT ![d] = 0]
    /\ pc' = [pc EXCEPT ![d] = "soft.decide"]
    /\ UNCHANGED <<shared, alive, probing, isProbe>>

(* Mutant: a retry increments the soft TKO counter again.                  *)
SoftDecideRecount(d) ==
    /\ pc[d] = "soft.decide"
    /\ IF cur[d] = Threshold - 1
         THEN /\ softTkos' = softTkos + 1
              /\ value' = [value EXCEPT ![d] = d]
              /\ pc' = [pc EXCEPT ![d] = "soft.cas"]
              /\ UNCHANGED <<cur, isProbe>>
         ELSE /\ softTkos' = IF value[d] = d THEN softTkos - 1 ELSE softTkos
              /\ IF IsTko(cur[d])
                   THEN Return(d)
                   ELSE /\ value' = [value EXCEPT ![d] = cur[d] + 1]
                        /\ pc' = [pc EXCEPT ![d] = "soft.cas"]
                        /\ UNCHANGED <<cur, isProbe>>
    /\ UNCHANGED <<sumFailures, failureCount, tkoReason, hardTkos, alive, probing>>

(* The loop body: decide the value to swap in.  The soft TKO counter is    *)
(* incremented before responsibility is taken, and decremented again when  *)
(* an earlier iteration did so in vain.                                    *)
SoftDecide(d) ==
    /\ pc[d] = "soft.decide"
    /\ \/ /\ cur[d] = Threshold - 1
          /\ softTkos' = IF value[d] # d THEN softTkos + 1 ELSE softTkos
          /\ value' = [value EXCEPT ![d] = d]
          /\ pc' = [pc EXCEPT ![d] = "soft.cas"]
          /\ UNCHANGED <<cur, isProbe>>
       \/ /\ cur[d] # Threshold - 1
          /\ softTkos' = IF value[d] = d THEN softTkos - 1 ELSE softTkos
          /\ IF IsTko(cur[d])
               THEN Return(d)
               ELSE /\ value' = [value EXCEPT ![d] = cur[d] + 1]
                    /\ pc' = [pc EXCEPT ![d] = "soft.cas"]
                    /\ UNCHANGED <<cur, isProbe>>
    /\ UNCHANGED <<sumFailures, failureCount, tkoReason, hardTkos, alive,
                   probing>>

(* compare_exchange_weak: fails, reloading cur, also when it need not.     *)
CasFails(d, l) ==
    /\ cur' = [cur EXCEPT ![d] = sumFailures[TrackerOf[d]]]
    /\ pc' = [pc EXCEPT ![d] = l]
    /\ UNCHANGED <<sumFailures, value, isProbe>>

(* Mutant: a plain store instead of the compare-and-swap.                  *)
SoftCasStore(d) ==
    /\ pc[d] = "soft.cas"
    /\ sumFailures' = [sumFailures EXCEPT ![TrackerOf[d]] = value[d]]
    /\ IF value[d] = d THEN Goto(d, "soft.reason") ELSE Return(d)
    /\ UNCHANGED <<failureCount, tkoReason, softTkos, hardTkos, alive, probing>>

SoftCas(d) ==
    /\ pc[d] = "soft.cas"
    /\ \/ /\ sumFailures[TrackerOf[d]] = cur[d]
          /\ sumFailures' = [sumFailures EXCEPT ![TrackerOf[d]] = value[d]]
          /\ IF value[d] = d THEN Goto(d, "soft.reason") ELSE Return(d)
       \/ CasFails(d, "soft.decide")
    /\ UNCHANGED <<failureCount, tkoReason, softTkos, hardTkos, alive, probing>>

(* Store the reason, return true; handleTko then starts the probes.        *)
SoftReason(d) ==
    /\ pc[d] = "soft.reason"
    /\ tkoReason' = [tkoReason EXCEPT ![TrackerOf[d]] = "timeout"]
    /\ probing' = probing \cup {d}
    /\ Return(d)
    /\ UNCHANGED <<sumFailures, failureCount, softTkos, hardTkos, alive>>

-----------------------------------------------------------------------------
(* TkoTracker::recordHardFailure                                           *)

HardCount(d) ==
    /\ pc[d] = "hard.count"
    /\ failureCount' = [failureCount EXCEPT ![TrackerOf[d]] = @ + 1]
    /\ Goto(d, "hard.isHard")
    /\ UNCHANGED <<sumFailures, tkoReason, softTkos, hardTkos, alive, probing>>

HardIsHard(d) ==
    /\ pc[d] = "hard.isHard"
    /\ IF IsHardTko(sumFailures[TrackerOf[d]])
         THEN Return(d)
         ELSE Goto(d, "hard.isResponsible")
    /\ UNCHANGED <<shared, alive, probing>>

HardIsResponsible(d) ==
    /\ pc[d] = "hard.isResponsible"
    /\ IF IsResponsible(sumFailures[TrackerOf[d]], d)
         THEN Goto(d, "hard.convert")
         ELSE Goto(d, "hard.load")
    /\ UNCHANGED <<shared, alive, probing>>

(* sumFailures_ |= 1                                                       *)
HardConvert(d) ==
    /\ pc[d] = "hard.convert"
    /\ sumFailures' = [sumFailures EXCEPT ![TrackerOf[d]] = (@ - (@ % 2)) + 1]
    /\ Goto(d, "hard.decSoft")
    /\ UNCHANGED <<failureCount, tkoReason, softTkos, hardTkos, alive, probing>>

HardDecSoft(d) ==
    /\ pc[d] = "hard.decSoft"
    /\ softTkos' = softTkos - 1
    /\ Goto(d, "hard.incHard")
    /\ UNCHANGED <<sumFailures, failureCount, tkoReason, hardTkos, alive,
                   probing>>

HardIncHard(d) ==
    /\ pc[d] = "hard.incHard"
    /\ hardTkos' = hardTkos + 1
    /\ Return(d)
    /\ UNCHANGED <<sumFailures, failureCount, tkoReason, softTkos, alive,
                   probing>>

(* setSumFailures(pdstn | 1)                                               *)
HardLoad(d) ==
    /\ pc[d] = "hard.load"
    /\ cur' = [cur EXCEPT ![d] = sumFailures[TrackerOf[d]]]
    /\ pc' = [pc EXCEPT ![d] = "hard.cas"]
    /\ UNCHANGED <<shared, alive, probing, value, isProbe>>

(* Mutant: the TKO check of the loop is missing.                           *)
SetSumFailuresUnchecked(d, v, loop, done) ==
    \/ /\ sumFailures[TrackerOf[d]] = cur[d]
       /\ sumFailures' = [sumFailures EXCEPT ![TrackerOf[d]] = v]
       /\ Goto(d, done)
    \/ CasFails(d, loop)

(* One iteration of the loop of setSumFailures, which gives up on a TKO    *)
(* that somebody else is responsible for.                                  *)
SetSumFailures(d, v, loop, done) ==
    \/ /\ IsTko(cur[d])
       /\ Return(d)
       /\ UNCHANGED sumFailures
    \/ /\ ~IsTko(cur[d])
       /\ sumFailures[TrackerOf[d]] = cur[d]
       /\ sumFailures' = [sumFailures EXCEPT ![TrackerOf[d]] = v]
       /\ Goto(d, done)
    \/ /\ ~IsTko(cur[d])
       /\ CasFails(d, loop)

HardCas(d) ==
    /\ pc[d] = "hard.cas"
    /\ SetSumFailures(d, HardMark(d), "hard.cas", "hard.mark")
    /\ UNCHANGED <<failureCount, tkoReason, softTkos, hardTkos, alive, probing>>

HardMarked(d) ==
    /\ pc[d] = "hard.mark"
    /\ hardTkos' = hardTkos + 1
    /\ Goto(d, "hard.reason")
    /\ UNCHANGED <<sumFailures, failureCount, tkoReason, softTkos, alive,
                   probing>>

HardReason(d) ==
    /\ pc[d] = "hard.reason"
    /\ tkoReason' = [tkoReason EXCEPT ![TrackerOf[d]] = "connect_error"]
    /\ probing' = probing \cup {d}
    /\ Return(d)
    /\ UNCHANGED <<sumFailures, failureCount, softTkos, hardTkos, alive>>

-----------------------------------------------------------------------------
(* TkoTracker::recordSuccess                                               *)

OkIsResponsible(d) ==
    /\ pc[d] = "ok.isResponsible"
    /\ IF IsResponsible(sumFailures[TrackerOf[d]], d)
         THEN Goto(d, "ok.isSoft")
         ELSE Goto(d, "ok.isZero")
    /\ UNCHANGED <<shared, alive, probing>>

OkIsSoft(d) ==
    /\ pc[d] = "ok.isSoft"
    /\ IF IsSoftTko(sumFailures[TrackerOf[d]])
         THEN Goto(d, "ok.decSoft")
         ELSE Goto(d, "ok.isHard")
    /\ UNCHANGED <<shared, alive, probing>>

OkDecSoft(d) ==
    /\ pc[d] = "ok.decSoft"
    /\ softTkos' = softTkos - 1
    /\ Goto(d, "ok.isHard")
    /\ UNCHANGED <<sumFailures, failureCount, tkoReason, hardTkos, alive,
                   probing>>

OkIsHard(d) ==
    /\ pc[d] = "ok.isHard"
    /\ IF IsHardTko(sumFailures[TrackerOf[d]])
         THEN Goto(d, "ok.decHard")
         ELSE Goto(d, "ok.clear")
    /\ UNCHANGED <<shared, alive, probing>>

OkDecHard(d) ==
    /\ pc[d] = "ok.decHard"
    /\ hardTkos' = hardTkos - 1
    /\ Goto(d, "ok.clear")
    /\ UNCHANGED <<sumFailures, failureCount, tkoReason, softTkos, alive,
                   probing>>

(* sumFailures_ = 0: from here on the tracker is no longer TKO and other   *)
(* destinations may mark it again before the two stores that follow.       *)
OkClear(d) ==
    /\ pc[d] = "ok.clear"
    /\ sumFailures' = [sumFailures EXCEPT ![TrackerOf[d]] = 0]
    /\ Goto(d, "ok.clearCount")
    /\ UNCHANGED <<failureCount, tkoReason, softTkos, hardTkos, alive, probing>>

OkClearCount(d) ==
    /\ pc[d] = "ok.clearCount"
    /\ failureCount' = [failureCount EXCEPT ![TrackerOf[d]] = 0]
    /\ Goto(d, "ok.clearReason")
    /\ UNCHANGED <<sumFailures, tkoReason, softTkos, hardTkos, alive, probing>>

(* The last store; true is returned, and the caller stops its probes.      *)
OkClearReason(d) ==
    /\ pc[d] = "ok.clearReason"
    /\ tkoReason' = [tkoReason EXCEPT ![TrackerOf[d]] = "unknown"]
    /\ probing' = probing \ {d}
    /\ Return(d)
    /\ UNCHANGED <<sumFailures, failureCount, softTkos, hardTkos, alive>>

OkIsZero(d) ==
    /\ pc[d] = "ok.isZero"
    /\ IF sumFailures[TrackerOf[d]] = 0
         THEN Return(d)
         ELSE Goto(d, "ok.load")
    /\ UNCHANGED <<shared, alive, probing>>

OkLoad(d) ==
    /\ pc[d] = "ok.load"
    /\ cur' = [cur EXCEPT ![d] = sumFailures[TrackerOf[d]]]
    /\ pc' = [pc EXCEPT ![d] = "ok.cas"]
    /\ UNCHANGED <<shared, alive, probing, value, isProbe>>

OkCas(d) ==
    /\ pc[d] = "ok.cas"
    /\ SetSumFailures(d, 0, "ok.cas", "ok.resetCount")
    /\ UNCHANGED <<failureCount, tkoReason, softTkos, hardTkos, alive, probing>>

OkResetCount(d) ==
    /\ pc[d] = "ok.resetCount"
    /\ failureCount' = [failureCount EXCEPT ![TrackerOf[d]] = 0]
    /\ Return(d)
    /\ UNCHANGED <<sumFailures, tkoReason, softTkos, hardTkos, alive, probing>>

-----------------------------------------------------------------------------
(* The life of a destination.                                              *)

(* ~ProxyDestination, on its proxy thread, between two tracker calls.      *)
Destroy(d) ==
    /\ d \in alive
    /\ pc[d] = "idle"
    /\ alive' = alive \ {d}
    /\ Goto(d, "remove")
    /\ UNCHANGED <<shared, probing>>

(* Mutant: a responsible destination disappears without clearing the TKO.  *)
RemoveDestinationForgets(d) ==
    /\ pc[d] = "remove"
    /\ Return(d)
    /\ probing' = probing \ {d}
    /\ UNCHANGED <<shared, alive>>

(* removeDestination: recordSuccess if responsible.  The probe timer is a  *)
(* member of the destination and goes with it.                             *)
RemoveDestination(d) ==
    /\ pc[d] = "remove"
    /\ IF IsResponsible(sumFailures[TrackerOf[d]], d)
         THEN /\ Goto(d, "ok.isResponsible")
              /\ UNCHANGED probing
         ELSE /\ Return(d)
              /\ probing' = probing \ {d}
    /\ UNCHANGED <<shared, alive>>

(* ProxyDestinationMap::emplace and TkoTrackerMap::updateTracker: a new    *)
(* destination, with a new tracker when no destination holds the old one.  *)
NoOther(d) ==
    \A e \in Dst \ {d} :
        TrackerOf[e] = TrackerOf[d] => e \notin alive /\ pc[e] = "idle"

Create(d) ==
    /\ d \notin alive
    /\ pc[d] = "idle"
    /\ alive' = alive \cup {d}
    /\ IF NoOther(d)
         THEN /\ sumFailures' = [sumFailures EXCEPT ![TrackerOf[d]] = 0]
              /\ failureCount' = [failureCount EXCEPT ![TrackerOf[d]] = 0]
              /\ tkoReason' = [tkoReason EXCEPT ![TrackerOf[d]] = "unknown"]
         ELSE UNCHANGED <<sumFailures, failureCount, tkoReason>>
    /\ UNCHANGED <<softTkos, hardTkos, probing, locals>>

-----------------------------------------------------------------------------

Step(d) ==
    \/ HandleSoftError(d) \/ HandleHardError(d)
    \/ \E probe \in BOOLEAN : HandleSuccess(d, probe)
    \/ HandleIsTko(d)
    \/ SoftCount(d) \/ SoftIsTko(d) \/ SoftLoad(d) \/ SoftDecide(d)
    \/ SoftCas(d) \/ SoftReason(d)
    \/ HardCount(d) \/ HardIsHard(d) \/ HardIsResponsible(d) \/ HardConvert(d)
    \/ HardDecSoft(d) \/ HardIncHard(d) \/ HardLoad(d) \/ HardCas(d)
    \/ HardMarked(d) \/ HardReason(d)
    \/ OkIsResponsible(d) \/ OkIsSoft(d) \/ OkDecSoft(d) \/ OkIsHard(d)
    \/ OkDecHard(d) \/ OkClear(d) \/ OkClearCount(d) \/ OkClearReason(d)
    \/ OkIsZero(d) \/ OkLoad(d) \/ OkCas(d) \/ OkResetCount(d)
    \/ Destroy(d) \/ RemoveDestination(d) \/ Create(d)

Next == \E d \in Dst : Step(d)

Spec == Init /\ [][Next]_vars

-----------------------------------------------------------------------------

(* The values a tracker's word may take, as its declaration lists them.    *)
Words == 0 .. (Threshold - 1) \cup Dst \cup {HardMark(d) : d \in Dst}

(* Every variable has the type its comment gives it; in particular the     *)
(* word sumFailures_ never runs past the threshold by counting.            *)
TypeOK ==
    /\ sumFailures \in [Tracker -> Words]
    /\ failureCount \in [Tracker -> Nat]
    /\ tkoReason \in [Tracker -> Reasons]
    /\ softTkos \in Int
    /\ hardTkos \in Int
    /\ alive \in SUBSET Dst
    /\ probing \in SUBSET Dst
    /\ pc \in [Dst -> PCs]
    /\ cur \in [Dst -> Words]
    /\ value \in [Dst -> Words]
    /\ isProbe \in [Dst -> BOOLEAN]

Owns(d) == IsResponsible(sumFailures[TrackerOf[d]], d)
OwnsSoft(d) == sumFailures[TrackerOf[d]] = d
OwnsHard(d) == sumFailures[TrackerOf[d]] = HardMark(d)

(* The destinations that one unit of softTkos stands for: those that own a *)
(* soft TKO not yet given back, that incremented the counter before their  *)
(* CAS, or that converted to a hard TKO and have not decremented it yet.   *)
HoldsSoft(d) ==
    \/ OwnsSoft(d) /\ pc[d] \notin {"ok.isHard", "ok.decHard", "ok.clear"}
    \/ pc[d] \in {"soft.decide", "soft.cas"} /\ value[d] = d
    \/ pc[d] = "hard.decSoft"

(* The same for hardTkos, which is incremented after the tracker is marked *)
(* and decremented before it is cleared.                                   *)
HoldsHard(d) ==
    /\ OwnsHard(d)
    /\ pc[d] \notin {"hard.decSoft", "hard.incHard", "hard.mark", "ok.clear"}

(* Both counters are exact at every moment: each unit belongs to exactly   *)
(* one destination.  Lost or doubled updates in recordSoftFailure's        *)
(* increment-first protocol would break this.                              *)
CountersExact ==
    /\ softTkos = Cardinality({d \in Dst : HoldsSoft(d)})
    /\ hardTkos = Cardinality({d \in Dst : HoldsHard(d)})

(* "Eventually this will get corrected" (TkoTracker.cpp, 65-69): whenever  *)
(* no call is in progress the counters equal the numbers of soft and of    *)
(* hard TKO servers, whatever conservative counting happened before.       *)
CountersSettle ==
    (\A d \in Dst : pc[d] = "idle") =>
        /\ softTkos = Cardinality({t \in Tracker : IsSoftTko(sumFailures[t])})
        /\ hardTkos = Cardinality({t \in Tracker : IsHardTko(sumFailures[t])})

(* assert(oldSoftTkos != 0) in decrementSoftTkoCount: no decrement of      *)
(* either counter finds it at zero.                                        *)
NoUnderflow ==
    \A d \in Dst :
        /\ \/ pc[d] \in {"hard.decSoft", "ok.decSoft"}
           \/ pc[d] = "soft.decide" /\ value[d] = d /\ cur[d] # Threshold - 1
           => softTkos > 0
        /\ pc[d] = "ok.decHard" => hardTkos > 0

(* A TKO server always has a prober: its responsible destination exists    *)
(* and probes, or is inside the call that starts or stops the probes.  And *)
(* nobody else probes it.                                                  *)
Probed(d) ==
    /\ Owns(d) =>
         \/ d \in alive /\ d \in probing
         \/ pc[d] \in {"soft.reason", "hard.mark", "hard.reason"}
         \/ d \in probing /\ pc[d] # "idle"
    /\ d \in probing =>
         Owns(d) \/ pc[d] \in {"ok.clearCount", "ok.clearReason"}

ProbedByOwner == \A d \in Dst : Probed(d)

OwnerChanges(t) ==
    IsTko(sumFailures[t]) /\ sumFailures'[t] # sumFailures[t] =>
        \E d \in Dst :
            /\ TrackerOf[d] = t
            /\ IsResponsible(sumFailures[t], d)
            /\ pc'[d] # pc[d]
            /\ sumFailures'[t] \in {HardMark(d), 0}

(* "once a destination is marked TKO, only the responsible proxy (the one  *)
(* sending probes) can change its TKO state" (TkoTracker.h, 48-50), and    *)
(* only to a hard TKO of its own or to healthy.                            *)
OnlyOwnerChangesTko == [][\A t \in Tracker : OwnerChanges(t)]_vars

(* "the responsible thread effectively has a mutex over all state in       *)
(* TkoTracker, and so races aren't possible" (TkoTracker.h, 50-52): while  *)
(* a server is TKO, no step of another destination takes back its failure  *)
(* count or replaces its reason.                                           *)
OwnerHasMutex ==
    [][\A t \in Tracker, d \in Dst :
         /\ TrackerOf[d] = t
         /\ pc'[d] # pc[d]
         /\ IsTko(sumFailures[t])
         /\ ~IsResponsible(sumFailures[t], d)
         => failureCount'[t] >= failureCount[t] /\ tkoReason'[t] = tkoReason[t]]_vars

(* What the owner of a call knows about its tracker at each place: the     *)
(* checks the code made earlier still hold, because nobody else can give   *)
(* or take responsibility.                                                 *)
OwnershipAt(d) ==
    /\ pc[d] = "hard.isResponsible" => ~OwnsHard(d)
    /\ pc[d] \in {"soft.load", "soft.decide", "soft.cas", "hard.load",
                   "hard.cas", "ok.isZero", "ok.load", "ok.cas",
                   "ok.resetCount", "ok.clearCount", "ok.clearReason"} => ~Owns(d)
    /\ pc[d] \in {"soft.reason", "hard.convert", "ok.decSoft"} => OwnsSoft(d)
    /\ pc[d] \in {"hard.decSoft", "hard.incHard", "hard.mark", "hard.reason",
                   "ok.decHard"} => OwnsHard(d)
    /\ pc[d] \in {"ok.isSoft", "ok.isHard", "ok.clear"} => Owns(d)

(* The locals of the CAS loop of recordSoftFailure.                        *)
LoopLocals(d) ==
    /\ pc[d] \in {"soft.decide", "soft.cas"} =>
          value[d] \in (0 .. (Threshold - 1)) \cup {d}
    /\ pc[d] = "soft.cas" =>
          /\ ~IsTko(cur[d])
          /\ IF value[d] = d THEN cur[d] = Threshold - 1
                            ELSE value[d] = cur[d] + 1

(* A failure is recorded only by a destination that exists, and the        *)
(* recordSuccess of a destructor is that of the responsible destination.   *)
CallsOfTheDead(d) ==
    d \notin alive =>
        /\ pc[d] \in {"idle", "remove", "ok.isResponsible", "ok.isSoft",
                      "ok.decSoft", "ok.isHard", "ok.decHard", "ok.clear",
                      "ok.clearCount", "ok.clearReason"}
        /\ pc[d] = "ok.isResponsible" => Owns(d)

(* A destination is responsible for the server it belongs to only.         *)
OwnerOfItsTracker ==
    \A t \in Tracker, d \in Dst :
        IsResponsible(sumFailures[t], d) => TrackerOf[d] = t

(* The inductive invariant of the proofs.                                  *)
IInv ==
    /\ TypeOK
    /\ OwnerOfItsTracker
    /\ \A d \in Dst : OwnershipAt(d) /\ LoopLocals(d) /\ CallsOfTheDead(d)
    /\ ProbedByOwner
    /\ CountersExact

(* The refinement: the atomic word alone carries the TKO state.            *)
Status(s) ==
    IF ~IsTko(s) THEN <<"healthy", s>>
    ELSE IF s % 2 = 0 THEN <<"soft", s>> ELSE <<"hard", s - 1>>

Abs == INSTANCE TkoSpec WITH status <- [t \in Tracker |-> Status(sumFailures[t])]

(* Every interleaving of the lock-free calls acts on the servers' TKO      *)
(* states like a sequence of atomic operations.                            *)
ImplementsTkoSpec == Abs!Spec

=============================================================================
