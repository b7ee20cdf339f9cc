------------------------- MODULE MessageQueueProofs -------------------------
(***************************************************************************)
(* The wakeup protocol of MessageQueue, for any number of writers, any     *)
(* capacity and any number of messages.                                    *)
(***************************************************************************)
EXTENDS MessageQueue, TLAPS

\* The types the argument needs.
QueueTypes ==
    /\ queue \in Seq(Writer)
    /\ efd \in Nat
    /\ wpc \in [Writer -> {"write", "shouldNotify", "doNotify"}]
    /\ state \in {"EMPTY", "NOTIFIED", "READING"}

\* Somebody is about to exchange state_; a notification is out or on its way.
Exchanging == \E w \in Writer : wpc[w] = "shouldNotify"
Notifying == efd > 0 \/ \E w \in Writer : wpc[w] = "doNotify"

\* Why no wakeup is lost.  Since the reader stored READING only writers have
\* changed state_, and only to NOTIFIED.  If it still is READING when the
\* reader has found the queue empty, whoever has written since has not come to
\* its exchange yet; that writer will see EMPTY, and notify, or the reader
\* will see NOTIFIED, and go round again.
WakeupInv ==
    /\ QueueTypes
    /\ rpc \in {"read", "load", "cas"} => state # "EMPTY"
    /\ rpc = "cas" => ~tasks
    /\ rpc \in {"load", "cas"} /\ ~relaxed /\ state = "READING" /\ queue # <<>> => Exchanging
    /\ rpc = "poll" /\ ~tasks => state # "READING"
    /\ rpc = "poll" /\ ~tasks /\ ~relaxed =>
         /\ state = "NOTIFIED" => Notifying
         /\ state = "EMPTY" /\ queue # <<>> => Exchanging

\* The reader starts awake.
LEMMA WakeupInit == QueueInit => WakeupInv
BY DEF QueueInit, QueueStart, WakeupInv, QueueTypes, Exchanging, Notifying

\* Every step of a writer or of the loop keeps the invariant.
LEMMA WakeupStep == WakeupInv /\ [QueueNext]_queueVars => WakeupInv'
<1> SUFFICES ASSUME WakeupInv, [QueueNext]_queueVars PROVE WakeupInv'
    OBVIOUS
<1> USE DEF WakeupInv, QueueTypes, Exchanging, Notifying
<1>1. ASSUME NEW w \in Writer, Write(w) PROVE WakeupInv'
    BY <1>1 DEF Write
<1>2. ASSUME NEW w \in Writer, ShouldNotify(w) PROVE WakeupInv'
    BY <1>2 DEF ShouldNotify
<1>3. ASSUME NEW w \in Writer, ShouldNotNotify(w) PROVE WakeupInv'
    BY <1>3 DEF ShouldNotNotify
<1>4. ASSUME NEW w \in Writer, DoNotify(w) PROVE WakeupInv'
    BY <1>4 DEF DoNotify
<1>5. CASE Store
    BY <1>5 DEF Store
<1>6. CASE Read
    BY <1>6 DEF Read
<1>7. CASE ReadNothing
    BY <1>7 DEF ReadNothing
<1>8. CASE Load
    BY <1>8 DEF Load
<1>9. CASE Cas
    BY <1>9 DEF Cas
<1>10. CASE Poll
    BY <1>10 DEF Poll
<1>11. CASE WaitTimeout
    BY <1>11 DEF WaitTimeout
<1>12. CASE UNCHANGED queueVars
    BY <1>12 DEF queueVars
<1> QED
    BY <1>1, <1>2, <1>3, <1>4, <1>5, <1>6, <1>7, <1>8, <1>9, <1>10, <1>11, <1>12
       DEF QueueNext

\* The protocol of shouldNotify, drainWhileNonEmpty and the eventfd loses no
\* wakeup, whatever the number of writers.
THEOREM NoWakeupIsLost == QueueSpec => []NoLostWakeup
<1>1. WakeupInv => NoLostWakeup
    BY DEF WakeupInv, QueueTypes, Exchanging, Notifying, NoLostWakeup
<1> QED BY <1>1, WakeupInit, WakeupStep, PTL DEF QueueSpec
=============================================================================
