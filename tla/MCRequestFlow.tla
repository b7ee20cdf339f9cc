--------------------------- MODULE MCRequestFlow ---------------------------
(***************************************************************************)
(* RequestFlow with two user threads that share a client and send a batch  *)
(* of three requests each.  Between them the requests are of every kind    *)
(* and of both priorities.                                                 *)
(***************************************************************************)
EXTENDS RequestFlow, TLC

CONSTANTS u1, u2, px

MCUser == {u1, u2}
MCThread == MCUser \cup {px}
MCBatchSize == [u \in MCUser |-> 3]
MCKind == (<<u1, 1>> :> "plain") @@ (<<u1, 2>> :> "bad") @@
          (<<u1, 3>> :> "plain") @@ (<<u2, 1>> :> "info") @@
          (<<u2, 2>> :> "plain") @@ (<<u2, 3>> :> "stats")
MCPriority == [r \in DOMAIN MCKind |-> IF r = <<u2, 2>> THEN 1 ELSE 0]
=============================================================================
