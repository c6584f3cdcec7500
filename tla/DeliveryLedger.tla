--------------------------- MODULE DeliveryLedger ---------------------------
(***************************************************************************)
(* What the seller's delivery promises, seen from outside: a job is in the *)
(* hands of at most one delivery the process still answers for, it is      *)
(* retired only when there is nothing left to deliver, a retired job is    *)
(* never taken up again by the same process, and the commerce contract     *)
(* only ever receives submissions for jobs this agent signed.              *)
(***************************************************************************)
CONSTANTS Jobs, Signed

VARIABLES
  chain,    \* status of each job on the commerce contract
  working,  \* jobs a delivery of this process answers for
  retired   \* jobs this process will not take up again

vars == <<chain, working, retired>>

Init ==
  /\ chain = [j \in Jobs |-> "open"]
  /\ working = {}
  /\ retired = {}

Advance(j, from, to) ==
  /\ chain[j] = from
  /\ chain' = [chain EXCEPT ![j] = to]
  /\ UNCHANGED <<working, retired>>

Fund(j)    == Advance(j, "open", "funded")
Expire(j)  == Advance(j, "funded", "expired")
Deliver(j) == j \in Signed /\ Advance(j, "funded", "submitted")

\* One notification or one sweep takes up several jobs at once.
Start(D) ==
  /\ D \cap (working \cup retired) = {}
  /\ working' = working \cup D
  /\ UNCHANGED <<chain, retired>>

GiveBack(j) ==
  /\ j \in working
  /\ working' = working \ {j}
  /\ UNCHANGED <<chain, retired>>

Retire(j) ==
  /\ j \in working
  /\ j \in Signed => chain[j] \in {"submitted", "expired"}
  /\ working' = working \ {j}
  /\ retired' = retired \cup {j}
  /\ UNCHANGED chain

Restart ==
  /\ working' = {}
  /\ retired' = {}
  /\ UNCHANGED chain

Next ==
  \/ \E j \in Jobs : Fund(j) \/ Expire(j) \/ Deliver(j) \/ GiveBack(j) \/ Retire(j)
  \/ \E D \in SUBSET Jobs : Start(D)
  \/ Restart

Spec == Init /\ [][Next]_vars
=============================================================================
