----------------------------- MODULE SwapLedger -----------------------------
(***************************************************************************)
(* What POST /api/intent promises about the owner's money, seen from the   *)
(* wallet and the receipts table: a request asks the wallet for at most    *)
(* one swap, whatever was lost, timed out or raised since; only while the  *)
(* process swaps at all, and with a slippage inside the constitution that  *)
(* was active when it came in, or with the one default that no cap is      *)
(* applied to; its receipt is written once, when it can ask for nothing    *)
(* more, and says of the order what the wallet says.                       *)
(***************************************************************************)
EXTENDS Integers

CONSTANTS
  Requests,
  Caps, NoCap,     \* slippage caps, and that none is known
  Slips, NoTerms,  \* slippages a quote may state, and that nothing is asked
  DefaultSlip,     \* the slippage asked for where a quote states none or zero
  HardCap          \* the system's own cap

VARIABLES
  live,    \* the process swaps at all
  active,  \* cap of the active constitution
  cap,     \* the cap each request came in under
  chance,  \* requests that may still ask for a swap
  order,   \* the wallet's order for each request
  terms,   \* the slippage each order was asked for with
  said     \* what the receipt of each request says of its order

vars == <<live, active, cap, chance, order, terms, said>>

Init ==
  /\ live \in BOOLEAN
  /\ active = NoCap
  /\ cap = [r \in Requests |-> NoCap]
  /\ chance = Requests
  /\ order = [r \in Requests |-> "none"]
  /\ terms = [r \in Requests |-> NoTerms]
  /\ said = [r \in Requests |-> "unwritten"]

Approve(c) ==
  /\ active' = c
  /\ UNCHANGED <<live, cap, chance, order, terms, said>>

Enter(r) ==
  /\ cap[r] = NoCap /\ active # NoCap
  /\ cap' = [cap EXCEPT ![r] = active]
  /\ UNCHANGED <<live, active, chance, order, terms, said>>

\* The one swap of a request.
Ask(r, slip) ==
  /\ live /\ r \in chance /\ cap[r] # NoCap
  /\ slip # DefaultSlip => slip <= cap[r] /\ slip <= HardCap
  /\ chance' = chance \ {r}
  /\ order' = [order EXCEPT ![r] = "asked"]
  /\ terms' = [terms EXCEPT ![r] = slip]
  /\ UNCHANGED <<live, active, cap, said>>

\* A request is refused, or fails; a crash takes several at once.
GiveUp(R) ==
  /\ chance' = chance \ R
  /\ UNCHANGED <<live, active, cap, order, terms, said>>

Opens(r) ==
  /\ order[r] = "asked"
  /\ order' = [order EXCEPT ![r] = "open"]
  /\ UNCHANGED <<live, active, cap, chance, terms, said>>

Lost(r) ==
  /\ order[r] = "asked"
  /\ order' = [order EXCEPT ![r] = "none"]
  /\ terms' = [terms EXCEPT ![r] = NoTerms]
  /\ UNCHANGED <<live, active, cap, chance, said>>

Closes(r, end) ==
  /\ order[r] = "open"
  /\ order' = [order EXCEPT ![r] = end]
  /\ UNCHANGED <<live, active, cap, chance, terms, said>>

\* What a receipt may say; of an order whose reply was lost it says nothing.
Honest(r, word) ==
  \/ word = "nothing"
  \/ word = "bought"  /\ order[r] = "FINISHED"
  \/ word = "failed"  /\ order[r] = "FAILED"
  \/ word = "pending" /\ order[r] \in {"open", "FINISHED", "FAILED"}

File(r, word) ==
  /\ said[r] = "unwritten" /\ r \notin chance
  /\ Honest(r, word)
  /\ said' = [said EXCEPT ![r] = word]
  /\ UNCHANGED <<live, active, cap, chance, order, terms>>

Next ==
  \/ \E c \in Caps : Approve(c)
  \/ \E R \in SUBSET Requests : GiveUp(R)
  \/ \E r \in Requests :
       \/ Enter(r) \/ Opens(r) \/ Lost(r)
       \/ \E slip \in Slips \cup {DefaultSlip} : Ask(r, slip)
       \/ \E end \in {"FINISHED", "FAILED"} : Closes(r, end)
       \/ \E word \in {"nothing", "bought", "failed", "pending"} : File(r, word)

Spec == Init /\ [][Next]_vars
=============================================================================
