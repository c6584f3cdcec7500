--------------------------- MODULE ResearchSession ---------------------------
(***************************************************************************)
(* What the decision desk promises a reader, whatever an analysis is: the  *)
(* screen is at every moment the analysis of one question under one        *)
(* policy, the one the reader chose, or that one challenged; what stands   *)
(* beside it compares it with the screen it replaced, about the same       *)
(* question. There are no requests here: a question, a policy and a        *)
(* challenge take effect at once.                                          *)
(***************************************************************************)
CONSTANTS
  Captures, Intents, Policies,
  FirstPolicy,        \* the policy of a page that has shown nothing yet
  Nothing,            \* no question, no receipt, no comparison
  Poses(_, _),        \* a snapshot can be analysed for an intent
  Binds(_, _),        \* a policy is admissible, and within the limits of an intent
  Challenged(_),      \* a policy challenged
  Receipt(_, _, _),   \* the analysis of a snapshot for an intent under a policy
  Changes(_, _)       \* what is different between two receipts

VARIABLES
  question,    \* the snapshot and the intent of the screen
  chosen,      \* the policy the reader chose
  challenged,  \* that policy is being challenged
  screen,      \* the receipt on the screen
  beside       \* the comparison beside it

vars == <<question, chosen, challenged, screen, beside>>

Init ==
  /\ question = Nothing /\ chosen = FirstPolicy /\ challenged = FALSE
  /\ screen = Nothing /\ beside = Nothing

\* The policy that judges the screen.
Judging == IF challenged THEN Challenged(chosen) ELSE chosen

Shows == screen' = Receipt(question'.snapshot, question'.intent, Judging')

\* A new question, under the limits of its own text.
Research(s, intent) ==
  /\ Poses(s, intent)
  /\ question' = [snapshot |-> s, intent |-> intent]
  /\ chosen' \in Policies /\ Binds(intent, chosen')
  /\ challenged' = FALSE
  /\ Shows /\ beside' = Nothing

\* The same question, judged again, beside what the screen said before.
Rejudges ==
  /\ question # Nothing /\ UNCHANGED question
  /\ Shows
  /\ beside' = [receipt |-> screen', previous |-> screen, changes |-> Changes(screen, screen')]

\* Restoring is to choose again what was chosen.
Choose ==
  /\ Rejudges
  /\ chosen' \in Policies /\ Binds(question.intent, chosen')
  /\ challenged' = FALSE

Challenge ==
  /\ ~challenged /\ challenged' = TRUE
  /\ Rejudges
  /\ UNCHANGED chosen

Next ==
  \/ \E s \in Captures, intent \in Intents : Research(s, intent)
  \/ Choose
  \/ Challenge

Spec == Init /\ [][Next]_vars
=============================================================================
