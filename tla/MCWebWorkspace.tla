---------------------------- MODULE MCWebWorkspace ----------------------------
(* Constants of the checks of WebWorkspace.                                  *)
EXTENDS WebWorkspace, TLC

CONSTANTS t1, t2, h1, h2, s1, s2

\* Two texts with a policy each.
MCCompiled == (t1 :> h1) @@ (t2 :> h2)

\* Pages that share no query; what they write together, another client writes as well.
MCTours == {{"constitution", "explorer"}, {"agent", "explorer"}, {"terminal", "routes", "receipts"}}

\* The properties do not depend on which request is held where.
SlotSymmetry == Permutations(Slots)
===============================================================================
