---------------------------- MODULE MCSellerCore ----------------------------
(***************************************************************************)
(* SellerCore for TLC. The .cfg files give the constants; handlers and     *)
(* sweeps are interchangeable, slots are not (FreeSlot picks by CHOOSE).   *)
(* The symmetry serves the runs of an invariant alone, never liveness.     *)
(***************************************************************************)
EXTENDS SellerCore, TLC

Crowd == Permutations(Callers) \cup Permutations(Sweeps)
=============================================================================
