---------------------------- MODULE MCSellerServer ----------------------------
(***************************************************************************)
(* SellerServer for TLC: a list price above its ceiling, and limiters that *)
(* may answer late (a limiter of the process answers in time, which is one *)
(* of the behaviours of these).                                            *)
(***************************************************************************)
EXTENDS SellerServer

MCConfigs == {[price |-> 9, min |-> 2, max |-> 5]}
===============================================================================
