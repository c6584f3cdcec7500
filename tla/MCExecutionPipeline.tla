------------------------ MODULE MCExecutionPipeline ------------------------
(***************************************************************************)
(* ExecutionPipeline for TLC: slippages and caps are in basis points, the  *)
(* clock in units of 30 s.                                                 *)
(***************************************************************************)
EXTENDS ExecutionPipeline
=============================================================================
