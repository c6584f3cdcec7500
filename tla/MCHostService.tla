---------------------------- MODULE MCHostService ----------------------------
(* Two chains: the one PM2 lost and the one it started after it.            *)
EXTENDS HostService
===============================================================================
