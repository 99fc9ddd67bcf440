---------------------------- MODULE MCHostCalls ----------------------------
(* HostCalls for TLC: two jobs and a thread that comes and goes.             *)
EXTENDS HostCalls
=============================================================================
