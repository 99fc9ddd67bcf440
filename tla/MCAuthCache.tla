---------------------------- MODULE MCAuthCache -----------------------------
(* AuthCache for TLC: one token, two requests and two loads at a time.       *)
EXTENDS AuthCache
=============================================================================
