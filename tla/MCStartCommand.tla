--------------------------- MODULE MCStartCommand ---------------------------
(* StartCommand for TLC: two launches and one mishap, which is a crash, a     *)
(* launch that fails or a port that is drawn while it is in use.             *)
EXTENDS StartCommand
=============================================================================
