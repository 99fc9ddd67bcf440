---------------------------- MODULE MCSchedules ----------------------------
(* Schedules for TLC: the syncer's schedule and an After schedule, two       *)
(* tenants, and the one thread that the sync worker has by default.          *)
EXTENDS Schedules
=============================================================================
