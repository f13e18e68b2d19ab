---------------------------- MODULE MCNodeTasks ----------------------------
(* Small instances of NodeTasks for TLC: two rows that only params.c        *)
(* serves, and the two that go through the hooks.                           *)
EXTENDS NodeTasks

MCRows   == {"setpoint", "min_off", "user_mode", "manual_relay"}
MCHooked == {"user_mode", "manual_relay"}

=============================================================================
