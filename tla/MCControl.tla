------------------------------ MODULE MCControl ------------------------------
(* Small instances of Control for TLC. *)
EXTENDS Control

\* Restart level 2, setpoint 4, and a reading between the two.
MCTemps == {1, 3, 4}

\* The same for the levels 1 and 3 of Eager; 2 is the other restart level.
MixTemps == {1, 2, 4}

Summer == [setpoint |-> 4, hysteresis |-> 2, min_on |-> 3, min_off |-> 2,
           delta |-> 1, max_run |-> 3]
Eager  == [setpoint |-> 3, hysteresis |-> 2, min_on |-> 0, min_off |-> 0,
           delta |-> 1, max_run |-> 3]

OneSet  == {Summer}
TwoSets == {Summer, Eager}

==============================================================================
