---------------------------- MODULE CoilContract ----------------------------
(***************************************************************************)
(* What the node promises about its pump coil, whatever the probes read    *)
(* and whoever gives orders (DESIGN_NOTE_002).                             *)
(*                                                                         *)
(* The coil has an owner: the LOOP (Auto), a HUMAN (Manual and Test), or   *)
(* NOBODY (Fault and Off).  With nobody in charge the coil is off.  The    *)
(* loop starts the pump only after it has rested for min_off, stops it     *)
(* only after it has run for min_on, and takes over with the pump off.     *)
(* Nothing but an order, the loss of the probe, the end of Test or a power *)
(* cut moves a coil that a human owns, and no order moves one that the     *)
(* loop keeps.                                                             *)
(***************************************************************************)
EXTENDS Integers

CONSTANT CycleCap  \* bound of held_s

VARIABLES
  owner,   \* who decides about the coil
  coil,    \* the pump runs
  held_s,  \* ticks since the coil last switched or power came up
  last,    \* what the last step was: TICK or TOCK, ORDER, POWER
  limits   \* [min_on, min_off] in force

vars == <<owner, coil, held_s, last, limits>>

Owners == {"LOOP", "HUMAN", "NOBODY"}

Older(t) == IF t < CycleCap THEN t + 1 ELSE CycleCap

Rested == ~coil /\ Older(held_s) >= limits.min_off
HasRun == coil /\ Older(held_s) >= limits.min_on

Init == owner = "HUMAN" /\ coil = FALSE /\ held_s = 0 /\ last = "POWER"

\* A second passes.
Second ==
  /\ last' \in {"TICK", "TOCK"}
  /\ held_s' = IF coil' = coil THEN Older(held_s) ELSE 0
  /\ UNCHANGED limits

Hold      == Second /\ UNCHANGED <<owner, coil>>
LoopStart == Second /\ owner = "LOOP" /\ owner' = "LOOP" /\ Rested /\ coil'
LoopStop  == Second /\ owner = "LOOP" /\ owner' = "LOOP" /\ HasRun /\ ~coil'
Trip      == Second /\ owner' = "NOBODY" /\ ~coil'

\* The probe is back: the remembered owner resumes with the coil off; only
\* with a zero rest time can the loop start it at once.
Resume ==
  /\ Second /\ owner = "NOBODY" /\ owner' \in Owners
  /\ coil' => owner' = "LOOP" /\ limits.min_off = 0

\* Test is over: the loop takes the coil from the human, off.
TestOver ==
  /\ Second /\ owner = "HUMAN" /\ owner' = "LOOP"
  /\ coil' => limits.min_off = 0

\* An order: no time passes.  Only a human is handed a running coil, and a
\* coil that stays with the loop does not move.
Order ==
  /\ last' = "ORDER"
  /\ owner' \in Owners
  /\ coil' \in BOOLEAN
  /\ coil' # coil => owner' # "LOOP" \/ owner # "LOOP"
  /\ coil' => owner' = "HUMAN" \/ (owner' = "LOOP" /\ owner = "LOOP")
  /\ held_s' = IF coil' = coil THEN held_s ELSE 0
  /\ UNCHANGED limits

NewLimits ==
  /\ last' = "ORDER"
  /\ limits' \in [min_on : Nat, min_off : Nat]
  /\ UNCHANGED <<owner, coil, held_s>>

\* Power returns: only an operator's own Manual/ON comes back running.
PowerUp ==
  /\ last' = "POWER"
  /\ owner' \in Owners
  /\ coil' \in BOOLEAN
  /\ coil' => owner' = "HUMAN"
  /\ held_s' = 0
  /\ UNCHANGED limits

Next == \/ Hold \/ LoopStart \/ LoopStop \/ Trip \/ Resume \/ TestOver
        \/ Order \/ NewLimits \/ PowerUp

Spec == Init /\ [][Next]_vars

=============================================================================
