------------------------------ MODULE Encoder -------------------------------
(***************************************************************************)
(* The rotary encoder of the node (node-bbu/main/enc.c): a timer samples   *)
(* the two contacts of the knob and the switch, and the UI task takes what *)
(* has become of them: steps, clicks and holds.  s_mux makes each poll and *)
(* each take one step.                                                     *)
(*                                                                         *)
(* The knob moves at most two contact edges between two samples that the   *)
(* timer takes; a sample the timer skips (skip_unhandled_events) shows in  *)
(* the time between them.  The switch contact may bounce at every sample.  *)
(***************************************************************************)
EXTENDS Integers, FiniteSets

CONSTANTS
  Debounce,   \* SW_DEBOUNCE_N
  ClickMin,   \* SW_CLICK_MIN_US, in polls
  HoldMin,    \* SW_HOLD_US, in polls
  MaxTurn,    \* bound: edges the knob is away from where it was at boot
  MaxSkips    \* bound: samples with two edges at once

ASSUME EncoderAssumption ==
  /\ Debounce \in Nat \ {0}
  /\ ClickMin \in Nat /\ HoldMin \in Nat \ {0}
  /\ MaxTurn \in Nat /\ MaxSkips \in Nat

VARIABLES
  pos,      \* the knob: edges turned since boot
  ab,       \* s_ab, the contacts as sampled last
  raw,      \* s_raw
  taken,    \* s_raw_taken
  skips,    \* s_skip
  cand,     \* s_sw_cand: the switch as sampled last
  count,    \* s_sw_cand_n
  stable,   \* s_sw_stable: "up" or "down"
  phase,    \* s_sw_phase
  held,     \* now - s_press_us, in polls, up to HoldMin
  told,     \* s_click and s_hold: what waits to be taken
  spoken,   \* history: what this press has set
  low       \* history: samples in a row with the switch down

knob   == <<pos, ab, raw, skips>>
switch == <<cand, count, stable, phase, held, spoken, low>>
evars  == <<knob, taken, switch, told>>

\* The contacts A and B as a number, 2 a + b, at a position of the knob.
Contacts(p) == <<0, 2, 3, 1>>[(p % 4) + 1]

EncoderInit ==
  /\ pos = 0 /\ ab = Contacts(0) /\ raw = 0 /\ taken = 0 /\ skips = 0
  /\ cand \in {"up", "down"} /\ stable = cand /\ count = Debounce
  /\ phase = "idle" /\ held = 0 /\ told = {} /\ spoken = {} /\ low = 0

\* Contacts, counters and the phase of the switch.
EncoderTypeOK ==
  /\ pos \in -MaxTurn .. MaxTurn /\ ab \in 0 .. 3
  /\ raw \in Int /\ taken \in Int /\ skips \in 0 .. MaxSkips
  /\ {cand, stable} \subseteq {"up", "down"} /\ count \in 0 .. Debounce
  /\ phase \in {"idle", "pressed", "held"} /\ held \in 0 .. HoldMin
  /\ told \subseteq {"click", "hold"} /\ spoken \subseteq {"click", "hold"}
  /\ low \in 0 .. Debounce

-----------------------------------------------------------------------------
UpTo(n, cap) == IF n > cap THEN cap ELSE n

\* Mutant: one entry of the table has the wrong sign.
QuadFlipped(prev, level) ==
  <<0, -1, 1, 0,   1, 0, 0, -1,   1, 0, 0, 1,   0, 1, -1, 0>>[4 * prev + level + 1]

\* k_quad: the edge between two samples of the contacts, 0 if there is none
\* or there were two.
k_quad(prev, level) ==
  <<0, -1, 1, 0,   1, 0, 0, -1,   -1, 0, 0, 1,   0, 1, -1, 0>>[4 * prev + level + 1]

\* The knob as sampled after it has moved by d edges.
SampleKnob(d) ==
  LET level == Contacts(pos + d) IN
    /\ pos + d \in -MaxTurn .. MaxTurn
    /\ pos' = pos + d /\ ab' = level
    /\ raw' = raw + k_quad(ab, level)
    /\ skips' = IF ab # level /\ k_quad(ab, level) = 0 THEN skips + 1
                ELSE skips
    /\ skips' <= MaxSkips

\* Samples in a row that agree with the candidate.
Agreeing(level) == IF level = cand THEN UpTo(count + 1, Debounce) ELSE 1

\* Mutant: a press that was a hold is still pressed.
HoldStays(now) == phase' = "pressed"

\* A press that lasts for HoldMin is a hold, and a release says no click.
HoldPhase(now) == phase' = IF now >= HoldMin THEN "held" ELSE "pressed"

\* The rest of enc_poll: the switch, dt polls after the last sample.  A press
\* begins or ends when the candidate has been seen Debounce times; then the
\* press of before, if it is still one, becomes a click or a hold.
SampleSwitch(level, dt) ==
  LET n     == Agreeing(level)
      turns == n >= Debounce /\ level # stable
      now   == IF turns THEN 0 ELSE UpTo(held + dt, HoldMin)
      click == /\ turns /\ level = "up" /\ phase = "pressed"
               /\ UpTo(held + dt, HoldMin) >= ClickMin
      press == turns /\ level = "down"
      hold  == /\ ~turns /\ stable = "down" /\ phase = "pressed"
               /\ now >= HoldMin
      said  == {s \in {"click", "hold"} :
                  (s = "click" /\ click) \/ (s = "hold" /\ hold)}
  IN /\ cand' = level /\ count' = n
     /\ low' = IF level = "down" THEN UpTo(low + 1, Debounce) ELSE 0
     /\ stable' = IF turns THEN level ELSE stable
     /\ IF turns /\ level = "up" THEN phase' = "idle"
        ELSE IF press \/ (stable = "down" /\ phase = "pressed")
             THEN HoldPhase(now)
             ELSE phase' = phase
     /\ held' = IF phase' = "pressed" THEN now ELSE 0
     /\ told' = told \cup said
     /\ spoken' = IF press THEN said ELSE spoken \cup said

\* enc_poll.
Poll ==
  /\ \E d \in -2 .. 2 : SampleKnob(d)
  /\ \E level \in {"up", "down"}, dt \in 1 .. 2 : SampleSwitch(level, dt)
  /\ UNCHANGED taken

\* enc_take_steps: whole detents of four edges, towards zero; what was turned
\* with the switch down is dropped.
TakeSteps ==
  LET delta == raw - taken
      steps == IF delta >= 0 THEN delta \div 4 ELSE -((-delta) \div 4)
  IN /\ taken' = IF stable = "down" THEN raw ELSE taken + 4 * steps
     /\ UNCHANGED <<knob, switch, told>>

\* enc_take_click, enc_take_hold.
Take ==
  /\ \E s \in told : told' = told \ {s}
  /\ UNCHANGED <<knob, taken, switch>>

EncoderNext == Poll \/ TakeSteps \/ Take

EncoderSpec == EncoderInit /\ [][EncoderNext]_evars

-----------------------------------------------------------------------------
(* Properties.                                                             *)

\* Turns are neither lost nor made up: the count is where the knob is, but
\* for two edges with every sample that was counted as skipped.
TurnsCounted ==
  LET off == IF pos > raw THEN pos - raw ELSE raw - pos
  IN  off <= 2 * skips

\* A press says one thing, a click or a hold, and only a press the switch has
\* shown Debounce times in a row: bounces are not presses.
PressSpeaksOnce ==
  /\ Cardinality(spoken) <= 1
  /\ phase = "pressed" /\ held = 0 => low >= Debounce

=============================================================================
