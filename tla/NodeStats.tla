----------------------------- MODULE NodeStats ------------------------------
(***************************************************************************)
(* The lifetime counters of the pump (node-bbu/main/main.c, stats_*; the   *)
(* counting itself in control.c): seconds run and starts, kept in RAM,     *)
(* saved to NVS on each change of the cycle a tick sees, every Checkpoint  *)
(* seconds of running, on clear and before a reboot.                       *)
(*                                                                         *)
(* The decision to save follows the tick outside s_mu, but no other task   *)
(* runs in between: one core, and the monitor has the highest priority of  *)
(* the tasks that touch the counters.  A write to NVS succeeds.            *)
(***************************************************************************)
EXTENDS Integers

CONSTANTS
  Checkpoint,  \* STATS_CHECKPOINT_S
  MaxTotal,    \* bound: seconds run
  MaxStarts    \* bound: starts

ASSUME StatsAssumption ==
  Checkpoint \in Nat \ {0} /\ MaxTotal \in Nat /\ MaxStarts \in Nat

VARIABLES
  running,  \* s_ctrl.relay_on
  total,    \* s_ctrl.total_run_s
  starts,   \* s_ctrl.starts
  saved,    \* s_stats_saved_run_s
  nvs       \* the stats blob, if there is one yet

vars == <<running, total, starts, saved, nvs>>

Blob(t, n) == [have |-> TRUE, total |-> t, starts |-> n]
NoBlob     == [have |-> FALSE, total |-> 0, starts |-> 0]

Init ==
  /\ running = FALSE /\ total = 0 /\ starts = 0 /\ saved = 0
  /\ nvs = NoBlob

\* Counters are natural numbers below their bounds.
TypeOK ==
  /\ running \in BOOLEAN
  /\ total \in 0 .. MaxTotal /\ starts \in 0 .. MaxStarts
  /\ saved \in 0 .. MaxTotal
  /\ nvs \in [have : BOOLEAN, total : 0 .. MaxTotal, starts : 0 .. MaxStarts]

-----------------------------------------------------------------------------
\* stats_save of the counters as this step leaves them.
stats_save == nvs' = Blob(total', starts') /\ saved' = total'

\* Mutant: a checkpoint waits for one second more than Checkpoint.
DueLate(t) == t - saved > Checkpoint

\* The checkpoint of a running pump.
Due(t) == t - saved >= Checkpoint

\* A tick: it counts the second, the loop may switch the coil, and a change
\* of the cycle or a due checkpoint is saved.  A Test that runs out stops
\* the pump, and with no rest time the loop starts it again in the same
\* tick: a start, and no change of the cycle.
Tick ==
  /\ running => total < MaxTotal
  /\ total' = IF running THEN total + 1 ELSE total
  /\ running' \in BOOLEAN
  /\ \E again \in BOOLEAN :
       /\ again => running /\ running'
       /\ starts < MaxStarts
       /\ starts' = IF again \/ (running' /\ ~running) THEN starts + 1
                    ELSE starts
  /\ IF running' # running \/ (running' /\ Due(total')) THEN stats_save
     ELSE UNCHANGED <<nvs, saved>>

\* on, t, the pump row, PARAM_SET: go_running counts a start every time.
ManualOn ==
  /\ starts < MaxStarts
  /\ running' = TRUE /\ starts' = starts + 1
  /\ UNCHANGED <<total, saved, nvs>>

\* off, and every mode order that stops the pump.
ManualOff == running' = FALSE /\ UNCHANGED <<total, starts, saved, nvs>>

\* bbu_ctrl_clear_stats with its callback.
Clear ==
  /\ total' = 0 /\ starts' = 0 /\ stats_save
  /\ UNCHANGED running

\* Mutant: the counters start from zero at boot.
BootForgets(blob) ==
  /\ running' \in BOOLEAN
  /\ total' = 0 /\ starts' = 0 /\ saved' = 0

\* boot_state_restore may switch the coil on, which counts a start, then
\* stats_restore sets the counters to the blob if there is one.
Boot(blob) ==
  /\ running' \in BOOLEAN
  /\ running' /\ ~blob.have => MaxStarts > 0
  /\ starts' = IF running' /\ ~blob.have THEN 1 ELSE blob.starts
  /\ total' = blob.total /\ saved' = blob.total

\* Power is cut; the node comes back.
PowerCycle == Boot(nvs) /\ UNCHANGED nvs

\* The reboot command and the reboot row: save, then restart.
SoftReboot ==
  LET blob == Blob(total, starts)
  IN  Boot(blob) /\ nvs' = blob

Next == Tick \/ ManualOn \/ ManualOff \/ Clear \/ PowerCycle \/ SoftReboot

Spec == Init /\ [][Next]_vars

-----------------------------------------------------------------------------
(* Properties.                                                             *)

\* "A power blip mid-run loses at most the checkpoint interval": what NVS
\* lacks of the seconds run stays below Checkpoint, however often the pump
\* is switched by hand between ticks, where no change of the cycle is seen;
\* and NVS never holds more than was counted.
RunLossBounded ==
  /\ total - nvs.total \in 0 .. Checkpoint - 1
  /\ nvs.starts <= starts

\* What was saved is not lost again: the blob only grows, until cleared.
SavedIsKept == [][nvs'.total < nvs.total => Clear]_vars

=============================================================================
