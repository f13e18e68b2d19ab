------------------------------ MODULE Control ------------------------------
(***************************************************************************)
(* The pump controller of the boiler-room node (node-bbu/main/control.c)   *)
(* with the boot blob main.c keeps for it in NVS.                          *)
(*                                                                         *)
(* The controller is a struct changed only by bbu_ctrl_* calls, every one  *)
(* of them made with s_mu held: a call is one step.  The monitor task      *)
(* calls bbu_ctrl_tick once per second with the two tank readings; the     *)
(* operator (serial console, TFT menu) and the gateway (PARAM_SET) request *)
(* modes and switch the coil between ticks; power may fail at any moment.  *)
(*                                                                         *)
(* Temperatures are integers, a second is one tick, and a counter that is  *)
(* only compared with a limit saturates at the limit.                      *)
(***************************************************************************)
EXTENDS Integers

CONSTANTS
  Temps,        \* temperatures a probe in range may report
  ParamSets,    \* parameter records the operator may choose between
  InvertSlack,  \* BBU_TPU_INVERT_SLACK_C
  TestLimit,    \* BBU_TEST_LIMIT_S
  StuckConfirm, \* BBU_STUCK_CONFIRM_S
  NoctConfirm,  \* BBU_NOCT_CONFIRM_S
  CycleCap,     \* bound of cycle_s and run_s, above every limit they meet
  CtFitted      \* CT_FITTED: a current sensor is in the circuit

NoPeak == -1000  \* peak_tpo_c before the first reading of a run

Params == [setpoint : Int, hysteresis : Nat \ {0}, min_on : Nat, min_off : Nat,
           delta : Int, max_run : Nat]

ASSUME TempsAssumption  == Temps \subseteq Int /\ \A t \in Temps : t > NoPeak
ASSUME ParamsAssumption == ParamSets \subseteq Params /\ ParamSets # {}
ASSUME LimitsAssumption ==
  /\ InvertSlack \in Nat /\ TestLimit \in Nat \ {0}
  /\ StuckConfirm \in Nat /\ NoctConfirm \in Nat
  /\ CycleCap \in Nat \ {0}
  /\ CtFitted \in BOOLEAN
ASSUME CapAssumption ==
  /\ NoctConfirm <= CycleCap
  /\ \A p \in ParamSets :
       p.min_on <= CycleCap /\ p.min_off <= CycleCap /\ p.max_run <= CycleCap

-----------------------------------------------------------------------------
UserModes == {"AUTO", "MANUAL", "TESTING", "OFF"}
Modes     == UserModes \cup {"TPO_ONLY", "FAULT"}
LoopModes == {"AUTO", "TPO_ONLY"}

Cycles    == {"IDLE", "RUNNING"}
Peaks     == Temps \cup {NoPeak}

ModeTimer  == 0 .. TestLimit
CycleTimer == 0 .. CycleCap
StuckTimer == 0 .. StuckConfirm

Ctrl == [mode         : Modes,
         user_mode    : UserModes,
         cycle        : Cycles,
         relay_on     : BOOLEAN,
         warn_stuck   : BOOLEAN,
         warn_maxrun  : BOOLEAN,
         warn_noct    : BOOLEAN,
         mode_s       : ModeTimer,
         cycle_s      : CycleTimer,
         run_s        : CycleTimer,
         stuck_s      : StuckTimer,
         peak_tpo_c   : Peaks,
         tpo_only_src : BOOLEAN]

Reading == [ok : BOOLEAN, c : Temps]
Sense   == [tpo : Reading, tpu : Reading,
            ct_present : IF CtFitted THEN BOOLEAN ELSE {FALSE}]

\* The NVS boot blob; "NONE" is factory-fresh (or invalid) flash.
Blobs == [mode : UserModes \cup {"NONE"}, relay : BOOLEAN]

Older(t, cap) == IF t < cap THEN t + 1 ELSE cap

on_c(p)  == p.setpoint - p.hysteresis  \* restart threshold
off_c(p) == p.setpoint                 \* stop threshold

go_idle(c) ==
  [c EXCEPT !.cycle = "IDLE", !.cycle_s = 0, !.relay_on = FALSE,
            !.run_s = 0, !.warn_maxrun = FALSE]

\* Mutant: a new run inherits the peak of the last one.
go_running_old_peak(c) ==
  [c EXCEPT !.cycle = "RUNNING", !.cycle_s = 0, !.relay_on = TRUE,
            !.run_s = 0, !.warn_maxrun = FALSE]

go_running(c) ==
  [c EXCEPT !.cycle = "RUNNING", !.cycle_s = 0, !.relay_on = TRUE,
            !.run_s = 0, !.warn_maxrun = FALSE, !.peak_tpo_c = NoPeak]

bbu_ctrl_init ==
  [mode |-> "MANUAL", user_mode |-> "MANUAL", cycle |-> "IDLE",
   relay_on |-> FALSE, warn_stuck |-> FALSE, warn_maxrun |-> FALSE,
   warn_noct |-> FALSE, mode_s |-> 0, cycle_s |-> 0, run_s |-> 0,
   stuck_s |-> 0, peak_tpo_c |-> NoPeak, tpo_only_src |-> FALSE]

-----------------------------------------------------------------------------
(* Commands.                                                               *)

\* The requested mode is the one the controller is already in.
AlreadyIn(c, m) == c.mode = m \/ (m = "AUTO" /\ c.mode \in LoopModes)

\* Mutant: Off is entered without switching the pump off.
request_mode_off_keeps_coil(c, m) ==
  LET asked   == [c EXCEPT !.user_mode = m, !.mode_s = 0,
                           !.tpo_only_src = FALSE]
      entered == IF c.mode = "FAULT" THEN asked ELSE [asked EXCEPT !.mode = m]
  IN  IF c.mode # "FAULT" /\ AlreadyIn(c, m) THEN asked
      ELSE IF m = "AUTO" THEN go_idle(entered) ELSE entered

bbu_ctrl_request_mode(c, m) ==
  LET asked   == [c EXCEPT !.user_mode = m, !.mode_s = 0,
                           !.tpo_only_src = FALSE]
      entered == IF c.mode = "FAULT" THEN asked ELSE [asked EXCEPT !.mode = m]
  IN  IF c.mode # "FAULT" /\ AlreadyIn(c, m) THEN asked
      ELSE IF m \in {"AUTO", "OFF"} THEN go_idle(entered)
      ELSE entered

\* Mutant: an order given during FAULT is not written.
PersistsModeOutsideFault(c, m) ==
  c.mode # "FAULT" /\ ~AlreadyIn(c, m) /\ m # c.user_mode

\* request_mode reaches its persist_boot call.
PersistsMode(c, m) ==
  /\ c.mode = "FAULT" \/ ~AlreadyIn(c, m)
  /\ m # c.user_mode

\* Mutant: a coil order takes the mode but leaves the user's mode.
manual_relay_keeps_user(c, on) ==
  LET owned == IF c.mode \in {"MANUAL", "TESTING"} THEN c
               ELSE [c EXCEPT !.mode = "MANUAL", !.mode_s = 0,
                              !.tpo_only_src = FALSE]
  IN  IF on THEN go_running(owned) ELSE go_idle(owned)

bbu_ctrl_manual_relay(c, on) ==
  LET owned == IF c.mode \in {"MANUAL", "TESTING"} THEN c
               ELSE [c EXCEPT !.mode = "MANUAL", !.user_mode = "MANUAL",
                              !.mode_s = 0, !.tpo_only_src = FALSE]
  IN  IF on THEN go_running(owned) ELSE go_idle(owned)

\* Mutant: Test is written too.
persist_boot_any(c, blob) == [mode |-> c.user_mode, relay |-> c.relay_on]

\* Mutant: the mode in force is written, not the user's.
persist_boot_in_force(c, blob) ==
  IF c.mode = "TESTING" THEN blob
  ELSE [mode |-> c.mode, relay |-> c.relay_on]

\* persist_boot with its callback: Test leaves the blob as it is.
persist_boot(c, blob) ==
  IF c.user_mode = "TESTING" THEN blob
  ELSE [mode |-> c.user_mode, relay |-> c.relay_on]

\* The blob once a command has turned the controller into n.
BlobAfterMode(c, m, blob) ==
  IF PersistsMode(c, m) THEN persist_boot(bbu_ctrl_request_mode(c, m), blob)
  ELSE blob

\* Mutant: the blob is written before the coil is switched.
BlobBeforeRelay(c, on, blob) ==
  IF bbu_ctrl_manual_relay(c, on).mode = "MANUAL"
  THEN [mode |-> "MANUAL", relay |-> c.relay_on] ELSE blob

BlobAfterRelay(c, on, blob) ==
  LET n == bbu_ctrl_manual_relay(c, on)
  IN  IF n.mode = "MANUAL" THEN persist_boot(n, blob) ELSE blob

\* boot_state_restore on a freshly initialised controller.
boot_state_restore(blob) ==
  IF blob.mode \in {"AUTO", "OFF"} THEN
    bbu_ctrl_request_mode(bbu_ctrl_init, blob.mode)
  ELSE IF blob.mode = "MANUAL" /\ blob.relay THEN
    bbu_ctrl_manual_relay(bbu_ctrl_init, TRUE)
  ELSE bbu_ctrl_init

\* The restore calls fire the persist callback again.
BlobAfterRestore(blob) ==
  IF blob.mode \in {"AUTO", "OFF"}
  THEN BlobAfterMode(bbu_ctrl_init, blob.mode, blob)
  ELSE blob

-----------------------------------------------------------------------------
(* The tick, in the order of the code.                                     *)

\* Timers, the max-run warning and the stuck-contactor warning.
Age(c, s, p) ==
  LET run   == IF c.relay_on THEN Older(c.run_s, CycleCap) ELSE c.run_s
      stray == ~c.relay_on /\ s.ct_present
      stuck == IF stray THEN Older(c.stuck_s, StuckConfirm) ELSE 0
  IN  [c EXCEPT
         !.mode_s      = Older(c.mode_s, TestLimit),
         !.cycle_s     = Older(c.cycle_s, CycleCap),
         !.run_s       = run,
         !.warn_maxrun = c.warn_maxrun \/ (c.relay_on /\ run >= p.max_run),
         !.stuck_s     = stuck,
         !.warn_stuck  = stray /\ (c.warn_stuck \/ stuck >= StuckConfirm)]

\* Mutant: only a running Test runs out.
TestExpiredRunning(c) ==
  c.user_mode = "TESTING" /\ c.mode_s >= TestLimit /\ c.relay_on

TestExpired(c) == c.user_mode = "TESTING" /\ c.mode_s >= TestLimit

ExpireTest(c) ==
  IF TestExpired(c)
  THEN go_idle([c EXCEPT !.user_mode = "AUTO", !.mode = "AUTO",
                         !.mode_s = 0, !.tpo_only_src = FALSE])
  ELSE c

\* The no-current warning: only ever with a current sensor in the circuit.
WarnNoCt(c, s) ==
  [c EXCEPT !.warn_noct = /\ CtFitted
                          /\ c.cycle = "RUNNING"
                          /\ c.cycle_s >= NoctConfirm
                          /\ ~s.ct_present]

TpuBad(s) ==
  ~s.tpu.ok \/ (s.tpo.ok /\ s.tpu.c > s.tpo.c + InvertSlack)

\* TPO lost: the pump stops whoever owns it.
Trip(c) ==
  IF c.mode = "FAULT" THEN c
  ELSE go_idle([c EXCEPT !.mode = "FAULT", !.mode_s = 0,
                         !.tpo_only_src = FALSE])

\* TPO back: the remembered user mode resumes, coil off.
Recover(c) ==
  IF c.mode = "FAULT"
  THEN go_idle([c EXCEPT !.mode = c.user_mode, !.mode_s = 0])
  ELSE c

\* Mutant: changing between AUTO and TPO_ONLY restarts the cycle timer.
OverlayRestartsCycle(c, s) ==
  LET target == IF TpuBad(s) THEN "TPO_ONLY" ELSE "AUTO"
  IN  [c EXCEPT !.tpo_only_src = TpuBad(s), !.mode = target,
                !.mode_s  = IF c.mode = target THEN c.mode_s ELSE 0,
                !.cycle_s = IF c.mode = target THEN c.cycle_s ELSE 0]

\* TPO_ONLY while the lower probe is unusable, AUTO otherwise.
Overlay(c, s) ==
  LET bad    == TpuBad(s)
      target == IF bad THEN "TPO_ONLY" ELSE "AUTO"
  IN  [c EXCEPT !.tpo_only_src = bad, !.mode = target,
                !.mode_s = IF c.mode = target THEN c.mode_s ELSE 0]

\* Mutant: without the lower probe the tank never counts as charged.
ChargedNeedsTpu(c, s, p) == s.tpu.ok /\ s.tpo.c - s.tpu.c <= p.delta

Charged(c, s, p) ==
  c.mode = "TPO_ONLY" \/ (s.tpu.ok /\ s.tpo.c - s.tpu.c <= p.delta)

Starts(c, s, p) == s.tpo.c <= on_c(p) /\ c.cycle_s >= p.min_off

\* The cooling backstop: TPO was above the restart level in this run, and
\* has fallen back to it.
Cooled(c, s, p) == s.tpo.c <= on_c(p) /\ c.peak_tpo_c > on_c(p)

\* Mutant: the cooling backstop ignores min_on.
StopsCoolAtOnce(c, s, p) ==
  /\ Charged(c, s, p)
  /\ Cooled(c, s, p) \/ (c.cycle_s >= p.min_on /\ s.tpo.c >= off_c(p))

Stops(c, s, p) ==
  /\ c.cycle_s >= p.min_on
  /\ Charged(c, s, p)
  /\ s.tpo.c >= off_c(p) \/ Cooled(c, s, p)

\* The IDLE/RUNNING machine of AUTO and TPO_ONLY.
Cycle(c, s, p) ==
  LET peaked == [c EXCEPT !.peak_tpo_c =
                   IF s.tpo.c > c.peak_tpo_c THEN s.tpo.c ELSE c.peak_tpo_c]
  IN  CASE c.cycle = "IDLE" /\ Starts(c, s, p)       -> go_running(c)
        [] c.cycle = "IDLE" /\ ~Starts(c, s, p)      -> c
        [] c.cycle # "IDLE" /\ Stops(peaked, s, p)   -> go_idle(peaked)
        [] c.cycle # "IDLE" /\ ~Stops(peaked, s, p)  -> peaked

LoopOwns(c) == c.mode \in LoopModes /\ c.user_mode = "AUTO"

Loop(c, s, p) == IF LoopOwns(c) THEN Cycle(Overlay(c, s), s, p) ELSE c

bbu_ctrl_tick(c, s, p) ==
  LET aged == WarnNoCt(ExpireTest(Age(c, s, p)), s)
  IN  IF s.tpo.ok THEN Loop(Recover(aged), s, p) ELSE Trip(aged)

-----------------------------------------------------------------------------
VARIABLES
  ctrl,    \* s_ctrl
  boot,    \* the boot blob in NVS
  prm,     \* the parameters in force (params.c; saved as they change)
  held_s,  \* history: ticks since the coil last switched or power came up
  hottest, \* history: the highest TPO read in the present or just ended run
  last     \* history: what the last step was; each tick changes it

Ticks == {"TICK", "TOCK"}
Lasts == Ticks \cup {"ORDER", "POWER"}

vars == <<ctrl, boot, prm, held_s, hottest, last>>

\* The controller, the blob and the histories stay within their domains.
TypeOK ==
  /\ ctrl \in Ctrl
  /\ boot \in Blobs
  /\ prm \in ParamSets
  /\ held_s \in CycleTimer
  /\ hottest \in Peaks
  /\ last \in Lasts

Init ==
  /\ ctrl = bbu_ctrl_init
  /\ boot = [mode |-> "NONE", relay |-> FALSE]
  /\ prm \in ParamSets
  /\ held_s = 0 /\ hottest = NoPeak /\ last = "POWER"

\* History of a step that is not a tick.
Commanded ==
  /\ held_s' = IF ctrl'.relay_on = ctrl.relay_on THEN held_s ELSE 0
  /\ hottest' = IF ctrl'.relay_on THEN hottest ELSE NoPeak
  /\ last' = "ORDER"

\* monitor_task: one reading of the probes, one tick.
Tick(s) ==
  /\ ctrl' = bbu_ctrl_tick(ctrl, s, prm)
  /\ held_s' = IF ctrl'.relay_on = ctrl.relay_on
               THEN Older(held_s, CycleCap) ELSE 0
  /\ hottest' = IF ~ctrl.relay_on THEN NoPeak
                ELSE IF s.tpo.ok /\ s.tpo.c > hottest THEN s.tpo.c ELSE hottest
  /\ last' = IF last = "TICK" THEN "TOCK" ELSE "TICK"
  /\ UNCHANGED <<boot, prm>>

\* serial auto/manual/test/halt, the menu's mode row, PARAM_SET user_mode.
RequestMode(m) ==
  /\ ctrl' = bbu_ctrl_request_mode(ctrl, m)
  /\ boot' = BlobAfterMode(ctrl, m, boot)
  /\ Commanded
  /\ UNCHANGED prm

\* serial on/off/t and the menu's pump row.
ManualRelay(on) ==
  /\ ctrl' = bbu_ctrl_manual_relay(ctrl, on)
  /\ boot' = BlobAfterRelay(ctrl, on, boot)
  /\ Commanded
  /\ UNCHANGED prm

\* PARAM_SET manual_relay: Manual first, unless already there, then the coil.
ParamSetRelay(on) ==
  LET claimed == IF ctrl.mode # "MANUAL"
                 THEN bbu_ctrl_request_mode(ctrl, "MANUAL") ELSE ctrl
      blob    == IF ctrl.mode # "MANUAL"
                 THEN BlobAfterMode(ctrl, "MANUAL", boot) ELSE boot
  IN  /\ ctrl' = bbu_ctrl_manual_relay(claimed, on)
      /\ boot' = BlobAfterRelay(claimed, on, blob)
      /\ Commanded
      /\ UNCHANGED prm

\* A parameter changes, from whatever place; main.c's `prog default` changes
\* all of them in RAM only, which a restart takes back: two such steps.
SetParams(p) ==
  /\ prm' = p
  /\ last' = "ORDER"
  /\ UNCHANGED <<ctrl, boot, held_s, hottest>>

\* Power comes back (or esp_restart) on blob b: app_main drives the relay
\* low, initialises the controller and restores the blob.
BootFrom(b) ==
  /\ ctrl' = boot_state_restore(b)
  /\ boot' = BlobAfterRestore(b)
  /\ held_s' = 0 /\ hottest' = NoPeak /\ last' = "POWER"
  /\ UNCHANGED prm

PowerCycle == BootFrom(boot)

\* Power fails between the two NVS writes of one PARAM_SET manual_relay.
PowerCutMidParamSet ==
  /\ ctrl.mode # "MANUAL"
  /\ BootFrom(BlobAfterMode(ctrl, "MANUAL", boot))

Command ==
  \/ \E m \in UserModes : RequestMode(m)
  \/ \E on \in BOOLEAN : ManualRelay(on)
  \/ \E on \in BOOLEAN : ParamSetRelay(on)

Next ==
  \/ \E s \in Sense : Tick(s)
  \/ Command
  \/ \E p \in ParamSets : SetParams(p)
  \/ PowerCycle
  \/ PowerCutMidParamSet

Spec == Init /\ [][Next]_vars

\* monitor_task wakes every second for ever; nothing else has to happen.
FairSpec == Spec /\ WF_vars(\E s \in Sense : Tick(s))

-----------------------------------------------------------------------------
(* Properties.                                                             *)

\* The mode in force and the user's mode never disagree: a loop mode means
\* the user asked for Auto, every other user mode in force is the one asked
\* for (request_mode, manual_relay, the overlays of bbu_ctrl_tick).
ModeAgrees ==
  /\ ctrl.mode \in LoopModes => ctrl.user_mode = "AUTO"
  /\ ctrl.mode \notin LoopModes \cup {"FAULT"} => ctrl.mode = ctrl.user_mode

\* Blind (TPO lost) or halted, the pump is off, whatever was ordered before.
BlindOrHaltedIsOff == ctrl.mode \in {"FAULT", "OFF"} => ~ctrl.relay_on

\* "An operator who stopped the pump deliberately must not find it running
\* after a power blip": while the user's mode is Off, Off is what NVS holds.
HaltSurvivesPowerLoss ==
  ctrl.user_mode = "OFF" => boot = [mode |-> "OFF", relay |-> FALSE]

\* Manual comes back as Manual, and a coil the operator holds on in Manual
\* is on in the blob too (persist_boot at every command that led there).
ManualSurvivesPowerLoss ==
  /\ ctrl.user_mode = "MANUAL" => boot.mode \in {"MANUAL", "NONE"}
  /\ ctrl.mode = "MANUAL" /\ ctrl.relay_on =>
       boot = [mode |-> "MANUAL", relay |-> TRUE]

\* The blob is always restorable: never Test, and coil on only with Manual.
BlobIsRestorable ==
  /\ boot.mode # "TESTING"
  /\ boot.relay => boot.mode = "MANUAL"

\* The loop switches the pump off during a tick.
LoopStops ==
  /\ last' \in Ticks
  /\ ctrl.relay_on /\ ~ctrl'.relay_on
  /\ ctrl.mode \in LoopModes /\ ctrl'.mode \in LoopModes

\* "A fresh start on a mixed tank does not self-stop during boiler warm-up":
\* the loop ends a run only if this run saw TPO above the restart level, the
\* one in force when it ends, however the parameters were changed under way.
NoColdSelfStop == [][LoopStops => hottest' > on_c(prm)]_vars

\* The coil behaves as CoilContract promises.
CoilOwner ==
  CASE ctrl.mode \in LoopModes            -> "LOOP"
    [] ctrl.mode \in {"MANUAL", "TESTING"} -> "HUMAN"
    [] ctrl.mode \in {"FAULT", "OFF"}      -> "NOBODY"

Contract == INSTANCE CoilContract
  WITH owner <- CoilOwner, coil <- ctrl.relay_on, held_s <- held_s, last <- last,
       limits <- [min_on |-> prm.min_on, min_off |-> prm.min_off]

\* Refinement: every step of the controller is one the contract allows
\* (anti-short-cycle both ways, trips, hand-overs, orders, power cuts).
CoilContractHolds == Contract!Spec

\* A tick on a tank that calls for heat, and one on a charged tank.
ColdTick == \E s \in Sense : s.tpo.ok /\ s.tpo.c <= on_c(prm) /\ Tick(s)
HotTick  == \E s \in Sense :
  /\ s.tpo.ok /\ s.tpo.c >= off_c(prm)
  /\ TpuBad(s) \/ s.tpo.c - s.tpu.c <= prm.delta
  /\ Tick(s)

\* The loop never strands the house: with a tank that stays cold, and the
\* user's mode Auto, the pump ends up running for good.
ColdTankIsServed ==
  <>[][ColdTick]_vars /\ []<>(ctrl.user_mode = "AUTO") => <>[]ctrl.relay_on

\* Nor does it pump for ever: a tank that stays charged stops the pump.
ChargedTankIsLeft ==
  <>[][HotTick]_vars /\ []<>(ctrl.user_mode = "AUTO") => <>[]~ctrl.relay_on

\* Without further orders and with a sound TPO probe, Test ends.
TestEnds ==
  <>[][~Command]_vars /\ <>[](ctrl.mode # "FAULT")
    => <>[](ctrl.user_mode # "TESTING")

-----------------------------------------------------------------------------
(* A claim that the code does not keep.                                    *)

\* control.c: "a power blip must not silently change" the Manual coil.
BlipKeepsManualCoil ==
  [][ctrl.mode = "MANUAL" /\ last' = "POWER"
       => ctrl'.relay_on = ctrl.relay_on]_vars

=============================================================================
