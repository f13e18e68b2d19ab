# A TLA+ verification of bracino

bracino is a boiler-room control node (ESP32-C3) that runs a pump from two tank
temperatures, a gateway (ESP32) that takes the node's telemetry from ESP-NOW to
MQTT, and a commit service that writes it to a log and acknowledges it. This
directory holds TLA+ modules translated from that code, TLC configurations that
check them on small instances, and proofs that TLAPS checks for every value of
the constants. `PROJECT.json` maps every definition to the lines it models.

Run it from this directory:

    tlc -workers 2 -config MCControl.cfg MCControl
    tlapm ControlProofs.tla

## The system

| Part | Source | State | Operations | Talks to | Correct when |
|---|---|---|---|---|---|
| Pump controller | node-bbu/main/control.c | mode, user mode, cycle, coil, timers, warnings, peak | request_mode, manual_relay, clear_stats, tick | main.c calls it with `s_mu` held | the coil moves only as mode and timers allow |
| Boot blob | node-bbu/main/main.c | mode and Manual coil in NVS | persist_boot_cb, boot_state_restore | callback of the controller | it holds what the operator last decided |
| Lifetime counters | main.c, control.c | seconds run, starts, save mark, stats blob in NVS | count, checkpoint, clear, restore | the monitor, the menu, the console | a power cut costs less than a checkpoint interval |
| Parameters | params.c | six tunables in RAM and NVS; hooked rows | params_set, params_set_by_id, params_save, params_init | console, menu, PARAM_SET | RAM and NVS agree when nobody writes; commands in order |
| Node tasks | main.c | `s_mu` (controller, ADC) | monitor_task, handle_line, hooks | all of the node | the loop ticks on |
| TFT menu | ui.c | screen, cursor, edit, armed line | turn, click, hold, redraw | takes `s_mu`, calls the controller | what is acted on is what is shown |
| Encoder | enc.c | Gray-code count, debounce, phase, what waits to be taken | enc_poll, enc_take_* | timer callback against the UI task | no turn lost, one press says one thing |
| Radio link | comms.c | sample ring, event queue, binding, outstanding batch, fail count, rest, admin_seq | offer_sample, scan, send_batch, handle_rx, retransmit, go_unreachable, comms_enable | ESP-NOW, the monitor, the hooks | it finds the gateway again; samples are kept until acknowledged |
| Gateway frames | gateway/main/main.c | entry per node: anchor, last batch, watermark, pending batch, fragments, last seen | handle_hello, handle_batch, handle_event, handle_config_desc, ack, liveness pass | ESP-NOW queue, MQTT | it acknowledges what is durable, to the board that sent it |
| Gateway uplink | gateway/main/net.c | WiFi, broker, age of health, wall time, ACTIVE/WAIT_BACKEND | on_commit, WiFi and MQTT events, state_task | broker; switches ESP-NOW on and off | on the air exactly when the backend is there |
| Commit service | server/commit-service | telemetry log, cursor file, alarms, Influx offset | handle_telemetry, alarms, health, tailer | broker, files, InfluxDB | no sample lost once acknowledged; alarms settle |
| The rest | tft.c, ntc.c, amb.c, softap.c, bench master, tools | | drivers, pages, test aids | | |

What is hard about it:

* *Shared controller.* Four tasks move one struct; each call is atomic under
  `s_mu`, their order is not. Modes are overlaid (TPO_ONLY, FAULT) over a
  remembered user mode, and what was decided must survive a power cut between
  any two calls.
* *One plain mutex* behind menu callbacks and parameter hooks that both take it,
  and *no mutex* around the tunables, their blob and the state of the link.
* *Delivery across three programs* with bounded queues, lost and duplicated
  frames, a retry timer that may be early, two tasks on the gateway that share
  the registry without a lock, QoS 0 samples, a service that may die between
  the log and its cursor, and reboots of every party.
* *Finding each other again*: three programs that each forget in RAM what the
  others believe, retained messages and a will that outlive their senders.
* *Files and power*: offsets, cursors and blobs that are written some time after
  what they speak of.
* *Time*: node clocks that restart and wrap, anchors per boot session.

## Modules

| Module | Models | Kind |
|---|---|---|
| `Control` | control.c, the boot blob and its restore | specification |
| `CoilContract` | what the node promises about the coil | abstract specification |
| `ControlProofs` | invariants and refinement of `Control` | proofs |
| `NodeStats` | lifetime counters of the pump | specification |
| `ParamTable` | tunables, their blob and their three writers | specification |
| `NodeTasks`, `NodeTasksProofs` | `s_mu` and the screens: monitor, menu, comms, console | specification, proofs |
| `Encoder`, `EncoderProofs` | enc.c | specification, proofs |
| `NodeFifo` | the sample ring and the gateway's stamps | operators |
| `Custody` | what the documents promise about a sample | abstract specification |
| `Delivery`, `DeliveryProofs` | ring, radio, gateway, broker, telemetry of the service | composition, proofs |
| `NodeLink` | scan, binding, exchanges, comms_enable | specification |
| `Uplink` | state_task and the events it judges | specification |
| `Alarms` | alarms of the commit service | operators on its state |
| `Site`, `SiteProofs` | `NodeLink`, `Uplink`, `Alarms`, registry entry, liveness pass, broker | composition, proofs |
| `GwNodes`, `GwNodesProofs` | registry of several nodes, CONFIG_DESC, watermarks by role | specification, proofs |
| `InfluxTailer`, `InfluxTailerProofs` | the tailer thread, its offset and the log it reads | specification, proofs |
| `MC*` | instances for TLC; `MCParts` runs five parts that share no state | |
| `PartsProofs` | `NodeStats`, `ParamTable`, and the types of the five parts of `MCParts` | proofs |

**Control.** The variable `ctrl` is `bbu_ctrl_t`; each `bbu_ctrl_*` function is
an operator from struct to struct with the code's name, and the tick is the
composition of its sections in the code's order (`Age`, `ExpireTest`,
`WarnNoCt`, then `Trip` or `Recover` and `Loop`). `boot` is the NVS blob. The
actions are a tick with any two readings, any order from console, menu or
gateway, a change of parameters, a power cut between calls, and one between the
two blob writes of `PARAM_SET manual_relay`. `held_s`, `hottest` (the
highest TPO this run has read) and `last` are
history variables and no code reads them; `last` tells ticks, orders and power
from each other, and alternates from tick to tick so that a tick is a step even
when every counter has saturated. Temperatures are integers, seconds
are ticks (the code calls the tick with `dt_s = 1`), and counters that are only
compared with a limit saturate at it (`CycleCap`, above every limit).
`total_run_s`, `starts` and `last_fault` steer nothing and are left out.

**CoilContract.** The coil has an owner: the loop, a human, or nobody. It says
when it may switch and with whom in charge: minimum rest and minimum run for the
loop, hand-overs with the coil off, nothing but an order, a trip, a power cut
or the end of Test for a human's coil, no order for a coil the loop keeps. The
contract sees what kind of step it was, so that an early stop cannot pass for a
power cut. `Control` implements it under `CoilOwner`.

**NodeStats.** A counter in RAM, a save mark and a blob. A tick counts, may
switch the pump and saves on a change of the cycle *that it sees*; orders
between ticks switch the pump unseen.

**ParamTable.** `ram` is `s_p`, `blob` what NVS holds. A setter is three steps,
`StoreRow`, `CopyStruct` and `WriteBlob`, because the console, the menu and the
comms task have one priority and no lock. The menu edits a copy of a row
(`shadow`), the radio brings commands in any order and again. `late` and
`missed` remember which rows were stored while an older copy of the struct was
waiting to be written, `owed` that `prog default` or a write that failed left
RAM ahead of NVS. `Valid` is the range of each row. Radio and menu keep to it;
the console checks the rows of `Counts` (the three times) with `d < lo || d > hi`
(params.c:215, 221, 233), which a nan passes, so that `Prog` may bring any value
into them, and `nans` remembers which rows had one.

**NodeTasks.** What a task has left to do is a sequence of steps, `take` and
`give` of `s_mu` and the steps between them. A click is handled with the mutex
held, the way `ui_task` does it, and what it reaches in params.c and main.c
takes it again or not depending on the row. The priorities are FreeRTOS's and
external to the source: one core, the monitor highest. The ui and comms tasks
and the console share the lowest priority. Every screen is modelled by what its
lines mean; the two lines that act at the second click (clear the counters,
restart) keep which of them is armed, and the rows of Diagnostics shift under
the cursor.

**Encoder.** A step is a poll of the timer, with the knob moved by no, one or
two edges since, or a take of the UI task. `spoken` and `low` are history: what
a press has set, and for how long the switch has been down.

**Delivery.** One action per function or per part of one that others can
interleave with: `handle_batch` is `GwBatch`, `GwCheck`, `GwMark`, `GwPend`
because `on_commit` runs on another task between them; `handle_telemetry` is
`SvcAppend`, `SvcSave`, `SvcPublish` because the service may die between them. A
capture time is the index of the sample since boot, a frame carries the capture
times it was cut from (decimation leaves uneven gaps, as comms.c does), a
telemetry message the stamp the gateway interpolated and the sample it stands
for; `misdated` is the history of samples whose stamp the service took for one
it had. The queues are the two receive queues (bounded, a full
one drops) and the broker's QoS 0 and QoS 1 messages (external). Faults are a
named set with a budget: `radio` (a frame lost, or its MAC acknowledgement),
`gwreboot`, `nodereboot`, `svccrash`, `mqtt` (watermarks in flight lost),
`qos0` (a stretch of samples lost), `slowcb` (a HELLO_ACK arrives, its send
callback comes too late).

**Custody.** From capture on, a sample is held by the node until it is durable;
the node lets go of one that is not only by thinning a full ring or by losing
power. `Delivery` implements it with `held` the ring, `durable` the log and
`session` the boot counter, which tells a power loss from a ring given up.

**NodeLink, Uplink, Alarms, Site.** `NodeLink` is comms.c without the samples: a
scan and a `comms_enable(true)` are taken apart where one interrupts the other;
what becomes of a frame is left to `Site`. `Uplink` is net.c: WiFi, broker, age
of health, wall time, and the count of healthy checks that switches the radio
on. `Alarms` has the handlers of the commit service as functions of its state.
`Site` composes them with the gateway's entry of the node and the liveness
pass, the retained messages, the gateway's session and its will. A tick of
`Site` stands for the periods of the parties; nobody is late in it unless the
code makes it so. A status published without a connection waits in the MQTT
client (external) until there is one, and is deleted after 30 s (`Expires`:
`start_mqtt` sets no outbox option), at whatever moment of the outage; the flag
in the gateway's entry does not notice. `untold` remembers that the last news of
the node got lost that way or with the gateway's RAM.

**GwNodes.** Several boards with roles, a table that fills up, HELLOs, answers
in fragments that are lost on the way, and watermarks that name a role and not
a board. `Delivery` has what one node goes through in detail.

**InfluxTailer.** A chunk is read, posted and its offset saved in three steps,
while the MQTT thread appends (a line may be half written), the power goes (the
half line stays and swallows the next one), a request fails after it took
effect, or the operator moves the file away.

## Runs

| Run | Checks | Distinct states |
|---|---|---|
| `MCControl` | `TypeOK`, `ModeAgrees`, `BlindOrHaltedIsOff`, `HaltSurvivesPowerLoss`, `ManualSurvivesPowerLoss`, `BlobIsRestorable`, `NoColdSelfStop`, refinement of `CoilContract` | 69 k |
| `MCControlLive` | `ColdTankIsServed`, `ChargedTankIsLeft`, `TestEnds` | 7 k |
| `MCDelivery` | `TypeOK`, `AckedIsDurable`, `NoDuplicateLines`, `WatermarkIsDurable`, refinement of `Custody`; one fault of `radio`, `gwreboot`, `mqtt`, `qos0`, `svccrash` | 1.8 M |
| `MCDeliveryReboot` | `AckedIsDurable`, `Drains`, refinement of `Custody`; two faults of `nodereboot`, `slowcb`, `radio` | 100 k |
| `MCNodeTasks` | `TypeOK`, `SelfWaitOnlyAtHook`, `EditIsAtCursor`, `ConfirmedTwice`, `OnlyWedgeStops` | 27 k |
| `MCParts` | type invariants; `RunLossBounded`, `SavedIsKept`, `SavedUnlessLate`, `AppliedInOrder`, `TurnsCounted`, `PressSpeaksOnce`, `DescriptorWhole`, `WatermarkGoesHome`, `NothingSkipped` | 1.1 M |
| `MCSite` | `TypeOK`, `AlarmsAgree`, `Rejoins`, `LeavesWithoutBackend`, `StatusSettles`, `GatewayAlarmSettles` | 265 k |

Bounds, and why they are enough:

* `Control`: three temperatures. `MixTemps` are the restart levels of the two
  parameter records (1 and 2) and the higher of their setpoints, so that a
  change of parameters in the middle of a run makes a warm tank cold and a cold
  one warm; the probe difference goes both ways with one degree of slack and of
  delta. `MCControlLive` has one record with a reading below restart, one
  between and one at setpoint. Limits of 2 to 4 seconds let every timer be
  below, at and above its limit; one record has zero times, so that every limit
  changes in the middle of a cycle.
* `Delivery`: `MCDelivery` has a ring of two and three samples taken, so the ring
  overflows and is decimated while a batch is out; queues of one, so frames
  are dropped for want of room; `SeqWrap` 3 keeps repeated and new frames apart
  as 16 bits do, since fewer than three frames can be under way. Frames carry
  two samples, so part of a frame can be lost or covered. One or two faults
  suffice for each disagreement found below; two boots suffice for anything
  that confuses one boot session with the next. `Finding_MisdatedSample` needs
  frames of four samples cut from a ring of six that was decimated, seven
  samples taken and two lost frames.
* `NodeTasks`: two rows that go through the hooks and two that do not, so that
  an edit can move between rows of either kind, and the operator opens any of
  them. It has no bounds on behaviour.
* `Site`: what is compared with a limit needs to be below, at and above it, so
  the limits are 2 (`Silent`, `HealthStale`, `MaxFail`, `ActiveEntry`, 3 in the
  code) and the rest after failed scans grows at 1 and 2 (3 and 10 in the code)
  of a counter that wraps at 3 (256 in the code), which makes the wrap, and the
  short rest after it, happen. One event queued at most. Two faults, of any
  kinds, in any order; after them the site must settle.
  `Finding_StatusNotRepublished` takes three: comms off, the gateway's reboot,
  comms on.
* `MCParts`: counters up to twice the checkpoint interval and one second, with
  four starts; two rows and two values, of which the one checked by comparing
  allows one (that the console refuses a value for the other row is left to the
  proof of `ParamTypes`), two admin_seq and their repetition; knob turns up to
  two full cycles of the contacts (8 edges) with one sample skipped, debounce 3, a click from 2 polls
  and a hold from 5 (3 polls of 5 ms, 25 ms and 800 ms in the code); three boards of
  two roles on a table of two, so that a role changes hands and the table is
  full, and descriptors of three fragments; five lines read two at a time, one
  of which makes no point, with two power cuts and one file moved away.

`CHECK_DEADLOCK FALSE` is set where a bounded number of captures, faults, turns,
lines or commands lets everything come to rest (`Delivery`, `MCParts`, and the
`Finding_*` runs), and in `MCNodeTasks`, where the UI task that waits for itself
really stops every task; `OnlyWedgeStops` says that nothing else does. `Control`
and `Site` are checked for deadlock.

`MCDeliveryReboot` assumes `Prompt`: the chain comes to rest before a timer of
the node runs out (2 s against milliseconds) and before a rebooted node is back
on the air. Without it `Finding_StaleWatermark` shows what happens.

### Fairness

* `Control`: weak fairness of the tick. `monitor_task` is an endless loop with a
  one-second delay and the highest priority of the tasks that use the
  controller. Orders, parameter changes and power cuts are not fair.
* `Delivery`: weak fairness of every task's steps; each is an endless loop or an
  event handler. Faults and heartbeats are not fair, and captures end with the
  bound.
* `NodeTasks`: weak fairness of each task's next step and of the monitor's
  waking. Input, radio and console are not fair: nobody has to touch them.
  `OnlyWedgeStops` excepts an operator who restarts the node for ever and the
  wedge of `Finding_WedgeIsReset`, which TLC found to be the only ways to keep
  the monitor from its turn.
* `Site`: weak fairness of the loops of node and gateway, of the client's
  reconnecting, of the broker noticing a dead session and publishing its will,
  and of time; strong fairness of a batch being sent, since an online node has
  new samples again and again. Faults are not fair, and that a service that died
  starts again is not assumed: the properties say what they expect of a backend
  that stays up, and of one that stays away.

### Disagreements

Each `Finding_*` run checks one claim that the repository makes and TLC refutes.

| Run | Claim | What happens |
|---|---|---|
| `Finding_BlipKeepsManualCoil` | control.c:139-140: a power blip must not silently change the Manual coil | recovery from FAULT enters Manual with the coil off and does not write the blob; a blip starts the pump |
| `Finding_StaleWatermark` | commit_service.py:14-16: ack means durable | the watermark does not name the boot session; one of the last boot acknowledges low capture times of the new one |
| `Finding_StatusNotRepublished` | DESIGN_NOTE_004:493: after a gateway reboot node statuses are republished after the first liveness pass | "online" is published only when a frame takes a flag off (main.c:695-699), and the flag was in RAM: the "offline" retained before the reboot stays, though the node is bound and heard |
| `Finding_WedgeIsReset` | main.c:908-909, ui.c:476-478 | opening the user-mode or pump row of the parameter table makes the UI task wait for `s_mu`, which it holds; the monitor stops, and the watchdog only logs |
| `Finding_MisdatedSample` | commit_service.py:14-16: ack means durable | the gateway spreads the stamps of a frame evenly (main.c:433-437), decimation leaves uneven gaps; a stamp at or below the cursor is taken for a repetition and dropped (commit_service.py:381-383), then acknowledged and trimmed |

Met on the way and not given a run of their own.

Controller and counters:

* A reboot during Test resumes the mode and coil from before Test, since
  `persist_boot` writes nothing (control.c:59-61); DESIGN_NOTE_002:119-120 says
  Manual with the coil off.
* A probe fault resets `mode_s` and so restarts the 15 minutes of Test
  (control.c:220-235); DESIGN_NOTE_002:73 says 15 minutes.
* Starts counted by switching between two ticks, and the start of a restored
  Manual coil, are not saved (main.c:1009-1015, against its lines 98-101).

Parameters and menu:

* Two setters that overlap may leave the older copy of the struct in NVS
  (params.c:265; its line 178 says every successful local change persists
  immediately). `SavedUnlessLate` says exactly which rows can be affected.
  A PARAM_SET that arrives during an edit of its row is overwritten when the edit
  is committed; that is as coded, and no property speaks of it.
* A nan passes the console's checks of the three times (`d < lo || d > hi`,
  params.c:215, 221, 233; `strtod` takes "nan", lines 193-194), though lines
  30-31 say that the range checks mirror each other exactly. What the conversion
  makes of it is stored, saved, and loaded at the next boot unchecked.
  `ParamTypeOK` excepts exactly the rows that happened to.
* `prog default` changes RAM only, but any later change of any row saves all of
  them.
* Edits in the menu send no PARAM_CHANGED event, though main.c says that local
  changes propagate; `k_short` in ui.c has 10 names for 11 rows.
* A turn while the button is pressed counts if the UI task is busy with
  something else when it should be thrown away (enc.c:180).

Link and gateway:

* A QoS 0 sample lost inside a frame is covered by the watermark of a later one
  (DESIGN_NOTE_004:339-340, 492: never acks what was not durably written).
  `AckedIsDurable` excepts samples that a `qos0` fault has lost, and those that
  `Finding_MisdatedSample` is about.
* A watermark that gets lost on its way to the gateway is never repeated: the
  service drops samples at or below its cursor without publishing it again
  (commit_service.py:381-384), and the gateway does not publish a repeated frame
  (main.c:480-483). The node sends the frame again and again, until captures
  have filled the ring of 7680 entries and decimation re-cuts the frame
  (comms.c:490-512): it then ends past the cursor, is written and acknowledged.
  DESIGN_NOTE_003:712-718 calls the state machine self-healing; it is, at the
  price of that stall and of a thinner history. In `Delivery` captures end with
  the bound, so no run claims either; `Drains` is checked without the `mqtt`
  fault.
* After a HELLO_ACK whose send was not confirmed, frames are stamped with the
  anchor of the last boot session (gateway main.c:400-403 and 424-426, against
  DESIGN_NOTE_004:240-241).
* `comms_enable` during a binding may leave the node online with `s_bound`
  false; `Rejoins` holds all the same.
* Nobody tells which descriptor a fragment belongs to, and the 2 s between
  fragments that comms.c:963-966 and espnow_schema.h:222 speak of are not
  enforced (`frag_last_ms` is never read): fragments of two answers are joined
  when the later one begins where the first broke off. `config_fetched` is
  never reset when the version changes (DESIGN_NOTE_003:826-828).
* `by_role` finds the entry of a board that was replaced by one of the same role
  (DESIGN_NOTE_003:490-497): the new one is not acknowledged until the gateway
  reboots. `WatermarkGoesHome` excepts exactly that.
* `state_task` takes its three checks 100 ms apart, not at 1 Hz, and ignores
  "ok": false in the health message and the staleness of commits.
* A node that dies around a reboot of the gateway is never reported, since the
  new registry does not know it; one that comes back is what
  `Finding_StatusNotRepublished` is about. A status that an outage of more than
  30 s keeps back is deleted by the client and not published again, because the
  flag stays set (main.c:617-629, net.c:241-248, 352-371): the retained status
  stays wrong until the node changes once more. `StatusSettles` and
  `AlarmsAgree` except both through `untold`.
* The MAC layer may confirm frames of the node while the gateway's ESP-NOW is
  down; only the missing acknowledgement tells.

Commit service:

* A crash between append and cursor save writes a sample twice
  (commit_service.py:386-389, against its lines 18-20).
* `gw_down` is RAM only: after a restart the service does not take back an alarm
  it raised before. A single alarm topic is overwritten by each next alarm.
* The tailer does not advance over a chunk that has no points (line 213 says
  "advance past it"); a line longer than the cap, or a request the database
  rejects for good, keeps it where it is; an error writing the offset ends the
  thread. What is left of a file that is moved away is never read, nor is the
  beginning of a new one that has grown past the offset unnoticed. Half a line
  left by a power cut makes the next record unreadable.

## Proofs

All are for every value of the constants that the named assumptions allow, and
all the safety and action properties of the passing runs are among them. A
theorem with a hypothesis beyond the assumptions says so here.

`ControlProofs` (`TempsAssumption`, `ParamsAssumption`, `LimitsAssumption`,
`CapAssumption`): type correctness, `ModeAgrees`, `BlindOrHaltedIsOff`,
`HaltSurvivesPowerLoss`, `ManualSurvivesPowerLoss`, `BlobIsRestorable`,
`NoColdSelfStop`, and `Spec => CoilContractHolds`. The inductive invariant has
four parts. `Sound(ctrl)`: the struct is in its domain, modes agree, Fault and
Off mean off, and the coil is the image of the cycle. `Faithful(ctrl, boot)`:
the blob is restorable and holds what the two persistence properties say; it
needs `Sound`, because whether a command writes depends on the mode it found.
`ctrl.cycle_s <= held_s`: the controller's own timer never runs ahead of the
time since the coil last switched, which turns the code's test of `cycle_s`
into the contract's test of `held_s`. And `PeakIsSeen`: the peak that the stop
rules look at was read in this run, so that no run ends on the heat of an
earlier one; from it `NoColdSelfStop` follows because the hysteresis is
positive (params.c:34) and `NoPeak` is below every temperature. One lemma per
helper (`go_idle`, `go_running`, `Age`, `Overlay`, `Cycle`, ...) says what it
keeps, one per action that it keeps the invariant, and the refinement has one
lemma per action that maps it to a step of the contract or a stutter.

`DeliveryProofs` (`DeliveryAssumption`, `RingAssumption`): `TypeOK`,
`NoDuplicateLines`, `AckedIsDurable`, `WatermarkIsDurable`, and that `Delivery`
implements `Custody`. It comes in three layers.

* `TypeInv` is the types, for rings and frames of any size. Decimation and
  trimming stay in range only because the ring is strictly rising (`Rising`) and
  its gaps do not grow towards the newest entry (`Thinning`), which decimation
  of the older half keeps; from that the interpolated stamps are bounded by the
  frame's ends.
* `OrderInv` keeps boot sessions in order along the radio, the broker and the
  service, and every line of the log at or below the cursor but the one being
  written and torn ones. `NoDuplicateLines` is a part of it.
* `CustodyInv` follows every watermark back to a line: at the service and the
  broker (`BrokerHolds`), in the gateway (`MarksHold`), on the air
  (`FramesHold`); and says that all a watermark covers is settled
  (`SettledIsPast`): in the log, lost by the broker, or dropped as misdated.

Types and duplicates are proved without a hypothesis. The third layer, and with
it `AckedIsDurable`, `WatermarkIsDurable` and the refinement, is proved under
`QuietReboots`: the node does not reboot, or not with an acknowledgement on its
way (`Prompt`). That hypothesis cannot be dropped: `Finding_StaleWatermark` is
what happens without it, because a watermark does not name its boot session.

`NodeTasksProofs` (`RowsAssumption`): `TypeOK`, `EditIsAtCursor`,
`ConfirmedTwice` and `SelfWaitOnlyAtHook`, none with a hypothesis. A plan is a sequence of steps, and all rests
on what replacing its first step by others does to it (`SplicedIs`,
`SpliceMoves`). `MenuInv` says that a row waits to be opened only after the
input that asked for it and with the cursor on it. `LockInv` says that every
plan is `Paired` and that what the holder of `s_mu` has left to do `Releases`
it first. One plan is excepted (`AtHook`): the UI task's after a click on a
hooked row, on the parameter screen, which takes the mutex again before it gives
it back. So the theorem does not keep the operator from anything; it says that
`Finding_WedgeIsReset` shows the only place where a task waits for itself.
`ArmInv`: what a second click confirms was armed by the click before, on that
line.

`SiteProofs` (`LinkAssumption`, `UplinkAssumption`, `SiteAssumption`): `TypeOK`
and `AlarmsAgree`, for any number of faults. `AlarmsAgree` speaks of what the
service believes and what the gateway holds, which never meet. `SiteInv` goes
by what lies between: the latest news of the node is in the client that waits
for a connection, or retained, or got lost there (`News`); nothing waits while
the broker is reached, and a live session has said "online" (`Connection`); and
a service that is up has heard what is retained,
when it was published or when it started (`Heeded`).

`PartsProofs` (the assumptions of the five parts): `RunLossBounded` and
`SavedIsKept` from `saved = nvs.total` and `total - saved < Checkpoint`: every
path that writes the blob moves the mark with it, and the checkpoint is tested
every tick. `SavedUnlessLate` and `AppliedInOrder`: the first speaks of moments
without a setter and is not inductive. `ParamInv` adds that a copy of the struct
is true of every row it has not missed (`TrueCopies`), and that a row which
differs between RAM and NVS has somebody who is going to save it as it is
(`Cared`), and that what a setter or a copy has in hand is in range but for the
rows a nan was typed for (`Sound`), from which `ParamTypeOK`; `SetsOrdered` ties `s_admin_seq` to the command in hand. And
`TypesOK` of `MCParts`, from the invariants of all five parts, since whichever
part takes a step each of them takes one of its own or none.

`EncoderProofs` (`EncoderAssumption`): `TurnsCounted` and `PressSpeaksOnce`.
`Counted` says that `s_ab` is the contacts at the knob's position, so that the
table is asked about edges there really were; `Pressing` that a press in
progress has said nothing yet, that only a stable "down" has one, and that the
candidate for one has been seen as often as is counted.

`GwNodesProofs` (`RegistryAssumption`): `DescriptorWhole` and
`WatermarkGoesHome`. `RegistryInv` adds that no MAC has two entries, that the
fragments collected are the first ones in their order *at every moment*, and
that a batch that was recorded waits in the entry of its own board until it is
acknowledged.

`InfluxTailerProofs` (`TailerAssumption`): `NothingSkipped`. `TailerInv` says
the same of every offset there is, the saved one, the one in RAM and the one
behind the batch in hand, for the last of them counting the points in hand; and
that offsets of the present file lie within it.

Only model-checked: the liveness properties (`ColdTankIsServed`,
`ChargedTankIsLeft`, `TestEnds`, `Drains`, `OnlyWedgeStops`, `Rejoins`,
`LeavesWithoutBackend`, `StatusSettles`, `GatewayAlarmSettles`), which are
outside this prover's reach, as are `ENABLED` and induction over data.

## Not modelled, and the plan

Not modelled: failing NVS writes of the boot blob and the counters (those of
the tunables are); floating-point temperatures and the ADC;
drawing; set-up pages and credentials; the saved channel and RSSI; time sync of
the node and SNTP; the bench master and the tools; third-party configuration.
`stats_save` is one step in `NodeStats`; that of the console's `reboot`
(main.c:709) may in the code be overtaken by the monitor between its copy and its
write, and then leaves a blob that is one second old. Wall time is never
lost and clocks do not wrap in `Delivery`: capture times are
indices, and a wrapping clock multiplies its states beyond what TLC can do in
minutes. One node is registered in `Delivery` and `Site`; `GwNodes` has several.

Next, in this order:

1. `NodeFifo` on a wrapping clock: trimming and decimation against `wrap_le`,
   with the lemmas about wrap-safe comparison that it needs.
2. What the hypothesis of `DeliveryProofs` excludes, as a theorem of its own:
   `AckedIsDurable` with reboots but for capture times that a watermark of an
   earlier session covers.
3. The steps that the liveness properties rest on: which action brings a
   disagreement to an end, and that no other prolongs it.
