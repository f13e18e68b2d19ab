--------------------------- MODULE ControlProofs ---------------------------
(***************************************************************************)
(* Theorems about Control, for every choice of temperatures, parameter     *)
(* sets and limits.  The operators of the controller are treated first,    *)
(* each by a lemma that says what it returns for a sound controller; the   *)
(* steps of the specification then follow from the lemmas.                 *)
(***************************************************************************)
EXTENDS Control, TLAPS

\* What every bbu_ctrl_* call preserves, as a predicate on a controller.
Sound(c) ==
  /\ c \in Ctrl
  /\ c.mode \in LoopModes => c.user_mode = "AUTO"
  /\ c.mode \notin LoopModes \cup {"FAULT"} => c.mode = c.user_mode
  /\ c.relay_on <=> c.cycle = "RUNNING"
  /\ c.mode \in {"FAULT", "OFF"} => ~c.relay_on

\* What a blob in NVS must be, given the controller it was written for.
Faithful(c, b) ==
  /\ b \in Blobs
  /\ b.mode # "TESTING"
  /\ b.relay => b.mode = "MANUAL"
  /\ c.user_mode = "OFF" => b.mode = "OFF" /\ b.relay = FALSE
  /\ c.user_mode = "MANUAL" => b.mode \in {"MANUAL", "NONE"}
  /\ c.mode = "MANUAL" /\ c.relay_on => b.mode = "MANUAL" /\ b.relay = TRUE

\* In a run of the loop the peak is no higher than what the run has read.
PeakIsSeen ==
  ctrl.relay_on /\ ctrl.mode \in LoopModes => ctrl.peak_tpo_c <= hottest

\* The inductive invariant: a sound controller, a blob that restores it as
\* DESIGN_NOTE_002 wants, a cycle timer that never runs ahead of the time
\* the coil has really been as it is, and a peak that was read in this run.
IInv ==
  /\ TypeOK
  /\ Sound(ctrl)
  /\ Faithful(ctrl, boot)
  /\ ctrl.cycle_s <= held_s
  /\ PeakIsSeen

-----------------------------------------------------------------------------
\* The starting values of the fields are in their ranges.
LEMMA RangeFacts ==
  /\ 0 \in ModeTimer /\ 0 \in CycleTimer /\ 0 \in StuckTimer
  /\ NoPeak \in Peaks
  /\ "IDLE" \in Cycles /\ "RUNNING" \in Cycles
  /\ UserModes \subseteq Modes
  /\ {"AUTO", "MANUAL", "TESTING", "OFF"} = UserModes
  /\ "FAULT" \in Modes /\ "TPO_ONLY" \in Modes
BY LimitsAssumption
   DEF ModeTimer, CycleTimer, StuckTimer, Peaks, Cycles, UserModes, Modes

\* Peaks are numbers.
LEMMA PeaksAre == \A t \in Peaks : t \in Int /\ t >= NoPeak
<1>1. NoPeak \in Int
  BY DEF NoPeak
<1>2. \A t \in Temps : t \in Int /\ t > NoPeak
  BY TempsAssumption
<1>. SUFFICES ASSUME NEW t \in Peaks PROVE t \in Int /\ t >= NoPeak
  OBVIOUS
<1>3. CASE t \in Temps
  BY <1>1, <1>2, <1>3
<1>4. CASE t = NoPeak
  BY <1>1, <1>4
<1>. QED BY <1>3, <1>4 DEF Peaks

\* A saturating counter stays in its range, never decreases, keeps order.
LEMMA OlderFacts ==
  ASSUME NEW cap \in Nat, NEW t \in 0 .. cap
  PROVE  /\ Older(t, cap) \in 0 .. cap
         /\ t <= Older(t, cap)
         /\ \A u \in 0 .. cap : t <= u => Older(t, cap) <= Older(u, cap)
BY DEF Older

\* go_idle: the coil is off, the cycle timer restarts, the modes stay.
LEMMA GoIdleFacts ==
  ASSUME NEW c \in Ctrl
  PROVE  /\ go_idle(c) \in Ctrl
         /\ go_idle(c).mode = c.mode
         /\ go_idle(c).user_mode = c.user_mode
         /\ go_idle(c).relay_on = FALSE
         /\ go_idle(c).cycle = "IDLE"
         /\ go_idle(c).cycle_s = 0
BY RangeFacts, Zenon DEF go_idle, Ctrl

\* go_running: the coil is on, the cycle timer restarts, the modes stay.
LEMMA GoRunningFacts ==
  ASSUME NEW c \in Ctrl
  PROVE  /\ go_running(c) \in Ctrl
         /\ go_running(c).mode = c.mode
         /\ go_running(c).user_mode = c.user_mode
         /\ go_running(c).relay_on = TRUE
         /\ go_running(c).cycle = "RUNNING"
         /\ go_running(c).cycle_s = 0
         /\ go_running(c).peak_tpo_c = NoPeak
BY RangeFacts, Zenon DEF go_running, Ctrl

\* The controller after bbu_ctrl_init is sound.
LEMMA InitFacts ==
  /\ Sound(bbu_ctrl_init)
  /\ bbu_ctrl_init.mode = "MANUAL"
  /\ bbu_ctrl_init.user_mode = "MANUAL"
  /\ bbu_ctrl_init.relay_on = FALSE
  /\ bbu_ctrl_init.cycle_s = 0
<1>1. bbu_ctrl_init \in Ctrl
  BY RangeFacts, Zenon DEF bbu_ctrl_init, Ctrl
<1>2. QED BY <1>1 DEF bbu_ctrl_init, Sound, LoopModes

\* bbu_ctrl_request_mode keeps a sound controller sound and adopts the mode
\* as user mode; the coil survives only into Manual, Test or the same loop.
LEMMA RequestModeFacts ==
  ASSUME NEW c, Sound(c), NEW m \in UserModes
  PROVE  LET n == bbu_ctrl_request_mode(c, m)
         IN  /\ Sound(n)
             /\ n.user_mode = m
             /\ n.mode = IF c.mode = "FAULT" THEN "FAULT"
                         ELSE IF AlreadyIn(c, m) THEN c.mode ELSE m
             /\ \/ n.relay_on = FALSE /\ n.cycle_s = 0
                \/ n.relay_on = c.relay_on /\ n.cycle_s = c.cycle_s
             /\ n.relay_on => c.relay_on /\ c.mode # "FAULT"
             /\ ~AlreadyIn(c, m) /\ m \in {"AUTO", "OFF"} => n.relay_on = FALSE
<1> DEFINE asked   == [c EXCEPT !.user_mode = m, !.mode_s = 0,
                                !.tpo_only_src = FALSE]
           entered == IF c.mode = "FAULT" THEN asked ELSE [asked EXCEPT !.mode = m]
           n == bbu_ctrl_request_mode(c, m)
<1>1. /\ asked \in Ctrl /\ asked.mode = c.mode /\ asked.user_mode = m
      /\ asked.relay_on = c.relay_on /\ asked.cycle = c.cycle
      /\ asked.cycle_s = c.cycle_s
  BY RangeFacts, Zenon DEF Sound, Ctrl
<1> HIDE DEF asked
<1>a. m \in Modes
  BY RangeFacts
<1>2. /\ entered \in Ctrl /\ entered.user_mode = m
      /\ entered.mode = IF c.mode = "FAULT" THEN "FAULT" ELSE m
      /\ entered.relay_on = c.relay_on /\ entered.cycle = c.cycle
      /\ entered.cycle_s = c.cycle_s
  <2>1. CASE c.mode = "FAULT"
    BY <1>1, <2>1
  <2>2. CASE c.mode # "FAULT"
    BY <1>1, <1>a, <2>2, Zenon DEF Ctrl
  <2>3. QED BY <2>1, <2>2
<1>3. n = IF c.mode # "FAULT" /\ AlreadyIn(c, m) THEN asked
          ELSE IF m \in {"AUTO", "OFF"} THEN go_idle(entered) ELSE entered
  BY DEF bbu_ctrl_request_mode, asked
<1> HIDE DEF entered, n
<1>4. CASE c.mode # "FAULT" /\ AlreadyIn(c, m)
  BY <1>1, <1>3, <1>4 DEF Sound, AlreadyIn, LoopModes, UserModes, n
<1>5. CASE ~(c.mode # "FAULT" /\ AlreadyIn(c, m)) /\ m \in {"AUTO", "OFF"}
  <2>1. n = go_idle(entered)
    BY <1>3, <1>5
  <2>2. /\ n \in Ctrl /\ n.mode = entered.mode /\ n.user_mode = entered.user_mode
        /\ n.relay_on = FALSE /\ n.cycle = "IDLE" /\ n.cycle_s = 0
    BY <1>2, <2>1, GoIdleFacts
  <2>3. QED BY <1>2, <1>5, <2>2 DEF Sound, AlreadyIn, LoopModes, n
<1>6. CASE ~(c.mode # "FAULT" /\ AlreadyIn(c, m)) /\ m \notin {"AUTO", "OFF"}
  BY <1>2, <1>3, <1>6 DEF Sound, AlreadyIn, LoopModes, UserModes, n
<1>7. QED BY <1>4, <1>5, <1>6

\* bbu_ctrl_manual_relay leaves Manual or Test in force with the coil as
\* ordered and the cycle timer at zero.
LEMMA ManualRelayFacts ==
  ASSUME NEW c, Sound(c), NEW on \in BOOLEAN
  PROVE  LET n == bbu_ctrl_manual_relay(c, on)
         IN  /\ Sound(n)
             /\ n.mode = IF c.mode = "TESTING" THEN "TESTING" ELSE "MANUAL"
             /\ n.user_mode = n.mode
             /\ n.relay_on = on
             /\ n.cycle_s = 0
<1> DEFINE owned == IF c.mode \in {"MANUAL", "TESTING"} THEN c
                    ELSE [c EXCEPT !.mode = "MANUAL", !.user_mode = "MANUAL",
                                   !.mode_s = 0, !.tpo_only_src = FALSE]
<1>1. /\ owned \in Ctrl
      /\ owned.mode = IF c.mode = "TESTING" THEN "TESTING" ELSE "MANUAL"
      /\ owned.user_mode = owned.mode
  <2>1. CASE c.mode \in {"MANUAL", "TESTING"}
    BY <2>1 DEF Sound, LoopModes
  <2>2. CASE c.mode \notin {"MANUAL", "TESTING"}
    <3>1. "MANUAL" \in UserModes /\ "MANUAL" \in Modes
      BY RangeFacts
    <3>2. c \in Ctrl
      BY DEF Sound
    <3>3. QED BY <2>2, <3>1, <3>2, RangeFacts, Zenon DEF Ctrl
  <2>3. QED BY <2>1, <2>2
<1>2. bbu_ctrl_manual_relay(c, on) = IF on THEN go_running(owned) ELSE go_idle(owned)
  BY DEF bbu_ctrl_manual_relay
<1> HIDE DEF owned
<1>3. CASE on = TRUE
  <2>1. bbu_ctrl_manual_relay(c, on) = go_running(owned)
    BY <1>2, <1>3
  <2>2. QED BY <1>1, <1>3, <2>1, GoRunningFacts DEF Sound, LoopModes
<1>4. CASE on = FALSE
  <2>1. bbu_ctrl_manual_relay(c, on) = go_idle(owned)
    BY <1>2, <1>4
  <2>2. QED BY <1>1, <1>4, <2>1, GoIdleFacts DEF Sound, LoopModes
<1>5. QED BY <1>3, <1>4

-----------------------------------------------------------------------------
(* The stages of the tick.                                                 *)

\* Age moves timers and warnings only.
LEMMA AgeFacts ==
  ASSUME NEW c \in Ctrl, NEW s \in Sense, NEW p \in ParamSets,
         NEW n, n = Age(c, s, p)
  PROVE  /\ n \in Ctrl
         /\ n.mode = c.mode /\ n.user_mode = c.user_mode
         /\ n.cycle = c.cycle /\ n.relay_on = c.relay_on
         /\ n.cycle_s = Older(c.cycle_s, CycleCap)
         /\ n.peak_tpo_c = c.peak_tpo_c
<1> DEFINE run   == IF c.relay_on THEN Older(c.run_s, CycleCap) ELSE c.run_s
           stray == ~c.relay_on /\ s.ct_present
           stuck == IF stray THEN Older(c.stuck_s, StuckConfirm) ELSE 0
           wm    == c.warn_maxrun \/ (c.relay_on /\ run >= p.max_run)
           ws    == stray /\ (c.warn_stuck \/ stuck >= StuckConfirm)
           ms    == Older(c.mode_s, TestLimit)
           cs    == Older(c.cycle_s, CycleCap)
<1>1. c.mode_s \in ModeTimer /\ c.cycle_s \in CycleTimer
      /\ c.run_s \in CycleTimer /\ c.stuck_s \in StuckTimer
  BY Zenon DEF Ctrl
<1>2. ms \in ModeTimer /\ cs \in CycleTimer
  BY <1>1, LimitsAssumption DEF Older, ModeTimer, CycleTimer
<1>3. run \in CycleTimer
  BY <1>1, LimitsAssumption DEF Older, CycleTimer
<1>4. stuck \in StuckTimer
  BY <1>1, LimitsAssumption DEF Older, StuckTimer
<1>5. wm \in BOOLEAN /\ ws \in BOOLEAN
  OBVIOUS
<1>6. n = [c EXCEPT !.mode_s = ms, !.cycle_s = cs, !.run_s = run,
                    !.warn_maxrun = wm, !.stuck_s = stuck, !.warn_stuck = ws]
  BY DEF Age
<1> HIDE DEF run, stray, stuck, wm, ws, ms
<1>7. QED BY <1>2, <1>3, <1>4, <1>5, <1>6, Zenon DEF Ctrl

\* The end of Test hands the coil to the loop, off; nothing else happens.
LEMMA ExpireFacts ==
  ASSUME NEW c, Sound(c), NEW n, n = ExpireTest(c)
  PROVE  /\ Sound(n)
         /\ \/ n = c
            \/ /\ c.user_mode = "TESTING"
               /\ n.user_mode = "AUTO" /\ n.mode = "AUTO"
               /\ n.relay_on = FALSE /\ n.cycle_s = 0
<1>1. CASE ~TestExpired(c)
  BY <1>1 DEF ExpireTest
<1>2. CASE TestExpired(c)
  <2> DEFINE e == [c EXCEPT !.user_mode = "AUTO", !.mode = "AUTO",
                            !.mode_s = 0, !.tpo_only_src = FALSE]
  <2>1. "AUTO" \in UserModes /\ "AUTO" \in Modes
    BY RangeFacts
  <2>2. e \in Ctrl /\ e.user_mode = "AUTO" /\ e.mode = "AUTO"
    BY <2>1, RangeFacts, Zenon DEF Sound, Ctrl
  <2>3. n = go_idle(e)
    BY <1>2 DEF ExpireTest
  <2> HIDE DEF e
  <2>4. QED BY <1>2, <2>2, <2>3, GoIdleFacts DEF Sound, LoopModes, TestExpired
<1>3. QED BY <1>1, <1>2

\* The no-current warning disturbs nothing.
LEMMA WarnFacts ==
  ASSUME NEW c, Sound(c), NEW s, NEW n, n = WarnNoCt(c, s)
  PROVE  /\ Sound(n)
         /\ n.mode = c.mode /\ n.user_mode = c.user_mode
         /\ n.cycle = c.cycle /\ n.relay_on = c.relay_on
         /\ n.cycle_s = c.cycle_s
         /\ n.peak_tpo_c = c.peak_tpo_c
<1> DEFINE w == /\ CtFitted
                /\ c.cycle = "RUNNING"
                /\ c.cycle_s >= NoctConfirm
                /\ ~s.ct_present
<1>1. w \in BOOLEAN
  OBVIOUS
<1>2. n = [c EXCEPT !.warn_noct = w]
  BY DEF WarnNoCt
<1> HIDE DEF w
<1>3. /\ n \in Ctrl
      /\ n.mode = c.mode /\ n.user_mode = c.user_mode
      /\ n.cycle = c.cycle /\ n.relay_on = c.relay_on
      /\ n.cycle_s = c.cycle_s
      /\ n.peak_tpo_c = c.peak_tpo_c
  BY <1>1, <1>2, Zenon DEF Sound, Ctrl
<1>4. QED BY <1>3 DEF Sound

\* Losing TPO ends in FAULT with the coil off.
LEMMA TripFacts ==
  ASSUME NEW c, Sound(c), NEW n, n = Trip(c)
  PROVE  /\ Sound(n)
         /\ n.mode = "FAULT" /\ n.user_mode = c.user_mode
         /\ n.relay_on = FALSE
         /\ n.cycle_s = 0 \/ (n.cycle_s = c.cycle_s /\ c.relay_on = FALSE)
<1>1. CASE c.mode = "FAULT"
  BY <1>1 DEF Trip, Sound, Ctrl
<1>2. CASE c.mode # "FAULT"
  <2> DEFINE e == [c EXCEPT !.mode = "FAULT", !.mode_s = 0,
                            !.tpo_only_src = FALSE]
  <2>1. e \in Ctrl /\ e.mode = "FAULT" /\ e.user_mode = c.user_mode
    BY RangeFacts, Zenon DEF Sound, Ctrl
  <2>2. n = go_idle(e)
    BY <1>2 DEF Trip
  <2> HIDE DEF e
  <2>3. QED BY <2>1, <2>2, GoIdleFacts DEF Sound, LoopModes
<1>3. QED BY <1>1, <1>2

\* A returning TPO resumes the remembered user mode with the coil off.
LEMMA RecoverFacts ==
  ASSUME NEW c, Sound(c), NEW n, n = Recover(c)
  PROVE  /\ Sound(n)
         /\ n.mode # "FAULT" /\ n.user_mode = c.user_mode
         /\ \/ n = c
            \/ /\ c.mode = "FAULT" /\ n.mode = c.user_mode
               /\ n.relay_on = FALSE /\ n.cycle_s = 0
<1>1. CASE c.mode # "FAULT"
  BY <1>1 DEF Recover
<1>2. CASE c.mode = "FAULT"
  <2> DEFINE e == [c EXCEPT !.mode = c.user_mode, !.mode_s = 0]
  <2>1. c.user_mode \in UserModes /\ c \in Ctrl
    BY DEF Sound, Ctrl
  <2>2. e \in Ctrl /\ e.mode = c.user_mode /\ e.user_mode = c.user_mode
    BY <2>1, RangeFacts, Zenon DEF Ctrl
  <2>3. n = go_idle(e)
    BY <1>2 DEF Recover
  <2> HIDE DEF e
  <2>4. QED BY <1>2, <2>1, <2>2, <2>3, GoIdleFacts DEF Sound, LoopModes, UserModes
<1>3. QED BY <1>1, <1>2

\* The loop touches only a controller it owns; it starts the coil only after
\* min_off on the cycle timer and stops it only after min_on.
LEMMA LoopFacts ==
  ASSUME NEW c, Sound(c), c.mode # "FAULT",
         NEW s \in Sense, NEW p \in ParamSets, NEW n, n = Loop(c, s, p)
  PROVE  /\ Sound(n)
         /\ n.user_mode = c.user_mode
         /\ c.mode \notin LoopModes => n = c
         /\ c.mode \in LoopModes =>
              /\ n.mode \in LoopModes
              /\ \/ n.relay_on = c.relay_on /\ n.cycle_s = c.cycle_s
                 \/ /\ ~c.relay_on /\ n.relay_on
                    /\ n.cycle_s = 0 /\ c.cycle_s >= p.min_off
                 \/ /\ c.relay_on /\ ~n.relay_on
                    /\ n.cycle_s = 0 /\ c.cycle_s >= p.min_on
<1>1. CASE c.mode \notin LoopModes
  BY <1>1 DEF Loop, LoopOwns
<1>2. CASE c.mode \in LoopModes
  <2> DEFINE target == IF TpuBad(s) THEN "TPO_ONLY" ELSE "AUTO"
             o  == Overlay(c, s)
             ms == IF c.mode = target THEN c.mode_s ELSE 0
             bad == TpuBad(s)
  <2>0. c.user_mode = "AUTO" /\ c \in Ctrl
    BY <1>2 DEF Sound
  <2>1. n = Cycle(o, s, p)
    BY <1>2, <2>0 DEF Loop, LoopOwns
  <2>2. bad \in BOOLEAN /\ target \in Modes /\ target \in LoopModes
    BY RangeFacts DEF TpuBad, LoopModes, Modes, UserModes
  <2>3. ms \in ModeTimer
    BY <2>0, RangeFacts, Zenon DEF Ctrl
  <2>4. o = [c EXCEPT !.tpo_only_src = bad, !.mode = target, !.mode_s = ms]
    BY DEF Overlay
  <2> HIDE DEF target, bad, ms, o
  <2>5. /\ o \in Ctrl /\ o.mode = target /\ o.user_mode = c.user_mode
        /\ o.relay_on = c.relay_on /\ o.cycle = c.cycle
        /\ o.cycle_s = c.cycle_s
    BY <2>0, <2>2, <2>3, <2>4, Zenon DEF Ctrl
  <2>6. Sound(o)
    BY <2>0, <2>2, <2>5, <1>2 DEF Sound, LoopModes
  <2> DEFINE hot    == IF s.tpo.c > o.peak_tpo_c THEN s.tpo.c ELSE o.peak_tpo_c
             peaked == [o EXCEPT !.peak_tpo_c = hot]
             start  == Starts(o, s, p)
             stop   == Stops(peaked, s, p)
  <2>7. n = IF o.cycle = "IDLE" THEN (IF start THEN go_running(o) ELSE o)
            ELSE (IF stop THEN go_idle(peaked) ELSE peaked)
    BY <2>1, Zenon DEF Cycle
  <2>8. hot \in Peaks
    <3>1. o.peak_tpo_c \in Peaks
      BY <2>5, Zenon DEF Ctrl
    <3>2. s.tpo.c \in Temps
      BY Zenon DEF Sense, Reading
    <3>3. QED BY <3>1, <3>2 DEF Peaks
  <2>9. start => o.cycle_s >= p.min_off
    BY DEF Starts
  <2> HIDE DEF hot, start
  <2>11. /\ peaked \in Ctrl /\ peaked.mode = o.mode
         /\ peaked.user_mode = o.user_mode /\ peaked.cycle = o.cycle
         /\ peaked.relay_on = o.relay_on /\ peaked.cycle_s = o.cycle_s
    BY <2>5, <2>8, Zenon DEF Ctrl
  <2>10. stop => o.cycle_s >= p.min_on
    BY <2>11 DEF Stops
  <2> HIDE DEF peaked, stop
  <2>12. CASE o.cycle = "IDLE" /\ start
    <3>1. n = go_running(o)
      BY <2>7, <2>12
    <3>2. QED BY <1>2, <2>0, <2>2, <2>5, <2>6, <2>9, <2>12, <3>1, GoRunningFacts
              DEF Sound, LoopModes
  <2>13. CASE o.cycle = "IDLE" /\ ~start
    BY <1>2, <2>2, <2>5, <2>6, <2>7, <2>13
  <2>14. CASE o.cycle # "IDLE" /\ stop
    <3>1. n = go_idle(peaked)
      BY <2>7, <2>14
    <3>2. o.cycle = "RUNNING"
      BY <2>5, <2>14 DEF Ctrl, Cycles
    <3>3. /\ n \in Ctrl /\ n.mode = target /\ n.user_mode = "AUTO"
          /\ n.relay_on = FALSE /\ n.cycle = "IDLE" /\ n.cycle_s = 0
      BY <2>0, <2>5, <2>11, <3>1, GoIdleFacts
    <3>4. Sound(n)
      BY <2>2, <3>3 DEF Sound, LoopModes
    <3>5. c.relay_on = TRUE /\ c.cycle_s >= p.min_on
      BY <2>5, <2>6, <2>10, <2>14, <3>2, <2>0, Zenon DEF Sound, Ctrl
    <3>6. QED BY <1>2, <2>0, <2>2, <3>3, <3>4, <3>5
  <2>15. CASE o.cycle # "IDLE" /\ ~stop
    BY <1>2, <2>0, <2>2, <2>5, <2>6, <2>7, <2>11, <2>15 DEF Sound
  <2>16. QED BY <2>12, <2>13, <2>14, <2>15
<1>3. QED BY <1>1, <1>2

\* The first half of the tick: time passes and Test may run out.
LEMMA AgedFacts ==
  ASSUME NEW c, Sound(c), NEW s \in Sense, NEW p \in ParamSets,
         NEW n, n = WarnNoCt(ExpireTest(Age(c, s, p)), s)
  PROVE  /\ Sound(n)
         /\ \/ /\ n.mode = c.mode /\ n.user_mode = c.user_mode
               /\ n.relay_on = c.relay_on
               /\ n.cycle_s = Older(c.cycle_s, CycleCap)
               /\ n.peak_tpo_c = c.peak_tpo_c
            \/ /\ c.user_mode = "TESTING"
               /\ n.mode = "AUTO" /\ n.user_mode = "AUTO"
               /\ n.relay_on = FALSE /\ n.cycle_s = 0
<1> DEFINE a == Age(c, s, p)
           e == ExpireTest(a)
<1>1. /\ a \in Ctrl
      /\ a.mode = c.mode /\ a.user_mode = c.user_mode
      /\ a.cycle = c.cycle /\ a.relay_on = c.relay_on
      /\ a.cycle_s = Older(c.cycle_s, CycleCap)
      /\ a.peak_tpo_c = c.peak_tpo_c
  BY AgeFacts DEF Sound
<1>2. Sound(a)
  BY <1>1 DEF Sound
<1> HIDE DEF a
<1>3. /\ Sound(e)
      /\ \/ e = a
         \/ /\ a.user_mode = "TESTING"
            /\ e.user_mode = "AUTO" /\ e.mode = "AUTO"
            /\ e.relay_on = FALSE /\ e.cycle_s = 0
  BY <1>2, ExpireFacts
<1>4. n = WarnNoCt(e, s)
  BY DEF a
<1> HIDE DEF e
<1>5. /\ Sound(n)
      /\ n.mode = e.mode /\ n.user_mode = e.user_mode
      /\ n.relay_on = e.relay_on /\ n.cycle_s = e.cycle_s
      /\ n.peak_tpo_c = e.peak_tpo_c
  BY <1>3, <1>4, WarnFacts
<1>6. QED BY <1>1, <1>3, <1>5

\* One tick, as the properties see it: the controller stays sound, only the
\* end of Test moves the user's mode, a running Manual coil was running in
\* Manual before, and the coil moves in one of the contract's ways.
LEMMA TickFacts ==
  ASSUME NEW c, Sound(c), NEW s \in Sense, NEW p \in ParamSets,
         NEW n, n = bbu_ctrl_tick(c, s, p)
  PROVE  /\ Sound(n)
         /\ n.user_mode = c.user_mode
            \/ (c.user_mode = "TESTING" /\ n.user_mode = "AUTO")
         /\ n.mode = "MANUAL" /\ n.relay_on => c.mode = "MANUAL" /\ c.relay_on
         /\ n.cycle_s = 0 \/ (/\ n.relay_on = c.relay_on
                              /\ n.cycle_s = Older(c.cycle_s, CycleCap))
         /\ \/ n.mode = "FAULT" /\ ~n.relay_on
            \/ /\ n.mode = c.mode \/ (n.mode \in LoopModes /\ c.mode \in LoopModes)
               /\ n.relay_on = c.relay_on
            \/ /\ n.mode \in LoopModes /\ c.mode \in LoopModes
               /\ ~c.relay_on /\ n.relay_on
               /\ Older(c.cycle_s, CycleCap) >= p.min_off
            \/ /\ n.mode \in LoopModes /\ c.mode \in LoopModes
               /\ c.relay_on /\ ~n.relay_on
               /\ Older(c.cycle_s, CycleCap) >= p.min_on
            \/ /\ c.mode = "FAULT"
               /\ n.relay_on => n.mode \in LoopModes /\ p.min_off <= 0
            \/ /\ c.mode = "TESTING" /\ n.mode \in LoopModes
               /\ n.relay_on => p.min_off <= 0
<1> DEFINE a == WarnNoCt(ExpireTest(Age(c, s, p)), s)
           r == Recover(a)
<1>0. p.min_off \in Nat
  BY ParamsAssumption DEF Params
<1>1. /\ Sound(a)
      /\ \/ /\ a.mode = c.mode /\ a.user_mode = c.user_mode
            /\ a.relay_on = c.relay_on
            /\ a.cycle_s = Older(c.cycle_s, CycleCap)
            /\ a.peak_tpo_c = c.peak_tpo_c
         \/ /\ c.user_mode = "TESTING"
            /\ a.mode = "AUTO" /\ a.user_mode = "AUTO"
            /\ a.relay_on = FALSE /\ a.cycle_s = 0
  BY AgedFacts
<1>2. n = IF s.tpo.ok THEN Loop(r, s, p) ELSE Trip(a)
  BY DEF bbu_ctrl_tick
<1> HIDE DEF a
<1>3. /\ c.mode \in LoopModes => c.user_mode = "AUTO"
      /\ c.mode \notin LoopModes \cup {"FAULT"} => c.mode = c.user_mode
      /\ c.mode = "FAULT" => ~c.relay_on
      /\ c.relay_on \in BOOLEAN /\ a.relay_on \in BOOLEAN
  BY <1>1, Zenon DEF Sound, Ctrl
<1>4. CASE ~s.tpo.ok
  <2>1. n = Trip(a)
    BY <1>2, <1>4
  <2>2. /\ Sound(n)
        /\ n.mode = "FAULT" /\ n.user_mode = a.user_mode
        /\ n.relay_on = FALSE
        /\ n.cycle_s = 0 \/ (n.cycle_s = a.cycle_s /\ a.relay_on = FALSE)
    BY <1>1, <2>1, TripFacts
  <2>3. QED BY <1>1, <1>3, <2>2
<1>5. CASE s.tpo.ok
  <2>1. n = Loop(r, s, p)
    BY <1>2, <1>5
  <2>2. /\ Sound(r)
        /\ r.mode # "FAULT" /\ r.user_mode = a.user_mode
        /\ \/ r = a
           \/ /\ a.mode = "FAULT" /\ r.mode = a.user_mode
              /\ r.relay_on = FALSE /\ r.cycle_s = 0
    BY <1>1, RecoverFacts
  <2> HIDE DEF r
  <2>3. /\ Sound(n)
        /\ n.user_mode = r.user_mode
        /\ r.mode \notin LoopModes => n = r
        /\ r.mode \in LoopModes =>
              /\ n.mode \in LoopModes
              /\ \/ n.relay_on = r.relay_on /\ n.cycle_s = r.cycle_s
                 \/ /\ ~r.relay_on /\ n.relay_on
                    /\ n.cycle_s = 0 /\ r.cycle_s >= p.min_off
                 \/ /\ r.relay_on /\ ~n.relay_on
                    /\ n.cycle_s = 0 /\ r.cycle_s >= p.min_on
    BY <2>1, <2>2, LoopFacts
  <2>4. n.relay_on \in BOOLEAN /\ r.relay_on \in BOOLEAN
    BY <2>2, <2>3, Zenon DEF Sound, Ctrl
  \* Test has just ended.
  <2>5. CASE /\ c.user_mode = "TESTING"
             /\ a.mode = "AUTO" /\ a.user_mode = "AUTO"
             /\ a.relay_on = FALSE /\ a.cycle_s = 0
    <3>1. r = a
      BY <2>2, <2>5
    <3>2. c.mode \in {"FAULT", "TESTING"}
      BY <1>3, <2>5 DEF LoopModes
    <3>3. QED BY <1>0, <1>3, <2>3, <2>4, <2>5, <3>1, <3>2 DEF LoopModes
  \* The probe is back.
  <2>6. CASE /\ a.mode = c.mode /\ a.user_mode = c.user_mode
             /\ a.mode = "FAULT" /\ r.mode = a.user_mode
             /\ r.relay_on = FALSE /\ r.cycle_s = 0
    <3>1. CASE r.mode \notin LoopModes
      BY <1>3, <2>2, <2>3, <2>6, <3>1 DEF LoopModes
    <3>2. CASE r.mode \in LoopModes
      <4>1. n.mode \in LoopModes /\ n.cycle_s = 0
        BY <2>3, <2>6, <3>2
      <4>2. n.relay_on => p.min_off <= 0
        BY <1>0, <2>3, <2>6, <3>2
      <4>3. QED BY <1>3, <2>2, <2>3, <2>6, <4>1, <4>2 DEF LoopModes
    <3>3. QED BY <3>1, <3>2
  \* An ordinary second.
  <2>7. CASE /\ a.mode = c.mode /\ a.user_mode = c.user_mode
             /\ a.relay_on = c.relay_on
             /\ a.cycle_s = Older(c.cycle_s, CycleCap)
             /\ r = a
    <3>1. CASE r.mode \notin LoopModes
      BY <1>3, <2>3, <2>7, <3>1
    <3>2. CASE r.mode \in LoopModes
      BY <1>3, <2>3, <2>4, <2>7, <3>2 DEF LoopModes
    <3>3. QED BY <3>1, <3>2
  <2>8. QED BY <1>1, <2>2, <2>5, <2>6, <2>7
<1>6. QED BY <1>4, <1>5

\* What the peak of a run is made of, and what the loop has read when it ends
\* one: the probe above the restart level, now or at the peak.
PeakMoves(c, s, p, n) ==
  /\ n.relay_on /\ n.mode \in LoopModes =>
       \/ n.peak_tpo_c = NoPeak
       \/ /\ c.relay_on /\ c.mode \in LoopModes
          /\ n.peak_tpo_c \in {c.peak_tpo_c, s.tpo.c} /\ s.tpo.ok
  /\ c.relay_on /\ ~n.relay_on /\ c.mode \in LoopModes /\ n.mode \in LoopModes =>
       s.tpo.ok /\ (s.tpo.c > on_c(p) \/ c.peak_tpo_c > on_c(p))

\* A stop needs a reading above the restart level, now or at the peak.
LEMMA StopsWarm ==
  ASSUME NEW c \in Ctrl, NEW s \in Sense, NEW p \in ParamSets, NEW d \in Ctrl,
         d.peak_tpo_c \in {c.peak_tpo_c, s.tpo.c}, Stops(d, s, p)
  PROVE  s.tpo.c > on_c(p) \/ c.peak_tpo_c > on_c(p)
<1>1. p.setpoint \in Int /\ p.hysteresis \in Nat \ {0}
  BY ParamsAssumption DEF Params
<1>2. s.tpo.c \in Int
  <2>1. s.tpo.c \in Temps
    BY Zenon DEF Sense, Reading
  <2>. QED BY <2>1, TempsAssumption
<1>3. c.peak_tpo_c \in Int
  <2>1. c.peak_tpo_c \in Peaks
    BY Zenon DEF Ctrl
  <2>. QED BY <2>1, PeaksAre
<1>4. \/ s.tpo.c >= off_c(p)
      \/ s.tpo.c <= on_c(p) /\ d.peak_tpo_c > on_c(p)
  BY DEF Stops, Cooled
<1>. QED BY <1>1, <1>2, <1>3, <1>4 DEF on_c, off_c

\* The loop keeps the peak of its own runs, and begins every run without one.
LEMMA LoopPeak ==
  ASSUME NEW c, Sound(c), c.mode \in LoopModes,
         NEW s \in Sense, s.tpo.ok, NEW p \in ParamSets, NEW n, n = Loop(c, s, p)
  PROVE  PeakMoves(c, s, p, n)
<1> DEFINE target == IF TpuBad(s) THEN "TPO_ONLY" ELSE "AUTO"
           o  == Overlay(c, s)
           ms == IF c.mode = target THEN c.mode_s ELSE 0
           bad == TpuBad(s)
<1>0. c.user_mode = "AUTO" /\ c \in Ctrl
  BY DEF Sound
<1>1. n = Cycle(o, s, p)
  BY <1>0 DEF Loop, LoopOwns
<1>2. bad \in BOOLEAN /\ target \in Modes /\ target \in LoopModes
  BY RangeFacts DEF TpuBad, LoopModes, Modes, UserModes
<1>3. ms \in ModeTimer
  BY <1>0, RangeFacts, Zenon DEF Ctrl
<1>4. o = [c EXCEPT !.tpo_only_src = bad, !.mode = target, !.mode_s = ms]
  BY DEF Overlay
<1> HIDE DEF target, bad, ms, o
<1>5. /\ o \in Ctrl /\ o.relay_on = c.relay_on /\ o.cycle = c.cycle
      /\ o.peak_tpo_c = c.peak_tpo_c
  BY <1>0, <1>2, <1>3, <1>4, Zenon DEF Ctrl
<1> DEFINE hot    == IF s.tpo.c > o.peak_tpo_c THEN s.tpo.c ELSE o.peak_tpo_c
           peaked == [o EXCEPT !.peak_tpo_c = hot]
           start  == Starts(o, s, p)
           stop   == Stops(peaked, s, p)
<1>6. n = IF o.cycle = "IDLE" THEN (IF start THEN go_running(o) ELSE o)
          ELSE (IF stop THEN go_idle(peaked) ELSE peaked)
  BY <1>1, Zenon DEF Cycle
<1>7. hot \in Peaks /\ hot \in {c.peak_tpo_c, s.tpo.c}
  <2>1. o.peak_tpo_c \in Peaks
    BY <1>5, Zenon DEF Ctrl
  <2>2. s.tpo.c \in Temps
    BY Zenon DEF Sense, Reading
  <2>. QED BY <1>5, <2>1, <2>2 DEF Peaks
<1> HIDE DEF hot, start
<1>8. /\ peaked \in Ctrl /\ peaked.relay_on = o.relay_on /\ peaked.peak_tpo_c = hot
  BY <1>5, <1>7, Zenon DEF Ctrl
<1>9. stop => s.tpo.c > on_c(p) \/ c.peak_tpo_c > on_c(p)
  BY <1>0, <1>7, <1>8, StopsWarm
<1> HIDE DEF peaked, stop
<1>10. c.relay_on \in BOOLEAN /\ (c.relay_on <=> o.cycle = "RUNNING")
  BY <1>0, <1>5, Zenon DEF Sound, Ctrl
<1>11. CASE o.cycle = "IDLE" /\ start
  <2>1. n.peak_tpo_c = NoPeak /\ n.relay_on = TRUE
    BY <1>5, <1>6, <1>11, GoRunningFacts
  <2>. QED BY <2>1 DEF PeakMoves
<1>12. CASE o.cycle = "IDLE" /\ ~start
  <2>1. n.relay_on = c.relay_on /\ c.relay_on = FALSE
    BY <1>5, <1>6, <1>10, <1>12
  <2>. QED BY <2>1 DEF PeakMoves
<1>13. CASE o.cycle # "IDLE" /\ stop
  <2>1. n.relay_on = FALSE
    BY <1>6, <1>8, <1>13, GoIdleFacts
  <2>. QED BY <1>9, <1>13, <2>1 DEF PeakMoves
<1>14. CASE o.cycle # "IDLE" /\ ~stop
  <2>1. n.relay_on = c.relay_on /\ n.peak_tpo_c = hot
    BY <1>5, <1>6, <1>8, <1>14
  <2>. QED BY <1>7, <2>1 DEF PeakMoves
<1>. QED BY <1>11, <1>12, <1>13, <1>14

\* So does a tick.
LEMMA TickPeak ==
  ASSUME NEW c, Sound(c), NEW s \in Sense, NEW p \in ParamSets,
         NEW n, n = bbu_ctrl_tick(c, s, p)
  PROVE  PeakMoves(c, s, p, n)
<1> DEFINE a == WarnNoCt(ExpireTest(Age(c, s, p)), s)
           r == Recover(a)
<1>1. /\ Sound(a)
      /\ \/ /\ a.mode = c.mode /\ a.user_mode = c.user_mode
            /\ a.relay_on = c.relay_on
            /\ a.cycle_s = Older(c.cycle_s, CycleCap)
            /\ a.peak_tpo_c = c.peak_tpo_c
         \/ /\ c.user_mode = "TESTING"
            /\ a.mode = "AUTO" /\ a.user_mode = "AUTO"
            /\ a.relay_on = FALSE /\ a.cycle_s = 0
  BY AgedFacts
<1>2. n = IF s.tpo.ok THEN Loop(r, s, p) ELSE Trip(a)
  BY DEF bbu_ctrl_tick
<1> HIDE DEF a
<1>3. CASE ~s.tpo.ok
  <2>1. n.mode = "FAULT"
    BY <1>1, <1>2, <1>3, TripFacts
  <2>. QED BY <2>1 DEF PeakMoves, LoopModes
<1>4. CASE s.tpo.ok
  <2>1. n = Loop(r, s, p)
    BY <1>2, <1>4
  <2>2. /\ Sound(r) /\ r.mode # "FAULT"
        /\ r = a \/ (a.mode = "FAULT" /\ r.relay_on = FALSE)
    BY <1>1, RecoverFacts
  <2> HIDE DEF r
  <2>3. /\ r.mode \notin LoopModes => n = r
        /\ r.mode \in LoopModes => PeakMoves(r, s, p, n)
    BY <1>4, <2>1, <2>2, LoopFacts, LoopPeak
  <2>4. /\ c.mode \in LoopModes => c.user_mode = "AUTO" /\ c.mode # "FAULT"
        /\ c.mode = "FAULT" => c.relay_on = FALSE
        /\ c.relay_on \in BOOLEAN /\ r.relay_on \in BOOLEAN
    BY <2>2, Zenon DEF Sound, Ctrl, LoopModes
  <2>5. CASE r.mode \notin LoopModes
    <3>1. n.mode \notin LoopModes
      BY <2>3, <2>5
    <3>. QED BY <3>1 DEF PeakMoves
  <2>6. CASE r.mode \in LoopModes /\ r.relay_on = FALSE
    <3>1. n.relay_on /\ n.mode \in LoopModes => n.peak_tpo_c = NoPeak
      BY <2>3, <2>6 DEF PeakMoves
    <3>2. ~(c.relay_on /\ c.mode \in LoopModes)
      BY <1>1, <2>2, <2>4, <2>6
    <3>. QED BY <3>1, <3>2 DEF PeakMoves
  <2>7. CASE r.mode \in LoopModes /\ r.relay_on = TRUE
    <3>1. /\ c.mode = r.mode /\ c.relay_on = r.relay_on /\ c.peak_tpo_c = r.peak_tpo_c
      BY <1>1, <2>2, <2>7
    <3>. QED BY <2>3, <2>7, <3>1 DEF PeakMoves
  <2>. QED BY <2>4, <2>5, <2>6, <2>7
<1>. QED BY <1>3, <1>4

\* An order leaves the coil with the loop only in the run it was in.
LEMMA RequestModePeak ==
  ASSUME NEW c, Sound(c), NEW m \in UserModes,
         NEW n, n = bbu_ctrl_request_mode(c, m), n.relay_on, n.mode \in LoopModes
  PROVE  c.relay_on /\ c.mode \in LoopModes /\ n.peak_tpo_c = c.peak_tpo_c
<1> DEFINE asked == [c EXCEPT !.user_mode = m, !.mode_s = 0, !.tpo_only_src = FALSE]
<1>1. /\ n.mode = IF c.mode = "FAULT" THEN "FAULT"
                  ELSE IF AlreadyIn(c, m) THEN c.mode ELSE m
      /\ c.relay_on /\ c.mode # "FAULT"
      /\ ~AlreadyIn(c, m) /\ m \in {"AUTO", "OFF"} => n.relay_on = FALSE
  BY RequestModeFacts
<1>2. AlreadyIn(c, m)
  BY <1>1 DEF LoopModes, UserModes
<1>3. n = asked
  BY <1>1, <1>2 DEF bbu_ctrl_request_mode
<1>4. asked.peak_tpo_c = c.peak_tpo_c
  BY Zenon DEF Sound, Ctrl
<1>. QED BY <1>1, <1>2, <1>3, <1>4

-----------------------------------------------------------------------------
(* The blob.                                                               *)

\* A blob written from the controller it describes is a blob.
LEMMA BlobFacts ==
  ASSUME NEW m \in UserModes, NEW r \in BOOLEAN
  PROVE  [mode |-> m, relay |-> r] \in Blobs
BY DEF Blobs

\* A mode request leaves NVS faithful to the controller it produces.
LEMMA RequestModeKeepsBlob ==
  ASSUME NEW c, Sound(c), NEW b, Faithful(c, b), NEW m \in UserModes
  PROVE  Faithful(bbu_ctrl_request_mode(c, m), BlobAfterMode(c, m, b))
<1> DEFINE n == bbu_ctrl_request_mode(c, m)
<1>1. /\ Sound(n) /\ n.user_mode = m
      /\ n.mode = IF c.mode = "FAULT" THEN "FAULT"
                  ELSE IF AlreadyIn(c, m) THEN c.mode ELSE m
      /\ \/ n.relay_on = FALSE /\ n.cycle_s = 0
         \/ n.relay_on = c.relay_on /\ n.cycle_s = c.cycle_s
      /\ n.relay_on => c.relay_on /\ c.mode # "FAULT"
      /\ ~AlreadyIn(c, m) /\ m \in {"AUTO", "OFF"} => n.relay_on = FALSE
  BY RequestModeFacts
<1>2. n.relay_on \in BOOLEAN /\ c.relay_on \in BOOLEAN
  BY <1>1, Zenon DEF Sound, Ctrl
<1>3. BlobAfterMode(c, m, b) = IF PersistsMode(c, m) THEN persist_boot(n, b) ELSE b
  BY DEF BlobAfterMode
<1> SUFFICES Faithful(n, BlobAfterMode(c, m, b))
  OBVIOUS
<1> HIDE DEF n
<1>4. /\ c.mode \in LoopModes => c.user_mode = "AUTO"
      /\ c.mode \notin LoopModes \cup {"FAULT"} => c.mode = c.user_mode
      /\ c.mode \in {"FAULT", "OFF"} => ~c.relay_on
  BY DEF Sound
<1>5. CASE ~PersistsMode(c, m) \/ m = "TESTING"
  <2>1. BlobAfterMode(c, m, b) = b
    BY <1>1, <1>3, <1>5 DEF persist_boot
  <2>2. m = "TESTING" \/ m = c.user_mode \/ (c.mode # "FAULT" /\ AlreadyIn(c, m))
    BY <1>5 DEF PersistsMode
  <2>3. m # "TESTING" => m = c.user_mode
    BY <1>4, <2>2 DEF AlreadyIn, LoopModes, UserModes
  <2>4. n.mode = "MANUAL" /\ n.relay_on => c.mode = "MANUAL" /\ c.relay_on
    BY <1>1, <1>4, <2>2, <2>3 DEF AlreadyIn, LoopModes, UserModes
  <2>5. QED BY <1>1, <2>1, <2>3, <2>4 DEF Faithful
<1>6. CASE PersistsMode(c, m) /\ m # "TESTING"
  <2>1. BlobAfterMode(c, m, b) = [mode |-> m, relay |-> n.relay_on]
    BY <1>1, <1>3, <1>6 DEF persist_boot
  <2>2. m \in {"AUTO", "OFF"} => n.relay_on = FALSE
    BY <1>1, <1>2, <1>6 DEF PersistsMode
  <2>3. m \in {"AUTO", "OFF", "MANUAL"}
    BY <1>6 DEF UserModes
  <2>4. [mode |-> m, relay |-> n.relay_on] \in Blobs
    BY <1>2, BlobFacts
  <2>5. n.mode = "MANUAL" => m = "MANUAL"
    BY <1>1 DEF Sound, LoopModes
  <2>6. QED BY <1>1, <1>2, <2>1, <2>2, <2>3, <2>4, <2>5 DEF Faithful
<1>7. QED BY <1>5, <1>6

\* A coil order leaves NVS faithful: in Manual it is written, in Test not.
LEMMA ManualRelayKeepsBlob ==
  ASSUME NEW c, Sound(c), NEW b, Faithful(c, b), NEW on \in BOOLEAN
  PROVE  Faithful(bbu_ctrl_manual_relay(c, on), BlobAfterRelay(c, on, b))
<1> DEFINE n == bbu_ctrl_manual_relay(c, on)
<1>1. /\ Sound(n)
      /\ n.mode = IF c.mode = "TESTING" THEN "TESTING" ELSE "MANUAL"
      /\ n.user_mode = n.mode
      /\ n.relay_on = on
  BY ManualRelayFacts
<1>2. BlobAfterRelay(c, on, b) = IF n.mode = "MANUAL" THEN persist_boot(n, b) ELSE b
  BY DEF BlobAfterRelay
<1> SUFFICES Faithful(n, BlobAfterRelay(c, on, b))
  OBVIOUS
<1> HIDE DEF n
<1>3. CASE c.mode = "TESTING"
  BY <1>1, <1>2, <1>3 DEF Faithful
<1>4. CASE c.mode # "TESTING"
  <2>1. BlobAfterRelay(c, on, b) = [mode |-> "MANUAL", relay |-> on]
    BY <1>1, <1>2, <1>4 DEF persist_boot
  <2>2. [mode |-> "MANUAL", relay |-> on] \in Blobs
    BY BlobFacts, RangeFacts
  <2>3. QED BY <1>1, <1>4, <2>1, <2>2 DEF Faithful
<1>5. QED BY <1>3, <1>4

\* Any blob found in NVS restores a sound controller that it is faithful to,
\* with the coil on only for a Manual/ON blob.
LEMMA RestoreFacts ==
  ASSUME NEW b \in Blobs, b.mode # "TESTING", b.relay => b.mode = "MANUAL"
  PROVE  /\ Sound(boot_state_restore(b))
         /\ Faithful(boot_state_restore(b), BlobAfterRestore(b))
         /\ boot_state_restore(b).cycle_s = 0
         /\ boot_state_restore(b).relay_on =>
              boot_state_restore(b).mode = "MANUAL"
<1>0. b.mode \in UserModes \cup {"NONE"} /\ b.relay \in BOOLEAN
  BY DEF Blobs
<1>1. CASE b.mode \in {"AUTO", "OFF"}
  <2> DEFINE n == bbu_ctrl_request_mode(bbu_ctrl_init, b.mode)
  <2>1. b.mode \in UserModes
    BY <1>1, RangeFacts
  <2>a. ~AlreadyIn(bbu_ctrl_init, b.mode)
    BY <1>1, InitFacts DEF AlreadyIn, LoopModes
  <2>b. /\ Sound(n) /\ n.user_mode = b.mode
        /\ n.mode = IF bbu_ctrl_init.mode = "FAULT" THEN "FAULT"
                    ELSE IF AlreadyIn(bbu_ctrl_init, b.mode)
                         THEN bbu_ctrl_init.mode ELSE b.mode
        /\ \/ n.relay_on = FALSE /\ n.cycle_s = 0
           \/ /\ n.relay_on = bbu_ctrl_init.relay_on
              /\ n.cycle_s = bbu_ctrl_init.cycle_s
    BY <2>1, InitFacts, RequestModeFacts
  <2>2. /\ Sound(n) /\ n.user_mode = b.mode
        /\ n.mode = b.mode
        /\ n.relay_on = FALSE /\ n.cycle_s = 0
    BY <2>a, <2>b, InitFacts
  <2>3. PersistsMode(bbu_ctrl_init, b.mode)
    BY <1>1, InitFacts DEF PersistsMode, AlreadyIn, LoopModes
  <2>4. BlobAfterRestore(b) = [mode |-> b.mode, relay |-> FALSE]
    BY <1>1, <2>2, <2>3 DEF BlobAfterRestore, BlobAfterMode, persist_boot
  <2>5. [mode |-> b.mode, relay |-> FALSE] \in Blobs
    BY <2>1, BlobFacts
  <2>6. boot_state_restore(b) = n
    BY <1>1 DEF boot_state_restore
  <2> HIDE DEF n
  <2>7. QED BY <1>1, <2>2, <2>4, <2>5, <2>6 DEF Faithful
<1>2. CASE b.mode = "MANUAL" /\ b.relay
  <2>1. /\ boot_state_restore(b) = bbu_ctrl_manual_relay(bbu_ctrl_init, TRUE)
        /\ BlobAfterRestore(b) = b
    BY <1>2 DEF boot_state_restore, BlobAfterRestore
  <2>2. b.relay = TRUE
    BY <1>0, <1>2
  <2> DEFINE n == bbu_ctrl_manual_relay(bbu_ctrl_init, TRUE)
  <2>3. /\ Sound(n)
        /\ n.mode = IF bbu_ctrl_init.mode = "TESTING" THEN "TESTING" ELSE "MANUAL"
        /\ n.user_mode = n.mode
        /\ n.relay_on = TRUE /\ n.cycle_s = 0
    BY InitFacts, ManualRelayFacts
  <2> HIDE DEF n
  <2>4. n.mode = "MANUAL" /\ n.user_mode = "MANUAL"
    BY <2>3, InitFacts
  <2>5. boot_state_restore(b) = n
    BY <2>1 DEF n
  <2>6. Faithful(n, b)
    BY <1>2, <2>2, <2>4 DEF Faithful
  <2>7. QED BY <2>1, <2>3, <2>4, <2>5, <2>6
<1>3. CASE b.mode \notin {"AUTO", "OFF"} /\ ~(b.mode = "MANUAL" /\ b.relay)
  <2>1. boot_state_restore(b) = bbu_ctrl_init /\ BlobAfterRestore(b) = b
    BY <1>3 DEF boot_state_restore, BlobAfterRestore
  <2>2. b.mode \in {"MANUAL", "NONE"}
    BY <1>0, <1>3 DEF UserModes
  <2>3. QED BY <1>0, <2>1, <2>2, InitFacts DEF Faithful
<1>4. QED BY <1>1, <1>2, <1>3

\* What is restored runs by order or not at all.
LEMMA RestoredHasNoLoop ==
  ASSUME NEW b, NEW n, n = boot_state_restore(b), n.mode \in LoopModes
  PROVE  n.relay_on = FALSE
<1>1. /\ Sound(bbu_ctrl_init) /\ bbu_ctrl_init.relay_on = FALSE
      /\ bbu_ctrl_init.mode = "MANUAL"
  BY InitFacts
<1>2. CASE b.mode \in {"AUTO", "OFF"}
  <2>1. n = bbu_ctrl_request_mode(bbu_ctrl_init, b.mode) /\ b.mode \in UserModes
    BY <1>2, RangeFacts DEF boot_state_restore
  <2>2. n.relay_on \in BOOLEAN /\ (n.relay_on => bbu_ctrl_init.relay_on)
    <3> DEFINE q == bbu_ctrl_request_mode(bbu_ctrl_init, b.mode)
    <3>1. Sound(q) /\ (q.relay_on => bbu_ctrl_init.relay_on)
      BY <1>1, <2>1, RequestModeFacts
    <3>. QED BY <2>1, <3>1, Zenon DEF Sound, Ctrl
  <2>. QED BY <1>1, <2>2
<1>3. CASE b.mode \notin {"AUTO", "OFF"} /\ b.mode = "MANUAL" /\ b.relay
  <2>1. n.mode = "MANUAL"
    BY <1>1, <1>3, ManualRelayFacts DEF boot_state_restore
  <2>. QED BY <2>1 DEF LoopModes
<1>4. CASE b.mode \notin {"AUTO", "OFF"} /\ ~(b.mode = "MANUAL" /\ b.relay)
  BY <1>1, <1>4 DEF boot_state_restore
<1>. QED BY <1>2, <1>3, <1>4

-----------------------------------------------------------------------------
(* The steps of the specification.                                         *)

\* The program starts in the invariant.
LEMMA InitInv == Init => IInv
<1> SUFFICES ASSUME Init PROVE IInv
  OBVIOUS
<1>1. boot \in Blobs
  BY Zenon DEF Init, Blobs
<1>2. Sound(ctrl) /\ ctrl.mode = "MANUAL" /\ ctrl.user_mode = "MANUAL"
      /\ ctrl.relay_on = FALSE /\ ctrl.cycle_s = 0
  BY InitFacts DEF Init
<1>3. Faithful(ctrl, boot)
  BY <1>1, <1>2 DEF Init, Faithful
<1>4. TypeOK
  <2>1. ctrl \in Ctrl
    BY <1>2 DEF Sound
  <2>2. held_s \in CycleTimer
    BY RangeFacts, LimitsAssumption DEF Init
  <2>3. prm \in ParamSets /\ hottest \in Peaks /\ last \in Lasts
    BY RangeFacts DEF Init, Lasts
  <2>4. QED BY <1>1, <2>1, <2>2, <2>3 DEF TypeOK
<1>5. held_s = 0
  BY DEF Init
<1>6. QED BY <1>2, <1>3, <1>4, <1>5 DEF IInv, PeakIsSeen

\* A tick keeps the invariant: the cycle timer restarts or ages with held_s.
LEMMA TickInv ==
  ASSUME IInv, NEW s \in Sense, Tick(s)
  PROVE  IInv'
<1>1. /\ Sound(ctrl) /\ Faithful(ctrl, boot) /\ prm \in ParamSets
      /\ ctrl.cycle_s <= held_s /\ ctrl \in Ctrl
      /\ held_s \in CycleTimer
  BY DEF IInv, TypeOK
<1>2. ctrl' = bbu_ctrl_tick(ctrl, s, prm)
  BY DEF Tick
<1>3. /\ Sound(ctrl')
      /\ ctrl'.user_mode = ctrl.user_mode
         \/ (ctrl.user_mode = "TESTING" /\ ctrl'.user_mode = "AUTO")
      /\ ctrl'.mode = "MANUAL" /\ ctrl'.relay_on
           => ctrl.mode = "MANUAL" /\ ctrl.relay_on
      /\ ctrl'.cycle_s = 0
         \/ (/\ ctrl'.relay_on = ctrl.relay_on
             /\ ctrl'.cycle_s = Older(ctrl.cycle_s, CycleCap))
  BY <1>1, <1>2, TickFacts
<1>4. Faithful(ctrl', boot')
  <2>1. boot' = boot
    BY DEF Tick
  <2>2. QED BY <1>1, <1>3, <2>1 DEF Faithful
<1>5. ctrl.cycle_s \in CycleTimer /\ ctrl'.cycle_s \in CycleTimer
  BY <1>1, <1>3, Zenon DEF Sound, Ctrl
<1>6. held_s' \in CycleTimer
  <2>1. CASE ctrl'.relay_on = ctrl.relay_on
    BY <1>1, <2>1, LimitsAssumption DEF Tick, Older, CycleTimer
  <2>2. CASE ctrl'.relay_on # ctrl.relay_on
    BY <2>2, RangeFacts DEF Tick
  <2>3. QED BY <2>1, <2>2
<1>7. ctrl'.cycle_s <= held_s'
  <2>1. CASE ctrl'.cycle_s = 0
    BY <1>6, <2>1, LimitsAssumption DEF CycleTimer
  <2>2. CASE /\ ctrl'.relay_on = ctrl.relay_on
             /\ ctrl'.cycle_s = Older(ctrl.cycle_s, CycleCap)
    <3>1. held_s' = Older(held_s, CycleCap)
      BY <2>2 DEF Tick
    <3>2. QED BY <1>1, <1>5, <2>2, <3>1, LimitsAssumption DEF Older, CycleTimer
  <2>3. QED BY <1>3, <2>1, <2>2
<1>8. hottest' \in Peaks /\ last' \in Lasts /\ prm' = prm
  <2>1. s.tpo.c \in Peaks
    BY Zenon DEF Sense, Reading, Peaks
  <2>. QED BY <1>1, <2>1, RangeFacts DEF Tick, Ticks, Lasts, IInv, TypeOK
<1>11. PeakIsSeen'
  <2>1. PeakMoves(ctrl, s, prm, ctrl')
    BY <1>1, <1>2, TickPeak
  <2>2. /\ s.tpo.c \in Int /\ ctrl.peak_tpo_c \in Int /\ hottest \in Int
        /\ hottest' \in Int /\ hottest' >= NoPeak
    <3>1. s.tpo.c \in Temps
      BY Zenon DEF Sense, Reading
    <3>2. ctrl.peak_tpo_c \in Peaks
      BY <1>1, Zenon DEF Ctrl
    <3>3. hottest \in Peaks
      BY DEF IInv, TypeOK
    <3>. QED BY <1>8, <3>1, <3>2, <3>3, PeaksAre, TempsAssumption
  <2>3. /\ ctrl.relay_on => hottest' >= hottest
        /\ ctrl.relay_on /\ s.tpo.ok => hottest' >= s.tpo.c
    BY <2>2 DEF Tick
  <2>. QED BY <2>1, <2>2, <2>3 DEF PeakMoves, PeakIsSeen, IInv
<1>9. boot' \in Blobs
  BY <1>4 DEF Faithful
<1>10. QED BY <1>1, <1>3, <1>4, <1>6, <1>7, <1>8, <1>9, <1>11
       DEF IInv, TypeOK, Sound

\* What an order by a human must leave for the invariant to hold again.
LEMMA CommandInv ==
  ASSUME IInv, Commanded, prm' = prm,
         Sound(ctrl'), Faithful(ctrl', boot'),
         ctrl'.cycle_s = 0
           \/ (ctrl'.relay_on = ctrl.relay_on /\ ctrl'.cycle_s = ctrl.cycle_s),
         ctrl'.relay_on /\ ctrl'.mode \in LoopModes =>
           ctrl.relay_on /\ ctrl.mode \in LoopModes /\ ctrl'.peak_tpo_c = ctrl.peak_tpo_c
  PROVE  IInv'
<1>1. /\ prm \in ParamSets /\ ctrl.cycle_s <= held_s
      /\ held_s \in CycleTimer
  BY DEF IInv, TypeOK
<1>2. ctrl' \in Ctrl /\ boot' \in Blobs
  BY DEF Sound, Faithful
<1>3. held_s' \in CycleTimer /\ last' \in Lasts /\ hottest' \in Peaks
  BY <1>1, RangeFacts DEF Commanded, Lasts, IInv, TypeOK
<1>4. ctrl'.cycle_s \in CycleTimer
  BY <1>2, Zenon DEF Ctrl
<1>5. ctrl'.cycle_s <= held_s'
  <2>1. CASE ctrl'.cycle_s = 0
    BY <1>3, <2>1, LimitsAssumption DEF CycleTimer
  <2>2. CASE ctrl'.relay_on = ctrl.relay_on /\ ctrl'.cycle_s = ctrl.cycle_s
    BY <1>1, <2>2 DEF Commanded
  <2>3. QED BY <2>1, <2>2
<1>7. PeakIsSeen'
  BY DEF PeakIsSeen, IInv, Commanded
<1>6. QED BY <1>1, <1>2, <1>3, <1>5, <1>7 DEF IInv, TypeOK

\* Requesting a mode keeps it.
LEMMA RequestModeInv ==
  ASSUME IInv, NEW m \in UserModes, RequestMode(m)
  PROVE  IInv'
<1>1. Sound(ctrl) /\ Faithful(ctrl, boot)
  BY DEF IInv
<1>2. /\ ctrl' = bbu_ctrl_request_mode(ctrl, m)
      /\ boot' = BlobAfterMode(ctrl, m, boot)
      /\ Commanded /\ prm' = prm
  BY DEF RequestMode
<1>3. /\ Sound(ctrl')
      /\ \/ ctrl'.relay_on = FALSE /\ ctrl'.cycle_s = 0
         \/ ctrl'.relay_on = ctrl.relay_on /\ ctrl'.cycle_s = ctrl.cycle_s
  <2> DEFINE n == bbu_ctrl_request_mode(ctrl, m)
  <2>1. /\ Sound(n)
        /\ \/ n.relay_on = FALSE /\ n.cycle_s = 0
           \/ n.relay_on = ctrl.relay_on /\ n.cycle_s = ctrl.cycle_s
    BY <1>1, RequestModeFacts
  <2>2. QED BY <1>2, <2>1
<1>4. Faithful(ctrl', boot')
  BY <1>1, <1>2, RequestModeKeepsBlob
<1>6. ctrl'.relay_on /\ ctrl'.mode \in LoopModes =>
        ctrl.relay_on /\ ctrl.mode \in LoopModes /\ ctrl'.peak_tpo_c = ctrl.peak_tpo_c
  BY <1>1, <1>2, RequestModePeak
<1>5. QED BY <1>2, <1>3, <1>4, <1>6, CommandInv

\* Switching the coil by hand keeps it.
LEMMA ManualRelayInv ==
  ASSUME IInv, NEW on \in BOOLEAN, ManualRelay(on)
  PROVE  IInv'
<1>1. Sound(ctrl) /\ Faithful(ctrl, boot)
  BY DEF IInv
<1>2. /\ ctrl' = bbu_ctrl_manual_relay(ctrl, on)
      /\ boot' = BlobAfterRelay(ctrl, on, boot)
      /\ Commanded /\ prm' = prm
  BY DEF ManualRelay
<1>3. Sound(ctrl') /\ ctrl'.cycle_s = 0 /\ ctrl'.mode \notin LoopModes
  BY <1>1, <1>2, ManualRelayFacts DEF LoopModes
<1>4. Faithful(ctrl', boot')
  BY <1>1, <1>2, ManualRelayKeepsBlob
<1>5. QED BY <1>2, <1>3, <1>4, CommandInv

\* Switching the coil over the air keeps it.
LEMMA ParamSetRelayInv ==
  ASSUME IInv, NEW on \in BOOLEAN, ParamSetRelay(on)
  PROVE  IInv'
<1> DEFINE claimed == IF ctrl.mode # "MANUAL"
                      THEN bbu_ctrl_request_mode(ctrl, "MANUAL") ELSE ctrl
           blob    == IF ctrl.mode # "MANUAL"
                      THEN BlobAfterMode(ctrl, "MANUAL", boot) ELSE boot
<1>1. Sound(ctrl) /\ Faithful(ctrl, boot)
  BY DEF IInv
<1>2. Sound(claimed) /\ Faithful(claimed, blob)
  <2>1. "MANUAL" \in UserModes
    BY RangeFacts
  <2>2. CASE ctrl.mode # "MANUAL"
    <3>1. /\ claimed = bbu_ctrl_request_mode(ctrl, "MANUAL")
          /\ blob = BlobAfterMode(ctrl, "MANUAL", boot)
      BY <2>2
    <3> HIDE DEF claimed, blob
    <3>2. Sound(claimed)
      BY <1>1, <2>1, <3>1, RequestModeFacts
    <3>3. Faithful(claimed, blob)
      BY <1>1, <2>1, <3>1, RequestModeKeepsBlob
    <3>4. QED BY <3>2, <3>3
  <2>3. CASE ctrl.mode = "MANUAL"
    BY <1>1, <2>3
  <2>4. QED BY <2>2, <2>3
<1>3. /\ ctrl' = bbu_ctrl_manual_relay(claimed, on)
      /\ boot' = BlobAfterRelay(claimed, on, blob)
      /\ Commanded /\ prm' = prm
  BY DEF ParamSetRelay
<1> HIDE DEF claimed, blob
<1>4. Sound(ctrl') /\ ctrl'.cycle_s = 0 /\ ctrl'.mode \notin LoopModes
  BY <1>2, <1>3, ManualRelayFacts DEF LoopModes
<1>5. Faithful(ctrl', boot')
  BY <1>2, <1>3, ManualRelayKeepsBlob
<1>6. QED BY <1>3, <1>4, <1>5, CommandInv

\* Coming up on any blob an earlier step may have left keeps the invariant.
LEMMA BootFromInv ==
  ASSUME IInv, NEW c, NEW b, Faithful(c, b), BootFrom(b)
  PROVE  IInv'
<1>1. b \in Blobs /\ b.mode # "TESTING" /\ (b.relay => b.mode = "MANUAL")
  BY DEF Faithful
<1>2. /\ ctrl' = boot_state_restore(b) /\ boot' = BlobAfterRestore(b)
      /\ held_s' = 0 /\ hottest' = NoPeak /\ last' = "POWER"
      /\ prm' = prm
  BY DEF BootFrom
<1>3. Sound(ctrl') /\ Faithful(ctrl', boot') /\ ctrl'.cycle_s = 0
  BY <1>1, <1>2, RestoreFacts
<1>4. ctrl' \in Ctrl /\ boot' \in Blobs
  BY <1>3 DEF Sound, Faithful
<1>5. prm \in ParamSets
  BY DEF IInv, TypeOK
<1>6. held_s' \in CycleTimer
  BY <1>2, RangeFacts, LimitsAssumption
<1>7. TypeOK'
  BY <1>2, <1>4, <1>5, <1>6, RangeFacts DEF TypeOK, Lasts
<1>9. PeakIsSeen'
  BY <1>2, RestoredHasNoLoop DEF PeakIsSeen
<1>8. QED BY <1>2, <1>3, <1>7, <1>9 DEF IInv

\* The invariant is inductive.
LEMMA NextInv == IInv /\ [Next]_vars => IInv'
<1> SUFFICES ASSUME IInv, [Next]_vars PROVE IInv'
  OBVIOUS
<1>1. ASSUME NEW s \in Sense, Tick(s) PROVE IInv'
  BY <1>1, TickInv
<1>2. ASSUME NEW m \in UserModes, RequestMode(m) PROVE IInv'
  BY <1>2, RequestModeInv
<1>3. ASSUME NEW on \in BOOLEAN, ManualRelay(on) PROVE IInv'
  BY <1>3, ManualRelayInv
<1>4. ASSUME NEW on \in BOOLEAN, ParamSetRelay(on) PROVE IInv'
  BY <1>4, ParamSetRelayInv
<1>5. ASSUME NEW p \in ParamSets, SetParams(p) PROVE IInv'
  BY <1>5 DEF SetParams, IInv, TypeOK, Lasts, PeakIsSeen
<1>6. CASE PowerCycle
  <2>1. Faithful(ctrl, boot)
    BY DEF IInv
  <2>2. QED BY <1>6, <2>1, BootFromInv DEF PowerCycle
<1>7. CASE PowerCutMidParamSet
  <2>1. Sound(ctrl) /\ Faithful(ctrl, boot) /\ "MANUAL" \in UserModes
    BY RangeFacts DEF IInv
  <2>2. Faithful(bbu_ctrl_request_mode(ctrl, "MANUAL"),
                 BlobAfterMode(ctrl, "MANUAL", boot))
    BY <2>1, RequestModeKeepsBlob
  <2>3. QED BY <1>7, <2>2, BootFromInv DEF PowerCutMidParamSet
<1>8. CASE UNCHANGED vars
  BY <1>8 DEF vars, IInv, TypeOK, PeakIsSeen
<1>9. QED BY <1>1, <1>2, <1>3, <1>4, <1>5, <1>6, <1>7, <1>8 DEF Next, Command

\* The invariant holds of the program.
THEOREM Invariance == Spec => []IInv
<1>1. QED BY InitInv, NextInv, PTL DEF Spec

\* Every field keeps its range, whatever the orders, readings and power cuts.
THEOREM TypeCorrect == Spec => []TypeOK
<1>1. IInv => TypeOK
  BY DEF IInv
<1>2. QED BY <1>1, Invariance, PTL

\* The mode in force and the user's mode never disagree.
THEOREM ModesAgree == Spec => []ModeAgrees
<1>1. IInv => ModeAgrees
  BY DEF IInv, Sound, ModeAgrees
<1>2. QED BY <1>1, Invariance, PTL

\* A blind or halted controller has the pump off.
THEOREM CoilIsSafe == Spec => []BlindOrHaltedIsOff
<1>1. IInv => BlindOrHaltedIsOff
  BY DEF IInv, Sound, BlindOrHaltedIsOff
<1>2. QED BY <1>1, Invariance, PTL

\* After a deliberate halt, NVS holds Off: no power cut restarts the pump.
THEOREM HaltSurvives == Spec => []HaltSurvivesPowerLoss
<1>1. IInv => HaltSurvivesPowerLoss
  <2> SUFFICES ASSUME IInv, ctrl.user_mode = "OFF"
               PROVE  boot = [mode |-> "OFF", relay |-> FALSE]
    BY DEF HaltSurvivesPowerLoss
  <2>1. boot \in Blobs /\ boot.mode = "OFF" /\ boot.relay = FALSE
    BY DEF IInv, Faithful
  <2>2. QED BY <2>1 DEF Blobs
<1>2. QED BY <1>1, Invariance, PTL

\* Manual comes back as Manual, with the coil the operator holds on.
THEOREM ManualSurvives == Spec => []ManualSurvivesPowerLoss
<1>1. IInv => ManualSurvivesPowerLoss
  <2> SUFFICES ASSUME IInv PROVE ManualSurvivesPowerLoss
    OBVIOUS
  <2>1. /\ boot \in Blobs
        /\ ctrl.user_mode = "MANUAL" => boot.mode \in {"MANUAL", "NONE"}
        /\ ctrl.mode = "MANUAL" /\ ctrl.relay_on
             => boot.mode = "MANUAL" /\ boot.relay = TRUE
    BY DEF IInv, Faithful
  <2>2. QED BY <2>1 DEF Blobs, ManualSurvivesPowerLoss
<1>2. QED BY <1>1, Invariance, PTL

\* No crash leaves a blob that boot_state_restore would mistake.
THEOREM BlobRestores == Spec => []BlobIsRestorable
<1>1. IInv => BlobIsRestorable
  BY DEF IInv, Faithful, BlobIsRestorable
<1>2. QED BY <1>1, Invariance, PTL

\* The loop ends a run only if this run read TPO above the restart level in
\* force, however the parameters were changed under way (bbu_ctrl_tick).
THEOREM ColdRunsGoOn == Spec => NoColdSelfStop
<1>1. IInv /\ [Next]_vars => [LoopStops => hottest' > on_c(prm)]_vars
  <2> SUFFICES ASSUME IInv, [Next]_vars, LoopStops PROVE hottest' > on_c(prm)
    OBVIOUS
  <2>1. PICK s \in Sense : Tick(s)
    <3>1. last' \in Ticks
      BY DEF LoopStops
    <3>2. ~Command /\ ~PowerCycle /\ ~PowerCutMidParamSet
          /\ \A p \in ParamSets : ~SetParams(p)
      BY <3>1 DEF Command, RequestMode, ManualRelay, ParamSetRelay, Commanded, PowerCycle,
                  PowerCutMidParamSet, BootFrom, SetParams, Ticks
    <3>3. ~UNCHANGED vars
      BY DEF LoopStops, vars
    <3>. QED BY <3>2, <3>3 DEF Next
  <2>2. /\ Sound(ctrl) /\ prm \in ParamSets /\ PeakIsSeen /\ hottest \in Peaks
        /\ ctrl' = bbu_ctrl_tick(ctrl, s, prm)
    BY <2>1 DEF IInv, TypeOK, Tick
  <2>3. PeakMoves(ctrl, s, prm, ctrl')
    BY <2>2, TickPeak
  <2>4. /\ ctrl.relay_on /\ s.tpo.ok /\ ctrl.peak_tpo_c <= hottest
        /\ s.tpo.c > on_c(prm) \/ ctrl.peak_tpo_c > on_c(prm)
    BY <2>2, <2>3 DEF LoopStops, PeakMoves, PeakIsSeen
  <2>5. /\ s.tpo.c \in Int /\ ctrl.peak_tpo_c \in Int /\ hottest \in Int
        /\ on_c(prm) \in Int
    <3>1. s.tpo.c \in Temps
      BY Zenon DEF Sense, Reading
    <3>2. ctrl.peak_tpo_c \in Peaks
      BY <2>2, Zenon DEF Sound, Ctrl
    <3>3. prm.setpoint \in Int /\ prm.hysteresis \in Nat
      BY <2>2, ParamsAssumption DEF Params
    <3>4. on_c(prm) \in Int
      BY <3>3 DEF on_c
    <3>. QED BY <2>2, <3>1, <3>2, <3>4, PeaksAre, TempsAssumption
  <2>6. hottest' = IF s.tpo.c > hottest THEN s.tpo.c ELSE hottest
    BY <2>1, <2>4 DEF Tick
  <2>. QED BY <2>4, <2>5, <2>6
<1>. QED BY <1>1, Invariance, PTL DEF Spec, NoColdSelfStop

-----------------------------------------------------------------------------
(* The refinement of CoilContract.                                         *)

\* Who owns the coil, read off the mode, before and after a step.
LEMMA OwnerFacts ==
  ASSUME IInv
  PROVE  /\ CoilOwner \in Contract!Owners
         /\ ctrl.mode \in LoopModes <=> CoilOwner = "LOOP"
         /\ ctrl.mode \in {"MANUAL", "TESTING"} <=> CoilOwner = "HUMAN"
         /\ ctrl.mode \in {"FAULT", "OFF"} <=> CoilOwner = "NOBODY"
<1>1. ctrl.mode \in Modes
  BY Zenon DEF IInv, Sound, Ctrl
<1>2. QED BY <1>1 DEF CoilOwner, Contract!Owners, Modes, UserModes, LoopModes

\* Who owns the coil after each kind of change to the controller.
LEMMA OwnerAfterFacts ==
  ASSUME Sound(ctrl')
  PROVE  /\ CoilOwner' \in Contract!Owners
         /\ ctrl'.mode \in LoopModes <=> CoilOwner' = "LOOP"
         /\ ctrl'.mode \in {"MANUAL", "TESTING"} <=> CoilOwner' = "HUMAN"
         /\ ctrl'.mode \in {"FAULT", "OFF"} <=> CoilOwner' = "NOBODY"
<1>1. ctrl'.mode \in Modes
  BY Zenon DEF Sound, Ctrl
<1>2. QED BY <1>1 DEF CoilOwner, Contract!Owners, Modes, UserModes, LoopModes

\* A second of the controller is a second of the contract.
LEMMA TickRefines ==
  ASSUME IInv, NEW s \in Sense, Tick(s)
  PROVE  Contract!Next
<1>1. /\ Sound(ctrl) /\ prm \in ParamSets
      /\ ctrl.cycle_s <= held_s /\ ctrl \in Ctrl /\ held_s \in CycleTimer
  BY DEF IInv, TypeOK
<1>2. ctrl' = bbu_ctrl_tick(ctrl, s, prm)
  BY DEF Tick
<1> DEFINE c == ctrl
           n == ctrl'
<1>3. /\ Sound(n)
      /\ \/ n.mode = "FAULT" /\ ~n.relay_on
         \/ /\ n.mode = c.mode \/ (n.mode \in LoopModes /\ c.mode \in LoopModes)
            /\ n.relay_on = c.relay_on
         \/ /\ n.mode \in LoopModes /\ c.mode \in LoopModes
            /\ ~c.relay_on /\ n.relay_on
            /\ Older(c.cycle_s, CycleCap) >= prm.min_off
         \/ /\ n.mode \in LoopModes /\ c.mode \in LoopModes
            /\ c.relay_on /\ ~n.relay_on
            /\ Older(c.cycle_s, CycleCap) >= prm.min_on
         \/ /\ c.mode = "FAULT"
            /\ n.relay_on => n.mode \in LoopModes /\ prm.min_off <= 0
         \/ /\ c.mode = "TESTING" /\ n.mode \in LoopModes
            /\ n.relay_on => prm.min_off <= 0
  BY <1>1, <1>2, TickFacts
<1>4. prm.min_off \in Nat /\ prm.min_on \in Nat /\ prm.min_off <= CycleCap
      /\ prm.min_on <= CycleCap
  BY <1>1, ParamsAssumption, CapAssumption DEF Params
<1>5. /\ held_s' = IF n.relay_on = c.relay_on
                   THEN Contract!Older(held_s) ELSE 0
      /\ prm' = prm
      /\ last' \in {"TICK", "TOCK"}
  BY DEF Tick, Older, Contract!Older
<1>6. Contract!Second
  BY <1>5 DEF Contract!Second
<1>7. /\ Older(c.cycle_s, CycleCap) >= prm.min_off
           => Contract!Older(held_s) >= prm.min_off
      /\ Older(c.cycle_s, CycleCap) >= prm.min_on
           => Contract!Older(held_s) >= prm.min_on
  <2>1. c.cycle_s \in CycleTimer
    BY <1>1, Zenon DEF Ctrl
  <2>2. QED BY <1>1, <1>4, <2>1, LimitsAssumption
            DEF Older, Contract!Older, CycleTimer
<1>8. /\ ctrl.mode \in LoopModes <=> CoilOwner = "LOOP"
      /\ ctrl.mode \in {"MANUAL", "TESTING"} <=> CoilOwner = "HUMAN"
      /\ ctrl.mode \in {"FAULT", "OFF"} <=> CoilOwner = "NOBODY"
  BY OwnerFacts
<1>9. /\ CoilOwner' \in Contract!Owners
      /\ ctrl'.mode \in LoopModes <=> CoilOwner' = "LOOP"
      /\ ctrl'.mode \in {"MANUAL", "TESTING"} <=> CoilOwner' = "HUMAN"
      /\ ctrl'.mode \in {"FAULT", "OFF"} <=> CoilOwner' = "NOBODY"
  BY <1>3, OwnerAfterFacts
<1>10. CASE n.mode = "FAULT" /\ ~n.relay_on
  BY <1>6, <1>9, <1>10 DEF Contract!Trip, Contract!Next
<1>11. CASE /\ n.mode = c.mode \/ (n.mode \in LoopModes /\ c.mode \in LoopModes)
            /\ n.relay_on = c.relay_on
  <2>1. CoilOwner' = CoilOwner
    BY <1>11, <1>8, <1>9 DEF CoilOwner
  <2>2. QED BY <1>6, <1>11, <2>1 DEF Contract!Hold, Contract!Next
<1>12. CASE /\ n.mode \in LoopModes /\ c.mode \in LoopModes
            /\ ~c.relay_on /\ n.relay_on
            /\ Older(c.cycle_s, CycleCap) >= prm.min_off
  BY <1>6, <1>7, <1>8, <1>9, <1>12
     DEF Contract!LoopStart, Contract!Rested, Contract!Next
<1>13. CASE /\ n.mode \in LoopModes /\ c.mode \in LoopModes
            /\ c.relay_on /\ ~n.relay_on
            /\ Older(c.cycle_s, CycleCap) >= prm.min_on
  BY <1>6, <1>7, <1>8, <1>9, <1>13
     DEF Contract!LoopStop, Contract!HasRun, Contract!Next
<1>14. CASE /\ c.mode = "FAULT"
            /\ n.relay_on => n.mode \in LoopModes /\ prm.min_off <= 0
  <2>1. n.relay_on => CoilOwner' = "LOOP" /\ prm.min_off = 0
    BY <1>4, <1>9, <1>14
  <2>2. QED BY <1>6, <1>8, <1>9, <1>14, <2>1 DEF Contract!Resume, Contract!Next
<1>15. CASE /\ c.mode = "TESTING" /\ n.mode \in LoopModes
            /\ n.relay_on => prm.min_off <= 0
  <2>1. n.relay_on => prm.min_off = 0
    BY <1>4, <1>15
  <2>2. QED BY <1>6, <1>8, <1>9, <1>15, <2>1 DEF Contract!TestOver, Contract!Next
<1>16. QED BY <1>3, <1>10, <1>11, <1>12, <1>13, <1>14, <1>15

\* An order reaches the coil only through a human, or leaves the loop's run.
LEMMA OrderRefines ==
  ASSUME IInv, Commanded, prm' = prm, Sound(ctrl'),
         ctrl'.relay_on => \/ ctrl'.mode \in {"MANUAL", "TESTING"}
                           \/ /\ ctrl.mode \in LoopModes /\ ctrl'.mode \in LoopModes
                              /\ ctrl.relay_on,
         ctrl.mode \in LoopModes /\ ctrl'.mode \in LoopModes
           => ctrl'.relay_on = ctrl.relay_on
  PROVE  Contract!Next
<1>1. /\ CoilOwner' \in Contract!Owners
      /\ ctrl'.mode \in LoopModes <=> CoilOwner' = "LOOP"
      /\ ctrl'.mode \in {"MANUAL", "TESTING"} <=> CoilOwner' = "HUMAN"
  BY OwnerAfterFacts
<1>2. ctrl.mode \in LoopModes <=> CoilOwner = "LOOP"
  BY OwnerFacts
<1>3. ctrl'.relay_on \in BOOLEAN
  BY Zenon DEF Sound, Ctrl
<1>4. /\ held_s' = IF ctrl'.relay_on = ctrl.relay_on THEN held_s ELSE 0
      /\ last' = "ORDER"
  BY DEF Commanded
<1>5. QED BY <1>1, <1>2, <1>3, <1>4 DEF Contract!Order, Contract!Next

\* A mode request leaves a running coil to a human or to the loop that ran it.
LEMMA RequestModeCoil ==
  ASSUME NEW c, Sound(c), NEW m \in UserModes,
         NEW n, n = bbu_ctrl_request_mode(c, m)
  PROVE  /\ Sound(n)
         /\ n.relay_on => \/ n.mode \in {"MANUAL", "TESTING"}
                          \/ /\ c.mode \in LoopModes /\ n.mode \in LoopModes
                             /\ c.relay_on
         /\ c.mode \in LoopModes /\ n.mode \in LoopModes
              => n.relay_on = c.relay_on
<1> DEFINE r == bbu_ctrl_request_mode(c, m)
<1>0. /\ Sound(r) /\ r.user_mode = m
      /\ r.mode = IF c.mode = "FAULT" THEN "FAULT"
                  ELSE IF AlreadyIn(c, m) THEN c.mode ELSE m
      /\ \/ r.relay_on = FALSE /\ r.cycle_s = 0
         \/ r.relay_on = c.relay_on /\ r.cycle_s = c.cycle_s
      /\ r.relay_on => c.relay_on /\ c.mode # "FAULT"
      /\ ~AlreadyIn(c, m) /\ m \in {"AUTO", "OFF"} => r.relay_on = FALSE
  BY RequestModeFacts
<1>1. /\ Sound(n) /\ n.user_mode = m
      /\ n.mode = IF c.mode = "FAULT" THEN "FAULT"
                  ELSE IF AlreadyIn(c, m) THEN c.mode ELSE m
      /\ n.relay_on => c.relay_on /\ c.mode # "FAULT"
      /\ ~AlreadyIn(c, m) /\ m \in {"AUTO", "OFF"} => n.relay_on = FALSE
  BY <1>0
<1>2. n.mode \in Modes
  BY <1>1, Zenon DEF Sound, Ctrl
<1>a. n.relay_on => n.mode \notin {"FAULT", "OFF"}
  BY <1>1 DEF Sound
<1>3. n.relay_on /\ n.mode \in LoopModes => c.mode \in LoopModes
  BY <1>1 DEF AlreadyIn, LoopModes, UserModes
<1>4. ASSUME c.mode \in LoopModes, n.mode \in LoopModes
      PROVE  n.relay_on = c.relay_on
  <2>1. c.mode # "FAULT" /\ AlreadyIn(c, m)
    BY <1>1, <1>4 DEF AlreadyIn, LoopModes, UserModes
  <2>2. n = [c EXCEPT !.user_mode = m, !.mode_s = 0, !.tpo_only_src = FALSE]
    BY <2>1 DEF bbu_ctrl_request_mode
  <2>3. c \in Ctrl
    BY DEF Sound
  <2>4. QED BY <2>2, <2>3 DEF Ctrl
<1>5. QED BY <1>1, <1>2, <1>a, <1>3, <1>4 DEF Modes, UserModes, LoopModes

\* Coming up on a faithful blob runs the pump only for a human.
LEMMA BootFromRefines ==
  ASSUME IInv, NEW c, NEW b, Faithful(c, b), BootFrom(b)
  PROVE  Contract!Next
<1>1. b \in Blobs /\ b.mode # "TESTING" /\ (b.relay => b.mode = "MANUAL")
  BY DEF Faithful
<1>2. /\ ctrl' = boot_state_restore(b) /\ held_s' = 0 /\ prm' = prm
      /\ last' = "POWER"
  BY DEF BootFrom
<1>3. Sound(ctrl') /\ (ctrl'.relay_on => ctrl'.mode = "MANUAL")
  BY <1>1, <1>2, RestoreFacts
<1>4. ctrl'.relay_on \in BOOLEAN
  BY <1>3, Zenon DEF Sound, Ctrl
<1>5. /\ CoilOwner' \in Contract!Owners
      /\ ctrl'.mode \in {"MANUAL", "TESTING"} <=> CoilOwner' = "HUMAN"
  BY <1>3, OwnerAfterFacts
<1>6. QED BY <1>2, <1>3, <1>4, <1>5 DEF Contract!PowerUp, Contract!Next

\* Every step of the controller is a step of the contract or a stutter.
LEMMA StepRefines == IInv /\ [Next]_vars => [Contract!Next]_(Contract!vars)
<1> SUFFICES ASSUME IInv, [Next]_vars PROVE [Contract!Next]_(Contract!vars)
  OBVIOUS
<1>0. Sound(ctrl) /\ Faithful(ctrl, boot) /\ "MANUAL" \in UserModes
  BY RangeFacts DEF IInv
<1>1. ASSUME NEW s \in Sense, Tick(s) PROVE Contract!Next
  BY <1>1, TickRefines
<1>2. ASSUME NEW m \in UserModes, RequestMode(m) PROVE Contract!Next
  <2>1. ctrl' = bbu_ctrl_request_mode(ctrl, m) /\ Commanded /\ prm' = prm
    BY <1>2 DEF RequestMode
  <2>2. QED BY <1>0, <2>1, RequestModeCoil, OrderRefines
<1>3. ASSUME NEW on \in BOOLEAN, ManualRelay(on) PROVE Contract!Next
  <2> DEFINE n == bbu_ctrl_manual_relay(ctrl, on)
  <2>1. /\ Sound(n)
        /\ n.mode = IF ctrl.mode = "TESTING" THEN "TESTING" ELSE "MANUAL"
    BY <1>0, ManualRelayFacts
  <2>2. ctrl' = n /\ Commanded /\ prm' = prm
    BY <1>3 DEF ManualRelay
  <2> HIDE DEF n
  <2>3. QED BY <2>1, <2>2, OrderRefines DEF LoopModes
<1>4. ASSUME NEW on \in BOOLEAN, ParamSetRelay(on) PROVE Contract!Next
  <2> DEFINE claimed == IF ctrl.mode # "MANUAL"
                        THEN bbu_ctrl_request_mode(ctrl, "MANUAL") ELSE ctrl
             n == bbu_ctrl_manual_relay(claimed, on)
  <2>1. Sound(claimed)
    <3>1. CASE ctrl.mode # "MANUAL"
      <4>1. Sound(bbu_ctrl_request_mode(ctrl, "MANUAL"))
        BY <1>0, RequestModeFacts
      <4>2. QED BY <3>1, <4>1
    <3>2. QED BY <1>0, <3>1
  <2> HIDE DEF claimed
  <2>2. /\ Sound(n)
        /\ n.mode = IF claimed.mode = "TESTING" THEN "TESTING" ELSE "MANUAL"
    BY <2>1, ManualRelayFacts
  <2>3. ctrl' = n /\ Commanded /\ prm' = prm
    BY <1>4 DEF ParamSetRelay, claimed
  <2> HIDE DEF n
  <2>4. QED BY <2>2, <2>3, OrderRefines DEF LoopModes
<1>5. ASSUME NEW p \in ParamSets, SetParams(p) PROVE Contract!Next
  <2>1. p.min_on \in Nat /\ p.min_off \in Nat
    BY ParamsAssumption DEF Params
  <2>2. UNCHANGED <<CoilOwner, ctrl.relay_on, held_s>> /\ prm' = p
        /\ last' = "ORDER"
    BY <1>5 DEF SetParams, CoilOwner
  <2>3. QED BY <2>1, <2>2 DEF Contract!NewLimits, Contract!Next
<1>6. CASE PowerCycle
  BY <1>0, <1>6, BootFromRefines DEF PowerCycle
<1>7. CASE PowerCutMidParamSet
  <2>1. Faithful(bbu_ctrl_request_mode(ctrl, "MANUAL"),
                 BlobAfterMode(ctrl, "MANUAL", boot))
    BY <1>0, RequestModeKeepsBlob
  <2>2. QED BY <1>7, <2>1, BootFromRefines DEF PowerCutMidParamSet
<1>8. CASE UNCHANGED vars
  BY <1>8 DEF vars, Contract!vars, CoilOwner
<1>9. QED BY <1>1, <1>2, <1>3, <1>4, <1>5, <1>6, <1>7, <1>8 DEF Next, Command

\* The controller implements the coil contract: for every tank, every choice
\* of parameters and every sequence of orders, probe losses and power cuts
\* the coil moves only as CoilContract allows.
THEOREM ContractKept == Spec => CoilContractHolds
<1>1. Init => Contract!Init
  BY InitFacts DEF Init, Contract!Init, CoilOwner, LoopModes
<1>2. QED BY <1>1, InitInv, NextInv, StepRefines, PTL
          DEF Spec, CoilContractHolds, Contract!Spec

=============================================================================
