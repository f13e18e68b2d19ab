----------------------------- MODULE NodeTasks ------------------------------
(***************************************************************************)
(* The tasks of the boiler-room node around s_mu, the mutex that guards    *)
(* the controller and the ADC (node-bbu/main/main.c and ui.c): the monitor *)
(* loop, the menu on the TFT, the comms task carrying out PARAM_SET, and   *)
(* the serial console.                                                     *)
(*                                                                         *)
(* s_mu is a plain FreeRTOS mutex: a task that takes it twice waits for    *)
(* itself.  One core runs all tasks and the monitor has the highest        *)
(* priority, so a released mutex goes to a waiting monitor first.  The     *)
(* task watchdog only logs (CONFIG_ESP_TASK_WDT_PANIC is not set): it has  *)
(* no state here.                                                          *)
(*                                                                         *)
(* What a task has left to do is a sequence of steps: "take" and "give"    *)
(* of s_mu, and the steps between them that change a state modelled here.  *)
(* The menu is modelled by what its lines mean, not by their position.     *)
(***************************************************************************)
EXTENDS Integers, Sequences, FiniteSets, SequencesExt

CONSTANTS
  Rows,    \* rows of the parameter table
  Hooked   \* those whose getter and setter take s_mu: user_mode, manual_relay

VARIABLES
  mu,    \* holder of s_mu
  plan,  \* what each task has left to do
  scr,   \* s_scr
  cur,   \* the line at s_cur
  edit,  \* s_edit: the row being edited
  arm,   \* the line armed by a first click: s_clr_arm, s_rbt_arm
  clicked, \* history: the line clicked last on the screen shown
  done     \* history: what the last click destroyed

menu == <<scr, cur, edit, arm, clicked, done>>
vars == <<mu, plan, scr, cur, edit, arm, clicked, done>>

Tasks == {"mon", "ui", "comms", "serial"}
Steps == {"take", "give", "tick", "click", "turn", "begin", "commit", "draw",
          "restart"}
Quick == "quick"  \* the rows above the table (mode and pump)
Back  == "back"
Info  == "info"   \* a line that a click does nothing on
NoRow == "none"

Leaves  == {"temp", "cnt", "sys", "prog", "diag"}
Screens == Leaves \cup {"home", "sel"}

\* A row of the table is no other line.
ASSUME RowsAssumption ==
  /\ Hooked \subseteq Rows /\ IsFiniteSet(Rows)
  /\ Rows \cap (Leaves \cup {Quick, Back, Info, NoRow, "enter", "clear", "reboot"}) = {}

\* The lines that take a first click to arm and a second to act.
Confirmed == {"clear", "reboot"}

\* What there is to click on a screen.
Lines(s) ==
  CASE s = "home" -> {"enter"}
    [] s = "sel"  -> Leaves \cup {Back}
    [] s = "cnt"  -> {Info, "clear", Back}
    [] s = "diag" -> {Info, "reboot", Back}
    [] s = "prog" -> Rows \cup {Quick, Back}
    [] OTHER      -> {Info, Back}

First(s) == CASE s = "home" -> "enter" [] s = "sel" -> "temp"
              [] s = "prog" -> Quick [] OTHER -> Info

Init ==
  /\ mu = "nobody"
  /\ plan = [t \in Tasks |-> <<>>]
  /\ scr = "home" /\ cur = First("home") /\ edit = NoRow
  /\ arm = NoRow /\ clicked = NoRow /\ done = NoRow

\* Holders and steps are what they are meant to be, and the cursor is on a
\* line of the screen shown.
TypeOK ==
  /\ mu \in Tasks \cup {"nobody"}
  /\ \A t \in Tasks : Range(plan[t]) \subseteq Steps
  /\ scr \in Screens /\ cur \in Lines(scr)
  /\ edit \in Rows \cup {NoRow} /\ arm \in Confirmed \cup {NoRow}
  /\ clicked \in (UNION {Lines(s) : s \in Screens}) \cup {NoRow}
  /\ done \in Confirmed \cup {NoRow}

-----------------------------------------------------------------------------
Idle(t)     == plan[t] = <<>>
At(t, s)    == plan[t] # <<>> /\ Head(plan[t]) = s
Start(t, p) == Idle(t) /\ plan' = [plan EXCEPT ![t] = p]
Go(t, p)    == plan' = [plan EXCEPT ![t] = p \o Tail(plan[t])]

Section == <<"take", "give">>

\* One after the other.
Sections(n) == [i \in 1 .. 2 * n |-> IF i % 2 = 1 THEN "take" ELSE "give"]

\* Mutant: the accessor of every row takes s_mu.
LocksAlways(row) == Section

\* hook_param_get, hook_param_set: what one access to a row does to s_mu.
Locks(row) == IF row \in Hooked THEN Section ELSE <<>>

\* Mutant: no task goes before another.
FirstCome(t) == TRUE

\* The monitor goes first.
Preferred(t) == t = "mon" \/ ~At("mon", "take")

Take(t) ==
  /\ At(t, "take") /\ mu = "nobody" /\ Preferred(t)
  /\ mu' = t /\ Go(t, <<>>)
  /\ UNCHANGED menu

Give(t) ==
  /\ At(t, "give")
  /\ mu' = "nobody" /\ Go(t, <<>>)
  /\ UNCHANGED menu

-----------------------------------------------------------------------------
(* The monitor: three channels of the ADC, then the tick.                  *)

MonWake ==
  /\ Start("mon", Section \o Section \o Section \o <<"take", "tick", "give">>)
  /\ UNCHANGED <<mu, menu>>

MonTick ==
  /\ At("mon", "tick") /\ Go("mon", <<>>)
  /\ UNCHANGED <<mu, menu>>

-----------------------------------------------------------------------------
(* The menu.                                                               *)

\* Steps of the knob, or its button, are handled with s_mu held; what is
\* drawn afterwards is a snapshot taken with s_mu held.
Input(s) == <<"take", s, "give", "take", "give", "draw">>

UiTurn  == Start("ui", Input("turn"))  /\ UNCHANGED <<mu, menu>>
UiClick == Start("ui", Input("click")) /\ UNCHANGED <<mu, menu>>

\* The redraw of once per second.
UiLive == Start("ui", Section \o <<"draw">>) /\ UNCHANGED <<mu, menu>>

Show(s, c) == scr' = s /\ cur' = c

\* Mutant: going home forgets to end the edit.
UiHoldKeepsEdit ==
  /\ Start("ui", Section \o <<"draw">>)
  /\ Show("home", First("home"))
  /\ arm' = NoRow /\ clicked' = NoRow /\ done' = NoRow
  /\ UNCHANGED <<mu, edit>>

\* Button held: go_home, without s_mu.
UiHold ==
  /\ Start("ui", Section \o <<"draw">>)
  /\ Show("home", First("home"))
  /\ edit' = NoRow /\ arm' = NoRow
  /\ clicked' = NoRow /\ done' = NoRow
  /\ UNCHANGED mu

\* on_steps: the value while a row is edited, the cursor otherwise.  What is
\* armed stays armed.
Turn ==
  /\ At("ui", "turn") /\ Go("ui", <<>>)
  /\ IF edit # NoRow THEN UNCHANGED cur
     ELSE cur' \in Lines(scr)
  /\ UNCHANGED <<mu, scr, edit, arm, clicked, done>>

\* The rows of Diagnostics come and go with comms_enable (nitems), and the
\* cursor keeps its number: the last two lines are somewhere else then.
DiagShifts ==
  /\ scr = "diag"
  /\ cur' \in IF cur = Info THEN Lines("diag") ELSE {Info}
  /\ UNCHANGED <<mu, plan, scr, edit, arm, clicked, done>>

\* A click on a line of the screen shown, of which on_click makes "next".
Clicked(s, next) ==
  /\ At("ui", "click") /\ scr = s
  /\ next
  /\ clicked' = IF scr' = s THEN cur ELSE NoRow
  /\ Go("ui", IF done' = "reboot" THEN <<"restart">> ELSE <<>>)
  /\ UNCHANGED <<mu, edit>>

Disarm == arm' = NoRow /\ done' = NoRow

ClickHome == Clicked("home", Show("sel", First("sel")) /\ Disarm)

ClickSel ==
  Clicked("sel", /\ IF cur = Back THEN Show("home", First("home"))
                    ELSE Show(cur, First(cur))
                 /\ Disarm)

\* Temperatures and System Data; Back leads to the line one came from.
ClickLeaf ==
  \E s \in {"temp", "sys"} :
    Clicked(s, /\ IF cur = Back THEN Show("sel", s) ELSE UNCHANGED <<scr, cur>>
               /\ Disarm)

\* Mutant: a click elsewhere leaves the line armed.
ClickConfirmKeepsArm ==
  \E s \in {"cnt", "diag"} :
    Clicked(s, /\ IF cur = Back THEN Show("sel", s) ELSE UNCHANGED <<scr, cur>>
               /\ arm' = IF cur \in Confirmed /\ arm # cur THEN cur
                         ELSE IF cur \in Confirmed THEN NoRow ELSE arm
               /\ done' = IF cur \in Confirmed /\ arm = cur THEN cur ELSE NoRow)

\* Counters and Diagnostics: the first click arms, the second one clears the
\* counters or restarts the node; any other click disarms.
ClickConfirm ==
  \E s \in {"cnt", "diag"} :
    Clicked(s, /\ IF cur = Back THEN Show("sel", s) ELSE UNCHANGED <<scr, cur>>
               /\ arm' = IF cur \in Confirmed /\ arm # cur THEN cur ELSE NoRow
               /\ done' = IF cur \in Confirmed /\ arm = cur THEN cur ELSE NoRow)

\* esp_restart: every task starts anew.
Restart ==
  /\ At("ui", "restart")
  /\ mu' = "nobody" /\ plan' = [t \in Tasks |-> <<>>]
  /\ Show("home", First("home")) /\ edit' = NoRow
  /\ arm' = NoRow /\ clicked' = NoRow /\ done' = NoRow

\* Mutant: any line under the cursor can be edited.
ClickRowAny ==
  /\ At("ui", "click") /\ scr = "prog" /\ edit = NoRow
  /\ Go("ui", Locks(cur) \o <<"begin">>)
  /\ Disarm /\ clicked' = NoRow
  /\ UNCHANGED <<mu, scr, cur, edit>>

\* on_click_prog with no edit open.  The quick rows call the controller
\* directly; a row of the table is opened with its value of now.
ClickRow ==
  /\ At("ui", "click") /\ scr = "prog" /\ edit = NoRow
  /\ Go("ui", IF cur \in Rows THEN Locks(cur) \o <<"begin">> ELSE <<>>)
  /\ IF cur = Back THEN Show("sel", "prog") ELSE UNCHANGED <<scr, cur>>
  /\ Disarm /\ clicked' = NoRow
  /\ UNCHANGED <<mu, edit>>

\* on_click_prog during an edit: commit, and open the row under the cursor
\* if it is another one.
ClickEdit ==
  /\ At("ui", "click") /\ scr = "prog" /\ edit # NoRow
  /\ Go("ui", Locks(edit) \o <<"commit">>
                \o (IF cur = edit THEN <<>> ELSE Locks(cur) \o <<"begin">>))
  /\ Disarm /\ clicked' = NoRow
  /\ UNCHANGED <<mu, scr, cur, edit>>

\* prog_edit_begin and prog_edit_commit, once the row has been accessed.
EditBegin ==
  /\ At("ui", "begin") /\ Go("ui", <<>>)
  /\ edit' = cur
  /\ UNCHANGED <<mu, scr, cur, arm, clicked, done>>

EditCommit ==
  /\ At("ui", "commit") /\ Go("ui", <<>>)
  /\ edit' = NoRow
  /\ UNCHANGED <<mu, scr, cur, arm, clicked, done>>

\* draw_prog reads every row but the edited one; the lock is not held.
Draw ==
  /\ At("ui", "draw")
  /\ Go("ui", IF scr = "prog" THEN Sections(Cardinality(Hooked \ {edit})) ELSE <<>>)
  /\ UNCHANGED <<mu, menu>>

-----------------------------------------------------------------------------
(* The other tasks.                                                        *)

\* handle_param_set reads the row, sets it and reads it again.
CommsParamSet(row) ==
  /\ Start("comms", Locks(row) \o Locks(row) \o Locks(row))
  /\ UNCHANGED <<mu, menu>>

\* A console command on the controller or the ADC.
SerialCommand ==
  Start("serial", Section) /\ UNCHANGED <<mu, menu>>

UiStep == Turn \/ ClickHome \/ ClickSel \/ ClickLeaf \/ ClickConfirm
          \/ ClickRow \/ ClickEdit \/ EditBegin \/ EditCommit \/ Draw
          \/ Restart

Next ==
  \/ \E t \in Tasks : Take(t) \/ Give(t)
  \/ MonWake \/ MonTick
  \/ UiTurn \/ UiClick \/ UiLive \/ UiHold \/ UiStep \/ DiagShifts
  \/ \E row \in Rows : CommsParamSet(row)
  \/ SerialCommand

Spec == Init /\ [][Next]_vars

\* A task that can go on goes on; the monitor wakes every second.  Nobody
\* has to touch the knob, the console or the radio.
FairSpec ==
  /\ Spec
  /\ \A t \in Tasks : WF_vars(Take(t)) /\ WF_vars(Give(t))
  /\ WF_vars(MonWake) /\ WF_vars(MonTick) /\ WF_vars(UiStep)

-----------------------------------------------------------------------------
(* Properties.                                                             *)

\* The UI task waits for the mutex it holds.
Wedged == mu = "ui" /\ At("ui", "take")

\* A task waits for a mutex it holds in one place only: in the menu, on the
\* parameter screen, by a click on a row whose accessor takes s_mu (on_click,
\* hook_param_get).  No other row, screen, command or snapshot does it.
SelfWaitOnlyAtHook ==
  \A t \in Tasks : mu = t /\ At(t, "take") =>
    t = "ui" /\ scr = "prog" /\ cur \in Hooked

\* An edit is always of the row under the cursor of the screen shown, so the
\* click that ends it never commits one row and opens another.
EditIsAtCursor == edit # NoRow => scr = "prog" /\ cur = edit

\* Counters are cleared, and the node restarted, only by two clicks in a row
\* on the line that says so: no other click, no change of screen between
\* them, however the knob is turned and the list shifts (on_click, go_home).
ConfirmedTwice == [][done' \in Confirmed /\ done' # done => clicked = done']_vars

\* The control loop keeps ticking whatever menu, radio and console do, unless
\* the operator restarts the node for ever, or the menu waits for itself for
\* good.
OnlyWedgeStops ==
  <>[](done # "reboot") => []<>At("mon", "tick") \/ <>[]Wedged

\* What the comment in app_main says of the watchdog ("a truly wedged system
\* still trips this reset path"): no wedge lasts.  Then the control loop keeps
\* ticking unless the operator restarts the node for ever.
MonitorTicks == <>[](done # "reboot") => []<>At("mon", "tick")

=============================================================================
