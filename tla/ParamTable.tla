----------------------------- MODULE ParamTable -----------------------------
(***************************************************************************)
(* The tunables of the node (node-bbu/main/params.c): one struct in RAM,   *)
(* one blob in NVS, and three tasks that store rows and save the struct:   *)
(* PARAM_SET over the radio (comms.c handle_param_set), the edit of a row  *)
(* in the menu (ui.c prog_edit), "prog NAME VALUE" on the console          *)
(* (params_set).  No lock is held: the tasks have one priority and share   *)
(* the core in time slices, so a save may be suspended between the copy of *)
(* the struct (params_save builds the blob) and the write to flash.        *)
(*                                                                         *)
(* The rows are those params.c itself serves; the hooked ones are in       *)
(* Control and NodeTasks.  A PARAM_SET may arrive at any time, again, or   *)
(* after a later one: the sender is not part of this repository's plant.   *)
(***************************************************************************)
EXTENDS Integers

CONSTANTS
  PRows,     \* rows of the table
  Values,    \* values a message or a command may carry
  Valid,     \* for each row, those between its min and max
  Counts,    \* rows the console checks by comparing: the times, not the floats
  Default,   \* the default of every row
  MaxSeq     \* bound: admin_seq in the messages

ASSUME ParamAssumption ==
  /\ PRows # {} /\ Valid \in [PRows -> SUBSET Values]
  /\ \A r \in PRows : Default \in Valid[r]
  /\ Counts \subseteq PRows /\ MaxSeq \in Nat

VARIABLES
  ram,      \* s_p
  blob,     \* the blob in NVS
  job,      \* what each task has in hand
  shadow,   \* the menu's edit: s_edit and s_edit_raw
  seq,      \* s_admin_seq
  owed,     \* history: RAM has what nobody is going to save: `prog default`
            \* put it there, or a write failed
  late,     \* history: rows stored while the blob last written was in hand
  applied,  \* history: admin_seq of the PARAM_SET stored last since boot
  nans      \* history: rows that `prog` was given a nan for

pvars == <<ram, blob, job, shadow, seq, owed, late, applied, nans>>

Writers == {"comms", "ui", "serial"}
Structs == [PRows -> Values]

NoEdit == [open |-> FALSE]

\* What a task does with a row: "store" it, "copy" the struct, "write" the
\* copy.  m is the admin_seq, 0 for a local change; "missed" (history) are the
\* rows other tasks have stored since this one copied.
Job(pc, row, val, m, image, missed) ==
  [pc |-> pc, row |-> row, val |-> val, m |-> m, image |-> image,
   missed |-> missed]

Jobs == [pc : {"idle", "store", "copy", "write"}, row : PRows, val : Values,
         m : 0 .. MaxSeq, image : Structs, missed : SUBSET PRows]

Defaults == [r \in PRows |-> Default]
NoJob    == Job("idle", CHOOSE r \in PRows : TRUE, Default, 0, Defaults, {})

ParamInit ==
  /\ ram = Defaults /\ blob = Defaults
  /\ job = [w \in Writers |-> NoJob]
  /\ shadow = NoEdit /\ seq = 0
  /\ owed = FALSE /\ late = {} /\ applied = 0 /\ nans = {}

\* The struct s is in range, but for the rows a nan was typed for.
InRange(s) == \A r \in PRows : s[r] \in Valid[r] \/ r \in nans

\* Whoever writes, the struct and the blob hold values in range only, except
\* where the console was given a nan: neither radio nor menu, nor an edit
\* that has copied such a row, puts one in (params_set_by_id, prog_edit_step).
ParamTypeOK ==
  /\ ram \in Structs /\ blob \in Structs
  /\ InRange(ram) /\ InRange(blob)
  /\ job \in [Writers -> Jobs]
  /\ shadow.open => shadow.row \in PRows /\ shadow.raw \in Values
  /\ seq \in 0 .. MaxSeq /\ applied \in 0 .. MaxSeq
  /\ owed \in BOOLEAN /\ late \subseteq PRows /\ nans \subseteq Counts

-----------------------------------------------------------------------------
Busy(w) == job[w].pc # "idle"

Begin(w, row, val, m) ==
  job' = [job EXCEPT ![w] = Job("store", row, val, m, Defaults, {})]

\* Rows stored while a copy of the struct is in hand are not in it.
Miss(j, rows) ==
  IF j.pc = "write" THEN [j EXCEPT !.missed = @ \cup rows] ELSE j

\* Mutant: a replay is told by being older than the last command.
FreshOrSame(m) == m >= seq

\* The replay guard.
Fresh(m) == m > seq

\* Mutant: the value of the message goes in as it came.
ParamSetAny(row, val, m) ==
  /\ ~Busy("comms") /\ Fresh(m)
  /\ Begin("comms", row, val, m)
  /\ UNCHANGED <<ram, blob, shadow, seq, owed, late, applied, nans>>

\* handle_param_set: what is not fresh or not in range changes nothing.
ParamSet(row, val, m) ==
  /\ ~Busy("comms") /\ Fresh(m) /\ val \in Valid[row]
  /\ Begin("comms", row, val, m)
  /\ UNCHANGED <<ram, blob, shadow, seq, owed, late, applied, nans>>

\* `prog NAME VALUE`: params_set has range checks of its own.  A nan is
\* neither below nor above a limit: the rows of Counts take it, and what the
\* conversion to an unsigned number makes of it may be any value.
Prog(row, val) ==
  /\ ~Busy("serial") /\ (val \in Valid[row] \/ row \in Counts)
  /\ Begin("serial", row, val, 0)
  /\ nans' = IF val \in Valid[row] THEN nans ELSE nans \cup {row}
  /\ UNCHANGED <<ram, blob, shadow, seq, owed, late, applied>>

\* `prog default` changes RAM only; `prog save` writes what is there.
ProgDefault ==
  /\ ~Busy("serial")
  /\ ram' = Defaults /\ owed' = TRUE
  /\ job' = [w \in Writers |-> Miss(job[w], PRows)]
  /\ UNCHANGED <<blob, shadow, seq, late, applied, nans>>

ProgSave ==
  /\ ~Busy("serial")
  /\ job' = [job EXCEPT !["serial"] = [NoJob EXCEPT !.pc = "copy"]]
  /\ UNCHANGED <<ram, blob, shadow, seq, owed, late, applied, nans>>

\* prog_edit_begin takes a copy of the row, prog_edit_step moves it within
\* the range, a hold (go_home) drops it.
EditOpen(row) ==
  /\ ~Busy("ui") /\ ~shadow.open
  /\ shadow' = [open |-> TRUE, row |-> row, raw |-> ram[row]]
  /\ UNCHANGED <<ram, blob, job, seq, owed, late, applied, nans>>

EditStep ==
  /\ ~Busy("ui") /\ shadow.open
  /\ \E v \in Valid[shadow.row] : shadow' = [shadow EXCEPT !.raw = v]
  /\ UNCHANGED <<ram, blob, job, seq, owed, late, applied, nans>>

EditDrop ==
  /\ ~Busy("ui") /\ shadow.open
  /\ shadow' = NoEdit
  /\ UNCHANGED <<ram, blob, job, seq, owed, late, applied, nans>>

\* prog_edit_commit: whatever has become of the row since, the copy goes in,
\* unless it was out of range when it was taken and nobody has turned it.
EditSave ==
  /\ ~Busy("ui") /\ shadow.open
  /\ IF shadow.raw \in Valid[shadow.row] THEN Begin("ui", shadow.row, shadow.raw, 0)
     ELSE UNCHANGED job
  /\ shadow' = NoEdit
  /\ UNCHANGED <<ram, blob, seq, owed, late, applied, nans>>

\* Mutant: a row set from the menu is not saved.
StoreRowMenuForgets(w) ==
  /\ job[w].pc = "store"
  /\ LET j == job[w] IN
       /\ ram' = [ram EXCEPT ![j.row] = j.val]
       /\ job' = [o \in Writers |->
                    IF o = w THEN [NoJob EXCEPT !.pc = IF w = "ui" THEN "idle" ELSE "copy",
                                                !.m = j.m]
                    ELSE Miss(job[o], {j.row})]
       /\ applied' = IF j.m = 0 THEN applied ELSE j.m
  /\ UNCHANGED <<blob, shadow, seq, owed, late, nans>>

\* params_set_by_id and params_set: the row is set in RAM,
StoreRow(w) ==
  /\ job[w].pc = "store"
  /\ LET j == job[w] IN
       /\ ram' = [ram EXCEPT ![j.row] = j.val]
       /\ job' = [o \in Writers |->
                    IF o = w THEN [NoJob EXCEPT !.pc = "copy", !.m = j.m]
                    ELSE Miss(job[o], {j.row})]
       /\ applied' = IF j.m = 0 THEN applied ELSE j.m
  /\ UNCHANGED <<blob, shadow, seq, owed, late, nans>>

\* the struct copied (params_save) ...
CopyStruct(w) ==
  /\ job[w].pc = "copy"
  /\ job' = [job EXCEPT ![w].pc = "write", ![w].image = ram]
  /\ UNCHANGED <<ram, blob, shadow, seq, owed, late, applied, nans>>

\* ... and the copy written; PARAM_SET takes its admin_seq after that.
WriteBlob(w) ==
  /\ job[w].pc = "write"
  /\ blob' = job[w].image /\ late' = job[w].missed
  /\ job' = [job EXCEPT ![w] = NoJob]
  /\ seq' = IF job[w].m = 0 THEN seq ELSE job[w].m
  /\ owed' = FALSE
  /\ UNCHANGED <<ram, shadow, applied, nans>>

\* The write fails.  No setter looks at what params_save returns: the command
\* has been carried out and its admin_seq taken all the same.
WriteFails(w) ==
  /\ job[w].pc = "write"
  /\ job' = [job EXCEPT ![w] = NoJob]
  /\ seq' = IF job[w].m = 0 THEN seq ELSE job[w].m
  /\ owed' = TRUE
  /\ UNCHANGED <<ram, blob, shadow, late, applied, nans>>

\* Power is cut; params_init loads the blob.
ParamReboot ==
  /\ ram' = blob
  /\ job' = [w \in Writers |-> NoJob]
  /\ shadow' = NoEdit /\ seq' = 0
  /\ owed' = FALSE /\ late' = {} /\ applied' = 0
  /\ UNCHANGED <<blob, nans>>

ParamNext ==
  \/ \E row \in PRows, val \in Values :
       Prog(row, val) \/ \E m \in 1 .. MaxSeq : ParamSet(row, val, m)
  \/ ProgDefault \/ ProgSave
  \/ (\E row \in PRows : EditOpen(row)) \/ EditStep \/ EditDrop \/ EditSave
  \/ \E w \in Writers : StoreRow(w) \/ CopyStruct(w) \/ WriteBlob(w) \/ WriteFails(w)
  \/ ParamReboot

ParamSpec == ParamInit /\ [][ParamNext]_pvars

-----------------------------------------------------------------------------
(* Properties.                                                             *)

\* "Every successful change persists immediately": with no setter under way,
\* NVS holds every row as it is in RAM, except one stored while the blob
\* written last was in another task's hand, after `prog default`, and after a
\* write that failed; the next write that does not makes good for both.
SavedUnlessLate ==
  (\A w \in Writers : ~Busy(w)) /\ ~owed =>
    \A r \in PRows \ late : blob[r] = ram[r]

\* A PARAM_SET that comes again, or after a later one, is not carried out
\* (until the next boot, which forgets the admin_seq).
AppliedInOrder ==
  [][job["comms"].pc = "store" /\ job'["comms"].pc = "copy"
       => job["comms"].m > applied]_pvars

=============================================================================
