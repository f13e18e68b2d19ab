----------------------------- MODULE PartsProofs ----------------------------
(***************************************************************************)
(* What the node keeps in NVS, its lifetime counters and its tunables, for *)
(* every checkpoint interval, any table, any values and any number of      *)
(* commands; and that the five parts which MCParts runs keep their types.  *)
(*                                                                         *)
(* The counters: the save mark in RAM is what NVS holds at every moment.   *)
(*                                                                         *)
(* The tunables: SavedUnlessLate looks at the moments when no setter is    *)
(* under way.  It is kept because at every moment a row that differs       *)
(* between the struct and NVS has somebody to save it: a task that has yet *)
(* to copy the struct, or one whose copy has the row as it is now.         *)
(* AppliedInOrder is kept because s_admin_seq is the command stored last   *)
(* whenever the comms task looks at it.  That a row is in range unless the *)
(* console was given a nan for it holds of the struct and of NVS because   *)
(* it holds of every copy a task has in hand.                              *)
(***************************************************************************)
EXTENDS MCParts, EncoderProofs, GwNodesProofs, InfluxTailerProofs, TLAPS

-----------------------------------------------------------------------------
(* The lifetime counters.                                                  *)

\* What every step keeps: the save mark in RAM is what NVS holds (every path
\* that writes one writes the other), the checkpoint is never overdue, and
\* no start is in NVS that was not counted.
StatsInv ==
  /\ TypeOK
  /\ saved = nvs.total
  /\ saved <= total
  /\ total - saved < Checkpoint
  /\ nvs.starts <= starts
  /\ ~nvs.have => nvs.starts = 0

\* The blobs there can be.
Blobs == [have : BOOLEAN, total : 0 .. MaxTotal, starts : 0 .. MaxStarts]

\* A node fresh from the factory satisfies it.
LEMMA StatsStarts == Init => StatsInv
<1> SUFFICES ASSUME Init PROVE StatsInv
  OBVIOUS
<1>1. 0 \in 0 .. MaxTotal /\ 0 \in 0 .. MaxStarts /\ 0 < Checkpoint
  BY StatsAssumption
<1>2. NoBlob \in Blobs /\ NoBlob.total = 0 /\ NoBlob.starts = 0
  BY <1>1 DEF NoBlob, Blobs
<1>3. nvs \in Blobs /\ nvs.total = 0 /\ nvs.starts = 0
  BY <1>2 DEF Init
<1>4. running \in BOOLEAN /\ total = 0 /\ starts = 0 /\ saved = 0
  BY DEF Init
<1>5. /\ saved <= total /\ total - saved < Checkpoint
      /\ nvs.starts <= starts
  BY <1>1, <1>3, <1>4
<1> QED BY <1>1, <1>3, <1>4, <1>5 DEF StatsInv, TypeOK, Blobs

\* The kept of two counters in range.
LEMMA BlobType ==
  ASSUME NEW t \in 0 .. MaxTotal, NEW n \in 0 .. MaxStarts
  PROVE  /\ Blob(t, n) \in Blobs
         /\ Blob(t, n).have
         /\ Blob(t, n).total = t /\ Blob(t, n).starts = n
  BY DEF Blob, Blobs

\* A counter that has just been saved has nothing unsaved.
LEMMA SavedNow ==
  ASSUME NEW t \in 0 .. MaxTotal, NEW s, s = t
  PROVE  s \in 0 .. MaxTotal /\ s <= t /\ t - s < Checkpoint
  BY StatsAssumption

\* Counters in range that have just been saved satisfy the invariant.
LEMMA SaveInv ==
  ASSUME total' \in 0 .. MaxTotal, starts' \in 0 .. MaxStarts,
         running' \in BOOLEAN, stats_save
  PROVE  StatsInv'
<1>1. nvs' = Blob(total', starts') /\ saved' = total'
  BY DEF stats_save
<1>2. nvs' \in Blobs /\ nvs'.have /\ nvs'.total = total' /\ nvs'.starts = starts'
  BY <1>1, BlobType
<1>3. /\ saved' \in 0 .. MaxTotal /\ saved' <= total'
      /\ total' - saved' < Checkpoint
  BY <1>1, SavedNow
<1>4. nvs'.starts <= starts'
  BY <1>2
<1> QED BY <1>1, <1>2, <1>3, <1>4 DEF StatsInv, TypeOK, Blobs

\* A step that saves nothing keeps it while no counter falls and the seconds
\* counted stay below the checkpoint.
LEMMA NoSaveInv ==
  ASSUME StatsInv, nvs' = nvs, saved' = saved, running' \in BOOLEAN,
         total' \in 0 .. MaxTotal, starts' \in 0 .. MaxStarts,
         total' >= total, starts' >= starts, total' - saved < Checkpoint
  PROVE  StatsInv'
<1>1. /\ nvs \in Blobs /\ saved \in 0 .. MaxTotal /\ saved = nvs.total
      /\ saved <= total /\ total \in 0 .. MaxTotal
      /\ nvs.starts <= starts /\ starts \in 0 .. MaxStarts
      /\ nvs.starts \in 0 .. MaxStarts
      /\ (~nvs.have => nvs.starts = 0)
  BY DEF StatsInv, TypeOK, Blobs
<1>2. saved <= total' /\ nvs.starts <= starts'
  BY <1>1
<1>3. TypeOK'
  BY <1>1 DEF TypeOK, Blobs
<1> QED BY <1>1, <1>2, <1>3 DEF StatsInv

\* While no checkpoint is due, less than a checkpoint is unsaved.
LEMMA NotDue ==
  ASSUME NEW t \in Int, saved \in Int, ~Due(t)
  PROVE  t - saved < Checkpoint
  BY StatsAssumption DEF Due

\* A tick either saves or leaves less than a checkpoint unsaved.
LEMMA TickInv == StatsInv /\ Tick => StatsInv'
<1> SUFFICES ASSUME StatsInv, Tick PROVE StatsInv'
  OBVIOUS
<1>1. /\ total' \in 0 .. MaxTotal /\ starts' \in 0 .. MaxStarts
      /\ running' \in BOOLEAN
      /\ total' >= total /\ starts' >= starts
      /\ total' \in Int /\ saved \in Int
      /\ total - saved < Checkpoint
      /\ (~running => total' = total)
  BY StatsAssumption DEF StatsInv, TypeOK, Tick
<1>2. CASE running' # running \/ (running' /\ Due(total'))
  <2>1. stats_save
    BY <1>2 DEF Tick
  <2> QED BY <1>1, <2>1, SaveInv
<1>3. CASE ~(running' # running \/ (running' /\ Due(total')))
  <2>1. nvs' = nvs /\ saved' = saved
    BY <1>3 DEF Tick
  <2>2. ~running \/ ~Due(total')
    BY <1>3
  <2>3. total' - saved < Checkpoint
    <3>1. CASE ~running
      BY <1>1, <3>1
    <3>2. CASE ~Due(total')
      BY <1>1, <3>2, NotDue
    <3> QED BY <2>2, <3>1, <3>2
  <2> QED BY <1>1, <2>1, <2>3, NoSaveInv
<1> QED BY <1>2, <1>3

\* After a boot the counters are those of the kept.
LEMMA BootInv ==
  ASSUME NEW kept \in Blobs, Boot(kept), nvs' = kept,
         ~kept.have => kept.starts = 0
  PROVE  StatsInv'
<1>1. /\ kept.total \in 0 .. MaxTotal /\ kept.starts \in 0 .. MaxStarts
      /\ running' \in BOOLEAN
      /\ total' = kept.total /\ saved' = kept.total
  BY DEF Blobs, Boot
<1>2. starts' \in 0 .. MaxStarts /\ kept.starts <= starts'
  BY <1>1, StatsAssumption DEF Boot
<1>3. /\ saved' <= total' /\ total' - saved' < Checkpoint
  BY <1>1, SavedNow
<1> QED BY <1>1, <1>2, <1>3 DEF StatsInv, TypeOK, Blobs

\* Every step keeps the invariant.
LEMMA StatsStays == StatsInv /\ [Next]_vars => StatsInv'
<1> SUFFICES ASSUME StatsInv, [Next]_vars PROVE StatsInv'
  OBVIOUS
<1>1. CASE Tick
  BY <1>1, TickInv
<1>2. CASE ManualOn \/ ManualOff
  <2>1. /\ nvs' = nvs /\ saved' = saved /\ total' = total
        /\ running' \in BOOLEAN
    BY <1>2 DEF ManualOn, ManualOff
  <2>2. /\ total \in 0 .. MaxTotal /\ starts \in 0 .. MaxStarts
        /\ total - saved < Checkpoint
    BY DEF StatsInv, TypeOK
  <2>3. starts' \in 0 .. MaxStarts /\ starts' >= starts
    BY <1>2, <2>2, StatsAssumption DEF ManualOn, ManualOff
  <2>4. total' >= total /\ total' - saved < Checkpoint
    BY <2>1, <2>2
  <2> QED BY <2>1, <2>2, <2>3, <2>4, NoSaveInv
<1>3. CASE Clear
  <2>1. 0 \in 0 .. MaxTotal /\ 0 \in 0 .. MaxStarts
    BY StatsAssumption
  <2> QED BY <1>3, <2>1, SaveInv DEF Clear, StatsInv, TypeOK
<1>4. CASE PowerCycle
  BY <1>4, BootInv DEF PowerCycle, StatsInv, TypeOK, Blobs
<1>5. CASE SoftReboot
  <2>1. total \in 0 .. MaxTotal /\ starts \in 0 .. MaxStarts
    BY DEF StatsInv, TypeOK
  <2> QED BY <1>5, <2>1, BootInv, BlobType DEF SoftReboot
<1>6. CASE UNCHANGED vars
  BY <1>6 DEF vars, StatsInv, TypeOK
<1> QED BY <1>1, <1>2, <1>3, <1>4, <1>5, <1>6 DEF Next

\* The invariant holds of the specification.
THEOREM StatsHold == Spec => []StatsInv
  BY StatsStarts, StatsStays, PTL DEF Spec

\* Whatever the operator, the loop and the power do, a power cut never costs
\* a checkpoint interval of counted running time, and what comes back was
\* counted (stats_save's callers).
THEOREM RunLossIsBounded == Spec => []RunLossBounded
<1>1. StatsInv => RunLossBounded
  BY StatsAssumption DEF StatsInv, TypeOK, RunLossBounded
<1> QED BY <1>1, StatsHold, PTL

\* The seconds run that NVS holds only grow, until the counters are cleared.
THEOREM SavedStays == Spec => SavedIsKept
<1>1. StatsInv /\ [Next]_vars => [nvs'.total < nvs.total => Clear]_vars
  <2> SUFFICES ASSUME StatsInv, [Next]_vars, ~Clear
               PROVE  ~(nvs'.total < nvs.total)
    OBVIOUS
  <2> USE StatsAssumption
  <2>1. CASE Tick
    <3>1. total' \in 0 .. MaxTotal /\ starts' \in 0 .. MaxStarts
      BY <2>1 DEF StatsInv, TypeOK, Tick
    <3>2. total' >= nvs.total
      BY <2>1 DEF StatsInv, TypeOK, Tick
    <3>3. nvs' = Blob(total', starts') \/ nvs' = nvs
      BY <2>1 DEF Tick, stats_save
    <3>4. Blob(total', starts').total = total'
      BY <3>1, BlobType
    <3>5. nvs'.total = total' \/ nvs'.total = nvs.total
      BY <3>3, <3>4
    <3> QED BY <3>1, <3>2, <3>5 DEF StatsInv, TypeOK
  <2>2. CASE ManualOn \/ ManualOff \/ PowerCycle \/ UNCHANGED vars
    BY <2>2 DEF ManualOn, ManualOff, PowerCycle, vars, StatsInv, TypeOK
  <2>3. CASE SoftReboot
    <3>1. total \in 0 .. MaxTotal /\ starts \in 0 .. MaxStarts
      BY DEF StatsInv, TypeOK
    <3> QED BY <2>3, <3>1, BlobType DEF SoftReboot, StatsInv, TypeOK
  <2> QED BY <2>1, <2>2, <2>3 DEF Next
<1> QED BY <1>1, StatsHold, PTL DEF Spec, SavedIsKept

-----------------------------------------------------------------------------
(* The tunables.                                                           *)

ParamShape ==
  /\ ram \in Structs /\ blob \in Structs /\ job \in [Writers -> Jobs]
  /\ shadow \in [open : {TRUE}, row : PRows, raw : Values] \cup {NoEdit}
  /\ seq \in 0 .. MaxSeq /\ applied \in 0 .. MaxSeq
  /\ owed \in BOOLEAN /\ late \in SUBSET PRows /\ nans \in SUBSET Counts

\* Only a copy can have missed a row.
JobInHand ==
  \A w \in Writers : job[w].pc # "write" => job[w].missed = {}

\* The struct, the blob and every copy of the struct are in range but for the
\* rows a nan was typed for, and so is what is about to be stored.
Sound ==
  /\ InRange(ram) /\ InRange(blob)
  /\ \A w \in Writers :
       /\ InRange(job[w].image)
       /\ job[w].pc = "store" =>
            job[w].val \in Valid[job[w].row] \/ job[w].row \in nans

\* s_admin_seq and the command in hand.
SetsOrdered ==
  /\ \A w \in {"ui", "serial"} : job[w].m = 0
  /\ job["comms"].pc = "idle" => applied = seq
  /\ job["comms"].pc = "store" => applied = seq /\ job["comms"].m > seq
  /\ job["comms"].pc \in {"copy", "write"} =>
       job["comms"].m # 0 /\ applied = job["comms"].m

\* A copy of the struct is true of the rows it has not missed.
TrueCopies ==
  \A w \in Writers : job[w].pc = "write" =>
    \A r \in PRows \ job[w].missed : job[w].image[r] = ram[r]

\* Who is going to save row r as it is now.
Saves(w, r) ==
  job[w].pc = "copy" \/ (job[w].pc = "write" /\ r \notin job[w].missed)

Cared ==
  ~owed => \A r \in PRows \ late :
              blob[r] = ram[r] \/ \E w \in Writers : Saves(w, r)

ParamInv ==
  ParamShape /\ JobInHand /\ Sound /\ SetsOrdered /\ TrueCopies /\ Cared

-----------------------------------------------------------------------------
LEMMA NoJobIsJob ==
  /\ NoJob \in Jobs /\ NoJob.pc = "idle" /\ NoJob.m = 0 /\ NoJob.missed = {}
  /\ NoJob.image = Defaults
  /\ Defaults \in Structs /\ \A r \in PRows : Defaults[r] \in Valid[r]
<1>1. (CHOOSE r \in PRows : TRUE) \in PRows
  BY ParamAssumption
<1>2. Defaults \in Structs /\ \A r \in PRows : Defaults[r] \in Valid[r]
  BY ParamAssumption DEF Defaults, Structs
<1>3. Default \in Values
  BY ParamAssumption
<1> QED
  BY <1>1, <1>2, <1>3, ParamAssumption DEF NoJob, Job, Jobs

\* One job changed.
LEMMA OneJob ==
  ASSUME job \in [Writers -> Jobs], NEW w \in Writers, NEW j \in Jobs,
         job' = [job EXCEPT ![w] = j]
  PROVE  /\ job' \in [Writers -> Jobs] /\ job'[w] = j
         /\ \A o \in Writers : o # w => job'[o] = job[o]
OBVIOUS

\* A task that was idle takes a row in hand.
LEMMA BeginKeeps ==
  ASSUME ParamInv, NEW w \in Writers, NEW row \in PRows, NEW val \in Values,
         NEW m \in 0 .. MaxSeq,
         ~Busy(w), Begin(w, row, val, m),
         IF w = "comms" THEN m > seq ELSE m = 0,
         val \in Valid[row] \/ row \in nans', nans \subseteq nans',
         nans' \subseteq Counts,
         UNCHANGED <<ram, blob, seq, owed, late, applied>>,
         shadow' = shadow \/ shadow' = NoEdit
  PROVE  ParamInv'
<1> DEFINE j == Job("store", row, val, m, Defaults, {})
<1>1. /\ j \in Jobs /\ j.pc = "store" /\ j.val = val /\ j.row = row
      /\ j.m = m /\ j.missed = {} /\ j.image = Defaults
  BY NoJobIsJob, ParamAssumption DEF Job, Jobs
<1>2. job' = [job EXCEPT ![w] = j] /\ job[w].pc = "idle"
  BY DEF Begin, Busy
<1> HIDE DEF j
<1>3. /\ job' \in [Writers -> Jobs] /\ job'[w] = j
      /\ \A o \in Writers : o # w => job'[o] = job[o]
  BY <1>1, <1>2, OneJob DEF ParamInv, ParamShape
<1>4. ParamShape'
  BY <1>3 DEF ParamInv, ParamShape
<1>5. JobInHand'
  BY <1>1, <1>3 DEF ParamInv, JobInHand
<1>6. SetsOrdered'
  BY <1>1, <1>2, <1>3 DEF ParamInv, SetsOrdered, Writers
<1>7. TrueCopies'
  BY <1>1, <1>3 DEF ParamInv, TrueCopies
<1>8. Cared'
  <2>1. \A o \in Writers, r \in PRows : Saves(o, r) => Saves(o, r)'
    BY <1>2, <1>3 DEF Saves
  <2> QED
    BY <2>1 DEF ParamInv, Cared
<1>9. Sound'
  BY <1>1, <1>3, NoJobIsJob DEF ParamInv, Sound, InRange
<1> QED
  BY <1>4, <1>5, <1>6, <1>7, <1>8, <1>9 DEF ParamInv

LEMMA ParamSetKeeps ==
  ASSUME ParamInv, NEW row \in PRows, NEW val \in Values,
         NEW m \in 1 .. MaxSeq, ParamSet(row, val, m)
  PROVE  ParamInv'
<1>1. "comms" \in Writers /\ m \in 0 .. MaxSeq
  BY ParamAssumption DEF Writers
<1> QED
  BY <1>1, BeginKeeps DEF ParamSet, Fresh, ParamInv, ParamShape

LEMMA ProgKeeps ==
  ASSUME ParamInv, NEW row \in PRows, NEW val \in Values, Prog(row, val)
  PROVE  ParamInv'
<1>1. "serial" \in Writers /\ 0 \in 0 .. MaxSeq
  BY ParamAssumption DEF Writers
<1>2. /\ val \in Valid[row] \/ row \in nans'
      /\ nans \subseteq nans' /\ nans' \subseteq Counts
  BY DEF Prog, ParamInv, ParamShape
<1> QED
  BY <1>1, <1>2, BeginKeeps DEF Prog

LEMMA EditSaveKeeps ==
  ASSUME ParamInv, EditSave
  PROVE  ParamInv'
<1>1. "ui" \in Writers /\ 0 \in 0 .. MaxSeq
  BY ParamAssumption DEF Writers
<1>2. shadow.row \in PRows /\ shadow.raw \in Values
  <2>1. CASE shadow = NoEdit
    BY <2>1 DEF EditSave, NoEdit
  <2>2. CASE shadow \in [open : {TRUE}, row : PRows, raw : Values]
    BY <2>2
  <2> QED
    BY <2>1, <2>2 DEF ParamInv, ParamShape
<1>3. CASE shadow.raw \in Valid[shadow.row]
  BY <1>1, <1>2, <1>3, BeginKeeps DEF EditSave, ParamInv, ParamShape
<1>4. CASE shadow.raw \notin Valid[shadow.row]
  <2>1. /\ UNCHANGED <<ram, blob, job, seq, owed, late, applied, nans>>
        /\ shadow' = NoEdit
    BY <1>4 DEF EditSave
  <2> QED
    BY <2>1
    DEF ParamInv, ParamShape, JobInHand, Sound, InRange, SetsOrdered, TrueCopies,
        Cared, Saves
<1> QED
  BY <1>3, <1>4

\* The edit before its commit touches nothing but its copy.
LEMMA EditKeeps ==
  ASSUME ParamInv,
         (\E row \in PRows : EditOpen(row)) \/ EditStep \/ EditDrop
  PROVE  ParamInv'
<1>1. UNCHANGED <<ram, blob, job, seq, owed, late, applied, nans>>
  BY DEF EditOpen, EditStep, EditDrop
<1>2. shadow' \in [open : {TRUE}, row : PRows, raw : Values] \cup {NoEdit}
  <2>1. CASE \E row \in PRows : EditOpen(row)
    BY <2>1 DEF EditOpen, ParamInv, ParamShape, Structs
  <2>2. CASE EditStep
    <3>1. shadow \in [open : {TRUE}, row : PRows, raw : Values]
      <4>1. shadow # NoEdit
        BY <2>2 DEF EditStep, NoEdit
      <4> QED
        BY <4>1 DEF ParamInv, ParamShape
    <3>2. PICK v \in Valid[shadow.row] : shadow' = [shadow EXCEPT !.raw = v]
      BY <2>2 DEF EditStep
    <3>3. v \in Values
      BY <3>1, ParamAssumption
    <3> QED
      BY <3>1, <3>2, <3>3
  <2>3. CASE EditDrop
    BY <2>3 DEF EditDrop
  <2> QED
    BY <2>1, <2>2, <2>3
<1> QED
  BY <1>1, <1>2
  DEF ParamInv, ParamShape, JobInHand, Sound, InRange, SetsOrdered, TrueCopies,
      Cared, Saves

\* `prog default` and `prog save`.
LEMMA DefaultKeeps ==
  ASSUME ParamInv, ProgDefault
  PROVE  ParamInv'
<1>1. \A w \in Writers :
        /\ job'[w] \in Jobs /\ job'[w].pc = job[w].pc
        /\ job'[w].m = job[w].m /\ job'[w].val = job[w].val
        /\ job'[w].row = job[w].row /\ job'[w].image = job[w].image
        /\ job[w].pc = "write" => job'[w].missed = PRows
        /\ job[w].pc # "write" => job'[w].missed = job[w].missed
  <2> SUFFICES ASSUME NEW w \in Writers
               PROVE  /\ job'[w] \in Jobs /\ job'[w].pc = job[w].pc
                      /\ job'[w].m = job[w].m /\ job'[w].val = job[w].val
                      /\ job'[w].row = job[w].row /\ job'[w].image = job[w].image
                      /\ job[w].pc = "write" => job'[w].missed = PRows
                      /\ job[w].pc # "write" => job'[w].missed = job[w].missed
    OBVIOUS
  <2>1. job'[w] = Miss(job[w], PRows) /\ job[w] \in Jobs
    BY DEF ProgDefault, ParamInv, ParamShape
  <2> QED
    BY <2>1 DEF Miss, Jobs
<1>2. job' \in [Writers -> Jobs]
  BY <1>1 DEF ProgDefault
<1>3. ParamShape'
  BY <1>2, NoJobIsJob DEF ParamInv, ParamShape, ProgDefault
<1>4. JobInHand' /\ TrueCopies' /\ Cared'
  BY <1>1 DEF ParamInv, JobInHand, TrueCopies, Cared, ProgDefault
<1>5. SetsOrdered'
  BY <1>1 DEF ParamInv, SetsOrdered, ProgDefault, Writers
<1>6. Sound'
  <2>1. /\ ram' = Defaults /\ blob' = blob /\ nans' = nans
    BY DEF ProgDefault
  <2> QED
    BY <1>1, <2>1, NoJobIsJob DEF ParamInv, Sound, InRange
<1> QED
  BY <1>3, <1>4, <1>5, <1>6 DEF ParamInv

LEMMA ProgSaveKeeps ==
  ASSUME ParamInv, ProgSave
  PROVE  ParamInv'
<1> DEFINE j == [NoJob EXCEPT !.pc = "copy"]
<1>1. /\ j \in Jobs /\ j.pc = "copy" /\ j.m = 0 /\ j.missed = {}
      /\ j.image = Defaults
  BY NoJobIsJob DEF Jobs
<1>2. /\ job' = [job EXCEPT !["serial"] = j] /\ "serial" \in Writers
      /\ UNCHANGED <<ram, blob, shadow, seq, owed, late, applied, nans>>
      /\ job["serial"].pc = "idle"
  BY DEF ProgSave, Writers, Busy
<1> HIDE DEF j
<1>3. /\ job' \in [Writers -> Jobs] /\ job'["serial"] = j
      /\ \A o \in Writers : o # "serial" => job'[o] = job[o]
  BY <1>1, <1>2, OneJob DEF ParamInv, ParamShape
<1>4. ParamShape' /\ JobInHand' /\ TrueCopies'
  BY <1>1, <1>2, <1>3 DEF ParamInv, ParamShape, JobInHand, TrueCopies
<1>5. SetsOrdered'
  BY <1>1, <1>2, <1>3 DEF ParamInv, SetsOrdered, Writers
<1>6. Cared'
  BY <1>1, <1>2, <1>3 DEF Cared, Saves
<1>7. Sound'
  BY <1>1, <1>2, <1>3, NoJobIsJob DEF ParamInv, Sound, InRange
<1> QED
  BY <1>4, <1>5, <1>6, <1>7 DEF ParamInv

-----------------------------------------------------------------------------
(* The three steps of a setter.                                            *)

LEMMA StoreKeeps ==
  ASSUME ParamInv, NEW w \in Writers, StoreRow(w)
  PROVE  ParamInv' /\ (w = "comms" => job["comms"].m > applied)
<1> DEFINE j == job[w]
           n == [NoJob EXCEPT !.pc = "copy", !.m = j.m]
<1>1. /\ j \in Jobs /\ j.pc = "store" /\ j.val \in Values /\ j.row \in PRows
      /\ j.m \in 0 .. MaxSeq
  BY DEF ParamInv, ParamShape, StoreRow, Jobs
<1>2. /\ ram' = [ram EXCEPT ![j.row] = j.val]
      /\ applied' = IF j.m = 0 THEN applied ELSE j.m
      /\ UNCHANGED <<blob, shadow, seq, owed, late, nans>>
  BY DEF StoreRow
<1>3. /\ n \in Jobs /\ n.pc = "copy" /\ n.m = j.m /\ n.missed = {}
      /\ n.image = Defaults
  BY <1>1, NoJobIsJob DEF Jobs
<1>4. /\ job' = [o \in Writers |-> IF o = w THEN n ELSE Miss(job[o], {j.row})]
  BY DEF StoreRow
<1> HIDE DEF n
<1>5. \A o \in Writers :
        o # w =>
          /\ job'[o] \in Jobs /\ job'[o].pc = job[o].pc
          /\ job'[o].m = job[o].m /\ job'[o].val = job[o].val
          /\ job'[o].image = job[o].image /\ job'[o].row = job[o].row
          /\ job[o].pc = "write" => job'[o].missed = job[o].missed \cup {j.row}
          /\ job[o].pc # "write" => job'[o].missed = job[o].missed
  <2> SUFFICES ASSUME NEW o \in Writers, o # w
               PROVE
          /\ job'[o] \in Jobs /\ job'[o].pc = job[o].pc
          /\ job'[o].m = job[o].m /\ job'[o].val = job[o].val
          /\ job'[o].image = job[o].image /\ job'[o].row = job[o].row
          /\ job[o].pc = "write" => job'[o].missed = job[o].missed \cup {j.row}
          /\ job[o].pc # "write" => job'[o].missed = job[o].missed
    OBVIOUS
  <2>1. job'[o] = Miss(job[o], {j.row}) /\ job[o] \in Jobs
    BY <1>4 DEF ParamInv, ParamShape
  <2> QED
    BY <1>1, <2>1 DEF Miss, Jobs
<1>6. job'[w] = n
  BY <1>4
<1>7. ParamShape'
  <2>1. job' \in [Writers -> Jobs]
    BY <1>3, <1>4, <1>5, <1>6
  <2>2. ram' \in Structs
    BY <1>1, <1>2 DEF ParamInv, ParamShape, Structs
  <2> QED
    BY <1>1, <1>2, <2>1, <2>2 DEF ParamInv, ParamShape
<1>8. JobInHand'
  BY <1>3, <1>5, <1>6 DEF ParamInv, JobInHand
<1>9. SetsOrdered' /\ (w = "comms" => job["comms"].m > applied)
  <2>1. CASE w = "comms"
    BY <2>1, <1>1, <1>2, <1>3, <1>5, <1>6
    DEF ParamInv, ParamShape, SetsOrdered, Writers
  <2>2. CASE w # "comms"
    <3>1. j.m = 0
      BY <2>2 DEF ParamInv, SetsOrdered, Writers
    <3> QED
      BY <2>2, <3>1, <1>2, <1>3, <1>5, <1>6 DEF ParamInv, SetsOrdered, Writers
  <2> QED
    BY <2>1, <2>2
<1>10. TrueCopies'
  <2> SUFFICES ASSUME NEW o \in Writers, job'[o].pc = "write",
                      NEW r \in PRows \ job'[o].missed
               PROVE  job'[o].image[r] = ram'[r]
    BY DEF TrueCopies
  <2>1. o # w
    BY <1>3, <1>6
  <2>2. r # j.row /\ r \notin job[o].missed
    BY <1>5, <2>1
  <2>3. ram'[r] = ram[r]
    BY <1>2, <2>2 DEF ParamInv, ParamShape, Structs
  <2> QED
    BY <1>5, <2>1, <2>2, <2>3 DEF ParamInv, TrueCopies
<1>11. Cared'
  BY <1>3, <1>6 DEF Cared, Saves
<1>12. Sound'
  <2>1. j.val \in Valid[j.row] \/ j.row \in nans
    BY <1>1 DEF ParamInv, Sound
  <2>2. InRange(ram)' /\ InRange(blob)'
    BY <1>1, <1>2, <2>1 DEF ParamInv, ParamShape, Structs, Sound, InRange
  <2>3. \A o \in Writers : InRange(job[o].image)'
    BY <1>2, <1>3, <1>5, <1>6, NoJobIsJob DEF ParamInv, Sound, InRange
  <2>4. \A o \in Writers :
          job'[o].pc = "store" =>
            job'[o].val \in Valid[job'[o].row] \/ job'[o].row \in nans'
    BY <1>2, <1>3, <1>5, <1>6 DEF ParamInv, Sound
  <2> QED
    BY <2>2, <2>3, <2>4 DEF Sound
<1> QED
  BY <1>7, <1>8, <1>9, <1>10, <1>11, <1>12 DEF ParamInv

LEMMA CopyKeeps ==
  ASSUME ParamInv, NEW w \in Writers, CopyStruct(w)
  PROVE  ParamInv'
<1> DEFINE j == [job[w] EXCEPT !.pc = "write", !.image = ram]
<1>1. /\ job[w] \in Jobs /\ job[w].pc = "copy" /\ job[w].missed = {}
      /\ ram \in Structs
  BY DEF ParamInv, ParamShape, JobInHand, CopyStruct
<1>2. /\ j \in Jobs /\ j.pc = "write" /\ j.image = ram /\ j.missed = {}
      /\ j.m = job[w].m
  BY <1>1 DEF Jobs
<1>3. /\ job' = [job EXCEPT ![w] = j]
      /\ UNCHANGED <<ram, blob, shadow, seq, owed, late, applied, nans>>
  BY <1>1 DEF CopyStruct, ParamInv, ParamShape
<1> HIDE DEF j
<1>4. /\ job' \in [Writers -> Jobs] /\ job'[w] = j
      /\ \A o \in Writers : o # w => job'[o] = job[o]
  BY <1>2, <1>3, OneJob DEF ParamInv, ParamShape
<1>5. ParamShape' /\ JobInHand' /\ TrueCopies'
  BY <1>2, <1>3, <1>4 DEF ParamInv, ParamShape, JobInHand, TrueCopies
<1>6. SetsOrdered'
  BY <1>1, <1>2, <1>3, <1>4 DEF ParamInv, SetsOrdered, Writers
<1>7. Cared'
  BY <1>2, <1>4 DEF Cared, Saves
<1>8. Sound'
  BY <1>2, <1>3, <1>4 DEF ParamInv, Sound, InRange
<1> QED
  BY <1>5, <1>6, <1>7, <1>8 DEF ParamInv

LEMMA WriteKeeps ==
  ASSUME ParamInv, NEW w \in Writers, WriteBlob(w)
  PROVE  ParamInv'
<1>1. /\ job[w] \in Jobs /\ job[w].pc = "write"
      /\ job[w].image \in Structs /\ job[w].missed \in SUBSET PRows
      /\ job[w].m \in 0 .. MaxSeq
  BY DEF ParamInv, ParamShape, WriteBlob, Jobs
<1>2. /\ blob' = job[w].image /\ late' = job[w].missed
      /\ job' = [job EXCEPT ![w] = NoJob]
      /\ seq' = IF job[w].m = 0 THEN seq ELSE job[w].m
      /\ owed' = FALSE /\ UNCHANGED <<ram, shadow, applied, nans>>
  BY DEF WriteBlob
<1>3. /\ job' \in [Writers -> Jobs] /\ job'[w] = NoJob
      /\ \A o \in Writers : o # w => job'[o] = job[o]
  BY <1>2, NoJobIsJob, OneJob DEF ParamInv, ParamShape
<1>4. ParamShape'
  BY <1>1, <1>2, <1>3 DEF ParamInv, ParamShape
<1>5. JobInHand' /\ TrueCopies'
  BY <1>2, <1>3, NoJobIsJob DEF ParamInv, JobInHand, TrueCopies
<1>6. SetsOrdered'
  BY <1>1, <1>2, <1>3, NoJobIsJob DEF ParamInv, SetsOrdered, Writers
<1>7. Cared'
  BY <1>1, <1>2 DEF ParamInv, TrueCopies, Cared
<1>8. Sound'
  BY <1>2, <1>3, NoJobIsJob DEF ParamInv, Sound, InRange
<1> QED
  BY <1>4, <1>5, <1>6, <1>7, <1>8 DEF ParamInv

LEMMA WriteFailsKeeps ==
  ASSUME ParamInv, NEW w \in Writers, WriteFails(w)
  PROVE  ParamInv'
<1>1. /\ job[w] \in Jobs /\ job[w].pc = "write" /\ job[w].m \in 0 .. MaxSeq
  BY DEF ParamInv, ParamShape, WriteFails, Jobs
<1>2. /\ job' = [job EXCEPT ![w] = NoJob]
      /\ seq' = IF job[w].m = 0 THEN seq ELSE job[w].m
      /\ owed' = TRUE /\ UNCHANGED <<ram, blob, shadow, late, applied, nans>>
  BY DEF WriteFails
<1>3. /\ job' \in [Writers -> Jobs] /\ job'[w] = NoJob
      /\ \A o \in Writers : o # w => job'[o] = job[o]
  BY <1>2, NoJobIsJob, OneJob DEF ParamInv, ParamShape
<1>4. ParamShape'
  BY <1>1, <1>2, <1>3 DEF ParamInv, ParamShape
<1>5. JobInHand' /\ TrueCopies'
  BY <1>2, <1>3, NoJobIsJob DEF ParamInv, JobInHand, TrueCopies
<1>6. SetsOrdered'
  BY <1>1, <1>2, <1>3, NoJobIsJob DEF ParamInv, SetsOrdered, Writers
<1>7. Cared'
  BY <1>2 DEF Cared
<1>8. Sound'
  BY <1>2, <1>3, NoJobIsJob DEF ParamInv, Sound, InRange
<1> QED
  BY <1>4, <1>5, <1>6, <1>7, <1>8 DEF ParamInv

LEMMA RebootKeeps ==
  ASSUME ParamInv, ParamReboot
  PROVE  ParamInv'
<1>1. /\ \A w \in Writers : job'[w] = NoJob
      /\ job' \in [Writers -> Jobs] /\ "comms" \in Writers
      /\ "ui" \in Writers /\ "serial" \in Writers
  BY NoJobIsJob DEF ParamReboot, Writers
<1>2. /\ ram' = blob /\ blob' = blob /\ shadow' = NoEdit /\ seq' = 0
      /\ owed' = FALSE /\ late' = {} /\ applied' = 0 /\ nans' = nans
  BY DEF ParamReboot
<1>3. ParamShape'
  <2>1. shadow' \in [open : {TRUE}, row : PRows, raw : Values] \cup {NoEdit}
    BY <1>2, Zenon
  <2>2. seq' \in 0 .. MaxSeq /\ applied' \in 0 .. MaxSeq
    BY <1>2, ParamAssumption
  <2> QED
    BY <1>1, <1>2, <2>1, <2>2 DEF ParamInv, ParamShape
<1>4. JobInHand' /\ SetsOrdered' /\ TrueCopies'
  BY <1>1, <1>2, NoJobIsJob DEF JobInHand, SetsOrdered, TrueCopies
<1>5. Cared'
  BY <1>2 DEF Cared
<1>6. Sound'
  BY <1>1, <1>2, NoJobIsJob DEF ParamInv, Sound, InRange
<1> QED
  BY <1>3, <1>4, <1>5, <1>6 DEF ParamInv

-----------------------------------------------------------------------------
LEMMA ParamStarts == ParamInit => ParamInv
<1> SUFFICES ASSUME ParamInit PROVE ParamInv
  OBVIOUS
<1>1. /\ \A w \in Writers : job[w] = NoJob
      /\ job \in [Writers -> Jobs] /\ "comms" \in Writers
      /\ "ui" \in Writers /\ "serial" \in Writers
  BY NoJobIsJob DEF ParamInit, Writers
<1>2. /\ ram = Defaults /\ blob = Defaults /\ shadow = NoEdit /\ seq = 0
      /\ owed = FALSE /\ late = {} /\ applied = 0 /\ nans = {}
  BY DEF ParamInit
<1>3. ParamShape
  <2>1. shadow \in [open : {TRUE}, row : PRows, raw : Values] \cup {NoEdit}
    BY <1>2, Zenon
  <2>2. seq \in 0 .. MaxSeq /\ applied \in 0 .. MaxSeq
    BY <1>2, ParamAssumption
  <2> QED
    BY <1>1, <1>2, <2>1, <2>2, NoJobIsJob DEF ParamShape
<1>4. JobInHand /\ SetsOrdered /\ TrueCopies
  BY <1>1, <1>2, NoJobIsJob DEF JobInHand, SetsOrdered, TrueCopies
<1>5. Cared
  BY <1>2 DEF Cared
<1>6. Sound
  BY <1>1, <1>2, NoJobIsJob DEF Sound, InRange
<1> QED
  BY <1>3, <1>4, <1>5, <1>6 DEF ParamInv

LEMMA ParamStays == ParamInv /\ [ParamNext]_pvars => ParamInv'
<1> SUFFICES ASSUME ParamInv, [ParamNext]_pvars PROVE ParamInv'
  OBVIOUS
<1>1. CASE UNCHANGED pvars
  BY <1>1
  DEF pvars, ParamInv, ParamShape, JobInHand, Sound, InRange, SetsOrdered,
      TrueCopies, Cared, Saves
<1>2. CASE ParamNext
  BY <1>2, ParamSetKeeps, ProgKeeps, EditSaveKeeps, EditKeeps, DefaultKeeps,
     ProgSaveKeeps, StoreKeeps, CopyKeeps, WriteKeeps,
     WriteFailsKeeps, RebootKeeps
  DEF ParamNext
<1> QED
  BY <1>1, <1>2

\* The invariant has the types: a row on the screen is one of the table.
LEMMA ParamTyped == ParamInv => ParamTypeOK
<1> SUFFICES ASSUME ParamInv PROVE ParamTypeOK
  OBVIOUS
<1>1. shadow.open => shadow.row \in PRows /\ shadow.raw \in Values
  <2>1. CASE shadow = NoEdit
    BY <2>1 DEF NoEdit
  <2>2. CASE shadow \in [open : {TRUE}, row : PRows, raw : Values]
    BY <2>2
  <2> QED
    BY <2>1, <2>2 DEF ParamInv, ParamShape
<1> QED
  BY <1>1 DEF ParamInv, ParamShape, Sound, ParamTypeOK

\* For any table, any ranges and any interleaving of the setters: a row that
\* is out of range, in RAM or in NVS, is one of those the console checks by
\* comparing, and a nan was typed for it.  Radio and menu put none in, and an
\* edit that has copied such a row puts it back only when it has been turned
\* into range.
THEOREM ParamTypes == ParamSpec => []ParamTypeOK
  BY ParamStarts, ParamStays, ParamTyped, PTL DEF ParamSpec

\* With no setter under way NVS holds every row as it is, but for one stored
\* while the blob written last was in hand, after `prog default` and after a failed write.
THEOREM SavedByThen == ParamSpec => []SavedUnlessLate
<1>1. ParamInv => SavedUnlessLate
  BY DEF ParamInv, Cared, Saves, SavedUnlessLate, Busy
<1> QED
  BY ParamStarts, ParamStays, <1>1, PTL DEF ParamSpec

\* PARAM_SETs are carried out in the order of their admin_seq, each once.
THEOREM SetsInOrder == ParamSpec => AppliedInOrder
<1>1. ParamInv /\ [ParamNext]_pvars
        => [job["comms"].pc = "store" /\ job'["comms"].pc = "copy"
              => job["comms"].m > applied]_pvars
  <2> SUFFICES ASSUME ParamInv, ParamNext,
                      job["comms"].pc = "store", job'["comms"].pc = "copy"
               PROVE  job["comms"].m > applied
    OBVIOUS
  <2> QED
    BY DEF ParamInv, SetsOrdered
<1> QED
  BY ParamStarts, ParamStays, <1>1, PTL DEF ParamSpec, AppliedInOrder

-----------------------------------------------------------------------------
(* The five parts together.                                                *)

PartsInv ==
  /\ StatsInv /\ ParamInv /\ EncoderInv /\ Ranges /\ RegistryInv /\ Fits
  /\ TailerRanges

LEMMA PartsStart == MCInit => PartsInv
<1> SUFFICES ASSUME MCInit PROVE PartsInv
  OBVIOUS
<1>1. Init /\ ParamInit /\ EncoderInit /\ RegistryInit /\ TailerInit
  BY DEF MCInit
<1>2. StatsInv /\ ParamInv
  BY <1>1, StatsStarts, ParamStarts
<1>3. EncoderInv /\ Ranges
  BY <1>1, EncoderStarts, RangesStart
<1>4. Fits
  BY <1>1, RegistryAssumption DEF RegistryInit, Fits
<1>5. RegistryInv /\ TailerRanges
  BY <1>1, RegistryStarts, TailerRangesStart
<1> QED BY <1>2, <1>3, <1>4, <1>5 DEF PartsInv

\* Whichever part takes a step, each of the five takes one of its own or none.
LEMMA PartsStay == PartsInv /\ [MCNext]_MCvars => PartsInv'
<1> SUFFICES ASSUME PartsInv, [MCNext]_MCvars PROVE PartsInv'
  OBVIOUS
<1>1. /\ [Next]_vars /\ [ParamNext]_pvars /\ [EncoderNext]_evars
      /\ [RegistryNext]_rvars /\ [TailerNext]_tvars
  BY DEF MCNext, MCvars
<1>2. StatsInv' /\ ParamInv'
  BY <1>1, StatsStays, ParamStays DEF PartsInv
<1>3. EncoderInv' /\ Ranges'
  BY <1>1, EncoderStays, RangesStay DEF PartsInv
<1>4. RegistryInv' /\ Fits'
  BY <1>1, RegistryStays, FitsStay DEF PartsInv
<1>5. TailerRanges'
  BY <1>1, TailerRangesStay DEF PartsInv
<1> QED BY <1>2, <1>3, <1>4, <1>5 DEF PartsInv

\* Counters, tunables, encoder, registry and tailer keep their types, for any
\* bounds: no counter of samples or polls, entry of the registry or offset
\* into the log leaves its range, and no tunable but one the console was given
\* a nan for.
THEOREM PartsTyped == MCSpec => []TypesOK
<1>1. PartsInv => TypesOK
  BY ParamTyped, EncoderTyped, RegistryTyped, TailerTyped
  DEF PartsInv, StatsInv, TypesOK
<1> QED BY <1>1, PartsStart, PartsStay, PTL DEF MCSpec

=============================================================================
