---------------------------- MODULE InfluxTailer ----------------------------
(***************************************************************************)
(* The commit service's Influx tailer (server/commit-service): a thread    *)
(* that reads the JSONL file from an offset, posts what makes a point, and *)
(* saves the offset behind what it has read.  The MQTT thread appends; the *)
(* operator may move the file away, and the next append makes a new one.   *)
(*                                                                         *)
(* Offsets count lines.  Lines are numbers; those in Skipped make no       *)
(* point, nor does a line written behind one that a power cut left half:   *)
(* the two are one unreadable line.                                        *)
(***************************************************************************)
EXTENDS Naturals, Sequences

CONSTANTS
  MaxLines,    \* bound: lines ever appended
  Skipped,     \* lines without fields or without a time
  ReadCap,     \* INFLUX_READ_CAP, in lines
  MaxCuts,     \* bound: power cuts
  MaxMoves     \* bound: times the file is moved away

ASSUME TailerAssumption ==
  {MaxLines, ReadCap, MaxCuts, MaxMoves} \subseteq Nat /\ ReadCap > 0

VARIABLES
  file,      \* JSONL_PATH, its complete lines
  half,      \* its end: "none", or half a line: "now" being written, "cut" by
             \* a power cut, "glued" being written behind a cut one
  lines,     \* lines appended so far
  tpc,       \* the tailer: "collect", "post" or "save"
  off,       \* its offset, with the number of the file it is about (history)
  batch,     \* what it has collected, and the offset behind it
  saved_off, \* influx_tail.json
  points,    \* what InfluxDB has
  cuts, moves

tvars == <<file, half, lines, tpc, off, batch, saved_off, points, cuts, moves>>

Start == [n |-> 0, of |-> 0]

NoBatch == [points |-> {}, to |-> Start]

TailerInit ==
  /\ file = <<>> /\ half = "none" /\ lines = 0
  /\ tpc = "collect" /\ off = Start /\ batch = NoBatch
  /\ saved_off = Start /\ points = {} /\ cuts = 0 /\ moves = 0

TailerTypeOK ==
  /\ lines \in 0 .. MaxLines /\ Len(file) <= lines
  /\ half \in {"none", "now", "cut", "glued"}
  /\ tpc \in {"collect", "post", "save"}
  /\ {off, saved_off, batch.to} \subseteq [n : 0 .. MaxLines, of : 0 .. MaxMoves]
  /\ points \cup batch.points \subseteq 1 .. MaxLines

-----------------------------------------------------------------------------
\* _append_line: part of the line may be in the file before the whole is.
AppendBegins ==
  /\ lines < MaxLines /\ half \in {"none", "cut"}
  /\ half' = IF half = "none" THEN "now" ELSE "glued"
  /\ lines' = lines + 1
  /\ UNCHANGED <<file, tpc, off, batch, saved_off, points, cuts, moves>>

Unreadable == 0

AppendEnds ==
  /\ half \in {"now", "glued"} /\ half' = "none"
  /\ file' = Append(file, IF half = "now" THEN lines ELSE Unreadable)
  /\ UNCHANGED <<lines, tpc, off, batch, saved_off, points, cuts, moves>>

\* to_lp makes a point of the line.
MakesPoint(n) == n # Unreadable /\ n \notin Skipped

\* Where _collect begins: a file shorter than the offset is a new one.
From ==
  IF off.n = 0 \/ Len(file) < off.n THEN [n |-> 0, of |-> moves] ELSE off

\* The end of what one read takes, in complete lines.
ReadEnd ==
  IF From.n + ReadCap < Len(file) THEN From.n + ReadCap ELSE Len(file)

\* Mutant: a line that is half there is read as well.
CollectHalf ==
  /\ tpc = "collect"
  /\ LET p == {n \in {file[i] : i \in From.n + 1 .. ReadEnd} : MakesPoint(n)}
         e == IF ReadEnd < MaxLines /\ half # "none" THEN ReadEnd + 1 ELSE ReadEnd
     IN  p # {} /\ batch' = [points |-> p, to |-> [n |-> e, of |-> From.of]]
  /\ tpc' = "post"
  /\ UNCHANGED <<file, half, lines, off, saved_off, points, cuts, moves>>

\* _collect; without a point in what was read, run begins anew.
Collect ==
  /\ tpc = "collect"
  /\ LET p == {n \in {file[i] : i \in From.n + 1 .. ReadEnd} : MakesPoint(n)}
     IN  p # {} /\ batch' = [points |-> p, to |-> [n |-> ReadEnd, of |-> From.of]]
  /\ tpc' = "post"
  /\ UNCHANGED <<file, half, lines, off, saved_off, points, cuts, moves>>

\* _post, a request that may fail, with its effect or without: then run
\* collects again from the same offset.
Post ==
  /\ tpc = "post"
  /\ \/ points' = points \cup batch.points /\ tpc' = "save" /\ UNCHANGED batch
     \/ points' = points \cup batch.points /\ tpc' = "collect" /\ batch' = NoBatch
     \/ UNCHANGED points /\ tpc' = "collect" /\ batch' = NoBatch
  /\ UNCHANGED <<file, half, lines, off, saved_off, cuts, moves>>

SaveOffset ==
  /\ tpc = "save" /\ tpc' = "collect"
  /\ off' = batch.to /\ saved_off' = batch.to /\ batch' = NoBatch
  /\ UNCHANGED <<file, half, lines, points, cuts, moves>>

\* Power is cut, and the service starts again: _load_offset.
PowerCut ==
  /\ cuts < MaxCuts /\ cuts' = cuts + 1
  /\ half' = IF half = "none" THEN "none" ELSE "cut"
  /\ tpc' = "collect" /\ off' = saved_off /\ batch' = NoBatch
  /\ UNCHANGED <<file, lines, saved_off, points, moves>>

\* The file is moved away; a line that is being written ends in it.
MoveAway ==
  /\ moves < MaxMoves /\ moves' = moves + 1
  /\ file' = <<>> /\ half' = "none"
  /\ UNCHANGED <<lines, tpc, off, batch, saved_off, points, cuts>>

TailerNext ==
  \/ AppendBegins \/ AppendEnds \/ Collect \/ Post \/ SaveOffset
  \/ PowerCut \/ MoveAway

TailerSpec == TailerInit /\ [][TailerNext]_tvars

-----------------------------------------------------------------------------
\* "A pure projection": what makes a point and lies before the saved offset
\* is in InfluxDB, whatever request failed and whenever the power went: it is
\* never read again.  An offset that is about a file that was moved away says
\* nothing of the new one (which may have grown past it unnoticed).
NothingSkipped ==
  saved_off.of = moves =>
    \A i \in DOMAIN file :
      i <= saved_off.n /\ MakesPoint(file[i]) => file[i] \in points

=============================================================================
