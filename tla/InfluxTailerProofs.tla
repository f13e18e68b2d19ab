------------------------ MODULE InfluxTailerProofs -------------------------
(***************************************************************************)
(* What InfluxTailer promises of every line, for any length of the file,   *)
(* any cap of a read and any number of power cuts and moves.               *)
(*                                                                         *)
(* NothingSkipped speaks of the saved offset; it is kept because the same  *)
(* holds of the offset in memory and of the one behind the batch in hand,  *)
(* and because no offset about the present file lies behind its end.       *)
(***************************************************************************)
EXTENDS InfluxTailer, TLAPS

Offsets == [n : Nat, of : Nat]

\* What lies before offset o of the present file and makes a point is in S.
Behind(o, S) ==
  o.of = moves =>
    \A i \in DOMAIN file : i <= o.n /\ MakesPoint(file[i]) => file[i] \in S

\* An offset about the present file is in it.
InFile(o) == o.of <= moves /\ (o.of = moves => o.n <= Len(file))

TailerShape ==
  /\ file \in Seq(Nat) /\ lines \in Nat /\ moves \in Nat /\ cuts \in Nat
  /\ off \in Offsets /\ saved_off \in Offsets
  /\ batch \in [points : SUBSET Nat, to : Offsets]
  /\ points \in SUBSET Nat
  /\ tpc \in {"collect", "post", "save"}

BatchInHand ==
  /\ tpc = "post" => Behind(batch.to, points \cup batch.points)
  /\ tpc = "save" => Behind(batch.to, points)

TailerInv ==
  /\ TailerShape
  /\ InFile(off) /\ InFile(saved_off) /\ InFile(batch.to)
  /\ Behind(off, points) /\ Behind(saved_off, points) /\ BatchInHand

-----------------------------------------------------------------------------
(* What the handlers are built from.                                       *)

\* _collect begins in the present file or where the offset is, and what it
\* reads ends in the file.
LEMMA ReadsInFile ==
  ASSUME TailerInv
  PROVE  /\ From \in Offsets /\ From.of <= moves /\ From.n <= Len(file)
         /\ ReadEnd \in Nat /\ ReadEnd <= Len(file)
         /\ From.of = moves => Behind(From, points)
<1>1. Len(file) \in Nat
  BY DEF TailerInv, TailerShape
<1>2. CASE off.n = 0 \/ Len(file) < off.n
  <2>1. From = [n |-> 0, of |-> moves]
    BY <1>2 DEF From
  <2>2. Behind(From, points)
    BY <2>1 DEF Behind, TailerInv, TailerShape
  <2> QED
    BY <1>1, <2>1, <2>2, TailerAssumption DEF TailerInv, TailerShape, Offsets, ReadEnd
<1>3. CASE ~(off.n = 0 \/ Len(file) < off.n)
  <2>1. From = off
    BY <1>3 DEF From
  <2> QED
    BY <1>1, <1>3, <2>1, TailerAssumption
    DEF TailerInv, TailerShape, Offsets, ReadEnd, InFile
<1> QED
  BY <1>2, <1>3

\* More points do no harm.
LEMMA BehindGrows ==
  ASSUME NEW o, NEW S, NEW T, Behind(o, S), S \subseteq T
  PROVE  Behind(o, T)
BY DEF Behind

\* A line added at the end is behind no offset.
LEMMA AppendIsAhead ==
  ASSUME NEW o \in Offsets, NEW S, NEW line \in Nat, file \in Seq(Nat),
         InFile(o), Behind(o, S),
         file' = Append(file, line), UNCHANGED moves
  PROVE  Behind(o, S)' /\ InFile(o)'
<1>1. Len(file') = Len(file) + 1 /\ DOMAIN file' = 1 .. Len(file) + 1
  OBVIOUS
<1>2. \A i \in 1 .. Len(file) : file'[i] = file[i]
  OBVIOUS
<1>3. InFile(o)'
  BY <1>1 DEF InFile, Offsets
<1>4. Behind(o, S)'
  <2> SUFFICES ASSUME o.of = moves, NEW i \in DOMAIN file', i <= o.n,
                      MakesPoint(file'[i])
               PROVE  file'[i] \in S
    BY DEF Behind
  <2>1. i \in 1 .. Len(file)
    BY <1>1 DEF InFile, Offsets
  <2> QED
    BY <1>2, <2>1 DEF Behind, MakesPoint
<1> QED
  BY <1>3, <1>4

-----------------------------------------------------------------------------
(* The actions.                                                            *)

LEMMA TailerStarts == TailerInit => TailerInv
<1> SUFFICES ASSUME TailerInit PROVE TailerInv
  OBVIOUS
<1>1. TailerShape
  BY DEF TailerInit, TailerShape, Offsets, Start, NoBatch
<1>2. InFile(off) /\ InFile(saved_off) /\ InFile(batch.to)
  BY DEF TailerInit, InFile, Start, NoBatch
<1>3. Behind(off, points) /\ Behind(saved_off, points)
  BY DEF TailerInit, Behind, Start
<1> QED
  BY <1>1, <1>2, <1>3 DEF TailerInv, BatchInHand, TailerInit

LEMMA AppendKeeps ==
  ASSUME TailerInv, AppendBegins \/ AppendEnds
  PROVE  TailerInv'
<1>1. CASE AppendBegins
  BY <1>1 DEF TailerInv, AppendBegins, TailerShape, InFile, Behind, BatchInHand, MakesPoint
<1>2. CASE AppendEnds
  <2>1. PICK line \in Nat : file' = Append(file, line)
    BY <1>2 DEF AppendEnds, TailerInv, TailerShape, Unreadable
  <2> USE DEF TailerInv, AppendEnds
  <2>2. TailerShape'
    BY <1>2, <2>1 DEF TailerShape
  <2>3. /\ {off, saved_off, batch.to} \subseteq Offsets
        /\ file \in Seq(Nat)
    BY DEF TailerShape
  <2>4. UNCHANGED <<off, saved_off, batch, points, tpc, moves>>
    BY <1>2
  <2>5. Behind(off, points)' /\ InFile(off)'
    BY <2>1, <2>3, <2>4, AppendIsAhead DEF Behind, InFile
  <2>6. Behind(saved_off, points)' /\ InFile(saved_off)'
    BY <2>1, <2>3, <2>4, AppendIsAhead DEF Behind, InFile
  <2>7. InFile(batch.to)'
    BY <2>1, <2>3, <2>4 DEF InFile, Offsets
  <2>8. BatchInHand'
    <3>1. ASSUME tpc = "post"
          PROVE  Behind(batch.to, points \cup batch.points)'
      BY <3>1, <2>1, <2>3, <2>4, AppendIsAhead DEF Behind, BatchInHand
    <3>2. ASSUME tpc = "save" PROVE Behind(batch.to, points)'
      BY <3>2, <2>1, <2>3, <2>4, AppendIsAhead DEF Behind, BatchInHand
    <3> QED
      BY <2>4, <3>1, <3>2 DEF BatchInHand
  <2> QED
    BY <2>2, <2>5, <2>6, <2>7, <2>8
<1> QED
  BY <1>1, <1>2

LEMMA CollectKeeps ==
  ASSUME TailerInv, Collect
  PROVE  TailerInv'
<1> DEFINE p == {n \in {file[i] : i \in From.n + 1 .. ReadEnd} : MakesPoint(n)}
<1> USE DEF TailerInv
<1>1. /\ batch' = [points |-> p, to |-> [n |-> ReadEnd, of |-> From.of]]
      /\ tpc' = "post"
      /\ UNCHANGED <<file, lines, off, saved_off, points, cuts, moves>>
  BY DEF Collect
<1>2. /\ From \in Offsets /\ From.of <= moves /\ From.n <= Len(file)
      /\ ReadEnd \in Nat /\ ReadEnd <= Len(file)
      /\ From.of = moves => Behind(From, points)
  BY ReadsInFile
<1>3. p \subseteq Nat
  <2>1. From.n + 1 .. ReadEnd \subseteq DOMAIN file
    BY <1>2 DEF TailerShape, Offsets
  <2> QED
    BY <2>1 DEF TailerShape
<1>4. batch' \in [points : SUBSET Nat, to : Offsets]
  BY <1>1, <1>2, <1>3 DEF Offsets
<1>5. TailerShape'
  BY <1>1, <1>4 DEF TailerShape
<1>6. InFile(batch.to)'
  BY <1>1, <1>2 DEF InFile, TailerShape
<1>7. Behind(batch.to, points \cup batch.points)'
  <2> SUFFICES ASSUME From.of = moves, NEW i \in DOMAIN file, i <= ReadEnd,
                      MakesPoint(file[i])
               PROVE  file[i] \in points \cup p
    BY <1>1 DEF Behind, MakesPoint
  <2>1. CASE i <= From.n
    BY <1>2, <2>1 DEF Behind
  <2>2. CASE ~(i <= From.n)
    <3>1. i \in From.n + 1 .. ReadEnd
      BY <1>2, <2>2 DEF TailerShape, Offsets
    <3> QED
      BY <3>1
  <2> QED
    BY <2>1, <2>2
<1>8. /\ InFile(off)' /\ InFile(saved_off)'
      /\ Behind(off, points)' /\ Behind(saved_off, points)'
  BY <1>1 DEF InFile, Behind, MakesPoint
<1> QED
  BY <1>1, <1>5, <1>6, <1>7, <1>8 DEF BatchInHand

LEMMA PostKeeps ==
  ASSUME TailerInv, Post
  PROVE  TailerInv'
<1> USE DEF TailerInv
<1>1. /\ UNCHANGED <<file, lines, off, saved_off, cuts, moves>>
      /\ points \subseteq points' /\ points' \subseteq points \cup batch.points
      /\ batch' \in {batch, NoBatch}
      /\ \/ /\ tpc' = "save" /\ batch' = batch
            /\ points' = points \cup batch.points
         \/ tpc' = "collect"
  BY DEF Post
<1>2. TailerShape'
  BY <1>1 DEF TailerShape, NoBatch, Start, Offsets
<1>3. /\ InFile(off)' /\ InFile(saved_off)'
  BY <1>1 DEF InFile
<1>4. InFile(batch.to)'
  BY <1>1 DEF InFile, NoBatch, Start, TailerShape
<1>5. Behind(off, points') /\ Behind(saved_off, points')
  BY <1>1, BehindGrows
<1>6. Behind(off, points)' /\ Behind(saved_off, points)'
  BY <1>1, <1>5 DEF Behind, MakesPoint
<1>7. BatchInHand'
  <2>1. tpc = "post"
    BY DEF Post
  <2> QED
    BY <1>1, <2>1 DEF BatchInHand, Behind, MakesPoint
<1> QED
  BY <1>2, <1>3, <1>4, <1>6, <1>7

LEMMA SaveKeeps ==
  ASSUME TailerInv, SaveOffset
  PROVE  TailerInv'
<1> USE DEF TailerInv, SaveOffset
<1>1. TailerShape'
  BY DEF TailerShape, NoBatch, Start, Offsets
<1>2. InFile(off)' /\ InFile(saved_off)'
  BY DEF InFile
<1>3. InFile(batch.to)'
  BY DEF InFile, NoBatch, Start, TailerShape
<1>4. Behind(off, points)' /\ Behind(saved_off, points)'
  BY DEF BatchInHand, Behind, MakesPoint
<1> QED
  BY <1>1, <1>2, <1>3, <1>4 DEF BatchInHand

LEMMA PowerCutKeeps ==
  ASSUME TailerInv, PowerCut
  PROVE  TailerInv'
<1> USE DEF TailerInv, PowerCut
<1>1. TailerShape'
  BY DEF TailerShape, NoBatch, Start, Offsets
<1>2. InFile(off)' /\ InFile(saved_off)'
  BY DEF InFile
<1>3. InFile(batch.to)'
  BY DEF InFile, NoBatch, Start, TailerShape
<1>4. Behind(off, points)' /\ Behind(saved_off, points)'
  BY DEF Behind, MakesPoint
<1> QED
  BY <1>1, <1>2, <1>3, <1>4 DEF BatchInHand

LEMMA MoveKeeps ==
  ASSUME TailerInv, MoveAway
  PROVE  TailerInv'
<1> USE DEF TailerInv, MoveAway
<1>1. TailerShape'
  BY DEF TailerShape
<1>2. InFile(off)' /\ InFile(saved_off)' /\ InFile(batch.to)'
  BY DEF InFile, TailerShape, Offsets
<1>3. DOMAIN file' = {}
  OBVIOUS
<1>4. Behind(off, points)' /\ Behind(saved_off, points)' /\ BatchInHand'
  BY <1>3 DEF Behind, BatchInHand
<1> QED
  BY <1>1, <1>2, <1>4

\* The types: offsets and points are about lines there have been.
Placed == [n : 0 .. MaxLines, of : 0 .. MaxMoves]

TailerRanges ==
  /\ lines \in 0 .. MaxLines /\ moves \in 0 .. MaxMoves
  /\ file \in Seq(0 .. MaxLines) /\ Len(file) <= lines
  /\ half \in {"none", "now", "cut", "glued"}
  /\ half \in {"now", "glued"} => Len(file) < lines
  /\ tpc \in {"collect", "post", "save"}
  /\ off \in Placed /\ saved_off \in Placed
  /\ batch \in [points : SUBSET (1 .. MaxLines), to : Placed]
  /\ points \in SUBSET (1 .. MaxLines)

LEMMA TailerRangesStart == TailerInit => TailerRanges
<1> SUFFICES ASSUME TailerInit PROVE TailerRanges
  OBVIOUS
<1>1. Start \in Placed
  BY TailerAssumption DEF Start, Placed
<1>2. NoBatch \in [points : SUBSET (1 .. MaxLines), to : Placed]
  BY <1>1 DEF NoBatch
<1> QED BY <1>1, <1>2, TailerAssumption DEF TailerInit, TailerRanges

LEMMA AppendInRange ==
  ASSUME TailerRanges, AppendBegins \/ AppendEnds PROVE TailerRanges'
<1>1. CASE AppendBegins
  BY <1>1, TailerAssumption DEF AppendBegins, TailerRanges
<1>2. CASE AppendEnds
  <2> DEFINE l == IF half = "now" THEN lines ELSE Unreadable
  <2>1. l \in 0 .. MaxLines
    BY TailerAssumption DEF TailerRanges, Unreadable
  <2>2. file' = Append(file, l) /\ half' = "none"
        /\ UNCHANGED <<lines, tpc, off, batch, saved_off, points, moves>>
    BY <1>2 DEF AppendEnds
  <2> HIDE DEF l
  <2>3. file' \in Seq(0 .. MaxLines) /\ Len(file') = Len(file) + 1
    BY <2>1, <2>2 DEF TailerRanges
  <2>4. Len(file) < lines /\ Len(file) \in Nat
    BY <1>2 DEF AppendEnds, TailerRanges
  <2>5. Len(file') <= lines'
    BY <2>2, <2>3, <2>4, TailerAssumption DEF TailerRanges
  <2> QED BY <2>2, <2>3, <2>5 DEF TailerRanges
<1> QED BY <1>1, <1>2

LEMMA CollectInRange ==
  ASSUME TailerRanges, Collect PROVE TailerRanges'
<1> DEFINE p == {n \in {file[i] : i \in From.n + 1 .. ReadEnd} : MakesPoint(n)}
           b == [points |-> p, to |-> [n |-> ReadEnd, of |-> From.of]]
<1>1. batch' = b /\ tpc' = "post"
      /\ UNCHANGED <<file, half, lines, off, saved_off, points, moves>>
  BY DEF Collect
<1>2. Len(file) \in Nat /\ Len(file) <= MaxLines
  BY TailerAssumption DEF TailerRanges
<1>3. From.n \in Nat /\ From.of \in 0 .. MaxMoves
  BY DEF From, TailerRanges, Placed
<1>4. ReadEnd \in Nat /\ ReadEnd <= Len(file)
  BY <1>2, <1>3, TailerAssumption DEF ReadEnd
<1>5. p \subseteq 1 .. MaxLines
  <2> SUFFICES ASSUME NEW i \in From.n + 1 .. ReadEnd, MakesPoint(file[i])
               PROVE  file[i] \in 1 .. MaxLines
    OBVIOUS
  <2>1. i \in 1 .. Len(file)
    BY <1>2, <1>3, <1>4
  <2>2. file[i] \in 0 .. MaxLines
    <3> DEFINE T == 0 .. MaxLines
    <3>1. file \in Seq(T)
      BY DEF TailerRanges
    <3> HIDE DEF T
    <3>2. file[i] \in T
      BY <2>1, <3>1
    <3> QED BY <3>2 DEF T
  <2>3. file[i] # 0
    BY DEF MakesPoint, Unreadable
  <2> QED BY <2>2, <2>3
<1>6. [n |-> ReadEnd, of |-> From.of] \in Placed
  BY <1>2, <1>3, <1>4, TailerAssumption DEF Placed
<1> HIDE DEF p
<1>7. b \in [points : SUBSET (1 .. MaxLines), to : Placed]
  BY <1>5, <1>6
<1> QED BY <1>1, <1>7 DEF TailerRanges

LEMMA TailerRangesStay == TailerRanges /\ [TailerNext]_tvars => TailerRanges'
<1> SUFFICES ASSUME TailerRanges, [TailerNext]_tvars PROVE TailerRanges'
  OBVIOUS
<1>1. Start \in Placed
  BY TailerAssumption DEF Start, Placed
<1>2. NoBatch \in [points : SUBSET (1 .. MaxLines), to : Placed]
  BY <1>1 DEF NoBatch
<1>3. CASE AppendBegins \/ AppendEnds
  BY <1>3, AppendInRange
<1>4. CASE Collect
  BY <1>4, CollectInRange
<1>5. CASE Post
  BY <1>2, <1>5 DEF Post, TailerRanges
<1>6. CASE SaveOffset
  BY <1>2, <1>6 DEF SaveOffset, TailerRanges
<1>7. CASE PowerCut
  BY <1>2, <1>7 DEF PowerCut, TailerRanges
<1>8. CASE MoveAway
  <2>1. file' \in Seq(0 .. MaxLines) /\ Len(file') = 0
    BY <1>8 DEF MoveAway
  <2>2. moves' \in 0 .. MaxMoves
    BY <1>8, TailerAssumption DEF MoveAway, TailerRanges
  <2> QED BY <1>8, <2>1, <2>2 DEF MoveAway, TailerRanges
<1>9. CASE UNCHANGED tvars
  BY <1>9 DEF tvars, TailerRanges
<1> QED BY <1>3, <1>4, <1>5, <1>6, <1>7, <1>8, <1>9 DEF TailerNext

LEMMA TailerTyped == TailerRanges => TailerTypeOK
<1> SUFFICES ASSUME TailerRanges PROVE TailerTypeOK
  OBVIOUS
<1>1. off \in Placed /\ saved_off \in Placed /\ batch.to \in Placed
      /\ batch.points \subseteq 1 .. MaxLines
  BY DEF TailerRanges
<1> QED BY <1>1 DEF TailerRanges, TailerTypeOK, Placed

-----------------------------------------------------------------------------
\* The projection is complete: what lies before the saved offset is in
\* InfluxDB, for every file, cap, power cut and failed request.
THEOREM ProjectionComplete == TailerSpec => []NothingSkipped
<1>1. TailerInv /\ [TailerNext]_tvars => TailerInv'
  <2> SUFFICES ASSUME TailerInv, [TailerNext]_tvars PROVE TailerInv'
    OBVIOUS
  <2>1. CASE UNCHANGED tvars
    BY <2>1 DEF tvars, TailerInv, TailerShape, InFile, Behind, BatchInHand, MakesPoint
  <2> QED
    BY <2>1, AppendKeeps, CollectKeeps, PostKeeps, SaveKeeps, PowerCutKeeps,
       MoveKeeps DEF TailerNext
<1>2. TailerInv => NothingSkipped
  BY DEF TailerInv, Behind, NothingSkipped
<1> QED
  BY TailerStarts, <1>1, <1>2, PTL DEF TailerSpec

=============================================================================
