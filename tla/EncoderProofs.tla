--------------------------- MODULE EncoderProofs ---------------------------
(***************************************************************************)
(* The encoder, for any debounce, any length of click and hold and any     *)
(* number of turns.                                                        *)
(*                                                                         *)
(* TurnsCounted is kept because s_ab is always the contacts at the knob's  *)
(* position, so that the table is asked about the edges there really were. *)
(* PressSpeaksOnce is kept because a press in progress has said nothing,   *)
(* and because a candidate for a press has been seen in as many samples as *)
(* are counted.                                                            *)
(***************************************************************************)
EXTENDS Encoder, FiniteSetTheorems, TLAPS

Counted ==
  /\ pos \in Int /\ raw \in Int /\ skips \in Nat
  /\ ab = Contacts(pos) /\ TurnsCounted

Pressing ==
  /\ {cand, stable} \subseteq {"up", "down"} /\ count \in Nat /\ low \in Nat
  /\ count <= Debounce
  /\ phase \in {"idle", "pressed", "held"} /\ held \in Nat
  /\ phase # "idle" => stable = "down"
  /\ cand = "down" /\ stable = "up" => low >= count
  /\ spoken \in {{}, {"click"}, {"hold"}}
  /\ phase = "pressed" => spoken = {}
  /\ phase = "pressed" /\ held = 0 => low >= Debounce

EncoderInv == Counted /\ Pressing

-----------------------------------------------------------------------------
(* The knob.                                                               *)

LEMMA ContactsOf ==
  ASSUME NEW p \in Int
  PROVE  /\ p % 4 = 0 => Contacts(p) = 0
         /\ p % 4 = 1 => Contacts(p) = 2
         /\ p % 4 = 2 => Contacts(p) = 3
         /\ p % 4 = 3 => Contacts(p) = 1
BY DEF Contacts

\* One edge is counted with its direction, none and two count for nothing,
\* and two are noticed.
LEMMA QuadIsTurn ==
  ASSUME NEW p \in Int, NEW d \in -2 .. 2
  PROVE  /\ d \in -1 .. 1 => k_quad(Contacts(p), Contacts(p + d)) = d
         /\ d \notin -1 .. 1 => /\ k_quad(Contacts(p), Contacts(p + d)) = 0
                                /\ Contacts(p) # Contacts(p + d)
<1> DEFINE q == p + d
           a == Contacts(p)
           b == Contacts(q)
<1>1. q \in Int /\ p % 4 \in 0 .. 3
  OBVIOUS
<1>2. /\ p % 4 = 0 => a = 0
      /\ p % 4 = 1 => a = 2
      /\ p % 4 = 2 => a = 3
      /\ p % 4 = 3 => a = 1
  BY ContactsOf
<1>3. /\ q % 4 = 0 => b = 0
      /\ q % 4 = 1 => b = 2
      /\ q % 4 = 2 => b = 3
      /\ q % 4 = 3 => b = 1
  BY <1>1, ContactsOf
<1>4. /\ k_quad(0, 0) = 0 /\ k_quad(0, 1) = -1 /\ k_quad(0, 2) = 1
      /\ k_quad(0, 3) = 0 /\ k_quad(1, 0) = 1 /\ k_quad(1, 1) = 0
      /\ k_quad(1, 2) = 0 /\ k_quad(1, 3) = -1 /\ k_quad(2, 0) = -1
      /\ k_quad(2, 1) = 0 /\ k_quad(2, 2) = 0 /\ k_quad(2, 3) = 1
      /\ k_quad(3, 0) = 0 /\ k_quad(3, 1) = 1 /\ k_quad(3, 2) = -1
      /\ k_quad(3, 3) = 0
  BY DEF k_quad
<1>5. /\ d = 0 => q % 4 = p % 4
      /\ d = 1 => q % 4 = (IF p % 4 = 3 THEN 0 ELSE (p % 4) + 1)
      /\ d = -1 => q % 4 = (IF p % 4 = 0 THEN 3 ELSE (p % 4) - 1)
      /\ d \in {-2, 2} => q % 4 = (IF p % 4 >= 2 THEN (p % 4) - 2 ELSE (p % 4) + 2)
  OBVIOUS
<1> HIDE DEF q, a, b
<1>6. d \in {-2, -1, 0, 1, 2} /\ p % 4 \in {0, 1, 2, 3}
  BY <1>1
<1>7. /\ d \in -1 .. 1 => k_quad(a, b) = d
      /\ d \notin -1 .. 1 => k_quad(a, b) = 0 /\ a # b
  <2>1. CASE d = 0
    BY <1>2, <1>3, <1>4, <1>5, <1>6, <2>1
  <2>2. CASE d = 1
    BY <1>2, <1>3, <1>4, <1>5, <1>6, <2>2
  <2>3. CASE d = -1
    BY <1>2, <1>3, <1>4, <1>5, <1>6, <2>3
  <2>4. CASE d \in {-2, 2}
    BY <1>2, <1>3, <1>4, <1>5, <1>6, <2>4
  <2> QED
    BY <1>6, <2>1, <2>2, <2>3, <2>4
<1> QED
  BY <1>7, Zenon DEF q, a, b

LEMMA KnobCounted ==
  ASSUME Counted, NEW d \in -2 .. 2, SampleKnob(d)
  PROVE  Counted'
<1> DEFINE k == k_quad(ab, Contacts(pos + d))
<1>1. /\ d \in -1 .. 1 => k = d
      /\ d \notin -1 .. 1 => k = 0 /\ ab # Contacts(pos + d)
  BY QuadIsTurn DEF Counted
<1>2. /\ pos' = pos + d /\ ab' = Contacts(pos + d) /\ raw' = raw + k
      /\ skips' = IF ab # Contacts(pos + d) /\ k = 0 THEN skips + 1 ELSE skips
  BY DEF SampleKnob
<1> HIDE DEF k
<1>3. k \in Int /\ ab' = Contacts(pos')
  BY <1>1, <1>2
<1>4. CASE d \in -1 .. 1
  BY <1>1, <1>2, <1>3, <1>4 DEF Counted, TurnsCounted
<1>5. CASE d \notin -1 .. 1
  BY <1>1, <1>2, <1>3, <1>5 DEF Counted, TurnsCounted
<1> QED
  BY <1>4, <1>5

-----------------------------------------------------------------------------
(* The switch.                                                             *)

LEMMA SwitchKept ==
  ASSUME Pressing, NEW level \in {"up", "down"}, NEW dt \in 1 .. 2,
         SampleSwitch(level, dt)
  PROVE  Pressing'
<1> DEFINE n     == Agreeing(level)
           turns == n >= Debounce /\ level # stable
           later == UpTo(held + dt, HoldMin)
           now   == IF turns THEN 0 ELSE later
           click == turns /\ level = "up" /\ phase = "pressed" /\ later >= ClickMin
           press == turns /\ level = "down"
           hold  == /\ ~turns /\ stable = "down" /\ phase = "pressed"
                    /\ now >= HoldMin
           said  == {s \in {"click", "hold"} :
                       (s = "click" /\ click) \/ (s = "hold" /\ hold)}
<1>1. /\ cand' = level /\ count' = n
      /\ low' = IF level = "down" THEN UpTo(low + 1, Debounce) ELSE 0
      /\ stable' = IF turns THEN level ELSE stable
      /\ IF turns /\ level = "up" THEN phase' = "idle"
         ELSE IF press \/ (stable = "down" /\ phase = "pressed")
              THEN phase' = IF now >= HoldMin THEN "held" ELSE "pressed"
              ELSE phase' = phase
      /\ held' = IF phase' = "pressed" THEN now ELSE 0
      /\ spoken' = IF press THEN said ELSE spoken \cup said
  BY DEF SampleSwitch, HoldPhase
<1>2. n \in Nat /\ n <= Debounce /\ (level = cand => n <= count + 1)
      /\ (level # cand => n = 1)
  BY EncoderAssumption DEF Pressing, Agreeing, UpTo
<1>3. later \in Nat /\ later > 0
  BY EncoderAssumption DEF Pressing, UpTo
<1>4. /\ low' \in Nat
      /\ level = "down" => low' >= Debounce \/ low' = low + 1
  BY <1>1, EncoderAssumption DEF Pressing, UpTo
<1> HIDE DEF n, later
<1>5. said = IF click THEN {"click"} ELSE IF hold THEN {"hold"} ELSE {}
  OBVIOUS
<1>6. click => turns /\ level = "up" /\ phase = "pressed"
  OBVIOUS
<1>7. hold => ~turns /\ phase = "pressed" /\ stable = "down" /\ now >= HoldMin
  OBVIOUS
<1> HIDE DEF click, hold, said
<1>8. CASE turns /\ level = "up"
  <2>1. phase' = "idle" /\ stable' = "up" /\ held' = 0 /\ cand' = "up"
    BY <1>1, <1>8
  <2>2. ~hold /\ spoken' \in {{}, {"click"}, {"hold"}}
    BY <1>1, <1>5, <1>6, <1>7, <1>8 DEF Pressing
  <2> QED
    BY <1>1, <1>2, <1>4, <2>1, <2>2 DEF Pressing
<1>9. CASE press
  <2>1. ~click /\ ~hold /\ now = 0
    BY <1>6, <1>7, <1>9
  <2>2. phase' = "pressed" /\ stable' = "down" /\ held' = 0 /\ spoken' = {}
    BY <1>1, <1>5, <1>9, <2>1, EncoderAssumption
  <2>3. low' >= Debounce
    BY <1>1, <1>2, <1>4, <1>9, EncoderAssumption DEF Pressing
  <2> QED
    BY <1>1, <1>2, <1>4, <1>9, <2>2, <2>3 DEF Pressing
<1>10. CASE ~turns
  <2>1. stable' = stable /\ now = later /\ ~click /\ ~press
    BY <1>1, <1>6, <1>10
  <2>2. cand' = "down" /\ stable' = "up" => low' >= count'
    BY <1>1, <1>2, <1>4, <2>1, EncoderAssumption DEF Pressing
  <2>3. CASE phase = "pressed"
    <3>1. stable = "down" /\ spoken = {}
      BY <2>3 DEF Pressing
    <3>2. phase' = IF later >= HoldMin THEN "held" ELSE "pressed"
      BY <1>1, <1>10, <2>1, <2>3, <3>1
    <3>3. spoken' = IF hold THEN {"hold"} ELSE {}
      BY <1>1, <1>5, <2>1, <3>1
    <3>4. hold => phase' = "held"
      BY <1>7, <2>1, <3>2
    <3>5. held' \in Nat /\ (phase' = "pressed" => held' > 0)
      BY <1>1, <1>3, <2>1
    <3> QED
      BY <1>1, <1>2, <1>4, <2>1, <2>2, <3>1, <3>2, <3>3, <3>4, <3>5
      DEF Pressing
  <2>4. CASE phase # "pressed"
    <3>1. phase' = phase /\ held' = 0 /\ spoken' = spoken
      BY <1>1, <1>5, <1>7, <1>10, <2>1, <2>4
    <3> QED
      BY <1>1, <1>2, <1>4, <2>1, <2>2, <2>4, <3>1 DEF Pressing
  <2> QED
    BY <2>3, <2>4
<1> QED
  BY <1>8, <1>9, <1>10

-----------------------------------------------------------------------------
LEMMA EncoderStarts == EncoderInit => EncoderInv
<1> SUFFICES ASSUME EncoderInit PROVE EncoderInv
  OBVIOUS
<1>1. Counted
  BY DEF EncoderInit, Counted, TurnsCounted
<1>2. Pressing
  BY EncoderAssumption DEF EncoderInit, Pressing
<1> QED
  BY <1>1, <1>2 DEF EncoderInv

LEMMA EncoderStays == EncoderInv /\ [EncoderNext]_evars => EncoderInv'
<1> SUFFICES ASSUME EncoderInv, [EncoderNext]_evars PROVE EncoderInv'
  OBVIOUS
<1>1. CASE Poll
  <2>1. Counted'
    BY <1>1, KnobCounted DEF Poll, EncoderInv
  <2>2. Pressing'
    BY <1>1, SwitchKept DEF Poll, EncoderInv
  <2> QED
    BY <2>1, <2>2 DEF EncoderInv
<1>2. CASE TakeSteps \/ Take \/ UNCHANGED evars
  <2>1. UNCHANGED <<knob, switch>>
    BY <1>2 DEF TakeSteps, Take, evars
  <2> QED
    BY <2>1 DEF knob, switch, EncoderInv, Counted, TurnsCounted, Pressing,
                Contacts
<1> QED
  BY <1>1, <1>2 DEF EncoderNext

\* What EncoderInv leaves open of the types.
Ranges ==
  /\ pos \in -MaxTurn .. MaxTurn /\ taken \in Int /\ skips \in 0 .. MaxSkips
  /\ held \in 0 .. HoldMin /\ low \in 0 .. Debounce
  /\ told \subseteq {"click", "hold"}

LEMMA RangesStart == EncoderInit => Ranges
  BY EncoderAssumption DEF EncoderInit, Ranges

LEMMA RangesStay == EncoderInv /\ Ranges /\ [EncoderNext]_evars => Ranges'
<1> SUFFICES ASSUME EncoderInv, Ranges, [EncoderNext]_evars PROVE Ranges'
  OBVIOUS
<1>1. CASE Poll
  <2>1. PICK d \in -2 .. 2 : SampleKnob(d)
    BY <1>1 DEF Poll
  <2>2. PICK level \in {"up", "down"}, dt \in 1 .. 2 : SampleSwitch(level, dt)
    BY <1>1 DEF Poll
  <2>3. pos' \in -MaxTurn .. MaxTurn /\ skips' \in 0 .. MaxSkips
    BY <2>1, EncoderAssumption DEF SampleKnob, Ranges
  <2>4. held' \in 0 .. HoldMin
    <3> DEFINE later == UpTo(held + dt, HoldMin)
    <3>1. later \in 0 .. HoldMin /\ 0 \in 0 .. HoldMin
      BY EncoderAssumption DEF Ranges, UpTo
    <3>2. held' = 0 \/ held' = later
      BY <2>2 DEF SampleSwitch
    <3> QED BY <3>1, <3>2
  <2>5. low' \in 0 .. Debounce
    BY <2>2, EncoderAssumption DEF SampleSwitch, UpTo, Ranges
  <2>6. told' \subseteq {"click", "hold"}
    BY <2>2 DEF SampleSwitch, Ranges
  <2>7. taken' \in Int
    BY <1>1 DEF Poll, Ranges
  <2> QED BY <2>3, <2>4, <2>5, <2>6, <2>7 DEF Ranges
<1>2. CASE TakeSteps
  <2>1. raw \in Int /\ taken \in Int
    BY DEF EncoderInv, Counted, Ranges
  <2>2. taken' \in Int
    BY <1>2, <2>1 DEF TakeSteps
  <2> QED BY <1>2, <2>2 DEF TakeSteps, Ranges, knob, switch
<1>3. CASE Take \/ UNCHANGED evars
  BY <1>3 DEF Take, evars, knob, switch, Ranges
<1> QED BY <1>1, <1>2, <1>3 DEF EncoderNext

\* The invariant and the ranges are the types, at every position of the knob.
LEMMA EncoderTyped == EncoderInv /\ Ranges => EncoderTypeOK
<1> SUFFICES ASSUME EncoderInv, Ranges PROVE EncoderTypeOK
  OBVIOUS
<1>1. ab \in 0 .. 3
  BY ContactsOf DEF EncoderInv, Counted
<1> QED BY <1>1 DEF EncoderInv, Counted, Pressing, Ranges, EncoderTypeOK

\* The count of the knob is off by two edges at most for each sample that was
\* counted as skipped, however long it is turned.
THEOREM TurnsAreCounted == EncoderSpec => []TurnsCounted
<1>1. EncoderInv => TurnsCounted
  BY DEF EncoderInv, Counted
<1> QED
  BY EncoderStarts, EncoderStays, <1>1, PTL DEF EncoderSpec

\* A press says a click or a hold and never both, and bounces are no presses,
\* whatever the debounce and the limits are.
THEOREM PressesSpeakOnce == EncoderSpec => []PressSpeaksOnce
<1>1. ASSUME EncoderInv
      PROVE  PressSpeaksOnce
  <2>1. Cardinality(spoken) <= 1
    <3>1. CASE spoken = {}
      BY <3>1, FS_EmptySet
    <3>2. CASE spoken = {"click"}
      <4>1. Cardinality({"click"}) = 1
        BY FS_Singleton, Zenon
      <4> QED
        BY <3>2, <4>1
    <3>3. CASE spoken = {"hold"}
      <4>1. Cardinality({"hold"}) = 1
        BY FS_Singleton, Zenon
      <4> QED
        BY <3>3, <4>1
    <3> QED
      BY <1>1, <3>1, <3>2, <3>3 DEF EncoderInv, Pressing
  <2> QED
    BY <1>1, <2>1 DEF EncoderInv, Pressing, PressSpeaksOnce
<1> QED
  BY EncoderStarts, EncoderStays, <1>1, PTL DEF EncoderSpec

=============================================================================
