--------------------------- MODULE DeliveryProofs ---------------------------
(***************************************************************************)
(* Theorems about Delivery, for every ring size, frame size, queue length  *)
(* and number of faults.  In this order:                                   *)
(*   - what the operations of the ring (comms.c) and the interpolation of  *)
(*     stamps return;                                                      *)
(*   - TypeInv, the type invariant, which also says that the ring is       *)
(*     strictly rising with gaps that never grow towards its newest entry; *)
(*   - OrderInv, which keeps the boot sessions in order, and with it that  *)
(*     the log has no duplicate but a torn line;                           *)
(*   - CustodyInv, which follows every watermark back to the log, and with *)
(*     it that an acknowledged sample is settled and that Delivery         *)
(*     implements Custody.                                                 *)
(* Each invariant is kept by a lemma per step, which rests on a lemma that *)
(* says what the step does.                                                *)
(***************************************************************************)
EXTENDS Delivery, SequenceTheorems, WellFoundedInduction, TLAPS

-----------------------------------------------------------------------------
\* The ring of comms.c and the frames cut from it.
Rising(s) == \A i, j \in DOMAIN s : i < j => s[i] < s[j]

Thinning(s) ==
  \A i \in 1 .. Len(s) - 2 : s[i + 2] - s[i + 1] <= s[i + 1] - s[i]

IsPiece(S, s, a, b, t) ==
  /\ t \in Seq(S) /\ Len(t) = b - a + 1
  /\ Rising(t) /\ Thinning(t)
  /\ Last(t) = s[b]
  /\ ToSet(t) = {s[i] : i \in a .. b}

\* A piece of a rising, thinning sequence is one.
LEMMA PieceOf ==
  ASSUME NEW S, S \subseteq Nat, NEW s \in Seq(S), Rising(s), Thinning(s),
         NEW a \in 1 .. Len(s), NEW b \in 1 .. Len(s), a <= b,
         NEW t, t = SubSeq(s, a, b)
  PROVE  IsPiece(S, s, a, b, t)
<1>1. t \in Seq(S) /\ Len(t) = b - a + 1
  OBVIOUS
<1>2. \A i \in 1 .. Len(t) : t[i] = s[i + a - 1]
  OBVIOUS
<1>3. DOMAIN t = 1 .. Len(t) /\ DOMAIN s = 1 .. Len(s)
  BY <1>1
<1>4. \A i \in 1 .. Len(t) : i + a - 1 \in 1 .. Len(s)
  BY <1>1
<1>5. Rising(t)
  <2>. SUFFICES ASSUME NEW i \in 1 .. Len(t), NEW j \in 1 .. Len(t), i < j
                PROVE  t[i] < t[j]
    BY <1>3 DEF Rising
  <2>1. i + a - 1 < j + a - 1
    BY <1>1
  <2>. QED BY <2>1, <1>2, <1>3, <1>4 DEF Rising
<1>6. Thinning(t)
  <2>. SUFFICES ASSUME NEW i \in 1 .. Len(t) - 2
                PROVE  t[i + 2] - t[i + 1] <= t[i + 1] - t[i]
    BY DEF Thinning
  <2>. DEFINE k == i + a - 1
  <2>1. k \in 1 .. Len(s) - 2
    BY <1>1
  <2>2. t[i] = s[k] /\ t[i + 1] = s[k + 1] /\ t[i + 2] = s[k + 2]
    <3>1. i \in 1 .. Len(t) /\ i + 1 \in 1 .. Len(t) /\ i + 2 \in 1 .. Len(t)
      BY <1>1
    <3>2. (i + 1) + a - 1 = k + 1 /\ (i + 2) + a - 1 = k + 2
      OBVIOUS
    <3>. QED BY <3>1, <3>2, <1>2
  <2>. HIDE DEF k
  <2>. QED BY <2>1, <2>2 DEF Thinning
<1>7. Last(t) = s[b]
  <2>1. Len(t) \in 1 .. Len(t) /\ Len(t) + a - 1 = b
    BY <1>1
  <2>. QED BY <2>1, <1>2 DEF Last
<1>8. ToSet(t) = {s[i] : i \in a .. b}
  <2>1. ASSUME NEW i \in 1 .. Len(t) PROVE t[i] \in {s[k] : k \in a .. b}
    <3>1. i + a - 1 \in a .. b
      BY <1>1
    <3>. QED BY <3>1, <1>2
  <2>2. ASSUME NEW k \in a .. b PROVE \E i \in 1 .. Len(t) : t[i] = s[k]
    <3>1. k - a + 1 \in 1 .. Len(t) /\ (k - a + 1) + a - 1 = k
      BY <1>1
    <3>. QED BY <3>1, <1>2
  <2>3. ToSet(t) = {t[i] : i \in 1 .. Len(t)}
    BY <1>3 DEF ToSet
  <2>4. ToSet(t) \subseteq {s[k] : k \in a .. b}
    BY <2>1, <2>3
  <2>5. {s[k] : k \in a .. b} \subseteq ToSet(t)
    BY <2>2, <2>3
  <2>. QED BY <2>4, <2>5
<1>. QED BY <1>1, <1>5, <1>6, <1>7, <1>8 DEF IsPiece

\* A set of naturals that is not empty has a least member ...
LEMMA LeastExists ==
  ASSUME NEW S, S \subseteq Nat, S # {}
  PROVE  \E x \in S : \A y \in S : x <= y
<1>1. PICK x \in S : \A y \in S : ~ (<<y, x>> \in OpToRel(<, Nat))
  BY NatLessThanWellFounded, WFMin, Zenon
<1>2. \A y \in S : ~ (y < x)
  BY <1>1 DEF OpToRel
<1>. QED BY <1>2

\* ... which Min finds.
LEMMA LeastOf ==
  ASSUME NEW S, S \subseteq Nat, S # {}
  PROVE  Min(S) \in S /\ \A y \in S : Min(S) <= y
BY LeastExists DEF Min

\* The empty ring is a track.
LEMMA EmptyTrack ==
  ASSUME NEW S
  PROVE  <<>> \in Seq(S) /\ Rising(<<>>) /\ Thinning(<<>>) /\ ToSet(<<>>) = {}
BY DEF Rising, Thinning, ToSet

IsTrimmed(S, s, w, t) ==
  /\ t \in Seq(S) /\ Rising(t) /\ Thinning(t) /\ Len(t) <= Len(s)
  /\ t # <<>> => s # <<>> /\ Last(t) = Last(s)
  /\ ToSet(t) = {c \in ToSet(s) : c > w}

\* fifo_trim keeps what is newer than the watermark, and nothing else, in order.
LEMMA TrimKeeps ==
  ASSUME NEW S, S \subseteq Nat, NEW s \in Seq(S), Rising(s), Thinning(s),
         NEW w \in Int, NEW t, t = fifo_trim(s, w)
  PROVE  IsTrimmed(S, s, w, t)
<1>. DEFINE above == {i \in DOMAIN s : s[i] > w}
<1>1. DOMAIN s = 1 .. Len(s) /\ Len(s) \in Nat /\ \A i \in 1 .. Len(s) : s[i] \in Nat
  <2>1. DOMAIN s = 1 .. Len(s) /\ Len(s) \in Nat /\ \A i \in 1 .. Len(s) : s[i] \in S
    OBVIOUS
  <2>. QED BY <2>1
<1>2. CASE above = {}
  <2>1. t = <<>>
    BY <1>2 DEF fifo_trim
  <2>2. {c \in ToSet(s) : c > w} = {}
    BY <1>2 DEF ToSet
  <2>3. /\ t \in Seq(S) /\ Rising(t) /\ Thinning(t) /\ ToSet(t) = {}
    BY <2>1, EmptyTrack, Zenon
  <2>4. Len(t) <= Len(s)
    BY <2>1, <1>1
  <2>. QED BY <2>1, <2>2, <2>3, <2>4 DEF IsTrimmed
<1>3. CASE above # {}
  <2>. DEFINE a == Min(above)
              n == Len(s)
  <2>1. a \in above /\ \A i \in above : a <= i
    <3>1. above \subseteq Nat
      BY <1>1
    <3>. QED BY <3>1, <1>3, LeastOf
  <2>2. t = SubSeq(s, a, n)
    BY <1>3 DEF fifo_trim
  <2>. HIDE DEF a
  <2>3. a \in 1 .. n /\ n \in 1 .. n /\ a <= n
    BY <1>1, <2>1
  <2>4. /\ t \in Seq(S) /\ Len(t) = n - a + 1 /\ Rising(t) /\ Thinning(t)
        /\ Last(t) = s[n] /\ ToSet(t) = {s[i] : i \in a .. n}
    <3>1. IsPiece(S, s, a, n, t)
      BY <2>2, <2>3, PieceOf, Zenon
    <3>. QED BY <3>1 DEF IsPiece
  <2>5. ASSUME NEW i \in 1 .. n PROVE s[i] > w <=> i \in a .. n
    <3>1. i < a => ~ (s[i] > w)
      BY <2>1, <2>3, <1>1
    <3>2. i > a => s[i] > w
      <4>1. i > a => s[a] < s[i]
        BY <2>3, <1>1 DEF Rising
      <4>. QED BY <4>1, <2>1, <2>3, <1>1
    <3>. QED BY <3>1, <3>2, <2>1, <2>3, <1>1
  <2>6. ToSet(t) = {c \in ToSet(s) : c > w}
    <3>1. ToSet(s) = {s[i] : i \in 1 .. n}
      BY <1>1 DEF ToSet
    <3>2. a .. n \subseteq 1 .. n
      BY <2>3
    <3>. QED BY <3>1, <3>2, <2>4, <2>5
  <2>7. s # <<>> /\ Last(s) = s[n]
    BY <2>3, <1>1 DEF Last
  <2>8. Len(t) <= Len(s)
    BY <2>3, <2>4
  <2>. QED BY <2>4, <2>6, <2>7, <2>8 DEF IsTrimmed
<1>. QED BY <1>2, <1>3

IsFrameOf(S, s, t) ==
  /\ t \in Seq(S) /\ Rising(t) /\ Thinning(t)
  /\ Len(t) \in 1 .. FrameSamples
  /\ ToSet(t) \subseteq ToSet(s)
  /\ \A c \in ToSet(s) : c <= Last(t) => c \in ToSet(t)
  /\ Last(t) <= Last(s)

\* A frame is the oldest part of the ring, with nothing left out of its span.
LEMMA FrameOf ==
  ASSUME NEW S, S \subseteq Nat, NEW s \in Seq(S), Rising(s), Thinning(s),
         s # <<>>, NEW t, t = Frame(s)
  PROVE  IsFrameOf(S, s, t)
<1>. DEFINE n == Len(s)
            b == IF n < FrameSamples THEN n ELSE FrameSamples
<1>1. DOMAIN s = 1 .. n /\ n \in Nat /\ n # 0 /\ \A i \in 1 .. n : s[i] \in Nat
  <2>1. DOMAIN s = 1 .. n /\ n \in Nat /\ n # 0 /\ \A i \in 1 .. n : s[i] \in S
    OBVIOUS
  <2>. QED BY <2>1
<1>2. t = SubSeq(s, 1, b)
  BY DEF Frame
<1>3. b \in 1 .. n /\ 1 \in 1 .. n /\ b \in 1 .. FrameSamples
  BY <1>1, RingAssumption
<1>4. /\ t \in Seq(S) /\ Len(t) = b - 1 + 1 /\ Rising(t) /\ Thinning(t)
      /\ Last(t) = s[b] /\ ToSet(t) = {s[i] : i \in 1 .. b}
  <2>1. 1 <= b
    BY <1>3
  <2>. HIDE DEF b
  <2>2. IsPiece(S, s, 1, b, t)
    BY <1>2, <1>3, <2>1, PieceOf, Zenon
  <2>. QED BY <2>2 DEF IsPiece
<1>. HIDE DEF b
<1>5. ToSet(s) = {s[i] : i \in 1 .. n}
  BY <1>1 DEF ToSet
<1>6. 1 .. b \subseteq 1 .. n /\ Len(t) \in 1 .. FrameSamples
  BY <1>3, <1>4
<1>7. ASSUME NEW i \in 1 .. n, s[i] <= s[b] PROVE i \in 1 .. b
  <2>1. i > b => s[b] < s[i]
    BY <1>1, <1>3 DEF Rising
  <2>. QED BY <2>1, <1>7, <1>1, <1>3
<1>8. s[b] <= s[n]
  <2>1. b < n => s[b] < s[n]
    BY <1>1, <1>3 DEF Rising
  <2>. QED BY <2>1, <1>1, <1>3
<1>9. Last(s) = s[n]
  BY DEF Last
<1>. QED BY <1>4, <1>5, <1>6, <1>7, <1>8, <1>9 DEF IsFrameOf
\* A sequence whose steps only shrink and that starts and ends at 0 is nowhere
\* below 0.
LEMMA ConcaveAboveEnds ==
  ASSUME NEW m \in Nat, NEW f \in [0 .. m -> Int], f[0] = 0, f[m] = 0,
         \A j \in 1 .. m - 1 : f[j + 1] - f[j] <= f[j] - f[j - 1],
         NEW k \in 0 .. m
  PROVE  f[k] >= 0
<1>. SUFFICES ASSUME f[k] < 0 PROVE FALSE
  OBVIOUS
<1>. DEFINE Neg == {j \in 0 .. m : f[j] < 0}
<1>1. PICK a \in Neg : \A j \in Neg : a <= j
  <2>1. Neg \subseteq Nat /\ k \in Neg
    OBVIOUS
  <2>. QED BY <2>1, LeastExists
<1>2. a \in 1 .. m - 1 /\ f[a] < 0 /\ f[a - 1] >= 0
  <2>1. a \in 0 .. m /\ f[a] < 0 /\ a # 0 /\ a # m
    BY <1>1
  <2>2. a - 1 \in 0 .. m /\ a - 1 \notin Neg
    BY <2>1, <1>1
  <2>. QED BY <2>1, <2>2
<1>. DEFINE Up == {j \in a .. m : ~(f[j] < 0 /\ f[j] < f[j - 1])}
<1>3. PICK b \in Up : \A j \in Up : b <= j
  <2>1. m \in Up
    BY <1>2
  <2>2. Up \subseteq Nat
    BY <1>2
  <2>. QED BY <2>1, <2>2, LeastExists
<1>4. b \in a .. m /\ b # a
  BY <1>2, <1>3
<1>5. b - 1 \in a .. m /\ b - 1 \notin Up
  BY <1>2, <1>3, <1>4
<1>6. f[b - 1] < 0 /\ f[b - 1] < f[b - 2]
  <2>1. b - 1 - 1 = b - 2
    BY <1>4, <1>2
  <2>. QED BY <1>5, <2>1
<1>7. f[b] - f[b - 1] <= f[b - 1] - f[b - 2]
  <2>1. b - 1 \in 1 .. m - 1 /\ (b - 1) + 1 = b /\ (b - 1) - 1 = b - 2
    BY <1>4, <1>2
  <2>. QED BY <2>1
<1>8. f[b] \in Int /\ f[b - 1] \in Int /\ f[b - 2] \in Int
  BY <1>2, <1>4
<1>9. f[b] < 0 /\ f[b] < f[b - 1]
  BY <1>6, <1>7, <1>8
<1>. QED BY <1>3, <1>9

\* Division does not exceed a bound on what is divided.
LEMMA DivBound ==
  ASSUME NEW a \in Nat, NEW m \in Nat, m > 0, NEW b \in Nat, a <= m * b
  PROVE  a \div m \in 0 .. b
OBVIOUS

\* Scaling keeps the order.
LEMMA ScaledUp ==
  ASSUME NEW m \in Nat, NEW a \in Int, NEW b \in Int, a <= b
  PROVE  m * a <= m * b
OBVIOUS

\* Steps that shrink shrink still when scaled and taken off a line.
LEMMA Differences ==
  ASSUME NEW m \in Nat, NEW x \in Int, NEW y \in Int, NEW z \in Int,
         NEW d \in Int, NEW j \in Int, z - y <= y - x
  PROVE  (m * z - d * (j + 1)) - (m * y - d * j)
           <= (m * y - d * j) - (m * x - d * (j - 1))
<1>1. m * (z - y) <= m * (y - x)
  BY ScaledUp
<1>2. m * (z - y) = m * z - m * y /\ m * (y - x) = m * y - m * x
  OBVIOUS
<1>3. d * (j + 1) = d * j + d /\ d * (j - 1) = d * j - d
  OBVIOUS
<1>. DEFINE mx == m * x
            my == m * y
            mz == m * z
            dj == d * j
<1>4. mx \in Int /\ my \in Int /\ mz \in Int /\ dj \in Int
  OBVIOUS
<1>5. mz - my <= my - mx
  BY <1>1, <1>2
<1>6. (mz - (dj + d)) - (my - dj) <= (my - dj) - (mx - (dj - d))
  <2>. HIDE DEF mx, my, mz, dj
  <2>. QED BY <1>4, <1>5
<1>. QED BY <1>3, <1>6

\* The rise from a common origin.
LEMMA RiseBetween ==
  ASSUME NEW x \in Int, NEW y \in Int, NEW o \in Int
  PROVE  (x - o) - (y - o) = x - y
OBVIOUS

\* A rising sequence whose steps shrink lies above the chord between its ends.
LEMMA ChordBound ==
  ASSUME NEW s \in Seq(Nat), Rising(s), Thinning(s), Len(s) > 1,
         NEW k \in 1 .. Len(s)
  PROVE  (s[Len(s)] - s[1]) * (k - 1) <= (Len(s) - 1) * (s[k] - s[1])
<1>. DEFINE m == Len(s) - 1
            d == s[Len(s)] - s[1]
            rise(j) == s[j + 1] - s[1]
            f == [j \in 0 .. m |-> m * rise(j) - d * j]
<1>1. m \in Nat /\ m > 0 /\ \A j \in 1 .. m + 1 : s[j] \in Nat
  OBVIOUS
<1>2. d \in Int /\ \A j \in 0 .. m : rise(j) \in Int
  BY <1>1
<1>3. rise(0) = 0 /\ rise(m) = d
  BY <1>1
<1>4. ASSUME NEW j \in 1 .. m - 1
      PROVE  rise(j + 1) - rise(j) <= rise(j) - rise(j - 1)
  <2>1. s[j + 2] - s[j + 1] <= s[j + 1] - s[j]
    BY DEF Thinning
  <2>2. s[j + 2] \in Int /\ s[j + 1] \in Int /\ s[j] \in Int /\ s[1] \in Int
    BY <1>1
  <2>3. (j + 1) + 1 = j + 2 /\ (j - 1) + 1 = j
    OBVIOUS
  <2>4. rise(j + 1) = s[j + 2] - s[1] /\ rise(j - 1) = s[j] - s[1]
        /\ rise(j) = s[j + 1] - s[1]
    BY <2>3
  <2>5. (s[j + 2] - s[1]) - (s[j + 1] - s[1]) = s[j + 2] - s[j + 1]
    BY ONLY <2>2, RiseBetween
  <2>6. (s[j + 1] - s[1]) - (s[j] - s[1]) = s[j + 1] - s[j]
    BY ONLY <2>2, RiseBetween
  <2>. HIDE DEF rise
  <2>. QED BY ONLY <2>1, <2>4, <2>5, <2>6
<1>. HIDE DEF rise, d, m
<1>5. f \in [0 .. m -> Int]
  BY <1>1, <1>2
<1>6. f[0] = 0 /\ f[m] = 0
  <2>1. f[0] = m * rise(0) - d * 0 /\ f[m] = m * rise(m) - d * m
    BY <1>1
  <2>2. m * 0 = 0 /\ d * 0 = 0 /\ m * d = d * m /\ m * d \in Int
    BY <1>1, <1>2
  <2>. QED BY <2>1, <2>2, <1>1, <1>2, <1>3
<1>7. ASSUME NEW j \in 1 .. m - 1
      PROVE  f[j + 1] - f[j] <= f[j] - f[j - 1]
  <2>1. j \in 0 .. m /\ j + 1 \in 0 .. m /\ j - 1 \in 0 .. m
    BY <1>1
  <2>2. /\ f[j + 1] = m * rise(j + 1) - d * (j + 1)
        /\ f[j] = m * rise(j) - d * j
        /\ f[j - 1] = m * rise(j - 1) - d * (j - 1)
    BY <2>1
  <2>3. rise(j + 1) \in Int /\ rise(j) \in Int /\ rise(j - 1) \in Int /\ j \in Int
    BY <2>1, <1>2
  <2>4. rise(j + 1) - rise(j) <= rise(j) - rise(j - 1)
    BY <1>4
  <2>. HIDE DEF f
  <2>5. (m * rise(j + 1) - d * (j + 1)) - (m * rise(j) - d * j)
          <= (m * rise(j) - d * j) - (m * rise(j - 1) - d * (j - 1))
    BY ONLY <2>3, <2>4, <1>1, <1>2, Differences
  <2>. QED BY ONLY <2>2, <2>5
<1>8. f[k - 1] >= 0
  <2>1. k - 1 \in 0 .. m
    BY DEF m
  <2>. HIDE DEF f
  <2>. QED BY <2>1, <1>1, <1>5, <1>6, <1>7, ConcaveAboveEnds
<1>9. f[k - 1] = m * rise(k - 1) - d * (k - 1)
  BY DEF m
<1>10. rise(k - 1) = s[k] - s[1]
  BY (k - 1) + 1 = k DEF rise
<1>11. m * rise(k - 1) \in Int /\ d * (k - 1) \in Int
  <2>1. k - 1 \in 0 .. m
    BY DEF m
  <2>. QED BY <2>1, <1>1, <1>2
<1>12. d * (k - 1) <= m * rise(k - 1)
  BY <1>8, <1>9, <1>11
<1>. QED BY <1>10, <1>12 DEF d, m

\* The stamp publish_telemetry interpolates for a sample lies between the first
\* capture time of the frame and that of the sample: it is never late.
LEMMA StampBound ==
  ASSUME NEW s \in Seq(Nat), Rising(s), Thinning(s), NEW k \in 1 .. Len(s)
  PROVE  Stamp(s, k) \in s[1] .. s[k]
<1>1. DOMAIN s = 1 .. Len(s) /\ \A j \in 1 .. Len(s) : s[j] \in Nat /\ s[1] <= s[j]
  BY DEF Rising
<1>2. CASE Len(s) = 1
  BY <1>1, <1>2 DEF Stamp
<1>3. CASE Len(s) # 1
  <2>. DEFINE span == s[Len(s)] - s[1]
              rise == s[k] - s[1]
              m == Len(s) - 1
              part == span * (k - 1)
  <2>1. m \in Nat /\ m > 0 /\ span \in Nat /\ rise \in Nat
    BY <1>1, <1>3
  <2>2. part <= m * rise
    <3>1. Len(s) > 1
      <4>1. Len(s) \in Nat /\ 1 <= k /\ k <= Len(s) /\ k \in Nat
        OBVIOUS
      <4>. DEFINE n == Len(s)
      <4>2. n \in Nat /\ 1 <= k /\ k <= n /\ k \in Nat /\ n # 1
        BY <4>1, <1>3
      <4>. HIDE DEF n
      <4>3. n > 1
        BY ONLY <4>2
      <4>. QED BY <4>3 DEF n
    <3>. QED BY <3>1, ChordBound
  <2>3. part \in Nat
    <3>1. k - 1 \in Nat
      OBVIOUS
    <3>2. \A a, c \in Nat : a * c \in Nat
      OBVIOUS
    <3>. HIDE DEF span
    <3>. QED BY <2>1, <3>1, <3>2
  <2>4. Stamp(s, k) = s[1] + part \div m
    BY <1>3 DEF Stamp
  <2>5. s[1] + rise = s[k] /\ s[1] \in Nat
    BY <1>1
  <2>. HIDE DEF part, m, rise
  <2>6. part \div m \in 0 .. rise
    BY <2>1, <2>2, <2>3, DivBound
  <2>. QED BY <2>4, <2>5, <2>6, <2>1
<1>. QED BY <1>2, <1>3

\* Two shrinking steps against the one before them.
LEMMA FourRising ==
  ASSUME NEW a \in Nat, NEW b \in Nat, NEW c \in Nat, NEW d \in Nat,
         a < b, c - b <= b - a, d - c <= c - b
  PROVE  d - c <= c - a
OBVIOUS

\* Wherever decimation skips an entry, the step it makes is no shorter than the
\* next.
LEMMA LongerStepsFirst ==
  ASSUME NEW s \in Seq(Nat), Rising(s), Thinning(s),
         NEW p \in Nat, NEW q \in Nat, NEW r \in Nat, p >= 1, r <= Len(s),
         \/ q = p + 2 /\ r = p + 4
         \/ q = p + 2 /\ r = p + 3
         \/ q = p + 1 /\ r = p + 2
  PROVE  s[r] - s[q] <= s[q] - s[p]
<1>. DEFINE n == Len(s)
<1>1. n \in Nat /\ \A i \in 1 .. n : s[i] \in Nat
  OBVIOUS
<1>2. \A k \in 1 .. n - 2 : s[k + 2] - s[k + 1] <= s[k + 1] - s[k]
  BY DEF Thinning
<1>3. \A k \in 1 .. n - 1 : s[k] < s[k + 1]
  <2>1. DOMAIN s = 1 .. n
    OBVIOUS
  <2>. QED BY <2>1, <1>1 DEF Rising
<1>. HIDE DEF n
<1>4. r <= n
  BY DEF n
<1>5. CASE q = p + 1 /\ r = p + 2
  BY <1>1, <1>2, <1>4, <1>5
<1>6. CASE q = p + 2 /\ r = p + 3
  <2>1. s[p + 2] - s[p + 1] <= s[p + 1] - s[p]
    BY <1>1, <1>2, <1>4, <1>6
  <2>2. s[(p + 1) + 2] - s[(p + 1) + 1] <= s[(p + 1) + 1] - s[p + 1]
    BY <1>1, <1>2, <1>4, <1>6
  <2>3. s[p] < s[p + 1]
    BY <1>1, <1>3, <1>4, <1>6
  <2>4. (p + 1) + 2 = p + 3 /\ (p + 1) + 1 = p + 2
    OBVIOUS
  <2>5. s[p] \in Nat /\ s[p + 1] \in Nat /\ s[p + 2] \in Nat /\ s[p + 3] \in Nat
    BY <1>1, <1>4, <1>6
  <2>6. s[p + 3] - s[p + 2] <= s[p + 2] - s[p + 1]
    BY <2>2, <2>4
  <2>7. s[p + 3] - s[p + 2] <= s[p + 2] - s[p]
    BY ONLY <2>1, <2>3, <2>5, <2>6, FourRising
  <2>. QED BY ONLY <2>7, <1>6
<1>7. CASE q = p + 2 /\ r = p + 4
  <2>1. s[p + 2] - s[p + 1] <= s[p + 1] - s[p]
    BY <1>1, <1>2, <1>4, <1>7
  <2>2. s[(p + 1) + 2] - s[(p + 1) + 1] <= s[(p + 1) + 1] - s[p + 1]
    BY <1>1, <1>2, <1>4, <1>7
  <2>3. s[(p + 2) + 2] - s[(p + 2) + 1] <= s[(p + 2) + 1] - s[p + 2]
    BY <1>1, <1>2, <1>4, <1>7
  <2>4. /\ (p + 1) + 2 = p + 3 /\ (p + 1) + 1 = p + 2
        /\ (p + 2) + 2 = p + 4 /\ (p + 2) + 1 = p + 3
    OBVIOUS
  <2>5. /\ s[p] \in Nat /\ s[p + 1] \in Nat /\ s[p + 2] \in Nat
        /\ s[p + 3] \in Nat /\ s[p + 4] \in Nat
    BY <1>1, <1>4, <1>7
  <2>6. /\ s[p + 3] - s[p + 2] <= s[p + 2] - s[p + 1]
        /\ s[p + 4] - s[p + 3] <= s[p + 3] - s[p + 2]
    BY <2>2, <2>3, <2>4
  <2>7. s[p + 4] - s[p + 2] <= s[p + 2] - s[p]
    <3>. DEFINE a == s[p]
                b == s[p + 1]
                c == s[p + 2]
                d == s[p + 3]
                e == s[p + 4]
    <3>1. /\ a \in Nat /\ b \in Nat /\ c \in Nat /\ d \in Nat /\ e \in Nat
          /\ c - b <= b - a /\ d - c <= c - b /\ e - d <= d - c
      BY <2>1, <2>5, <2>6
    <3>. HIDE DEF a, b, c, d, e
    <3>2. e - c <= c - a
      BY ONLY <3>1
    <3>. QED BY <3>2 DEF a, c, e
  <2>. QED BY ONLY <2>7, <1>7
<1>. QED BY <1>5, <1>6, <1>7

\* Decimation keeps the ring rising and thinning, and its newest entry.
LEMMA DecimateKeeps ==
  ASSUME NEW S, S \subseteq Nat, NEW s \in Seq(S), Rising(s), Thinning(s),
         s # <<>>, NEW t, t = fifo_decimate(s)
  PROVE  /\ t \in Seq(S) /\ Rising(t) /\ Thinning(t)
         /\ t # <<>> /\ Len(t) <= Len(s)
         /\ Last(t) = Last(s) /\ ToSet(t) \subseteq ToSet(s)
<1>. DEFINE n == Len(s)
            half == n \div 2
            kept == half \div 2
            m == n - half + kept
            at(i) == IF i <= kept THEN 2 * i ELSE i + half - kept
<1>1. n \in Nat /\ n > 0 /\ DOMAIN s = 1 .. n /\ \A i \in 1 .. n : s[i] \in Nat
  <2>1. DOMAIN s = 1 .. n /\ n \in Nat /\ n # 0 /\ \A i \in 1 .. n : s[i] \in S
    OBVIOUS
  <2>. HIDE DEF n
  <2>2. \A i \in 1 .. n : s[i] \in Nat
    BY <2>1
  <2>. QED BY <2>1, <2>2
<1>2. /\ half \in Nat /\ kept \in Nat /\ m \in Nat
      /\ 2 * kept <= half /\ half <= 2 * kept + 1
      /\ half < n /\ m > 0 /\ m <= n /\ kept < m
  <2>. HIDE DEF n
  <2>. QED BY <1>1
<1>3. t = [i \in 1 .. m |-> IF i <= kept THEN s[2 * i] ELSE s[i + half - kept]]
  BY DEF fifo_decimate
<1>. HIDE DEF n, half, kept, m
<1>4. ASSUME NEW i \in 1 .. m
      PROVE  at(i) \in 1 .. n /\ t[i] = s[at(i)]
  <2>1. CASE i <= kept
    BY <1>1, <1>2, <1>3, <2>1 DEF m
  <2>2. CASE ~ (i <= kept)
    BY <1>1, <1>2, <1>3, <2>2 DEF m
  <2>. QED BY <2>1, <2>2
<1>5. t \in Seq(S) /\ Len(t) = m /\ DOMAIN t = 1 .. m
  <2>1. \A i \in 1 .. m : t[i] \in S
    <3>1. \A i \in 1 .. n : s[i] \in S
      BY DEF n
    <3>. QED BY <3>1, <1>4
  <2>2. t \in [1 .. m -> S]
    BY <2>1, <1>3
  <2>. HIDE DEF at
  <2>. QED BY <2>2, <1>2
<1>6. \A i, j \in 1 .. m : i < j => at(i) < at(j)
  BY <1>2
<1>7. Rising(t)
  <2>. SUFFICES ASSUME NEW i \in 1 .. m, NEW j \in 1 .. m, i < j
                PROVE  t[i] < t[j]
    BY <1>5 DEF Rising
  <2>1. at(i) < at(j)
    BY <1>6
  <2>. HIDE DEF at
  <2>. QED BY <2>1, <1>1, <1>4 DEF Rising
<1>8. Thinning(t)
  <2>. SUFFICES ASSUME NEW i \in 1 .. m - 2
                PROVE  t[i + 2] - t[i + 1] <= t[i + 1] - t[i]
    BY <1>5 DEF Thinning
  <2>1. /\ t[i] = s[at(i)] /\ t[i + 1] = s[at(i + 1)] /\ t[i + 2] = s[at(i + 2)]
        /\ at(i) \in 1 .. n /\ at(i + 1) \in 1 .. n /\ at(i + 2) \in 1 .. n
    <3>1. i \in 1 .. m /\ i + 1 \in 1 .. m /\ i + 2 \in 1 .. m
      BY <1>2
    <3>. HIDE DEF at
    <3>. QED BY <3>1, <1>4
  <2>2. \/ at(i + 1) = at(i) + 2 /\ at(i + 2) = at(i) + 4
        \/ at(i + 1) = at(i) + 2 /\ at(i + 2) = at(i) + 3
        \/ at(i + 1) = at(i) + 1 /\ at(i + 2) = at(i) + 2
    <3>1. CASE i + 2 <= kept
      BY <3>1, <1>2
    <3>2. CASE i + 2 = kept + 1
      BY <3>2, <1>2
    <3>3. CASE i + 2 = kept + 2
      BY <3>3, <1>2
    <3>4. CASE i > kept
      BY <3>4, <1>2
    <3>. QED BY <3>1, <3>2, <3>3, <3>4, <1>2
  <2>. HIDE DEF at
  <2>3. at(i) \in Nat /\ at(i + 1) \in Nat /\ at(i + 2) \in Nat
        /\ at(i) >= 1 /\ at(i + 2) <= Len(s)
    BY <2>1, <1>1 DEF n
  <2>4. s \in Seq(Nat)
    BY <1>1 DEF n
  <2>5. s[at(i + 2)] - s[at(i + 1)] <= s[at(i + 1)] - s[at(i)]
    BY <2>2, <2>3, <2>4, LongerStepsFirst
  <2>. QED BY <2>1, <2>5
<1>9. Last(t) = Last(s)
  <2>1. m \in 1 .. m /\ at(m) = n
    BY <1>1, <1>2 DEF m
  <2>. HIDE DEF at
  <2>2. t[m] = s[n]
    BY <2>1, <1>4
  <2>. QED BY <2>2, <1>5 DEF Last, n
<1>10. ToSet(t) \subseteq ToSet(s)
  <2>1. \A i \in 1 .. m : \E k \in 1 .. n : t[i] = s[k]
    <3>. HIDE DEF at
    <3>. QED BY <1>4
  <2>. QED BY <2>1, <1>1, <1>5 DEF ToSet
<1>11. t # <<>> /\ Len(t) <= Len(s)
  BY <1>2, <1>5 DEF n
<1>. QED BY <1>5, <1>7, <1>8, <1>9, <1>10, <1>11

IsGrown(S, s, c, t) ==
  /\ t \in Seq(S) /\ Rising(t) /\ Thinning(t) /\ Len(t) = Len(s) + 1
  /\ t # <<>> /\ Last(t) = c /\ ToSet(t) = ToSet(s) \cup {c}

\* The next capture time can go at the end.
LEMMA AppendKeeps ==
  ASSUME NEW S, S \subseteq Nat, NEW s \in Seq(S), Rising(s), Thinning(s),
         NEW c \in S, s # <<>> => Last(s) = c - 1, NEW t, t = Append(s, c)
  PROVE  IsGrown(S, s, c, t)
<1>. DEFINE n == Len(s)
<1>1. n \in Nat /\ DOMAIN s = 1 .. n /\ c \in Nat /\ \A i \in 1 .. n : s[i] \in Nat
  <2>1. n \in Nat /\ DOMAIN s = 1 .. n /\ \A i \in 1 .. n : s[i] \in S
    OBVIOUS
  <2>. QED BY <2>1
<1>2. /\ t \in Seq(S) /\ Len(t) = n + 1 /\ DOMAIN t = 1 .. n + 1
      /\ t[n + 1] = c /\ \A i \in 1 .. n : t[i] = s[i]
  OBVIOUS
<1>3. n # 0 => s[n] = c - 1
  BY DEF Last
<1>. HIDE DEF n
<1>4. \A i, j \in 1 .. n : i < j => s[i] < s[j]
  BY <1>1 DEF Rising
<1>5. \A i \in 1 .. n : s[i] < c
  <2>. SUFFICES ASSUME NEW i \in 1 .. n PROVE s[i] < c
    OBVIOUS
  <2>1. i < n => s[i] < s[n]
    BY <1>1, <1>4
  <2>. QED BY <2>1, <1>1, <1>3
<1>6. Rising(t)
  <2>. SUFFICES ASSUME NEW i \in 1 .. n + 1, NEW j \in 1 .. n + 1, i < j
                PROVE  t[i] < t[j]
    BY <1>2 DEF Rising
  <2>1. i \in 1 .. n /\ t[i] = s[i]
    BY <1>1, <1>2
  <2>2. CASE j = n + 1
    BY <2>1, <2>2, <1>2, <1>5
  <2>3. CASE j \in 1 .. n
    BY <2>1, <2>3, <1>2, <1>4
  <2>. QED BY <2>2, <2>3, <1>1
<1>7. Thinning(t)
  <2>. SUFFICES ASSUME NEW i \in 1 .. n - 1
                PROVE  t[i + 2] - t[i + 1] <= t[i + 1] - t[i]
    BY <1>1, <1>2 DEF Thinning
  <2>1. t[i] = s[i] /\ t[i + 1] = s[i + 1] /\ s[i] < s[i + 1]
        /\ s[i] \in Nat /\ s[i + 1] \in Nat
    BY <1>1, <1>2, <1>4
  <2>2. CASE i = n - 1
    <3>1. i + 2 = n + 1 /\ i + 1 = n
      BY <2>2, <1>1
    <3>2. t[i + 2] = c /\ s[i + 1] = c - 1
      BY <3>1, <1>1, <1>2, <1>3
    <3>. QED BY <2>1, <3>2, <1>1
  <2>3. CASE i # n - 1
    <3>1. i \in 1 .. n - 2 /\ i + 2 \in 1 .. n
      BY <2>3, <1>1
    <3>2. t[i + 2] = s[i + 2] /\ s[i + 2] - s[i + 1] <= s[i + 1] - s[i]
      BY <3>1, <1>2 DEF Thinning, n
    <3>. QED BY <2>1, <3>2
  <2>. QED BY <2>2, <2>3
<1>8. t # <<>> /\ Last(t) = c
  BY <1>1, <1>2 DEF Last
<1>9. ToSet(t) = ToSet(s) \cup {c}
  <2>1. ToSet(t) = {t[i] : i \in 1 .. n + 1} /\ ToSet(s) = {s[i] : i \in 1 .. n}
    BY <1>1, <1>2 DEF ToSet
  <2>2. ToSet(t) \subseteq ToSet(s) \cup {c}
    BY <2>1, <1>1, <1>2
  <2>3. ToSet(s) \cup {c} \subseteq ToSet(t)
    BY <2>1, <1>1, <1>2
  <2>. QED BY <2>2, <2>3
<1>. QED BY <1>2, <1>6, <1>7, <1>8, <1>9 DEF n, IsGrown

\* The oldest entry can go.
LEMMA TailKeeps ==
  ASSUME NEW S, S \subseteq Nat, NEW s \in Seq(S), Rising(s), Thinning(s),
         s # <<>>, NEW t, t = Tail(s)
  PROVE  /\ t \in Seq(S) /\ Rising(t) /\ Thinning(t) /\ Len(t) = Len(s) - 1
         /\ t # <<>> => Last(t) = Last(s)
         /\ ToSet(t) \subseteq ToSet(s)
<1>. DEFINE n == Len(s)
<1>1. n \in Nat /\ n # 0 /\ DOMAIN s = 1 .. n
  OBVIOUS
<1>2. t = SubSeq(s, 2, n)
  OBVIOUS
<1>3. CASE n = 1
  <2>1. t = <<>>
    BY <1>2, <1>3
  <2>2. ToSet(t) = {} /\ Rising(t) /\ Thinning(t) /\ t \in Seq(S)
    BY <2>1, EmptyTrack, Zenon
  <2>3. Len(t) = Len(s) - 1
    BY <2>1, <1>3
  <2>. QED BY <2>1, <2>2, <2>3
<1>4. CASE n # 1
  <2>1. 2 \in 1 .. n /\ n \in 1 .. n /\ 2 <= n
    <3>. HIDE DEF n
    <3>. QED BY <1>1, <1>4
  <2>2. IsPiece(S, s, 2, n, t)
    BY <2>1, <1>2, PieceOf, Zenon
  <2>3. {s[i] : i \in 2 .. n} \subseteq ToSet(s)
    BY <1>1 DEF ToSet
  <2>4. Len(t) = n - 1
    BY <1>1, <2>2 DEF IsPiece
  <2>. QED BY <2>2, <2>3, <2>4 DEF IsPiece, Last
<1>. QED BY <1>3, <1>4

IsPushed(S, s, c, t) ==
  /\ t \in Seq(S) /\ Rising(t) /\ Thinning(t) /\ Len(t) <= RingCap
  /\ t # <<>> /\ Last(t) = c
  /\ ToSet(t) \subseteq ToSet(s) \cup {c} /\ c \in ToSet(t)
  /\ Len(s) < RingCap => ToSet(t) = ToSet(s) \cup {c}

\* fifo_push puts the capture time last, and leaves out others only from a full
\* ring.
LEMMA PushKeeps ==
  ASSUME NEW S, S \subseteq Nat, NEW s \in Seq(S), Rising(s), Thinning(s),
         Len(s) <= RingCap, NEW c \in S, s # <<>> => Last(s) = c - 1,
         NEW t, t = fifo_push(s, c)
  PROVE  IsPushed(S, s, c, t)
<1>. DEFINE thin == IF Len(s) >= RingCap THEN fifo_decimate(s) ELSE s
            room == IF Len(thin) >= RingCap THEN Tail(thin) ELSE thin
            Fit(r) == /\ r \in Seq(S) /\ Rising(r) /\ Thinning(r)
                      /\ r # <<>> => s # <<>> /\ Last(r) = Last(s)
                      /\ ToSet(r) \subseteq ToSet(s)
<1>1. t = Append(room, c)
  BY DEF fifo_push
<1>2. RingCap \in Nat /\ RingCap > 0 /\ Len(s) \in Nat
  BY RingAssumption
<1>3. Fit(thin) /\ Len(thin) <= RingCap /\ (Len(s) < RingCap => thin = s)
  <2>1. CASE Len(s) >= RingCap
    <3>1. s # <<>> /\ thin = fifo_decimate(s)
      BY <2>1, <1>2
    <3>. HIDE DEF thin
    <3>2. Fit(thin) /\ Len(thin) <= Len(s)
      BY <3>1, DecimateKeeps
    <3>3. Len(thin) \in Nat
      BY <3>2
    <3>. QED BY <3>2, <3>3, <1>2, <2>1
  <2>2. CASE ~ (Len(s) >= RingCap)
    BY <2>2, <1>2
  <2>. QED BY <2>1, <2>2
<1>. HIDE DEF thin
<1>4. Fit(room) /\ Len(room) < RingCap /\ (Len(s) < RingCap => room = s)
  <2>0. Len(thin) \in Nat
    BY <1>3
  <2>1. CASE Len(thin) >= RingCap
    <3>1. thin # <<>> /\ room = Tail(thin)
      BY <2>1, <1>2
    <3>. HIDE DEF room
    <3>2. /\ room \in Seq(S) /\ Rising(room) /\ Thinning(room)
          /\ Len(room) = Len(thin) - 1
          /\ room # <<>> => Last(room) = Last(thin)
          /\ ToSet(room) \subseteq ToSet(thin)
      BY <3>1, <1>3, TailKeeps
    <3>. QED BY <3>1, <3>2, <1>2, <1>3, <2>0, <2>1
  <2>2. CASE ~ (Len(thin) >= RingCap)
    BY <2>0, <2>2, <1>2, <1>3
  <2>. QED BY <2>1, <2>2
<1>. HIDE DEF room
<1>5. /\ t \in Seq(S) /\ Rising(t) /\ Thinning(t) /\ Len(t) = Len(room) + 1
      /\ t # <<>> /\ Last(t) = c /\ ToSet(t) = ToSet(room) \cup {c}
  <2>1. room # <<>> => Last(room) = c - 1
    BY <1>4
  <2>2. room \in Seq(S) /\ Rising(room) /\ Thinning(room)
    BY <1>4
  <2>3. IsGrown(S, room, c, t)
    BY <1>1, <2>1, <2>2, AppendKeeps, Zenon
  <2>. QED BY <2>3 DEF IsGrown
<1>6. Len(t) <= RingCap
  <2>1. Len(room) \in Nat
    BY <1>4
  <2>. QED BY <2>1, <1>2, <1>4, <1>5
<1>. QED BY <1>4, <1>5, <1>6 DEF IsPushed

-----------------------------------------------------------------------------
\* The types of the chain, as finer sets than TypeOK's.
Tracks == {s \in Seq(Clocks) : Rising(s) /\ Thinning(s)}

Built == {b \in [seq : Seqs, boot : Boots, caps : Tracks] :
            Len(b.caps) \in 1 .. FrameSamples}

Uplinks   == [type : {"HELLO"}, boot : Boots] \cup [type : {"BATCH"}, b : Built]
Downlinks == [type : {"HELLO_ACK"}] \cup [type : {"BATCH_ACK"}, w : Clocks]
Telemetry == [boot : Boots, stamp : Clocks, of : Clocks]
Samples   == [boot : Boots, cap : Clocks]

Nodes == [boot : Boots, clock : 0 .. MaxClock, ring : Tracks,
          bound : BOOLEAN, out : BOOLEAN, batch : Built \cup {NoBatch},
          fails : 0 .. MaxFail + 2, seq : Seqs]

Unjudged(n) ==
  /\ n \in Nodes
  /\ Len(n.ring) <= RingCap
  /\ n.ring # <<>> => Last(n.ring) = n.clock
  /\ n.out => n.batch \in Built

Judged(n) ==
  /\ Unjudged(n)
  /\ n.bound => n.fails <= MaxFail + 1
  /\ n.bound /\ n.out => n.fails < MaxFail

NodeType == Judged(node)

RadioType ==
  /\ grx \in Seq(Uplinks) /\ Len(grx) <= QueueLen
  /\ nrx \in Seq(Downlinks) /\ Len(nrx) <= QueueLen

GwType ==
  /\ gw \in [known : BOOLEAN, last_boot : 0 .. MaxBoot, anchor : 0 .. MaxBoot,
             last_seq : Seqs, last_batch_boot : 0 .. MaxBoot,
             have_commit : BOOLEAN, commit : 0 .. MaxClock,
             have_pending : BOOLEAN, pending : 0 .. MaxClock,
             pc : {"idle", "check", "mark", "pend"}, hand : 0 .. MaxClock]
  /\ gw.have_commit => gw.commit \in Clocks
  /\ gw.pc = "check" => gw.hand \in Clocks
  /\ cq \in Seq(Clocks)

SvcType ==
  /\ svc \in [pc : {"idle", "appended", "saved"},
              msg : [boot : 0 .. MaxBoot, stamp : 0 .. MaxClock, of : 0 .. MaxClock],
              mem : Cursors, disk : Cursors, torn : SUBSET Samples,
              misdated : SUBSET Samples]
  /\ svc.pc # "idle" => svc.msg \in Telemetry
  /\ tq \in Seq(Telemetry) /\ log \in Seq(Telemetry)

HistoryType ==
  /\ acked \subseteq Samples /\ lost \subseteq Samples
  /\ faults \in 0 .. MaxFaults

TypeInv == NodeType /\ RadioType /\ GwType /\ SvcType /\ HistoryType

\* The constants as numbers.
LEMMA Bounds ==
  /\ MaxClock \in Nat /\ MaxBoot \in Nat /\ MaxBoot > 0 /\ MaxFail \in Nat
  /\ MaxFail > 0 /\ SeqWrap \in Nat /\ SeqWrap > 1 /\ QueueLen \in Nat
  /\ QueueLen > 0 /\ MaxFaults \in Nat /\ RingCap \in Nat /\ FrameSamples \in Nat
  /\ Clocks \subseteq Nat /\ 0 \in Seqs
BY DeliveryAssumption, RingAssumption DEF Clocks, Seqs

\* A transmission puts the message in the queue, or leaves it.
LEMMA TransmitIs ==
  ASSUME NEW S, NEW q \in Seq(S), Len(q) <= QueueLen, NEW m \in S, NEW q1, NEW ok,
         faults \in 0 .. MaxFaults, Transmit(q, q1, m, ok)
  PROVE  /\ q1 \in Seq(S) /\ Len(q1) <= QueueLen
         /\ q1 = q \/ q1 = Append(q, m)
         /\ faults' \in 0 .. MaxFaults
<1>1. /\ Offer(q, m) \in Seq(S) /\ Len(Offer(q, m)) <= QueueLen
      /\ Offer(q, m) = q \/ Offer(q, m) = Append(q, m)
  BY Bounds DEF Offer
<1>2. faults' \in 0 .. MaxFaults
  BY Bounds DEF Transmit, Happens
<1>. QED BY <1>1, <1>2 DEF Transmit

\* The ring of a typed node.
LEMMA RingIsTrack ==
  ASSUME NodeType
  PROVE  /\ node.ring \in Seq(Clocks) /\ Rising(node.ring) /\ Thinning(node.ring)
         /\ node.clock \in 0 .. MaxClock /\ node.boot \in Boots /\ node.seq \in Seqs
         /\ node.fails \in 0 .. MaxFail + 2 /\ Len(node.ring) <= RingCap
         /\ node.bound \in BOOLEAN /\ node.out \in BOOLEAN
BY DEF NodeType, Judged, Unjudged, Nodes, Tracks

\* Counting failures ends in a typed node, with its ring as it was.
LEMMA JudgeType ==
  ASSUME NEW n, Unjudged(n), Judge(n)
  PROVE  /\ NodeType'
         /\ nrx' = nrx \/ nrx' = <<>>
         /\ node'.ring = n.ring /\ node'.boot = n.boot /\ node'.clock = n.clock
         /\ node'.batch = n.batch /\ node'.out \in {n.out, FALSE}
         /\ node'.bound \in {n.bound, FALSE}
<1>1. CASE n.fails >= MaxFail
  <2>1. node' = [n EXCEPT !.bound = FALSE, !.out = FALSE] /\ nrx' = <<>>
    BY <1>1 DEF Judge
  <2>2. /\ node' \in Nodes /\ node'.ring = n.ring /\ node'.boot = n.boot
        /\ node'.clock = n.clock /\ node'.batch = n.batch
        /\ node'.bound = FALSE /\ node'.out = FALSE
    BY <2>1 DEF Unjudged, Nodes
  <2>. QED BY <2>1, <2>2 DEF NodeType, Judged, Unjudged
<1>2. CASE ~ (n.fails >= MaxFail)
  <2>1. node' = n /\ nrx' = nrx
    BY <1>2 DEF Judge
  <2>2. n.fails < MaxFail /\ n.fails <= MaxFail + 1
    BY <1>2, Bounds DEF Unjudged, Nodes
  <2>. QED BY <2>1, <2>2 DEF NodeType, Judged
<1>. QED BY <1>1, <1>2

\* What a capture does to a typed node.
LEMMA CaptureIs ==
  ASSUME NodeType, Capture
  PROVE  /\ NodeType'
         /\ node.clock + 1 \in Clocks
         /\ node' = [node EXCEPT !.clock = node.clock + 1, !.ring = node'.ring]
         /\ node'.clock = node.clock + 1 /\ node'.boot = node.boot
         /\ node'.out = node.out /\ node'.batch = node.batch
         /\ node'.bound = node.bound
         /\ ToSet(node'.ring) \subseteq ToSet(node.ring) \cup {node.clock + 1}
         /\ node.clock + 1 \in ToSet(node'.ring)
         /\ Len(node.ring) < RingCap =>
              ToSet(node'.ring) = ToSet(node.ring) \cup {node.clock + 1}
<1>. DEFINE c == node.clock + 1
            t == fifo_push(node.ring, c)
<1>1. node.clock + 1 \in Clocks /\ node.clock \in Nat
  BY RingIsTrack, Bounds DEF Capture, Clocks
<1>2. IsPushed(Clocks, node.ring, c, t)
  <2>1. node.ring # <<>> => Last(node.ring) = c - 1
    BY <1>1 DEF NodeType, Judged, Unjudged
  <2>2. c \in Clocks
    BY <1>1
  <2>3. t = fifo_push(node.ring, c)
    OBVIOUS
  <2>. HIDE DEF c, t
  <2>. QED BY <2>1, <2>2, <2>3, RingIsTrack, Bounds, PushKeeps, Zenon
<1>3. /\ t \in Tracks /\ Len(t) <= RingCap /\ t # <<>> /\ Last(t) = c
      /\ ToSet(t) \subseteq ToSet(node.ring) \cup {c} /\ c \in ToSet(t)
      /\ Len(node.ring) < RingCap => ToSet(t) = ToSet(node.ring) \cup {c}
  BY <1>2 DEF IsPushed, Tracks
<1>. HIDE DEF t
<1>4. node' = [node EXCEPT !.clock = c, !.ring = t] /\ c \in 0 .. MaxClock
  BY <1>1, RingIsTrack, Bounds DEF Capture, Clocks, t
<1>. HIDE DEF c
<1>5. NodeType' /\ node'.ring = t /\ node'.clock = c /\ node'.boot = node.boot
      /\ node'.out = node.out /\ node'.batch = node.batch /\ node'.bound = node.bound
  BY <1>3, <1>4 DEF NodeType, Judged, Unjudged, Nodes
<1>. QED BY <1>1, <1>3, <1>4, <1>5 DEF c

\* Hearing the gateway on the scanned channel keeps the type.
LEMMA ScanRxType == NodeType /\ ScanRx => NodeType'
<1>. SUFFICES ASSUME NodeType, ScanRx PROVE NodeType'
  OBVIOUS
<1>1. node' = node \/ node' = [node EXCEPT !.bound = TRUE, !.out = FALSE, !.fails = 0]
  BY DEF ScanRx
<1>2. 0 \in 0 .. MaxFail + 2 /\ 0 <= MaxFail + 1
  BY Bounds
<1>. QED BY <1>1, <1>2 DEF NodeType, Judged, Unjudged, Nodes

\* The frame send_batch builds from the ring.
NewBatch == [seq |-> (node.seq + 1) % SeqWrap, boot |-> node.boot,
             caps |-> Frame(node.ring)]

\* ... it is a frame of what the ring holds.
LEMMA NewBatchIs ==
  ASSUME NodeType, node.ring # <<>>
  PROVE  NewBatch \in Built /\ IsFrameOf(Clocks, node.ring, NewBatch.caps)
<1>1. IsFrameOf(Clocks, node.ring, Frame(node.ring))
  BY RingIsTrack, Bounds, FrameOf, Zenon
<1>2. Frame(node.ring) \in Tracks /\ Len(Frame(node.ring)) \in 1 .. FrameSamples
  BY <1>1 DEF IsFrameOf, Tracks
<1>3. (node.seq + 1) % SeqWrap \in Seqs
  BY RingIsTrack, Bounds DEF Seqs
<1>4. NewBatch.caps = Frame(node.ring)
  BY DEF NewBatch
<1>. QED BY <1>1, <1>2, <1>3, <1>4, RingIsTrack DEF NewBatch, Built

\* What send_batch does to a typed node.
LEMMA SendBatchIs ==
  ASSUME NodeType, SendBatch
  PROVE  /\ node.bound /\ ~node.out /\ node.ring # <<>>
         /\ \E ok \in BOOLEAN : Transmit(grx, grx', BATCH(NewBatch), ok)
         /\ NodeType' /\ nrx' \in {nrx, <<>>}
         /\ node'.ring = node.ring /\ node'.boot = node.boot
         /\ node'.clock = node.clock /\ node'.batch = NewBatch
         /\ node'.bound \in {node.bound, FALSE}
<1>1. node.bound /\ ~node.out /\ node.ring # <<>>
  BY DEF SendBatch
<1>2. PICK ok \in BOOLEAN :
        /\ Transmit(grx, grx', BATCH(NewBatch), ok)
        /\ Judge([node EXCEPT !.seq = NewBatch.seq, !.batch = NewBatch, !.out = TRUE,
                              !.fails = IF ok THEN 0 ELSE @ + 1])
  BY DEF SendBatch, NewBatch
<1>. DEFINE n == [node EXCEPT !.seq = NewBatch.seq, !.batch = NewBatch, !.out = TRUE,
                              !.fails = IF ok THEN 0 ELSE @ + 1]
<1>3. NewBatch \in Built /\ NewBatch.seq \in Seqs
  BY <1>1, NewBatchIs DEF Built
<1>4. (IF ok THEN 0 ELSE node.fails + 1) \in 0 .. MaxFail + 2
  BY <1>1, RingIsTrack, Bounds DEF NodeType, Judged
<1>5. Unjudged(n) /\ n.ring = node.ring /\ n.boot = node.boot /\ n.clock = node.clock
      /\ n.batch = NewBatch /\ n.bound = node.bound
  BY <1>3, <1>4 DEF NodeType, Judged, Unjudged, Nodes
<1>6. Judge(n)
  BY <1>2
<1>. HIDE DEF n
<1>. QED BY <1>1, <1>2, <1>5, <1>6, JudgeType

\* What a retransmission does to a typed node.
LEMMA RetransmitIs ==
  ASSUME NodeType, faults \in 0 .. MaxFaults, Retransmit
  PROVE  /\ node.bound /\ node.out /\ node.batch \in Built
         /\ \/ grx' = grx /\ faults' = faults
            \/ \E ok \in BOOLEAN : Transmit(grx, grx', BATCH(node.batch), ok)
         /\ NodeType' /\ nrx' \in {nrx, <<>>}
         /\ node'.ring = node.ring /\ node'.boot = node.boot
         /\ node'.clock = node.clock /\ node'.batch = node.batch
         /\ node'.bound \in {node.bound, FALSE}
<1>. DEFINE tried == [node EXCEPT !.fails = @ + 1]
<1>1. node.bound /\ node.out /\ node.batch \in Built /\ node.fails < MaxFail
  BY DEF Retransmit, NodeType, Judged, Unjudged
<1>2. node.fails \in Nat /\ node.fails + 1 \in 0 .. MaxFail + 2
      /\ node.fails + 1 + 1 \in 0 .. MaxFail + 2
  BY <1>1, RingIsTrack, Bounds
<1>3. /\ Unjudged(tried) /\ tried.ring = node.ring /\ tried.boot = node.boot
      /\ tried.clock = node.clock /\ tried.batch = node.batch
      /\ tried.bound = node.bound /\ tried.fails = node.fails + 1
  BY <1>2 DEF NodeType, Judged, Unjudged, Nodes
<1>. HIDE DEF tried
<1>4. CASE tried.fails >= MaxFail
  <2>1. Judge(tried) /\ grx' = grx /\ faults' = faults
    BY <1>4 DEF Retransmit, tried
  <2>. QED BY <1>1, <1>3, <2>1, JudgeType
<1>5. CASE ~ (tried.fails >= MaxFail)
  <2>1. PICK ok \in BOOLEAN :
          /\ Transmit(grx, grx', BATCH(node.batch), ok)
          /\ Judge([tried EXCEPT !.fails = IF ok THEN @ ELSE @ + 1])
    BY <1>5 DEF Retransmit, tried
  <2>. DEFINE n == [tried EXCEPT !.fails = IF ok THEN @ ELSE @ + 1]
  <2>2. (IF ok THEN tried.fails ELSE tried.fails + 1) \in 0 .. MaxFail + 2
    BY <1>2, <1>3
  <2>3. /\ Unjudged(n) /\ n.ring = node.ring /\ n.boot = node.boot
        /\ n.clock = node.clock /\ n.batch = node.batch /\ n.bound = node.bound
    BY <1>3, <2>2 DEF Unjudged, Nodes
  <2>4. Judge(n)
    BY <2>1
  <2>. HIDE DEF n
  <2>. QED BY <1>1, <2>1, <2>3, <2>4, JudgeType
<1>. QED BY <1>4, <1>5

\* What a heartbeat does to a typed node.
LEMMA HeartbeatIs ==
  ASSUME NodeType, faults \in 0 .. MaxFaults, Heartbeat
  PROVE  /\ node.bound /\ ~node.out
         /\ NodeType' /\ nrx' \in {nrx, <<>>} /\ faults' \in 0 .. MaxFaults
         /\ node'.ring = node.ring /\ node'.boot = node.boot
         /\ node'.clock = node.clock /\ ~node'.out
         /\ node'.bound \in {node.bound, FALSE}
<1>. DEFINE count(n) == IF node.ring = <<>> THEN Judge(n)
                        ELSE node' = n /\ UNCHANGED nrx
<1>1. node.bound /\ node.out = FALSE
  BY RingIsTrack DEF Heartbeat
<1>2. PICK k \in 0 .. MaxFail + 1 :
        count([node EXCEPT !.fails = k]) /\ faults' \in 0 .. MaxFaults
  <2>1. CASE /\ node.fails < MaxFail /\ UNCHANGED faults
             /\ count([node EXCEPT !.fails = 0])
    <3>1. 0 \in 0 .. MaxFail + 1
      BY Bounds
    <3>. QED BY <2>1, <3>1
  <2>2. CASE /\ node.fails <= MaxFail /\ Happens("radio")
             /\ count([node EXCEPT !.fails = @ + 1])
    <3>1. node.fails + 1 \in 0 .. MaxFail + 1
      BY <2>2, RingIsTrack, Bounds
    <3>2. faults' \in 0 .. MaxFaults
      BY <2>2, Bounds DEF Happens
    <3>. QED BY <2>2, <3>1, <3>2
  <2>. QED BY <2>1, <2>2 DEF Heartbeat
<1>. DEFINE n == [node EXCEPT !.fails = k]
<1>3. k \in 0 .. MaxFail + 2 /\ k <= MaxFail + 1
  BY Bounds
<1>4. /\ Judged(n) /\ n.ring = node.ring /\ n.boot = node.boot
      /\ n.clock = node.clock /\ n.bound = node.bound /\ n.out = FALSE
      /\ n.batch = node.batch
  BY <1>1, <1>3 DEF NodeType, Judged, Unjudged, Nodes
<1>5. (node.ring = <<>> /\ Judge(n)) \/ (node' = n /\ nrx' = nrx)
  BY <1>2
<1>. HIDE DEF n
<1>6. CASE Judge(n)
  BY <1>1, <1>2, <1>4, <1>6, JudgeType DEF Judged
<1>7. CASE node' = n /\ nrx' = nrx
  BY <1>1, <1>2, <1>4, <1>7 DEF NodeType
<1>. QED BY <1>5, <1>6, <1>7

\* What an answer from the gateway does to a typed node: only BATCH_ACK takes
\* samples out of the ring, those at or below its watermark.
LEMMA NodeRxIs ==
  ASSUME NodeType, RadioType, NodeRx
  PROVE  /\ nrx # <<>> /\ nrx' = Tail(nrx) /\ NodeType'
         /\ \/ node' = node /\ acked' = acked
            \/ /\ Head(nrx) \in [type : {"BATCH_ACK"}, w : Clocks]
               /\ node'.ring \in Seq(Clocks)
               /\ ToSet(node'.ring) = {c \in ToSet(node.ring) : c > Head(nrx).w}
               /\ node'.boot = node.boot /\ node'.clock = node.clock
               /\ node'.bound = node.bound /\ ~node'.out
               /\ acked' = acked \cup {Sample(node.boot, c) : c \in
                                         ToSet(node.ring) \ ToSet(node'.ring)}
<1>. DEFINE m == Head(nrx)
            t == fifo_trim(node.ring, m.w)
<1>1. nrx # <<>> /\ nrx' = Tail(nrx) /\ m \in Downlinks
  BY DEF NodeRx, RadioType
<1>2. CASE m.type = "BATCH_ACK" /\ node.out
  <2>1. m \in [type : {"BATCH_ACK"}, w : Clocks]
    BY <1>1, <1>2 DEF Downlinks
  <2>7. m.w \in Clocks
    BY <2>1
  <2>2. IsTrimmed(Clocks, node.ring, m.w, t)
    <3>. HIDE DEF m
    <3>1. m.w \in Int
      BY <2>7 DEF Clocks
    <3>. QED BY <3>1, RingIsTrack, Bounds, TrimKeeps, Zenon
  <2>3. /\ node' = [node EXCEPT !.ring = t, !.out = FALSE, !.fails = 0]
        /\ acked' = acked \cup {Sample(node.boot, c) : c \in
                                  ToSet(node.ring) \ ToSet(node'.ring)}
    BY <1>2 DEF NodeRx, Accept, Sample
  <2>. HIDE DEF t, m
  <2>4. /\ t \in Tracks /\ Len(t) <= RingCap /\ (t # <<>> => Last(t) = node.clock)
        /\ t \in Seq(Clocks) /\ ToSet(t) = {c \in ToSet(node.ring) : c > m.w}
    <3>1. Len(t) \in Nat /\ Len(node.ring) \in Nat /\ Len(t) <= Len(node.ring)
      BY <2>2, RingIsTrack DEF IsTrimmed
    <3>2. Len(t) <= RingCap
      BY <3>1, RingIsTrack, Bounds
    <3>. QED BY <2>2, <3>2 DEF IsTrimmed, Tracks, NodeType, Judged, Unjudged
  <2>5. 0 \in 0 .. MaxFail + 2 /\ 0 <= MaxFail + 1
    BY Bounds
  <2>6. /\ NodeType' /\ node'.ring = t /\ node'.boot = node.boot
        /\ node'.clock = node.clock /\ node'.bound = node.bound /\ ~node'.out
    BY <2>3, <2>4, <2>5 DEF NodeType, Judged, Unjudged, Nodes
  <2>. QED BY <1>1, <2>1, <2>3, <2>4, <2>6 DEF m
<1>3. CASE ~ (m.type = "BATCH_ACK" /\ node.out)
  <2>1. node' = node /\ acked' = acked
    BY <1>3 DEF NodeRx
  <2>. QED BY <1>1, <2>1 DEF NodeType
<1>. QED BY <1>2, <1>3

\* A node that has just booted is typed ...
LEMMA BootedType ==
  ASSUME NEW b \in Boots
  PROVE  Judged(NodeBooted(b))
<1>1. <<>> \in Tracks /\ Len(<<>>) = 0
  BY EmptyTrack DEF Tracks
<1>2. 0 \in 0 .. MaxClock /\ 0 \in 0 .. MaxFail + 2 /\ 0 <= RingCap
  BY Bounds
<1>. QED BY <1>1, <1>2, Bounds DEF Judged, Unjudged, Nodes, NodeBooted

\* ... and so a reboot keeps the type.
LEMMA NodeRebootIs ==
  ASSUME NodeType, NodeReboot
  PROVE  NodeType' /\ node' = NodeBooted(node.boot + 1) /\ nrx' = <<>>
         /\ node.boot + 1 \in Boots /\ node.boot \in Nat
<1>1. node.boot + 1 \in Boots /\ node.boot \in Nat
  BY RingIsTrack, Bounds DEF NodeReboot, Boots
<1>2. node' = NodeBooted(node.boot + 1) /\ nrx' = <<>>
  BY DEF NodeReboot
<1>. QED BY <1>1, <1>2, BootedType DEF NodeType

\* A sample of a frame goes out under a stamp that is a capture time and never
\* later than its own.
LEMMA MessageIs ==
  ASSUME NEW b \in Built, NEW i \in DOMAIN b.caps
  PROVE  /\ Message(b, i) \in Telemetry
         /\ Message(b, i).boot = b.boot /\ Message(b, i).of = b.caps[i]
         /\ Message(b, i).stamp <= b.caps[i]
<1>1. b.caps \in Seq(Clocks) /\ Rising(b.caps) /\ Thinning(b.caps) /\ b.boot \in Boots
  BY DEF Built, Tracks
<1>2. i \in 1 .. Len(b.caps) /\ Len(b.caps) \in Nat
      /\ b.caps[i] \in Clocks /\ b.caps[1] \in Clocks
  BY <1>1
<1>3. b.caps \in Seq(Nat)
  <2>1. \A k \in 1 .. Len(b.caps) : b.caps[k] \in Nat
    <3>1. \A k \in 1 .. Len(b.caps) : b.caps[k] \in Clocks
      BY <1>1
    <3>. QED BY <3>1 DEF Clocks
  <2>. QED BY <1>1, <2>1
<1>4. Stamp(b.caps, i) \in b.caps[1] .. b.caps[i]
  BY <1>1, <1>2, <1>3, StampBound
<1>5. Stamp(b.caps, i) \in Clocks /\ Stamp(b.caps, i) <= b.caps[i]
  BY <1>2, <1>4, Bounds DEF Clocks
<1>. QED BY <1>1, <1>2, <1>5 DEF Message, Telemetry

\* What Publish puts on the way, and from which samples of the frame: "at" is
\* where each message comes from, in order.
Published(b, pub, at) ==
  /\ pub \in Seq(Telemetry)
  /\ at \in [1 .. Len(pub) -> 1 .. Len(b.caps)]
  /\ \A p, q \in 1 .. Len(pub) : p < q => at[p] < at[q]
  /\ \A p \in 1 .. Len(pub) : pub[p] = Message(b, at[p])

\* The samples of the frame that none of them carries.
Missing(b, pub, at) ==
  {Sample(b.boot, b.caps[k]) :
     k \in {x \in 1 .. Len(b.caps) : \A p \in 1 .. Len(pub) : at[p] # x}}

\* The messages of a frame go out in its order; those that do not are accounted
\* for as lost, together with samples that did go out before.
LEMMA PublishIs ==
  ASSUME SvcType, HistoryType, NEW b \in Built, Publish(b)
  PROVE  \E pub, at :
           /\ Published(b, pub, at) /\ tq' = tq \o pub
           /\ \/ pub = <<>> /\ lost' = lost
              \/ lost' = lost \cup Missing(b, pub, at)
<1>. DEFINE n == Len(b.caps)
            sent == [i \in DOMAIN b.caps |-> Message(b, i)]
<1>1. n \in Nat /\ DOMAIN b.caps = 1 .. n /\ b.boot \in Boots
      /\ \A k \in 1 .. n : b.caps[k] \in Clocks
  BY DEF Built, Tracks
<1>2. /\ sent \in Seq(Telemetry) /\ Len(sent) = n
      /\ \A i \in 1 .. n : sent[i] = Message(b, i)
  <2>1. \A i \in 1 .. n : Message(b, i) \in Telemetry
    BY <1>1, MessageIs
  <2>. HIDE DEF n
  <2>. QED BY <1>1, <2>1
<1>3. tq \in Seq(Telemetry)
  BY DEF SvcType
<1>4. CASE gw.anchor # 0 /\ tq' = tq \o sent /\ UNCHANGED <<lost, faults>>
  <2>. DEFINE at == [p \in 1 .. n |-> p]
  <2>1. Published(b, sent, at)
    BY <1>1, <1>2 DEF Published
  <2>2. {Sample(b.boot, b.caps[k]) :
           k \in {x \in 1 .. n : \A p \in 1 .. n : at[p] # x}} = {}
    OBVIOUS
  <2>3. Missing(b, sent, at) = {}
    BY <1>2, <2>2 DEF Missing
  <2>. HIDE DEF sent, at
  <2>5. lost' = lost \cup Missing(b, sent, at)
    BY <1>4, <2>3
  <2>4. tq' = tq \o sent
    BY <1>4
  <2>. QED BY <2>1, <2>4, <2>5, Zenon
<1>5. CASE gw.anchor = 0 /\ UNCHANGED <<tq, lost, faults>>
  <2>1. Published(b, <<>>, <<>>)
    BY DEF Published
  <2>2. tq \o <<>> = tq
    BY <1>3
  <2>. QED BY <1>5, <2>1, <2>2
<1>6. ASSUME gw.anchor # 0 /\ Happens("qos0"),
             NEW i \in DOMAIN sent, NEW j \in DOMAIN sent, i <= j,
             tq' = tq \o SubSeq(sent, 1, i - 1) \o SubSeq(sent, j + 1, Len(sent)),
             lost' = lost \cup {Sample(b.boot, b.caps[k]) : k \in i .. j}
      PROVE  \E pub, at :
           /\ Published(b, pub, at) /\ tq' = tq \o pub
           /\ lost' = lost \cup Missing(b, pub, at)
  <2>. DEFINE head == SubSeq(sent, 1, i - 1)
              tail == SubSeq(sent, j + 1, Len(sent))
              pub == head \o tail
              at == [p \in 1 .. Len(pub) |-> IF p < i THEN p ELSE p + (j - i + 1)]
  <2>1. i \in 1 .. n /\ j \in 1 .. n /\ i <= j
    <3>1. i <= j
      BY <1>6
    <3>. QED BY <1>2, <3>1
  <2>. HIDE DEF sent, n
  <2>2. /\ head \in Seq(Telemetry) /\ Len(head) = i - 1
        /\ \A p \in 1 .. i - 1 : head[p] = sent[p]
    BY <1>1, <1>2, <2>1
  <2>3. /\ tail \in Seq(Telemetry) /\ Len(tail) = n - j
        /\ \A p \in 1 .. n - j : tail[p] = sent[p + j]
    BY <1>1, <1>2, <2>1
  <2>. HIDE DEF head, tail
  <2>4. tq' = tq \o pub
    <3>1. tq' = (tq \o head) \o tail
      BY <1>6 DEF head, tail
    <3>. QED BY <1>3, <2>2, <2>3, <3>1, ConcatAssociative
  <2>5. pub \in Seq(Telemetry) /\ Len(pub) = n - (j - i + 1)
    <3>1. pub \in Seq(Telemetry) /\ Len(pub) = Len(head) + Len(tail)
      BY <2>2, <2>3
    <3>. HIDE DEF pub
    <3>. QED BY <3>1, <2>1, <2>2, <2>3, <1>1
  <2>6. \A p \in 1 .. Len(pub) : pub[p] = IF p < i THEN sent[p] ELSE sent[p + (j - i + 1)]
    <3>. SUFFICES ASSUME NEW p \in 1 .. Len(pub)
                  PROVE  pub[p] = IF p < i THEN sent[p] ELSE sent[p + (j - i + 1)]
      OBVIOUS
    <3>1. CASE p < i
      <4>1. p \in 1 .. Len(head)
        BY <3>1, <2>1, <2>2, <2>5, <1>1
      <4>2. pub[p] = head[p]
        BY <4>1, <2>2, <2>3
      <4>. QED BY <3>1, <4>1, <4>2, <2>2
    <3>2. CASE ~ (p < i)
      <4>1. p - Len(head) \in 1 .. Len(tail) /\ p > Len(head)
        BY <3>2, <2>1, <2>2, <2>3, <2>5, <1>1
      <4>2. pub[p] = tail[p - Len(head)]
        BY <4>1, <2>2, <2>3, <2>5
      <4>3. p - Len(head) + j = p + (j - i + 1)
        BY <2>1, <2>2, <2>5, <1>1
      <4>. QED BY <3>2, <4>1, <4>2, <4>3, <2>3
    <3>. QED BY <3>1, <3>2
  <2>. HIDE DEF pub
  <2>. DEFINE l == n - (j - i + 1)
  <2>0. l \in Int /\ Len(pub) = l
    BY <2>1, <2>5, <1>1
  <2>7. \A p \in 1 .. Len(pub) : at[p] \in 1 .. n /\ ~ (at[p] \in i .. j)
    <3>. SUFFICES ASSUME NEW p \in 1 .. l
                  PROVE  at[p] \in 1 .. n /\ ~ (at[p] \in i .. j)
      BY <2>0
    <3>1. p \in Int /\ 1 <= p /\ p <= l
      BY <2>0
    <3>2. CASE p < i
      BY <3>1, <3>2, <2>1, <2>0, <1>1
    <3>3. CASE ~ (p < i)
      <4>1. at[p] = p + (j - i + 1)
        BY <3>3, <2>0
      <4>. QED BY <3>1, <3>3, <4>1, <2>1, <1>1
    <3>. QED BY <3>2, <3>3
  <2>8. \A p, q \in 1 .. Len(pub) : p < q => at[p] < at[q]
    <3>. SUFFICES ASSUME NEW p \in 1 .. Len(pub), NEW q \in 1 .. Len(pub), p < q
                  PROVE  at[p] < at[q]
      OBVIOUS
    <3>1. /\ at[p] = IF p < i THEN p ELSE p + (j - i + 1)
          /\ at[q] = IF q < i THEN q ELSE q + (j - i + 1)
          /\ p \in Int /\ q \in Int
      OBVIOUS
    <3>. HIDE DEF at
    <3>2. j - i + 1 \in Nat /\ i \in Int
      BY <2>1, <1>1
    <3>. QED BY <3>1, <3>2
  <2>9. \A p \in 1 .. Len(pub) : pub[p] = Message(b, at[p])
    BY <2>6, <2>7, <1>2
  <2>10. \A x \in 1 .. n : ~ (x \in i .. j) => \E p \in 1 .. Len(pub) : at[p] = x
    <3>. SUFFICES ASSUME NEW x \in 1 .. n, ~ (x \in i .. j)
                  PROVE  \E p \in 1 .. Len(pub) : at[p] = x
      OBVIOUS
    <3>1. CASE x < i
      <4>1. x \in 1 .. Len(pub) /\ at[x] = x
        BY <3>1, <2>1, <2>5, <1>1
      <4>. QED BY <4>1
    <3>2. CASE x > j
      <4>. DEFINE p == x - (j - i + 1)
      <4>1. p \in 1 .. Len(pub) /\ ~ (p < i) /\ p + (j - i + 1) = x
        BY <3>2, <2>1, <2>5, <1>1
      <4>2. at[p] = x
        BY <4>1
      <4>. QED BY <4>1, <4>2
    <3>3. x < i \/ x > j
      <4>1. x \in Int /\ i \in Int /\ j \in Int
        BY <2>1, <1>1
      <4>. HIDE DEF at, l
      <4>. QED BY <4>1
    <3>. QED BY <3>1, <3>2, <3>3
  <2>11. Published(b, pub, at)
    BY <2>5, <2>7, <2>8, <2>9 DEF Published, n
  <2>12. {x \in 1 .. n : \A p \in 1 .. Len(pub) : at[p] # x} = i .. j
    <3>1. i .. j \subseteq 1 .. n
      BY <2>1, <1>1
    <3>. HIDE DEF at
    <3>. QED BY <3>1, <2>7, <2>10
  <2>. HIDE DEF at
  <2>13. Missing(b, pub, at) = {Sample(b.boot, b.caps[k]) : k \in i .. j}
    BY <2>12 DEF Missing, n
  <2>14. lost' = lost \cup Missing(b, pub, at)
    BY <2>13, <1>6
  <2>. QED BY <2>4, <2>11, <2>14, Zenon
<1>7. CASE /\ gw.anchor # 0 /\ Happens("qos0")
           /\ \E i, j \in DOMAIN sent :
                /\ i <= j
                /\ tq' = tq \o SubSeq(sent, 1, i - 1) \o SubSeq(sent, j + 1, Len(sent))
                /\ lost' = lost \cup {Sample(b.boot, b.caps[k]) : k \in i .. j}
  <2>1. PICK i \in DOMAIN sent, j \in DOMAIN sent :
                /\ i <= j
                /\ tq' = tq \o SubSeq(sent, 1, i - 1) \o SubSeq(sent, j + 1, Len(sent))
                /\ lost' = lost \cup {Sample(b.boot, b.caps[k]) : k \in i .. j}
    BY <1>7
  <2>2. gw.anchor # 0 /\ Happens("qos0")
    BY <1>7
  <2>3. \E pub, at :
           /\ Published(b, pub, at) /\ tq' = tq \o pub
           /\ lost' = lost \cup Missing(b, pub, at)
    <3>. HIDE DEF sent, n
    <3>. QED BY <2>1, <2>2, <1>6
  <2>. HIDE DEF sent, n
  <2>. QED BY <2>3, Zenon
<1>. QED BY <1>4, <1>5, <1>7, Zenon DEF Publish

\* A queue that is served from its head.
LEMMA Served ==
  ASSUME NEW S, NEW q \in Seq(S), q # <<>>
  PROVE  /\ Head(q) \in S /\ Head(q) = q[1]
         /\ Tail(q) \in Seq(S) /\ Len(Tail(q)) = Len(q) - 1 /\ Len(q) \in Nat
         /\ \A i \in 1 .. Len(q) - 1 : Tail(q)[i] = q[i + 1] /\ i + 1 \in 1 .. Len(q)
         /\ 1 \in 1 .. Len(q)
OBVIOUS

\* Offering to a bounded queue.
LEMMA OfferIs ==
  ASSUME NEW S, NEW q \in Seq(S), Len(q) <= QueueLen, NEW m \in S
  PROVE  /\ Offer(q, m) \in Seq(S) /\ Len(Offer(q, m)) <= QueueLen
         /\ Offer(q, m) = q \/ Offer(q, m) = Append(q, m)
BY Bounds DEF Offer

\* The steps of the node keep the type invariant ...
LEMMA NodeStepType ==
  ASSUME TypeInv, NodeStep
  PROVE  TypeInv'
<1>. USE DEF TypeInv
<1>1. /\ RadioType /\ GwType /\ SvcType /\ HistoryType
      /\ grx \in Seq(Uplinks) /\ Len(grx) <= QueueLen /\ faults \in 0 .. MaxFaults
      /\ nrx \in Seq(Downlinks) /\ Len(nrx) <= QueueLen
  BY DEF RadioType, HistoryType
<1>2. \A q \in {nrx, <<>>} : q \in Seq(Downlinks) /\ Len(q) <= QueueLen
  <2>1. <<>> \in Seq(Downlinks) /\ Len(<<>>) = 0 /\ 0 <= QueueLen
    BY Bounds
  <2>. QED BY <1>1, <2>1
<1>3. GwType' /\ SvcType'
  <2>1. UNCHANGED <<gw, cq, svc, tq, log>>
    BY DEF NodeStep, Capture, ScanHello, ScanRx, SendBatch, Retransmit, Heartbeat,
           NodeRx
  <2>. QED BY <1>1, <2>1 DEF GwType, SvcType
<1>4. CASE Capture
  <2>1. NodeType'
    BY <1>4, CaptureIs
  <2>. QED BY <1>1, <1>3, <1>4, <2>1 DEF Capture, RadioType, HistoryType
<1>5. CASE ScanHello
  <2>1. PICK ok \in BOOLEAN : Transmit(grx, grx', HELLO(node.boot), ok)
    BY <1>5 DEF ScanHello
  <2>2. HELLO(node.boot) \in Uplinks
    BY RingIsTrack DEF HELLO, Uplinks
  <2>3. grx' \in Seq(Uplinks) /\ Len(grx') <= QueueLen /\ faults' \in 0 .. MaxFaults
    BY <1>1, <2>1, <2>2, TransmitIs
  <2>. QED BY <1>1, <1>3, <1>5, <2>3
          DEF ScanHello, NodeType, RadioType, HistoryType
<1>6. CASE ScanRx
  <2>1. NodeType'
    BY <1>6, ScanRxType
  <2>2. nrx' \in Seq(Downlinks) /\ Len(nrx') <= QueueLen
    <3>1. nrx # <<>> /\ nrx' = Tail(nrx)
      BY <1>6 DEF ScanRx
    <3>. QED BY <1>1, <3>1, Bounds, Served
  <2>. QED BY <1>1, <1>3, <1>6, <2>1, <2>2 DEF ScanRx, RadioType, HistoryType
<1>7. CASE SendBatch
  <2>1. /\ NodeType' /\ nrx' \in {nrx, <<>>} /\ NewBatch \in Built
        /\ \E ok \in BOOLEAN : Transmit(grx, grx', BATCH(NewBatch), ok)
    BY <1>7, SendBatchIs, NewBatchIs
  <2>2. BATCH(NewBatch) \in Uplinks
    BY <2>1 DEF BATCH, Uplinks
  <2>3. grx' \in Seq(Uplinks) /\ Len(grx') <= QueueLen /\ faults' \in 0 .. MaxFaults
    BY <1>1, <2>1, <2>2, TransmitIs
  <2>. QED BY <1>1, <1>2, <1>3, <1>7, <2>1, <2>3
          DEF SendBatch, RadioType, HistoryType
<1>8. CASE Retransmit
  <2>1. /\ NodeType' /\ nrx' \in {nrx, <<>>} /\ node.batch \in Built
        /\ \/ grx' = grx /\ faults' = faults
           \/ \E ok \in BOOLEAN : Transmit(grx, grx', BATCH(node.batch), ok)
    BY <1>1, <1>8, RetransmitIs
  <2>2. BATCH(node.batch) \in Uplinks
    BY <2>1 DEF BATCH, Uplinks
  <2>3. grx' \in Seq(Uplinks) /\ Len(grx') <= QueueLen /\ faults' \in 0 .. MaxFaults
    BY <1>1, <2>1, <2>2, TransmitIs
  <2>. QED BY <1>1, <1>2, <1>3, <1>8, <2>1, <2>3
          DEF Retransmit, RadioType, HistoryType
<1>9. CASE Heartbeat
  <2>1. NodeType' /\ nrx' \in {nrx, <<>>} /\ faults' \in 0 .. MaxFaults
    BY <1>1, <1>9, HeartbeatIs
  <2>. QED BY <1>1, <1>2, <1>3, <1>9, <2>1 DEF Heartbeat, RadioType, HistoryType
<1>10. CASE NodeRx
  <2>1. NodeType'
    BY <1>1, <1>10, NodeRxIs
  <2>2. nrx' \in Seq(Downlinks) /\ Len(nrx') <= QueueLen
    <3>1. nrx # <<>> /\ nrx' = Tail(nrx)
      BY <1>10 DEF NodeRx
    <3>. QED BY <1>1, <3>1, Bounds, Served
  <2>3. acked' \subseteq Samples
    <3>1. acked' = acked \/ acked' = acked \cup
             {Sample(node.boot, c) : c \in ToSet(node.ring) \ ToSet(node'.ring)}
      BY <1>1, <1>10, NodeRxIs
    <3>2. ToSet(node.ring) \subseteq Clocks
      BY RingIsTrack DEF ToSet
    <3>3. \A c \in Clocks : Sample(node.boot, c) \in Samples
      BY RingIsTrack DEF Sample, Samples
    <3>. QED BY <1>1, <3>1, <3>2, <3>3 DEF HistoryType
  <2>. QED BY <1>1, <1>3, <1>10, <2>1, <2>2, <2>3
          DEF NodeRx, RadioType, HistoryType
<1>. QED BY <1>4, <1>5, <1>6, <1>7, <1>8, <1>9, <1>10 DEF NodeStep

\* An acknowledgement, or none, on the node's queue.
LEMMA AckNodeIs ==
  ASSUME RadioType, HistoryType, NEW w \in Clocks, AckNode(w)
  PROVE  /\ nrx' \in Seq(Downlinks) /\ Len(nrx') <= QueueLen
         /\ nrx' = nrx \/ nrx' = Append(nrx, BATCH_ACK(w))
         /\ faults' \in 0 .. MaxFaults
<1>1. BATCH_ACK(w) \in Downlinks
  BY DEF BATCH_ACK, Downlinks
<1>2. PICK ok \in BOOLEAN : Transmit(nrx, nrx', BATCH_ACK(w), ok)
  BY DEF AckNode
<1>3. nrx \in Seq(Downlinks) /\ Len(nrx) <= QueueLen /\ faults \in 0 .. MaxFaults
  BY DEF RadioType, HistoryType
<1>. QED BY <1>1, <1>2, <1>3, TransmitIs

\* What handle_hello writes down of the node.
GwSeen(boot) ==
  IF gw.last_boot = boot THEN [gw EXCEPT !.known = TRUE]
  ELSE [gw EXCEPT !.known = TRUE, !.last_boot = boot,
                  !.have_commit = FALSE, !.have_pending = FALSE]

\* What handle_hello does.
LEMMA GwHelloIs ==
  ASSUME TypeInv, GwHello
  PROVE  /\ gw.pc = "idle" /\ grx # <<>> /\ Head(grx).type = "HELLO"
         /\ Head(grx).boot \in Boots /\ grx' = Tail(grx)
         /\ nrx' \in Seq(Downlinks) /\ Len(nrx') <= QueueLen
         /\ nrx' = nrx \/ nrx' = Append(nrx, HELLO_ACK)
         /\ faults' \in 0 .. MaxFaults
         /\ \/ gw' = GwSeen(Head(grx).boot)
            \/ gw' = [GwSeen(Head(grx).boot) EXCEPT !.anchor = Head(grx).boot]
<1>. DEFINE boot == Head(grx).boot
<1>1. /\ gw.pc = "idle" /\ grx # <<>> /\ Head(grx).type = "HELLO" /\ grx' = Tail(grx)
      /\ \/ \E ok \in BOOLEAN : /\ Transmit(nrx, nrx', HELLO_ACK, ok)
                                /\ gw' = [GwSeen(boot) EXCEPT !.anchor = boot]
         \/ /\ Happens("slowcb")
            /\ nrx' = Offer(nrx, HELLO_ACK) /\ gw' = GwSeen(boot)
  BY DEF GwHello, GwSeen
<1>2. nrx \in Seq(Downlinks) /\ Len(nrx) <= QueueLen /\ faults \in 0 .. MaxFaults
      /\ Head(grx) \in Uplinks
  BY <1>1, Served DEF TypeInv, RadioType, HistoryType
<1>3. boot \in Boots /\ Head(grx).type = "HELLO"
  BY <1>1, <1>2 DEF Uplinks
<1>4. HELLO_ACK \in Downlinks
  BY DEF HELLO_ACK, Downlinks
<1>. HIDE DEF boot
<1>5. CASE \E ok \in BOOLEAN : /\ Transmit(nrx, nrx', HELLO_ACK, ok)
                               /\ gw' = [GwSeen(boot) EXCEPT !.anchor = boot]
  BY <1>1, <1>2, <1>3, <1>4, <1>5, TransmitIs DEF boot
<1>6. CASE /\ Happens("slowcb")
           /\ nrx' = Offer(nrx, HELLO_ACK) /\ gw' = GwSeen(boot)
  <2>1. faults' \in 0 .. MaxFaults
    BY <1>2, <1>6, Bounds DEF Happens
  <2>. QED BY <1>1, <1>2, <1>3, <1>4, <1>6, <2>1, OfferIs DEF boot
<1>. QED BY <1>1, <1>5, <1>6

\* The second half of handle_batch acts on the end of the frame in hand.
LEMMA GwBatchIs ==
  ASSUME TypeInv, GwBatch
  PROVE  /\ gw.pc = "idle" /\ grx # <<>> /\ Head(grx).type = "BATCH"
         /\ Head(grx).b \in Built /\ grx' = Tail(grx)
         /\ Head(grx).b.caps # <<>> /\ Last(Head(grx).b.caps) \in Clocks
         /\ \/ ~gw.known /\ UNCHANGED <<gw, nrx, tq, lost, faults>>
            \/ /\ gw.known /\ IsRepeat(Head(grx).b) /\ gw.have_commit
               /\ Last(Head(grx).b.caps) <= gw.commit
               /\ AckNode(gw.commit) /\ UNCHANGED <<tq, lost>>
               /\ gw' = [gw EXCEPT !.last_seq = Head(grx).b.seq,
                                   !.last_batch_boot = Head(grx).b.boot]
            \/ /\ gw.known /\ IsRepeat(Head(grx).b)
               /\ UNCHANGED <<nrx, tq, lost, faults>>
               /\ gw' = [gw EXCEPT !.last_seq = Head(grx).b.seq,
                                   !.last_batch_boot = Head(grx).b.boot]
            \/ /\ gw.known /\ ~IsRepeat(Head(grx).b)
               /\ Publish(Head(grx).b) /\ UNCHANGED nrx
               /\ gw' = [gw EXCEPT !.last_seq = Head(grx).b.seq,
                                   !.last_batch_boot = Head(grx).b.boot,
                                   !.pc = "check", !.hand = Last(Head(grx).b.caps)]
<1>1. gw.pc = "idle" /\ grx # <<>> /\ Head(grx).type = "BATCH" /\ grx' = Tail(grx)
  BY DEF GwBatch
<1>2. Head(grx) \in Uplinks
  BY <1>1, Served DEF TypeInv, RadioType
<1>3. Head(grx).b \in Built
  BY <1>1, <1>2 DEF Uplinks
<1>4. Head(grx).b.caps # <<>> /\ Last(Head(grx).b.caps) \in Clocks
  <2>. DEFINE s == Head(grx).b.caps
  <2>1. s \in Seq(Clocks) /\ Len(s) \in 1 .. FrameSamples
    BY <1>3 DEF Built, Tracks
  <2>. HIDE DEF s
  <2>2. s # <<>> /\ Last(s) \in Clocks
    BY <2>1 DEF Last
  <2>. QED BY <2>2 DEF s
<1>5. GwBatch
  OBVIOUS
<1>. QED BY <1>1, <1>3, <1>4, <1>5 DEF GwBatch, Covered

\* Nothing but a frame published brings telemetry under way.
LEMMA PublishType ==
  ASSUME TypeInv, NEW b \in Built, Publish(b)
  PROVE  /\ tq' \in Seq(Telemetry) /\ lost' \subseteq Samples
         /\ faults' \in 0 .. MaxFaults
<1>1. PICK pub, at :
           /\ Published(b, pub, at) /\ tq' = tq \o pub
           /\ \/ pub = <<>> /\ lost' = lost
              \/ lost' = lost \cup Missing(b, pub, at)
  <2>. SvcType /\ HistoryType
    BY DEF TypeInv
  <2>. QED BY PublishIs
<1>2. tq' \in Seq(Telemetry)
  BY <1>1 DEF Published, TypeInv, SvcType
<1>3. Missing(b, pub, at) \subseteq Samples
  <2>1. b.boot \in Boots /\ \A k \in 1 .. Len(b.caps) : b.caps[k] \in Clocks
    BY DEF Built, Tracks
  <2>. QED BY <2>1 DEF Missing, Sample, Samples
<1>4. faults' \in 0 .. MaxFaults
  BY Bounds DEF Publish, Happens, TypeInv, HistoryType
<1>. QED BY <1>1, <1>2, <1>3, <1>4 DEF TypeInv, HistoryType

\* ... and so do those of the gateway ...
LEMMA GwStepType ==
  ASSUME TypeInv, GwStep
  PROVE  TypeInv'
<1>1. /\ NodeType /\ RadioType /\ GwType /\ SvcType /\ HistoryType
      /\ grx \in Seq(Uplinks) /\ Len(grx) <= QueueLen /\ faults \in 0 .. MaxFaults
      /\ nrx \in Seq(Downlinks) /\ Len(nrx) <= QueueLen
  BY DEF TypeInv, RadioType, HistoryType
<1>2. UNCHANGED <<node, svc, log, acked>>
  BY DEF GwStep, GwHello, GwBatch, GwCheck, GwMark, GwPend, GwCommit
<1>3. NodeType'
  BY <1>1, <1>2 DEF NodeType
<1>4. ASSUME grx # <<>>, grx' = Tail(grx)
      PROVE  grx' \in Seq(Uplinks) /\ Len(grx') <= QueueLen
  BY <1>1, <1>4, Served, Bounds
<1>5. CASE GwHello
  <2>1. /\ grx' \in Seq(Uplinks) /\ Len(grx') <= QueueLen
        /\ nrx' \in Seq(Downlinks) /\ Len(nrx') <= QueueLen
        /\ faults' \in 0 .. MaxFaults
    BY <1>4, <1>5, GwHelloIs
  <2>2. UNCHANGED <<tq, cq, lost>>
    BY <1>5 DEF GwHello
  <2>3. GwType'
    <3>. DEFINE boot == Head(grx).boot
    <3>1. boot \in Boots /\ (gw' = GwSeen(boot) \/ gw' = [GwSeen(boot) EXCEPT !.anchor = boot])
      BY <1>5, GwHelloIs
    <3>2. boot \in 0 .. MaxBoot
      BY <3>1, Bounds DEF Boots
    <3>. HIDE DEF boot
    <3>3. \/ gw' = [gw EXCEPT !.known = TRUE]
          \/ gw' = [gw EXCEPT !.known = TRUE, !.anchor = boot]
          \/ gw' = [gw EXCEPT !.known = TRUE, !.last_boot = boot,
                              !.have_commit = FALSE, !.have_pending = FALSE]
          \/ gw' = [gw EXCEPT !.known = TRUE, !.last_boot = boot,
                              !.have_commit = FALSE, !.have_pending = FALSE,
                              !.anchor = boot]
      BY <3>1 DEF GwSeen
    <3>4. /\ gw' \in [known : BOOLEAN, last_boot : 0 .. MaxBoot, anchor : 0 .. MaxBoot,
             last_seq : Seqs, last_batch_boot : 0 .. MaxBoot,
             have_commit : BOOLEAN, commit : 0 .. MaxClock,
             have_pending : BOOLEAN, pending : 0 .. MaxClock,
             pc : {"idle", "check", "mark", "pend"}, hand : 0 .. MaxClock]
          /\ gw'.have_commit => gw.have_commit
          /\ gw'.commit = gw.commit /\ gw'.pc = gw.pc /\ gw'.hand = gw.hand
      <4>1. CASE gw' = [gw EXCEPT !.known = TRUE]
        BY <1>1, <4>1 DEF GwType
      <4>2. CASE gw' = [gw EXCEPT !.known = TRUE, !.anchor = boot]
        BY <1>1, <3>2, <4>2 DEF GwType
      <4>3. CASE gw' = [gw EXCEPT !.known = TRUE, !.last_boot = boot,
                              !.have_commit = FALSE, !.have_pending = FALSE]
        BY <1>1, <3>2, <4>3 DEF GwType
      <4>4. CASE gw' = [gw EXCEPT !.known = TRUE, !.last_boot = boot,
                              !.have_commit = FALSE, !.have_pending = FALSE,
                              !.anchor = boot]
        BY <1>1, <3>2, <4>4 DEF GwType
      <4>. QED BY <3>3, <4>1, <4>2, <4>3, <4>4
    <3>. QED BY <1>1, <2>2, <3>4 DEF GwType
  <2>. QED BY <1>1, <1>2, <1>3, <2>1, <2>2, <2>3
          DEF TypeInv, RadioType, SvcType, HistoryType
<1>6. CASE GwBatch
  <2>. DEFINE b == Head(grx).b
  <2>1. /\ grx' \in Seq(Uplinks) /\ Len(grx') <= QueueLen
        /\ b \in Built /\ Last(b.caps) \in Clocks
    BY <1>4, <1>6, GwBatchIs
  <2>2. UNCHANGED cq
    BY <1>6 DEF GwBatch
  <2>3. /\ nrx' \in Seq(Downlinks) /\ Len(nrx') <= QueueLen
        /\ faults' \in 0 .. MaxFaults
        /\ tq' \in Seq(Telemetry) /\ lost' \subseteq Samples
    <3>1. CASE UNCHANGED <<nrx, tq, lost, faults>>
      BY <1>1, <3>1 DEF SvcType, HistoryType
    <3>2. CASE gw.have_commit /\ AckNode(gw.commit) /\ UNCHANGED <<tq, lost>>
      <4>1. gw.commit \in Clocks
        BY <1>1, <3>2 DEF GwType
      <4>. QED BY <1>1, <3>2, <4>1, AckNodeIs DEF SvcType, HistoryType
    <3>3. CASE Publish(b) /\ UNCHANGED nrx
      BY <1>1, <2>1, <3>3, PublishType
    <3>. QED BY <1>6, <3>1, <3>2, <3>3, GwBatchIs
  <2>4. GwType'
    <3>1. \/ gw' = gw
          \/ gw' = [gw EXCEPT !.last_seq = b.seq, !.last_batch_boot = b.boot]
          \/ gw' = [gw EXCEPT !.last_seq = b.seq, !.last_batch_boot = b.boot,
                                   !.pc = "check", !.hand = Last(b.caps)]
      BY <1>6, GwBatchIs
    <3>2. b.seq \in Seqs /\ b.boot \in 0 .. MaxBoot
      BY <2>1, Bounds DEF Built, Boots
    <3>3. Last(b.caps) \in 0 .. MaxClock
      BY <2>1, Bounds DEF Clocks
    <3>. HIDE DEF b
    <3>. QED BY <1>1, <2>1, <2>2, <3>1, <3>2, <3>3 DEF GwType
  <2>. QED BY <1>1, <1>2, <1>3, <2>1, <2>2, <2>3, <2>4
          DEF TypeInv, RadioType, SvcType, HistoryType
<1>7. CASE GwCheck
  <2>1. UNCHANGED <<grx, tq, cq, lost>>
    BY <1>7 DEF GwCheck
  <2>2. CASE Covered(gw.hand)
    <3>1. gw' = [gw EXCEPT !.pc = "idle"] /\ AckNode(gw.commit) /\ gw.commit \in Clocks
      BY <1>1, <1>7, <2>2 DEF GwCheck, Covered, GwType
    <3>2. /\ nrx' \in Seq(Downlinks) /\ Len(nrx') <= QueueLen
          /\ faults' \in 0 .. MaxFaults
      BY <1>1, <3>1, AckNodeIs
    <3>3. GwType'
      BY <1>1, <2>1, <3>1 DEF GwType
    <3>. QED BY <1>1, <1>2, <1>3, <2>1, <3>2, <3>3
          DEF TypeInv, RadioType, SvcType, HistoryType
  <2>3. CASE ~Covered(gw.hand)
    <3>1. gw' = [gw EXCEPT !.pc = "mark"] /\ UNCHANGED <<nrx, faults>>
      BY <1>7, <2>3 DEF GwCheck
    <3>2. GwType'
      BY <1>1, <2>1, <3>1 DEF GwType
    <3>. QED BY <1>1, <1>2, <1>3, <2>1, <3>1, <3>2
          DEF TypeInv, RadioType, SvcType, HistoryType
  <2>. QED BY <2>2, <2>3
<1>8. CASE GwMark \/ GwPend
  <2>1. GwType'
    BY <1>1, <1>8 DEF GwMark, GwPend, GwType
  <2>. QED BY <1>1, <1>2, <1>3, <1>8, <2>1
          DEF GwMark, GwPend, TypeInv, RadioType, SvcType, HistoryType
<1>9. CASE GwCommit
  <2>. DEFINE w == Head(cq)
  <2>1. cq # <<>> /\ cq' = Tail(cq) /\ UNCHANGED <<grx, tq, lost>>
    BY <1>9 DEF GwCommit
  <2>2. w \in Clocks /\ cq' \in Seq(Clocks)
    BY <1>1, <2>1, Served DEF GwType
  <2>3. w \in 0 .. MaxClock
    BY <2>2, Bounds DEF Clocks
  <2>. HIDE DEF w
  <2>4. \/ gw' = gw
        \/ gw' = [gw EXCEPT !.have_commit = TRUE, !.commit = w]
        \/ gw' = [gw EXCEPT !.have_commit = TRUE, !.commit = w, !.have_pending = FALSE]
    BY <1>9 DEF GwCommit, w
  <2>5. GwType'
    BY <1>1, <2>2, <2>3, <2>4 DEF GwType
  <2>6. UNCHANGED <<nrx, faults>> \/ AckNode(w)
    BY <1>9 DEF GwCommit, w
  <2>7. /\ nrx' \in Seq(Downlinks) /\ Len(nrx') <= QueueLen
        /\ faults' \in 0 .. MaxFaults
    BY <1>1, <2>2, <2>6, AckNodeIs
  <2>. QED BY <1>1, <1>2, <1>3, <2>1, <2>5, <2>7
          DEF TypeInv, RadioType, SvcType, HistoryType
<1>. QED BY <1>5, <1>6, <1>7, <1>8, <1>9 DEF GwStep

\* ... of the service ...
LEMMA SvcStepType ==
  ASSUME TypeInv, SvcStep
  PROVE  TypeInv'
<1>1. /\ NodeType /\ RadioType /\ GwType /\ SvcType /\ HistoryType
      /\ tq \in Seq(Telemetry) /\ log \in Seq(Telemetry) /\ cq \in Seq(Clocks)
  BY DEF TypeInv, SvcType, GwType
<1>2. UNCHANGED <<node, grx, nrx, gw, acked, lost, faults>>
  BY DEF SvcStep, SvcAppend, SvcSave, SvcPublish
<1>3. NodeType' /\ RadioType' /\ HistoryType'
  BY <1>1, <1>2 DEF NodeType, RadioType, HistoryType
<1>4. CASE SvcAppend
  <2>. DEFINE m == Head(tq)
  <2>1. tq # <<>> /\ tq' = Tail(tq) /\ UNCHANGED cq
    BY <1>4 DEF SvcAppend
  <2>2. m \in Telemetry /\ tq' \in Seq(Telemetry)
    BY <1>1, <2>1, Served
  <2>3. \/ /\ log' = log
           /\ \/ svc' = svc
              \/ svc' = [svc EXCEPT !.misdated = @ \cup {Sample(m.boot, m.of)}]
        \/ log' = Append(log, m) /\ svc' = [svc EXCEPT !.pc = "appended", !.msg = m]
    <3>1. svc \in [pc : {"idle", "appended", "saved"},
              msg : [boot : 0 .. MaxBoot, stamp : 0 .. MaxClock, of : 0 .. MaxClock],
              mem : Cursors, disk : Cursors, torn : SUBSET Samples,
              misdated : SUBSET Samples]
      BY <1>1 DEF SvcType
    <3>. QED BY <1>4, <3>1 DEF SvcAppend
  <2>4. Sample(m.boot, m.of) \in Samples
    BY <2>2 DEF Telemetry, Sample, Samples
  <2>5. m \in [boot : 0 .. MaxBoot, stamp : 0 .. MaxClock, of : 0 .. MaxClock]
    BY <2>2, Bounds DEF Telemetry, Boots, Clocks
  <2>. HIDE DEF m
  <2>6. log' \in Seq(Telemetry)
    <3>1. log' = log \/ log' = Append(log, m)
      BY <2>3
    <3>2. log \in Seq(Telemetry) /\ m \in Telemetry
      BY <1>1, <2>2
    <3>3. Append(log, m) \in Seq(Telemetry)
      BY ONLY <3>2
    <3>. QED BY <3>1, <3>2, <3>3
  <2>7. SvcType'
    <3>1. CASE svc' = svc
      BY <1>1, <2>2, <2>6, <3>1 DEF SvcType
    <3>2. CASE svc' = [svc EXCEPT !.misdated = @ \cup {Sample(m.boot, m.of)}]
      BY <1>1, <2>2, <2>4, <2>6, <3>2 DEF SvcType
    <3>3. CASE svc' = [svc EXCEPT !.pc = "appended", !.msg = m]
      BY <1>1, <2>2, <2>5, <2>6, <3>3 DEF SvcType
    <3>. QED BY <2>3, <3>1, <3>2, <3>3
  <2>. QED BY <1>1, <1>2, <1>3, <2>1, <2>7 DEF TypeInv, GwType
<1>5. CASE SvcSave
  <2>1. UNCHANGED <<tq, cq, log>>
    BY <1>5 DEF SvcSave
  <2>. DEFINE cur == [boot |-> svc.msg.boot, cap |-> svc.msg.stamp]
  <2>2. cur \in Cursors /\ svc' = [svc EXCEPT !.pc = "saved", !.mem = cur, !.disk = cur]
        /\ svc.msg \in Telemetry
    BY <1>1, <1>5 DEF SvcSave, SvcType, Cursors
  <2>. HIDE DEF cur
  <2>3. SvcType'
    BY <1>1, <2>1, <2>2 DEF SvcType
  <2>. QED BY <1>1, <1>2, <1>3, <2>1, <2>3 DEF TypeInv, GwType
<1>6. CASE SvcPublish
  <2>1. UNCHANGED <<tq, log>> /\ svc' = [svc EXCEPT !.pc = "idle"]
        /\ cq' = Append(cq, svc.msg.stamp) /\ svc.msg.stamp \in Clocks
    BY <1>1, <1>6 DEF SvcPublish, SvcType, Telemetry
  <2>2. SvcType'
    BY <1>1, <2>1 DEF SvcType
  <2>3. GwType'
    BY <1>1, <1>2, <2>1 DEF GwType
  <2>. QED BY <1>3, <2>2, <2>3 DEF TypeInv
<1>. QED BY <1>4, <1>5, <1>6 DEF SvcStep

\* ... and the faults.
LEMMA FaultType ==
  ASSUME TypeInv, Fault
  PROVE  TypeInv'
<1>1. /\ NodeType /\ RadioType /\ GwType /\ SvcType /\ HistoryType
  BY DEF TypeInv
<1>2. /\ <<>> \in Seq(Uplinks) /\ <<>> \in Seq(Downlinks) /\ <<>> \in Seq(Clocks)
      /\ <<>> \in Seq(Telemetry) /\ Len(<<>>) = 0 /\ 0 <= QueueLen
  BY Bounds
<1>3. HistoryType'
  <2>1. UNCHANGED <<acked, lost>>
    BY DEF Fault, NodeReboot, GwReboot, GwDisconnect, SvcCrash
  <2>2. faults' \in 0 .. MaxFaults
    BY <1>1, Bounds
       DEF Fault, NodeReboot, GwReboot, GwDisconnect, SvcCrash, Happens, HistoryType
  <2>. QED BY <1>1, <2>1, <2>2 DEF HistoryType
<1>4. CASE NodeReboot
  <2>1. NodeType' /\ nrx' = <<>>
    BY <1>1, <1>4, NodeRebootIs
  <2>2. UNCHANGED <<grx, gw, tq, cq, svc, log>>
    BY <1>4 DEF NodeReboot
  <2>. QED BY <1>1, <1>2, <1>3, <2>1, <2>2 DEF TypeInv, RadioType, GwType, SvcType
<1>5. CASE GwReboot
  <2>1. gw' = GwBooted /\ grx' = <<>> /\ cq' = <<>> /\ UNCHANGED <<node, nrx, tq, svc, log>>
    BY <1>5 DEF GwReboot
  <2>2. GwType'
    BY <1>2, <2>1, Bounds DEF GwType, GwBooted
  <2>. QED BY <1>1, <1>2, <1>3, <2>1, <2>2 DEF TypeInv, NodeType, RadioType, SvcType
<1>6. CASE GwDisconnect
  <2>1. cq' = <<>> /\ UNCHANGED <<node, grx, nrx, gw, tq, svc, log>>
    BY <1>6 DEF GwDisconnect
  <2>. QED BY <1>1, <1>2, <1>3, <2>1 DEF TypeInv, NodeType, RadioType, GwType, SvcType
<1>7. CASE SvcCrash
  <2>1. tq' = <<>> /\ UNCHANGED <<node, grx, nrx, gw, cq, log>>
    BY <1>7 DEF SvcCrash
  <2>2. svc.pc = "appended" => Sample(svc.msg.boot, svc.msg.stamp) \in Samples
    BY <1>1 DEF SvcType, Telemetry, Sample, Samples
  <2>3. SvcType'
    BY <1>1, <1>2, <1>7, <2>1, <2>2 DEF SvcCrash, SvcType
  <2>. QED BY <1>1, <1>3, <2>1, <2>3 DEF TypeInv, NodeType, RadioType, GwType
<1>. QED BY <1>4, <1>5, <1>6, <1>7 DEF Fault

\* The initial state is typed.
LEMMA TypeInit == Init => TypeInv
<1>. SUFFICES ASSUME Init PROVE TypeInv
  OBVIOUS
<1>1. 1 \in Boots /\ 0 \in 0 .. MaxClock /\ 0 \in 0 .. MaxBoot
  BY Bounds DEF Boots
<1>2. NodeType
  BY <1>1, BootedType DEF Init, NodeType
<1>3. RadioType /\ HistoryType
  BY Bounds DEF Init, RadioType, HistoryType
<1>4. GwType
  BY <1>1, Bounds DEF Init, GwType, GwBooted
<1>5. SvcType
  BY <1>1 DEF Init, SvcType, Cursors, NoCursor
<1>. QED BY <1>2, <1>3, <1>4, <1>5 DEF TypeInv

\* Every step keeps the type invariant.
LEMMA TypeNext == TypeInv /\ [Next]_vars => TypeInv'
<1>. SUFFICES ASSUME TypeInv, [Next]_vars PROVE TypeInv'
  OBVIOUS
<1>1. CASE Next
  BY <1>1, NodeStepType, GwStepType, SvcStepType, FaultType DEF Next
<1>2. CASE UNCHANGED vars
  BY <1>2 DEF vars, TypeInv, NodeType, RadioType, GwType, SvcType, HistoryType
<1>. QED BY <1>1, <1>2

\* The chain never leaves its types: the ring of comms.c stays strictly rising in
\* capture time, with gaps that only shrink towards its newest entry, every frame
\* on the air and every stamp at the broker comes from such a ring, and the
\* failure count stays where judge_failures leaves it.
THEOREM Typed == Spec => []TypeInv
<1>. QED BY TypeInit, TypeNext, PTL DEF Spec

\* Sequences of bounded length, as TLC enumerates them.
LEMMA SeqOfIs ==
  ASSUME NEW S, NEW n \in Nat, NEW s \in Seq(S), Len(s) <= n
  PROVE  s \in SeqOf(S, n)
<1>1. s \in [1 .. Len(s) -> S] /\ Len(s) \in 0 .. n
  OBVIOUS
<1>. QED BY <1>1 DEF SeqOf

\* The invariant implies the one the runs check.
LEMMA TypedIsTypeOK == TypeInv => TypeOK
<1>. SUFFICES ASSUME TypeInv PROVE TypeOK
  OBVIOUS
<1>1. /\ NodeType /\ RadioType /\ GwType /\ SvcType /\ HistoryType
  BY DEF TypeInv
<1>2. Built \subseteq Batches
  <2>1. ASSUME NEW b \in Built PROVE b \in Batches
    <3>1. b \in [seq : Seqs, boot : Boots, caps : Tracks] /\ b.caps \in Seq(Clocks)
          /\ Len(b.caps) <= FrameSamples
      BY Bounds DEF Built, Tracks
    <3>2. b.caps \in SeqOf(Clocks, FrameSamples)
      BY <3>1, Bounds, SeqOfIs
    <3>. QED BY <3>1, <3>2 DEF Batches
  <2>. QED BY <2>1
<1>3. /\ node.boot \in Boots /\ node.clock \in 0 .. MaxClock
      /\ node.ring \in SeqOf(Clocks, RingCap)
      /\ node.bound \in BOOLEAN /\ node.out \in BOOLEAN
      /\ node.batch \in Batches \cup {NoBatch}
      /\ node.fails \in 0 .. MaxFail + 2 /\ node.seq \in Seqs
  <2>1. node.ring \in SeqOf(Clocks, RingCap)
    BY <1>1, RingIsTrack, Bounds, SeqOfIs
  <2>. QED BY <1>1, <1>2, <2>1 DEF NodeType, Judged, Unjudged, Nodes
<1>4. /\ \A i \in DOMAIN tq : tq[i].boot \in Boots /\ tq[i].stamp \in Clocks
      /\ \A i \in DOMAIN cq : cq[i] \in Clocks
  <2>1. /\ \A i \in DOMAIN tq : tq[i] \in Telemetry
        /\ \A i \in DOMAIN cq : cq[i] \in Clocks
    BY <1>1 DEF SvcType, GwType
  <2>. QED BY <2>1 DEF Telemetry
<1>5. acked \cup lost \cup svc.torn \cup svc.misdated \subseteq [boot : Boots, cap : Clocks]
  BY <1>1 DEF HistoryType, SvcType, Samples
<1>. QED BY <1>1, <1>3, <1>4, <1>5
        DEF TypeOK, RadioType, GwType, SvcType, HistoryType

\* Type correctness of the delivery chain (node-bbu comms.c, gateway main.c,
\* commit_service.py), for every ring size, queue length and number of faults.
THEOREM TypeCorrect == Spec => []TypeOK
<1>. QED BY Typed, TypedIsTypeOK, PTL

-----------------------------------------------------------------------------
\* Boot sessions stay in order.
IsBatch(m) == m.type = "BATCH"

\* The boot session of the last sample the service has written.
Newest == IF svc.pc = "appended" THEN svc.msg.boot ELSE svc.mem.boot

\* Boot sessions travel in order: none is overtaken on the radio ...
RadioOrder ==
  /\ node.out => node.batch.boot = node.boot
  /\ \A i \in DOMAIN grx : IsBatch(grx[i]) =>
       /\ grx[i].b.boot <= node.boot
       /\ Newest <= grx[i].b.boot
       /\ \A k \in DOMAIN tq : tq[k].boot <= grx[i].b.boot
  /\ \A i, j \in DOMAIN grx :
       IsBatch(grx[i]) /\ IsBatch(grx[j]) /\ i < j => grx[i].b.boot <= grx[j].b.boot

\* ... nor at the broker, and none comes back to the service.
BrokerOrder ==
  /\ Newest <= node.boot
  /\ \A k \in DOMAIN tq : Newest <= tq[k].boot /\ tq[k].boot <= node.boot
  /\ \A k, l \in DOMAIN tq : k < l => tq[k].boot <= tq[l].boot

\* A line under way is above the cursor, and the last of the log.
CursorOrder ==
  /\ svc.mem = svc.disk
  /\ svc.pc = "appended" => /\ svc.mem.boot <= svc.msg.boot
                            /\ ~IsOld(svc.msg)
                            /\ log # <<>> /\ log[Len(log)] = svc.msg
  /\ svc.pc = "saved" => svc.mem = [boot |-> svc.msg.boot, cap |-> svc.msg.stamp]

\* At or below the cursor, or of an earlier boot session.
Below(e) == \/ e.boot < svc.mem.boot
            \/ e.boot = svc.mem.boot /\ e.stamp <= svc.mem.cap

\* The cursor is above every line but the one under way and the torn ones.
LogOrder ==
  \A i \in DOMAIN log :
    \/ Sample(log[i].boot, log[i].stamp) \in svc.torn
    \/ svc.pc = "appended" /\ i = Len(log)
    \/ Below(log[i])

OrderInv ==
  /\ RadioOrder /\ BrokerOrder /\ CursorOrder /\ LogOrder /\ NoDuplicateLines

\* The numbers the order is about.
LEMMA SessionsAreNumbers ==
  ASSUME TypeInv
  PROVE  /\ node.boot \in Nat /\ Newest \in Nat /\ svc.mem.boot \in Nat
         /\ svc.mem.cap \in Nat /\ svc.msg.boot \in Nat /\ svc.msg.stamp \in Nat
         /\ grx \in Seq(Uplinks) /\ tq \in Seq(Telemetry) /\ log \in Seq(Telemetry)
         /\ \A i \in DOMAIN grx : IsBatch(grx[i]) => grx[i].b.boot \in Nat
         /\ \A k \in DOMAIN tq : tq[k].boot \in Nat /\ tq[k].stamp \in Nat
         /\ \A k \in DOMAIN log : log[k].boot \in Nat /\ log[k].stamp \in Nat
<1>0. \A b \in Boots : b \in Nat
  BY Bounds DEF Boots
<1>6. \A b \in 0 .. MaxBoot : b \in Nat
  BY Bounds
<1>7. \A c \in 0 .. MaxClock : c \in Nat
  BY Bounds
<1>8. \A c \in Clocks : c \in Nat
  BY Bounds
<1>1. node.boot \in Nat
  BY <1>0, RingIsTrack DEF TypeInv
<1>2. svc.mem.boot \in Nat /\ svc.mem.cap \in Nat
  BY <1>6, <1>7 DEF TypeInv, SvcType, Cursors
<1>3. svc.msg.boot \in Nat /\ svc.msg.stamp \in Nat
  BY <1>6, <1>7 DEF TypeInv, SvcType
<1>4. grx \in Seq(Uplinks) /\ tq \in Seq(Telemetry) /\ log \in Seq(Telemetry)
  BY DEF TypeInv, RadioType, SvcType
<1>5. \A m \in Uplinks : IsBatch(m) => m.b.boot \in Nat
  BY <1>0 DEF Uplinks, IsBatch, Built
<1>9. \A m \in Telemetry : m.boot \in Nat /\ m.stamp \in Nat
  BY <1>0, <1>8 DEF Telemetry
<1>. QED BY <1>1, <1>2, <1>3, <1>4, <1>5, <1>9 DEF Newest

\* The node sends frames of its own boot session only.
LEMMA SendingKeepsOrder ==
  ASSUME TypeInv, RadioOrder, BrokerOrder, UNCHANGED <<tq, svc>>,
         node'.boot = node.boot, node'.out => node'.batch.boot = node.boot,
         NEW m, grx' = grx \/ grx' = Append(grx, m),
         IsBatch(m) => m.b.boot = node.boot
  PROVE  RadioOrder' /\ BrokerOrder'
<1>1. Newest' = Newest
  BY DEF Newest
<1>2. BrokerOrder'
  BY <1>1 DEF BrokerOrder
<1>. DEFINE N(i) == /\ grx[i].b.boot \in Nat /\ grx[i].b.boot <= node.boot
                    /\ Newest <= grx[i].b.boot
                    /\ \A k \in DOMAIN tq : tq[k].boot <= grx[i].b.boot
<1>3. \A i \in DOMAIN grx : IsBatch(grx[i]) => N(i)
  BY SessionsAreNumbers DEF RadioOrder
<1>4. CASE grx' = grx
  <2>1. \A i \in DOMAIN grx : IsBatch(grx[i]) =>
          /\ grx[i].b.boot <= node.boot
          /\ Newest <= grx[i].b.boot
          /\ \A k \in DOMAIN tq : tq[k].boot <= grx[i].b.boot
    BY DEF RadioOrder
  <2>2. \A i, j \in DOMAIN grx :
          IsBatch(grx[i]) /\ IsBatch(grx[j]) /\ i < j
            => grx[i].b.boot <= grx[j].b.boot
    BY DEF RadioOrder
  <2>. HIDE DEF N
  <2>. QED BY <1>1, <1>2, <1>4, <2>1, <2>2 DEF RadioOrder, IsBatch
<1>5. CASE grx' = Append(grx, m)
  <2>. DEFINE n == Len(grx)
  <2>1. /\ n \in Nat /\ DOMAIN grx' = 1 .. n + 1 /\ DOMAIN grx = 1 .. n
        /\ \A i \in 1 .. n : grx'[i] = grx[i]
        /\ grx'[n + 1] = m
    BY <1>5, SessionsAreNumbers
  <2>. HIDE DEF n
  <2>2. IsBatch(m) => /\ m.b.boot <= node.boot /\ Newest <= m.b.boot
                      /\ \A k \in DOMAIN tq : tq[k].boot <= m.b.boot
    BY SessionsAreNumbers DEF BrokerOrder
  <2>3. \A i \in DOMAIN grx' : IsBatch(grx'[i]) =>
          /\ grx'[i].b.boot <= node'.boot
          /\ Newest' <= grx'[i].b.boot
          /\ \A k \in DOMAIN tq' : tq'[k].boot <= grx'[i].b.boot
    <3>. SUFFICES ASSUME NEW i \in 1 .. n + 1, IsBatch(grx'[i])
                  PROVE  /\ grx'[i].b.boot <= node.boot
                         /\ Newest <= grx'[i].b.boot
                         /\ \A k \in DOMAIN tq : tq[k].boot <= grx'[i].b.boot
      BY <1>1, <2>1
    <3>1. CASE i \in 1 .. n
      BY <1>3, <2>1, <3>1
    <3>2. CASE i = n + 1
      BY <2>1, <2>2, <3>2
    <3>. QED BY <2>1, <3>1, <3>2
  <2>4. \A i, j \in DOMAIN grx' :
          IsBatch(grx'[i]) /\ IsBatch(grx'[j]) /\ i < j
            => grx'[i].b.boot <= grx'[j].b.boot
    <3>. SUFFICES ASSUME NEW i \in 1 .. n + 1, NEW j \in 1 .. n + 1, i < j,
                         IsBatch(grx'[i]), IsBatch(grx'[j])
                  PROVE  grx'[i].b.boot <= grx'[j].b.boot
      BY <2>1
    <3>1. i \in 1 .. n
      BY <2>1
    <3>2. CASE j \in 1 .. n
      BY <2>1, <3>1, <3>2 DEF RadioOrder
    <3>3. CASE j = n + 1
      BY <1>3, <2>1, <3>1, <3>3
    <3>. QED BY <2>1, <3>2, <3>3
  <2>. QED BY <1>2, <2>3, <2>4 DEF RadioOrder, IsBatch
<1>. QED BY <1>2, <1>4, <1>5

\* The gateway takes a frame off the radio and may put its samples, and no
\* others, at the end of the broker's queue.
LEMMA PublishingKeepsOrder ==
  ASSUME TypeInv, RadioOrder, BrokerOrder, UNCHANGED <<node, svc>>,
         grx # <<>>, grx' = Tail(grx), NEW pub \in Seq(Telemetry),
         tq' = tq \o pub,
         pub = <<>> \/ IsBatch(Head(grx)),
         \A p \in 1 .. Len(pub) : pub[p].boot = Head(grx).b.boot
  PROVE  RadioOrder' /\ BrokerOrder'
<1>1. Newest' = Newest
  BY DEF Newest
<1>. DEFINE n == Len(grx)
            t == Len(tq)
<1>2. /\ n \in Nat /\ n > 0 /\ DOMAIN grx' = 1 .. n - 1 /\ DOMAIN grx = 1 .. n
      /\ \A i \in 1 .. n - 1 : grx'[i] = grx[i + 1]
      /\ Head(grx) = grx[1]
  BY SessionsAreNumbers
<1>3. /\ t \in Nat /\ DOMAIN tq = 1 .. t /\ Len(pub) \in Nat
      /\ DOMAIN tq' = 1 .. t + Len(pub)
      /\ \A k \in 1 .. t : tq'[k] = tq[k]
      /\ \A k \in 1 .. t + Len(pub) : k > t => tq'[k] = pub[k - t]
  BY SessionsAreNumbers
<1>. HIDE DEF n, t
<1>. DEFINE B(k) == tq'[k].boot
<1>4. \A k \in 1 .. t + Len(pub) :
        \/ k \in 1 .. t /\ B(k) = tq[k].boot
        \/ k > t /\ IsBatch(grx[1]) /\ B(k) = grx[1].b.boot
  <2>. SUFFICES ASSUME NEW k \in 1 .. t + Len(pub)
                PROVE  \/ k \in 1 .. t /\ B(k) = tq[k].boot
                       \/ k > t /\ IsBatch(grx[1]) /\ B(k) = grx[1].b.boot
    OBVIOUS
  <2>1. CASE k <= t
    BY <1>3, <2>1
  <2>2. CASE k > t
    <3>1. k - t \in 1 .. Len(pub) /\ pub # <<>>
      BY <1>3, <2>2
    <3>. QED BY <1>2, <1>3, <2>2, <3>1
  <2>. QED BY <1>3, <2>1, <2>2
<1>5. 1 \in 1 .. n /\ \A i \in 1 .. n - 1 : i + 1 \in 1 .. n /\ 1 < i + 1
  BY <1>2
<1>6. \A i \in 1 .. n : IsBatch(grx[i]) =>
        /\ grx[i].b.boot \in Nat /\ grx[i].b.boot <= node.boot
        /\ Newest <= grx[i].b.boot
        /\ \A k \in 1 .. t : tq[k].boot <= grx[i].b.boot
        /\ 1 < i /\ IsBatch(grx[1]) => grx[1].b.boot <= grx[i].b.boot
  BY <1>2, <1>3, <1>5, SessionsAreNumbers DEF RadioOrder
<1>7. \A k \in 1 .. t : /\ tq[k].boot \in Nat /\ Newest <= tq[k].boot
                        /\ tq[k].boot <= node.boot
  BY <1>3, SessionsAreNumbers DEF BrokerOrder
<1>8. RadioOrder'
  <2>1. \A i \in 1 .. n - 1 : IsBatch(grx'[i]) =>
          /\ grx'[i].b.boot <= node.boot
          /\ Newest <= grx'[i].b.boot
          /\ \A k \in 1 .. t + Len(pub) : B(k) <= grx'[i].b.boot
    <3>. SUFFICES ASSUME NEW i \in 1 .. n - 1, IsBatch(grx[i + 1])
                  PROVE  /\ grx[i + 1].b.boot <= node.boot
                         /\ Newest <= grx[i + 1].b.boot
                         /\ \A k \in 1 .. t + Len(pub) : B(k) <= grx[i + 1].b.boot
      BY <1>2
    <3>. HIDE DEF B
    <3>. QED BY <1>4, <1>5, <1>6
  <2>2. \A i, j \in 1 .. n - 1 :
          IsBatch(grx'[i]) /\ IsBatch(grx'[j]) /\ i < j
            => grx'[i].b.boot <= grx'[j].b.boot
    <3>. SUFFICES ASSUME NEW i \in 1 .. n - 1, NEW j \in 1 .. n - 1, i < j,
                         IsBatch(grx[i + 1]), IsBatch(grx[j + 1])
                  PROVE  grx[i + 1].b.boot <= grx[j + 1].b.boot
      BY <1>2
    <3>1. i + 1 \in DOMAIN grx /\ j + 1 \in DOMAIN grx /\ i + 1 < j + 1
      BY <1>2, <1>5
    <3>. QED BY <3>1 DEF RadioOrder
  <2>3. node'.out => node'.batch.boot = node'.boot
    BY DEF RadioOrder
  <2>. QED BY <1>1, <1>2, <1>3, <2>1, <2>2, <2>3 DEF RadioOrder, IsBatch
<1>9. BrokerOrder'
  <2>1. \A k \in 1 .. t + Len(pub) : Newest <= B(k) /\ B(k) <= node.boot
    <3>. HIDE DEF B
    <3>. QED BY <1>4, <1>5, <1>6, <1>7
  <2>2. \A k, l \in 1 .. t + Len(pub) : k < l => B(k) <= B(l)
    <3>. SUFFICES ASSUME NEW k \in 1 .. t + Len(pub), NEW l \in 1 .. t + Len(pub),
                         k < l
                  PROVE  B(k) <= B(l)
      OBVIOUS
    <3>. HIDE DEF B
    <3>1. CASE l \in 1 .. t
      <4>1. k \in 1 .. t /\ B(k) = tq[k].boot /\ B(l) = tq[l].boot
        BY <1>3, <1>4, <3>1
      <4>2. k \in DOMAIN tq /\ l \in DOMAIN tq
        BY <1>3, <3>1, <4>1
      <4>3. tq[k].boot <= tq[l].boot
        BY <4>2 DEF BrokerOrder
      <4>. QED BY <4>1, <4>3
    <3>2. CASE l > t
      <4>1. IsBatch(grx[1]) /\ B(l) = grx[1].b.boot
        BY <1>3, <1>4, <3>2
      <4>2. \/ k \in 1 .. t /\ B(k) = tq[k].boot
            \/ B(k) = grx[1].b.boot
        BY <1>4
      <4>. QED BY <1>5, <1>6, <4>1, <4>2
    <3>. QED BY <1>3, <3>1, <3>2
  <2>3. Newest' <= node'.boot
    BY <1>1 DEF BrokerOrder
  <2>. QED BY <1>1, <1>3, <2>1, <2>2, <2>3 DEF BrokerOrder
<1>. QED BY <1>8, <1>9

\* The service moves on in the order of the sessions, and so does its cursor.
LEMMA AppendingKeepsOrder ==
  ASSUME TypeInv, OrderInv, SvcAppend
  PROVE  OrderInv'
<1>. DEFINE m == Head(tq)
            t == Len(tq)
<1>1. /\ svc.pc = "idle" /\ tq # <<>> /\ tq' = Tail(tq) /\ UNCHANGED <<node, grx>>
  BY DEF SvcAppend
<1>2. /\ m = tq[1] /\ t \in Nat /\ t > 0 /\ DOMAIN tq = 1 .. t
      /\ DOMAIN tq' = 1 .. t - 1
      /\ \A i \in 1 .. t - 1 : tq'[i] = tq[i + 1] /\ i + 1 \in 1 .. t /\ 1 < i + 1
      /\ 1 \in 1 .. t /\ m \in Telemetry
  BY <1>1, SessionsAreNumbers
<1>3. m.boot \in Nat /\ m.stamp \in Nat /\ svc.mem.boot <= m.boot /\ m.boot <= node.boot
      /\ Newest = svc.mem.boot
  BY <1>1, <1>2, SessionsAreNumbers DEF Newest, OrderInv, BrokerOrder
<1>. HIDE DEF t, m
<1>4. ASSUME Newest' = m.boot \/ Newest' = Newest
      PROVE  RadioOrder' /\ BrokerOrder'
  <2>1. Newest' \in Nat /\ Newest' <= m.boot
    BY <1>3, <1>4, SessionsAreNumbers
  <2>2. \A k \in 1 .. t : tq[k].boot \in Nat /\ m.boot <= tq[k].boot
    <3>1. \A k \in 1 .. t : tq[k].boot \in Nat
      BY <1>2, SessionsAreNumbers
    <3>2. \A k \in 1 .. t : 1 < k => m.boot <= tq[k].boot
      BY <1>2 DEF OrderInv, BrokerOrder
    <3>3. \A k \in 1 .. t : 1 < k \/ k = 1
      BY <1>2
    <3>. QED BY <1>2, <1>3, <3>1, <3>2, <3>3
  <2>3. BrokerOrder'
    <3>1. \A k \in 1 .. t - 1 : /\ Newest' <= tq[k + 1].boot
                                /\ tq[k + 1].boot <= node.boot
      <4>1. \A k \in 1 .. t : tq[k].boot <= node.boot
        BY <1>2 DEF OrderInv, BrokerOrder
      <4>. QED BY <1>2, <2>1, <2>2, <4>1, <1>3
    <3>2. \A k, l \in 1 .. t - 1 : k < l => tq[k + 1].boot <= tq[l + 1].boot
      <4>1. \A k, l \in 1 .. t : k < l => tq[k].boot <= tq[l].boot
        BY <1>2 DEF OrderInv, BrokerOrder
      <4>. QED BY <1>2, <4>1
    <3>3. Newest' <= node.boot
      BY <1>3, <2>1, SessionsAreNumbers
    <3>. QED BY <1>1, <1>2, <3>1, <3>2, <3>3 DEF BrokerOrder
  <2>4. RadioOrder'
    <3>1. \A i \in DOMAIN grx : IsBatch(grx[i]) =>
            /\ grx[i].b.boot <= node.boot
            /\ Newest' <= grx[i].b.boot
            /\ \A k \in 1 .. t - 1 : tq[k + 1].boot <= grx[i].b.boot
      <4>1. \A i \in DOMAIN grx : IsBatch(grx[i]) =>
            /\ grx[i].b.boot <= node.boot /\ grx[i].b.boot \in Nat
            /\ \A k \in 1 .. t : tq[k].boot <= grx[i].b.boot
        BY <1>2, SessionsAreNumbers DEF OrderInv, RadioOrder
      <4>. QED BY <1>2, <1>3, <2>1, <4>1
    <3>2. \A i, j \in DOMAIN grx :
            IsBatch(grx[i]) /\ IsBatch(grx[j]) /\ i < j
              => grx[i].b.boot <= grx[j].b.boot
      BY DEF OrderInv, RadioOrder
    <3>3. node.out => node.batch.boot = node.boot
      BY DEF OrderInv, RadioOrder
    <3>. QED BY <1>1, <1>2, <3>1, <3>2, <3>3 DEF RadioOrder, IsBatch
  <2>. QED BY <2>3, <2>4
<1>5. CASE IsOld(m)
  <2>1. /\ svc'.pc = svc.pc /\ svc'.mem = svc.mem /\ svc'.disk = svc.disk
        /\ svc'.msg = svc.msg /\ svc'.torn = svc.torn /\ log' = log
    BY <1>5 DEF SvcAppend, m, TypeInv, SvcType
  <2>2. Newest' = Newest
    BY <2>1 DEF Newest
  <2>3. CursorOrder'
    BY <1>1, <2>1 DEF OrderInv, CursorOrder
  <2>4. LogOrder' /\ NoDuplicateLines'
    BY <2>1 DEF OrderInv, LogOrder, NoDuplicateLines, Below
  <2>. QED BY <1>4, <2>2, <2>3, <2>4 DEF OrderInv
<1>6. CASE ~IsOld(m)
  <2>1. log' = Append(log, m) /\ svc' = [svc EXCEPT !.pc = "appended", !.msg = m]
    BY <1>6 DEF SvcAppend, m
  <2>2. /\ svc'.pc = "appended" /\ svc'.mem = svc.mem /\ svc'.disk = svc.disk
        /\ svc'.msg = m /\ svc'.torn = svc.torn
    BY <2>1 DEF TypeInv, SvcType
  <2>. DEFINE n == Len(log)
  <2>3. /\ n \in Nat /\ DOMAIN log' = 1 .. n + 1 /\ DOMAIN log = 1 .. n
        /\ \A i \in 1 .. n : log'[i] = log[i]
        /\ log'[n + 1] = m /\ Len(log') = n + 1 /\ log' # <<>>
    BY <2>1, SessionsAreNumbers
  <2>. HIDE DEF n
  <2>4. Newest' = m.boot
    BY <2>2 DEF Newest
  <2>5. \A i \in 1 .. n :
          \/ Sample(log[i].boot, log[i].stamp) \in svc.torn
          \/ Below(log[i])
    BY <1>1, <2>3 DEF OrderInv, LogOrder
  <2>6. CursorOrder'
    BY <1>3, <1>6, <2>2, <2>3 DEF OrderInv, CursorOrder, IsOld
  <2>7. LogOrder'
    <3>. SUFFICES ASSUME NEW i \in 1 .. n + 1
                  PROVE  \/ Sample(log'[i].boot, log'[i].stamp) \in svc'.torn
                         \/ i = n + 1
                         \/ log'[i].boot < svc'.mem.boot
                         \/ /\ log'[i].boot = svc'.mem.boot
                            /\ log'[i].stamp <= svc'.mem.cap
      BY <2>2, <2>3 DEF LogOrder, Below
    <3>1. i \in 1 .. n \/ i = n + 1
      BY <2>3
    <3>2. CASE i \in 1 .. n
      BY <2>2, <2>3, <2>5, <3>2 DEF Below
    <3>. QED BY <3>1, <3>2
  <2>8. NoDuplicateLines'
    <3>1. \A i \in 1 .. n : log[i].boot = m.boot /\ log[i].stamp = m.stamp
            => Sample(log[i].boot, log[i].stamp) \in svc.torn
      <4>. SUFFICES ASSUME NEW i \in 1 .. n, Below(log[i]),
                           log[i].boot = m.boot, log[i].stamp = m.stamp
                    PROVE  FALSE
        BY <2>5
      <4>. QED BY <1>3, <1>6, SessionsAreNumbers DEF Below, IsOld
    <3>. SUFFICES ASSUME NEW i \in 1 .. n + 1, NEW j \in 1 .. n + 1,
                         log'[i].boot = log'[j].boot, log'[i].stamp = log'[j].stamp
                  PROVE  i = j \/ Sample(log'[i].boot, log'[i].stamp) \in svc.torn
      BY <2>2, <2>3 DEF NoDuplicateLines
    <3>2. (i \in 1 .. n \/ i = n + 1) /\ (j \in 1 .. n \/ j = n + 1)
      BY <2>3
    <3>3. CASE i \in 1 .. n /\ j \in 1 .. n
      BY <2>3, <3>3 DEF OrderInv, NoDuplicateLines
    <3>4. CASE i \in 1 .. n /\ j = n + 1
      BY <2>3, <3>1, <3>4
    <3>5. CASE i = n + 1 /\ j \in 1 .. n
      BY <2>3, <3>1, <3>5
    <3>. QED BY <3>2, <3>3, <3>4, <3>5
  <2>. QED BY <1>4, <2>4, <2>6, <2>7, <2>8 DEF OrderInv
<1>. QED BY <1>5, <1>6

\* The cursor passes the line under way, and with it everything before it.
LEMMA SavingKeepsOrder ==
  ASSUME TypeInv, OrderInv, SvcSave
  PROVE  OrderInv'
<1>1. /\ svc.pc = "appended" /\ UNCHANGED <<node, grx, tq, log>>
      /\ svc'.pc = "saved" /\ svc'.msg = svc.msg /\ svc'.torn = svc.torn
      /\ svc'.mem = [boot |-> svc.msg.boot, cap |-> svc.msg.stamp]
      /\ svc'.disk = svc'.mem
  BY DEF SvcSave, TypeInv, SvcType
<1>2. Newest' = Newest
  BY <1>1 DEF Newest
<1>3. RadioOrder' /\ BrokerOrder'
  BY <1>1, <1>2 DEF OrderInv, RadioOrder, BrokerOrder, IsBatch
<1>4. CursorOrder'
  BY <1>1 DEF CursorOrder
<1>5. LogOrder'
  <2>1. /\ svc.mem.boot <= svc.msg.boot /\ ~IsOld(svc.msg)
        /\ log[Len(log)] = svc.msg
    BY <1>1 DEF OrderInv, CursorOrder
  <2>. SUFFICES ASSUME NEW i \in DOMAIN log,
                       Sample(log[i].boot, log[i].stamp) \notin svc.torn
                PROVE  \/ log[i].boot < svc.msg.boot
                       \/ log[i].boot = svc.msg.boot /\ log[i].stamp <= svc.msg.stamp
    BY <1>1 DEF LogOrder, Below
  <2>2. CASE i = Len(log)
    BY <2>1, <2>2, SessionsAreNumbers
  <2>3. CASE Below(log[i])
    <3>. DEFINE x == log[i].boot
                y == log[i].stamp
    <3>1. /\ x \in Nat /\ y \in Nat /\ svc.mem.boot \in Nat /\ svc.mem.cap \in Nat
          /\ svc.msg.boot \in Nat /\ svc.msg.stamp \in Nat
      BY SessionsAreNumbers
    <3>2. /\ x < svc.mem.boot \/ (x = svc.mem.boot /\ y <= svc.mem.cap)
          /\ svc.mem.boot <= svc.msg.boot
          /\ svc.mem.boot # svc.msg.boot \/ ~(svc.msg.stamp <= svc.mem.cap)
      BY <2>1, <2>3 DEF Below, IsOld
    <3>. HIDE DEF x, y
    <3>3. x < svc.msg.boot \/ (x = svc.msg.boot /\ y <= svc.msg.stamp)
      BY ONLY <3>1, <3>2
    <3>. QED BY <3>3 DEF x, y
  <2>. QED BY <2>2, <2>3 DEF OrderInv, LogOrder
<1>6. NoDuplicateLines'
  BY <1>1 DEF OrderInv, NoDuplicateLines
<1>. QED BY <1>3, <1>4, <1>5, <1>6 DEF OrderInv

\* A crash between append and save leaves a torn line above the cursor.
LEMMA CrashKeepsOrder ==
  ASSUME TypeInv, OrderInv, SvcCrash
  PROVE  OrderInv'
<1>1. /\ tq' = <<>> /\ UNCHANGED <<node, grx, log>>
      /\ svc'.pc = "idle" /\ svc'.mem = svc.mem /\ svc'.disk = svc.disk
      /\ svc.torn \subseteq svc'.torn
      /\ svc.pc = "appended" => Sample(svc.msg.boot, svc.msg.stamp) \in svc'.torn
  BY DEF SvcCrash, TypeInv, SvcType, OrderInv, CursorOrder
<1>2. Newest' \in Nat /\ Newest' <= Newest
  BY <1>1, SessionsAreNumbers DEF Newest, OrderInv, CursorOrder
<1>3. RadioOrder'
  <2>1. \A i \in DOMAIN grx : IsBatch(grx[i]) => Newest' <= grx[i].b.boot
    BY <1>2, SessionsAreNumbers DEF OrderInv, RadioOrder
  <2>. QED BY <1>1, <2>1 DEF OrderInv, RadioOrder, IsBatch
<1>4. BrokerOrder'
  <2>1. Newest' <= node.boot
    BY <1>2, SessionsAreNumbers DEF OrderInv, BrokerOrder
  <2>. QED BY <1>1, <2>1 DEF BrokerOrder
<1>5. CursorOrder'
  BY <1>1 DEF OrderInv, CursorOrder
<1>6. LogOrder'
  <2>1. svc.pc = "appended" => log[Len(log)] = svc.msg
    BY DEF OrderInv, CursorOrder
  <2>. QED BY <1>1, <2>1 DEF OrderInv, LogOrder, Below
<1>7. NoDuplicateLines'
  BY <1>1 DEF OrderInv, NoDuplicateLines
<1>. QED BY <1>3, <1>4, <1>5, <1>6, <1>7 DEF OrderInv

\* What a step that does not touch the service leaves alone.
LEMMA ServiceAlone ==
  ASSUME OrderInv, svc' = svc, log' = log
  PROVE  CursorOrder' /\ LogOrder' /\ NoDuplicateLines'
BY DEF OrderInv, CursorOrder, LogOrder, NoDuplicateLines, IsOld, Below

\* Initially nothing is under way.
LEMMA OrderInit == Init => OrderInv
<1>. SUFFICES ASSUME Init PROVE OrderInv
  OBVIOUS
<1>1. /\ grx = <<>> /\ tq = <<>> /\ log = <<>> /\ node.out = FALSE
      /\ node.boot = 1 /\ svc.pc = "idle" /\ svc.mem = NoCursor /\ svc.disk = NoCursor
  BY DEF Init, NodeBooted
<1>. QED BY <1>1 DEF OrderInv, RadioOrder, BrokerOrder, CursorOrder, LogOrder,
                     NoDuplicateLines, Newest, NoCursor

\* Every step keeps the order.
LEMMA OrderNext == TypeInv /\ OrderInv /\ [Next]_vars => OrderInv'
<1>. SUFFICES ASSUME TypeInv, OrderInv, [Next]_vars PROVE OrderInv'
  OBVIOUS
<1>1. NodeType /\ RadioType /\ faults \in 0 .. MaxFaults
  BY DEF TypeInv, HistoryType
<1>2. RadioOrder /\ BrokerOrder
  BY DEF OrderInv
<1>3. node.out => node.batch.boot = node.boot
  BY <1>2 DEF RadioOrder
<1>4. ASSUME svc' = svc, log' = log, RadioOrder', BrokerOrder'
      PROVE  OrderInv'
  BY <1>4, ServiceAlone DEF OrderInv
<1>5. CASE NodeStep
  <2>1. UNCHANGED <<tq, svc, log>>
    BY <1>5 DEF NodeStep, Capture, ScanHello, ScanRx, SendBatch, Retransmit,
                Heartbeat, NodeRx
  <2>2. ASSUME node'.boot = node.boot, node'.out => node'.batch.boot = node.boot,
               NEW m, grx' = grx \/ grx' = Append(grx, m),
               IsBatch(m) => m.b.boot = node.boot
        PROVE  OrderInv'
    BY <1>2, <1>4, <2>1, <2>2, SendingKeepsOrder
  <2>. DEFINE hello == HELLO(node.boot)
  <2>3. ~IsBatch(hello)
    BY DEF HELLO, IsBatch
  <2>. HIDE DEF hello
  <2>4. CASE Capture
    <3>1. node'.boot = node.boot /\ node'.out = node.out /\ node'.batch = node.batch
          /\ grx' = grx
      BY <1>1, <2>4 DEF Capture, NodeType, Judged, Unjudged, Nodes
    <3>. QED BY <1>3, <2>2, <2>3, <3>1
  <2>5. CASE ScanHello
    <3>1. node' = node
      BY <2>5 DEF ScanHello
    <3>2. grx' = grx \/ grx' = Append(grx, hello)
      BY <2>5 DEF ScanHello, Transmit, Offer, hello
    <3>. QED BY <1>3, <2>2, <2>3, <3>1, <3>2
  <2>6. CASE ScanRx
    <3>1. node'.boot = node.boot /\ (~node'.out \/ node' = node) /\ grx' = grx
      BY <1>1, <2>6 DEF ScanRx, NodeType, Judged, Unjudged, Nodes
    <3>. QED BY <1>3, <2>2, <2>3, <3>1
  <2>7. CASE SendBatch
    <3>1. /\ node'.boot = node.boot /\ node'.batch = NewBatch
          /\ \E ok \in BOOLEAN : Transmit(grx, grx', BATCH(NewBatch), ok)
      BY <1>1, <2>7, SendBatchIs
    <3>2. NewBatch.boot = node.boot /\ BATCH(NewBatch).b = NewBatch
      BY DEF NewBatch, BATCH
    <3>3. grx' = grx \/ grx' = Append(grx, BATCH(NewBatch))
      BY <3>1 DEF Transmit, Offer
    <3>. QED BY <2>2, <3>1, <3>2, <3>3
  <2>8. CASE Retransmit
    <3>1. /\ node'.boot = node.boot /\ node'.batch = node.batch /\ node.out
          /\ \/ grx' = grx
             \/ \E ok \in BOOLEAN : Transmit(grx, grx', BATCH(node.batch), ok)
      BY <1>1, <2>8, RetransmitIs
    <3>2. BATCH(node.batch).b = node.batch
      BY DEF BATCH
    <3>3. grx' = grx \/ grx' = Append(grx, BATCH(node.batch))
      BY <3>1 DEF Transmit, Offer
    <3>. QED BY <1>3, <2>2, <3>1, <3>2, <3>3
  <2>9. CASE Heartbeat
    <3>1. node'.boot = node.boot /\ ~node'.out
      BY <1>1, <2>9, HeartbeatIs
    <3>2. grx' = grx
      BY <2>9 DEF Heartbeat
    <3>. QED BY <2>2, <2>3, <3>1, <3>2
  <2>10. CASE NodeRx
    <3>1. node' = node \/ (node'.boot = node.boot /\ ~node'.out)
      BY <1>1, <2>10 DEF NodeRx, Accept, NodeType, Judged, Unjudged, Nodes
    <3>2. grx' = grx
      BY <2>10 DEF NodeRx
    <3>. QED BY <1>3, <2>2, <2>3, <3>1, <3>2
  <2>. QED BY <1>5, <2>4, <2>5, <2>6, <2>7, <2>8, <2>9, <2>10 DEF NodeStep
<1>6. CASE GwStep
  <2>1. UNCHANGED <<node, svc, log>>
    BY <1>6 DEF GwStep, GwHello, GwBatch, GwCheck, GwMark, GwPend, GwCommit
  <2>2. ASSUME grx # <<>>, grx' = Tail(grx), tq' = tq
        PROVE  OrderInv'
    <3>1. /\ tq' = tq \o <<>> /\ <<>> \in Seq(Telemetry)
          /\ \A p \in 1 .. Len(<<>>) : <<>>[p].boot = Head(grx).b.boot
      BY <2>2, SessionsAreNumbers
    <3>2. RadioOrder' /\ BrokerOrder'
      BY <1>2, <2>1, <2>2, <3>1, PublishingKeepsOrder
    <3>. QED BY <1>4, <2>1, <3>2
  <2>3. CASE GwHello
    BY <2>2, <2>3 DEF GwHello
  <2>4. CASE GwBatch
    <3>1. grx # <<>> /\ grx' = Tail(grx) /\ IsBatch(Head(grx)) /\ Head(grx).b \in Built
      BY <2>4, GwBatchIs DEF IsBatch
    <3>2. CASE tq' = tq
      BY <2>2, <3>1, <3>2
    <3>3. CASE Publish(Head(grx).b)
      <4>. DEFINE b == Head(grx).b
      <4>1. SvcType /\ HistoryType
        BY DEF TypeInv
      <4>2. PICK pub, at : Published(b, pub, at) /\ tq' = tq \o pub
        BY <3>1, <3>3, <4>1, PublishIs
      <4>3. pub \in Seq(Telemetry) /\ \A p \in 1 .. Len(pub) : pub[p].boot = b.boot
        <5>. HIDE DEF b
        <5>1. \A i : Message(b, i).boot = b.boot
          BY DEF Message
        <5>. QED BY <4>2, <5>1 DEF Published
      <4>4. RadioOrder' /\ BrokerOrder'
        BY <1>2, <2>1, <3>1, <4>2, <4>3, PublishingKeepsOrder
      <4>. QED BY <1>4, <2>1, <4>4
    <3>. QED BY <2>4, <3>2, <3>3, GwBatchIs
  <2>5. CASE GwCheck \/ GwMark \/ GwPend \/ GwCommit
    <3>1. UNCHANGED <<grx, tq>>
      BY <2>5 DEF GwCheck, GwMark, GwPend, GwCommit
    <3>2. RadioOrder' /\ BrokerOrder'
      BY <1>2, <2>1, <3>1 DEF RadioOrder, BrokerOrder, Newest, IsBatch
    <3>. QED BY <1>4, <2>1, <3>2
  <2>. QED BY <1>6, <2>3, <2>4, <2>5 DEF GwStep
<1>7. CASE SvcStep
  <2>1. CASE SvcPublish
    <3>1. /\ UNCHANGED <<node, grx, tq, log>> /\ svc.pc = "saved"
          /\ svc'.pc = "idle" /\ svc'.mem = svc.mem /\ svc'.disk = svc.disk
          /\ svc'.torn = svc.torn
      BY <2>1 DEF SvcPublish, TypeInv, SvcType
    <3>2. Newest' = Newest
      BY <3>1 DEF Newest
    <3>3. RadioOrder' /\ BrokerOrder'
      BY <1>2, <3>1, <3>2 DEF RadioOrder, BrokerOrder, IsBatch
    <3>4. CursorOrder' /\ LogOrder' /\ NoDuplicateLines'
      BY <3>1 DEF OrderInv, CursorOrder, LogOrder, NoDuplicateLines, Below
    <3>. QED BY <3>3, <3>4 DEF OrderInv
  <2>. QED BY <1>7, <2>1, AppendingKeepsOrder, SavingKeepsOrder DEF SvcStep
<1>8. CASE Fault
  <2>1. CASE NodeReboot
    <3>1. /\ UNCHANGED <<grx, tq, svc, log>> /\ node'.boot = node.boot + 1 /\ ~node'.out
      BY <1>1, <2>1, NodeRebootIs DEF NodeReboot, NodeBooted
    <3>2. RadioOrder'
      <4>1. \A i \in DOMAIN grx : IsBatch(grx[i]) => grx[i].b.boot <= node.boot + 1
        BY <1>2, SessionsAreNumbers DEF RadioOrder
      <4>. QED BY <1>2, <3>1, <4>1 DEF RadioOrder, Newest, IsBatch
    <3>3. BrokerOrder'
      <4>1. /\ Newest <= node.boot + 1
            /\ \A k \in DOMAIN tq : tq[k].boot <= node.boot + 1
        BY <1>2, SessionsAreNumbers DEF BrokerOrder
      <4>. QED BY <1>2, <3>1, <4>1 DEF BrokerOrder, Newest
    <3>. QED BY <1>4, <3>1, <3>2, <3>3
  <2>2. CASE GwReboot \/ GwDisconnect
    <3>1. /\ UNCHANGED <<node, tq, svc, log>> /\ (grx' = grx \/ grx' = <<>>)
      BY <2>2 DEF GwReboot, GwDisconnect
    <3>2. RadioOrder'
      BY <1>2, <3>1 DEF RadioOrder, Newest, IsBatch
    <3>3. BrokerOrder'
      BY <1>2, <3>1 DEF BrokerOrder, Newest
    <3>. QED BY <1>4, <3>1, <3>2, <3>3
  <2>. QED BY <1>8, <2>1, <2>2, CrashKeepsOrder DEF Fault
<1>9. CASE UNCHANGED vars
  <2>1. RadioOrder' /\ BrokerOrder'
    BY <1>2, <1>9 DEF vars, RadioOrder, BrokerOrder, Newest, IsBatch
  <2>. QED BY <1>4, <1>9, <2>1 DEF vars
<1>. QED BY <1>5, <1>6, <1>7, <1>8, <1>9 DEF Next

\* Boot sessions are never overtaken: neither on the air, nor at the gateway, nor
\* at the broker does a message of an earlier boot follow one of a later boot.
THEOREM Ordered == Spec => []OrderInv
<1>. QED BY Typed, OrderInit, OrderNext, PTL DEF Spec

\* The log holds no sample twice but for the line a crash of the service tore off
\* between append_line and save_state: the cursor of commit_service.py is above
\* every line but those.  This needs no hypothesis on faults or reboots.
THEOREM NoDuplicates == Spec => []NoDuplicateLines
<1>1. OrderInv => NoDuplicateLines
  BY DEF OrderInv
<1>. QED BY Ordered, <1>1, PTL

-----------------------------------------------------------------------------
\* Custody: nothing is acknowledged that is not settled.
\* The hypothesis of what follows: no acknowledgement is on its way when the
\* node boots, or the node does not reboot.  BATCH_ACK does not name the boot
\* session, and Finding_StaleWatermark shows what a late one does.
QuietReboots == Prompt \/ "nodereboot" \notin Faults

\* Capture times the node still answers for.
OnNode == {c \in Clocks : \/ c \in ToSet(node.ring)
                          \/ node.out /\ c \in ToSet(node.batch.caps)}

\* Capture times the service may still be told of.
Upstream ==
  {c \in Clocks :
     \/ c \in OnNode
     \/ \E i \in DOMAIN grx : IsBatch(grx[i]) /\ c \in ToSet(grx[i].b.caps)
     \/ \E k \in DOMAIN tq : c = tq[k].of}

IsSettled(c) == Sample(node.boot, c) \in Settled

\* All there is up to w is settled.
Reached(w) == w <= node.clock /\ \A c \in Upstream : c <= w => IsSettled(c)

\* A capture time that is in the log, and all there is up to it is settled.
Sound(w) ==
  Reached(w) /\ \E j \in DOMAIN log : log[j].boot = node.boot /\ log[j].stamp = w

\* Every capture time under way as a watermark.
Marks ==
  {w \in Clocks :
     \/ svc.pc # "idle" /\ w = svc.msg.stamp
     \/ \E i \in DOMAIN cq : w = cq[i]
     \/ gw.have_commit /\ gw.last_boot = node.boot /\ w = gw.commit
     \/ \E i \in DOMAIN nrx : nrx[i].type = "BATCH_ACK" /\ w = nrx[i].w}

MarksHold == \A w \in Marks : Sound(w)

CursorHolds == svc.mem.boot = node.boot => Reached(svc.mem.cap)

\* Nothing is missing from a frame that ends at or after it.
Spans(s, c) == c <= Last(s) => c \in ToSet(s)

\* A frame holds what there is of its span behind it.
FramesHold ==
  /\ node.out => /\ Last(node.batch.caps) <= node.clock
                 /\ \A c \in ToSet(node.ring) : Spans(node.batch.caps, c)
  /\ \A i \in DOMAIN grx : IsBatch(grx[i]) =>
       /\ grx[i].b.boot = node.boot /\ Last(grx[i].b.caps) <= node.clock
       /\ \A c \in OnNode : Spans(grx[i].b.caps, c)
  /\ \A i, j \in DOMAIN grx : IsBatch(grx[i]) /\ IsBatch(grx[j]) /\ i < j =>
       \A c \in ToSet(grx[j].b.caps) : Spans(grx[i].b.caps, c)

\* A message is preceded by what there is up to its stamp.
BrokerHolds ==
  \A k \in DOMAIN tq :
    /\ tq[k].boot = node.boot /\ tq[k].stamp <= tq[k].of /\ tq[k].of <= node.clock
    /\ \A c \in Upstream : c <= tq[k].stamp =>
         IsSettled(c) \/ \E l \in DOMAIN tq : l <= k /\ tq[l].of = c

SettledIsPast ==
  \A s \in Settled :
    s.boot <= node.boot /\ (s.boot = node.boot => s.cap <= node.clock)

\* The gateway has not heard of the node's boot session yet.
Unheard == gw.known /\ gw.last_boot # node.boot

SessionHolds ==
  /\ svc.pc # "idle" => svc.msg.boot = node.boot
  /\ gw.last_boot <= node.boot
  /\ ~gw.known => ~gw.have_commit /\ gw.pc = "idle"
  /\ \A i \in DOMAIN grx : ~IsBatch(grx[i]) => grx[i].boot = node.boot
  /\ Unheard =>
       /\ ~node.bound /\ gw.pc = "idle" /\ svc.pc = "idle"
       /\ tq = <<>> /\ cq = <<>>
       /\ \A i \in DOMAIN nrx : nrx[i].type # "HELLO_ACK"
       /\ \A i \in DOMAIN grx : ~IsBatch(grx[i])

CustodyInv ==
  /\ MarksHold /\ CursorHolds /\ FramesHold /\ BrokerHolds
  /\ SettledIsPast /\ SessionHolds /\ AckedIsDurable

-----------------------------------------------------------------------------

\* A step within a boot session takes nothing back.
Onward ==
  /\ node'.boot = node.boot /\ node.clock <= node'.clock
  /\ Settled \subseteq Settled'
  /\ \A c \in Upstream' : c \in Upstream \/ c > node.clock
  /\ \A j \in DOMAIN log : j \in DOMAIN log' /\ log'[j] = log[j]

\* What is settled up to a watermark stays so ...
LEMMA ReachedStays ==
  ASSUME TypeInv, TypeInv', Onward, NEW w \in Nat
  PROVE  (Reached(w) => Reached(w)') /\ (Sound(w) => Sound(w)')
<1>1. /\ node.clock \in Nat /\ node'.clock \in Nat /\ node.clock <= node'.clock
      /\ \A c \in Upstream' : c \in Nat
  BY RingIsTrack, Bounds DEF TypeInv, NodeType, Judged, Unjudged, Nodes, Upstream, Onward
<1>2. \A c : IsSettled(c) => IsSettled(c)'
  BY DEF Onward, IsSettled
<1>3. Reached(w) => Reached(w)'
  <2>. SUFFICES ASSUME Reached(w) PROVE Reached(w)'
    OBVIOUS
  <2>1. w <= node'.clock
    BY <1>1 DEF Reached
  <2>2. ASSUME NEW c \in Upstream', c <= w PROVE IsSettled(c)'
    <3>1. c \in Upstream
      BY <1>1, <2>2 DEF Reached, Onward
    <3>. QED BY <1>2, <2>2, <3>1 DEF Reached
  <2>. QED BY <2>1, <2>2 DEF Reached
<1>. QED BY <1>3 DEF Sound, Onward

\* ... so a watermark under way stays sound ...
LEMMA MarksStay ==
  ASSUME TypeInv, TypeInv', Onward, MarksHold,
         \A w \in Marks' : w \in Marks \/ Sound(w)'
  PROVE  MarksHold'
<1>. SUFFICES ASSUME NEW w \in Marks' PROVE Sound(w)'
  BY DEF MarksHold
<1>1. w \in Nat
  BY Bounds DEF Marks
<1>. QED BY <1>1, ReachedStays DEF MarksHold

\* ... and so does the cursor.
LEMMA CursorStays ==
  ASSUME TypeInv, TypeInv', Onward, CursorHolds, svc'.mem = svc.mem
  PROVE  CursorHolds'
<1>1. svc.mem.cap \in Nat
  BY SessionsAreNumbers
<1>. QED BY <1>1, ReachedStays DEF CursorHolds, Onward

\* The last entry of a track is the greatest.
LEMMA LastIsGreatest ==
  ASSUME NEW s \in Seq(Clocks), Rising(s), s # <<>>
  PROVE  /\ ToSet(s) \subseteq Clocks /\ Last(s) \in Nat
         /\ Last(s) \in ToSet(s)
         /\ \A c \in ToSet(s) : c <= Last(s)
<1>. DEFINE n == Len(s)
<1>1. n \in Nat /\ n > 0 /\ DOMAIN s = 1 .. n /\ \A i \in 1 .. n : s[i] \in Clocks
  OBVIOUS
<1>2. Last(s) = s[n] /\ ToSet(s) = {s[i] : i \in 1 .. n}
  BY <1>1 DEF Last, ToSet
<1>. HIDE DEF n
<1>3. n \in 1 .. n /\ s[n] \in Nat /\ \A i \in 1 .. n : s[i] \in Nat
  <2>1. \A c \in Clocks : c \in Nat
    BY Bounds
  <2>2. n \in 1 .. n
    BY <1>1
  <2>. QED BY <1>1, <2>1, <2>2
<1>4. \A i \in 1 .. n : s[i] <= s[n]
  <2>. SUFFICES ASSUME NEW i \in 1 .. n PROVE s[i] <= s[n]
    OBVIOUS
  <2>1. CASE i < n
    <3>1. s[i] < s[n]
      BY <1>1, <1>3, <2>1 DEF Rising
    <3>. QED BY <1>3, <3>1
  <2>2. CASE i = n
    BY <1>3, <2>2
  <2>. QED BY <1>1, <2>1, <2>2
<1>. QED BY <1>1, <1>2, <1>3, <1>4

\* A frame of the node.
LEMMA BuiltIs ==
  ASSUME NEW b \in Built
  PROVE  /\ ToSet(b.caps) \subseteq Clocks /\ Last(b.caps) \in Nat
         /\ Last(b.caps) \in ToSet(b.caps)
         /\ \A c \in ToSet(b.caps) : c <= Last(b.caps)
<1>1. b.caps \in Seq(Clocks) /\ Rising(b.caps) /\ b.caps # <<>>
  BY DEF Built, Tracks
<1>. QED BY <1>1, LastIsGreatest

\* No entry of the ring is ahead of the clock.
LEMMA RingUpToClock ==
  ASSUME TypeInv
  PROVE  \A c \in ToSet(node.ring) : c <= node.clock
<1>1. CASE node.ring = <<>>
  BY <1>1 DEF ToSet
<1>2. CASE node.ring # <<>>
  <2>1. /\ node.ring \in Seq(Clocks) /\ Rising(node.ring)
        /\ Last(node.ring) = node.clock
    BY <1>2, RingIsTrack DEF TypeInv, NodeType, Judged, Unjudged
  <2>2. \A c \in ToSet(node.ring) : c <= Last(node.ring)
    BY <1>2, <2>1, LastIsGreatest
  <2>. QED BY <2>1, <2>2
<1>. QED BY <1>1, <1>2

\* The frames and messages under way, as numbers.
LEMMA FramesInNumbers ==
  ASSUME TypeInv
  PROVE  /\ node.clock \in Nat /\ node.boot \in Nat
         /\ ToSet(node.ring) \subseteq Clocks
         /\ \A c \in Clocks : c \in Nat
         /\ node.out => /\ node.batch \in Built /\ Last(node.batch.caps) \in Nat
                        /\ ToSet(node.batch.caps) \subseteq Clocks
         /\ \A i \in DOMAIN grx : IsBatch(grx[i]) =>
              /\ grx[i].b \in Built /\ Last(grx[i].b.caps) \in Nat
              /\ ToSet(grx[i].b.caps) \subseteq Clocks
         /\ \A k \in DOMAIN tq : /\ tq[k] \in Telemetry /\ tq[k].of \in Clocks
                                 /\ tq[k].stamp \in Nat /\ tq[k].of \in Nat
<1>1. node.clock \in Nat /\ node.boot \in Nat /\ \A c \in Clocks : c \in Nat
  BY RingIsTrack, SessionsAreNumbers, Bounds DEF TypeInv
<1>2. ToSet(node.ring) \subseteq Clocks
  BY RingIsTrack DEF TypeInv, ToSet
<1>3. node.out => node.batch \in Built
  BY DEF TypeInv, NodeType, Judged, Unjudged
<1>4. \A i \in DOMAIN grx : grx[i] \in Uplinks
  BY SessionsAreNumbers
<1>5. \A m \in Uplinks : IsBatch(m) => m.b \in Built
  BY DEF Uplinks, IsBatch
<1>6. \A k \in DOMAIN tq : tq[k] \in Telemetry
  BY SessionsAreNumbers
<1>7. \A m \in Telemetry : m.of \in Clocks /\ m.stamp \in Nat /\ m.of \in Nat
  BY <1>1 DEF Telemetry
<1>. QED BY <1>1, <1>2, <1>3, <1>4, <1>5, <1>6, <1>7, BuiltIs

\* What is settled are samples.
LEMMA SettledIsTyped == TypeInv => Settled \subseteq Samples
<1>. SUFFICES ASSUME TypeInv PROVE Settled \subseteq Samples
  OBVIOUS
<1>1. \A i \in DOMAIN log : log[i] \in Telemetry
  BY SessionsAreNumbers
<1>2. Recorded \subseteq Samples
  BY <1>1 DEF Recorded, Telemetry, Sample, Samples
<1>3. lost \subseteq Samples /\ svc.misdated \subseteq Samples
  BY DEF TypeInv, HistoryType, SvcType
<1>. QED BY <1>2, <1>3 DEF Settled

\* What a step of the node may do to its ring, its batch and the radio, as
\* far as custody goes.
NodeSends(m) ==
  /\ UNCHANGED <<tq, cq, gw, svc, log, lost>>
  /\ node'.boot = node.boot /\ node.clock <= node'.clock
  /\ \A c \in OnNode' : c \in OnNode \/ c > node.clock
  /\ node'.out => /\ Last(node'.batch.caps) <= node'.clock
                  /\ \A c \in ToSet(node'.ring) : Spans(node'.batch.caps, c)
  /\ grx' = grx \/ grx' = Append(grx, m)
  /\ ~IsBatch(m) => m.boot = node.boot
  /\ IsBatch(m) => /\ m.b \in Built /\ m.b.boot = node.boot
                   /\ Last(m.b.caps) <= node.clock
                   /\ ToSet(m.b.caps) \subseteq OnNode
                   /\ \A c \in OnNode' : Spans(m.b.caps, c)
  /\ \A i \in DOMAIN nrx' : \E j \in DOMAIN nrx : nrx'[i] = nrx[j]
  /\ Unheard => ~node'.bound /\ (grx' = grx \/ ~IsBatch(m))
  /\ acked' \subseteq Settled

\* A step of the node within its boot session keeps custody.
LEMMA SendingKeepsCustody ==
  ASSUME TypeInv, TypeInv', CustodyInv, NEW m, NodeSends(m)
  PROVE  CustodyInv'
<1>. USE DEF CustodyInv
<1>1. Settled' = Settled
  BY DEF NodeSends, Settled, Recorded
<1>2. /\ node'.boot = node.boot /\ node.clock <= node'.clock
      /\ tq' = tq /\ cq' = cq /\ gw' = gw /\ svc' = svc /\ log' = log
      /\ node.clock \in Nat /\ node'.clock \in Nat /\ node.boot \in Nat
  BY FramesInNumbers DEF NodeSends, TypeInv, NodeType, Judged, Unjudged, Nodes
<1>. DEFINE n == Len(grx)
<1>3. /\ n \in Nat /\ DOMAIN grx = 1 .. n
      /\ \/ grx' = grx
         \/ /\ grx' = Append(grx, m) /\ DOMAIN grx' = 1 .. n + 1
            /\ grx'[n + 1] = m /\ \A i \in 1 .. n : grx'[i] = grx[i]
  <2>1. grx \in Seq(Uplinks) /\ (grx' = grx \/ grx' = Append(grx, m))
    BY SessionsAreNumbers DEF NodeSends
  <2>2. /\ n \in Nat /\ DOMAIN grx = 1 .. n
        /\ Len(Append(grx, m)) = n + 1 /\ DOMAIN Append(grx, m) = 1 .. n + 1
        /\ Append(grx, m)[n + 1] = m
        /\ \A i \in 1 .. n : Append(grx, m)[i] = grx[i]
    BY ONLY <2>1
  <2>. QED BY <2>1, <2>2
<1>. HIDE DEF n
<1>4. \A i \in DOMAIN grx' :
        \/ i \in DOMAIN grx /\ grx'[i] = grx[i]
        \/ i = n + 1 /\ grx'[i] = m /\ grx' = Append(grx, m)
  BY <1>3
<1>5. \A c \in Upstream' : c \in Upstream \/ c > node.clock
  <2>. SUFFICES ASSUME NEW c \in Upstream' PROVE c \in Upstream \/ c > node.clock
    OBVIOUS
  <2>1. c \in Clocks
    BY DEF Upstream
  <2>2. CASE c \in OnNode'
    BY <2>1, <2>2 DEF NodeSends, Upstream
  <2>3. CASE \E i \in DOMAIN grx' : IsBatch(grx'[i]) /\ c \in ToSet(grx'[i].b.caps)
    <3>1. PICK i \in DOMAIN grx' : IsBatch(grx'[i]) /\ c \in ToSet(grx'[i].b.caps)
      BY <2>3
    <3>2. CASE i \in DOMAIN grx /\ grx'[i] = grx[i]
      BY <2>1, <3>1, <3>2 DEF Upstream
    <3>3. CASE grx'[i] = m
      <4>1. c \in OnNode
        BY <3>1, <3>3 DEF NodeSends
      <4>. QED BY <2>1, <4>1 DEF Upstream
    <3>. QED BY <1>4, <3>2, <3>3
  <2>4. CASE \E k \in DOMAIN tq' : c = tq'[k].of
    BY <1>2, <2>1, <2>4 DEF Upstream
  <2>. QED BY <2>2, <2>3, <2>4 DEF Upstream, IsBatch
<1>6. Onward
  BY <1>1, <1>2, <1>5 DEF Onward
<1>7. MarksHold'
  <2>1. Marks' \subseteq Marks
    <3>. SUFFICES ASSUME NEW w \in Marks' PROVE w \in Marks
      OBVIOUS
    <3>1. w \in Clocks
      BY DEF Marks
    <3>2. CASE \E i \in DOMAIN nrx' : nrx'[i].type = "BATCH_ACK" /\ w = nrx'[i].w
      BY <3>1, <3>2 DEF Marks, NodeSends
    <3>. QED BY <1>2, <3>1, <3>2 DEF Marks
  <2>. QED BY <1>6, <2>1, MarksStay
<1>8. CursorHolds'
  BY <1>2, <1>6, CursorStays
<1>9. FramesHold'
  <2>1. \A i \in DOMAIN grx' : IsBatch(grx'[i]) =>
           /\ grx'[i].b.boot = node'.boot /\ Last(grx'[i].b.caps) <= node'.clock
           /\ \A c \in OnNode' : Spans(grx'[i].b.caps, c)
    <3>. SUFFICES ASSUME NEW i \in DOMAIN grx', IsBatch(grx'[i])
                  PROVE  /\ grx'[i].b.boot = node.boot
                         /\ Last(grx'[i].b.caps) <= node'.clock
                         /\ \A c \in OnNode' : Spans(grx'[i].b.caps, c)
      BY <1>2
    <3>1. CASE i \in DOMAIN grx /\ grx'[i] = grx[i]
      <4>1. /\ grx[i].b.boot = node.boot /\ Last(grx[i].b.caps) <= node.clock
            /\ Last(grx[i].b.caps) \in Nat
            /\ \A c \in OnNode : Spans(grx[i].b.caps, c)
        BY <3>1, FramesInNumbers DEF FramesHold
      <4>2. \A c \in OnNode' : c \in Nat /\ (c \in OnNode \/ c > node.clock)
        BY Bounds DEF NodeSends, OnNode
      <4>3. \A c \in OnNode' : Spans(grx[i].b.caps, c)
        BY <1>2, <4>1, <4>2 DEF Spans
      <4>4. Last(grx[i].b.caps) <= node'.clock
        BY <1>2, <4>1
      <4>. QED BY <3>1, <4>1, <4>3, <4>4
    <3>2. CASE grx'[i] = m
      <4>1. /\ m.b.boot = node.boot /\ Last(m.b.caps) <= node.clock
            /\ Last(m.b.caps) \in Nat
            /\ \A c \in OnNode' : Spans(m.b.caps, c)
        BY <3>2, BuiltIs DEF NodeSends
      <4>. QED BY <1>2, <3>2, <4>1
    <3>. QED BY <1>4, <3>1, <3>2
  <2>2. \A i, j \in DOMAIN grx' : IsBatch(grx'[i]) /\ IsBatch(grx'[j]) /\ i < j =>
          \A c \in ToSet(grx'[j].b.caps) : Spans(grx'[i].b.caps, c)
    <3>. SUFFICES ASSUME NEW i \in DOMAIN grx', NEW j \in DOMAIN grx', i < j,
                         IsBatch(grx'[i]), IsBatch(grx'[j]),
                         NEW c \in ToSet(grx'[j].b.caps)
                  PROVE  Spans(grx'[i].b.caps, c)
      OBVIOUS
    <3>1. i \in DOMAIN grx /\ grx'[i] = grx[i]
      BY <1>3
    <3>2. CASE j \in DOMAIN grx /\ grx'[j] = grx[j]
      BY <3>1, <3>2 DEF FramesHold
    <3>3. CASE grx'[j] = m
      <4>1. c \in OnNode
        BY <3>3 DEF NodeSends
      <4>. QED BY <3>1, <4>1 DEF FramesHold
    <3>. QED BY <1>4, <3>2, <3>3
  <2>. QED BY <2>1, <2>2 DEF FramesHold, NodeSends, IsBatch, Spans
<1>10. BrokerHolds'
  <2>. SUFFICES ASSUME NEW k \in DOMAIN tq
                PROVE  /\ tq[k].boot = node.boot /\ tq[k].stamp <= tq[k].of
                       /\ tq[k].of <= node'.clock
                       /\ \A c \in Upstream' : c <= tq[k].stamp =>
                            \/ IsSettled(c)'
                            \/ \E l \in DOMAIN tq : l <= k /\ tq[l].of = c
    BY <1>2 DEF BrokerHolds
  <2>1. /\ tq[k].boot = node.boot /\ tq[k].stamp <= tq[k].of
        /\ tq[k].of <= node.clock /\ tq[k].of \in Nat /\ tq[k].stamp \in Nat
        /\ \A c \in Upstream : c <= tq[k].stamp =>
             IsSettled(c) \/ \E l \in DOMAIN tq : l <= k /\ tq[l].of = c
    BY FramesInNumbers DEF BrokerHolds
  <2>2. \A c \in Upstream' : c <= tq[k].stamp => c \in Upstream
    <3>1. \A c \in Upstream' : c \in Nat /\ (c \in Upstream \/ c > node.clock)
      BY <1>5, Bounds DEF Upstream
    <3>. QED BY <1>2, <2>1, <3>1
  <2>3. \A c : IsSettled(c)' = IsSettled(c)
    BY <1>1, <1>2 DEF IsSettled
  <2>4. tq[k].of <= node'.clock
    BY <1>2, <2>1
  <2>. QED BY <2>1, <2>2, <2>3, <2>4
<1>11. SettledIsPast'
  <2>. SUFFICES ASSUME NEW s \in Settled
                PROVE  s.boot <= node.boot /\ (s.boot = node.boot => s.cap <= node'.clock)
    BY <1>1, <1>2 DEF SettledIsPast
  <2>1. s.boot <= node.boot /\ (s.boot = node.boot => s.cap <= node.clock)
    BY DEF SettledIsPast
  <2>2. s.cap \in Nat
    BY SettledIsTyped, FramesInNumbers DEF Samples
  <2>. QED BY <1>2, <2>1, <2>2
<1>12. SessionHolds'
  <2>1. \A i \in DOMAIN grx' : ~IsBatch(grx'[i]) => grx'[i].boot = node'.boot
    BY <1>2, <1>4 DEF SessionHolds, NodeSends
  <2>2. Unheard' = Unheard
    BY <1>2 DEF Unheard
  <2>3. Unheard =>
       /\ ~node'.bound
       /\ \A i \in DOMAIN nrx' : nrx'[i].type # "HELLO_ACK"
       /\ \A i \in DOMAIN grx' : ~IsBatch(grx'[i])
    BY <1>4 DEF SessionHolds, NodeSends
  <2>. QED BY <1>2, <2>1, <2>2, <2>3 DEF SessionHolds, IsBatch
<1>13. AckedIsDurable'
  BY <1>1 DEF NodeSends, AckedIsDurable
<1>. QED BY <1>7, <1>8, <1>9, <1>10, <1>11, <1>12, <1>13

\* A step of the node that offers the radio nothing.
LEMMA QuietNodeStep ==
  ASSUME TypeInv, TypeInv', CustodyInv,
         UNCHANGED <<grx, tq, cq, gw, svc, log, lost>>,
         node'.boot = node.boot, node.clock <= node'.clock,
         \A c \in OnNode' : c \in OnNode \/ c > node.clock,
         node'.out => /\ Last(node'.batch.caps) <= node'.clock
                      /\ \A c \in ToSet(node'.ring) : Spans(node'.batch.caps, c),
         \A i \in DOMAIN nrx' : \E j \in DOMAIN nrx : nrx'[i] = nrx[j],
         Unheard => ~node'.bound,
         acked' \subseteq Settled
  PROVE  CustodyInv'
<1>. DEFINE m == HELLO(node.boot)
<1>1. ~IsBatch(m) /\ m.boot = node.boot
  BY DEF HELLO, IsBatch
<1>. HIDE DEF m
<1>2. NodeSends(m)
  BY <1>1 DEF NodeSends
<1>. QED BY <1>2, SendingKeepsCustody

\* A queue that did not change, or got something at its end.
LEMMA SameQueue ==
  ASSUME nrx' \in {nrx, <<>>}
  PROVE  \A i \in DOMAIN nrx' : \E j \in DOMAIN nrx : nrx'[i] = nrx[j]
<1>1. DOMAIN <<>> = {}
  OBVIOUS
<1>. QED BY <1>1

\* A queue something was taken off.
LEMMA TakenQueue ==
  ASSUME TypeInv, nrx # <<>>, nrx' = Tail(nrx)
  PROVE  \A i \in DOMAIN nrx' : \E j \in DOMAIN nrx : nrx'[i] = nrx[j]
<1>1. nrx \in Seq(Downlinks)
  BY DEF TypeInv, RadioType
<1>2. /\ DOMAIN Tail(nrx) = 1 .. Len(nrx) - 1 /\ DOMAIN nrx = 1 .. Len(nrx)
      /\ \A i \in 1 .. Len(nrx) - 1 : Tail(nrx)[i] = nrx[i + 1] /\ i + 1 \in 1 .. Len(nrx)
  BY <1>1, Served
<1>. QED BY <1>2

\* Every step of the node keeps custody.
LEMMA NodeStepKeepsCustody ==
  ASSUME TypeInv, TypeInv', OrderInv, CustodyInv, NodeStep
  PROVE  CustodyInv'
<1>1. /\ NodeType /\ RadioType /\ faults \in 0 .. MaxFaults
      /\ AckedIsDurable /\ FramesHold /\ SessionHolds /\ MarksHold
  BY DEF TypeInv, HistoryType, CustodyInv
<1>2. /\ node.clock \in Nat /\ node.boot \in Nat /\ \A c \in Clocks : c \in Nat
      /\ ToSet(node.ring) \subseteq Clocks
  BY FramesInNumbers
<1>3. node.out => /\ Last(node.batch.caps) <= node.clock
                  /\ Last(node.batch.caps) \in Nat
                  /\ ToSet(node.batch.caps) \subseteq Clocks
                  /\ \A c \in ToSet(node.ring) : Spans(node.batch.caps, c)
  BY <1>1, FramesInNumbers DEF FramesHold
<1>4. Unheard => ~node.bound
  BY <1>1 DEF SessionHolds
<1>5. acked \subseteq Settled
  BY <1>1 DEF AckedIsDurable
<1>6. \A i \in DOMAIN nrx : \E j \in DOMAIN nrx : nrx[i] = nrx[j]
  OBVIOUS
<1>7. CASE Capture
  <2>1. /\ UNCHANGED <<grx, nrx, tq, cq, gw, svc, log, lost, acked>>
        /\ node'.boot = node.boot /\ node'.clock = node.clock + 1
        /\ node'.out = node.out /\ node'.batch = node.batch /\ node'.bound = node.bound
        /\ ToSet(node'.ring) \subseteq ToSet(node.ring) \cup {node.clock + 1}
    BY <1>1, <1>7, CaptureIs DEF Capture
  <2>2. node.clock + 1 > node.clock /\ node.clock <= node.clock + 1
    BY <1>2
  <2>3. \A c \in OnNode' : c \in OnNode \/ c > node.clock
    BY <2>1, <2>2 DEF OnNode
  <2>4. node'.out => /\ Last(node'.batch.caps) <= node'.clock
                     /\ \A c \in ToSet(node'.ring) : Spans(node'.batch.caps, c)
    <3>. SUFFICES ASSUME node.out
                  PROVE  /\ Last(node.batch.caps) <= node.clock + 1
                         /\ \A c \in ToSet(node.ring) \cup {node.clock + 1} :
                              Spans(node.batch.caps, c)
      BY <2>1
    <3>1. Last(node.batch.caps) <= node.clock + 1 /\ ~(node.clock + 1 <= Last(node.batch.caps))
      BY <1>2, <1>3
    <3>. QED BY <1>3, <3>1 DEF Spans
  <2>. QED BY <1>4, <1>5, <1>6, <2>1, <2>2, <2>3, <2>4, QuietNodeStep
<1>8. CASE ScanHello
  <2>. DEFINE m == HELLO(node.boot)
  <2>1. ~IsBatch(m) /\ m.boot = node.boot
    BY DEF HELLO, IsBatch
  <2>2. /\ UNCHANGED <<node, nrx, tq, cq, gw, svc, log, lost, acked>>
        /\ grx' = grx \/ grx' = Append(grx, m)
    BY <1>8 DEF ScanHello, Transmit, Offer
  <2>. HIDE DEF m
  <2>3. OnNode' = OnNode
    BY <2>2 DEF OnNode
  <2>4. NodeSends(m)
    BY <1>2, <1>3, <1>4, <1>5, <2>1, <2>2, <2>3 DEF NodeSends
  <2>. QED BY <2>4, SendingKeepsCustody
<1>9. CASE ScanRx
  <2>1. /\ nrx # <<>> /\ nrx' = Tail(nrx)
        /\ UNCHANGED <<grx, tq, cq, gw, svc, log, lost, acked>>
        /\ node'.boot = node.boot /\ node'.clock = node.clock
        /\ node'.ring = node.ring
        /\ node'.out => node.out /\ node'.batch = node.batch
    BY <1>1, <1>9 DEF ScanRx, NodeType, Judged, Unjudged, Nodes
  <2>2. Unheard => ~node'.bound
    <3>1. nrx \in Seq(Downlinks) /\ Head(nrx) = nrx[1] /\ 1 \in DOMAIN nrx
      BY <1>1, <2>1, Served DEF RadioType
    <3>2. Unheard => Head(nrx).type # "HELLO_ACK"
      BY <1>1, <3>1 DEF SessionHolds
    <3>. QED BY <1>4, <1>9, <3>2 DEF ScanRx
  <2>3. \A c \in OnNode' : c \in OnNode \/ c > node.clock
    BY <2>1 DEF OnNode
  <2>4. node.clock <= node.clock
    BY <1>2
  <2>5. \A i \in DOMAIN nrx' : \E j \in DOMAIN nrx : nrx'[i] = nrx[j]
    BY <2>1, TakenQueue
  <2>. QED BY <1>3, <1>5, <2>1, <2>2, <2>3, <2>4, <2>5, QuietNodeStep
<1>10. CASE SendBatch
  <2>. DEFINE m == BATCH(NewBatch)
  <2>1. /\ node.bound /\ ~node.out /\ node.ring # <<>>
        /\ \E ok \in BOOLEAN : Transmit(grx, grx', m, ok)
        /\ nrx' \in {nrx, <<>>}
        /\ node'.ring = node.ring /\ node'.boot = node.boot
        /\ node'.clock = node.clock /\ node'.batch = NewBatch
    BY <1>1, <1>10, SendBatchIs
  <2>2. UNCHANGED <<tq, cq, gw, svc, log, lost, acked>>
    BY <1>10 DEF SendBatch
  <2>3. NewBatch \in Built /\ IsFrameOf(Clocks, node.ring, NewBatch.caps)
    BY <1>1, <2>1, NewBatchIs
  <2>4. IsBatch(m) /\ m.b = NewBatch /\ NewBatch.boot = node.boot
    BY DEF BATCH, IsBatch, NewBatch
  <2>5. /\ ToSet(NewBatch.caps) \subseteq ToSet(node.ring)
        /\ Last(NewBatch.caps) <= node.clock
        /\ \A c \in ToSet(node.ring) : Spans(NewBatch.caps, c)
    <3>1. Last(node.ring) = node.clock
      BY <1>1, <2>1 DEF NodeType, Judged, Unjudged
    <3>. QED BY <2>3, <3>1 DEF IsFrameOf, Spans
  <2>6. grx' = grx \/ grx' = Append(grx, m)
    BY <2>1 DEF Transmit, Offer
  <2>. HIDE DEF m
  <2>7. \A c \in OnNode' : c \in ToSet(node.ring) /\ c \in OnNode
    BY <2>1, <2>5 DEF OnNode
  <2>8. ToSet(NewBatch.caps) \subseteq OnNode
    BY <1>2, <2>5 DEF OnNode
  <2>9. NodeSends(m)
    <3>1. \A i \in DOMAIN nrx' : \E j \in DOMAIN nrx : nrx'[i] = nrx[j]
      BY <2>1, SameQueue
    <3>2. node.clock <= node.clock
      BY <1>2
    <3>3. ~Unheard
      BY <1>4, <2>1
    <3>. QED BY <1>5, <2>1, <2>2, <2>3, <2>4, <2>5, <2>6, <2>7, <2>8, <3>1, <3>2, <3>3
            DEF NodeSends
  <2>. QED BY <2>9, SendingKeepsCustody
<1>11. CASE Retransmit
  <2>. DEFINE m == BATCH(node.batch)
  <2>1. /\ node.bound /\ node.out /\ node.batch \in Built
        /\ \/ grx' = grx
           \/ \E ok \in BOOLEAN : Transmit(grx, grx', m, ok)
        /\ nrx' \in {nrx, <<>>}
        /\ node'.ring = node.ring /\ node'.boot = node.boot
        /\ node'.clock = node.clock /\ node'.batch = node.batch
    BY <1>1, <1>11, RetransmitIs
  <2>2. UNCHANGED <<tq, cq, gw, svc, log, lost, acked>>
    BY <1>11 DEF Retransmit
  <2>3. IsBatch(m) /\ m.b = node.batch /\ node.batch.boot = node.boot
    BY <2>1 DEF BATCH, IsBatch, OrderInv, RadioOrder
  <2>4. grx' = grx \/ grx' = Append(grx, m)
    BY <2>1 DEF Transmit, Offer
  <2>. HIDE DEF m
  <2>5. \A c \in OnNode' : c \in OnNode /\ Spans(node.batch.caps, c)
    BY <1>3, <2>1 DEF OnNode, Spans
  <2>6. ToSet(node.batch.caps) \subseteq OnNode
    BY <1>3, <2>1 DEF OnNode
  <2>7. NodeSends(m)
    <3>1. \A i \in DOMAIN nrx' : \E j \in DOMAIN nrx : nrx'[i] = nrx[j]
      BY <2>1, SameQueue
    <3>2. node.clock <= node.clock
      BY <1>2
    <3>3. ~Unheard
      BY <1>4, <2>1
    <3>. QED BY <1>3, <1>5, <2>1, <2>2, <2>3, <2>4, <2>5, <2>6, <3>1, <3>2, <3>3
            DEF NodeSends
  <2>. QED BY <2>7, SendingKeepsCustody
<1>12. CASE Heartbeat
  <2>1. /\ node.bound /\ ~node.out /\ nrx' \in {nrx, <<>>}
        /\ node'.ring = node.ring /\ node'.boot = node.boot
        /\ node'.clock = node.clock /\ ~node'.out
    BY <1>1, <1>12, HeartbeatIs
  <2>2. UNCHANGED <<grx, tq, cq, gw, svc, log, lost, acked>>
    BY <1>12 DEF Heartbeat
  <2>3. \A c \in OnNode' : c \in OnNode \/ c > node.clock
    BY <2>1 DEF OnNode
  <2>4. node.clock <= node.clock /\ ~Unheard
    BY <1>2, <1>4, <2>1
  <2>5. \A i \in DOMAIN nrx' : \E j \in DOMAIN nrx : nrx'[i] = nrx[j]
    BY <2>1, SameQueue
  <2>. QED BY <1>5, <2>1, <2>2, <2>3, <2>4, <2>5, QuietNodeStep
<1>13. CASE NodeRx
  <2>1. /\ UNCHANGED <<grx, tq, cq, gw, svc, log, lost>>
        /\ nrx # <<>> /\ nrx' = Tail(nrx) /\ node.bound
    BY <1>13 DEF NodeRx
  <2>2. \A i \in DOMAIN nrx' : \E j \in DOMAIN nrx : nrx'[i] = nrx[j]
    BY <2>1, TakenQueue
  <2>3. node.clock <= node.clock /\ ~Unheard
    BY <1>2, <1>4, <2>1
  <2>4. CASE node' = node /\ acked' = acked
    <3>1. \A c \in OnNode' : c \in OnNode \/ c > node.clock
      BY <2>4 DEF OnNode
    <3>. QED BY <1>3, <1>5, <2>1, <2>2, <2>3, <2>4, <3>1, QuietNodeStep
  <2>5. ASSUME Head(nrx) \in [type : {"BATCH_ACK"}, w : Clocks],
               node'.ring \in Seq(Clocks),
               ToSet(node'.ring) = {c \in ToSet(node.ring) : c > Head(nrx).w},
               node'.boot = node.boot, node'.clock = node.clock,
               node'.bound = node.bound, ~node'.out,
               acked' = acked \cup {Sample(node.boot, c) : c \in
                                      ToSet(node.ring) \ ToSet(node'.ring)}
        PROVE  CustodyInv'
    <3>. DEFINE w == Head(nrx).w
    <3>1. Reached(w) /\ w \in Nat
      <4>1. nrx \in Seq(Downlinks) /\ Head(nrx) = nrx[1] /\ 1 \in DOMAIN nrx
        BY <1>1, <2>1, Served DEF RadioType
      <4>2. w \in Clocks /\ Head(nrx).type = "BATCH_ACK"
        BY <2>5
      <4>3. w \in Marks
        BY <4>1, <4>2 DEF Marks
      <4>. QED BY <1>1, <1>2, <4>2, <4>3 DEF MarksHold, Sound
    <3>2. \A c \in ToSet(node.ring) \ ToSet(node'.ring) :
            Sample(node.boot, c) \in Settled
      <4>. SUFFICES ASSUME NEW c \in ToSet(node.ring), c \notin ToSet(node'.ring)
                    PROVE  IsSettled(c)
        BY DEF IsSettled
      <4>. HIDE DEF w
      <4>1. c \in Clocks /\ c \in Nat /\ ~(c > w)
        BY <1>2, <2>5 DEF w
      <4>2. c \in Upstream /\ c <= w
        BY <3>1, <4>1 DEF Upstream, OnNode
      <4>. QED BY <3>1, <4>2 DEF Reached
    <3>3. \A c \in OnNode' : c \in OnNode \/ c > node.clock
      BY <2>5 DEF OnNode
    <3>4. acked' \subseteq Settled
      BY <1>5, <2>5, <3>2
    <3>. QED BY <2>1, <2>2, <2>3, <2>5, <3>3, <3>4, QuietNodeStep
  <2>. QED BY <1>1, <1>13, <2>4, <2>5, NodeRxIs
<1>. QED BY <1>7, <1>8, <1>9, <1>10, <1>11, <1>12, <1>13 DEF NodeStep

\* A queue keeps its order when something is taken off its head.
Behind(q, q1) ==
  \E d \in {0, 1} : \A i \in DOMAIN q1 : i + d \in DOMAIN q /\ q1[i] = q[i + d]

\* Where the entries behind come from.
LEMMA BehindIs ==
  ASSUME NEW S, NEW q \in Seq(S), NEW q1,
         q1 = q \/ q1 = <<>> \/ (q # <<>> /\ q1 = Tail(q))
  PROVE  Behind(q, q1) /\ \A i \in DOMAIN q1 : \E j \in DOMAIN q : q1[i] = q[j]
<1>1. CASE q1 = q
  <2>1. \A i \in DOMAIN q1 : i + 0 \in DOMAIN q /\ q1[i] = q[i + 0]
    BY <1>1
  <2>. QED BY <1>1, <2>1 DEF Behind
<1>2. CASE q1 = <<>>
  <2>1. DOMAIN q1 = {}
    BY <1>2
  <2>. QED BY <2>1 DEF Behind
<1>3. CASE q # <<>> /\ q1 = Tail(q)
  <2>1. \A i \in DOMAIN q1 : i + 1 \in DOMAIN q /\ q1[i] = q[i + 1]
    BY <1>3
  <2>. QED BY <2>1 DEF Behind
<1>. QED BY <1>1, <1>2, <1>3

\* What the gateway may do to custody short of publishing.
GatewayPasses ==
  /\ UNCHANGED <<node, svc, log, lost, acked, tq>>
  /\ Behind(grx, grx')
  /\ \A i \in DOMAIN cq' : \E j \in DOMAIN cq : cq'[i] = cq[j]
  /\ \A i \in DOMAIN nrx' :
       \/ \E j \in DOMAIN nrx : nrx'[i] = nrx[j]
       \/ nrx'[i].type = "BATCH_ACK" => nrx'[i].w \in Marks
  /\ gw'.have_commit /\ gw'.last_boot = node.boot => gw'.commit \in Marks

\* The frames behind those taken.
LEMMA TakingKeepsFrames ==
  ASSUME TypeInv, TypeInv', FramesHold, Behind(grx, grx'), node' = node
  PROVE  FramesHold'
<1>1. PICK d \in {0, 1} : \A i \in DOMAIN grx' : i + d \in DOMAIN grx /\ grx'[i] = grx[i + d]
  BY DEF Behind
<1>2. \A i \in DOMAIN grx' : IsBatch(grx'[i]) =>
        /\ grx'[i].b.boot = node.boot /\ Last(grx'[i].b.caps) <= node.clock
        /\ \A c \in OnNode : Spans(grx'[i].b.caps, c)
  BY <1>1 DEF FramesHold
<1>3. \A i, j \in DOMAIN grx' : IsBatch(grx'[i]) /\ IsBatch(grx'[j]) /\ i < j =>
        \A c \in ToSet(grx'[j].b.caps) : Spans(grx'[i].b.caps, c)
  <2>. SUFFICES ASSUME NEW i \in DOMAIN grx', NEW j \in DOMAIN grx', i < j,
                       IsBatch(grx'[i]), IsBatch(grx'[j]),
                       NEW c \in ToSet(grx'[j].b.caps)
                PROVE  Spans(grx'[i].b.caps, c)
    OBVIOUS
  <2>1. i + d < j + d
    <3>1. i + d \in DOMAIN grx /\ j + d \in DOMAIN grx
      BY <1>1
    <3>2. grx' \in Seq(Uplinks) /\ DOMAIN grx' = 1 .. Len(grx')
      BY DEF TypeInv, RadioType
    <3>3. i \in Int /\ j \in Int
      BY <3>2
    <3>. QED BY <3>3
  <2>. QED BY <1>1, <2>1 DEF FramesHold
<1>4. OnNode' = OnNode
  BY DEF OnNode
<1>. QED BY <1>2, <1>3, <1>4 DEF FramesHold, IsBatch, Spans

\* A gateway step that publishes nothing keeps custody.
LEMMA PassingKeepsCustody ==
  ASSUME TypeInv, TypeInv', CustodyInv, GatewayPasses, SessionHolds'
  PROVE  CustodyInv'
<1>. USE DEF CustodyInv
<1>1. /\ Settled' = Settled /\ node' = node /\ svc' = svc /\ log' = log /\ tq' = tq
      /\ acked' = acked
  BY DEF GatewayPasses, Settled, Recorded
<1>2. OnNode' = OnNode /\ \A c : IsSettled(c)' = IsSettled(c)
  BY <1>1 DEF OnNode, IsSettled
<1>3. Upstream' \subseteq Upstream
  <2>1. \A i \in DOMAIN grx' : \E j \in DOMAIN grx : grx'[i] = grx[j]
    BY DEF GatewayPasses, Behind
  <2>. QED BY <1>1, <1>2, <2>1 DEF Upstream, IsBatch
<1>4. Onward
  BY <1>1, <1>3, FramesInNumbers DEF Onward
<1>5. MarksHold'
  <2>1. Marks' \subseteq Marks
    <3>. SUFFICES ASSUME NEW w \in Marks' PROVE w \in Marks
      OBVIOUS
    <3>1. w \in Clocks
      BY DEF Marks
    <3>2. CASE \E i \in DOMAIN nrx' : nrx'[i].type = "BATCH_ACK" /\ w = nrx'[i].w
      BY <3>1, <3>2 DEF Marks, GatewayPasses
    <3>3. CASE \E i \in DOMAIN cq' : w = cq'[i]
      BY <3>1, <3>3 DEF Marks, GatewayPasses
    <3>4. CASE gw'.have_commit /\ gw'.last_boot = node'.boot /\ w = gw'.commit
      BY <1>1, <3>4 DEF GatewayPasses
    <3>5. CASE svc'.pc # "idle" /\ w = svc'.msg.stamp
      BY <1>1, <3>1, <3>5 DEF Marks
    <3>. QED BY <3>2, <3>3, <3>4, <3>5 DEF Marks
  <2>. QED BY <1>4, <2>1, MarksStay
<1>6. CursorHolds'
  BY <1>1, <1>4, CursorStays
<1>7. FramesHold'
  BY <1>1, TakingKeepsFrames DEF GatewayPasses
<1>8. BrokerHolds'
  BY <1>1, <1>2, <1>3 DEF BrokerHolds
<1>9. SettledIsPast' /\ AckedIsDurable'
  BY <1>1 DEF SettledIsPast, AckedIsDurable
<1>. QED BY <1>5, <1>6, <1>7, <1>8, <1>9

\* The session as it is seen from a gateway step that hears no HELLO.
LEMMA SessionStays ==
  ASSUME SessionHolds, UNCHANGED <<node, svc, tq>>,
         Behind(grx, grx'),
         \A i \in DOMAIN cq' : \E j \in DOMAIN cq : cq'[i] = cq[j],
         \A i \in DOMAIN nrx' :
           (\E j \in DOMAIN nrx : nrx'[i] = nrx[j]) \/ nrx'[i].type # "HELLO_ACK",
         gw'.known = gw.known, gw'.last_boot = gw.last_boot,
         ~gw.known => gw'.have_commit = gw.have_commit /\ gw'.pc = gw.pc,
         Unheard => gw'.pc = gw.pc /\ cq' = cq
  PROVE  SessionHolds'
<1>1. \A i \in DOMAIN grx' : \E j \in DOMAIN grx : grx'[i] = grx[j]
  BY DEF Behind
<1>2. Unheard' = Unheard
  BY DEF Unheard
<1>3. Unheard =>
       /\ \A i \in DOMAIN nrx' : nrx'[i].type # "HELLO_ACK"
       /\ \A i \in DOMAIN grx' : ~IsBatch(grx'[i])
  BY <1>1 DEF SessionHolds
<1>4. \A i \in DOMAIN grx' : ~IsBatch(grx'[i]) => grx'[i].boot = node.boot
  BY <1>1 DEF SessionHolds
<1>. QED BY <1>2, <1>3, <1>4 DEF SessionHolds, IsBatch

\* An acknowledgement that goes out names a mark.
LEMMA AckIsMark ==
  ASSUME TypeInv, NEW w \in Clocks, AckNode(w)
  PROVE  \A i \in DOMAIN nrx' :
           \/ \E j \in DOMAIN nrx : nrx'[i] = nrx[j]
           \/ nrx'[i].type = "BATCH_ACK" /\ nrx'[i].w = w
<1>1. nrx \in Seq(Downlinks) /\ (nrx' = nrx \/ nrx' = Append(nrx, BATCH_ACK(w)))
  BY AckNodeIs DEF TypeInv, RadioType
<1>. DEFINE n == Len(nrx)
<1>2. CASE nrx' = Append(nrx, BATCH_ACK(w))
  <2>1. /\ DOMAIN nrx' = 1 .. n + 1 /\ DOMAIN nrx = 1 .. n /\ n \in Nat
        /\ \A i \in 1 .. n : nrx'[i] = nrx[i]
        /\ nrx'[n + 1] = BATCH_ACK(w)
    BY <1>1, <1>2
  <2>2. \A i \in 1 .. n + 1 : i \in 1 .. n \/ i = n + 1
    BY <2>1
  <2>. HIDE DEF n
  <2>. QED BY <2>1, <2>2 DEF BATCH_ACK
<1>. QED BY <1>1, <1>2

\* A HELLO keeps custody: a new boot session voids the watermark of the old.
LEMMA HelloKeepsCustody ==
  ASSUME TypeInv, TypeInv', CustodyInv, GwHello
  PROVE  CustodyInv'
<1>. DEFINE boot == Head(grx).boot
<1>1. /\ gw.pc = "idle" /\ grx # <<>> /\ Head(grx).type = "HELLO"
      /\ boot \in Boots /\ grx' = Tail(grx)
      /\ nrx' = nrx \/ nrx' = Append(nrx, HELLO_ACK)
      /\ gw' = GwSeen(boot) \/ gw' = [GwSeen(boot) EXCEPT !.anchor = boot]
  BY GwHelloIs
<1>2. UNCHANGED <<node, tq, cq, svc, log, acked, lost>>
  BY DEF GwHello
<1>3. boot = node.boot
  <2>1. grx \in Seq(Uplinks) /\ Head(grx) = grx[1] /\ 1 \in DOMAIN grx
    BY <1>1, SessionsAreNumbers, Served
  <2>. QED BY <1>1, <2>1 DEF CustodyInv, SessionHolds, IsBatch
<1>. HIDE DEF boot
<1>4. /\ gw'.known /\ gw'.last_boot = boot /\ gw'.pc = gw.pc
      /\ gw'.have_commit => gw.have_commit /\ gw.last_boot = boot
      /\ gw'.commit = gw.commit
  BY <1>1 DEF GwSeen, TypeInv, GwType
<1>5. Behind(grx, grx') /\ \A i \in DOMAIN grx' : \E j \in DOMAIN grx : grx'[i] = grx[j]
  <2>1. grx \in Seq(Uplinks) /\ grx # <<>> /\ grx' = Tail(grx)
    BY <1>1, SessionsAreNumbers
  <2>2. Behind(grx, grx')
    BY <2>1, BehindIs
  <2>. QED BY <2>2 DEF Behind
<1>6. \A i \in DOMAIN nrx' :
        (\E j \in DOMAIN nrx : nrx'[i] = nrx[j]) \/ nrx'[i] = HELLO_ACK
  <2>1. nrx \in Seq(Downlinks)
    BY DEF TypeInv, RadioType
  <2>. DEFINE n == Len(nrx)
  <2>2. CASE nrx' = Append(nrx, HELLO_ACK)
    <3>1. /\ DOMAIN nrx' = 1 .. n + 1 /\ DOMAIN nrx = 1 .. n /\ n \in Nat
          /\ \A i \in 1 .. n : nrx'[i] = nrx[i]
          /\ nrx'[n + 1] = HELLO_ACK
      BY <2>1, <2>2
    <3>2. \A i \in 1 .. n + 1 : i \in 1 .. n \/ i = n + 1
      BY <3>1
    <3>. HIDE DEF n
    <3>. QED BY <3>1, <3>2
  <2>. QED BY <1>1, <2>2
<1>7. SessionHolds'
  <2>1. ~Unheard'
    BY <1>2, <1>3, <1>4 DEF Unheard
  <2>2. \A i \in DOMAIN grx' : ~IsBatch(grx'[i]) => grx'[i].boot = node.boot
    BY <1>5 DEF CustodyInv, SessionHolds
  <2>3. node.boot <= node.boot
    BY FramesInNumbers
  <2>. QED BY <1>2, <1>3, <1>4, <2>1, <2>2, <2>3 DEF CustodyInv, SessionHolds, IsBatch
<1>8. GatewayPasses
  <2>1. HELLO_ACK.type # "BATCH_ACK"
    BY DEF HELLO_ACK
  <2>2. gw'.have_commit /\ gw'.last_boot = node.boot => gw'.commit \in Marks
    <3>1. gw'.have_commit => gw.have_commit /\ gw.last_boot = node.boot
                             /\ gw.commit \in Clocks
      BY <1>3, <1>4 DEF TypeInv, GwType
    <3>. QED BY <1>4, <3>1 DEF Marks
  <2>. QED BY <1>2, <1>5, <1>6, <2>1, <2>2 DEF GatewayPasses
<1>. QED BY <1>7, <1>8, PassingKeepsCustody

\* Every other step of the gateway but publishing.
LEMMA GwPassKeepsCustody ==
  ASSUME TypeInv, TypeInv', CustodyInv,
         UNCHANGED <<node, svc, log, lost, acked, tq>>,
         grx' = grx \/ (grx # <<>> /\ grx' = Tail(grx)),
         cq' = cq \/ (cq # <<>> /\ cq' = Tail(cq)),
         UNCHANGED nrx \/ \E w \in Marks : AckNode(w),
         gw'.known = gw.known, gw'.last_boot = gw.last_boot,
         ~gw.known => gw'.have_commit = gw.have_commit /\ gw'.pc = gw.pc,
         Unheard => gw'.pc = gw.pc /\ cq' = cq,
         \/ gw'.have_commit = gw.have_commit /\ gw'.commit = gw.commit
         \/ gw'.commit \in Marks
  PROVE  CustodyInv'
<1>1. Behind(grx, grx')
  BY SessionsAreNumbers, BehindIs
<1>2. \A i \in DOMAIN cq' : \E j \in DOMAIN cq : cq'[i] = cq[j]
  <2>1. cq \in Seq(Clocks)
    BY DEF TypeInv, GwType
  <2>. QED BY <2>1, BehindIs
<1>3. \A i \in DOMAIN nrx' :
        \/ \E j \in DOMAIN nrx : nrx'[i] = nrx[j]
        \/ nrx'[i].type = "BATCH_ACK" /\ nrx'[i].w \in Marks
  <2>1. CASE UNCHANGED nrx
    BY <2>1
  <2>2. ASSUME NEW w \in Marks, AckNode(w)
        PROVE  \A i \in DOMAIN nrx' :
                 \/ \E j \in DOMAIN nrx : nrx'[i] = nrx[j]
                 \/ nrx'[i].type = "BATCH_ACK" /\ nrx'[i].w \in Marks
    <3>1. w \in Clocks
      BY DEF Marks
    <3>. QED BY <2>2, <3>1, AckIsMark
  <2>. QED BY <2>1, <2>2
<1>4. SessionHolds'
  BY <1>1, <1>2, <1>3, SessionStays DEF CustodyInv
<1>5. gw'.have_commit /\ gw'.last_boot = node.boot => gw'.commit \in Marks
  <2>1. gw.have_commit => gw.commit \in Clocks
    BY DEF TypeInv, GwType
  <2>. QED BY <2>1 DEF Marks
<1>6. GatewayPasses
  BY <1>1, <1>2, <1>3, <1>5 DEF GatewayPasses
<1>. QED BY <1>4, <1>6, PassingKeepsCustody

\* Publishing moves a frame's samples from the radio to the broker, and every
\* one of them goes behind what there is of its span, or is swallowed.
LEMMA PublishingKeepsCustody ==
  ASSUME TypeInv, TypeInv', CustodyInv, GwBatch, gw.known,
         Publish(Head(grx).b), UNCHANGED nrx,
         gw'.known = gw.known, gw'.last_boot = gw.last_boot,
         gw'.have_commit = gw.have_commit, gw'.commit = gw.commit
  PROVE  CustodyInv'
<1>. USE DEF CustodyInv
<1>. DEFINE b == Head(grx).b
            t == Len(tq)
<1>1. /\ grx # <<>> /\ grx' = Tail(grx) /\ b \in Built /\ IsBatch(Head(grx))
      /\ node' = node /\ cq' = cq /\ svc' = svc /\ log' = log /\ acked' = acked
      /\ nrx' = nrx
  BY GwBatchIs DEF GwBatch, IsBatch
<1>2. PICK pub, at :
        /\ Published(b, pub, at) /\ tq' = tq \o pub
        /\ \/ pub = <<>> /\ lost' = lost
           \/ lost' = lost \cup Missing(b, pub, at)
  <2>1. SvcType /\ HistoryType
    BY DEF TypeInv
  <2>. QED BY <1>1, <2>1, PublishIs
<1>. DEFINE q == Len(pub)
<1>3. /\ grx \in Seq(Uplinks) /\ Head(grx) = grx[1] /\ 1 \in DOMAIN grx
      /\ \A i \in DOMAIN grx' : i + 1 \in DOMAIN grx /\ grx'[i] = grx[i + 1] /\ 1 < i + 1
  BY <1>1, SessionsAreNumbers, Served
<1>4. /\ b.boot = node.boot /\ Last(b.caps) <= node.clock /\ Last(b.caps) \in Nat
      /\ ToSet(b.caps) \subseteq Clocks
      /\ \A c \in ToSet(b.caps) : c <= Last(b.caps) /\ c \in Nat
      /\ \A c \in OnNode : Spans(b.caps, c)
      /\ \A i \in DOMAIN grx' : IsBatch(grx'[i]) =>
           \A c \in ToSet(grx'[i].b.caps) : Spans(b.caps, c)
  <2>1. b.boot = node.boot /\ Last(b.caps) <= node.clock
        /\ \A c \in OnNode : Spans(b.caps, c)
    BY <1>1, <1>3 DEF FramesHold
  <2>2. \A i \in DOMAIN grx' : IsBatch(grx'[i]) =>
           \A c \in ToSet(grx'[i].b.caps) : Spans(b.caps, c)
    BY <1>1, <1>3 DEF FramesHold
  <2>3. /\ Last(b.caps) \in Nat /\ ToSet(b.caps) \subseteq Clocks
        /\ \A c \in ToSet(b.caps) : c <= Last(b.caps)
    BY <1>1, BuiltIs
  <2>. QED BY <2>1, <2>2, <2>3, FramesInNumbers
<1>5. /\ t \in Nat /\ q \in Nat /\ DOMAIN tq = 1 .. t /\ DOMAIN tq' = 1 .. t + q
      /\ \A k \in 1 .. t : tq'[k] = tq[k]
      /\ \A p \in 1 .. q : t + p \in 1 .. t + q /\ tq'[t + p] = pub[p]
      /\ \A k \in 1 .. t + q : k \in 1 .. t \/ (k > t /\ k - t \in 1 .. q
                                                /\ t + (k - t) = k)
  <2>1. tq \in Seq(Telemetry) /\ pub \in Seq(Telemetry)
    BY <1>2, SessionsAreNumbers DEF Published
  <2>2. /\ t \in Nat /\ q \in Nat /\ DOMAIN tq = 1 .. t /\ DOMAIN tq' = 1 .. t + q
        /\ \A k \in 1 .. t : tq'[k] = tq[k]
        /\ \A p \in 1 .. q : tq'[t + p] = pub[p]
    BY <1>2, <2>1
  <2>. HIDE DEF t, q
  <2>. QED BY <2>2
<1>. HIDE DEF t, q, b
\* The messages, one by one.
<1>6. \A p \in 1 .. q : /\ at[p] \in DOMAIN b.caps /\ b.caps[at[p]] \in ToSet(b.caps)
                        /\ pub[p] = Message(b, at[p])
                        /\ pub[p].boot = node.boot /\ pub[p].of = b.caps[at[p]]
                        /\ pub[p].stamp <= b.caps[at[p]] /\ pub[p].stamp \in Nat
                        /\ b.caps[at[p]] \in Nat /\ b.caps[at[p]] <= Last(b.caps)
  <2>. SUFFICES ASSUME NEW p \in 1 .. q
                PROVE  /\ at[p] \in DOMAIN b.caps /\ b.caps[at[p]] \in ToSet(b.caps)
                       /\ pub[p] = Message(b, at[p])
                       /\ pub[p].boot = node.boot /\ pub[p].of = b.caps[at[p]]
                       /\ pub[p].stamp <= b.caps[at[p]] /\ pub[p].stamp \in Nat
                       /\ b.caps[at[p]] \in Nat /\ b.caps[at[p]] <= Last(b.caps)
    OBVIOUS
  <2>1. at[p] \in DOMAIN b.caps /\ pub[p] = Message(b, at[p])
    BY <1>1, <1>2 DEF Published, Built, Tracks, q
  <2>2. b.caps[at[p]] \in ToSet(b.caps)
    BY <2>1 DEF ToSet
  <2>3. /\ pub[p].boot = b.boot /\ pub[p].of = b.caps[at[p]]
        /\ pub[p].stamp <= b.caps[at[p]] /\ pub[p].stamp \in Clocks
    BY <1>1, <2>1, MessageIs DEF Telemetry
  <2>. QED BY <1>4, <2>1, <2>2, <2>3, FramesInNumbers
<1>7. Settled \subseteq Settled'
  BY <1>1, <1>2 DEF Settled, Recorded
\* What of the frame is up to a message is settled or goes before it.
<1>8. ASSUME NEW p \in 1 .. q, NEW c \in ToSet(b.caps), c <= b.caps[at[p]]
      PROVE  \/ Sample(node.boot, c) \in Settled'
             \/ \E l \in 1 .. q : l <= p /\ pub[l].of = c
  <2>1. PICK x \in DOMAIN b.caps : b.caps[x] = c
    BY DEF ToSet
  <2>2. CASE \E l \in 1 .. q : at[l] = x
    <3>1. PICK l \in 1 .. q : at[l] = x
      BY <2>2
    <3>2. ~(p < l)
      <4>1. p < l => at[p] < at[l]
        BY <1>2 DEF Published, q
      <4>2. at[p] < at[l] => b.caps[at[p]] < b.caps[at[l]]
        BY <1>1, <1>6, <3>1 DEF Built, Tracks, Rising
      <4>3. ~(b.caps[at[p]] < c)
        BY <1>4, <1>6, <1>8
      <4>. QED BY <2>1, <3>1, <4>1, <4>2, <4>3
    <3>3. l <= p
      BY <3>2
    <3>. QED BY <1>6, <2>1, <3>1, <3>3
  <2>3. CASE \A l \in 1 .. q : at[l] # x
    <3>1. Sample(b.boot, c) \in Missing(b, pub, at)
      <4>1. x \in 1 .. Len(b.caps)
        BY <1>1, <2>1 DEF Built, Tracks
      <4>. QED BY <2>1, <2>3, <4>1 DEF Missing, q
    <3>2. lost' = lost \cup Missing(b, pub, at)
      <4>1. pub # <<>>
        BY <1>5 DEF q
      <4>. QED BY <1>2, <4>1
    <3>. QED BY <1>4, <3>1, <3>2 DEF Settled
  <2>. QED BY <2>2, <2>3
<1>9. OnNode' = OnNode
  BY <1>1 DEF OnNode
<1>10. \A c \in Upstream' :
         /\ c \in Upstream /\ c \in Nat
         /\ \/ Spans(b.caps, c)
            \/ \E k \in 1 .. t : c = tq[k].of
  <2>. SUFFICES ASSUME NEW c \in Upstream'
                PROVE  /\ c \in Upstream
                       /\ \/ Spans(b.caps, c)
                          \/ \E k \in 1 .. t : c = tq[k].of
    BY Bounds DEF Upstream
  <2>1. c \in Clocks
    BY DEF Upstream
  <2>2. CASE c \in OnNode
    BY <1>4, <2>1, <2>2 DEF Upstream
  <2>3. CASE \E i \in DOMAIN grx' : IsBatch(grx'[i]) /\ c \in ToSet(grx'[i].b.caps)
    BY <1>3, <1>4, <2>1, <2>3 DEF Upstream
  <2>4. CASE \E k \in DOMAIN tq' : c = tq'[k].of
    <3>1. PICK k \in 1 .. t + q : c = tq'[k].of
      BY <1>5, <2>4
    <3>2. CASE k \in 1 .. t
      BY <1>5, <2>1, <3>1, <3>2 DEF Upstream
    <3>3. CASE k > t /\ k - t \in 1 .. q /\ t + (k - t) = k
      <4>1. c = pub[k - t].of
        BY <1>5, <3>1, <3>3
      <4>2. c \in ToSet(b.caps)
        BY <1>6, <3>3, <4>1
      <4>. QED BY <1>1, <1>3, <2>1, <4>2 DEF Upstream, Spans, b
    <3>. QED BY <1>5, <3>1, <3>2, <3>3
  <2>. QED BY <1>9, <2>2, <2>3, <2>4 DEF Upstream, IsBatch
<1>11. Onward
  BY <1>1, <1>7, <1>10, FramesInNumbers DEF Onward
<1>12. MarksHold'
  <2>1. Marks' \subseteq Marks
    BY <1>1 DEF Marks
  <2>. QED BY <1>11, <2>1, MarksStay
<1>13. CursorHolds'
  BY <1>1, <1>11, CursorStays
<1>14. FramesHold'
  <2>1. Behind(grx, grx')
    <3>1. 1 \in {0, 1} /\ \A i \in DOMAIN grx' : i + 1 \in DOMAIN grx /\ grx'[i] = grx[i + 1]
      BY <1>3
    <3>. QED BY <3>1 DEF Behind
  <2>. QED BY <1>1, <2>1, TakingKeepsFrames
<1>15. BrokerHolds'
  <2>. DEFINE Fine(c) == Sample(node.boot, c) \in Settled'
  <2>3. \A c : IsSettled(c)' <=> Fine(c)
    BY <1>1 DEF IsSettled
  <2>. HIDE DEF Fine
  <2>4. (\A k \in DOMAIN tq' :
           /\ tq'[k].boot = node'.boot /\ tq'[k].stamp <= tq'[k].of
           /\ tq'[k].of <= node'.clock
           /\ \A c \in Upstream' : c <= tq'[k].stamp =>
                IsSettled(c)' \/ \E l \in DOMAIN tq' : l <= k /\ tq'[l].of = c)
        => BrokerHolds'
    BY DEF BrokerHolds
  <2>5. node' = node /\ DOMAIN tq' = 1 .. t + q
    BY <1>1, <1>5
  <2>. SUFFICES ASSUME NEW k \in 1 .. t + q
                PROVE  /\ tq'[k].boot = node.boot /\ tq'[k].stamp <= tq'[k].of
                       /\ tq'[k].of <= node.clock
                       /\ \A c \in Upstream' : c <= tq'[k].stamp =>
                            \/ Fine(c)
                            \/ \E l \in 1 .. t + q : l <= k /\ tq'[l].of = c
    BY <2>3, <2>4, <2>5, Zenon
  <2>0. \A l \in 1 .. t : l \in 1 .. t + q
    BY <1>5
  <2>1. CASE k \in 1 .. t
    <3>1. /\ tq[k].boot = node.boot /\ tq[k].stamp <= tq[k].of
          /\ tq[k].of <= node.clock
          /\ \A c \in Upstream : c <= tq[k].stamp =>
               \/ Sample(node.boot, c) \in Settled
               \/ \E l \in 1 .. t : l <= k /\ tq[l].of = c
      BY <1>5, <2>1 DEF BrokerHolds, IsSettled
    <3>2. \A c \in Upstream' : c <= tq[k].stamp =>
             \/ Fine(c)
             \/ \E l \in 1 .. t + q : l <= k /\ tq'[l].of = c
      BY <1>5, <1>7, <1>10, <2>0, <3>1 DEF Fine
    <3>. QED BY <1>5, <2>1, <3>1, <3>2
  <2>2. CASE k > t /\ k - t \in 1 .. q /\ t + (k - t) = k
    <3>. DEFINE p == k - t
    <3>1. tq'[k] = pub[p] /\ p \in 1 .. q
      BY <1>5, <2>2
    <3>2. t + p = k
      BY <2>2
    <3>. HIDE DEF p
    <3>3. tq'[k].of <= node.clock
      BY <1>4, <1>6, <3>1, FramesInNumbers
    <3>4. ASSUME NEW c \in Upstream', c <= tq'[k].stamp
          PROVE  \/ Fine(c)
                 \/ \E l \in 1 .. t + q : l <= k /\ tq'[l].of = c
      <4>1. c \in Nat /\ c <= b.caps[at[p]] /\ c <= Last(b.caps)
        <5>1. c \in Nat /\ c <= pub[p].stamp
          BY <1>10, <3>1, <3>4
        <5>. QED BY <1>4, <1>6, <3>1, <5>1
      <4>2. CASE c \in ToSet(b.caps)
        <5>1. CASE \E l \in 1 .. q : l <= p /\ pub[l].of = c
          <6>1. PICK l \in 1 .. q : l <= p /\ pub[l].of = c
            BY <5>1
          <6>2. t + l \in 1 .. t + q /\ t + l <= k /\ tq'[t + l].of = c
            BY <1>5, <3>1, <3>2, <6>1
          <6>. QED BY <6>2
        <5>. QED BY <1>8, <3>1, <4>1, <4>2, <5>1 DEF Fine
      <4>3. CASE \E l \in 1 .. t : c = tq[l].of
        <5>1. PICK l \in 1 .. t : c = tq[l].of
          BY <4>3
        <5>2. l \in 1 .. t + q /\ l <= k /\ tq'[l].of = c
          BY <1>5, <2>2, <5>1
        <5>. QED BY <5>2
      <4>. QED BY <1>10, <4>1, <4>2, <4>3 DEF Spans
    <3>. QED BY <1>6, <3>1, <3>3, <3>4
  <2>. QED BY <1>5, <2>1, <2>2
<1>16. SettledIsPast'
  <2>1. \A s \in Missing(b, pub, at) : s.boot = node.boot /\ s.cap <= node.clock
    <3>1. \A k \in 1 .. Len(b.caps) : b.caps[k] \in ToSet(b.caps)
      BY <1>1 DEF Built, Tracks, ToSet
    <3>2. \A c \in ToSet(b.caps) : c <= node.clock
      BY <1>4, FramesInNumbers
    <3>. QED BY <1>4, <3>1, <3>2 DEF Missing, Sample
  <2>2. \A s \in Settled' : s \in Settled \/ s \in Missing(b, pub, at)
    BY <1>1, <1>2 DEF Settled, Recorded
  <2>3. node.boot <= node.boot
    BY FramesInNumbers
  <2>. QED BY <1>1, <2>1, <2>2, <2>3 DEF SettledIsPast
<1>17. SessionHolds'
  <2>1. ~Unheard
    BY <1>1, <1>3 DEF SessionHolds
  <2>2. ~Unheard'
    BY <1>1, <2>1 DEF Unheard
  <2>3. \A i \in DOMAIN grx' : ~IsBatch(grx'[i]) => grx'[i].boot = node.boot
    BY <1>3 DEF SessionHolds
  <2>. QED BY <1>1, <2>2, <2>3 DEF SessionHolds, IsBatch
<1>18. AckedIsDurable'
  BY <1>1, <1>7 DEF AckedIsDurable
<1>. QED BY <1>12, <1>13, <1>14, <1>15, <1>16, <1>17, <1>18

\* Every step of the gateway keeps custody.
LEMMA GwStepKeepsCustody ==
  ASSUME TypeInv, TypeInv', CustodyInv, GwStep
  PROVE  CustodyInv'
<1>. USE DEF CustodyInv
<1>1. UNCHANGED <<node, svc, log, acked>>
  BY DEF GwStep, GwHello, GwBatch, GwCheck, GwMark, GwPend, GwCommit
<1>2. gw.have_commit => gw.commit \in Clocks
  BY DEF TypeInv, GwType
<1>3. gw.known /\ ~Unheard /\ gw.have_commit => gw.commit \in Marks
  BY <1>2 DEF Unheard, Marks
<1>4. gw.pc # "idle" => gw.known /\ ~Unheard
  BY DEF SessionHolds
<1>5. CASE GwBatch
  <2>. DEFINE b == Head(grx).b
  <2>1. grx # <<>> /\ grx' = Tail(grx) /\ IsBatch(Head(grx)) /\ cq' = cq
    BY <1>5 DEF GwBatch, IsBatch
  <2>2. ~Unheard
    <3>1. Head(grx) = grx[1] /\ 1 \in DOMAIN grx
      BY <2>1, SessionsAreNumbers, Served
    <3>. QED BY <2>1, <3>1 DEF SessionHolds
  <2>3. CASE gw.known /\ ~IsRepeat(b)
    <3>1. /\ Publish(b) /\ UNCHANGED nrx
          /\ gw' = [gw EXCEPT !.last_seq = b.seq, !.last_batch_boot = b.boot,
                              !.pc = "check", !.hand = Last(b.caps)]
      BY <1>5, <2>3, GwBatchIs
    <3>. HIDE DEF b
    <3>2. /\ gw'.known = gw.known /\ gw'.last_boot = gw.last_boot
          /\ gw'.have_commit = gw.have_commit /\ gw'.commit = gw.commit
      BY <3>1 DEF TypeInv, GwType
    <3>. QED BY <1>5, <2>3, <3>1, <3>2, PublishingKeepsCustody DEF b
  <2>4. CASE ~(gw.known /\ ~IsRepeat(b))
    <3>1. /\ UNCHANGED <<tq, lost>>
          /\ \/ gw' = gw
             \/ gw.known /\ gw' = [gw EXCEPT !.last_seq = b.seq, !.last_batch_boot = b.boot]
          /\ UNCHANGED nrx \/ (gw.known /\ gw.have_commit /\ AckNode(gw.commit))
      BY <1>5, <2>4, GwBatchIs
    <3>. HIDE DEF b
    <3>2. /\ gw'.known = gw.known /\ gw'.last_boot = gw.last_boot /\ gw'.pc = gw.pc
          /\ gw'.have_commit = gw.have_commit /\ gw'.commit = gw.commit
      BY <3>1 DEF TypeInv, GwType
    <3>3. UNCHANGED nrx \/ \E w \in Marks : AckNode(w)
      BY <1>3, <2>2, <3>1
    <3>. QED BY <1>1, <2>1, <3>1, <3>2, <3>3, GwPassKeepsCustody
  <2>. QED BY <2>3, <2>4
<1>6. CASE GwCheck
  <2>1. UNCHANGED <<grx, tq, cq, lost>> /\ gw.known /\ ~Unheard
    BY <1>4, <1>6 DEF GwCheck
  <2>2. /\ gw'.known = gw.known /\ gw'.last_boot = gw.last_boot
        /\ gw'.have_commit = gw.have_commit /\ gw'.commit = gw.commit
    BY <1>6 DEF GwCheck, TypeInv, GwType
  <2>3. UNCHANGED nrx \/ \E w \in Marks : AckNode(w)
    BY <1>3, <1>6, <2>1 DEF GwCheck, Covered
  <2>. QED BY <1>1, <2>1, <2>2, <2>3, GwPassKeepsCustody
<1>7. CASE GwMark \/ GwPend
  <2>1. UNCHANGED <<grx, nrx, tq, cq, lost>> /\ gw.known /\ ~Unheard
    BY <1>4, <1>7 DEF GwMark, GwPend
  <2>2. /\ gw'.known = gw.known /\ gw'.last_boot = gw.last_boot
        /\ gw'.have_commit = gw.have_commit /\ gw'.commit = gw.commit
    BY <1>7 DEF GwMark, GwPend, TypeInv, GwType
  <2>. QED BY <1>1, <2>1, <2>2, GwPassKeepsCustody
<1>8. CASE GwCommit
  <2>. DEFINE w == Head(cq)
  <2>1. cq # <<>> /\ cq' = Tail(cq) /\ UNCHANGED <<grx, tq, lost>>
    BY <1>8 DEF GwCommit
  <2>2. w \in Marks
    <3>1. cq \in Seq(Clocks)
      BY DEF TypeInv, GwType
    <3>2. w \in Clocks /\ w = cq[1] /\ 1 \in DOMAIN cq
      BY <2>1, <3>1, Served
    <3>. HIDE DEF w
    <3>. QED BY <3>2 DEF Marks
  <2>3. ~Unheard
    BY <2>1 DEF SessionHolds
  <2>4. /\ \/ gw' = gw
           \/ gw.known /\ gw' = [gw EXCEPT !.have_commit = TRUE, !.commit = w]
           \/ gw.known /\ gw' = [gw EXCEPT !.have_commit = TRUE, !.commit = w,
                                           !.have_pending = FALSE]
        /\ UNCHANGED nrx \/ AckNode(w)
    BY <1>8 DEF GwCommit
  <2>. HIDE DEF w
  <2>5. /\ gw'.known = gw.known /\ gw'.last_boot = gw.last_boot /\ gw'.pc = gw.pc
        /\ gw'.commit = w \/ gw' = gw
        /\ ~gw.known => gw' = gw
    BY <2>4 DEF TypeInv, GwType
  <2>6. UNCHANGED nrx \/ \E v \in Marks : AckNode(v)
    BY <2>2, <2>4
  <2>. QED BY <1>1, <2>1, <2>2, <2>3, <2>5, <2>6, GwPassKeepsCustody
<1>. QED BY <1>5, <1>6, <1>7, <1>8, HelloKeepsCustody DEF GwStep

\* A sample the service has taken off the queue is settled, new or old.
LEMMA AppendingKeepsCustody ==
  ASSUME TypeInv, TypeInv', CustodyInv, SvcAppend
  PROVE  CustodyInv'
<1>. USE DEF CustodyInv
<1>. DEFINE m == Head(tq)
            t == Len(tq)
            n == Len(log)
<1>1. /\ svc.pc = "idle" /\ tq # <<>> /\ tq' = Tail(tq)
      /\ node' = node /\ grx' = grx /\ nrx' = nrx /\ gw' = gw /\ cq' = cq
      /\ acked' = acked /\ lost' = lost
  BY DEF SvcAppend
<1>2. /\ m = tq[1] /\ t \in Nat /\ t > 0 /\ DOMAIN tq = 1 .. t
      /\ DOMAIN tq' = 1 .. t - 1
      /\ \A i \in 1 .. t - 1 : tq'[i] = tq[i + 1] /\ i + 1 \in 1 .. t
      /\ 1 \in 1 .. t /\ m \in Telemetry
      /\ n \in Nat /\ DOMAIN log = 1 .. n
  BY <1>1, SessionsAreNumbers
<1>3. \/ /\ IsOld(m) /\ log' = log /\ svc'.pc = "idle"
         /\ svc'.misdated = IF m.stamp = m.of THEN svc.misdated
                            ELSE svc.misdated \cup {Sample(m.boot, m.of)}
      \/ /\ log' = Append(log, m) /\ svc'.misdated = svc.misdated
         /\ svc'.pc = "appended" /\ svc'.msg = m
  BY <1>1 DEF SvcAppend, TypeInv, SvcType
<1>4. svc'.mem = svc.mem
  BY DEF SvcAppend, TypeInv, SvcType
<1>5. log' = Append(log, m) =>
        /\ DOMAIN log' = 1 .. n + 1 /\ log'[n + 1] = m
        /\ n + 1 \in 1 .. n + 1
        /\ \A i \in 1 .. n : log'[i] = log[i] /\ i \in 1 .. n + 1
        /\ \A i \in 1 .. n + 1 : i \in 1 .. n \/ i = n + 1
  BY <1>2, SessionsAreNumbers
<1>. HIDE DEF m, t, n
<1>6. /\ m.boot = node.boot /\ m.stamp <= m.of /\ m.of <= node.clock
      /\ m.stamp \in Nat /\ m.of \in Nat /\ m.of \in Upstream
      /\ \A c \in Upstream : c <= m.stamp => IsSettled(c) \/ c = m.of
  <2>1. m.of \in Upstream
    BY <1>2, FramesInNumbers DEF Upstream
  <2>2. /\ m.boot = node.boot /\ m.stamp <= m.of /\ m.of <= node.clock
        /\ \A c \in Upstream : c <= m.stamp =>
             IsSettled(c) \/ \E l \in DOMAIN tq : l <= 1 /\ tq[l].of = c
    BY <1>2 DEF BrokerHolds
  <2>3. \A l \in 1 .. t : l <= 1 => l = 1
    BY <1>2
  <2>. QED BY <1>2, <2>1, <2>2, <2>3, FramesInNumbers
<1>7. log' = Append(log, m) => Recorded' = Recorded \cup {Sample(m.boot, m.of)}
  BY <1>2, <1>5 DEF Recorded
<1>8. Settled \subseteq Settled' /\ \A s \in Settled' : s \in Settled \/ s = Sample(m.boot, m.of)
  BY <1>1, <1>3, <1>7 DEF Settled, Recorded
<1>. DEFINE Now(c) == Sample(node.boot, c) \in Settled'
<1>9. \A c : IsSettled(c)' <=> Now(c)
  BY <1>1 DEF IsSettled
<1>10. \A c : IsSettled(c) => Now(c)
  BY <1>8 DEF IsSettled
<1>11. Now(m.of)
  <2>1. CASE log' = Append(log, m)
    BY <1>6, <1>7, <2>1 DEF Settled
  <2>2. CASE /\ IsOld(m)
             /\ svc'.misdated = IF m.stamp = m.of THEN svc.misdated
                                ELSE svc.misdated \cup {Sample(m.boot, m.of)}
    <3>1. CASE m.stamp = m.of
      <4>1. Reached(svc.mem.cap) /\ m.of <= svc.mem.cap
        BY <1>6, <2>2, <3>1 DEF IsOld, CursorHolds
      <4>2. IsSettled(m.of)
        BY <1>6, <4>1 DEF Reached
      <4>. QED BY <1>10, <4>2
    <3>2. CASE m.stamp # m.of
      BY <1>6, <2>2, <3>2 DEF Settled
    <3>. QED BY <3>1, <3>2
  <2>. QED BY <1>3, <2>1, <2>2
<1>. HIDE DEF Now
<1>12. OnNode' = OnNode /\ Upstream' \subseteq Upstream
  <2>1. OnNode' = OnNode
    BY <1>1 DEF OnNode
  <2>2. \A k \in DOMAIN tq' : \E l \in DOMAIN tq : tq'[k] = tq[l]
    BY <1>2
  <2>. QED BY <1>1, <2>1, <2>2 DEF Upstream
<1>13. Onward
  <2>1. \A j \in DOMAIN log : j \in DOMAIN log' /\ log'[j] = log[j]
    BY <1>2, <1>3, <1>5
  <2>. QED BY <1>1, <1>8, <1>12, <2>1, FramesInNumbers DEF Onward
<1>14. MarksHold'
  <2>1. ASSUME NEW w \in Marks' PROVE w \in Marks \/ Sound(w)'
    <3>1. w \in Clocks
      BY DEF Marks
    <3>2. CASE svc'.pc # "idle" /\ w = svc'.msg.stamp
      <4>1. w = m.stamp /\ log' = Append(log, m)
        BY <1>3, <3>2
      <4>2. Reached(w)'
        <5>1. w <= node'.clock
          BY <1>1, <1>6, <4>1, FramesInNumbers
        <5>2. \A c \in Upstream' : c <= w => Now(c)
          BY <1>6, <1>11, <1>10, <1>12, <4>1
        <5>. QED BY <1>9, <5>1, <5>2 DEF Reached
      <4>3. n + 1 \in DOMAIN log' /\ log'[n + 1].boot = node'.boot /\ log'[n + 1].stamp = w
        BY <1>1, <1>5, <1>6, <4>1
      <4>. QED BY <4>2, <4>3 DEF Sound
    <3>3. CASE ~(svc'.pc # "idle" /\ w = svc'.msg.stamp)
      BY <1>1, <3>1, <3>3 DEF Marks
    <3>. QED BY <3>2, <3>3
  <2>. QED BY <1>13, <2>1, MarksStay
<1>15. CursorHolds'
  BY <1>4, <1>13, CursorStays
<1>16. FramesHold'
  BY <1>1, <1>12 DEF FramesHold
<1>17. BrokerHolds'
  <2>1. ASSUME NEW k \in 1 .. t - 1
        PROVE  /\ tq[k + 1].boot = node.boot /\ tq[k + 1].stamp <= tq[k + 1].of
               /\ tq[k + 1].of <= node.clock
               /\ \A c \in Upstream' : c <= tq[k + 1].stamp =>
                    Now(c) \/ \E l \in 1 .. t - 1 : l <= k /\ tq'[l].of = c
    <3>1. k + 1 \in DOMAIN tq
      BY <1>2
    <3>2. ASSUME NEW c \in Upstream', c <= tq[k + 1].stamp
          PROVE  Now(c) \/ \E l \in 1 .. t - 1 : l <= k /\ tq'[l].of = c
      <4>1. IsSettled(c) \/ \E l \in DOMAIN tq : l <= k + 1 /\ tq[l].of = c
        BY <1>12, <3>1, <3>2 DEF BrokerHolds
      <4>2. ASSUME NEW l \in DOMAIN tq, l <= k + 1, tq[l].of = c
            PROVE  Now(c) \/ \E j \in 1 .. t - 1 : j <= k /\ tq'[j].of = c
        <5>1. CASE l = 1
          BY <1>2, <1>11, <4>2, <5>1
        <5>2. CASE l # 1
          <6>1. l - 1 \in 1 .. t - 1 /\ l - 1 <= k /\ (l - 1) + 1 = l
            BY <1>2, <4>2, <5>2
          <6>2. tq'[l - 1] = tq[l]
            BY <1>2, <6>1
          <6>. QED BY <4>2, <6>1, <6>2
        <5>. QED BY <5>1, <5>2
      <4>. QED BY <1>10, <4>1, <4>2
    <3>. QED BY <3>1, <3>2 DEF BrokerHolds
  <2>2. \A k \in 1 .. t - 1 : tq'[k] = tq[k + 1]
    BY <1>2
  <2>3. (\A k \in DOMAIN tq' :
           /\ tq'[k].boot = node'.boot /\ tq'[k].stamp <= tq'[k].of
           /\ tq'[k].of <= node'.clock
           /\ \A c \in Upstream' : c <= tq'[k].stamp =>
                IsSettled(c)' \/ \E l \in DOMAIN tq' : l <= k /\ tq'[l].of = c)
        => BrokerHolds'
    BY DEF BrokerHolds
  <2>4. node' = node /\ DOMAIN tq' = 1 .. t - 1
    BY <1>1, <1>2
  <2>5. \A k \in 1 .. t - 1 :
           /\ tq'[k].boot = node.boot /\ tq'[k].stamp <= tq'[k].of
           /\ tq'[k].of <= node.clock
           /\ \A c \in Upstream' : c <= tq'[k].stamp =>
                Now(c) \/ \E l \in 1 .. t - 1 : l <= k /\ tq'[l].of = c
    BY <2>1, <2>2
  <2>. QED BY <1>9, <2>3, <2>4, <2>5, Zenon
<1>18. SettledIsPast'
  <2>1. \A s \in Settled' : s \in Settled \/ (s.boot = node.boot /\ s.cap <= node.clock)
    BY <1>6, <1>8 DEF Sample
  <2>2. node.boot <= node.boot
    BY FramesInNumbers
  <2>. QED BY <1>1, <2>1, <2>2 DEF SettledIsPast
<1>19. SessionHolds'
  <2>1. ~Unheard'
    BY <1>1 DEF SessionHolds, Unheard
  <2>2. svc'.pc # "idle" => svc'.msg.boot = node.boot
    BY <1>3, <1>6
  <2>. QED BY <1>1, <2>1, <2>2 DEF SessionHolds, IsBatch
<1>20. AckedIsDurable'
  BY <1>1, <1>8 DEF AckedIsDurable
<1>. QED BY <1>14, <1>15, <1>16, <1>17, <1>18, <1>19, <1>20

\* Between append and publish nothing moves but the watermark.
LEMMA WatermarkKeepsCustody ==
  ASSUME TypeInv, TypeInv', CustodyInv, SvcSave \/ SvcPublish
  PROVE  CustodyInv'
<1>. USE DEF CustodyInv
<1>1. /\ svc.pc # "idle" /\ svc'.msg = svc.msg /\ svc'.misdated = svc.misdated
      /\ node' = node /\ grx' = grx /\ nrx' = nrx /\ gw' = gw /\ tq' = tq
      /\ log' = log /\ acked' = acked /\ lost' = lost
      /\ \/ svc'.mem = svc.mem
         \/ svc'.mem = [boot |-> svc.msg.boot, cap |-> svc.msg.stamp]
      /\ cq' = cq \/ cq' = Append(cq, svc.msg.stamp)
  BY DEF SvcSave, SvcPublish, TypeInv, SvcType
<1>2. svc.msg.stamp \in Marks /\ svc.msg.boot = node.boot /\ ~Unheard
  <2>1. svc.msg.stamp \in Clocks
    BY <1>1 DEF TypeInv, SvcType, Telemetry
  <2>. QED BY <1>1, <2>1 DEF Marks, SessionHolds
<1>3. Settled' = Settled /\ OnNode' = OnNode /\ \A c : IsSettled(c)' = IsSettled(c)
  BY <1>1 DEF Settled, Recorded, OnNode, IsSettled
<1>4. Upstream' = Upstream
  BY <1>1, <1>3 DEF Upstream
<1>5. Onward
  BY <1>1, <1>3, <1>4, FramesInNumbers DEF Onward
<1>6. MarksHold'
  <2>1. \A i \in DOMAIN cq' : (\E j \in DOMAIN cq : cq'[i] = cq[j]) \/ cq'[i] = svc.msg.stamp
    <3>1. cq \in Seq(Clocks)
      BY DEF TypeInv, GwType
    <3>. DEFINE v == svc.msg.stamp
                n == Len(cq)
    <3>2. CASE cq' = Append(cq, v)
      <4>. HIDE DEF v
      <4>1. /\ DOMAIN cq' = 1 .. n + 1 /\ DOMAIN cq = 1 .. n /\ n \in Nat
            /\ \A i \in 1 .. n : cq'[i] = cq[i]
            /\ cq'[n + 1] = v
        BY <3>1, <3>2
      <4>2. \A i \in 1 .. n + 1 : i \in 1 .. n \/ i = n + 1
        BY <4>1
      <4>. HIDE DEF n
      <4>. QED BY <4>1, <4>2 DEF v
    <3>. QED BY <1>1, <3>2
  <2>2. Marks' \subseteq Marks
    BY <1>1, <1>2, <2>1 DEF Marks
  <2>. QED BY <1>5, <2>2, MarksStay
<1>7. CursorHolds'
  <2>1. CASE svc'.mem = svc.mem
    BY <1>5, <2>1, CursorStays
  <2>2. CASE svc'.mem = [boot |-> svc.msg.boot, cap |-> svc.msg.stamp]
    <3>1. Reached(svc.msg.stamp)
      BY <1>2 DEF MarksHold, Sound
    <3>2. svc'.mem.cap = svc.msg.stamp
      BY <2>2
    <3>3. /\ svc'.mem.cap <= node'.clock
          /\ \A c \in Upstream' : c <= svc'.mem.cap => IsSettled(c)'
      BY <1>1, <1>3, <1>4, <3>1, <3>2 DEF Reached
    <3>. QED BY <3>3 DEF CursorHolds, Reached
  <2>. QED BY <1>1, <2>1, <2>2
<1>8. FramesHold' /\ BrokerHolds'
  BY <1>1, <1>3, <1>4 DEF FramesHold, BrokerHolds
<1>9. SettledIsPast' /\ AckedIsDurable'
  BY <1>1, <1>3 DEF SettledIsPast, AckedIsDurable
<1>10. SessionHolds'
  <2>1. ~Unheard'
    BY <1>1, <1>2 DEF Unheard
  <2>. QED BY <1>1, <1>2, <2>1 DEF SessionHolds, IsBatch
<1>. QED BY <1>6, <1>7, <1>8, <1>9, <1>10

\* What a crash of the service throws away were copies.
LEMMA CrashKeepsCustody ==
  ASSUME TypeInv, TypeInv', OrderInv, CustodyInv, SvcCrash
  PROVE  CustodyInv'
<1>. USE DEF CustodyInv
<1>1. /\ svc'.pc = "idle" /\ svc'.misdated = svc.misdated /\ svc'.mem = svc.mem
      /\ node' = node /\ grx' = grx /\ nrx' = nrx /\ gw' = gw /\ cq' = cq
      /\ log' = log /\ acked' = acked /\ lost' = lost /\ tq' = <<>>
  BY DEF SvcCrash, TypeInv, SvcType, OrderInv, CursorOrder
<1>2. DOMAIN tq' = {}
  BY <1>1
<1>3. Settled' = Settled /\ OnNode' = OnNode /\ \A c : IsSettled(c)' = IsSettled(c)
  BY <1>1 DEF Settled, Recorded, OnNode, IsSettled
<1>4. Upstream' \subseteq Upstream
  BY <1>1, <1>2, <1>3 DEF Upstream
<1>5. Onward
  BY <1>1, <1>3, <1>4, FramesInNumbers DEF Onward
<1>6. MarksHold'
  <2>1. Marks' \subseteq Marks
    BY <1>1 DEF Marks
  <2>. QED BY <1>5, <2>1, MarksStay
<1>7. CursorHolds'
  BY <1>1, <1>5, CursorStays
<1>8. FramesHold' /\ BrokerHolds'
  BY <1>1, <1>2, <1>3 DEF FramesHold, BrokerHolds
<1>9. SettledIsPast' /\ AckedIsDurable'
  BY <1>1, <1>3 DEF SettledIsPast, AckedIsDurable
<1>10. SessionHolds'
  BY <1>1 DEF SessionHolds, IsBatch, Unheard
<1>. QED BY <1>6, <1>7, <1>8, <1>9, <1>10

\* What a reboot of the gateway throws away were copies.
LEMMA GwRebootKeepsCustody ==
  ASSUME TypeInv, TypeInv', CustodyInv, GwReboot \/ GwDisconnect
  PROVE  CustodyInv'
<1>. USE DEF CustodyInv
<1>1. /\ node' = node /\ nrx' = nrx /\ tq' = tq /\ svc' = svc /\ log' = log
      /\ acked' = acked /\ lost' = lost /\ cq' = <<>>
      /\ \/ gw' = GwBooted /\ grx' = <<>>
         \/ gw' = gw /\ grx' = grx /\ cq # <<>>
  BY DEF GwReboot, GwDisconnect
<1>2. Behind(grx, grx')
  BY <1>1, SessionsAreNumbers, BehindIs
<1>3. DOMAIN cq' = {} /\ DOMAIN <<>> = {}
  BY <1>1
<1>4. gw'.have_commit /\ gw'.last_boot = node.boot => gw'.commit \in Marks
  <2>1. gw.have_commit => gw.commit \in Clocks
    BY DEF TypeInv, GwType
  <2>2. CASE gw' = gw
    BY <2>1, <2>2 DEF Marks
  <2>3. CASE gw' = GwBooted
    BY <2>3 DEF GwBooted
  <2>. QED BY <1>1, <2>2, <2>3
<1>5. GatewayPasses
  BY <1>1, <1>2, <1>3, <1>4 DEF GatewayPasses
<1>6. SessionHolds'
  <2>1. CASE gw' = gw /\ grx' = grx
    BY <1>1, <2>1 DEF SessionHolds, IsBatch, Unheard
  <2>2. CASE gw' = GwBooted /\ grx' = <<>>
    <3>1. /\ ~gw'.known /\ ~gw'.have_commit /\ gw'.pc = "idle" /\ gw'.last_boot = 0
      BY <2>2 DEF GwBooted
    <3>2. 0 <= node.boot
      BY FramesInNumbers
    <3>. QED BY <1>1, <1>3, <2>2, <3>1, <3>2 DEF SessionHolds, IsBatch, Unheard
  <2>. QED BY <1>1, <2>1, <2>2
<1>. QED BY <1>5, <1>6, PassingKeepsCustody

\* The power comes back to a chain at rest.
LEMMA NodeRebootKeepsCustody ==
  ASSUME QuietReboots, TypeInv, TypeInv', OrderInv, CustodyInv, NodeReboot
  PROVE  CustodyInv'
<1>. USE DEF CustodyInv
<1>1. /\ grx = <<>> /\ nrx = <<>> /\ tq = <<>> /\ cq = <<>>
      /\ gw.pc = "idle" /\ svc.pc = "idle"
  <2>1. "nodereboot" \in Faults /\ Overdue
    BY DEF NodeReboot, Happens
  <2>. QED BY <2>1 DEF QuietReboots, Overdue
<1>2. /\ node' = NodeBooted(node.boot + 1) /\ nrx' = <<>> /\ grx' = grx /\ gw' = gw
      /\ tq' = tq /\ cq' = cq /\ svc' = svc /\ log' = log /\ acked' = acked
      /\ lost' = lost
  BY DEF NodeReboot
<1>3. node.boot \in Nat /\ svc.mem.boot \in Nat /\ gw.last_boot \in Nat
  BY SessionsAreNumbers, Bounds DEF TypeInv, GwType
<1>4. /\ node'.boot = node.boot + 1 /\ ~node'.out /\ ~node'.bound /\ node'.ring = <<>>
  BY <1>2 DEF NodeBooted
<1>5. DOMAIN <<>> = {} /\ Settled' = Settled
  BY <1>2 DEF Settled, Recorded
<1>6. gw'.last_boot <= node'.boot /\ gw'.last_boot # node'.boot
  <2>1. gw.last_boot <= node.boot
    BY DEF SessionHolds
  <2>. QED BY <1>2, <1>3, <1>4, <2>1
<1>7. svc'.mem.boot # node'.boot
  <2>1. svc.mem.boot <= node.boot
    BY <1>1 DEF OrderInv, BrokerOrder, Newest
  <2>. QED BY <1>2, <1>3, <1>4, <2>1
<1>8. MarksHold'
  <2>1. Marks' = {}
    BY <1>1, <1>2, <1>5, <1>6 DEF Marks
  <2>. QED BY <2>1 DEF MarksHold
<1>9. CursorHolds'
  BY <1>7 DEF CursorHolds
<1>10. FramesHold' /\ BrokerHolds'
  BY <1>1, <1>2, <1>4, <1>5 DEF FramesHold, BrokerHolds
<1>11. SettledIsPast'
  <2>1. ASSUME NEW s \in Settled
        PROVE  s.boot <= node.boot + 1 /\ s.boot # node.boot + 1
    <3>1. s.boot <= node.boot
      BY DEF SettledIsPast
    <3>2. s.boot \in Nat
      <4>1. s.boot \in Boots
        BY SettledIsTyped DEF Samples
      <4>. QED BY <4>1, Bounds DEF Boots
    <3>. QED BY <1>3, <3>1, <3>2
  <2>. QED BY <1>4, <1>5, <2>1 DEF SettledIsPast
<1>12. SessionHolds'
  BY <1>1, <1>2, <1>4, <1>5, <1>6 DEF SessionHolds, IsBatch
<1>13. AckedIsDurable'
  BY <1>2, <1>5 DEF AckedIsDurable
<1>. QED BY <1>8, <1>9, <1>10, <1>11, <1>12, <1>13

\* Initially there is nothing to be kept.
LEMMA CustodyInit == Init => CustodyInv
<1>. SUFFICES ASSUME Init PROVE CustodyInv
  OBVIOUS
<1>1. /\ node = NodeBooted(1) /\ gw = GwBooted /\ grx = <<>> /\ nrx = <<>>
      /\ tq = <<>> /\ cq = <<>> /\ log = <<>> /\ acked = {} /\ lost = {}
      /\ svc.pc = "idle" /\ svc.mem = NoCursor /\ svc.misdated = {}
  BY DEF Init
<1>2. /\ node.boot = 1 /\ node.out = FALSE /\ node.bound = FALSE
      /\ gw.have_commit = FALSE /\ gw.known = FALSE /\ gw.pc = "idle"
      /\ gw.last_boot = 0 /\ svc.mem.boot = 0
  BY <1>1 DEF NodeBooted, GwBooted, NoCursor
<1>3. DOMAIN <<>> = {} /\ Settled = {}
  BY <1>1 DEF Settled, Recorded
<1>4. MarksHold /\ CursorHolds
  BY <1>1, <1>2, <1>3 DEF MarksHold, Marks, CursorHolds
<1>5. FramesHold /\ BrokerHolds
  BY <1>1, <1>2, <1>3 DEF FramesHold, BrokerHolds
<1>6. SettledIsPast /\ SessionHolds /\ AckedIsDurable
  BY <1>1, <1>2, <1>3 DEF SettledIsPast, SessionHolds, AckedIsDurable, Unheard
<1>. QED BY <1>4, <1>5, <1>6 DEF CustodyInv

\* Every step keeps custody.
LEMMA CustodyNext ==
  ASSUME QuietReboots
  PROVE  TypeInv /\ TypeInv' /\ OrderInv /\ CustodyInv /\ [Next]_vars => CustodyInv'
<1>. SUFFICES ASSUME TypeInv, TypeInv', OrderInv, CustodyInv, [Next]_vars
              PROVE  CustodyInv'
  OBVIOUS
<1>1. CASE NodeStep
  BY <1>1, NodeStepKeepsCustody
<1>2. CASE GwStep
  BY <1>2, GwStepKeepsCustody
<1>3. CASE SvcStep
  BY <1>3, AppendingKeepsCustody, WatermarkKeepsCustody DEF SvcStep
<1>4. CASE Fault
  BY <1>4, NodeRebootKeepsCustody, GwRebootKeepsCustody, CrashKeepsCustody DEF Fault
<1>5. CASE UNCHANGED vars
  <2>1. /\ node' = node /\ grx' = grx /\ nrx' = nrx /\ gw' = gw /\ tq' = tq
        /\ cq' = cq /\ svc' = svc /\ log' = log /\ acked' = acked /\ lost' = lost
    BY <1>5 DEF vars
  <2>2. Settled' = Settled /\ OnNode' = OnNode /\ \A c : IsSettled(c)' = IsSettled(c)
    BY <2>1 DEF Settled, Recorded, OnNode, IsSettled
  <2>3. Upstream' = Upstream /\ Marks' = Marks
    BY <2>1, <2>2 DEF Upstream, Marks
  <2>4. MarksHold' /\ CursorHolds'
    BY <2>1, <2>2, <2>3 DEF CustodyInv, MarksHold, CursorHolds, Sound, Reached
  <2>5. FramesHold' /\ BrokerHolds'
    BY <2>1, <2>2, <2>3 DEF CustodyInv, FramesHold, BrokerHolds
  <2>6. SettledIsPast' /\ SessionHolds' /\ AckedIsDurable'
    BY <2>1, <2>2
       DEF CustodyInv, SettledIsPast, SessionHolds, AckedIsDurable, Unheard, IsBatch
  <2>. QED BY <2>4, <2>5, <2>6 DEF CustodyInv
<1>. QED BY <1>1, <1>2, <1>3, <1>4, <1>5 DEF Next

\* The inductive invariant of custody: every watermark on its way to the node, at
\* the service, at the gateway or on the air, names a capture time that is in the
\* log with all there is up to it.
THEOREM Guarded ==
  ASSUME QuietReboots
  PROVE  Spec => []CustodyInv
<1>1. TypeInv /\ TypeInv' /\ OrderInv /\ CustodyInv /\ [Next]_vars => CustodyInv'
  BY CustodyNext
<1>. QED BY Typed, Ordered, CustodyInit, <1>1, PTL DEF Spec

\* BATCH_ACK means durable: a sample the node trimmed on an acknowledgement is in
\* the log, or among those the broker swallowed or the service took for old.
THEOREM AcknowledgedIsDurable ==
  ASSUME QuietReboots
  PROVE  Spec => []AckedIsDurable
<1>1. CustodyInv => AckedIsDurable
  BY DEF CustodyInv
<1>2. Spec => []CustodyInv
  BY Guarded
<1>. QED BY <1>1, <1>2, PTL

\* A watermark on its way from commit_service.py to the node names a line of the
\* log: what the service answers it has written.
THEOREM WatermarksAreDurable ==
  ASSUME QuietReboots
  PROVE  Spec => []WatermarkIsDurable
<1>1. TypeInv /\ CustodyInv => WatermarkIsDurable
  <2>. SUFFICES ASSUME TypeInv, CustodyInv,
                       NEW i \in DOMAIN nrx, nrx[i].type = "BATCH_ACK"
                PROVE  \E j \in DOMAIN log :
                         log[j].boot = node.boot /\ log[j].stamp = nrx[i].w
    BY DEF WatermarkIsDurable
  <2>1. nrx[i].w \in Clocks
    <3>1. nrx[i] \in Downlinks
      BY DEF TypeInv, RadioType
    <3>. QED BY <3>1 DEF Downlinks
  <2>2. nrx[i].w \in Marks
    BY <2>1 DEF Marks
  <2>. QED BY <2>2 DEF CustodyInv, MarksHold, Sound
<1>2. Spec => []CustodyInv
  BY Guarded
<1>. QED BY <1>1, <1>2, Typed, PTL

-----------------------------------------------------------------------------
\* Each step, seen as a step of Custody.

Held == {Sample(node.boot, c) : c \in ToSet(node.ring)}

\* A step that leaves the ring, the session and the log.
LEMMA CustodyStutter ==
  ASSUME node'.ring = node.ring, node'.boot = node.boot, Settled' = Settled
  PROVE  UNCHANGED CustodyOf!vars
BY DEF CustodyOf!vars

\* A step of the gateway or the service takes nothing out of what is settled.
LEMMA BackendForgetsNothing ==
  ASSUME TypeInv, GwStep \/ SvcStep
  PROVE  Settled \subseteq Settled'
<1>1. lost \subseteq lost'
  BY DEF GwStep, SvcStep, GwHello, GwBatch, GwCheck, GwMark, GwPend, GwCommit, Publish,
         SvcAppend, SvcSave, SvcPublish
<1>2. log' = log \/ log' = Append(log, Head(tq))
  BY DEF GwStep, SvcStep, GwHello, GwBatch, GwCheck, GwMark, GwPend, GwCommit,
         SvcAppend, SvcSave, SvcPublish
<1>3. Recorded \subseteq Recorded'
  <2>1. \A i \in DOMAIN log : i \in DOMAIN log' /\ log'[i] = log[i]
    <3>1. log \in Seq(Telemetry)
      BY DEF TypeInv, SvcType
    <3>. DEFINE m == Head(tq)
                n == Len(log)
    <3>2. CASE log' = Append(log, m)
      <4>. HIDE DEF m
      <4>1. /\ DOMAIN log = 1 .. n /\ DOMAIN log' = 1 .. n + 1 /\ n \in Nat
            /\ \A i \in 1 .. n : log'[i] = log[i]
        BY <3>1, <3>2
      <4>. HIDE DEF n
      <4>. QED BY <4>1
    <3>. QED BY <1>2, <3>2
  <2>. QED BY <2>1 DEF Recorded
<1>4. svc.misdated \subseteq svc'.misdated
  BY DEF GwStep, SvcStep, GwHello, GwBatch, GwCheck, GwMark, GwPend, GwCommit,
         SvcAppend, SvcSave, SvcPublish, TypeInv, SvcType
<1>. QED BY <1>1, <1>3, <1>4 DEF Settled

\* Every step of the chain is a step of Custody, or changes nothing it sees.
LEMMA CustodyStep ==
  ASSUME TypeInv, TypeInv', CustodyInv, CustodyInv', [Next]_vars
  PROVE  [CustodyOf!Next]_(CustodyOf!vars)
<1>1. /\ NodeType /\ RadioType /\ faults \in 0 .. MaxFaults
      /\ node.clock \in Nat /\ node.boot \in Nat /\ \A c \in Clocks : c \in Nat
      /\ node.boot \in Boots
  BY FramesInNumbers, RingIsTrack DEF TypeInv, HistoryType
<1>2. (Len(node.ring) >= RingCap) \in BOOLEAN /\ (Len(node'.ring) >= RingCap) \in BOOLEAN
  OBVIOUS
<1>3. ASSUME NodeStep \/ Fault PROVE Settled' = Settled
  <2>1. UNCHANGED <<log, lost>> /\ svc'.misdated = svc.misdated
    BY <1>3 DEF NodeStep, Fault, Capture, ScanHello, ScanRx, SendBatch, Retransmit,
                Heartbeat, NodeRx, NodeReboot, GwReboot, GwDisconnect, SvcCrash,
                TypeInv, SvcType
  <2>. QED BY <2>1 DEF Settled, Recorded
<1>4. CASE Capture
  <2>. DEFINE s == Sample(node.boot, node.clock + 1)
              gone == Held \ Held'
  <2>1. /\ node.clock + 1 \in Clocks
        /\ node'.clock = node.clock + 1 /\ node'.boot = node.boot
        /\ ToSet(node'.ring) \subseteq ToSet(node.ring) \cup {node.clock + 1}
        /\ node.clock + 1 \in ToSet(node'.ring)
        /\ Len(node.ring) < RingCap =>
             ToSet(node'.ring) = ToSet(node.ring) \cup {node.clock + 1}
    BY <1>1, <1>4, CaptureIs
  <2>2. s \in Samples /\ s \notin Settled
    <3>1. s \in Samples
      BY <1>1, <2>1 DEF Sample, Samples
    <3>2. s.boot = node.boot /\ s.cap = node.clock + 1 /\ ~(node.clock + 1 <= node.clock)
      BY <1>1 DEF Sample
    <3>. QED BY <3>1, <3>2 DEF CustodyInv, SettledIsPast
  <2>3. s \notin Held
    <3>1. node.clock + 1 \notin ToSet(node.ring)
      <4>1. \A c \in ToSet(node.ring) : c <= node.clock
        BY <1>1, RingUpToClock
      <4>. QED BY <1>1, <4>1
    <3>. QED BY <3>1 DEF Held, Sample
  <2>4. Held' \subseteq Held \cup {s} /\ s \in Held'
    BY <2>1 DEF Held
  <2>5. gone # {} => Len(node.ring) >= RingCap
    <3>1. CASE Len(node.ring) < RingCap
      <4>1. Held \subseteq Held'
        BY <2>1, <3>1 DEF Held
      <4>. QED BY <4>1
    <3>2. CASE ~(Len(node.ring) < RingCap)
      BY <1>1, <3>2, RingIsTrack, Bounds
    <3>. QED BY <3>1, <3>2
  <2>6. Held' = (Held \ gone) \cup {s} /\ gone \in SUBSET Held
    BY <2>3, <2>4
  <2>7. Settled' = Settled
    BY <1>3, <1>4 DEF NodeStep
  <2>. HIDE DEF s, gone
  <2>8. CustodyOf!Capture
    BY <1>2, <2>1, <2>2, <2>3, <2>5, <2>6, <2>7 DEF CustodyOf!Capture, Held, Samples
  <2>. QED BY <2>8 DEF CustodyOf!Next
<1>5. CASE NodeStep /\ ~Capture /\ ~NodeRx
  <2>1. node'.ring = node.ring /\ node'.boot = node.boot
    <3>1. CASE ScanHello
      BY <3>1 DEF ScanHello
    <3>2. CASE ScanRx
      BY <1>1, <3>2 DEF ScanRx, NodeType, Judged, Unjudged, Nodes
    <3>3. CASE SendBatch
      BY <1>1, <3>3, SendBatchIs
    <3>4. CASE Retransmit
      BY <1>1, <3>4, RetransmitIs
    <3>5. CASE Heartbeat
      BY <1>1, <3>5, HeartbeatIs
    <3>. QED BY <1>5, <3>1, <3>2, <3>3, <3>4, <3>5 DEF NodeStep
  <2>. QED BY <1>3, <1>5, <2>1, CustodyStutter
<1>6. CASE NodeRx
  <2>1. Settled' = Settled
    BY <1>3, <1>6 DEF NodeStep
  <2>2. CASE node' = node
    BY <2>1, <2>2, CustodyStutter
  <2>3. CASE /\ ToSet(node'.ring) \subseteq ToSet(node.ring)
             /\ node'.boot = node.boot
             /\ acked' = acked \cup {Sample(node.boot, c) : c \in
                                       ToSet(node.ring) \ ToSet(node'.ring)}
    <3>1. Held' \subseteq Held
      BY <2>3 DEF Held
    <3>2. Held \ Held' \subseteq Settled
      <4>1. acked' \subseteq Settled
        <5>. QED BY <2>1 DEF CustodyInv, AckedIsDurable
      <4>2. Held \ Held' \subseteq acked'
        BY <2>3 DEF Held
      <4>. QED BY <4>1, <4>2
    <3>3. CustodyOf!Release
      BY <1>2, <2>1, <2>3, <3>1, <3>2 DEF CustodyOf!Release, Held
    <3>. QED BY <3>3 DEF CustodyOf!Next
  <2>. QED BY <1>1, <1>6, <2>2, <2>3, NodeRxIs
<1>7. CASE GwStep \/ SvcStep
  <2>1. node' = node
    BY <1>7 DEF GwStep, SvcStep, GwHello, GwBatch, GwCheck, GwMark, GwPend, GwCommit,
                SvcAppend, SvcSave, SvcPublish
  <2>2. Settled \subseteq Settled'
    BY <1>7, BackendForgetsNothing
  <2>3. Settled' \subseteq Samples
    <3>1. Settled' = Recorded' \cup lost' \cup svc'.misdated
      BY DEF Settled
    <3>2. /\ log' \in Seq(Telemetry) /\ lost' \subseteq Samples
          /\ svc'.misdated \subseteq Samples
      BY DEF TypeInv, HistoryType, SvcType
    <3>3. \A i \in DOMAIN log' : log'[i] \in Telemetry
      BY ONLY <3>2
    <3>4. Recorded' \subseteq Samples
      BY <3>3 DEF Recorded, Telemetry, Sample, Samples
    <3>. QED BY <3>1, <3>2, <3>4
  <2>4. \E some \in SUBSET Samples : Settled' = Settled \cup some
    <3>1. Settled' \in SUBSET Samples /\ Settled' = Settled \cup Settled'
      BY <2>2, <2>3
    <3>. QED BY <3>1
  <2>5. CustodyOf!Record
    BY <2>1, <2>4 DEF CustodyOf!Record, Samples
  <2>. QED BY <2>5 DEF CustodyOf!Next
<1>8. CASE NodeReboot
  <2>1. node'.boot = node.boot + 1 /\ node'.ring = <<>>
    BY <1>8 DEF NodeReboot, NodeBooted
  <2>2. Settled' = Settled
    BY <1>3, <1>8 DEF Fault
  <2>3. Held' = {}
    BY <2>1 DEF Held, ToSet
  <2>4. CustodyOf!PowerLoss
    BY <1>2, <2>1, <2>2, <2>3 DEF CustodyOf!PowerLoss, Held
  <2>. QED BY <2>4 DEF CustodyOf!Next
<1>9. CASE Fault /\ ~NodeReboot
  <2>1. node' = node
    BY <1>9 DEF Fault, GwReboot, GwDisconnect, SvcCrash
  <2>. QED BY <1>3, <1>9, <2>1, CustodyStutter
<1>10. CASE UNCHANGED vars
  <2>1. node' = node /\ Settled' = Settled
    BY <1>10 DEF vars, Settled, Recorded
  <2>. QED BY <2>1, CustodyStutter
<1>. QED BY <1>4, <1>5, <1>6, <1>7, <1>8, <1>9, <1>10 DEF Next, NodeStep

\* The chain starts as Custody does.
LEMMA CustodyStart == Init => CustodyOf!Init
<1>. SUFFICES ASSUME Init PROVE CustodyOf!Init
  OBVIOUS
<1>1. node.ring = <<>> /\ node.boot = 1
  BY DEF Init, NodeBooted
<1>2. Settled = {}
  BY DEF Init, Settled, Recorded
<1>3. Held = {}
  BY <1>1 DEF Held, ToSet
<1>4. (Len(node.ring) >= RingCap) \in BOOLEAN
  OBVIOUS
<1>. QED BY <1>1, <1>2, <1>3, <1>4 DEF CustodyOf!Init, Held

\* The delivery chain implements Custody: from its capture on, a sample leaves the
\* ring only when it is settled, when a full ring is thinned or when power is lost.
THEOREM Custodian ==
  ASSUME QuietReboots
  PROVE  Spec => CustodyHolds
<1>1. Spec => []CustodyInv
  BY Guarded
<1>. QED BY <1>1, Typed, CustodyStart, CustodyStep, PTL DEF Spec, CustodyHolds, CustodyOf!Spec

=============================================================================
