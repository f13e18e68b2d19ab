-------------------------- MODULE NodeTasksProofs ---------------------------
(***************************************************************************)
(* The node's tasks around s_mu and the menu, for any table of parameters: *)
(* an edit is of the row under the cursor, destruction takes two clicks,   *)
(* and no task waits for itself but the menu that has clicked on a row     *)
(* whose accessor takes s_mu.                                              *)
(*                                                                         *)
(* A plan is a sequence, so all of this rests on what replacing its first  *)
(* step by others does to it.  EditIsAtCursor needs to know that a row     *)
(* waits to be opened only after the input that asked for it, before any   *)
(* other and with the cursor on it (MenuInv); SelfWaitOnlyAtHook that      *)
(* every plan is paired and that the holder gives before it takes, unless  *)
(* the click it handles was on a row that locks (LockPart): an edit opens  *)
(* and commits the row under the cursor and no other.                      *)
(***************************************************************************)
EXTENDS NodeTasks, FiniteSetTheorems, SequenceTheorems, TLAPS

Lock == {"take", "give"}

\* A plan gives s_mu back before it takes it again, and before it ends.
Paired(p) ==
  /\ \A i, k \in DOMAIN p : i < k /\ p[i] = "take" /\ p[k] = "take"
       => \E j \in DOMAIN p : i < j /\ j < k /\ p[j] = "give"
  /\ \A i \in DOMAIN p : p[i] = "take" => \E j \in DOMAIN p : i < j /\ p[j] = "give"

\* What the holder has left to do: it gives s_mu back, and does so first.
Releases(p) ==
  /\ \E j \in DOMAIN p : p[j] = "give"
  /\ \A k \in DOMAIN p : p[k] = "take" => \E j \in DOMAIN p : j < k /\ p[j] = "give"

\* The input of the menu comes before what it makes the task do, and what is
\* drawn comes last.
Orderly(p) ==
  /\ \A i, k \in DOMAIN p : i < k /\ p[i] \in {"turn", "click"}
       => p[k] \notin {"turn", "click", "begin"}
  /\ \A i \in DOMAIN p : p[i] = "draw" => i = Len(p)

\* p without its first step, and with ins in its place.
Spliced(p, ins, q) ==
  /\ q \in Seq(Steps) /\ p \in Seq(Steps) /\ ins \in Seq(Steps)
  /\ Len(q) = Len(ins) + Len(p) - 1 /\ Len(p) > 0
  /\ \A k \in 1 .. Len(ins) : q[k] = ins[k]
  /\ \A k \in Len(ins) + 1 .. Len(q) : q[k] = p[k - Len(ins) + 1]

\* The plan after a step: what it adds, then the rest.
LEMMA SplicedIs ==
  ASSUME NEW p \in Seq(Steps), p # <<>>, NEW ins \in Seq(Steps)
  PROVE  Spliced(p, ins, ins \o Tail(p))
<1>. DEFINE t == Tail(p)
            n == Len(ins)
            m == Len(p)
            q == ins \o t
<1>1. /\ t \in Seq(Steps) /\ Len(t) = m - 1 /\ m \in Nat /\ m > 0 /\ n \in Nat
      /\ \A i \in 1 .. m - 1 : t[i] = p[i + 1]
  OBVIOUS
<1>. HIDE DEF t
<1>2. /\ q \in Seq(Steps) /\ Len(q) = n + Len(t)
      /\ \A k \in 1 .. n : q[k] = ins[k]
      /\ \A k \in n + 1 .. n + Len(t) : q[k] = t[k - n]
  <2>0. ins \in Seq(Steps)
    OBVIOUS
  <2>1. q \in Seq(Steps) /\ Len(q) = n + Len(t)
    BY <1>1, <2>0, ConcatProperties, Zenon
  <2>2. ASSUME NEW k \in 1 .. Len(ins) PROVE (ins \o t)[k] = ins[k]
    BY <1>1, <2>0
  <2>3. ASSUME NEW k \in Len(ins) + 1 .. Len(ins) + Len(t)
        PROVE  (ins \o t)[k] = t[k - Len(ins)]
    BY <1>1, <2>0
  <2>. QED BY <2>1, <2>2, <2>3
<1>. HIDE DEF q, n, m
<1>3. \A k \in n + 1 .. n + m - 1 : q[k] = p[k - n + 1]
  <2>. SUFFICES ASSUME NEW k \in n + 1 .. n + m - 1 PROVE q[k] = p[k - n + 1]
    OBVIOUS
  <2>1. k - n \in 1 .. m - 1 /\ k \in n + 1 .. n + Len(t)
    BY <1>1
  <2>. QED BY <1>1, <1>2, <2>1
<1>4. q \in Seq(Steps) /\ Len(q) = n + m - 1 /\ m > 0
  BY <1>1, <1>2
<1>. QED BY <1>2, <1>3, <1>4 DEF Spliced, q, n, m, t

\* Where the steps of the new plan come from, and where those of the old go.
Moved(p, ins, q, n, m) ==
  /\ n \in Nat /\ m \in Nat /\ m > 0
  /\ DOMAIN q = 1 .. n + m - 1 /\ DOMAIN p = 1 .. m /\ DOMAIN ins = 1 .. n
  /\ Len(q) = n + m - 1
  /\ \A k \in 1 .. n : q[k] = ins[k]
  /\ \A k \in n + 1 .. n + m - 1 : k - n + 1 \in 2 .. m /\ q[k] = p[k - n + 1]
  /\ \A i \in 2 .. m : i + n - 1 \in n + 1 .. n + m - 1 /\ q[i + n - 1] = p[i]

\* The same, with where each step of either plan is.
LEMMA SpliceMoves ==
  ASSUME NEW p, NEW ins, NEW q, Spliced(p, ins, q)
  PROVE  Moved(p, ins, q, Len(ins), Len(p))
<1>. DEFINE n == Len(ins)
            m == Len(p)
<1>1. /\ q \in Seq(Steps) /\ p \in Seq(Steps) /\ ins \in Seq(Steps)
      /\ Len(q) = n + m - 1 /\ m > 0
      /\ \A k \in 1 .. n : q[k] = ins[k]
      /\ \A k \in n + 1 .. Len(q) : q[k] = p[k - n + 1]
  BY DEF Spliced
<1>2. /\ n \in Nat /\ m \in Nat /\ DOMAIN p = 1 .. m /\ DOMAIN ins = 1 .. n
      /\ DOMAIN q = 1 .. n + m - 1
  BY <1>1
<1>3. \A k \in n + 1 .. n + m - 1 : k - n + 1 \in 2 .. m /\ q[k] = p[k - n + 1]
  BY <1>1, <1>2
<1>4. \A i \in 2 .. m : i + n - 1 \in n + 1 .. n + m - 1 /\ q[i + n - 1] = p[i]
  <2>. SUFFICES ASSUME NEW i \in 2 .. m
                PROVE  i + n - 1 \in n + 1 .. n + m - 1 /\ q[i + n - 1] = p[i]
    OBVIOUS
  <2>1. i + n - 1 \in n + 1 .. n + m - 1 /\ (i + n - 1) - n + 1 = i
    BY <1>2
  <2>. QED BY <1>3, <2>1
<1>. QED BY <1>1, <1>2, <1>3, <1>4 DEF Moved

\* Nothing out of turn is added, so the plan stays in order.
LEMMA SpliceOrderly ==
  ASSUME NEW p, NEW ins, NEW q, Spliced(p, ins, q), Orderly(p),
         \A i \in DOMAIN ins : ins[i] \notin {"turn", "click", "draw"}
  PROVE  Orderly(q)
<1>. DEFINE n == Len(ins)
            m == Len(p)
<1>0. Moved(p, ins, q, n, m)
  BY SpliceMoves
<1>1. /\ n \in Nat /\ m \in Nat /\ m > 0
      /\ DOMAIN q = 1 .. n + m - 1 /\ DOMAIN p = 1 .. m /\ DOMAIN ins = 1 .. n
      /\ Len(q) = n + m - 1
      /\ \A k \in 1 .. n : q[k] = ins[k]
      /\ \A k \in n + 1 .. n + m - 1 : k - n + 1 \in 2 .. m /\ q[k] = p[k - n + 1]
  BY <1>0 DEF Moved
<1>2. ASSUME NEW i \in DOMAIN q, q[i] \in {"turn", "click", "draw"}
      PROVE  i \in n + 1 .. n + m - 1
  <2>. HIDE DEF n, m
  <2>1. ~(i \in 1 .. n)
    BY <1>1, <1>2
  <2>. QED BY <1>1, <2>1
<1>3. ASSUME NEW i \in DOMAIN q, NEW k \in DOMAIN q, i < k, q[i] \in {"turn", "click"}
      PROVE  q[k] \notin {"turn", "click", "begin"}
  <2>. HIDE DEF n, m
  <2>1. i \in n + 1 .. n + m - 1
    BY <1>2, <1>3
  <2>2. k \in n + 1 .. n + m - 1
    BY <1>1, <1>3, <2>1
  <2>3. i - n + 1 \in DOMAIN p /\ k - n + 1 \in DOMAIN p /\ i - n + 1 < k - n + 1
    BY <1>1, <1>3, <2>1, <2>2
  <2>4. q[i] = p[i - n + 1] /\ q[k] = p[k - n + 1]
    BY <1>1, <2>1, <2>2
  <2>. QED BY <1>3, <2>3, <2>4 DEF Orderly
<1>4. ASSUME NEW i \in DOMAIN q, q[i] = "draw" PROVE i = Len(q)
  <2>. HIDE DEF n, m
  <2>1. i \in n + 1 .. n + m - 1
    BY <1>2, <1>4
  <2>2. i - n + 1 \in DOMAIN p /\ p[i - n + 1] = "draw"
    BY <1>1, <1>4, <2>1
  <2>3. i - n + 1 = m
    BY <2>2 DEF Orderly, m
  <2>. QED BY <1>1, <2>1, <2>3
<1>. QED BY <1>3, <1>4 DEF Orderly

\* Nothing is taken in what is added, so the plan stays paired.
LEMMA SplicePaired ==
  ASSUME NEW p, NEW ins, NEW q, Spliced(p, ins, q), Paired(p),
         \A i \in DOMAIN ins : ins[i] # "take"
  PROVE  Paired(q)
<1>. DEFINE n == Len(ins)
            m == Len(p)
<1>0. Moved(p, ins, q, n, m)
  BY SpliceMoves
<1>1. /\ n \in Nat /\ m \in Nat /\ m > 0
      /\ DOMAIN q = 1 .. n + m - 1 /\ DOMAIN p = 1 .. m /\ DOMAIN ins = 1 .. n
      /\ \A k \in 1 .. n : q[k] = ins[k]
      /\ \A k \in n + 1 .. n + m - 1 : k - n + 1 \in 2 .. m /\ q[k] = p[k - n + 1]
      /\ \A i \in 2 .. m : i + n - 1 \in n + 1 .. n + m - 1 /\ q[i + n - 1] = p[i]
  BY <1>0 DEF Moved
<1>. HIDE DEF n, m
<1>2. ASSUME NEW i \in DOMAIN q, q[i] = "take"
      PROVE  /\ i \in n + 1 .. n + m - 1
             /\ i - n + 1 \in 2 .. m /\ i - n + 1 \in DOMAIN p /\ p[i - n + 1] = "take"
  <2>1. ~(i \in 1 .. n)
    BY <1>1, <1>2
  <2>2. i \in n + 1 .. n + m - 1
    BY <1>1, <2>1
  <2>. QED BY <1>1, <1>2, <2>2
<1>3. ASSUME NEW j \in DOMAIN p, j > 1, p[j] = "give"
      PROVE  j + n - 1 \in DOMAIN q /\ q[j + n - 1] = "give" /\ j \in Int
  <2>1. j \in 2 .. m
    BY <1>1, <1>3
  <2>2. j + n - 1 \in n + 1 .. n + m - 1
    BY <1>1, <2>1
  <2>. QED BY <1>1, <1>3, <2>1, <2>2
<1>4. ASSUME NEW i \in DOMAIN q, NEW k \in DOMAIN q, i < k, q[i] = "take", q[k] = "take"
      PROVE  \E j \in DOMAIN q : i < j /\ j < k /\ q[j] = "give"
  <2>1. i \in n + 1 .. n + m - 1 /\ k \in n + 1 .. n + m - 1
    BY <1>2, <1>4
  <2>2. i - n + 1 < k - n + 1
    BY <1>1, <1>4, <2>1
  <2>3. PICK j \in DOMAIN p : i - n + 1 < j /\ j < k - n + 1 /\ p[j] = "give"
    BY <1>2, <1>4, <2>2 DEF Paired
  <2>4. j > 1
    BY <1>1, <2>1, <2>3
  <2>5. j + n - 1 \in DOMAIN q /\ q[j + n - 1] = "give" /\ j \in Int
    BY <1>3, <2>3, <2>4
  <2>6. i < j + n - 1 /\ j + n - 1 < k
    BY <1>1, <2>1, <2>3, <2>5
  <2>. QED BY <2>5, <2>6
<1>5. ASSUME NEW i \in DOMAIN q, q[i] = "take"
      PROVE  \E j \in DOMAIN q : i < j /\ q[j] = "give"
  <2>1. i \in n + 1 .. n + m - 1
    BY <1>2, <1>5
  <2>2. PICK j \in DOMAIN p : i - n + 1 < j /\ p[j] = "give"
    BY <1>2, <1>5 DEF Paired
  <2>3. j > 1
    BY <1>1, <2>1, <2>2
  <2>4. j + n - 1 \in DOMAIN q /\ q[j + n - 1] = "give" /\ j \in Int
    BY <1>3, <2>2, <2>3
  <2>5. i < j + n - 1
    BY <1>1, <2>1, <2>2, <2>4
  <2>. QED BY <2>4, <2>5
<1>. QED BY <1>4, <1>5 DEF Paired

\* The holder takes a step that is not one of the lock.
LEMMA SpliceReleases ==
  ASSUME NEW p, NEW ins, NEW q, Spliced(p, ins, q), Releases(p), p[1] # "give",
         \A i \in DOMAIN ins : ins[i] # "take"
  PROVE  Releases(q)
<1>. DEFINE n == Len(ins)
            m == Len(p)
<1>0. Moved(p, ins, q, n, m)
  BY SpliceMoves
<1>1. /\ n \in Nat /\ m \in Nat /\ m > 0
      /\ DOMAIN q = 1 .. n + m - 1 /\ DOMAIN p = 1 .. m /\ DOMAIN ins = 1 .. n
      /\ \A k \in 1 .. n : q[k] = ins[k]
      /\ \A k \in n + 1 .. n + m - 1 : k - n + 1 \in 2 .. m /\ q[k] = p[k - n + 1]
      /\ \A i \in 2 .. m : i + n - 1 \in n + 1 .. n + m - 1 /\ q[i + n - 1] = p[i]
  BY <1>0 DEF Moved
<1>. HIDE DEF n, m
<1>2. ASSUME NEW j \in DOMAIN p, p[j] = "give"
      PROVE  j + n - 1 \in DOMAIN q /\ q[j + n - 1] = "give" /\ j \in Int
  <2>0. j # 1
    BY <1>2
  <2>1. j \in 2 .. m
    BY <1>1, <2>0
  <2>2. j + n - 1 \in n + 1 .. n + m - 1
    BY <1>1, <2>1
  <2>. QED BY <1>1, <1>2, <2>1, <2>2
<1>3. \E j \in DOMAIN q : q[j] = "give"
  BY <1>2 DEF Releases
<1>4. ASSUME NEW k \in DOMAIN q, q[k] = "take"
      PROVE  \E j \in DOMAIN q : j < k /\ q[j] = "give"
  <2>1. ~(k \in 1 .. n)
    BY <1>1, <1>4
  <2>2. k \in n + 1 .. n + m - 1
    BY <1>1, <2>1
  <2>3. k - n + 1 \in DOMAIN p /\ p[k - n + 1] = "take"
    BY <1>1, <1>4, <2>2
  <2>4. PICK j \in DOMAIN p : j < k - n + 1 /\ p[j] = "give"
    BY <2>3 DEF Releases
  <2>5. j + n - 1 \in DOMAIN q /\ q[j + n - 1] = "give" /\ j \in Int
    BY <1>2, <2>4
  <2>6. j + n - 1 < k
    BY <1>1, <2>2, <2>4, <2>5
  <2>. QED BY <2>5, <2>6
<1>. QED BY <1>3, <1>4 DEF Releases

\* Taking s_mu leaves the holder with a plan that releases it.
LEMMA TakenReleases ==
  ASSUME NEW p, NEW q, Spliced(p, <<>>, q), Paired(p), p[1] = "take"
  PROVE  Releases(q)
<1>. DEFINE m == Len(p)
<1>1. /\ m \in Nat /\ m > 0 /\ DOMAIN q = 1 .. m - 1 /\ DOMAIN p = 1 .. m
      /\ \A k \in 1 .. m - 1 : q[k] = p[k + 1]
  <2>1. Len(<<>>) = 0
    OBVIOUS
  <2>0. Moved(p, <<>>, q, Len(<<>>), m)
    BY SpliceMoves
  <2>2. /\ m \in Nat /\ m > 0 /\ DOMAIN q = 1 .. 0 + m - 1 /\ DOMAIN p = 1 .. m
        /\ \A k \in 0 + 1 .. 0 + m - 1 : k - 0 + 1 \in 2 .. m /\ q[k] = p[k - 0 + 1]
    BY <2>0, <2>1 DEF Moved
  <2>. HIDE DEF m
  <2>3. \A k \in 1 .. m - 1 : k \in 0 + 1 .. 0 + m - 1 /\ k - 0 + 1 = k + 1
    BY <2>2
  <2>. QED BY <2>2, <2>3
<1>. HIDE DEF m
<1>2. ASSUME NEW j \in DOMAIN p, 1 < j, p[j] = "give"
      PROVE  j - 1 \in DOMAIN q /\ q[j - 1] = "give" /\ j \in Int
  <2>1. j - 1 \in 1 .. m - 1 /\ (j - 1) + 1 = j
    BY <1>1, <1>2
  <2>. QED BY <1>1, <1>2, <2>1
<1>3. 1 \in DOMAIN p
  BY <1>1
<1>4. \E j \in DOMAIN q : q[j] = "give"
  <2>1. PICK j \in DOMAIN p : 1 < j /\ p[j] = "give"
    BY <1>3 DEF Paired
  <2>. QED BY <1>2, <2>1
<1>5. ASSUME NEW k \in DOMAIN q, q[k] = "take"
      PROVE  \E j \in DOMAIN q : j < k /\ q[j] = "give"
  <2>1. k + 1 \in DOMAIN p /\ 1 < k + 1 /\ p[k + 1] = "take" /\ k \in Int
    BY <1>1, <1>5
  <2>2. PICK j \in DOMAIN p : 1 < j /\ j < k + 1 /\ p[j] = "give"
    BY <1>3, <2>1 DEF Paired
  <2>3. j - 1 \in DOMAIN q /\ q[j - 1] = "give" /\ j \in Int
    BY <1>2, <2>2
  <2>4. j - 1 < k
    BY <2>1, <2>2, <2>3
  <2>. QED BY <2>3, <2>4
<1>. QED BY <1>4, <1>5 DEF Releases

-----------------------------------------------------------------------------
(* The menu: where the cursor is, and what is going to be opened.          *)

Pending(p) == \E i \in DOMAIN p : p[i] = "begin"

\* What there is to click on anywhere.
AnyLine == UNION {Lines(s) : s \in Screens}

MenuType ==
  /\ scr \in Screens /\ cur \in Lines(scr)
  /\ edit \in Rows \cup {NoRow} /\ arm \in Confirmed \cup {NoRow}
  /\ clicked \in AnyLine \cup {NoRow}
  /\ done \in Confirmed \cup {NoRow}

PlanType == mu \in Tasks \cup {"nobody"} /\ plan \in [Tasks -> Seq(Steps)]

\* A row waits to be opened only on the screen it is on, under the cursor.
MenuInv ==
  /\ PlanType /\ MenuType
  /\ Orderly(plan["ui"])
  /\ Pending(plan["ui"]) => scr = "prog" /\ cur \in Rows
  /\ EditIsAtCursor

\* The lines that are no rows of the table.
LEMMA Strangers ==
  /\ NoRow \notin Rows /\ Back \notin Rows /\ Quick \notin Rows /\ Info \notin Rows
  /\ "enter" \notin Rows /\ "temp" \notin Rows /\ "clear" \notin Rows
  /\ "reboot" \notin Rows /\ Hooked \subseteq Rows
  /\ \A s \in Leaves : s \notin Rows
BY RowsAssumption DEF Leaves

\* A step of one task leaves the other plans alone.
LEMMA GoIs ==
  ASSUME PlanType, NEW t \in Tasks, plan[t] # <<>>, NEW ins \in Seq(Steps), Go(t, ins)
  PROVE  /\ plan' \in [Tasks -> Seq(Steps)]
         /\ Spliced(plan[t], ins, plan'[t])
         /\ \A u \in Tasks : u # t => plan'[u] = plan[u]
<1>1. plan \in [Tasks -> Seq(Steps)]
  BY DEF PlanType
<1>2. Spliced(plan[t], ins, ins \o Tail(plan[t]))
  BY <1>1, SplicedIs
<1>3. ins \o Tail(plan[t]) \in Seq(Steps)
  BY <1>2 DEF Spliced
<1>. DEFINE q == ins \o Tail(plan[t])
<1>4. plan' = [plan EXCEPT ![t] = q]
  BY DEF Go
<1>. HIDE DEF q
<1>5. plan'[t] = q /\ \A u \in Tasks : u # t => plan'[u] = plan[u]
  BY <1>1, <1>4
<1>6. plan' \in [Tasks -> Seq(Steps)]
  BY <1>1, <1>3, <1>4 DEF q
<1>. QED BY <1>2, <1>5, <1>6 DEF q

\* So does the beginning of one.
LEMMA StartIs ==
  ASSUME PlanType, NEW t \in Tasks, NEW p \in Seq(Steps), Start(t, p)
  PROVE  /\ plan' \in [Tasks -> Seq(Steps)] /\ plan[t] = <<>> /\ plan'[t] = p
         /\ \A u \in Tasks : u # t => plan'[u] = plan[u]
BY DEF PlanType, Start, Idle

\* What the plan of the menu is after one of its steps.
LEMMA UiGoes ==
  ASSUME PlanType, Orderly(plan["ui"]), plan["ui"] # <<>>, NEW ins \in Seq(Steps),
         Go("ui", ins), \A i \in DOMAIN ins : ins[i] \notin {"turn", "click", "draw"}
  PROVE  /\ plan' \in [Tasks -> Seq(Steps)] /\ Orderly(plan'["ui"])
         /\ Pending(plan'["ui"]) => \/ Pending(ins)
                                    \/ /\ Pending(plan["ui"])
                                       /\ Head(plan["ui"]) \notin {"turn", "click"}
<1>. DEFINE p == plan["ui"]
            q == plan'["ui"]
            n == Len(ins)
            m == Len(p)
<1>1. plan' \in [Tasks -> Seq(Steps)] /\ Spliced(p, ins, q)
  BY GoIs DEF Tasks
<1>2. Orderly(q)
  BY <1>1, SpliceOrderly
<1>3. Moved(p, ins, q, n, m)
  BY <1>1, SpliceMoves
<1>4. p[1] = Head(p)
  BY DEF PlanType, Tasks
<1>. HIDE DEF p, q, n, m
<1>5. /\ n \in Nat /\ m \in Nat /\ m > 0
      /\ DOMAIN q = 1 .. n + m - 1 /\ DOMAIN p = 1 .. m /\ DOMAIN ins = 1 .. n
      /\ \A k \in 1 .. n : q[k] = ins[k]
      /\ \A k \in n + 1 .. n + m - 1 : k - n + 1 \in 2 .. m /\ q[k] = p[k - n + 1]
  BY <1>3 DEF Moved
<1>6. ASSUME NEW k \in DOMAIN q, q[k] = "begin"
      PROVE  Pending(ins) \/ (Pending(p) /\ Head(p) \notin {"turn", "click"})
  <2>1. CASE k \in 1 .. n
    BY <1>5, <1>6, <2>1 DEF Pending
  <2>2. CASE k \in n + 1 .. n + m - 1
    <3>1. k - n + 1 \in DOMAIN p /\ p[k - n + 1] = "begin" /\ 1 \in DOMAIN p
          /\ 1 < k - n + 1
      BY <1>5, <1>6, <2>2
    <3>2. p[1] \notin {"turn", "click"}
      BY <3>1 DEF Orderly, p
    <3>. QED BY <1>4, <3>1, <3>2 DEF Pending
  <2>. QED BY <1>5, <2>1, <2>2
<1>. QED BY <1>1, <1>2, <1>6 DEF Pending, p, q


\* Sequences over a set, one after the other, are one.
LEMMA Concat ==
  ASSUME NEW S, NEW a \in Seq(S), NEW b \in Seq(S)
  PROVE  a \o b \in Seq(S)
OBVIOUS

\* A critical section does nothing but take and give.
LEMMA SectionIs == Section \in Seq(Lock) /\ <<>> \in Seq(Lock)
BY DEF Section, Lock

\* So does an access to a row, in s_mu's eyes.
LEMMA LocksIs == ASSUME NEW row PROVE Locks(row) \in Seq(Lock)
BY SectionIs DEF Locks

\* A sequence over a set is one over any larger set.
LEMMA Wider ==
  ASSUME NEW S, NEW T, S \subseteq T, NEW a \in Seq(S)
  PROVE  a \in Seq(T) /\ \A i \in DOMAIN a : a[i] \in S
OBVIOUS

\* What a click on a row adds.
Edits == Lock \cup {"begin", "commit"}

\* A click on a row adds accesses and what they are for.
LEMMA EditsAre ==
  ASSUME NEW a, NEW b
  PROVE  /\ Locks(a) \o <<"begin">> \in Seq(Edits)
         /\ Locks(a) \o <<"commit">> \in Seq(Edits)
         /\ Locks(a) \o <<"commit">> \o <<>> \in Seq(Edits)
         /\ Locks(a) \o <<"commit">> \o (Locks(b) \o <<"begin">>) \in Seq(Edits)
<1>1. /\ <<"begin">> \in Seq(Edits) /\ <<"commit">> \in Seq(Edits) /\ <<>> \in Seq(Edits)
      /\ Locks(a) \in Seq(Edits) /\ Locks(b) \in Seq(Edits)
  BY LocksIs, Wider DEF Edits
<1>2. Locks(a) \o <<"begin">> \in Seq(Edits) /\ Locks(a) \o <<"commit">> \in Seq(Edits)
      /\ Locks(b) \o <<"begin">> \in Seq(Edits)
  BY <1>1, Concat
<1>3. Locks(a) \o <<"commit">> \o <<>> \in Seq(Edits)
      /\ Locks(a) \o <<"commit">> \o (Locks(b) \o <<"begin">>) \in Seq(Edits)
  BY <1>1, <1>2, Concat
<1>. QED BY <1>2, <1>3

\* These are steps, and no input and no drawing.
LEMMA EditsAreSteps ==
  ASSUME NEW a \in Seq(Edits)
  PROVE  a \in Seq(Steps) /\ \A i \in DOMAIN a : a[i] \notin {"turn", "click", "draw"}
<1>1. Edits \subseteq Steps
  BY DEF Edits, Lock, Steps
<1>2. a \in Seq(Steps) /\ \A i \in DOMAIN a : a[i] \in Edits
  BY <1>1, Wider
<1>. QED BY <1>2 DEF Edits, Lock

\* Critical sections one after the other, step by step.
LEMMA SectionsIs ==
  ASSUME NEW n \in Nat
  PROVE  /\ Sections(n) \in Seq(Lock) /\ Len(Sections(n)) = 2 * n
         /\ \A i \in 1 .. 2 * n : Sections(n)[i] = IF i % 2 = 1 THEN "take" ELSE "give"
<1>. DEFINE m == 2 * n
            f == [i \in 1 .. m |-> IF i % 2 = 1 THEN "take" ELSE "give"]
<1>1. m \in Nat
  OBVIOUS
<1>. HIDE DEF m
<1>2. f \in [1 .. m -> Lock]
  BY DEF Lock
<1>3. f \in Seq(Lock) /\ Len(f) = m
  BY <1>1, <1>2
<1>4. \A i \in 1 .. m : f[i] = IF i % 2 = 1 THEN "take" ELSE "give"
  OBVIOUS
<1>5. Sections(n) = f
  BY DEF Sections, m
<1>. HIDE DEF f
<1>. QED BY <1>3, <1>4, <1>5 DEF m

\* There are so many rows to draw.
LEMMA CountIsNat == Cardinality(Hooked \ {edit}) \in Nat
<1>1. IsFiniteSet(Hooked)
  BY RowsAssumption, FS_Subset
<1>2. IsFiniteSet(Hooked \ {edit})
  BY <1>1, FS_Subset
<1>. QED BY <1>2, FS_CardinalityType

\* The plans of monitor, console and radio are plans.
LEMMA Starts ==
  /\ Section \in Seq(Steps)
  /\ Section \o Section \o Section \o <<"take", "tick", "give">> \in Seq(Steps)
  /\ \A row : Locks(row) \o Locks(row) \o Locks(row) \in Seq(Steps)
<1>1. Section \in Seq(Steps) /\ <<"take", "tick", "give">> \in Seq(Steps)
  BY DEF Section, Steps
<1>2. \A row : Locks(row) \in Seq(Steps)
  <2>1. Lock \subseteq Steps
    BY DEF Lock, Steps
  <2>. QED BY <2>1, LocksIs, Wider
<1>3. Section \o Section \in Seq(Steps) /\ \A row : Locks(row) \o Locks(row) \in Seq(Steps)
  BY <1>1, <1>2, Concat
<1>4. Section \o Section \o Section \in Seq(Steps)
      /\ \A row : Locks(row) \o Locks(row) \o Locks(row) \in Seq(Steps)
  BY <1>1, <1>2, <1>3, Concat
<1>5. Section \o Section \o Section \o <<"take", "tick", "give">> \in Seq(Steps)
  BY <1>1, <1>4, Concat
<1>. QED BY <1>1, <1>4, <1>5

\* So is that of the menu after an input, which comes before its drawing.
LEMMA InputIs ==
  ASSUME NEW s \in {"turn", "click"}
  PROVE  Input(s) \in Seq(Steps) /\ Orderly(Input(s)) /\ ~Pending(Input(s))
<1>. DEFINE p == Input(s)
<1>1. /\ p \in Seq(Steps) /\ Len(p) = 6 /\ DOMAIN p = 1 .. 6
      /\ p[1] = "take" /\ p[2] = s /\ p[3] = "give" /\ p[4] = "take" /\ p[5] = "give"
      /\ p[6] = "draw"
  BY DEF Input, Steps
<1>. HIDE DEF p
<1>2. \A i \in 1 .. 6 : i \in {1, 2, 3, 4, 5, 6}
  OBVIOUS
<1>. QED BY <1>1, <1>2 DEF Orderly, Pending, p

\* So is that of the menu when it only draws.
LEMMA RedrawIs ==
  LET p == Section \o <<"draw">>
  IN  /\ p \in Seq(Steps) /\ Orderly(p) /\ ~Pending(p) /\ Len(p) = 3 /\ DOMAIN p = 1 .. 3
      /\ p[1] = "take" /\ p[2] = "give" /\ p[3] = "draw"
<1>. DEFINE p == Section \o <<"draw">>
<1>1. /\ Section \in Seq(Steps) /\ Len(Section) = 2
      /\ Section[1] = "take" /\ Section[2] = "give"
      /\ <<"draw">> \in Seq(Steps) /\ Len(<<"draw">>) = 1 /\ <<"draw">>[1] = "draw"
  BY DEF Section, Steps
<1>2. /\ p \in Seq(Steps) /\ Len(p) = 3 /\ DOMAIN p = 1 .. 3
      /\ p[1] = "take" /\ p[2] = "give" /\ p[3] = "draw"
  <2>. DEFINE d == <<"draw">>
  <2>. HIDE DEF d
  <2>1. /\ p \in Seq(Steps) /\ Len(p) = Len(Section) + Len(d)
        /\ \A i \in 1 .. Len(Section) + Len(d) :
             p[i] = IF i <= Len(Section) THEN Section[i] ELSE d[i - Len(Section)]
    BY <1>1, ConcatProperties DEF d
  <2>2. Len(Section) + Len(d) = 3 /\ d[1] = "draw" /\ Len(Section) = 2
    BY <1>1 DEF d
  <2>. HIDE DEF p
  <2>3. p[1] = Section[1] /\ p[2] = Section[2] /\ p[3] = d[3 - 2]
    BY <2>1, <2>2
  <2>. QED BY <1>1, <2>1, <2>2, <2>3
<1>. HIDE DEF p
<1>3. \A i \in 1 .. 3 : i \in {1, 2, 3}
  OBVIOUS
<1>4. Orderly(p) /\ ~Pending(p)
  BY <1>2, <1>3 DEF Orderly, Pending
<1>. QED BY <1>2, <1>4 DEF p

-----------------------------------------------------------------------------
(* Step by step.                                                           *)

\* The first line of the home screen.
LEMMA HomeIs ==
  /\ "home" \in Screens /\ "sel" \in Screens /\ "prog" \in Screens
  /\ First("home") \in Lines("home") /\ First("sel") \in Lines("sel")
  /\ "prog" \in Lines("sel")
BY DEF Screens, Leaves, First, Lines

\* Steps of the lock and the tick leave the menu alone.
LEMMA LockKeepsMenu ==
  ASSUME MenuInv, NEW t \in Tasks, Take(t) \/ Give(t) \/ (t = "mon" /\ MonTick)
  PROVE  MenuInv'
<1>. USE DEF MenuInv
<1>1. /\ plan[t] # <<>> /\ Go(t, <<>>) /\ UNCHANGED menu
      /\ mu' \in Tasks \cup {"nobody"}
  BY DEF Take, Give, MonTick, At, PlanType
<1>2. <<>> \in Seq(Steps) /\ ~Pending(<<>>) /\ DOMAIN <<>> = {}
  BY DEF Pending
<1>3. /\ plan' \in [Tasks -> Seq(Steps)] /\ Orderly(plan'["ui"])
      /\ Pending(plan'["ui"]) => Pending(plan["ui"])
  <2>1. CASE t = "ui"
    BY <1>1, <1>2, <2>1, UiGoes
  <2>2. CASE t # "ui"
    <3>1. plan'["ui"] = plan["ui"] /\ plan' \in [Tasks -> Seq(Steps)]
      BY <1>1, <1>2, <2>2, GoIs DEF Tasks
    <3>. QED BY <3>1
  <2>. QED BY <2>1, <2>2
<1>. QED BY <1>1, <1>3 DEF PlanType, MenuType, EditIsAtCursor, menu

\* Nor does the beginning of anything.
LEMMA StartKeepsMenu ==
  ASSUME MenuInv, \/ MonWake \/ SerialCommand \/ \E row \in Rows : CommsParamSet(row)
                  \/ UiTurn \/ UiClick \/ UiLive
  PROVE  MenuInv'
<1>. USE DEF MenuInv
<1>1. UNCHANGED <<mu, menu>>
  BY DEF MonWake, SerialCommand, CommsParamSet, UiTurn, UiClick, UiLive
<1>2. /\ plan' \in [Tasks -> Seq(Steps)] /\ Orderly(plan'["ui"])
      /\ Pending(plan'["ui"]) => Pending(plan["ui"])
  <2>1. CASE MonWake
    <3>1. plan'["ui"] = plan["ui"] /\ plan' \in [Tasks -> Seq(Steps)]
      BY <2>1, Starts, StartIs DEF Tasks, MonWake
    <3>. QED BY <3>1
  <2>2. CASE SerialCommand
    <3>1. plan'["ui"] = plan["ui"] /\ plan' \in [Tasks -> Seq(Steps)]
      BY <2>2, Starts, StartIs DEF Tasks, SerialCommand
    <3>. QED BY <3>1
  <2>3. CASE \E row \in Rows : CommsParamSet(row)
    <3>1. PICK row : CommsParamSet(row)
      BY <2>3
    <3>2. plan'["ui"] = plan["ui"] /\ plan' \in [Tasks -> Seq(Steps)]
      BY <3>1, Starts, StartIs DEF Tasks, CommsParamSet
    <3>. QED BY <3>2
  <2>4. CASE UiTurn
    <3>1. plan'["ui"] = Input("turn") /\ plan' \in [Tasks -> Seq(Steps)]
      BY <2>4, InputIs, StartIs DEF Tasks, UiTurn
    <3>. QED BY <3>1, InputIs
  <2>5. CASE UiClick
    <3>1. plan'["ui"] = Input("click") /\ plan' \in [Tasks -> Seq(Steps)]
      BY <2>5, InputIs, StartIs DEF Tasks, UiClick
    <3>. QED BY <3>1, InputIs
  <2>6. CASE UiLive
    <3>1. plan'["ui"] = Section \o <<"draw">> /\ plan' \in [Tasks -> Seq(Steps)]
      BY <2>6, RedrawIs, StartIs DEF Tasks, UiLive
    <3>. QED BY <3>1, RedrawIs
  <2>. QED BY <2>1, <2>2, <2>3, <2>4, <2>5, <2>6
<1>. QED BY <1>1, <1>2 DEF PlanType, MenuType, EditIsAtCursor, menu

\* Going home from anywhere ends the edit.
LEMMA HoldKeepsMenu == ASSUME MenuInv, UiHold PROVE MenuInv'
<1>. USE DEF MenuInv
<1>1. plan'["ui"] = Section \o <<"draw">> /\ plan' \in [Tasks -> Seq(Steps)]
  BY RedrawIs, StartIs DEF Tasks, UiHold
<1>2. Orderly(plan'["ui"]) /\ ~Pending(plan'["ui"])
  BY <1>1, RedrawIs
<1>3. MenuType' /\ PlanType'
  BY <1>1, HomeIs DEF UiHold, MenuType, PlanType, Show
<1>4. EditIsAtCursor'
  BY DEF UiHold, EditIsAtCursor
<1>. QED BY <1>2, <1>3, <1>4

\* Rows that come and go move the cursor, on a screen without an edit.
LEMMA ShiftKeepsMenu == ASSUME MenuInv, DiagShifts PROVE MenuInv'
<1>. USE DEF MenuInv
<1>1. /\ scr = "diag" /\ cur' \in Lines("diag")
      /\ UNCHANGED <<mu, plan, scr, edit, arm, clicked, done>>
  BY DEF DiagShifts, Lines
<1>2. MenuType' /\ PlanType'
  BY <1>1 DEF MenuType, PlanType
<1>3. EditIsAtCursor'
  BY <1>1 DEF EditIsAtCursor
<1>. QED BY <1>1, <1>2, <1>3

\* The restart.
LEMMA RestartKeepsMenu == ASSUME MenuInv, Restart PROVE MenuInv'
<1>. USE DEF MenuInv
<1>1. plan' = [t \in Tasks |-> <<>>] /\ plan' \in [Tasks -> Seq(Steps)]
  BY DEF Restart
<1>2. plan'["ui"] = <<>>
  BY <1>1 DEF Tasks
<1>3. Orderly(plan'["ui"]) /\ ~Pending(plan'["ui"])
  BY <1>2 DEF Orderly, Pending
<1>4. MenuType' /\ PlanType'
  BY <1>1, HomeIs DEF Restart, MenuType, PlanType, Show
<1>5. EditIsAtCursor'
  BY DEF Restart, EditIsAtCursor
<1>. QED BY <1>3, <1>4, <1>5

\* The knob moves the cursor when there is no edit, and it is turned before a
\* row is opened.
LEMMA TurnKeepsMenu == ASSUME MenuInv, Turn PROVE MenuInv'
<1>. USE DEF MenuInv
<1>1. /\ plan["ui"] # <<>> /\ Head(plan["ui"]) = "turn" /\ Go("ui", <<>>)
      /\ edit = NoRow => cur' \in Lines(scr)
      /\ edit # NoRow => cur' = cur
      /\ UNCHANGED <<mu, scr, edit, arm, clicked, done>>
  BY DEF Turn, At
<1>2. <<>> \in Seq(Steps) /\ ~Pending(<<>>) /\ DOMAIN <<>> = {}
  BY DEF Pending
<1>3. plan' \in [Tasks -> Seq(Steps)] /\ Orderly(plan'["ui"]) /\ ~Pending(plan'["ui"])
  BY <1>1, <1>2, UiGoes
<1>4. MenuType' /\ PlanType'
  BY <1>1, <1>3 DEF MenuType, PlanType
<1>5. EditIsAtCursor'
  BY <1>1 DEF EditIsAtCursor
<1>. QED BY <1>3, <1>4, <1>5

\* A click that is not on the parameter table.
LEMMA ClickedKeepsMenu ==
  ASSUME MenuInv, NEW s \in Screens, s # "prog", NEW next, Clicked(s, next),
         scr' \in Screens, cur' \in Lines(scr'),
         arm' \in Confirmed \cup {NoRow}, done' \in Confirmed \cup {NoRow}
  PROVE  MenuInv'
<1>. USE DEF MenuInv
<1>. DEFINE ins == IF done' = "reboot" THEN <<"restart">> ELSE <<>>
<1>1. /\ plan["ui"] # <<>> /\ Head(plan["ui"]) = "click" /\ Go("ui", ins) /\ scr = s
      /\ clicked' \in {cur, NoRow} /\ UNCHANGED <<mu, edit>>
  BY DEF Clicked, At
<1>2. /\ ins \in Seq(Steps) /\ ~Pending(ins)
      /\ \A i \in DOMAIN ins : ins[i] \notin {"turn", "click", "draw"}
  <2>1. CASE done' = "reboot"
    <3>1. ins = <<"restart">>
      BY <2>1
    <3>. HIDE DEF ins
    <3>. QED BY <3>1 DEF Pending, Steps
  <2>2. CASE done' # "reboot"
    <3>1. ins = <<>>
      BY <2>2
    <3>. HIDE DEF ins
    <3>. QED BY <3>1 DEF Pending
  <2>. QED BY <2>1, <2>2
<1>. HIDE DEF ins
<1>3. plan' \in [Tasks -> Seq(Steps)] /\ Orderly(plan'["ui"]) /\ ~Pending(plan'["ui"])
  BY <1>1, <1>2, UiGoes
<1>4. MenuType' /\ PlanType'
  <2>1. clicked' \in AnyLine \cup {NoRow}
    <3>1. cur \in AnyLine
      BY DEF MenuType, AnyLine
    <3>. QED BY <1>1, <3>1
  <2>. QED BY <1>1, <1>3, <2>1 DEF MenuType, PlanType
<1>5. EditIsAtCursor'
  BY <1>1 DEF EditIsAtCursor
<1>. QED BY <1>3, <1>4, <1>5

\* The clicks on every other screen lead to a line of the screen shown.
LEMMA OtherClicksKeepMenu ==
  ASSUME MenuInv, ClickHome \/ ClickSel \/ ClickLeaf \/ ClickConfirm
  PROVE  MenuInv'
<1>0. cur \in Lines(scr) /\ scr \in Screens
  BY DEF MenuInv, MenuType
<1>1. CASE ClickHome
  <2>1. scr' = "sel" /\ cur' = First("sel") /\ arm' = NoRow /\ done' = NoRow
    BY <1>1 DEF ClickHome, Clicked, Show, Disarm
  <2>2. scr' \in Screens /\ cur' \in Lines(scr')
    BY <2>1 DEF Screens, First, Lines, Leaves
  <2>3. \E next : Clicked("home", next)
    BY <1>1 DEF ClickHome
  <2>. QED BY <2>1, <2>2, <2>3, ClickedKeepsMenu DEF Screens
<1>2. CASE ClickSel
  <2>1. /\ scr = "sel" /\ arm' = NoRow /\ done' = NoRow
        /\ \/ cur = Back /\ scr' = "home" /\ cur' = First("home")
           \/ cur # Back /\ scr' = cur /\ cur' = First(cur)
    BY <1>2 DEF ClickSel, Clicked, Show, Disarm
  <2>2. cur \in Leaves \cup {Back}
    BY <1>0, <2>1 DEF Lines
  <2>3. scr' \in Screens /\ cur' \in Lines(scr')
    BY <2>1, <2>2 DEF Screens, First, Lines, Leaves
  <2>4. \E next : Clicked("sel", next)
    BY <1>2 DEF ClickSel
  <2>. QED BY <2>1, <2>3, <2>4, ClickedKeepsMenu DEF Screens
<1>3. CASE ClickLeaf
  <2>1. PICK s \in {"temp", "sys"} :
          Clicked(s, /\ IF cur = Back THEN Show("sel", s) ELSE UNCHANGED <<scr, cur>>
                     /\ Disarm)
    BY <1>3 DEF ClickLeaf
  <2>2. arm' = NoRow /\ done' = NoRow /\ scr = s
        /\ \/ scr' = "sel" /\ cur' = s
           \/ scr' = scr /\ cur' = cur
    BY <2>1 DEF Clicked, Show, Disarm
  <2>3. scr' \in Screens /\ cur' \in Lines(scr')
    BY <1>0, <2>2 DEF Screens, Lines, Leaves
  <2>4. s \in Screens /\ s # "prog"
    BY DEF Screens, Leaves
  <2>. QED BY <2>1, <2>2, <2>3, <2>4, ClickedKeepsMenu
<1>4. CASE ClickConfirm
  <2>1. PICK s \in {"cnt", "diag"} :
          Clicked(s, /\ IF cur = Back THEN Show("sel", s) ELSE UNCHANGED <<scr, cur>>
                     /\ arm' = IF cur \in Confirmed /\ arm # cur THEN cur ELSE NoRow
                     /\ done' = IF cur \in Confirmed /\ arm = cur THEN cur ELSE NoRow)
    BY <1>4 DEF ClickConfirm
  <2>2. /\ arm' \in Confirmed \cup {NoRow} /\ done' \in Confirmed \cup {NoRow} /\ scr = s
        /\ \/ scr' = "sel" /\ cur' = s
           \/ scr' = scr /\ cur' = cur
    BY <2>1 DEF Clicked, Show
  <2>3. scr' \in Screens /\ cur' \in Lines(scr')
    BY <1>0, <2>2 DEF Screens, Lines, Leaves
  <2>4. s \in Screens /\ s # "prog"
    BY DEF Screens, Leaves
  <2>. QED BY <2>1, <2>2, <2>3, <2>4, ClickedKeepsMenu
<1>. QED BY <1>1, <1>2, <1>3, <1>4

\* A click on the parameter table may leave a row to be opened, the one
\* under the cursor.
LEMMA TableClicksKeepMenu ==
  ASSUME MenuInv, ClickRow \/ ClickEdit PROVE MenuInv'
<1>. USE DEF MenuInv
<1>1. CASE ClickRow
  <2>. DEFINE ins == IF cur \in Rows THEN Locks(cur) \o <<"begin">> ELSE <<>>
  <2>1. /\ plan["ui"] # <<>> /\ Head(plan["ui"]) = "click" /\ Go("ui", ins)
        /\ scr = "prog" /\ edit = NoRow /\ edit' = edit /\ mu' = mu
        /\ arm' = NoRow /\ done' = NoRow /\ clicked' = NoRow
        /\ \/ cur = Back /\ scr' = "sel" /\ cur' = "prog"
           \/ cur # Back /\ scr' = scr /\ cur' = cur
    BY <1>1 DEF ClickRow, At, Show, Disarm
  <2>2. ins \in Seq(Edits)
    <3>1. <<>> \in Seq(Edits)
      OBVIOUS
    <3>. QED BY <3>1, EditsAre
  <2>3. cur \notin Rows => ~Pending(ins)
    BY DEF Pending
  <2>. HIDE DEF ins
  <2>4. /\ ins \in Seq(Steps)
        /\ \A i \in DOMAIN ins : ins[i] \notin {"turn", "click", "draw"}
    BY <2>2, EditsAreSteps
  <2>5. /\ plan' \in [Tasks -> Seq(Steps)] /\ Orderly(plan'["ui"])
        /\ Pending(plan'["ui"]) => Pending(ins)
    BY <2>1, <2>4, UiGoes
  <2>6. MenuType' /\ PlanType'
    BY <2>1, <2>5, HomeIs DEF MenuType, PlanType
  <2>7. EditIsAtCursor'
    BY <2>1 DEF EditIsAtCursor
  <2>8. cur \in Rows => cur # Back
    BY Strangers
  <2>. QED BY <2>1, <2>3, <2>5, <2>6, <2>7, <2>8
<1>2. CASE ClickEdit
  <2>. DEFINE ins == Locks(edit) \o <<"commit">>
                       \o (IF cur = edit THEN <<>> ELSE Locks(cur) \o <<"begin">>)
  <2>1. /\ plan["ui"] # <<>> /\ Head(plan["ui"]) = "click" /\ Go("ui", ins)
        /\ scr = "prog" /\ edit # NoRow /\ arm' = NoRow /\ done' = NoRow /\ clicked' = NoRow
        /\ UNCHANGED <<mu, scr, cur, edit>>
    BY <1>2 DEF ClickEdit, At, Disarm
  <2>2. ins \in Seq(Edits)
    BY EditsAre
  <2>. HIDE DEF ins
  <2>3. /\ ins \in Seq(Steps)
        /\ \A i \in DOMAIN ins : ins[i] \notin {"turn", "click", "draw"}
    BY <2>2, EditsAreSteps
  <2>4. plan' \in [Tasks -> Seq(Steps)] /\ Orderly(plan'["ui"])
    BY <2>1, <2>3, UiGoes
  <2>5. MenuType' /\ PlanType'
    BY <2>1, <2>4 DEF MenuType, PlanType
  <2>6. EditIsAtCursor'
    BY <2>1 DEF EditIsAtCursor
  <2>7. cur \in Rows
    BY <2>1 DEF EditIsAtCursor, MenuType
  <2>. QED BY <2>1, <2>4, <2>5, <2>6, <2>7
<1>. QED BY <1>1, <1>2

\* A row is opened, or an edit committed, or the screen drawn.
LEMMA AccessKeepsMenu ==
  ASSUME MenuInv, EditBegin \/ EditCommit \/ Draw PROVE MenuInv'
<1>. USE DEF MenuInv
<1>1. PICK ins \in Seq(Lock) :
        /\ plan["ui"] # <<>> /\ Go("ui", ins)
        /\ UNCHANGED <<mu, scr, cur, arm, clicked, done>>
        /\ \/ Head(plan["ui"]) = "begin" /\ edit' = cur
           \/ edit' = NoRow
           \/ edit' = edit
  <2>1. CASE EditBegin \/ EditCommit
    BY <2>1, SectionIs DEF EditBegin, EditCommit, At
  <2>2. CASE Draw
    BY <2>2, SectionIs, SectionsIs, CountIsNat DEF Draw, At, menu
  <2>. QED BY <2>1, <2>2
<1>2. ins \in Seq(Edits) /\ \A i \in DOMAIN ins : ins[i] \in Lock
  BY Wider DEF Edits
<1>3. /\ ins \in Seq(Steps) /\ ~Pending(ins)
      /\ \A i \in DOMAIN ins : ins[i] \notin {"turn", "click", "draw"}
  BY <1>2, EditsAreSteps DEF Pending, Lock
<1>4. /\ plan' \in [Tasks -> Seq(Steps)] /\ Orderly(plan'["ui"])
      /\ Pending(plan'["ui"]) => Pending(plan["ui"])
  BY <1>1, <1>3, UiGoes
<1>5. Head(plan["ui"]) = "begin" => Pending(plan["ui"])
  <2>1. plan["ui"] \in Seq(Steps)
    BY DEF PlanType, Tasks
  <2>2. 1 \in DOMAIN plan["ui"] /\ Head(plan["ui"]) = plan["ui"][1]
    BY <1>1, <2>1
  <2>. QED BY <2>2 DEF Pending
<1>6. MenuType' /\ PlanType'
  BY <1>1, <1>4, <1>5 DEF MenuType, PlanType
<1>7. EditIsAtCursor'
  BY <1>1, <1>5 DEF EditIsAtCursor
<1>. QED BY <1>1, <1>4, <1>6, <1>7

\* The menu starts at home.
LEMMA MenuInit == Init => MenuInv
<1>. SUFFICES ASSUME Init PROVE MenuInv
  OBVIOUS
<1>1. plan = [t \in Tasks |-> <<>>] /\ plan \in [Tasks -> Seq(Steps)]
  BY DEF Init
<1>2. plan["ui"] = <<>>
  BY <1>1 DEF Tasks
<1>3. Orderly(plan["ui"]) /\ ~Pending(plan["ui"])
  BY <1>2 DEF Orderly, Pending
<1>4. MenuType /\ PlanType
  BY <1>1, HomeIs DEF Init, MenuType, PlanType
<1>5. EditIsAtCursor
  BY DEF Init, EditIsAtCursor
<1>. QED BY <1>3, <1>4, <1>5 DEF MenuInv

\* Every step keeps the menu as it should be.
LEMMA MenuNext == MenuInv /\ [Next]_vars => MenuInv'
<1>. SUFFICES ASSUME MenuInv, [Next]_vars PROVE MenuInv'
  OBVIOUS
<1>1. CASE \E t \in Tasks : Take(t) \/ Give(t)
  BY <1>1, LockKeepsMenu
<1>2. CASE MonTick
  BY <1>2, LockKeepsMenu DEF Tasks
<1>3. CASE \/ MonWake \/ SerialCommand \/ \E row \in Rows : CommsParamSet(row)
           \/ UiTurn \/ UiClick \/ UiLive
  BY <1>3, StartKeepsMenu
<1>4. CASE UiHold \/ DiagShifts
  BY <1>4, HoldKeepsMenu, ShiftKeepsMenu
<1>5. CASE UiStep
  BY <1>5, TurnKeepsMenu, OtherClicksKeepMenu, TableClicksKeepMenu, AccessKeepsMenu,
     RestartKeepsMenu DEF UiStep
<1>6. CASE UNCHANGED vars
  BY <1>6 DEF vars, MenuInv, MenuType, PlanType, EditIsAtCursor
<1>. QED BY <1>1, <1>2, <1>3, <1>4, <1>5, <1>6 DEF Next

\* Whatever the table, the cursor is on a line of the screen shown, and a row
\* waits to be opened only under it (on_click, prog_edit_begin).
THEOREM MenuHolds == Spec => []MenuInv
BY MenuInit, MenuNext, PTL DEF Spec

\* Type correctness for any table.
THEOREM TypeCorrect == Spec => []TypeOK
<1>1. MenuInv => TypeOK
  <2>. SUFFICES ASSUME MenuInv PROVE TypeOK
    OBVIOUS
  <2>1. \A t \in Tasks : Range(plan[t]) \subseteq Steps
    BY DEF MenuInv, PlanType, Range
  <2>2. clicked \in (UNION {Lines(s) : s \in Screens}) \cup {NoRow}
    BY Zenon DEF MenuInv, MenuType, AnyLine
  <2>. QED BY <2>1, <2>2 DEF MenuInv, PlanType, MenuType, TypeOK
<1>. QED BY <1>1, MenuHolds, PTL

\* For any table, whatever the knob, the button and the other tasks do: an
\* edit is of the row under the cursor (on_click_prog, on_steps, go_home).
THEOREM EditsAtCursor == Spec => []EditIsAtCursor
<1>1. MenuInv => EditIsAtCursor
  BY DEF MenuInv
<1>. QED BY <1>1, MenuHolds, PTL

-----------------------------------------------------------------------------
(* The lock: who takes it gives it back before he takes it again.          *)

\* The menu handles a click on a row whose accessor takes s_mu.
AtHook == At("ui", "take") /\ scr = "prog" /\ cur \in Hooked

\* Every plan is a sequence of critical sections, and the holder is in one, or
\* is about to wait for itself.
LockPart ==
  /\ \A t \in Tasks : Paired(plan[t])
  /\ \A t \in Tasks : mu = t => Releases(plan[t]) \/ (t = "ui" /\ AtHook)

\* Critical sections one after the other are paired.
LEMMA PairedConcat ==
  ASSUME NEW a \in Seq(Steps), NEW b \in Seq(Steps), Paired(a), Paired(b)
  PROVE  Paired(a \o b)
<1>. DEFINE n == Len(a)
            m == Len(b)
            q == a \o b
<1>1. /\ n \in Nat /\ m \in Nat /\ DOMAIN a = 1 .. n /\ DOMAIN b = 1 .. m
      /\ Len(q) = n + m /\ q \in Seq(Steps)
      /\ \A i \in 1 .. n + m : q[i] = IF i <= n THEN a[i] ELSE b[i - n]
  BY ConcatProperties
<1>2. DOMAIN q = 1 .. n + m
  BY <1>1
<1>. HIDE DEF n, m, q
<1>3. \A i \in 1 .. n : i \in 1 .. n + m /\ q[i] = a[i]
  BY <1>1
<1>4. \A i \in 1 .. m : n + i \in 1 .. n + m /\ q[n + i] = b[i]
  <2>. SUFFICES ASSUME NEW i \in 1 .. m PROVE n + i \in 1 .. n + m /\ q[n + i] = b[i]
    OBVIOUS
  <2>1. n + i \in 1 .. n + m /\ ~(n + i <= n) /\ (n + i) - n = i
    BY <1>1
  <2>. QED BY <1>1, <2>1
<1>5. \A k \in 1 .. n + m : k \in 1 .. n \/ (n < k /\ k - n \in 1 .. m /\ q[k] = b[k - n])
  BY <1>1
<1>6. ASSUME NEW i \in 1 .. n + m, q[i] = "take"
      PROVE  \E j \in 1 .. n + m : i < j /\ q[j] = "give" /\ (i \in 1 .. n => j \in 1 .. n)
  <2>1. CASE i \in 1 .. n
    <3>1. PICK j \in 1 .. n : i < j /\ a[j] = "give"
      BY <1>1, <1>3, <1>6, <2>1 DEF Paired
    <3>. QED BY <1>3, <3>1
  <2>2. CASE ~(i \in 1 .. n)
    <3>1. i - n \in 1 .. m /\ b[i - n] = "take"
      BY <1>5, <1>6, <2>2
    <3>2. PICK j \in 1 .. m : i - n < j /\ b[j] = "give"
      BY <1>1, <3>1 DEF Paired
    <3>3. i < n + j
      BY <1>1, <3>2
    <3>. QED BY <1>4, <2>2, <3>2, <3>3
  <2>. QED BY <2>1, <2>2
<1>7. ASSUME NEW i \in 1 .. n + m, NEW k \in 1 .. n + m, i < k,
             q[i] = "take", q[k] = "take"
      PROVE  \E j \in 1 .. n + m : i < j /\ j < k /\ q[j] = "give"
  <2>1. CASE k \in 1 .. n
    <3>1. i \in 1 .. n /\ a[i] = "take" /\ a[k] = "take"
      BY <1>1, <1>3, <1>7, <2>1
    <3>2. PICK j \in 1 .. n : i < j /\ j < k /\ a[j] = "give"
      BY <1>1, <1>7, <2>1, <3>1 DEF Paired
    <3>. QED BY <1>3, <3>2
  <2>2. CASE ~(k \in 1 .. n) /\ i \in 1 .. n
    <3>1. PICK j \in 1 .. n + m : i < j /\ q[j] = "give" /\ j \in 1 .. n
      BY <1>6, <1>7, <2>2
    <3>2. j < k
      BY <1>1, <1>5, <2>2, <3>1
    <3>. QED BY <3>1, <3>2
  <2>3. CASE ~(k \in 1 .. n) /\ ~(i \in 1 .. n)
    <3>1. /\ i - n \in 1 .. m /\ b[i - n] = "take"
          /\ k - n \in 1 .. m /\ b[k - n] = "take" /\ i - n < k - n
      BY <1>1, <1>5, <1>7, <2>3
    <3>. DEFINE x == i - n
                y == k - n
    <3>. HIDE DEF x, y
    <3>4. /\ x \in DOMAIN b /\ b[x] = "take" /\ y \in DOMAIN b /\ b[y] = "take" /\ x < y
      BY <1>1, <3>1 DEF x, y
    <3>5. PICK j \in DOMAIN b : x < j /\ j < y /\ b[j] = "give"
      BY <3>4 DEF Paired
    <3>2. j \in 1 .. m /\ i - n < j /\ j < k - n /\ b[j] = "give"
      BY <1>1, <3>5 DEF x, y
    <3>3. i < n + j /\ n + j < k
      BY <1>1, <3>2
    <3>. QED BY <1>4, <3>2, <3>3
  <2>. QED BY <2>1, <2>2, <2>3
<1>8. Paired(q)
  BY <1>2, <1>6, <1>7 DEF Paired
<1>. QED BY <1>8 DEF q

\* The pieces of which plans are made are paired.
LEMMA PairedShort ==
  /\ Paired(<<>>) /\ Paired(Section) /\ Paired(<<"draw">>)
  /\ Paired(<<"begin">>) /\ Paired(<<"commit">>)
  /\ Paired(<<"take", "tick", "give">>)
  /\ \A row : Paired(Locks(row))
<1>1. /\ Paired(<<>>) /\ Paired(<<"draw">>) /\ Paired(<<"begin">>)
      /\ Paired(<<"commit">>)
  BY DEF Paired
<1>2. Paired(Section)
  BY DEF Paired, Section
<1>3. Paired(<<"take", "tick", "give">>)
  <2>. DEFINE p == <<"take", "tick", "give">>
  <2>1. DOMAIN p = 1 .. 3 /\ p[1] = "take" /\ p[2] = "tick" /\ p[3] = "give"
    OBVIOUS
  <2>. HIDE DEF p
  <2>2. \A i \in 1 .. 3 : i \in {1, 2, 3}
    OBVIOUS
  <2>. QED BY <2>1, <2>2 DEF Paired, p
<1>4. \A row : Paired(Locks(row))
  BY <1>1, <1>2 DEF Locks
<1>. QED BY <1>1, <1>2, <1>3, <1>4

\* So are the plans that tasks start with.
LEMMA PairedStarts ==
  /\ Paired(Section \o Section \o Section \o <<"take", "tick", "give">>)
  /\ Paired(Section \o <<"draw">>)
  /\ \A row : Paired(Locks(row) \o Locks(row) \o Locks(row))
  /\ \A s \in {"turn", "click"} : Paired(Input(s))
<1>1. /\ Section \in Seq(Steps) /\ <<"take", "tick", "give">> \in Seq(Steps)
      /\ <<"draw">> \in Seq(Steps)
  BY DEF Section, Steps
<1>2. \A row : Locks(row) \in Seq(Steps)
  <2>1. Lock \subseteq Steps
    BY DEF Lock, Steps
  <2>. QED BY <2>1, LocksIs, Wider
<1>3. Paired(Section \o <<"draw">>)
  BY <1>1, PairedShort, PairedConcat
<1>4. Paired(Section \o Section \o Section \o <<"take", "tick", "give">>)
  <2>1. Section \o Section \in Seq(Steps) /\ Paired(Section \o Section)
    BY <1>1, PairedShort, PairedConcat, Concat
  <2>2. Section \o Section \o Section \in Seq(Steps) /\ Paired(Section \o Section \o Section)
    BY <1>1, <2>1, PairedShort, PairedConcat, Concat
  <2>. QED BY <1>1, <2>2, PairedShort, PairedConcat
<1>5. ASSUME NEW row PROVE Paired(Locks(row) \o Locks(row) \o Locks(row))
  <2>. DEFINE l == Locks(row)
  <2>1. l \in Seq(Steps) /\ Paired(l)
    BY <1>2, PairedShort
  <2>. HIDE DEF l
  <2>2. l \o l \in Seq(Steps) /\ Paired(l \o l)
    BY <2>1, PairedConcat, Concat
  <2>3. Paired(l \o l \o l)
    BY <2>1, <2>2, PairedConcat
  <2>. QED BY <2>3 DEF l
<1>6. ASSUME NEW s \in {"turn", "click"} PROVE Paired(Input(s))
  <2>. DEFINE p == Input(s)
  <2>1. /\ DOMAIN p = 1 .. 6 /\ p[1] = "take" /\ p[2] = s /\ p[3] = "give"
        /\ p[4] = "take" /\ p[5] = "give" /\ p[6] = "draw"
    BY DEF Input
  <2>. HIDE DEF p
  <2>2. \A i \in 1 .. 6 : i \in {1, 2, 3, 4, 5, 6}
    OBVIOUS
  <2>. QED BY <2>1, <2>2 DEF Paired, p
<1>. QED BY <1>3, <1>4, <1>5, <1>6

\* So is the drawing of the table.
LEMMA PairedSections == ASSUME NEW n \in Nat PROVE Paired(Sections(n))
<1>. DEFINE p == Sections(n)
<1>1. /\ DOMAIN p = 1 .. 2 * n
      /\ \A i \in 1 .. 2 * n : p[i] = IF i % 2 = 1 THEN "take" ELSE "give"
  BY DEF Sections
<1>. HIDE DEF p
<1>2. ASSUME NEW i \in 1 .. 2 * n, p[i] = "take"
      PROVE  i + 1 \in 1 .. 2 * n /\ p[i + 1] = "give"
  <2>1. i % 2 = 1
    BY <1>1, <1>2
  <2>2. i + 1 \in 1 .. 2 * n /\ (i + 1) % 2 # 1
    BY <2>1
  <2>. QED BY <1>1, <2>2
<1>3. ASSUME NEW i \in 1 .. 2 * n, NEW k \in 1 .. 2 * n, i < k,
             p[i] = "take", p[k] = "take"
      PROVE  i < i + 1 /\ i + 1 < k
  <2>1. k # i + 1
    BY <1>2, <1>3
  <2>. QED BY <1>3, <2>1
<1>. QED BY <1>1, <1>2, <1>3 DEF Paired, p

\* A task that begins something holds nothing.
LEMMA StartLocks ==
  ASSUME PlanType, LockPart, NEW t \in Tasks, NEW p \in Seq(Steps), Start(t, p),
         Paired(p), mu' = mu, t = "ui" \/ UNCHANGED <<scr, cur>>
  PROVE  LockPart'
<1>1. /\ plan[t] = <<>> /\ plan'[t] = p
      /\ \A u \in Tasks : u # t => plan'[u] = plan[u]
  BY StartIs
<1>2. mu # t
  BY <1>1 DEF LockPart, Releases, AtHook, At
<1>3. \A u \in Tasks : Paired(plan'[u])
  BY <1>1 DEF LockPart
<1>4. ASSUME NEW u \in Tasks, mu = u PROVE Releases(plan'[u]) \/ (u = "ui" /\ AtHook')
  <2>1. u # t /\ plan'[u] = plan[u]
    BY <1>1, <1>2, <1>4
  <2>. QED BY <1>4, <2>1 DEF LockPart, AtHook, At
<1>. QED BY <1>3, <1>4 DEF LockPart

\* What else a step of one task does when the lock stays where it is.
LEMMA OthersKept ==
  ASSUME PlanType, LockPart, NEW t \in Tasks, mu' = mu,
         t = "ui" \/ UNCHANGED <<scr, cur>>,
         \A u \in Tasks : u # t => plan'[u] = plan[u],
         Paired(plan'[t]),
         mu = t => Releases(plan'[t]) \/ (t = "ui" /\ AtHook')
  PROVE  LockPart'
<1>1. \A u \in Tasks : Paired(plan'[u])
  BY DEF LockPart
<1>2. ASSUME NEW u \in Tasks, mu = u PROVE Releases(plan'[u]) \/ (u = "ui" /\ AtHook')
  <2>1. CASE u = t
    BY <1>2, <2>1
  <2>2. CASE u # t
    <3>1. plan'[u] = plan[u]
      BY <2>2
    <3>. QED BY <1>2, <2>2, <3>1 DEF LockPart, AtHook, At
  <2>. QED BY <2>1, <2>2
<1>. QED BY <1>1, <1>2 DEF LockPart

\* A step that neither takes nor gives leaves the lock as it was.
LEMMA GoLocks ==
  ASSUME PlanType, LockPart, NEW t \in Tasks, plan[t] # <<>>,
         Head(plan[t]) \notin Lock, t = "ui" \/ UNCHANGED <<scr, cur>>,
         NEW ins \in Seq(Steps), \A i \in DOMAIN ins : ins[i] # "take",
         Go(t, ins), mu' = mu
  PROVE  LockPart'
<1>1. Spliced(plan[t], ins, plan'[t]) /\ \A u \in Tasks : u # t => plan'[u] = plan[u]
  BY GoIs
<1>2. Paired(plan'[t])
  BY <1>1, SplicePaired DEF LockPart
<1>3. mu = t => Releases(plan'[t])
  <2>1. plan[t][1] = Head(plan[t]) /\ Head(plan[t]) # "give"
    BY DEF PlanType, Lock
  <2>2. mu = t => Releases(plan[t])
    BY DEF LockPart, AtHook, At, Lock
  <2>. QED BY <1>1, <2>1, <2>2, SpliceReleases
<1>. QED BY <1>1, <1>2, <1>3, OthersKept

\* Whoever takes s_mu has a section to end.
LEMMA TakeLocks ==
  ASSUME PlanType, LockPart, NEW t \in Tasks, Take(t) \/ Give(t)
  PROVE  LockPart'
<1>1. plan[t] # <<>> /\ Go(t, <<>>) /\ <<>> \in Seq(Steps)
  BY DEF Take, Give, At
<1>2. Spliced(plan[t], <<>>, plan'[t]) /\ \A u \in Tasks : u # t => plan'[u] = plan[u]
  BY <1>1, GoIs
<1>3. Paired(plan'[t])
  <2>1. \A i \in DOMAIN <<>> : <<>>[i] # "take"
    OBVIOUS
  <2>. QED BY <1>2, <2>1, SplicePaired DEF LockPart
<1>4. CASE Take(t)
  <2>1. mu' = t /\ plan[t][1] = "take"
    BY <1>4 DEF Take, At, PlanType
  <2>2. Releases(plan'[t])
    BY <1>2, <2>1, TakenReleases DEF LockPart
  <2>. QED BY <1>2, <1>3, <2>1, <2>2 DEF LockPart
<1>5. CASE Give(t)
  <2>1. mu' = "nobody" /\ "nobody" \notin Tasks
    BY <1>5 DEF Give, Tasks
  <2>. QED BY <1>2, <1>3, <2>1 DEF LockPart
<1>. QED BY <1>4, <1>5

-----------------------------------------------------------------------------
(* Clicks on a row.                                                        *)

\* What a click adds on a row whose accessor takes no lock.
LEMMA FreeEdits ==
  ASSUME NEW a, a \notin Hooked
  PROVE  /\ \A i \in DOMAIN (Locks(a) \o <<"begin">>) : (Locks(a) \o <<"begin">>)[i] # "take"
         /\ LET p == Locks(a) \o <<"commit">> \o <<>>
            IN  \A i \in DOMAIN p : p[i] # "take"
<1>. DEFINE Free == {"begin", "commit"}
<1>1. Locks(a) = <<>>
  BY DEF Locks
<1>2. /\ <<>> \in Seq(Free) /\ <<"begin">> \in Seq(Free) /\ <<"commit">> \in Seq(Free)
  OBVIOUS
<1>3. "take" \notin Free
  OBVIOUS
<1>. HIDE DEF Free
<1>4. Locks(a) \o <<"begin">> \in Seq(Free) /\ Locks(a) \o <<"commit">> \in Seq(Free)
  BY <1>1, <1>2, Concat
<1>5. Locks(a) \o <<"commit">> \o <<>> \in Seq(Free)
  BY <1>2, <1>4, Concat
<1>6. ASSUME NEW p \in Seq(Free), NEW i \in DOMAIN p PROVE p[i] # "take"
  BY <1>3
<1>. QED BY <1>4, <1>5, <1>6

\* And on one whose accessor does: it is taken first.
LEMMA HookedEdits ==
  ASSUME NEW a \in Hooked
  PROVE  /\ Paired(Locks(a) \o <<"begin">>) /\ Paired(Locks(a) \o <<"commit">> \o <<>>)
         /\ LET p == Locks(a) \o <<"begin">> IN p # <<>> /\ Head(p) = "take"
         /\ LET p == Locks(a) \o <<"commit">> \o <<>> IN p # <<>> /\ Head(p) = "take"
<1>1. /\ Locks(a) = Section /\ Section \in Seq(Steps) /\ <<"begin">> \in Seq(Steps)
      /\ <<"commit">> \in Seq(Steps) /\ <<>> \in Seq(Steps)
  BY DEF Locks, Section, Steps
<1>2. Section # <<>> /\ Head(Section) = "take"
  BY DEF Section
<1>3. Paired(Section \o <<"begin">>) /\ Paired(Section \o <<"commit">>)
  BY <1>1, PairedShort, PairedConcat
<1>4. Section \o <<"commit">> \in Seq(Steps)
  BY <1>1, Concat
<1>5. Paired(Section \o <<"commit">> \o <<>>)
  BY <1>1, <1>3, <1>4, PairedShort, PairedConcat
<1>6. ASSUME NEW b \in Seq(Steps), NEW r \in Seq(Steps), b # <<>>, Head(b) = "take"
      PROVE  b \o r # <<>> /\ Head(b \o r) = "take"
  BY <1>6
<1>7. /\ Section \o <<"begin">> # <<>> /\ Head(Section \o <<"begin">>) = "take"
      /\ Section \o <<"commit">> # <<>> /\ Head(Section \o <<"commit">>) = "take"
  BY <1>1, <1>2, <1>6
<1>8. /\ Section \o <<"commit">> \o <<>> # <<>>
      /\ Head(Section \o <<"commit">> \o <<>>) = "take"
  BY <1>1, <1>4, <1>6, <1>7
<1>. QED BY <1>1, <1>3, <1>5, <1>7, <1>8

\* A click that makes the menu take s_mu first, on a row that locks: if it
\* holds s_mu, and it does, it waits for itself.
LEMMA HookLocks ==
  ASSUME PlanType, LockPart, plan["ui"] # <<>>, Head(plan["ui"]) = "click",
         NEW ins \in Seq(Steps), Paired(ins), ins # <<>>, Head(ins) = "take",
         Go("ui", ins), mu' = mu, scr' = "prog", cur' \in Hooked
  PROVE  LockPart'
<1>. DEFINE p == plan["ui"]
            q == ins \o Tail(p)
<1>1. "ui" \in Tasks /\ p \in Seq(Steps) /\ Tail(p) \in Seq(Steps) /\ <<>> \in Seq(Steps)
  BY DEF PlanType, Tasks
<1>2. Spliced(p, <<>>, Tail(p))
  <2>1. <<>> \o Tail(p) = Tail(p)
    BY <1>1
  <2>. QED BY <1>1, <2>1, SplicedIs
<1>3. Paired(Tail(p))
  <2>1. \A i \in DOMAIN <<>> : <<>>[i] # "take"
    OBVIOUS
  <2>. QED BY <1>1, <1>2, <2>1, SplicePaired DEF LockPart
<1>4. Paired(q)
  BY <1>1, <1>3, PairedConcat
<1>5. plan'["ui"] = q /\ \A u \in Tasks : u # "ui" => plan'[u] = plan[u]
  <2>1. plan' = [plan EXCEPT !["ui"] = q]
    BY DEF Go
  <2>. HIDE DEF q
  <2>. QED BY <1>1, <2>1 DEF PlanType
<1>6. q # <<>> /\ Head(q) = "take"
  <2>. DEFINE r == Tail(p)
  <2>1. r \in Seq(Steps)
    BY <1>1
  <2>. HIDE DEF r
  <2>2. ins \o r # <<>> /\ Head(ins \o r) = "take"
    BY <2>1
  <2>. QED BY <2>2 DEF r
<1>. HIDE DEF q
<1>7. AtHook'
  BY <1>5, <1>6 DEF AtHook, At
<1>. QED BY <1>1, <1>4, <1>5, <1>7, OthersKept

\* An input of the menu, handled with s_mu held, does not take it again, or
\* was a click on a row whose accessor does.
LEMMA ClicksLock ==
  ASSUME MenuInv, LockPart, UiStep, ~Draw, ~Restart
  PROVE  LockPart'
<1>. USE DEF MenuInv
<1>. DEFINE G(ins) ==
       /\ plan["ui"] # <<>> /\ Head(plan["ui"]) \notin Lock /\ Go("ui", ins) /\ mu' = mu
       /\ \A i \in DOMAIN ins : ins[i] # "take"
<1>0. /\ <<>> \in Seq(Steps) /\ <<"restart">> \in Seq(Steps) /\ "ui" \in Tasks
      /\ \A i \in DOMAIN <<>> : <<>>[i] # "take"
      /\ \A i \in DOMAIN <<"restart">> : <<"restart">>[i] # "take"
  BY DEF Steps, Tasks
<1>1. ASSUME NEW ins \in Seq(Steps), G(ins) PROVE LockPart'
  BY <1>0, <1>1, GoLocks
<1>2. CASE Turn \/ EditBegin \/ EditCommit
  <2>1. G(<<>>)
    BY <1>0, <1>2 DEF Turn, EditBegin, EditCommit, At, Lock
  <2>. QED BY <1>0, <1>1, <2>1
<1>3. CASE ClickHome \/ ClickSel \/ ClickLeaf \/ ClickConfirm
  <2>1. \E s, next : Clicked(s, next)
    BY <1>3 DEF ClickHome, ClickSel, ClickLeaf, ClickConfirm
  <2>2. /\ plan["ui"] # <<>> /\ Head(plan["ui"]) \notin Lock /\ mu' = mu
        /\ Go("ui", IF done' = "reboot" THEN <<"restart">> ELSE <<>>)
    BY <2>1 DEF Clicked, At, Lock
  <2>3. CASE done' = "reboot"
    <3>1. G(<<"restart">>)
      BY <1>0, <2>2, <2>3
    <3>. QED BY <1>0, <1>1, <3>1
  <2>4. CASE done' # "reboot"
    <3>1. G(<<>>)
      BY <1>0, <2>2, <2>4
    <3>. QED BY <1>0, <1>1, <3>1
  <2>. QED BY <2>3, <2>4
<1>4. CASE ClickRow
  <2>. DEFINE ins == Locks(cur) \o <<"begin">>
  <2>1. /\ plan["ui"] # <<>> /\ Head(plan["ui"]) = "click" /\ mu' = mu
        /\ Head(plan["ui"]) \notin Lock
        /\ Go("ui", IF cur \in Rows THEN ins ELSE <<>>)
    BY <1>4 DEF ClickRow, At, Lock
  <2>2. ins \in Seq(Steps)
    <3>1. ins \in Seq(Edits)
      BY EditsAre
    <3>. QED BY <3>1, EditsAreSteps
  <2>3. cur \notin Hooked => \A i \in DOMAIN ins : ins[i] # "take"
    BY FreeEdits
  <2>4. cur \in Hooked => Paired(ins) /\ ins # <<>> /\ Head(ins) = "take"
    BY HookedEdits
  <2>. HIDE DEF ins
  <2>5. CASE cur \notin Rows
    <3>1. G(<<>>)
      BY <1>0, <2>1, <2>5
    <3>. QED BY <1>0, <1>1, <3>1
  <2>6. CASE cur \in Rows /\ cur \notin Hooked
    <3>1. G(ins)
      BY <2>1, <2>3, <2>6
    <3>. QED BY <1>1, <2>2, <3>1
  <2>7. CASE cur \in Rows /\ cur \in Hooked
    <3>1. Go("ui", ins)
      BY <2>1, <2>7
    <3>2. scr' = "prog" /\ cur' = cur
      BY <1>4, <2>7, Strangers DEF ClickRow
    <3>. QED BY <2>1, <2>2, <2>4, <2>7, <3>1, <3>2, HookLocks
  <2>. QED BY <2>5, <2>6, <2>7
<1>5. CASE ClickEdit
  <2>. DEFINE ins == Locks(cur) \o <<"commit">> \o <<>>
  <2>1. cur = edit /\ scr' = "prog" /\ cur' = cur
    BY <1>5 DEF ClickEdit, EditIsAtCursor
  <2>2. /\ plan["ui"] # <<>> /\ Head(plan["ui"]) = "click" /\ mu' = mu
        /\ Head(plan["ui"]) \notin Lock
    BY <1>5 DEF ClickEdit, At, Lock
  <2>3. Go("ui", ins)
    <3>1. Go("ui", Locks(edit) \o <<"commit">>
                \o (IF cur = edit THEN <<>> ELSE Locks(cur) \o <<"begin">>))
      BY <1>5 DEF ClickEdit
    <3>. QED BY <2>1, <3>1
  <2>4. ins \in Seq(Steps)
    <3>1. ins \in Seq(Edits)
      BY EditsAre
    <3>. QED BY <3>1, EditsAreSteps
  <2>5. cur \notin Hooked => \A i \in DOMAIN ins : ins[i] # "take"
    BY FreeEdits
  <2>6. cur \in Hooked => Paired(ins) /\ ins # <<>> /\ Head(ins) = "take"
    BY HookedEdits
  <2>. HIDE DEF ins
  <2>7. CASE cur \notin Hooked
    <3>1. G(ins)
      BY <2>2, <2>3, <2>5, <2>7
    <3>. QED BY <1>1, <2>4, <3>1
  <2>8. CASE cur \in Hooked
    BY <2>1, <2>2, <2>3, <2>4, <2>6, <2>8, HookLocks
  <2>. QED BY <2>7, <2>8
<1>. QED BY <1>2, <1>3, <1>4, <1>5 DEF UiStep

\* What is drawn is drawn last, with s_mu free to take.
LEMMA DrawLocks ==
  ASSUME MenuInv, LockPart, Draw PROVE LockPart'
<1>. USE DEF MenuInv
<1>. DEFINE p == plan["ui"]
            n == Cardinality(Hooked \ {edit})
<1>1. p \in Seq(Steps) /\ p # <<>> /\ Head(p) = "draw" /\ mu' = mu
  BY DEF Draw, At, PlanType, Tasks
<1>2. Len(p) = 1
  <2>1. 1 \in DOMAIN p /\ p[1] = "draw"
    BY <1>1
  <2>. QED BY <2>1 DEF Orderly
<1>3. ~Releases(p)
  <2>1. \A j \in DOMAIN p : j = 1 /\ p[j] = "draw"
    BY <1>1, <1>2
  <2>. QED BY <2>1 DEF Releases
<1>4. mu # "ui"
  BY <1>1, <1>3 DEF LockPart, Tasks, AtHook, At
<1>5. PICK ins \in Seq(Steps) : Go("ui", ins) /\ Paired(ins)
  <2>1. CASE scr = "prog"
    <3>1. Go("ui", Sections(n))
      BY <2>1 DEF Draw
    <3>2. n \in Nat
      BY CountIsNat
    <3>. HIDE DEF n
    <3>3. Lock \subseteq Steps
      BY DEF Lock, Steps
    <3>4. Sections(n) \in Seq(Steps)
      BY <3>2, <3>3, SectionsIs, Wider
    <3>. QED BY <3>1, <3>2, <3>4, PairedSections
  <2>2. CASE scr # "prog"
    <3>1. Go("ui", <<>>) /\ <<>> \in Seq(Steps)
      BY <2>2 DEF Draw
    <3>. QED BY <3>1, PairedShort
  <2>. QED BY <2>1, <2>2
<1>6. Paired(plan'["ui"])
  <2>. DEFINE q == plan'["ui"]
              k == Len(ins)
              m == Len(p)
  <2>1. Spliced(p, ins, q)
    BY <1>1, <1>5, GoIs DEF Tasks
  <2>2. Moved(p, ins, q, k, m)
    BY <2>1, SpliceMoves
  <2>. HIDE DEF p, q, k
  <2>3. DOMAIN q = DOMAIN ins /\ \A i \in DOMAIN ins : q[i] = ins[i]
    BY <1>2, <2>2 DEF Moved
  <2>4. Paired(q)
    BY <1>5, <2>3 DEF Paired
  <2>. QED BY <2>4 DEF q
<1>7. \A u \in Tasks : u # "ui" => plan'[u] = plan[u]
  BY <1>1, <1>5, GoIs DEF Tasks
<1>. QED BY <1>1, <1>4, <1>6, <1>7, OthersKept DEF Tasks

\* What tasks begin is paired.
LEMMA StartsLock ==
  ASSUME MenuInv, LockPart, \/ MonWake \/ SerialCommand \/ \E row \in Rows : CommsParamSet(row)
                            \/ UiTurn \/ UiClick \/ UiLive \/ UiHold
  PROVE  LockPart'
<1>. USE DEF MenuInv
<1>1. CASE MonWake
  BY <1>1, Starts, PairedStarts, StartLocks DEF MonWake, Tasks, menu
<1>2. CASE SerialCommand
  BY <1>2, Starts, PairedShort, StartLocks DEF SerialCommand, Tasks, menu
<1>3. CASE \E row \in Rows : CommsParamSet(row)
  <2>1. PICK row : CommsParamSet(row)
    BY <1>3
  <2>. QED BY <2>1, Starts, PairedStarts, StartLocks DEF CommsParamSet, Tasks, menu
<1>4. CASE UiTurn
  BY <1>4, InputIs, PairedStarts, StartLocks DEF UiTurn, Tasks
<1>5. CASE UiClick
  BY <1>5, InputIs, PairedStarts, StartLocks DEF UiClick, Tasks
<1>6. CASE UiLive \/ UiHold
  <2>1. Start("ui", Section \o <<"draw">>) /\ mu' = mu
    BY <1>6 DEF UiLive, UiHold
  <2>. QED BY <2>1, RedrawIs, PairedStarts, StartLocks DEF Tasks
<1>. QED BY <1>1, <1>2, <1>3, <1>4, <1>5, <1>6

\* Nobody holds s_mu at first.
LEMMA LockInit == Init => LockPart
<1>. SUFFICES ASSUME Init PROVE LockPart
  OBVIOUS
<1>1. \A t \in Tasks : plan[t] = <<>> /\ mu # t
  BY DEF Init, Tasks
<1>. QED BY <1>1, PairedShort DEF LockPart

\* Every step keeps the lock in order.
LEMMA LockNext ==
  ASSUME MenuInv, LockPart, [Next]_vars
  PROVE  LockPart'
<1>2. CASE \E t \in Tasks : Take(t) \/ Give(t)
  BY <1>2, TakeLocks DEF MenuInv
<1>3. CASE MonTick
  <2>1. /\ plan["mon"] # <<>> /\ Head(plan["mon"]) \notin Lock /\ Go("mon", <<>>) /\ mu' = mu
        /\ <<>> \in Seq(Steps) /\ \A i \in DOMAIN <<>> : <<>>[i] # "take"
        /\ UNCHANGED <<scr, cur>> /\ "mon" \in Tasks
    BY <1>3 DEF MonTick, At, Lock, menu, Tasks
  <2>. QED BY <2>1, GoLocks DEF MenuInv
<1>4. CASE \/ MonWake \/ SerialCommand \/ \E row \in Rows : CommsParamSet(row)
           \/ UiTurn \/ UiClick \/ UiLive \/ UiHold
  BY <1>4, StartsLock
<1>5. CASE Restart
  <2>1. \A t \in Tasks : plan'[t] = <<>> /\ mu' # t
    BY <1>5 DEF Restart, Tasks
  <2>. QED BY <2>1, PairedShort DEF LockPart
<1>6. CASE Draw
  BY <1>6, DrawLocks
<1>7. CASE UiStep /\ ~Draw /\ ~Restart
  BY <1>7, ClicksLock
<1>8. CASE DiagShifts
  <2>1. plan' = plan /\ mu' = mu /\ ~AtHook
    BY <1>8 DEF DiagShifts, AtHook
  <2>. QED BY <2>1 DEF LockPart
<1>9. CASE UNCHANGED vars
  BY <1>9 DEF vars, menu, LockPart, AtHook, At
<1>. QED BY <1>2, <1>3, <1>4, <1>5, <1>6, <1>7, <1>8, <1>9 DEF Next

\* For any table, whatever the operator clicks on: no task ever waits for the
\* mutex it holds, but the menu, on the parameter screen, after a click on a
\* row whose accessor takes s_mu (hook_param_get, hook_param_set).  The run
\* Finding_WedgeIsReset shows where that leads.
THEOREM OnlyHooksWait == Spec => []SelfWaitOnlyAtHook
<1>1. MenuInv /\ LockPart /\ [Next]_vars => LockPart'
  BY LockNext
<1>2. MenuInv /\ LockPart => SelfWaitOnlyAtHook
  <2>. SUFFICES ASSUME MenuInv, LockPart, NEW t \in Tasks, mu = t, At(t, "take")
                PROVE  t = "ui" /\ scr = "prog" /\ cur \in Hooked
    BY DEF SelfWaitOnlyAtHook
  <2>. DEFINE p == plan[t]
  <2>1. p \in Seq(Steps) /\ p # <<>> /\ Head(p) = "take"
    BY DEF MenuInv, PlanType, At
  <2>2. Releases(p) \/ (t = "ui" /\ AtHook)
    BY DEF LockPart
  <2>. HIDE DEF p
  <2>3. 1 \in DOMAIN p /\ p[1] = "take" /\ \A j \in DOMAIN p : j \in Nat /\ ~(j < 1)
    BY <2>1
  <2>4. ~Releases(p)
    BY <2>3 DEF Releases
  <2>. QED BY <2>2, <2>4 DEF AtHook
<1>. QED BY <1>1, <1>2, LockInit, MenuHolds, PTL DEF Spec

-----------------------------------------------------------------------------
\* What is armed was clicked last.
ArmInv == arm \in Confirmed => clicked = arm

\* A line is armed by the last click, and only a second one there acts.
LEMMA ArmNext ==
  ASSUME ArmInv, [Next]_vars
  PROVE  ArmInv' /\ (done' \in Confirmed /\ done' # done => clicked = done')
<1>. USE DEF ArmInv
<1>0. NoRow \notin Confirmed /\ Back \notin Confirmed
  BY DEF NoRow, Back, Confirmed
<1>1. CASE UNCHANGED <<arm, clicked, done>>
  BY <1>1
<1>2. CASE arm' = NoRow /\ done' = NoRow
  BY <1>0, <1>2
<1>3. CASE ClickConfirm
  <2>1. PICK s \in {"cnt", "diag"} :
          Clicked(s, /\ IF cur = Back THEN Show("sel", s) ELSE UNCHANGED <<scr, cur>>
                     /\ arm' = IF cur \in Confirmed /\ arm # cur THEN cur ELSE NoRow
                     /\ done' = IF cur \in Confirmed /\ arm = cur THEN cur ELSE NoRow)
    BY <1>3 DEF ClickConfirm
  <2>2. /\ cur # Back => scr' = s
        /\ clicked' = IF scr' = s THEN cur ELSE NoRow
        /\ arm' = IF cur \in Confirmed /\ arm # cur THEN cur ELSE NoRow
        /\ done' = IF cur \in Confirmed /\ arm = cur THEN cur ELSE NoRow
    BY <2>1 DEF Clicked
  <2>3. CASE cur \in Confirmed /\ arm # cur
    BY <1>0, <2>2, <2>3
  <2>4. CASE cur \in Confirmed /\ arm = cur
    BY <1>0, <2>2, <2>4
  <2>5. CASE cur \notin Confirmed
    BY <1>0, <2>2, <2>5
  <2>. QED BY <2>3, <2>4, <2>5
<1>4. [Next]_vars => \/ UNCHANGED <<arm, clicked, done>>
                     \/ arm' = NoRow /\ done' = NoRow
                     \/ ClickConfirm
  BY DEF Next, UiStep, vars, menu, Take, Give, MonWake, MonTick, UiTurn, UiClick, UiLive,
         UiHold, Turn, DiagShifts, ClickHome, ClickSel, ClickLeaf, ClickRow, ClickEdit,
         EditBegin, EditCommit, Draw, Restart, CommsParamSet, SerialCommand, Clicked, Disarm
<1>. QED BY <1>1, <1>2, <1>3, <1>4

\* For any table: counters are cleared and the node restarted only by two
\* clicks in a row on the line that says so (on_click).
THEOREM TwoClicks == Spec => ConfirmedTwice
<1>1. Init => ArmInv
  BY DEF Init, ArmInv, NoRow, Confirmed
<1>2. ArmInv /\ [Next]_vars => ArmInv' /\ [done' \in Confirmed /\ done' # done => clicked = done']_vars
  BY ArmNext
<1>. QED BY <1>1, <1>2, PTL DEF Spec, ConfirmedTwice

=============================================================================
