--------------------------- MODULE GwNodesProofs ----------------------------
(***************************************************************************)
(* The registry, for any boards, roles, size of the table and length of a  *)
(* descriptor: descriptors are whole, and watermarks come home.            *)
(*                                                                         *)
(* What is in desc_buf is at every moment the fragments before frag_next   *)
(* in their order, complete or not: DescriptorWhole is that at the end.    *)
(* WatermarkGoesHome needs to know that a batch the service has recorded   *)
(* waits in the entry of its board until the board is acknowledged, and    *)
(* that no board has two entries.                                          *)
(***************************************************************************)
EXTENDS GwNodes, SequenceTheorems, TLAPS

NodeEntries ==
  [mac : Boards, fetched : BOOLEAN, commit : BOOLEAN, pending : BOOLEAN,
   frag_total : {0, Fragments}, frag_next : Nat, desc : Seq(Nat)]

RegistryShape ==
  /\ nodes \in Seq(NodeEntries)
  /\ role \in [Boards -> Roles] /\ answer \in [Boards -> 0 .. Fragments]
  /\ recorded \subseteq Boards

\* A board has one entry at most.
Single ==
  \A i, j \in DOMAIN nodes : nodes[i].mac = nodes[j].mac => i = j

\* The fragments collected are those before frag_next, in their order.
InOrder(n) == n.desc = [k \in 1 .. n.frag_next |-> k - 1]

AllInOrder == \A i \in DOMAIN nodes : InOrder(nodes[i])

\* A recorded batch waits in the entry of its board, or is acknowledged.
Waiting ==
  \A b \in recorded :
    \E i \in DOMAIN nodes :
      nodes[i].mac = b /\ (b \in acked \/ nodes[i].pending)

RegistryInv ==
  RegistryShape /\ Single /\ AllInOrder /\ Waiting /\ WatermarkGoesHome

-----------------------------------------------------------------------------
(* What becomes of the entries in a step.                                  *)

\* NodeEntries stay with their boards and nobody is sent back to waiting.
Stays ==
  /\ DOMAIN nodes \subseteq DOMAIN nodes'
  /\ \A i \in DOMAIN nodes : nodes'[i].mac = nodes[i].mac
  /\ acked \subseteq acked' /\ role' = role

\* A batch that waits goes on waiting, or is acknowledged.
NoneForgotten ==
  \A i \in DOMAIN nodes :
    nodes[i].pending => nodes'[i].pending \/ nodes[i].mac \in acked'

LEMMA WaitingKept ==
  ASSUME Waiting, Stays, NoneForgotten, recorded' \subseteq recorded
  PROVE  Waiting'
<1> SUFFICES ASSUME NEW b \in recorded'
             PROVE  \E i \in DOMAIN nodes' :
                      nodes'[i].mac = b /\ (b \in acked' \/ nodes'[i].pending)
  BY DEF Waiting
<1>1. PICK i \in DOMAIN nodes :
        nodes[i].mac = b /\ (b \in acked \/ nodes[i].pending)
  BY DEF Waiting
<1> QED
  BY <1>1 DEF Stays, NoneForgotten

LEMMA HomeKept ==
  ASSUME WatermarkGoesHome, Stays, recorded' \ marks' \subseteq recorded \ marks
  PROVE  WatermarkGoesHome'
<1> SUFFICES ASSUME NEW b \in recorded' \ marks'
             PROVE  \/ b \in acked'
                    \/ \E i, j \in DOMAIN nodes' :
                         /\ nodes'[j].mac = b /\ i < j
                         /\ role'[nodes'[i].mac] = role'[b]
  BY DEF WatermarkGoesHome
<1>1. CASE b \in acked
  BY <1>1 DEF Stays
<1>2. CASE \E i, j \in DOMAIN nodes :
             /\ nodes[j].mac = b /\ i < j /\ role[nodes[i].mac] = role[b]
  BY <1>2 DEF Stays
<1> QED
  BY <1>1, <1>2 DEF WatermarkGoesHome

\* One entry changed, its board kept.
LEMMA OneChanged ==
  ASSUME RegistryShape, Single, NEW i \in DOMAIN nodes, NEW e \in NodeEntries,
         e.mac = nodes[i].mac, nodes' = [nodes EXCEPT ![i] = e]
  PROVE  /\ nodes' \in Seq(NodeEntries) /\ DOMAIN nodes' = DOMAIN nodes
         /\ nodes'[i] = e
         /\ \A j \in DOMAIN nodes : j # i => nodes'[j] = nodes[j]
         /\ \A j \in DOMAIN nodes : nodes'[j].mac = nodes[j].mac
         /\ Single'
<1>1. i \in 1 .. Len(nodes) /\ DOMAIN nodes = 1 .. Len(nodes)
  BY DEF RegistryShape
<1>2. /\ nodes' \in Seq(NodeEntries) /\ Len(nodes') = Len(nodes)
      /\ \A j \in 1 .. Len(nodes) : nodes'[j] = IF j = i THEN e ELSE nodes[j]
  BY <1>1, ExceptSeq DEF RegistryShape
<1> QED
  BY <1>1, <1>2 DEF Single

\* handle_config_desc keeps the fragments in order.
LEMMA AssembledInOrder ==
  ASSUME NEW n \in NodeEntries, InOrder(n), NEW idx \in 0 .. Fragments - 1
  PROVE  /\ Assembled(n, idx) \in NodeEntries /\ InOrder(Assembled(n, idx))
         /\ Assembled(n, idx).mac = n.mac
         /\ Assembled(n, idx).pending = n.pending
<1> DEFINE m == IF idx = 0
                THEN [n EXCEPT !.frag_total = Fragments, !.frag_next = 0,
                               !.desc = <<>>]
                ELSE n
           taken == [m EXCEPT !.desc = Append(@, idx), !.frag_next = idx + 1]
<1>0. idx \in Nat
  BY RegistryAssumption
<1>1. m \in NodeEntries /\ m.mac = n.mac /\ m.pending = n.pending
  <2>1. CASE idx = 0
    <3>1. m = [n EXCEPT !.frag_total = Fragments, !.frag_next = 0, !.desc = <<>>]
      BY <2>1
    <3>2. <<>> \in Seq(Nat)
      OBVIOUS
    <3> QED
      BY <3>1, <3>2, Zenon DEF NodeEntries
  <2>2. CASE idx # 0
    BY <2>2
  <2> QED
    BY <2>1, <2>2
<1>2. InOrder(m)
  BY DEF InOrder, NodeEntries
<1>3. CASE m.frag_total = 0 \/ idx # m.frag_next
  <2>1. Assembled(n, idx) = [m EXCEPT !.frag_total = 0]
    BY <1>3 DEF Assembled
  <2> QED
    BY <1>1, <1>2, <2>1 DEF NodeEntries, InOrder
<1>4. CASE ~(m.frag_total = 0 \/ idx # m.frag_next)
  <2>1. m.desc = [k \in 1 .. idx |-> k - 1] /\ m.desc \in Seq(Nat)
    BY <1>1, <1>2, <1>4 DEF InOrder, NodeEntries
  <2>2. Append(m.desc, idx) = [k \in 1 .. idx + 1 |-> k - 1]
    BY <2>1
  <2>3. Append(m.desc, idx) \in Seq(Nat)
    BY <2>1
  <2>4. /\ taken \in NodeEntries /\ taken.mac = n.mac
        /\ taken.pending = n.pending
        /\ taken.frag_next = idx + 1 /\ taken.desc = Append(m.desc, idx)
    <3>1. idx + 1 \in Nat
      BY <1>0
    <3> HIDE DEF m
    <3> QED
      BY <1>1, <2>3, <3>1 DEF NodeEntries
  <2>5. \/ Assembled(n, idx) = taken
        \/ Assembled(n, idx) = [taken EXCEPT !.frag_total = 0, !.fetched = TRUE]
    BY <1>4 DEF Assembled
  <2> HIDE DEF taken, m
  <2> QED
    BY <2>2, <2>4, <2>5 DEF NodeEntries, InOrder
<1> QED
  BY <1>3, <1>4

-----------------------------------------------------------------------------
(* The actions.                                                            *)

LEMMA RegistryStarts == RegistryInit => RegistryInv
BY RegistryAssumption
   DEF RegistryInit, RegistryInv, RegistryShape, Single, AllInOrder, Waiting,
       WatermarkGoesHome

LEMMA HelloKeeps ==
  ASSUME RegistryInv, NEW b \in Boards, Hello(b)
  PROVE  RegistryInv'
<1> USE DEF RegistryInv
<1>1. /\ UNCHANGED <<role, recorded, marks, acked>>
      /\ answer' = answer \/ answer' = [answer EXCEPT ![b] = Fragments]
      /\ \/ nodes' = nodes
         \/ by_mac(b) = {} /\ nodes' = Append(nodes, Entry(b))
  BY DEF Hello
<1>2. answer' \in [Boards -> 0 .. Fragments]
  BY <1>1, RegistryAssumption DEF RegistryShape
<1>3. CASE nodes' = nodes
  BY <1>1, <1>2, <1>3
  DEF RegistryShape, Single, AllInOrder, InOrder, Waiting, WatermarkGoesHome
<1>4. CASE by_mac(b) = {} /\ nodes' = Append(nodes, Entry(b))
  <2>1. Entry(b) \in NodeEntries /\ Entry(b).mac = b /\ InOrder(Entry(b))
    BY DEF Entry, NodeEntries, InOrder
  <2> HIDE DEF Entry
  <2>2. /\ nodes' \in Seq(NodeEntries)
        /\ DOMAIN nodes = 1 .. Len(nodes) /\ Len(nodes) \in Nat
        /\ DOMAIN nodes' = 1 .. Len(nodes) + 1
        /\ \A i \in 1 .. Len(nodes) : nodes'[i] = nodes[i]
        /\ nodes'[Len(nodes) + 1] = Entry(b)
    BY <1>4, <2>1 DEF RegistryShape
  <2>3. RegistryShape'
    BY <1>1, <1>2, <2>2 DEF RegistryShape
  <2>4. Single'
    <3>1. \A i \in DOMAIN nodes : nodes[i].mac # b
      BY <1>4 DEF by_mac
    <3>2. \A i \in DOMAIN nodes' :
            \/ i \in DOMAIN nodes /\ nodes'[i].mac = nodes[i].mac
            \/ i = Len(nodes) + 1 /\ nodes'[i].mac = b
      BY <2>1, <2>2
    <3> QED
      BY <3>1, <3>2 DEF Single
  <2>5. AllInOrder'
    <3> SUFFICES ASSUME NEW i \in DOMAIN nodes' PROVE InOrder(nodes'[i])
      BY DEF AllInOrder, InOrder
    <3>1. CASE i = Len(nodes) + 1
      BY <3>1, <2>1, <2>2
    <3>2. CASE i # Len(nodes) + 1
      <4>1. i \in DOMAIN nodes /\ nodes'[i] = nodes[i]
        BY <3>2, <2>2
      <4> QED
        BY <4>1 DEF AllInOrder
    <3> QED
      BY <3>1, <3>2
  <2>6. Stays /\ NoneForgotten
    BY <1>1, <2>2 DEF Stays, NoneForgotten
  <2> QED
    BY <1>1, <2>3, <2>4, <2>5, <2>6, WaitingKept, HomeKept
<1> QED
  BY <1>1, <1>3, <1>4

LEMMA SendKeeps ==
  ASSUME RegistryInv, NEW b \in Boards, SendFragment(b)
  PROVE  RegistryInv'
<1> USE DEF RegistryInv
<1>1. /\ UNCHANGED <<role, recorded, marks, acked>>
      /\ answer[b] > 0 /\ answer' = [answer EXCEPT ![b] = @ - 1]
  BY DEF SendFragment
<1>2. answer' \in [Boards -> 0 .. Fragments]
  BY <1>1, RegistryAssumption DEF RegistryShape
<1>3. CASE nodes' = nodes
  BY <1>1, <1>2, <1>3
  DEF RegistryShape, Single, AllInOrder, InOrder, Waiting, WatermarkGoesHome
<1>4. ASSUME NEW i \in by_mac(b),
             nodes' = [nodes EXCEPT ![i] = Assembled(@, Fragments - answer[b])]
      PROVE  RegistryInv'
  <2> DEFINE e == Assembled(nodes[i], Fragments - answer[b])
  <2>1. i \in DOMAIN nodes /\ nodes[i] \in NodeEntries /\ InOrder(nodes[i])
    BY <1>4 DEF by_mac, RegistryShape, AllInOrder
  <2>2. Fragments - answer[b] \in 0 .. Fragments - 1
    BY <1>1, RegistryAssumption DEF RegistryShape
  <2>3. /\ e \in NodeEntries /\ InOrder(e)
        /\ e.mac = nodes[i].mac /\ e.pending = nodes[i].pending
    BY <2>1, <2>2, AssembledInOrder
  <2>4. nodes' = [nodes EXCEPT ![i] = e]
    BY <1>4
  <2> HIDE DEF e
  <2>5. /\ nodes' \in Seq(NodeEntries) /\ DOMAIN nodes' = DOMAIN nodes
        /\ nodes'[i] = e
        /\ \A j \in DOMAIN nodes : j # i => nodes'[j] = nodes[j]
        /\ \A j \in DOMAIN nodes : nodes'[j].mac = nodes[j].mac
        /\ Single'
    BY <2>1, <2>3, <2>4, OneChanged
  <2>6. RegistryShape'
    BY <1>1, <1>2, <2>5 DEF RegistryShape
  <2>7. AllInOrder'
    BY <2>3, <2>5 DEF AllInOrder, InOrder
  <2>8. Stays /\ NoneForgotten
    BY <1>1, <2>3, <2>5 DEF Stays, NoneForgotten
  <2> QED
    BY <1>1, <2>5, <2>6, <2>7, <2>8, WaitingKept, HomeKept
<1> QED
  BY <1>3, <1>4 DEF SendFragment

LEMMA EndsKeeps ==
  ASSUME RegistryInv, NEW b \in Boards, AnswerEnds(b)
  PROVE  RegistryInv'
<1>1. answer' \in [Boards -> 0 .. Fragments]
  BY RegistryAssumption DEF AnswerEnds, RegistryInv, RegistryShape
<1> QED
  BY <1>1 DEF AnswerEnds, RegistryInv, RegistryShape, Single, AllInOrder, InOrder,
              Waiting, WatermarkGoesHome

LEMMA BatchKeeps ==
  ASSUME RegistryInv, NEW b \in Boards, Batch(b)
  PROVE  RegistryInv'
<1> USE DEF RegistryInv
<1>1. PICK i \in by_mac(b) :
        /\ recorded' = recorded \cup {b} /\ marks' = marks \cup {b}
        /\ \/ nodes' = [nodes EXCEPT ![i].pending = TRUE] /\ acked' = acked
           \/ acked' = acked \cup {b} /\ nodes' = nodes
  BY DEF Batch
<1>2. UNCHANGED <<role, answer>>
  BY DEF Batch
<1>3. i \in DOMAIN nodes /\ nodes[i].mac = b /\ nodes[i] \in NodeEntries
  BY DEF by_mac, RegistryShape
<1> DEFINE e == [nodes[i] EXCEPT !.pending = TRUE]
<1>4. e \in NodeEntries /\ e.mac = b /\ e.pending /\ (InOrder(nodes[i]) => InOrder(e))
  BY <1>3 DEF NodeEntries, InOrder
<1>5. CASE nodes' = [nodes EXCEPT ![i].pending = TRUE] /\ acked' = acked
  <2>1. nodes' = [nodes EXCEPT ![i] = e]
    BY <1>5
  <2> HIDE DEF e
  <2>2. /\ nodes' \in Seq(NodeEntries) /\ DOMAIN nodes' = DOMAIN nodes
        /\ nodes'[i] = e
        /\ \A j \in DOMAIN nodes : j # i => nodes'[j] = nodes[j]
        /\ \A j \in DOMAIN nodes : nodes'[j].mac = nodes[j].mac
        /\ Single'
    BY <1>3, <1>4, <2>1, OneChanged
  <2>3. RegistryShape' /\ AllInOrder'
    BY <1>1, <1>2, <1>3, <1>4, <2>2 DEF RegistryShape, AllInOrder, InOrder
  <2>4. Stays /\ NoneForgotten
    BY <1>2, <1>4, <1>5, <2>2 DEF Stays, NoneForgotten
  <2>5. Waiting'
    <3> SUFFICES ASSUME NEW c \in recorded \cup {b}
                 PROVE  \E j \in DOMAIN nodes' :
                          /\ nodes'[j].mac = c
                          /\ c \in acked' \/ nodes'[j].pending
      BY <1>1 DEF Waiting
    <3>1. CASE c = b
      BY <3>1, <1>3, <1>4, <2>2
    <3>2. CASE c \in recorded
      BY <3>2, <2>4 DEF Waiting, Stays, NoneForgotten
    <3> QED
      BY <3>1, <3>2
  <2> QED
    BY <1>1, <2>2, <2>3, <2>4, <2>5, HomeKept
<1>6. CASE acked' = acked \cup {b} /\ nodes' = nodes
  <2>1. RegistryShape' /\ Single' /\ AllInOrder' /\ Stays
    BY <1>1, <1>2, <1>6 DEF RegistryShape, Single, AllInOrder, InOrder, Stays
  <2>2. Waiting'
    BY <1>1, <1>3, <1>6 DEF Waiting
  <2> QED
    BY <1>1, <2>1, <2>2, HomeKept
<1> QED
  BY <1>1, <1>5, <1>6

LEMMA CommitKeeps ==
  ASSUME RegistryInv, NEW b \in Boards, Commit(b)
  PROVE  RegistryInv'
<1> USE DEF RegistryInv
<1>1. PICK i \in by_role(role[b]), covers \in BOOLEAN :
        /\ nodes[i].mac = b => covers
        /\ nodes' = [nodes EXCEPT ![i].commit = TRUE, ![i].pending = @ /\ ~covers]
        /\ acked' = IF nodes[i].pending /\ covers THEN acked \cup {nodes[i].mac}
                    ELSE acked
  BY DEF Commit
<1>2. b \in marks /\ marks' = marks \ {b} /\ UNCHANGED <<role, answer, recorded>>
  BY DEF Commit
<1>3. /\ i \in DOMAIN nodes /\ nodes[i] \in NodeEntries
      /\ role[nodes[i].mac] = role[b]
      /\ \A j \in 1 .. i - 1 : role[nodes[j].mac] # role[b]
  BY DEF by_role, RegistryShape
<1> DEFINE e == [nodes[i] EXCEPT !.commit = TRUE, !.pending = @ /\ ~covers]
<1>4. /\ e \in NodeEntries /\ e.mac = nodes[i].mac
      /\ e.pending = (nodes[i].pending /\ ~covers)
      /\ InOrder(nodes[i]) => InOrder(e)
  BY <1>3 DEF NodeEntries, InOrder
<1>5. nodes' = [nodes EXCEPT ![i] = e]
  BY <1>1, <1>3
<1> HIDE DEF e
<1>6. /\ nodes' \in Seq(NodeEntries) /\ DOMAIN nodes' = DOMAIN nodes
      /\ nodes'[i] = e
      /\ \A j \in DOMAIN nodes : j # i => nodes'[j] = nodes[j]
      /\ \A j \in DOMAIN nodes : nodes'[j].mac = nodes[j].mac
      /\ Single'
  BY <1>3, <1>4, <1>5, OneChanged
<1>7. RegistryShape' /\ AllInOrder'
  BY <1>2, <1>3, <1>4, <1>6 DEF RegistryShape, AllInOrder, InOrder
<1>8. Stays /\ NoneForgotten
  BY <1>1, <1>2, <1>4, <1>6 DEF Stays, NoneForgotten
<1>9. Waiting'
  BY <1>2, <1>8, WaitingKept
<1>10. WatermarkGoesHome'
  <2> SUFFICES ASSUME NEW c \in recorded, c \notin marks'
               PROVE  \/ c \in acked'
                      \/ \E k, j \in DOMAIN nodes :
                           /\ nodes[j].mac = c /\ k < j
                           /\ role[nodes[k].mac] = role[c]
    BY <1>2, <1>6 DEF WatermarkGoesHome
  <2>1. CASE c # b
    BY <2>1, <1>2, <1>8 DEF WatermarkGoesHome, Stays
  <2>2. CASE c = b
    <3>1. PICK j \in DOMAIN nodes :
            nodes[j].mac = b /\ (b \in acked \/ nodes[j].pending)
      BY <2>2 DEF Waiting
    <3>2. CASE j = i
      BY <3>1, <3>2, <2>2, <1>1
    <3>3. CASE j # i
      <4>1. i < j
        <5>1. j \in Nat /\ i \in Nat /\ 1 <= j
          BY <1>3, <3>1 DEF RegistryShape
        <5> QED
          BY <5>1, <3>1, <3>3, <1>3
      <4> QED
        BY <4>1, <3>1, <2>2, <1>3
    <3> QED
      BY <3>2, <3>3
  <2> QED
    BY <2>1, <2>2
<1> QED
  BY <1>6, <1>7, <1>9, <1>10

-----------------------------------------------------------------------------
LEMMA RegistryStays == RegistryInv /\ [RegistryNext]_rvars => RegistryInv'
<1> SUFFICES ASSUME RegistryInv, [RegistryNext]_rvars PROVE RegistryInv'
  OBVIOUS
<1>1. CASE UNCHANGED rvars
  BY <1>1 DEF rvars, RegistryInv, RegistryShape, Single, AllInOrder, InOrder, Waiting,
              WatermarkGoesHome
<1> QED
  BY <1>1, HelloKeeps, SendKeeps, EndsKeeps, BatchKeeps, CommitKeeps
  DEF RegistryNext

\* What RegistryInv leaves open of the types.
Fits == Len(nodes) <= MaxNodes /\ marks \cup acked \subseteq Boards

LEMMA FitsStay == RegistryInv /\ Fits /\ [RegistryNext]_rvars => Fits'
<1> SUFFICES ASSUME RegistryInv, Fits, [RegistryNext]_rvars PROVE Fits'
  OBVIOUS
<1>1. nodes \in Seq(NodeEntries) /\ Len(nodes) <= MaxNodes
      /\ marks \subseteq Boards /\ acked \subseteq Boards
  BY DEF RegistryInv, RegistryShape, Fits
<1>2. CASE UNCHANGED rvars
  BY <1>1, <1>2 DEF rvars, Fits
<1>3. ASSUME NEW b \in Boards, Hello(b) PROVE Fits'
  <2>1. UNCHANGED <<marks, acked>>
    BY <1>3 DEF Hello
  <2>2. nodes' = nodes \/ Len(nodes') <= MaxNodes
    <3> DEFINE found == by_mac(b)
               reg == IF found # {} THEN nodes ELSE Append(nodes, Entry(b))
    <3>1. nodes' = nodes \/ (nodes' = reg /\ ~(Len(reg) > MaxNodes))
      BY <1>3 DEF Hello
    <3>2. nodes' \in Seq(NodeEntries)
      BY RegistryStays DEF RegistryInv, RegistryShape
    <3> HIDE DEF reg
    <3> QED BY <3>1, <3>2, RegistryAssumption
  <2> QED BY <1>1, <2>1, <2>2 DEF Fits
<1>4. ASSUME NEW b \in Boards, SendFragment(b) \/ AnswerEnds(b) PROVE Fits'
  <2>1. UNCHANGED <<marks, acked>> /\ Len(nodes') = Len(nodes)
    BY <1>1, <1>4 DEF SendFragment, AnswerEnds
  <2> QED BY <1>1, <2>1 DEF Fits
<1>5. ASSUME NEW b \in Boards, Batch(b) PROVE Fits'
  <2>1. marks' \subseteq Boards /\ acked' \subseteq Boards
    BY <1>1, <1>5 DEF Batch
  <2>2. Len(nodes') = Len(nodes)
    BY <1>1, <1>5 DEF Batch
  <2> QED BY <1>1, <2>1, <2>2 DEF Fits
<1>6. ASSUME NEW b \in Boards, Commit(b) PROVE Fits'
  <2>1. PICK i \in by_role(role[b]), covers \in BOOLEAN :
          /\ nodes' = [nodes EXCEPT ![i].commit = TRUE, ![i].pending = @ /\ ~covers]
          /\ acked' = IF nodes[i].pending /\ covers
                      THEN acked \cup {nodes[i].mac} ELSE acked
    BY <1>6 DEF Commit
  <2>2. i \in DOMAIN nodes
    BY DEF by_role
  <2>3. nodes[i].mac \in Boards
    <3>1. nodes[i] \in NodeEntries
      BY <1>1, <2>2
    <3> QED BY <3>1 DEF NodeEntries
  <2>4. marks' \subseteq Boards /\ acked' \subseteq Boards
    BY <1>1, <1>6, <2>1, <2>3 DEF Commit
  <2>5. Len(nodes') = Len(nodes)
    BY <1>1, <2>1
  <2> QED BY <1>1, <2>4, <2>5 DEF Fits
<1> QED BY <1>2, <1>3, <1>4, <1>5, <1>6 DEF RegistryNext

LEMMA RegistryTyped == RegistryInv /\ Fits => RegistryTypeOK
  BY DEF RegistryInv, RegistryShape, Single, Fits, RegistryTypeOK

\* A descriptor that counts as complete is all its fragments in order, for
\* any number of boards and fragments and whatever is lost.
THEOREM DescriptorsAreWhole == RegistrySpec => []DescriptorWhole
<1>1. RegistryInv => DescriptorWhole
  BY DEF RegistryInv, AllInOrder, InOrder, DescriptorWhole
<1> QED
  BY RegistryStarts, RegistryStays, <1>1, PTL DEF RegistrySpec

\* A watermark acknowledges the board whose batch it is about, unless another
\* board of the role was registered before it, for any size of the table.
THEOREM WatermarksComeHome == RegistrySpec => []WatermarkGoesHome
<1>1. RegistryInv => WatermarkGoesHome
  BY DEF RegistryInv
<1> QED
  BY RegistryStarts, RegistryStays, <1>1, PTL DEF RegistrySpec

=============================================================================
