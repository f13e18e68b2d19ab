------------------------------ MODULE GwNodes ------------------------------
(***************************************************************************)
(* The gateway's registry of nodes (gateway/main/main.c): entries are made *)
(* by HELLO, found by MAC for what comes over the air and by role for what *)
(* comes from the backend, and never freed.  An entry collects the         *)
(* fragments of the node's parameter descriptor and holds the batch that   *)
(* waits for a watermark.                                                  *)
(*                                                                         *)
(* Boards are MACs.  What the deliveries of one node go through in detail, *)
(* reboots included, is in Delivery; here a board runs on and sends one    *)
(* batch.  Between a board and the handlers frames keep their order: they  *)
(* are handled as they are sent, or lost, on the air or at a full receive  *)
(* queue although the MAC has confirmed them.                              *)
(***************************************************************************)
EXTENDS Naturals, FiniteSets, SequencesExt

CONSTANTS
  Boards,      \* MACs
  Roles,       \* pairs of node_type and node_id
  MaxNodes,    \* GW_MAX_NODES
  Fragments    \* of the descriptor

ASSUME RegistryAssumption ==
  /\ IsFiniteSet(Boards) /\ MaxNodes \in Nat \ {0}
  /\ Fragments \in Nat \ {0}

VARIABLES
  role,      \* the role each board was given when it was flashed
  answer,    \* fragments of its answer to CONFIG_GET still to send, or 0
  nodes,     \* gw_nodes
  recorded,  \* boards whose batch the service has recorded
  marks,     \* ... and whose watermark has not reached the gateway
  acked      \* boards that got their BATCH_ACK

rvars == <<role, answer, nodes, recorded, marks, acked>>

\* gw_node_t.  config_ver is the same in every HELLO of a board, so that
\* fetched tells it is known.  commit is have_commit.  frag_total is 0
\* between descriptors; desc are the indices of the fragments in desc_buf.
Entry(b) ==
  [mac |-> b, fetched |-> FALSE, commit |-> FALSE, pending |-> FALSE,
   frag_total |-> 0, frag_next |-> 0, desc |-> <<>>]

RegistryInit ==
  /\ role \in [Boards -> Roles]
  /\ answer = [b \in Boards |-> 0]
  /\ nodes = <<>> /\ recorded = {} /\ marks = {} /\ acked = {}

\* Entries are no more than the table holds, each with a board of its own.
RegistryTypeOK ==
  /\ Len(nodes) <= MaxNodes
  /\ \A i, j \in DOMAIN nodes : nodes[i].mac = nodes[j].mac => i = j
  /\ recorded \cup marks \cup acked \subseteq Boards
  /\ \A b \in Boards : answer[b] \in 0 .. Fragments

-----------------------------------------------------------------------------
\* gw_node_by_mac: the entry of board b, if any.
by_mac(b) == {i \in DOMAIN nodes : nodes[i].mac = b}

\* Mutant: the type is compared and the id is not.
by_role_type(r) == IF nodes = <<>> THEN {} ELSE {1}

\* gw_node_by_role: the first entry of the role; the role of an entry is its
\* board's.
by_role(r) ==
  {i \in DOMAIN nodes :
     /\ role[nodes[i].mac] = r
     /\ \A j \in 1 .. i - 1 : role[nodes[j].mac] # r}

\* handle_hello: who is new gets an entry if there is room, and CONFIG_GET
\* unless the descriptor is there.  The handler ends early when HELLO_ACK is
\* not confirmed; a CONFIG_GET may get lost.
Hello(b) ==
  /\ answer[b] = 0
  /\ LET found == by_mac(b)
         reg   == IF found # {} THEN nodes ELSE Append(nodes, Entry(b))
         i     == IF found # {} THEN CHOOSE k \in found : TRUE ELSE Len(reg)
     IN  IF Len(reg) > MaxNodes THEN UNCHANGED <<nodes, answer>>
         ELSE /\ nodes' = reg
              /\ \/ ~reg[i].fetched /\ answer' = [answer EXCEPT ![b] = Fragments]
                 \/ UNCHANGED answer
  /\ UNCHANGED <<role, recorded, marks, acked>>

\* Mutant: a fragment that was lost is not missed.
AssembledAnyhow(n, idx) ==
  LET m == IF idx = 0
           THEN [n EXCEPT !.frag_total = Fragments, !.frag_next = 0, !.desc = <<>>]
           ELSE n
  IN  IF m.frag_total = 0 THEN m
      ELSE IF idx + 1 < Fragments
        THEN [m EXCEPT !.desc = Append(@, idx), !.frag_next = idx + 1]
        ELSE [m EXCEPT !.desc = Append(@, idx), !.frag_next = Fragments,
                       !.frag_total = 0, !.fetched = TRUE]

\* handle_config_desc: fragment idx of a descriptor.
Assembled(n, idx) ==
  LET m == IF idx = 0
           THEN [n EXCEPT !.frag_total = Fragments, !.frag_next = 0, !.desc = <<>>]
           ELSE n
      taken == [m EXCEPT !.desc = Append(@, idx), !.frag_next = idx + 1]
  IN  IF m.frag_total = 0 \/ idx # m.frag_next
        THEN [m EXCEPT !.frag_total = 0]
      ELSE IF idx + 1 < Fragments THEN taken
      ELSE [taken EXCEPT !.frag_total = 0, !.fetched = TRUE]

\* handle_config_get sends the next fragment; the gateway handles it or has
\* no room for it.
SendFragment(b) ==
  /\ answer[b] > 0
  /\ answer' = [answer EXCEPT ![b] = @ - 1]
  /\ \/ UNCHANGED nodes
     \/ \E i \in by_mac(b) :
          nodes' = [nodes EXCEPT ![i] = Assembled(@, Fragments - answer[b])]
  /\ UNCHANGED <<role, recorded, marks, acked>>

\* handle_config_get gives up when a fragment is not confirmed, or the board
\* is off.
AnswerEnds(b) ==
  /\ answer[b] > 0 /\ answer' = [answer EXCEPT ![b] = 0]
  /\ UNCHANGED <<role, nodes, recorded, marks, acked>>

\* handle_batch: published, and left pending unless a watermark covers it;
\* one of this entry's own cannot yet, one of another board of the role may.
Batch(b) ==
  /\ b \notin recorded
  /\ \E i \in by_mac(b) :
       /\ recorded' = recorded \cup {b} /\ marks' = marks \cup {b}
       /\ \/ /\ nodes' = [nodes EXCEPT ![i].pending = TRUE]
             /\ UNCHANGED acked
          \/ /\ nodes[i].commit
             /\ acked' = acked \cup {b} /\ UNCHANGED nodes
  /\ UNCHANGED <<role, answer>>

\* on_commit and gw_ack_if_covered: the watermark of board b names its role.
\* It covers the batch of b, and perhaps that of another board.
Commit(b) ==
  /\ b \in marks /\ marks' = marks \ {b}
  /\ \E i \in by_role(role[b]), covers \in BOOLEAN :
       /\ nodes[i].mac = b => covers
       /\ nodes' = [nodes EXCEPT ![i].commit = TRUE, ![i].pending = @ /\ ~covers]
       /\ acked' = IF nodes[i].pending /\ covers THEN acked \cup {nodes[i].mac}
                   ELSE acked
  /\ UNCHANGED <<role, answer, recorded>>

RegistryNext ==
  \E b \in Boards :
    Hello(b) \/ SendFragment(b) \/ AnswerEnds(b) \/ Batch(b) \/ Commit(b)

RegistrySpec == RegistryInit /\ [][RegistryNext]_rvars

-----------------------------------------------------------------------------
(* Properties.                                                             *)

\* A descriptor that is complete is all fragments in their order, whichever
\* were lost and however many answers were begun.
DescriptorWhole ==
  \A i \in DOMAIN nodes :
    nodes[i].frag_next = Fragments
    => nodes[i].desc = [k \in 1 .. Fragments |-> k - 1]

\* A watermark does its work for the board whose batch it is about: once it
\* has come the batch waits no longer, unless another board was registered
\* with the role before this one (a board that replaced another).
WatermarkGoesHome ==
  \A b \in recorded \ marks :
    \/ b \in acked
    \/ \E i, j \in DOMAIN nodes :
         /\ nodes[j].mac = b /\ i < j
         /\ role[nodes[i].mac] = role[b]

=============================================================================
