------------------------------ MODULE Delivery ------------------------------
(***************************************************************************)
(* The way of a telemetry sample from the ring of the node to the log of   *)
(* the commit service: node-bbu/main/comms.c (stop-and-wait over ESP-NOW), *)
(* gateway/main/main.c and net.c (publish, hold, acknowledge on the        *)
(* watermark), server/commit-service/commit_service.py (append, save,      *)
(* publish the watermark).                                                 *)
(*                                                                         *)
(* The tasks run concurrently: comms_task and monitor_task of the node,    *)
(* proc_task and the MQTT task of the gateway, the MQTT thread of the      *)
(* service.  They talk through bounded queues: the receive queue of each   *)
(* radio, the QoS 0 telemetry and the QoS 1 watermarks at the broker.      *)
(* What may go wrong is a set of named faults, with a budget.              *)
(*                                                                         *)
(* A capture time is the index of the sample since boot; the model neither *)
(* wraps the clock nor loses wall time, and one node is registered.        *)
(***************************************************************************)
EXTENDS NodeFifo, FiniteSets

CONSTANTS
  MaxClock,     \* bound: samples captured per boot
  MaxBoot,      \* bound: boots of the node
  SeqWrap,       \* the 16-bit frame counter, scaled down
  MaxFail,      \* MAX_CONSEC_FAIL
  QueueLen,     \* RECV_QUEUE_LEN of both radios
  BrokerLen,    \* bound: messages of a kind under way at the broker
  Faults,       \* the faults that may happen
  MaxFaults,    \* bound: how many of them
  Prompt        \* acknowledgements are quicker than ACK_TIMEOUT_MS

AllFaults == {"radio", "gwreboot", "nodereboot", "qos0", "svccrash", "mqtt",
              "slowcb"}

ASSUME DeliveryAssumption ==
  /\ MaxClock \in Nat \ {0} /\ MaxBoot \in Nat \ {0}
  /\ SeqWrap \in Nat \ {0, 1} /\ MaxFail \in Nat \ {0} /\ QueueLen \in Nat \ {0}
  /\ BrokerLen \in Nat \ {0}
  /\ Faults \subseteq AllFaults /\ MaxFaults \in Nat /\ Prompt \in BOOLEAN

VARIABLES
  node,    \* comms.c: ring, link state, outstanding batch
  grx,     \* receive queue of the gateway's radio
  nrx,     \* receive queue of the node's radio
  gw,      \* the gateway's entry of the node, and its batch in hand
  tq,      \* telemetry at the broker, for the service
  cq,      \* watermarks at the broker, for the gateway
  svc,     \* the commit service: message in hand, cursor in memory and on disk,
           \* and two histories
  log,     \* telemetry.jsonl
  acked,   \* history: samples trimmed on an acknowledgement
  lost,    \* history: samples the broker swallowed
  faults   \* faults left

vars == <<node, grx, nrx, gw, tq, cq, svc, log, acked, lost, faults>>

-----------------------------------------------------------------------------
Clocks == 1 .. MaxClock
Boots  == 1 .. MaxBoot
Seqs   == 0 .. SeqWrap - 1

Sample(boot, cap) == [boot |-> boot, cap |-> cap]

\* A batch as built: the envelope's seq and boot session, and its samples.
NoBatch == [seq |-> 0, boot |-> 0, caps |-> <<>>]
Batches == [seq : Seqs, boot : Boots, caps : SeqOf(Clocks, FrameSamples)]

HELLO(b)     == [type |-> "HELLO", boot |-> b]
BATCH(b)     == [type |-> "BATCH", b |-> b]
HELLO_ACK    == [type |-> "HELLO_ACK"]
BATCH_ACK(w) == [type |-> "BATCH_ACK", w |-> w]

\* One telemetry message; "of" is the sample it really carries.
Message(b, i) == [boot |-> b.boot, stamp |-> Stamp(b.caps, i), of |-> b.caps[i]]

Cursors == [boot : 0 .. MaxBoot, cap : 0 .. MaxClock]
NoCursor == [boot |-> 0, cap |-> 0]

NodeBooted(boot) ==
  [boot |-> boot, clock |-> 0, ring |-> <<>>, bound |-> FALSE, out |-> FALSE,
   batch |-> NoBatch, fails |-> 0, seq |-> 0]

\* A zeroed registry (gw_node_cnt = 0).
GwBooted ==
  [known |-> FALSE, last_boot |-> 0, anchor |-> 0,
   last_seq |-> 0, last_batch_boot |-> 0,
   have_commit |-> FALSE, commit |-> 0, have_pending |-> FALSE, pending |-> 0,
   pc |-> "idle", hand |-> 0]

Init ==
  /\ node = NodeBooted(1)
  /\ gw = GwBooted
  /\ svc = [pc |-> "idle", msg |-> [boot |-> 0, stamp |-> 0, of |-> 0],
            mem |-> NoCursor, disk |-> NoCursor, torn |-> {},
            misdated |-> {}]
  /\ grx = <<>> /\ nrx = <<>> /\ tq = <<>> /\ cq = <<>>
  /\ log = <<>> /\ acked = {} /\ lost = {} /\ faults = MaxFaults

\* Every variable, queue and counter stays within what the code allots to it.
TypeOK ==
  /\ node.boot \in Boots /\ node.clock \in 0 .. MaxClock
  /\ node.ring \in SeqOf(Clocks, RingCap)
  /\ node.bound \in BOOLEAN /\ node.out \in BOOLEAN
  /\ node.batch \in Batches \cup {NoBatch}
  /\ node.fails \in 0 .. MaxFail + 2 /\ node.seq \in Seqs
  /\ Len(grx) <= QueueLen /\ Len(nrx) <= QueueLen
  /\ gw.pc \in {"idle", "check", "mark", "pend"}
  /\ gw.commit \in 0 .. MaxClock /\ gw.pending \in 0 .. MaxClock
  /\ \A i \in DOMAIN tq : tq[i].boot \in Boots /\ tq[i].stamp \in Clocks
  /\ \A i \in DOMAIN cq : cq[i] \in Clocks
  /\ svc.pc \in {"idle", "appended", "saved"}
  /\ svc.mem \in Cursors /\ svc.disk \in Cursors
  /\ acked \cup lost \cup svc.torn \cup svc.misdated
       \subseteq [boot : Boots, cap : Clocks]
  /\ faults \in 0 .. MaxFaults

-----------------------------------------------------------------------------
(* The radio.                                                              *)

Happens(f) == f \in Faults /\ faults > 0 /\ faults' = faults - 1

\* Mutant: the queue has no limit.
OfferUnbounded(q, m) == Append(q, m)

\* xQueueSend from a receive callback: a frame that finds no room is dropped.
Offer(q, m) == IF Len(q) < QueueLen THEN Append(q, m) ELSE q

\* One frame on the air: it arrives and the sender learns so; or, by fault,
\* it is lost, or it arrives and only its MAC acknowledgement is lost.
Transmit(q, q1, m, ok) ==
  \/ ok /\ q1 = Offer(q, m) /\ UNCHANGED faults
  \/ ~ok /\ q1 = q /\ Happens("radio")
  \/ ~ok /\ q1 = Offer(q, m) /\ Happens("radio")

-----------------------------------------------------------------------------
(* The node.                                                               *)

\* comms_offer_sample, from monitor_task.
Capture ==
  /\ node.clock < MaxClock
  /\ node' = [node EXCEPT !.clock = @ + 1,
                          !.ring = fifo_push(node.ring, node.clock + 1)]
  /\ UNCHANGED <<grx, nrx, gw, tq, cq, svc, log, acked, lost, faults>>

\* scan_attempt: one HELLO on the channel of the gateway.
ScanHello ==
  /\ ~node.bound
  /\ \E ok \in BOOLEAN : Transmit(grx, grx', HELLO(node.boot), ok)
  /\ UNCHANGED <<node, nrx, gw, tq, cq, svc, log, acked, lost>>

\* scan_attempt: a HELLO_ACK binds, everything else is discarded.
ScanRx ==
  /\ ~node.bound /\ nrx # <<>>
  /\ nrx' = Tail(nrx)
  /\ node' = IF Head(nrx).type = "HELLO_ACK"
             THEN [node EXCEPT !.bound = TRUE, !.out = FALSE, !.fails = 0]
             ELSE node
  /\ UNCHANGED <<grx, gw, tq, cq, svc, log, acked, lost, faults>>

\* Mutant: the ring is given up with the link.
JudgeDropsRing(n) ==
  IF n.fails >= MaxFail
  THEN /\ node' = [n EXCEPT !.bound = FALSE, !.out = FALSE, !.ring = <<>>]
       /\ nrx' = <<>>
  ELSE node' = n /\ UNCHANGED nrx

\* go_unreachable once MAX_CONSEC_FAIL is reached: the batch is forgotten,
\* the ring stays, the receive queue is flushed.
Judge(n) ==
  IF n.fails >= MaxFail
  THEN /\ node' = [n EXCEPT !.bound = FALSE, !.out = FALSE]
       /\ nrx' = <<>>
  ELSE node' = n /\ UNCHANGED nrx

\* send_batch.
SendBatch ==
  /\ node.bound /\ ~node.out /\ node.ring # <<>>
  /\ LET b == [seq |-> (node.seq + 1) % SeqWrap, boot |-> node.boot,
               caps |-> Frame(node.ring)]
     IN \E ok \in BOOLEAN :
          /\ Transmit(grx, grx', BATCH(b), ok)
          /\ Judge([node EXCEPT !.seq = b.seq, !.batch = b, !.out = TRUE,
                                !.fails = IF ok THEN 0 ELSE @ + 1])
  /\ UNCHANGED <<gw, tq, cq, svc, log, acked, lost>>

\* With Prompt, the chain comes to rest before a timer of the node runs out:
\* an acknowledgement is overdue, or a reboot complete, only when it has.
Overdue ==
  Prompt => /\ grx = <<>> /\ nrx = <<>> /\ tq = <<>> /\ cq = <<>>
            /\ gw.pc = "idle" /\ svc.pc = "idle"

\* The acknowledgement timed out: the same frame again, or give up.
Retransmit ==
  /\ node.bound /\ node.out /\ Overdue
  /\ LET tried == [node EXCEPT !.fails = @ + 1]
     IN IF tried.fails >= MaxFail
        THEN Judge(tried) /\ UNCHANGED <<grx, faults>>
        ELSE \E ok \in BOOLEAN :
               /\ Transmit(grx, grx', BATCH(node.batch), ok)
               /\ Judge([tried EXCEPT !.fails = IF ok THEN @ ELSE @ + 1])
  /\ UNCHANGED <<gw, tq, cq, svc, log, acked, lost>>

\* A heartbeat or an event between batches; it only counts failures.  The
\* count is judged at the end of the pass, which ends with a batch if there
\* is one to send.
Heartbeat ==
  /\ node.bound /\ ~node.out
  /\ LET count(n) == IF node.ring = <<>> THEN Judge(n)
                     ELSE node' = n /\ UNCHANGED nrx
     IN \/ /\ node.fails < MaxFail /\ UNCHANGED faults
           /\ count([node EXCEPT !.fails = 0])
        \/ /\ node.fails <= MaxFail /\ Happens("radio")
           /\ count([node EXCEPT !.fails = @ + 1])
  /\ UNCHANGED <<grx, gw, tq, cq, svc, log, acked, lost>>

\* What an acknowledgement does to the node.
Accept(n, w) == [n EXCEPT !.ring = fifo_trim(n.ring, w), !.out = FALSE,
                          !.fails = 0]

\* handle_rx: BATCH_ACK trims while a batch is out; a late HELLO_ACK only
\* refreshes the anchor.  A new pass: the last one left the count below.
NodeRx ==
  /\ node.bound /\ nrx # <<>> /\ node.fails < MaxFail
  /\ nrx' = Tail(nrx)
  /\ LET m == Head(nrx)
     IN IF m.type = "BATCH_ACK" /\ node.out
        THEN /\ node' = Accept(node, m.w)
             /\ acked' = acked \cup {[boot |-> node.boot, cap |-> c] :
                                       c \in ToSet(node.ring) \ ToSet(node'.ring)}
        ELSE UNCHANGED <<node, acked>>
  /\ UNCHANGED <<grx, gw, tq, cq, svc, log, lost, faults>>

-----------------------------------------------------------------------------
(* The gateway.                                                            *)

\* send_batch_ack; gw_send_wait does not look at the MAC status.
AckNode(w) == \E ok \in BOOLEAN : Transmit(nrx, nrx', BATCH_ACK(w), ok)

\* Mutant: a watermark that just reaches the batch does not cover it.
CoveredStrictly(end) == gw.have_commit /\ end < gw.commit

Covered(end) == gw.have_commit /\ end <= gw.commit

\* A batch seen for the first time is published sample by sample, QoS 0: an
\* outage of the broker swallows a stretch of them.  Without an anchor
\* nothing is published.
Publish(b) ==
  LET sent == [i \in DOMAIN b.caps |-> Message(b, i)]
  IN  /\ Len(tq) + Len(sent) <= BrokerLen
      /\ \/ gw.anchor # 0 /\ tq' = tq \o sent /\ UNCHANGED <<lost, faults>>
         \/ gw.anchor = 0 /\ UNCHANGED <<tq, lost, faults>>
         \/ /\ gw.anchor # 0 /\ Happens("qos0")
            /\ \E i, j \in DOMAIN sent :
                 /\ i <= j
                 /\ tq' = tq \o SubSeq(sent, 1, i - 1)
                             \o SubSeq(sent, j + 1, Len(sent))
                 /\ lost' = lost \cup {Sample(b.boot, b.caps[k]) : k \in i .. j}

\* Mutant: the watermark of the last boot session stays.
GwHelloKeepsCommit ==
  /\ gw.pc = "idle" /\ grx # <<>> /\ Head(grx).type = "HELLO"
  /\ grx' = Tail(grx)
  /\ LET boot == Head(grx).boot
         seen == IF gw.last_boot = boot THEN [gw EXCEPT !.known = TRUE]
                 ELSE [gw EXCEPT !.known = TRUE, !.last_boot = boot,
                                 !.have_pending = FALSE]
     IN \/ \E ok \in BOOLEAN : /\ Transmit(nrx, nrx', HELLO_ACK, ok)
                               /\ gw' = [seen EXCEPT !.anchor = boot]
        \/ /\ Happens("slowcb")
           /\ nrx' = Offer(nrx, HELLO_ACK) /\ gw' = seen
  /\ UNCHANGED <<node, tq, cq, svc, log, acked, lost>>

\* handle_hello: a new boot session voids watermark and pending batch.  The
\* HELLO_ACK goes out; the anchor is taken once its send has completed.
GwHello ==
  /\ gw.pc = "idle" /\ grx # <<>> /\ Head(grx).type = "HELLO"
  /\ grx' = Tail(grx)
  /\ LET boot == Head(grx).boot
         seen == IF gw.last_boot = boot THEN [gw EXCEPT !.known = TRUE]
                 ELSE [gw EXCEPT !.known = TRUE, !.last_boot = boot,
                                 !.have_commit = FALSE, !.have_pending = FALSE]
     IN \/ \E ok \in BOOLEAN : /\ Transmit(nrx, nrx', HELLO_ACK, ok)
                               /\ gw' = [seen EXCEPT !.anchor = boot]
        \/ /\ Happens("slowcb")
           /\ nrx' = Offer(nrx, HELLO_ACK) /\ gw' = seen
  /\ UNCHANGED <<node, tq, cq, svc, log, acked, lost>>

\* handle_batch: the same frame again is never published again; it is
\* acknowledged if the watermark covers it, else it waits.
IsRepeat(b) == b.seq = gw.last_seq /\ b.boot = gw.last_batch_boot

GwBatch ==
  /\ gw.pc = "idle" /\ grx # <<>> /\ Head(grx).type = "BATCH"
  /\ grx' = Tail(grx)
  /\ LET b    == Head(grx).b
         seen == [gw EXCEPT !.last_seq = b.seq, !.last_batch_boot = b.boot]
     IN \/ ~gw.known /\ UNCHANGED <<gw, nrx, tq, lost, faults>>
        \/ /\ gw.known /\ IsRepeat(b) /\ Covered(Last(b.caps))
           /\ gw' = seen /\ AckNode(gw.commit) /\ UNCHANGED <<tq, lost>>
        \/ /\ gw.known /\ IsRepeat(b) /\ ~Covered(Last(b.caps))
           /\ gw' = seen /\ UNCHANGED <<nrx, tq, lost, faults>>
        \/ /\ gw.known /\ ~IsRepeat(b)
           /\ gw' = [seen EXCEPT !.pc = "check", !.hand = Last(b.caps)]
           /\ Publish(b) /\ UNCHANGED nrx
  /\ UNCHANGED <<node, cq, svc, log, acked>>

\* Mutant: the batch is acknowledged as soon as the broker has it.
GwCheckAtOnce ==
  /\ gw.pc = "check"
  /\ gw' = [gw EXCEPT !.pc = "idle"] /\ AckNode(gw.hand)
  /\ UNCHANGED <<node, grx, tq, cq, svc, log, acked, lost>>

\* handle_batch, second half: the watermark is read ...
GwCheck ==
  /\ gw.pc = "check"
  /\ IF Covered(gw.hand)
     THEN gw' = [gw EXCEPT !.pc = "idle"] /\ AckNode(gw.commit)
     ELSE gw' = [gw EXCEPT !.pc = "mark"] /\ UNCHANGED <<nrx, faults>>
  /\ UNCHANGED <<node, grx, tq, cq, svc, log, acked, lost>>

\* ... and the batch left pending, first the flag and then the end it stands
\* for; the MQTT task may run before and between.
GwMark ==
  /\ gw.pc = "mark"
  /\ gw' = [gw EXCEPT !.pc = "pend", !.have_pending = TRUE]
  /\ UNCHANGED <<node, grx, nrx, tq, cq, svc, log, acked, lost, faults>>

GwPend ==
  /\ gw.pc = "pend"
  /\ gw' = [gw EXCEPT !.pc = "idle", !.pending = gw.hand]
  /\ UNCHANGED <<node, grx, nrx, tq, cq, svc, log, acked, lost, faults>>

\* on_commit and gw_ack_if_covered, on the MQTT task.
GwCommit ==
  /\ cq # <<>>
  /\ cq' = Tail(cq)
  /\ LET w    == Head(cq)
         told == [gw EXCEPT !.have_commit = TRUE, !.commit = w]
     IN \/ ~gw.known /\ UNCHANGED <<gw, nrx, faults>>
        \/ /\ gw.known /\ gw.have_pending /\ gw.pending <= w
           /\ gw' = [told EXCEPT !.have_pending = FALSE]
           /\ AckNode(w)
        \/ /\ gw.known /\ ~(gw.have_pending /\ gw.pending <= w)
           /\ gw' = told /\ UNCHANGED <<nrx, faults>>
  /\ UNCHANGED <<node, grx, tq, svc, log, acked, lost>>

-----------------------------------------------------------------------------
(* The commit service.                                                     *)

\* Mutant: the sample at the cursor counts as new.
IsOlder(m) == svc.mem.boot = m.boot /\ m.stamp < svc.mem.cap

\* A sample at or below the cursor of its boot session.
IsOld(m) == svc.mem.boot = m.boot /\ m.stamp <= svc.mem.cap

\* handle_telemetry: an old sample is dropped without a word, a new one is
\* appended and fsync'd.  A sample dropped under a stamp that is not its own
\* capture time is misdated (history).
SvcAppend ==
  /\ svc.pc = "idle" /\ tq # <<>>
  /\ tq' = Tail(tq)
  /\ LET m == Head(tq)
     IN IF IsOld(m)
        THEN /\ svc' = [svc EXCEPT !.misdated = IF m.stamp = m.of THEN @
                                    ELSE @ \cup {Sample(m.boot, m.of)}]
             /\ UNCHANGED log
        ELSE /\ log' = Append(log, m)
             /\ svc' = [svc EXCEPT !.pc = "appended", !.msg = m]
  /\ UNCHANGED <<node, grx, nrx, gw, cq, acked, lost, faults>>

\* _save_state: the cursor, in memory and by an atomic replace on disk.
SvcSave ==
  /\ svc.pc = "appended"
  /\ LET cur == [boot |-> svc.msg.boot, cap |-> svc.msg.stamp]
     IN svc' = [svc EXCEPT !.pc = "saved", !.mem = cur, !.disk = cur]
  /\ UNCHANGED <<node, grx, nrx, gw, tq, cq, log, acked, lost, faults>>

\* The watermark; it does not name the boot session.
SvcPublish ==
  /\ svc.pc = "saved" /\ Len(cq) < BrokerLen
  /\ svc' = [svc EXCEPT !.pc = "idle"]
  /\ cq' = Append(cq, svc.msg.stamp)
  /\ UNCHANGED <<node, grx, nrx, gw, tq, log, acked, lost, faults>>

-----------------------------------------------------------------------------
(* Faults.                                                                 *)

\* Everything of the node but its NVS boot counter is gone.
NodeReboot ==
  /\ node.boot < MaxBoot /\ Overdue /\ Happens("nodereboot")
  /\ node' = NodeBooted(node.boot + 1) /\ nrx' = <<>>
  /\ UNCHANGED <<grx, gw, tq, cq, svc, log, acked, lost>>

\* The registry is RAM; the broker holds nothing for a clean session.
GwReboot ==
  /\ Happens("gwreboot")
  /\ gw' = GwBooted /\ grx' = <<>> /\ cq' = <<>>
  /\ UNCHANGED <<node, nrx, tq, svc, log, acked, lost>>

\* The gateway loses its broker connection: watermarks in flight are gone.
GwDisconnect ==
  /\ cq # <<>> /\ Happens("mqtt")
  /\ cq' = <<>>
  /\ UNCHANGED <<node, grx, nrx, gw, tq, svc, log, acked, lost>>

\* The service dies and restarts on the cursor on disk; nothing is queued
\* for it at the broker.  A line whose cursor was not saved is torn (history).
SvcCrash ==
  /\ Happens("svccrash")
  /\ svc' = [svc EXCEPT !.pc = "idle", !.mem = svc.disk,
                        !.torn = IF svc.pc # "appended" THEN @
                                 ELSE @ \cup {Sample(svc.msg.boot, svc.msg.stamp)}]
  /\ tq' = <<>>
  /\ UNCHANGED <<node, grx, nrx, gw, cq, log, acked, lost>>

Fault == NodeReboot \/ GwReboot \/ GwDisconnect \/ SvcCrash

NodeStep == Capture \/ ScanHello \/ ScanRx \/ SendBatch \/ Retransmit
            \/ Heartbeat \/ NodeRx
GwStep   == GwHello \/ GwBatch \/ GwCheck \/ GwMark \/ GwPend \/ GwCommit
SvcStep  == SvcAppend \/ SvcSave \/ SvcPublish

Next == NodeStep \/ GwStep \/ SvcStep \/ Fault

Spec == Init /\ [][Next]_vars

\* Every task is scheduled again and again.
FairSpec ==
  /\ Spec
  /\ WF_vars(Capture) /\ WF_vars(ScanHello) /\ WF_vars(ScanRx) 
  /\ WF_vars(SendBatch) /\ WF_vars(Retransmit) /\ WF_vars(NodeRx)
  /\ WF_vars(GwHello \/ GwBatch \/ GwCheck \/ GwMark \/ GwPend) /\ WF_vars(GwCommit)
  /\ WF_vars(SvcStep)

-----------------------------------------------------------------------------
(* Properties.                                                             *)

Recorded == {Sample(log[i].boot, log[i].of) : i \in DOMAIN log}

\* What the backend answers for: a sample is in the log, or the broker
\* swallowed it from the middle of a frame whose later samples are, or the
\* service took it for an old one under a stamp interpolated across gaps that
\* decimation left in its frame.
Settled == Recorded \cup lost \cup svc.misdated

\* "BATCH_ACK means durable", as far as the code keeps it: a sample the node
\* let go of on an acknowledgement is settled (send_batch_ack waits for the
\* watermark, the watermark for the fsync, the node trims only what it
\* covers).
AckedIsDurable == acked \subseteq Settled

\* commit_service.py: "ack" means "durable in the JSONL file" end to end.
\* The code does not keep it even if the broker loses nothing.
AckMeansInTheLog == acked \subseteq Recorded

\* Every acknowledgement on its way to the node names a capture time of the
\* node's own boot session that is in the log.
WatermarkIsDurable ==
  \A i \in DOMAIN nrx : nrx[i].type = "BATCH_ACK" =>
    \E j \in DOMAIN log : log[j].boot = node.boot /\ log[j].stamp = nrx[i].w

\* "Zero duplicate lines": no sample of a boot session is written twice,
\* except one the service died on between its append and its cursor.
NoDuplicateLines ==
  \A i, j \in DOMAIN log :
    log[i].boot = log[j].boot /\ log[i].stamp = log[j].stamp
      => i = j \/ Sample(log[i].boot, log[i].stamp) \in svc.torn

\* The link heals itself: whatever is lost, the ring is drained in the end.
Drains == []<>(node.ring = <<>>)

\* Refinement: a sample leaves the node only for the log (or what the broker
\* made of it), by thinning a full ring, or with the power.
CustodyOf == INSTANCE Custody
  WITH Samples <- [boot : Boots, cap : Clocks],
       held    <- {Sample(node.boot, c) : c \in ToSet(node.ring)},
       durable <- Settled,
       full    <- Len(node.ring) >= RingCap,
       session <- node.boot
CustodyHolds == CustodyOf!Spec

=============================================================================
