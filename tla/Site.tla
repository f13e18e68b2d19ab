-------------------------------- MODULE Site --------------------------------
(***************************************************************************)
(* Node, gateway, broker and commit service as far as it takes for them to *)
(* find each other and to tell when one is missing: NodeLink, Uplink and   *)
(* Alarms composed, with the gateway's registry entry of the node and its  *)
(* liveness pass (gateway/main/main.c).                                    *)
(*                                                                         *)
(* A tick stands for the periods of the parties (2 s of the heartbeat and  *)
(* the acknowledgement, 30 s of health), scaled to one another: it comes   *)
(* when each of them has had its turn, so that nobody is late unless the   *)
(* code makes it so.  The broker and the site's WiFi are external, and a   *)
(* message to the service is handled as it is published: what the service  *)
(* misses while it is down, the retained messages tell it again.           *)
(***************************************************************************)
EXTENDS NodeLink, Uplink, Alarms

CONSTANTS
  Silent,      \* liveness_s * 3, in ticks
  Faults,      \* what may go wrong
  MaxFaults    \* bound: how often

ASSUME SiteAssumption ==
  /\ Silent \in Nat \ {0} /\ MaxFaults \in Nat
  /\ Faults \subseteq {"radio", "wifi", "broker", "gwreboot", "nodereboot",
                       "service", "switch"}

VARIABLES
  node,       \* the gateway's entry of the node
  outbox,     \* node status the client has not got out: the last one tells
  status,     \* retained status of the node
  gwStatus,   \* retained status of the gateway
  session,    \* the gateway's session: "none", "live", or "dead", its will due
  retained,   \* a health message is retained
  svc,        \* the commit service
  due,        \* who has not had its turn in this tick
  untold,     \* history: the last news of the node got lost at the gateway
  faults      \* how often something went wrong

entry   == <<node, outbox>>
mqtt    == <<status, gwStatus, session, retained, untold>>
svars   == <<lvars, uvars, entry, mqtt, svc, due, faults>>

Parties == {"node", "gateway"}

\* gw_node_t, of what it takes here: registered (known) at all, last_seen_ms
\* as ticks ago, flagged_unreach.
Unknown == [known |-> FALSE, seen |-> 0, flagged |-> FALSE]

SiteInit ==
  /\ LinkInit /\ UplinkInit
  /\ node = Unknown /\ outbox = "none"
  /\ status = "none" /\ gwStatus = "none" /\ session = "none"
  /\ retained = FALSE /\ untold = FALSE
  /\ svc = ServiceInit /\ due = Parties /\ faults = 0

TypeOK ==
  /\ LinkTypeOK /\ UplinkTypeOK
  /\ node \in [known : BOOLEAN, seen : 0 .. Silent + 1, flagged : BOOLEAN]
  /\ {outbox, status, gwStatus} \subseteq {"none", "online", "offline"}
  /\ session \in {"none", "live", "dead"} /\ svc \in Services
  /\ due \subseteq Parties /\ faults \in 0 .. MaxFaults
  /\ {retained, untold} \subseteq BOOLEAN

-----------------------------------------------------------------------------
Fault(f) == f \in Faults /\ faults < MaxFaults /\ faults' = faults + 1

\* A frame of the node reaches the gateway's handlers.
OnAir == mode = "active"

\* The broker gets what the gateway sends: the client has a session, and the
\* WiFi has not gone since without the client having noticed.
Reached == session = "live" /\ wifi

\* Mutant: published like the events are, not retained.
StatusPassing(s) ==
  /\ IF Reached
     THEN svc' = NodeStatus(svc, s) /\ untold' = FALSE /\ UNCHANGED outbox
     ELSE outbox' = s /\ UNCHANGED <<svc, untold>>
  /\ UNCHANGED status

\* node_status_publish, retained, and its result ignored.  There is a client:
\* an entry needs a gateway that was connected once.  What the broker does
\* not get stays in the client's outbox (external).
node_status_publish(s) ==
  IF Reached
  THEN /\ status' = s /\ svc' = NodeStatus(svc, s) /\ untold' = FALSE
       /\ UNCHANGED outbox
  ELSE /\ outbox' = s
       /\ UNCHANGED <<status, svc, untold>>

\* The client sends what waits, to a service that is s by then.
Flush(s) ==
  /\ svc' = NodeStatus(s, outbox) /\ outbox' = "none"
  /\ IF outbox = "none" THEN UNCHANGED <<status, untold>>
     ELSE status' = outbox /\ untold' = FALSE

\* Mutant: the flag of a silent node is taken off and nobody told.
FramesQuietly(n, told) ==
  /\ node' = [known |-> n.known, seen |-> 0, flagged |-> FALSE]
  /\ UNCHANGED <<outbox, status, svc, untold>>

\* handle_rx: any frame of an entry that is flagged takes the flag off.  n
\* is the entry the handler of the message makes of it.
Frames(n, told) ==
  /\ node' = [known |-> n.known, seen |-> 0, flagged |-> FALSE]
  /\ IF told THEN node_status_publish("online")
     ELSE UNCHANGED <<outbox, status, svc, untold>>

\* What the node sent is heard, or not: a heartbeat, an event, a batch.
Heard(ok) ==
  IF OnAir /\ ok /\ node.known THEN Frames(node, node.flagged)
  ELSE UNCHANGED <<entry, status, svc, untold>>

\* HELLO: handle_hello registers who is not (find_or_add).
HelloHeard ==
  Frames([node EXCEPT !.known = TRUE], node.flagged)

\* Delivery's confirmation of a frame: with ESP-NOW down the gateway's WiFi
\* may still confirm what nobody reads.
Confirmed(ok) == IF OnAir THEN ok ELSE ok => wifi

Turn(p) == due' = due \ {p}

\* The acknowledgement of a batch comes before its time-out whenever it comes:
\* the chain takes milliseconds, the node waits for seconds.
AckComes == OnAir /\ node.known /\ svc.up /\ broker /\ wifi

-----------------------------------------------------------------------------
(* The node.                                                               *)

Undisturbed == UNCHANGED <<uvars, gwStatus, session, retained>>

\* A send may fail only by a fault, or when nobody is there.
Luck(ok) == IF OnAir /\ ~ok THEN Fault("radio") ELSE faults' = faults

Scan ==
  /\ ScanBegin
  /\ UNCHANGED <<uvars, entry, mqtt, svc, due, faults>>

\* The HELLO is heard and so is the HELLO_ACK.
Bind ==
  /\ OnAir /\ ScanHears /\ HelloHeard
  /\ Turn("node") /\ UNCHANGED faults /\ Undisturbed

Binds == ScanBinds /\ UNCHANGED <<uvars, entry, mqtt, svc, due, faults>>

\* Nothing is heard; the gateway may have heard the HELLO all the same.
Miss ==
  /\ ScanEnds /\ Turn("node") /\ Luck(FALSE) /\ Undisturbed
  /\ \/ OnAir /\ HelloHeard
     \/ UNCHANGED <<entry, status, svc, untold>>

\* A node that rests, or has comms off, lets the time go by.
Rests ==
  /\ pc = "loop" /\ (~enabled \/ (link = "scanning" /\ rest > 0))
  /\ "node" \in due /\ Turn("node")
  /\ UNCHANGED <<lvars, uvars, entry, mqtt, svc, faults>>

Overdue(ok) ==
  /\ "node" \in due /\ ~AckComes
  /\ Retransmit(ok) /\ Confirmed(ok) /\ Luck(ok) /\ Heard(ok)
  /\ Turn("node") /\ Undisturbed

Talk(beat, batch, ok) ==
  /\ beat => "node" \in due
  /\ Exchange(beat, batch, ok) /\ Confirmed(ok) /\ Luck(ok) /\ Heard(ok)
  /\ IF beat THEN Turn("node") ELSE UNCHANGED due
  /\ Undisturbed

Ack ==
  /\ AckComes /\ Acked
  /\ UNCHANGED <<uvars, entry, mqtt, svc, due, faults>>

\* Console, menu, PARAM_SET: comms on and off.
Switch ==
  /\ EnableBegins \/ Disable
  /\ Fault("switch")
  /\ UNCHANGED <<uvars, entry, mqtt, svc, due>>

Switched == EnableEnds /\ UNCHANGED <<uvars, entry, mqtt, svc, due, faults>>

PowerBlip ==
  /\ NodeReboot /\ Fault("nodereboot")
  /\ UNCHANGED <<uvars, entry, mqtt, svc, due>>

Offers ==
  /\ OfferEvent
  /\ UNCHANGED <<uvars, entry, mqtt, svc, due, faults>>

-----------------------------------------------------------------------------
(* The gateway.                                                            *)

Checks ==
  /\ Check /\ Turn("gateway")
  /\ UNCHANGED <<lvars, entry, mqtt, svc, faults>>

\* proc_task: a node that has been silent too long is flagged, once.
IsSilent == node.known /\ ~node.flagged /\ node.seen > Silent

Flags ==
  /\ IsSilent
  /\ node' = [node EXCEPT !.flagged = TRUE]
  /\ node_status_publish("offline")
  /\ UNCHANGED <<lvars, gwStatus, session, retained, uvars, due, faults>>

\* The connection is lost with the WiFi or by itself: the broker publishes
\* the will, "offline", when it misses the keep-alive.
Drops ==
  /\ \/ WifiLost /\ Fault("wifi") /\ session' = session
     \/ Disconnected /\ wifi /\ Fault("broker") /\ session' = "dead"
     \/ Disconnected /\ ~wifi /\ session' = "dead" /\ faults' = faults
  /\ UNCHANGED <<lvars, entry, status, gwStatus, retained, untold, svc, due>>

Will ==
  /\ session = "dead" /\ session' = "none"
  /\ gwStatus' = "offline" /\ svc' = GwStatus(svc, "offline")
  /\ UNCHANGED <<lvars, uvars, entry, status, retained, untold, due, faults>>

\* wifi_event_handler, and MQTT_EVENT_CONNECTED with "online", after the will
\* of the session before; then the client sends what waits.  So does a client
\* whose session has outlived a gap of the WiFi.
Reconnects ==
  \/ /\ WifiUp
     /\ IF session = "live" THEN Flush(svc)
        ELSE UNCHANGED <<outbox, status, svc, untold>>
     /\ UNCHANGED <<lvars, node, gwStatus, session, retained, due, faults>>
  \/ /\ session = "none" /\ Connected(retained)
     /\ session' = "live" /\ gwStatus' = "online"
     /\ Flush(GwStatus(svc, "online"))
     /\ UNCHANGED <<lvars, node, retained, due, faults>>

\* start_mqtt sets no outbox option: the client deletes what it could not get
\* out for 30 s.  The flag in the entry stays as it is, and nobody publishes
\* the status again.
Expires ==
  /\ outbox # "none" /\ ~Reached
  /\ outbox' = "none" /\ untold' = TRUE
  /\ UNCHANGED <<lvars, uvars, node, status, gwStatus, session, retained, svc,
                 due, faults>>

\* What a connected gateway repeats every 30 s.
Reports ==
  /\ Reached
  /\ gwStatus' = "online" /\ svc' = GwStatus(svc, "online")
  /\ UNCHANGED <<lvars, uvars, entry, status, session, retained, untold, due,
                 faults>>

Saves ==
  /\ Checkpoint
  /\ UNCHANGED <<lvars, entry, mqtt, svc, due, faults>>

GwReboot ==
  /\ UplinkReboot /\ Fault("gwreboot")
  /\ node' = Unknown /\ outbox' = "none"
  /\ session' = IF session = "live" THEN "dead" ELSE session
  /\ untold' = TRUE
  /\ UNCHANGED <<lvars, status, gwStatus, retained, svc, due>>

-----------------------------------------------------------------------------
(* The commit service.                                                     *)

\* publish_health: retained, and the gateway gets it if connected.
Publishes ==
  IF svc.up
  THEN /\ retained' = TRUE
       /\ IF broker /\ wifi THEN HealthMsg ELSE UplinkAges
  ELSE UplinkAges /\ UNCHANGED retained

TellsTime ==
  /\ svc.up /\ TimeMsg
  /\ UNCHANGED <<lvars, entry, mqtt, svc, due, faults>>

Dies ==
  /\ svc.up /\ Fault("service") /\ svc' = Died
  /\ UNCHANGED <<lvars, uvars, entry, mqtt, due>>

Starts ==
  /\ ~svc.up /\ svc' = Restarted(status, gwStatus)
  /\ UNCHANGED <<lvars, uvars, entry, mqtt, due, faults>>

\* A tick is over when node and gateway have had their turn.
Tick ==
  /\ due = {} /\ due' = Parties
  /\ ~IsSilent
  /\ Publishes
  /\ node' = [node EXCEPT !.seen = IF node.known /\ node.seen <= Silent
                                   THEN node.seen + 1 ELSE node.seen]
  /\ rest' = IF rest > 0 THEN rest - 1 ELSE 0
  /\ UNCHANGED <<enabled, link, bound, fails, out, misses, events, pc,
                 enabling, outbox, status, gwStatus, session, untold, svc, faults>>

NodeStep ==
  \/ Scan \/ Bind \/ Binds \/ Miss \/ Rests \/ Ack \/ Switched
  \/ \E ok \in BOOLEAN :
       Overdue(ok) \/ \E beat, batch \in BOOLEAN : Talk(beat, batch, ok)

GwStep == Checks \/ Flags \/ Reconnects \/ Reports \/ Saves

Environment ==
  \/ Drops \/ Will \/ Expires \/ PowerBlip \/ Switch \/ GwReboot \/ Dies \/ Offers

SiteNext ==
  NodeStep \/ GwStep \/ Environment \/ TellsTime \/ Starts \/ Tick

\* Everybody's loop goes on; a node that is online has a sample to send ever
\* again; the broker notices a dead session, the network comes back.  That
\* the service starts again is not assumed.
SiteFairness ==
  /\ WF_svars(Scan) /\ WF_svars(Bind) /\ WF_svars(Binds) /\ WF_svars(Miss)
  /\ WF_svars(Rests) /\ WF_svars(Ack) /\ WF_svars(Switched)
  /\ WF_svars(\E ok \in BOOLEAN : Overdue(ok))
  /\ WF_svars(\E ok, batch \in BOOLEAN : Talk(TRUE, batch, ok))
  /\ SF_svars(\E ok, beat \in BOOLEAN : Talk(beat, TRUE, ok))
  /\ WF_svars(Checks) /\ WF_svars(Flags) /\ WF_svars(Reconnects)
  /\ WF_svars(Drops /\ faults' = faults)
  /\ WF_svars(Will) /\ WF_svars(TellsTime) /\ WF_svars(Tick)

SiteSpec == SiteInit /\ [][SiteNext]_svars /\ SiteFairness

-----------------------------------------------------------------------------
(* Properties.                                                             *)

Joined == enabled /\ link = "online" /\ node.known

\* Whatever has gone wrong, and whoever was restarted, a node with comms on
\* is bound to a gateway that knows it in the end, as long as the backend is
\* there: a gateway that forgot it makes it give up and say HELLO again.
Rejoins == <>[](svc.up /\ enabled) => <>[]Joined

\* A gateway whose backend is gone takes the radio down, retained health or
\* not, and stays so.
LeavesWithoutBackend == <>[](~svc.up) => <>[](mode = "wait")

\* What the backend has last been told is what the gateway holds at that
\* moment, whichever of the connection, the service and the gateway went down
\* in between: the alarm "node gone" is out exactly while the gateway's entry
\* is flagged, unless the last news still waits in the gateway's client or
\* got lost there, to its 30 s limit or to a reboot; and no alarm "gateway
\* gone" outlives the gateway's return (node_status_publish,
\* handle_node_status, handle_gw_status).
AlarmsAgree ==
  svc.up =>
    /\ outbox = "none" /\ ~untold => (svc.node = "gone" <=> node.flagged)
    /\ Reached => svc.gateway # "gone" /\ ~svc.gw_down

\* What the backend has been told of the node settles at what is so: gone
\* when it is off for good, not gone when it is on.  Only news that got lost
\* at the gateway, to a reboot or to the client's 30 s limit, is never told:
\* who has been reported is a flag in RAM that does not know whether the
\* report got out.
StatusSettles ==
  /\ <>[](svc.up /\ enabled) => <>[](status # "offline" \/ untold)
  /\ <>[](svc.up /\ ~enabled) =>
       <>[](node.known => svc.node = "gone" \/ untold)

\* What DESIGN_NOTE_004:493 promises of a gateway reboot: node statuses are
\* republished after the first liveness pass.  So the "offline" retained
\* before it cannot outlive a node that is bound again and heard.
StatusRepublished ==
  <>[](svc.up /\ Joined) => <>[](status # "offline")

\* A service that has raised the alarm that the gateway is gone takes it back
\* when the gateway is there again, whatever came and went in between.
GatewayAlarmSettles ==
  <>[]svc.up => <>[](svc.gateway # "gone" /\ ~svc.gw_down /\ gwStatus = "online")

=============================================================================
