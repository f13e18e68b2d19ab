----------------------------- MODULE SiteProofs -----------------------------
(***************************************************************************)
(* Node, gateway, broker and service, for every limit and any number of    *)
(* faults of any kind: the types, and that what the service has last been  *)
(* told of the node and of the gateway is what the gateway holds.          *)
(*                                                                         *)
(* AlarmsAgree says nothing of the broker.  It is kept because the news of *)
(* the node is in one place at every moment, in the client that waits for  *)
(* a connection or retained, unless the gateway has lost it and said so;   *)
(* and because a service that is up has heard what is retained, when it    *)
(* was published or when it started.                                       *)
(***************************************************************************)
EXTENDS Site, TLAPS

Words == {"none", "online", "offline"}

Entries == [known : BOOLEAN, seen : 0 .. Silent + 1, flagged : BOOLEAN]

\* The types of what messages change.
MailTypes ==
  /\ node \in Entries /\ svc \in Services
  /\ outbox \in Words /\ status \in Words /\ gwStatus \in Words
  /\ session \in {"none", "live", "dead"}
  /\ retained \in BOOLEAN /\ untold \in BOOLEAN

\* Nothing waits while the broker gets what is sent, and who has a session has
\* said so.
Connection ==
  /\ Reached => outbox = "none"
  /\ session = "live" => gwStatus = "online"

\* The latest news of the node: it waits, or it is retained, or it got lost.
News ==
  /\ outbox # "none" => (outbox = "offline" <=> node.flagged)
  /\ outbox = "none" /\ ~untold => (status = "offline" <=> node.flagged)

\* A service s that is up has heard what is retained: n of the node, g of the
\* gateway.
Hears(s, n, g) ==
  s.up => /\ s.node = "gone" <=> n = "offline"
          /\ s.gw_down <=> g = "offline"
          /\ s.gateway = "gone" => s.gw_down

Heeded == Hears(svc, status, gwStatus)

MailInv == MailTypes /\ Connection /\ News /\ Heeded

\* LinkTypeOK and UplinkTypeOK, one variable at a time, flags and counters.
LinkFlags ==
  /\ enabled \in BOOLEAN /\ bound \in BOOLEAN /\ out \in BOOLEAN
  /\ enabling \in BOOLEAN
  /\ link \in {"scanning", "online"} /\ pc \in {"loop", "dwell", "bind"}

LinkCounts ==
  /\ fails \in 0 .. MaxFail /\ misses \in 0 .. ScanWrap - 1
  /\ rest \in 0 .. 3 /\ events \in 0 .. EvCap

LinkTypes == LinkFlags /\ LinkCounts

UplinkFlags ==
  /\ wifi \in BOOLEAN /\ broker \in BOOLEAN /\ timed \in BOOLEAN
  /\ saved \in BOOLEAN /\ mode \in {"wait", "active"}

UplinkCounts == age \in 0 .. HealthStale /\ healthy \in 0 .. ActiveEntry - 1

UplinkTypes == UplinkFlags /\ UplinkCounts

SiteInv ==
  /\ LinkTypes /\ UplinkTypes /\ MailInv
  /\ due \subseteq Parties /\ faults \in 0 .. MaxFaults

mail == <<entry, mqtt, svc, wifi>>

-----------------------------------------------------------------------------
(* The handlers of the service.                                            *)

\* A status of the node is heard by a service that is up.
LEMMA NodeStatusHeard ==
  ASSUME NEW s \in Services, NEW w \in Words, NEW n \in Words, NEW g \in Words,
         Hears(s, n, g)
  PROVE  /\ NodeStatus(s, w) \in Services
         /\ Hears(NodeStatus(s, w), IF w = "none" THEN n ELSE w, g)
<1>1. CASE ~s.up \/ w = "none"
  BY <1>1 DEF NodeStatus, Hears
<1>2. CASE s.up /\ w # "none"
  <2> DEFINE t == [s EXCEPT !.node = IF w = "online" THEN "back" ELSE "gone"]
  <2>1. NodeStatus(s, w) = t
    BY <1>2 DEF NodeStatus
  <2>2. /\ t \in Services /\ t.up = s.up /\ t.gw_down = s.gw_down
        /\ t.gateway = s.gateway
        /\ t.node = IF w = "online" THEN "back" ELSE "gone"
    BY DEF Services
  <2>3. t.node = "gone" <=> w = "offline"
    BY <1>2, <2>2 DEF Words
  <2> HIDE DEF t
  <2> QED BY <1>2, <2>1, <2>2, <2>3 DEF Hears
<1> QED BY <1>1, <1>2

\* So is a status of the gateway.
LEMMA GwStatusHeard ==
  ASSUME NEW s \in Services, NEW w \in {"online", "offline"}, NEW n \in Words,
         NEW g \in Words, Hears(s, n, g)
  PROVE  GwStatus(s, w) \in Services /\ Hears(GwStatus(s, w), n, w)
<1>1. CASE ~s.up
  BY <1>1 DEF GwStatus, Hears
<1>2. CASE s.up /\ w = "offline" /\ ~s.gw_down
  <2> DEFINE t == [s EXCEPT !.gw_down = TRUE, !.gateway = "gone"]
  <2>1. GwStatus(s, w) = t
    BY <1>2 DEF GwStatus
  <2>2. t \in Services /\ t.up = s.up /\ t.gw_down /\ t.node = s.node
    BY DEF Services
  <2> HIDE DEF t
  <2> QED BY <1>2, <2>1, <2>2 DEF Hears
<1>3. CASE s.up /\ w = "online" /\ s.gw_down
  <2> DEFINE t == [s EXCEPT !.gw_down = FALSE, !.gateway = "back"]
  <2>1. GwStatus(s, w) = t
    BY <1>3 DEF GwStatus
  <2>2. /\ t \in Services /\ t.up = s.up /\ t.gw_down = FALSE
        /\ t.node = s.node /\ t.gateway = "back"
    BY DEF Services
  <2> HIDE DEF t
  <2> QED BY <1>3, <2>1, <2>2 DEF Hears
<1>4. CASE s.up /\ (w = "offline" <=> s.gw_down)
  <2>1. GwStatus(s, w) = s
    BY <1>4 DEF GwStatus
  <2> QED BY <1>4, <2>1 DEF Hears
<1> QED BY <1>1, <1>2, <1>3, <1>4 DEF Services

\* A service that starts hears what is retained; one that died hears nothing.
LEMMA ServiceStarts ==
  ASSUME NEW n \in Words, NEW g \in Words
  PROVE  /\ ServiceInit \in Services /\ Hears(ServiceInit, "none", "none")
         /\ Restarted(n, g) \in Services /\ Hears(Restarted(n, g), n, g)
         /\ Died \in Services /\ Hears(Died, n, g)
<1>1. ServiceInit \in Services /\ Hears(ServiceInit, "none", "none")
  BY DEF ServiceInit, Services, Hears
<1>2. /\ NodeStatus(ServiceInit, n) \in Services
      /\ Hears(NodeStatus(ServiceInit, n), n, "none")
  <2>1. "none" \in Words
    BY DEF Words
  <2>2. /\ NodeStatus(ServiceInit, n) \in Services
        /\ Hears(NodeStatus(ServiceInit, n), IF n = "none" THEN "none" ELSE n, "none")
    BY <1>1, <2>1, NodeStatusHeard
  <2> QED BY <2>2
<1>3. Restarted(n, g) \in Services /\ Hears(Restarted(n, g), n, g)
  <2> DEFINE s == NodeStatus(ServiceInit, n)
  <2>1. CASE g = "none"
    <3>1. GwStatus(s, g) = s
      BY <2>1 DEF GwStatus
    <3> QED BY <1>2, <2>1, <3>1 DEF Restarted
  <2>2. CASE g # "none"
    <3>1. g \in {"online", "offline"} /\ "none" \in Words
      BY <2>2 DEF Words
    <3> HIDE DEF s
    <3>2. s \in Services /\ Hears(s, n, "none")
      BY <1>2 DEF s
    <3>3. GwStatus(s, g) \in Services /\ Hears(GwStatus(s, g), n, g)
      BY <3>1, <3>2, GwStatusHeard
    <3> QED BY <3>3 DEF Restarted, s
  <2> QED BY <2>1, <2>2
<1>4. Died \in Services /\ Hears(Died, n, g)
  BY DEF Died, ServiceInit, Services, Hears
<1> QED BY <1>1, <1>3, <1>4

-----------------------------------------------------------------------------
(* Mail.                                                                   *)

\* A status of the node that is published while the entry becomes e, flagged
\* exactly if the status is "offline".
LEMMA PublishKeeps ==
  ASSUME MailInv, NEW w \in {"online", "offline"}, node_status_publish(w),
         node' \in Entries, node'.flagged <=> w = "offline",
         UNCHANGED <<gwStatus, session, retained, wifi>>
  PROVE  MailInv'
<1> USE DEF MailInv, MailTypes, Words
<1>1. CASE Reached
  <2>1. /\ status' = w /\ svc' = NodeStatus(svc, w) /\ untold' = FALSE
        /\ outbox' = outbox /\ outbox = "none"
    BY <1>1 DEF node_status_publish, Connection
  <2>2. w \in Words /\ w # "none"
    BY DEF Words
  <2>3. svc' \in Services /\ Hears(svc', w, gwStatus)
    <3>1. /\ NodeStatus(svc, w) \in Services
          /\ Hears(NodeStatus(svc, w), IF w = "none" THEN status ELSE w, gwStatus)
      BY <2>2, NodeStatusHeard DEF Heeded
    <3> QED BY <2>1, <2>2, <3>1
  <2>4. Heeded'
    BY <2>1, <2>3 DEF Heeded
  <2>5. MailTypes'
    BY <2>1, <2>3
  <2>6. Connection' /\ News'
    BY <1>1, <2>1 DEF Connection, News, Reached
  <2> QED BY <2>4, <2>5, <2>6
<1>2. CASE ~Reached
  <2>1. outbox' = w /\ UNCHANGED <<status, svc, untold>>
    BY <1>2 DEF node_status_publish
  <2>2. Heeded'
    BY <2>1 DEF Heeded
  <2>3. MailTypes'
    BY <2>1
  <2>4. Connection' /\ News'
    BY <1>2, <2>1 DEF Connection, News, Reached
  <2> QED BY <2>2, <2>3, <2>4
<1> QED BY <1>1, <1>2

\* A step that leaves status and service alone.
LEMMA MailKept ==
  ASSUME MailInv, UNCHANGED <<outbox, status, svc, untold, gwStatus>>,
         node' \in Entries, node'.flagged = node.flagged,
         session' \in {"none", "live", "dead"}, session' = "live" => session = "live",
         Reached' => Reached, retained' \in BOOLEAN
  PROVE  MailInv'
<1>1. MailTypes' /\ Connection' /\ News'
  BY DEF MailInv, MailTypes, Connection, News
<1>2. Heeded'
  BY DEF MailInv, Heeded
<1> QED BY <1>1, <1>2 DEF MailInv

LEMMA MailStutters == ASSUME MailInv, UNCHANGED mail PROVE MailInv'
<1>1. /\ UNCHANGED <<outbox, status, svc, untold, gwStatus>>
      /\ node' = node /\ session' = session /\ retained' = retained
      /\ wifi' = wifi
  BY DEF mail, entry, mqtt
<1> QED BY <1>1, MailKept DEF MailInv, MailTypes, Reached

\* A frame of the node takes the flag off and says so.
LEMMA FramesKeeps ==
  ASSUME MailInv, NEW n, n.known \in BOOLEAN, Frames(n, node.flagged),
         UNCHANGED <<gwStatus, session, retained, wifi>>
  PROVE  MailInv'
<1>1. node' \in Entries /\ node'.flagged = FALSE
  BY SiteAssumption DEF Frames, Entries
<1>2. CASE node.flagged
  <2>1. node_status_publish("online")
    BY <1>2 DEF Frames
  <2> QED BY <1>1, <2>1, PublishKeeps
<1>3. CASE ~node.flagged
  <2>1. UNCHANGED <<outbox, status, svc, untold>>
    BY <1>3 DEF Frames
  <2>2. node.flagged = FALSE
    BY <1>3 DEF MailInv, MailTypes, Entries
  <2> QED BY <1>1, <2>1, <2>2, MailKept DEF MailInv, MailTypes, Reached
<1> QED BY <1>2, <1>3

LEMMA HelloKeeps ==
  ASSUME MailInv, HelloHeard, UNCHANGED <<gwStatus, session, retained, wifi>>
  PROVE  MailInv'
<1> DEFINE n == [node EXCEPT !.known = TRUE]
<1>1. n.known \in BOOLEAN
  BY DEF MailInv, MailTypes, Entries
<1>2. Frames(n, node.flagged)
  BY DEF HelloHeard
<1> HIDE DEF n
<1> QED BY <1>1, <1>2, FramesKeeps

LEMMA HeardKeeps ==
  ASSUME MailInv, NEW ok \in BOOLEAN, Heard(ok),
         UNCHANGED <<gwStatus, session, retained, wifi>>
  PROVE  MailInv'
<1>1. CASE OnAir /\ ok /\ node.known
  <2>1. Frames(node, node.flagged) /\ node.known \in BOOLEAN
    BY <1>1 DEF Heard, MailInv, MailTypes, Entries
  <2> QED BY <2>1, FramesKeeps
<1>2. CASE ~(OnAir /\ ok /\ node.known)
  <2>1. UNCHANGED mail
    BY <1>2 DEF Heard, mail, entry, mqtt
  <2> QED BY <2>1, MailStutters
<1> QED BY <1>1, <1>2

-----------------------------------------------------------------------------
(* The node's end.                                                         *)

\* A queue that is offered an event has no more than fits.
LEMMA OfferedFits ==
  ASSUME NEW n \in 0 .. EvCap PROVE Offered(n) \in 0 .. EvCap
  BY LinkAssumption DEF Offered

\* However many exchanges have failed, the count of them stays in range.
LEMMA GiveUpKeeps ==
  ASSUME LinkTypes, NEW n \in Nat, NEW b \in BOOLEAN, NEW q \in 0 .. EvCap,
         GiveUp(n, b, q), UNCHANGED <<enabled, misses, pc, enabling>>
  PROVE  LinkTypes'
<1>1. LinkCounts'
  BY LinkAssumption, OfferedFits DEF GiveUp, LinkTypes, LinkCounts
<1>2. LinkFlags'
  BY Zenon DEF GiveUp, LinkTypes, LinkFlags
<1> QED BY <1>1, <1>2 DEF LinkTypes

LEMMA RetransmitKeeps ==
  ASSUME LinkTypes, NEW ok \in BOOLEAN, Retransmit(ok)
  PROVE  LinkTypes'
<1> DEFINE m == Counted(fails)
           n == IF m >= MaxFail \/ ok THEN m ELSE m + 1
<1>1. n \in Nat /\ events \in 0 .. EvCap /\ TRUE \in BOOLEAN
  BY LinkAssumption DEF LinkTypes, LinkCounts, Counted
<1>2. GiveUp(n, TRUE, events) /\ UNCHANGED <<enabled, misses, pc, enabling>>
  BY DEF Retransmit
<1> HIDE DEF n
<1> QED BY <1>1, <1>2, GiveUpKeeps

LEMMA ExchangeKeeps ==
  ASSUME LinkTypes, NEW beat \in BOOLEAN, NEW batch \in BOOLEAN,
         NEW ok \in BOOLEAN, Exchange(beat, batch, ok)
  PROVE  LinkTypes'
<1> DEFINE hb == IF ~beat THEN fails ELSE IF ok THEN 0 ELSE fails + 1
           ev == IF events > 0 /\ ~ok THEN hb + 1 ELSE hb
           n  == IF ~batch THEN ev ELSE IF ok THEN 0 ELSE ev + 1
           q  == IF events > 0 THEN events - 1 ELSE 0
<1>1. n \in Nat /\ q \in 0 .. EvCap
  BY LinkAssumption DEF LinkTypes, LinkCounts
<1>2. GiveUp(n, batch, q) /\ UNCHANGED <<enabled, misses, pc, enabling>>
  BY DEF Exchange
<1> HIDE DEF n, q
<1> QED BY <1>1, <1>2, GiveUpKeeps

LEMMA ScanKeeps ==
  ASSUME LinkTypes, ScanBegin \/ ScanHears \/ ScanBinds \/ ScanEnds
  PROVE  LinkTypes'
<1>1. LinkFlags'
  BY Zenon DEF ScanBegin, ScanHears, ScanBinds, ScanEnds, LinkTypes, LinkFlags
<1>2. CASE ScanBegin \/ ScanBinds \/ ScanHears
  <2>1. LinkCounts'
    BY <1>2, LinkAssumption, OfferedFits
    DEF ScanBegin, ScanBinds, ScanHears, LinkTypes, LinkCounts
  <2> QED BY <1>1, <2>1 DEF LinkTypes
<1>3. CASE ScanEnds
  <2>1. misses' \in 0 .. ScanWrap - 1 /\ rest' \in 0 .. 3
    <3>1. misses \in Nat /\ ScanWrap \in Nat \ {0}
      BY LinkAssumption DEF LinkTypes, LinkCounts
    <3>2. (misses + 1) % ScanWrap \in 0 .. ScanWrap - 1
      BY <3>1
    <3> QED BY <1>3, <3>2 DEF ScanEnds, Rest, LinkTypes, LinkCounts
  <2>2. LinkCounts'
    BY <1>3, <2>1 DEF ScanEnds, LinkTypes, LinkCounts
  <2> QED BY <1>1, <2>2 DEF LinkTypes
<1> QED BY <1>2, <1>3

LEMMA LinkKeeps ==
  ASSUME LinkTypes,
         OfferEvent \/ Acked \/ EnableBegins \/ EnableEnds \/ Disable \/ NodeReboot
  PROVE  LinkTypes'
<1> USE DEF OfferEvent, Acked, EnableBegins, EnableEnds, Disable, NodeReboot
<1>1. LinkFlags'
  BY Zenon DEF LinkTypes, LinkFlags
<1>2. LinkCounts'
  BY LinkAssumption, OfferedFits DEF LinkTypes, LinkCounts
<1> QED BY <1>1, <1>2 DEF LinkTypes

LEMMA LinkStutters == ASSUME LinkTypes, UNCHANGED lvars PROVE LinkTypes'
  BY DEF lvars, LinkTypes, LinkFlags, LinkCounts

-----------------------------------------------------------------------------
(* The gateway's end.                                                      *)

LEMMA UplinkKeeps ==
  ASSUME UplinkTypes,
         \/ WifiUp \/ WifiLost \/ Connected(retained) \/ Disconnected
         \/ HealthMsg \/ TimeMsg \/ Check \/ Checkpoint \/ UplinkReboot
         \/ UplinkAges
  PROVE  UplinkTypes'
<1> USE UplinkAssumption DEF UplinkTypes
<1>1. CASE ~Check
  <2> USE DEF WifiUp, WifiLost, Connected, AgeAtConnect, Disconnected, HealthMsg,
              TimeMsg, Checkpoint, UplinkReboot, UplinkAges
  <2>1. UplinkFlags'
    BY <1>1, Zenon DEF UplinkFlags
  <2>2. UplinkCounts'
    BY <1>1 DEF UplinkCounts
  <2> QED BY <2>1, <2>2
<1>2. CASE Check
  <2>1. UNCHANGED <<wifi, broker, age, timed, saved>>
    BY <1>2 DEF Check
  <2>2. healthy' \in 0 .. ActiveEntry - 1 /\ mode' \in {"wait", "active"}
    <3>1. healthy + 1 >= ActiveEntry \/ healthy + 1 < ActiveEntry
      BY DEF UplinkCounts
    <3>2. mode = "wait" \/ mode = "active"
      BY DEF UplinkFlags
    <3>3. "wait" # "active"
      OBVIOUS
    <3>4. \/ healthy' = 0 /\ (mode' = "wait" \/ mode' = "active")
          \/ healthy' = healthy + 1 /\ healthy + 1 < ActiveEntry /\ mode' = mode
          \/ healthy' = healthy /\ mode' = mode
      <4>1. CASE mode = "active" /\ Well
        BY <1>2, <3>3, <4>1, Zenon DEF Check
      <4>2. CASE mode = "active" /\ ~Well
        BY <1>2, <3>3, <4>2, Zenon DEF Check
      <4>3. CASE mode = "wait" /\ ~Well
        BY <1>2, <3>3, <4>3, Zenon DEF Check
      <4>4. CASE mode = "wait" /\ Well
        BY <1>2, <3>1, <3>3, <4>4, Zenon DEF Check
      <4> QED BY <3>2, <4>1, <4>2, <4>3, <4>4
    <3> QED BY <3>2, <3>4 DEF UplinkCounts
  <2>3. UplinkFlags'
    BY <2>1, <2>2, Zenon DEF UplinkFlags
  <2>4. UplinkCounts'
    BY <2>1, <2>2 DEF UplinkCounts
  <2> QED BY <2>3, <2>4
<1> QED BY <1>1, <1>2

LEMMA UplinkStutters ==
  ASSUME UplinkTypes, UNCHANGED uvars PROVE UplinkTypes'
  BY DEF uvars, UplinkTypes, UplinkFlags, UplinkCounts

-----------------------------------------------------------------------------
(* The steps of the site.                                                  *)

LEMMA BudgetKept ==
  ASSUME faults \in 0 .. MaxFaults,
         faults' = faults \/ \E f \in Faults : Fault(f)
  PROVE  faults' \in 0 .. MaxFaults
  BY SiteAssumption DEF Fault

LEMMA TurnKept ==
  ASSUME due \subseteq Parties, NEW p, Turn(p) PROVE due' \subseteq Parties
  BY DEF Turn

LEMMA SiteStarts == SiteInit => SiteInv
<1> SUFFICES ASSUME SiteInit PROVE SiteInv
  OBVIOUS
<1>1. LinkTypes
  <2>1. LinkFlags
    BY Zenon DEF SiteInit, LinkInit, LinkFlags
  <2>2. LinkCounts
    BY LinkAssumption DEF SiteInit, LinkInit, LinkCounts
  <2> QED BY <2>1, <2>2 DEF LinkTypes
<1>2. UplinkTypes
  <2>1. UplinkFlags
    BY Zenon DEF SiteInit, UplinkInit, UplinkFlags
  <2>2. UplinkCounts
    BY UplinkAssumption DEF SiteInit, UplinkInit, UplinkCounts
  <2> QED BY <2>1, <2>2 DEF UplinkTypes
<1>3. "none" \in Words /\ ServiceInit \in Services
      /\ Hears(ServiceInit, "none", "none")
  BY ServiceStarts DEF Words
<1>4. node \in Entries /\ node.flagged = FALSE
  BY SiteAssumption DEF SiteInit, Unknown, Entries
<1>5. MailTypes /\ Connection /\ News /\ Heeded
  BY <1>3, <1>4 DEF SiteInit, MailTypes, Connection, News, Heeded, Words
<1>6. due \subseteq Parties /\ faults \in 0 .. MaxFaults
  BY SiteAssumption DEF SiteInit
<1> QED BY <1>1, <1>2, <1>5, <1>6 DEF SiteInv, MailInv

\* Steps of the node that nobody hears.
LEMMA NodeQuiet ==
  ASSUME SiteInv,
         \/ Scan \/ Binds \/ Rests \/ Ack \/ Switch \/ Switched \/ PowerBlip
         \/ Offers
  PROVE  SiteInv'
<1>1. UplinkTypes'
  <2>1. UNCHANGED uvars
    BY DEF Scan, Binds, Rests, Ack, Switch, Switched, PowerBlip, Offers
  <2> QED BY <2>1, UplinkStutters DEF SiteInv
<1>2. MailInv'
  <2>1. UNCHANGED mail
    BY DEF Scan, Binds, Rests, Ack, Switch, Switched, PowerBlip, Offers, mail, uvars
  <2> QED BY <2>1, MailStutters DEF SiteInv
<1>3. LinkTypes'
  <2>1. CASE Scan \/ Binds
    BY <2>1, ScanKeeps DEF Scan, Binds, SiteInv
  <2>2. CASE Rests
    BY <2>2, LinkStutters DEF Rests, SiteInv
  <2>3. CASE Ack \/ Switch \/ Switched \/ PowerBlip \/ Offers
    BY <2>3, LinkKeeps DEF Ack, Switch, Switched, PowerBlip, Offers, SiteInv
  <2> QED BY <2>1, <2>2, <2>3
<1>4. due' \subseteq Parties
  <2>1. due' = due \/ Turn("node")
    BY DEF Scan, Binds, Rests, Ack, Switch, Switched, PowerBlip, Offers
  <2> QED BY <2>1, TurnKept DEF SiteInv
<1>5. faults' \in 0 .. MaxFaults
  <2>1. faults' = faults \/ Fault("switch") \/ Fault("nodereboot")
    BY DEF Scan, Binds, Rests, Ack, Switch, Switched, PowerBlip, Offers
  <2> QED BY <2>1, SiteAssumption DEF SiteInv, Fault
<1> QED BY <1>1, <1>2, <1>3, <1>4, <1>5 DEF SiteInv

\* Steps of the node that may be heard.
LEMMA NodeTalks ==
  ASSUME SiteInv,
         \/ Bind \/ Miss
         \/ \E ok \in BOOLEAN :
              Overdue(ok) \/ \E beat, batch \in BOOLEAN : Talk(beat, batch, ok)
  PROVE  SiteInv'
<1>1. UplinkTypes' /\ UNCHANGED <<gwStatus, session, retained, wifi>>
  <2>1. UNCHANGED <<uvars, gwStatus, session, retained>>
    BY DEF Bind, Miss, Overdue, Talk, Undisturbed
  <2> QED BY <2>1, UplinkStutters DEF SiteInv, uvars
<1>2. MailInv'
  <2>1. CASE HelloHeard
    BY <1>1, <2>1, HelloKeeps DEF SiteInv
  <2>2. CASE \E ok \in BOOLEAN : Heard(ok)
    BY <1>1, <2>2, HeardKeeps DEF SiteInv
  <2>3. CASE UNCHANGED <<entry, status, svc, untold>>
    <3>1. UNCHANGED mail
      BY <1>1, <2>3 DEF mail, mqtt
    <3> QED BY <3>1, MailStutters DEF SiteInv
  <2>4. HelloHeard \/ (\E ok \in BOOLEAN : Heard(ok)) \/ UNCHANGED <<entry, status, svc, untold>>
    BY DEF Bind, Miss, Overdue, Talk
  <2> QED BY <2>1, <2>2, <2>3, <2>4
<1>3. LinkTypes'
  <2>1. CASE Bind \/ Miss
    BY <2>1, ScanKeeps DEF Bind, Miss, SiteInv
  <2>2. CASE \E ok \in BOOLEAN : Overdue(ok)
    BY <2>2, RetransmitKeeps DEF Overdue, SiteInv
  <2>3. CASE \E ok, beat, batch \in BOOLEAN : Talk(beat, batch, ok)
    BY <2>3, ExchangeKeeps DEF Talk, SiteInv
  <2> QED BY <2>1, <2>2, <2>3
<1>4. due' \subseteq Parties
  <2>1. due' = due \/ Turn("node")
    BY DEF Bind, Miss, Overdue, Talk
  <2> QED BY <2>1, TurnKept DEF SiteInv
<1>5. faults' \in 0 .. MaxFaults
  <2>1. faults' = faults \/ Fault("radio")
    BY DEF Bind, Miss, Overdue, Talk, Luck
  <2> QED BY <2>1, SiteAssumption DEF SiteInv, Fault
<1> QED BY <1>1, <1>2, <1>3, <1>4, <1>5 DEF SiteInv

\* What only the gateway's uplink sees.
LEMMA GwQuiet ==
  ASSUME SiteInv, Checks \/ Saves \/ TellsTime
  PROVE  SiteInv'
<1>1. LinkTypes'
  BY LinkStutters DEF Checks, Saves, TellsTime, SiteInv
<1>2. UplinkTypes'
  BY UplinkKeeps DEF Checks, Saves, TellsTime, SiteInv
<1>3. MailInv'
  <2>1. UNCHANGED mail
    BY DEF Checks, Saves, TellsTime, mail, Check, Checkpoint, TimeMsg
  <2> QED BY <2>1, MailStutters DEF SiteInv
<1>4. due' \subseteq Parties
  <2>1. due' = due \/ Turn("gateway")
    BY DEF Checks, Saves, TellsTime
  <2> QED BY <2>1, TurnKept DEF SiteInv
<1>5. faults' = faults
  BY DEF Checks, Saves, TellsTime
<1> QED BY <1>1, <1>2, <1>3, <1>4, <1>5 DEF SiteInv

\* A node is flagged: the news of it is published or waits.
LEMMA FlagsKeeps == ASSUME SiteInv, Flags PROVE SiteInv'
<1>1. LinkTypes' /\ UplinkTypes'
  BY LinkStutters, UplinkStutters DEF Flags, SiteInv
<1>2. MailInv'
  <2>1. node' \in Entries /\ node'.flagged = TRUE
    BY DEF Flags, SiteInv, MailInv, MailTypes, Entries
  <2>2. node_status_publish("offline") /\ UNCHANGED <<gwStatus, session, retained, wifi>>
    BY DEF Flags, uvars
  <2> QED BY <2>1, <2>2, PublishKeeps DEF SiteInv
<1> QED BY <1>1, <1>2 DEF Flags, SiteInv

\* The connection is lost; the will is published.
LEMMA DropsKeeps == ASSUME SiteInv, Drops PROVE SiteInv'
<1>1. LinkTypes' /\ UplinkTypes'
  BY LinkStutters, UplinkKeeps DEF Drops, SiteInv
<1>2. MailInv'
  <2>1. UNCHANGED <<outbox, status, svc, untold, gwStatus>> /\ node' = node
        /\ retained' = retained
    BY DEF Drops, entry
  <2>2. /\ session' \in {"none", "live", "dead"}
        /\ session' = "live" => session = "live"
        /\ Reached' => Reached
    BY DEF Drops, SiteInv, MailInv, MailTypes, WifiLost, Disconnected, Reached
  <2> QED BY <2>1, <2>2, MailKept DEF SiteInv, MailInv, MailTypes
<1>3. due' = due
  BY DEF Drops
<1>4. faults' \in 0 .. MaxFaults
  <2>1. faults' = faults \/ Fault("wifi") \/ Fault("broker")
    BY DEF Drops
  <2> QED BY <2>1, SiteAssumption DEF SiteInv, Fault
<1> QED BY <1>1, <1>2, <1>3, <1>4 DEF SiteInv

\* A status w of the gateway is retained and heard, and with "online" it has a
\* session.
LEMMA GwStatusKeeps ==
  ASSUME MailInv, NEW w \in {"online", "offline"},
         gwStatus' = w, svc' = GwStatus(svc, w),
         session' \in {"none", "live", "dead"},
         session' = "live" => w = "online" /\ session = "live",
         UNCHANGED <<node, outbox, status, retained, untold, wifi>>
  PROVE  MailInv'
<1>1. svc' \in Services /\ Hears(svc', status, w)
  BY GwStatusHeard DEF MailInv, MailTypes, Heeded
<1>2. Heeded'
  BY <1>1 DEF Heeded
<1>3. w \in Words
  BY DEF Words
<1>4. MailTypes' /\ Connection' /\ News'
  BY <1>1, <1>3 DEF MailInv, MailTypes, Connection, News, Reached
<1> QED BY <1>2, <1>4 DEF MailInv

LEMMA WillKeeps == ASSUME SiteInv, Will \/ Reports PROVE SiteInv'
<1>1. LinkTypes' /\ UplinkTypes'
  BY LinkStutters, UplinkStutters DEF Will, Reports, SiteInv
<1>2. MailInv'
  <2>1. CASE Will
    BY <2>1, GwStatusKeeps DEF Will, SiteInv, entry, uvars
  <2>2. CASE Reports
    BY <2>2, GwStatusKeeps
    DEF Reports, SiteInv, entry, MailInv, MailTypes, uvars, Reached
  <2> QED BY <2>1, <2>2
<1> QED BY <1>1, <1>2 DEF Will, Reports, SiteInv

\* What waits is sent, to a service that is s by then and has heard what is
\* retained, by a gateway that has a session.
LEMMA FlushKeeps ==
  ASSUME MailInv, NEW s \in Services, Hears(s, status, gwStatus'), Flush(s),
         session' \in {"none", "live", "dead"}, gwStatus' = "online",
         UNCHANGED <<node, retained>>
  PROVE  MailInv'
<1>1. /\ svc' = NodeStatus(s, outbox) /\ outbox' = "none"
      /\ IF outbox = "none" THEN UNCHANGED <<status, untold>>
         ELSE status' = outbox /\ untold' = FALSE
  BY DEF Flush
<1>2. outbox \in Words /\ status \in Words /\ "online" \in Words /\ "none" \in Words
  BY DEF MailInv, MailTypes, Words
<1>3. /\ NodeStatus(s, outbox) \in Services
      /\ Hears(NodeStatus(s, outbox), IF outbox = "none" THEN status ELSE outbox, gwStatus')
  BY <1>2, NodeStatusHeard
<1>4. status' = IF outbox = "none" THEN status ELSE outbox
  BY <1>1
<1>5. Heeded'
  BY <1>1, <1>3, <1>4 DEF Heeded
<1>6. MailTypes' /\ Connection' /\ News'
  BY <1>1, <1>2, <1>3 DEF MailInv, MailTypes, Connection, News
<1> QED BY <1>5, <1>6 DEF MailInv

\* The gateway connects, and says so before what waits is sent; or the WiFi is
\* there again for a session that has outlived the gap.
LEMMA ReconnectsKeeps == ASSUME SiteInv, Reconnects PROVE SiteInv'
<1>1. LinkTypes' /\ UplinkTypes' /\ UNCHANGED <<due, faults>>
  BY LinkStutters, UplinkKeeps DEF Reconnects, SiteInv
<1>2. MailInv'
  <2>1. CASE /\ session = "live" /\ Flush(svc)
             /\ UNCHANGED <<node, gwStatus, session, retained>>
    <3>1. gwStatus = "online" /\ gwStatus' = gwStatus
      BY <2>1 DEF SiteInv, MailInv, Connection, mqtt
    <3>2. svc \in Services /\ Hears(svc, status, gwStatus')
      BY <3>1 DEF SiteInv, MailInv, MailTypes, Heeded
    <3> QED BY <2>1, <3>1, <3>2, FlushKeeps DEF SiteInv, MailInv, MailTypes
  <2>2. CASE /\ session # "live"
             /\ UNCHANGED <<outbox, status, svc, untold, node, gwStatus, session, retained>>
    <3>1. ~Reached'
      BY <2>2 DEF Reached
    <3> QED BY <2>2, <3>1, MailKept DEF SiteInv, MailInv, MailTypes
  <2>3. CASE /\ session' = "live" /\ gwStatus' = "online"
             /\ Flush(GwStatus(svc, "online")) /\ UNCHANGED <<node, retained>>
    <3> DEFINE s == GwStatus(svc, "online")
    <3>1. s \in Services /\ Hears(s, status, gwStatus')
      BY <2>3, GwStatusHeard DEF SiteInv, MailInv, MailTypes, Heeded
    <3> HIDE DEF s
    <3>2. Flush(s)
      BY <2>3 DEF s
    <3> QED BY <2>3, <3>1, <3>2, FlushKeeps DEF SiteInv
  <2> QED BY <2>1, <2>2, <2>3 DEF Reconnects, mqtt
<1> QED BY <1>1, <1>2 DEF SiteInv

\* The client gives up what it could not send: from then on nothing is said of
\* the node.
LEMMA ExpiresKeeps == ASSUME SiteInv, Expires PROVE SiteInv'
<1>1. LinkTypes' /\ UplinkTypes'
  BY LinkStutters, UplinkStutters DEF Expires, SiteInv
<1>2. MailInv'
  <2>1. /\ outbox' = "none" /\ untold' = TRUE /\ "none" \in Words
        /\ UNCHANGED <<node, status, gwStatus, session, retained, svc>>
    BY DEF Expires, Words
  <2>2. Heeded'
    BY <2>1 DEF SiteInv, MailInv, Heeded
  <2>3. MailTypes' /\ Connection' /\ News'
    BY <2>1 DEF SiteInv, MailInv, MailTypes, Connection, News
  <2> QED BY <2>2, <2>3 DEF MailInv
<1> QED BY <1>1, <1>2 DEF Expires, SiteInv

\* The gateway forgets whom it has flagged; nothing waits any more.
LEMMA GwRebootKeeps == ASSUME SiteInv, GwReboot PROVE SiteInv'
<1>1. LinkTypes' /\ UplinkTypes'
  BY LinkStutters, UplinkKeeps DEF GwReboot, SiteInv
<1>2. MailInv'
  <2>1. node' \in Entries /\ "none" \in Words
    BY SiteAssumption DEF GwReboot, Unknown, Entries, Words
  <2>2. Heeded'
    BY DEF GwReboot, SiteInv, MailInv, Heeded
  <2>3. session' \in {"none", "dead"}
    BY DEF GwReboot, SiteInv, MailInv, MailTypes
  <2>4. MailTypes' /\ Connection' /\ News'
    BY <2>1, <2>3 DEF GwReboot, SiteInv, MailInv, MailTypes, Connection, News, Reached
  <2> QED BY <2>2, <2>4 DEF MailInv
<1>3. due' = due /\ faults' \in 0 .. MaxFaults
  BY SiteAssumption DEF GwReboot, Fault, SiteInv
<1> QED BY <1>1, <1>2, <1>3 DEF SiteInv

\* The service dies and starts.
LEMMA ServiceKeeps == ASSUME SiteInv, Dies \/ Starts PROVE SiteInv'
<1>1. LinkTypes' /\ UplinkTypes'
  BY LinkStutters, UplinkStutters DEF Dies, Starts, SiteInv
<1>2. MailInv'
  <2>1. status \in Words /\ gwStatus \in Words
    BY DEF SiteInv, MailInv, MailTypes
  <2>2. svc' \in Services /\ Hears(svc', status, gwStatus)
    BY <2>1, ServiceStarts DEF Dies, Starts
  <2>3. UNCHANGED <<node, outbox, status, gwStatus, session, retained, untold, wifi>>
    BY DEF Dies, Starts, entry, mqtt, uvars
  <2>4. Heeded'
    BY <2>2, <2>3 DEF Heeded
  <2>5. MailTypes' /\ Connection' /\ News'
    BY <2>2, <2>3 DEF SiteInv, MailInv, MailTypes, Connection, News, Reached
  <2> QED BY <2>4, <2>5 DEF MailInv
<1>3. due' = due /\ faults' \in 0 .. MaxFaults
  BY SiteAssumption DEF Dies, Starts, Fault, SiteInv
<1> QED BY <1>1, <1>2, <1>3 DEF SiteInv

LEMMA TickKeeps == ASSUME SiteInv, Tick PROVE SiteInv'
<1>1. LinkTypes'
  <2>1. LinkFlags'
    BY DEF Tick, SiteInv, LinkTypes, LinkFlags
  <2>2. LinkCounts'
    BY DEF Tick, SiteInv, LinkTypes, LinkCounts
  <2> QED BY <2>1, <2>2 DEF LinkTypes
<1>2. UplinkTypes'
  BY UplinkKeeps DEF Tick, Publishes, SiteInv
<1>3. MailInv'
  <2>1. node' \in Entries /\ node'.flagged = node.flagged
    <3> DEFINE n == IF node.known /\ node.seen <= Silent
                    THEN node.seen + 1 ELSE node.seen
    <3>1. n \in 0 .. Silent + 1
      BY SiteAssumption DEF SiteInv, MailInv, MailTypes, Entries
    <3>2. node' = [node EXCEPT !.seen = n]
      BY DEF Tick
    <3> HIDE DEF n
    <3> QED BY <3>1, <3>2 DEF SiteInv, MailInv, MailTypes, Entries
  <2>2. UNCHANGED <<outbox, status, svc, untold, gwStatus, session>> /\ Reached' = Reached
    BY DEF Tick, Publishes, HealthMsg, UplinkAges, Reached
  <2>3. retained' \in BOOLEAN
    BY DEF Tick, Publishes, SiteInv, MailInv, MailTypes
  <2> QED BY <2>1, <2>2, <2>3, MailKept DEF SiteInv, MailInv, MailTypes
<1> QED BY <1>1, <1>2, <1>3 DEF Tick, SiteInv

LEMMA SiteStutters == ASSUME SiteInv, UNCHANGED svars PROVE SiteInv'
<1>1. UNCHANGED <<lvars, uvars, mail, due, faults>>
  BY DEF svars, mail, uvars
<1> QED BY <1>1, LinkStutters, UplinkStutters, MailStutters DEF SiteInv

\* Every step keeps the invariant.
LEMMA SiteStays == SiteInv /\ [SiteNext]_svars => SiteInv'
<1> SUFFICES ASSUME SiteInv, [SiteNext]_svars PROVE SiteInv'
  OBVIOUS
<1>1. CASE NodeStep
  BY <1>1, NodeQuiet, NodeTalks DEF NodeStep
<1>2. CASE GwStep
  BY <1>2, GwQuiet, FlagsKeeps, ReconnectsKeeps, WillKeeps DEF GwStep
<1>3. CASE Environment
  BY <1>3, DropsKeeps, WillKeeps, ExpiresKeeps, NodeQuiet, GwRebootKeeps, ServiceKeeps
  DEF Environment
<1>4. CASE TellsTime \/ Starts \/ Tick
  BY <1>4, GwQuiet, ServiceKeeps, TickKeeps
<1>5. CASE UNCHANGED svars
  BY <1>5, SiteStutters
<1> QED BY <1>1, <1>2, <1>3, <1>4, <1>5 DEF SiteNext

LEMMA SiteHolds == SiteSpec => []SiteInv
  BY SiteStarts, SiteStays, PTL DEF SiteSpec

\* Every variable of the site keeps its type, for all limits: no count of
\* failed exchanges, queue of events or age leaves its range.
THEOREM TypeCorrect == SiteSpec => []TypeOK
<1>1. SiteInv => TypeOK
  <2> SUFFICES ASSUME SiteInv PROVE TypeOK
    OBVIOUS
  <2>1. LinkTypeOK
    BY DEF SiteInv, LinkTypes, LinkFlags, LinkCounts, LinkTypeOK
  <2>2. UplinkTypeOK
    BY DEF SiteInv, UplinkTypes, UplinkFlags, UplinkCounts, UplinkTypeOK
  <2> QED
    BY <2>1, <2>2 DEF SiteInv, MailInv, MailTypes, Entries, Words, TypeOK
<1> QED BY <1>1, SiteHolds, PTL

\* Whatever is lost, cut off or restarted, and however often: what the service
\* has been told last of the node is what the gateway holds, but for news that
\* waits in the client or got lost there; and it takes no gateway that reaches
\* the broker for gone.
THEOREM AlarmsTrue == SiteSpec => []AlarmsAgree
<1>1. SiteInv => AlarmsAgree
  <2> SUFFICES ASSUME SiteInv, svc.up
               PROVE  /\ outbox = "none" /\ ~untold => (svc.node = "gone" <=> node.flagged)
                      /\ Reached => svc.gateway # "gone" /\ ~svc.gw_down
    BY DEF AlarmsAgree
  <2>1. Hears(svc, status, gwStatus) /\ News /\ Connection
    BY DEF SiteInv, MailInv, Heeded
  <2> QED BY <2>1 DEF Hears, News, Connection, Reached
<1> QED BY <1>1, SiteHolds, PTL

=============================================================================
