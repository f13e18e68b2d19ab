------------------------------- MODULE Uplink -------------------------------
(***************************************************************************)
(* The gateway's end of the backend (gateway/main/net.c): WiFi, the broker *)
(* connection, the age of the last health message, wall time, and the      *)
(* state machine that switches ESP-NOW on when all of them are well        *)
(* ActiveEntry times in a row, and off at the first time they are not.     *)
(*                                                                         *)
(* Ages are in ticks of Site; HealthStale ticks and "never" are one value, *)
(* the code compares with nothing else.                                    *)
(***************************************************************************)
EXTENDS Naturals

CONSTANTS
  HealthStale,   \* HEALTH_STALE_MS, in ticks
  ActiveEntry    \* ACTIVE_ENTRY_N

ASSUME UplinkAssumption ==
  HealthStale \in Nat \ {0} /\ ActiveEntry \in Nat \ {0}

VARIABLES
  wifi,      \* s_wifi_up
  broker,    \* s_broker_up
  age,       \* gw_health_age_ms
  timed,     \* s_time_valid
  saved,     \* an epoch is in NVS
  healthy,   \* healthy_cnt
  mode       \* gw_mode: "wait" or "active"; ESP-NOW is on when active

uvars == <<wifi, broker, age, timed, saved, healthy, mode>>

UplinkInit ==
  /\ wifi = FALSE /\ broker = FALSE /\ age = HealthStale
  /\ saved \in BOOLEAN /\ timed = saved
  /\ healthy = 0 /\ mode = "wait"

UplinkTypeOK ==
  /\ {wifi, broker, timed, saved} \subseteq BOOLEAN
  /\ age \in 0 .. HealthStale /\ healthy \in 0 .. ActiveEntry - 1
  /\ mode \in {"wait", "active"}

-----------------------------------------------------------------------------
\* wifi_event_handler.  The broker's session ends some time after the WiFi.
WifiUp ==
  /\ ~wifi /\ wifi' = TRUE
  /\ UNCHANGED <<broker, age, timed, saved, healthy, mode>>

WifiLost ==
  /\ wifi /\ wifi' = FALSE
  /\ UNCHANGED <<broker, age, timed, saved, healthy, mode>>

\* MQTT_EVENT_CONNECTED forgets the health message; a retained one comes with
\* the subscription and counts as new.
AgeAtConnect(retained) == age' = IF retained THEN 0 ELSE HealthStale

\* The client reconnects no sooner than seconds later, when state_task has
\* seen the connection gone (external).
Connected(retained) ==
  /\ wifi /\ ~broker /\ mode = "wait"
  /\ broker' = TRUE /\ AgeAtConnect(retained)
  /\ UNCHANGED <<wifi, timed, saved, healthy, mode>>

Disconnected ==
  /\ broker /\ broker' = FALSE
  /\ UNCHANGED <<wifi, age, timed, saved, healthy, mode>>

\* MQTT_EVENT_DATA, health: whatever the message says, it is the time of the
\* last one.  Time: set from it, for good.
HealthMsg ==
  /\ broker /\ wifi /\ age' = 0
  /\ UNCHANGED <<wifi, broker, timed, saved, healthy, mode>>

TimeMsg ==
  /\ broker /\ wifi /\ ~timed /\ timed' = TRUE
  /\ UNCHANGED <<wifi, broker, age, saved, healthy, mode>>

\* Mutant: the state machine does not look at the backend again.
WellOnEntry == wifi /\ broker /\ timed /\ (mode = "active" \/ age < HealthStale)

\* What state_task looks at.
Well == wifi /\ broker /\ timed /\ age < HealthStale

\* A round of state_task.
Check ==
  /\ CASE mode = "wait" /\ Well /\ healthy + 1 >= ActiveEntry ->
            healthy' = 0 /\ mode' = "active"
       [] mode = "wait" /\ Well /\ healthy + 1 < ActiveEntry ->
            healthy' = healthy + 1 /\ mode' = mode
       [] mode = "wait" /\ ~Well   -> healthy' = 0 /\ mode' = mode
       [] mode = "active" /\ Well  -> UNCHANGED <<healthy, mode>>
       [] mode = "active" /\ ~Well -> healthy' = 0 /\ mode' = "wait"
  /\ UNCHANGED <<wifi, broker, age, timed, saved>>

\* checkpoint_time, now and then.
Checkpoint ==
  /\ timed /\ ~saved /\ saved' = TRUE
  /\ UNCHANGED <<wifi, broker, age, timed, healthy, mode>>

\* The gateway starts again: restore_time takes the saved epoch.
UplinkReboot ==
  /\ wifi' = FALSE /\ broker' = FALSE /\ age' = HealthStale
  /\ timed' = saved /\ healthy' = 0 /\ mode' = "wait"
  /\ UNCHANGED saved

\* Time goes by.
UplinkAges ==
  /\ age' = IF age < HealthStale THEN age + 1 ELSE age
  /\ UNCHANGED <<wifi, broker, timed, saved, healthy, mode>>

=============================================================================
