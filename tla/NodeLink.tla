------------------------------ MODULE NodeLink ------------------------------
(***************************************************************************)
(* The node's end of the radio link (node-bbu/main/comms.c): scanning for  *)
(* the gateway with a rest that grows, binding, the exchanges of a bound   *)
(* node and giving up after MaxFail failed ones, the event queue, and      *)
(* comms_enable, which menu and console call while comms_task runs.        *)
(*                                                                         *)
(* comms_task and the callers of comms_enable have one priority and share  *)
(* the core: a scan and an enable are taken apart where one can interrupt  *)
(* the other.  What becomes of a frame on the air is a parameter: Site     *)
(* decides it.  Samples, batches and acknowledgements are in Delivery;     *)
(* here a batch is out or not.                                             *)
(***************************************************************************)
EXTENDS Naturals

CONSTANTS
  MaxFail,     \* MAX_CONSEC_FAIL
  Near, Far,   \* failed scans after which the rest is longer, and longest
  ScanWrap,    \* the counter of failed scans is a byte; here smaller
  EvCap        \* EVENT_QUEUE_LEN

ASSUME LinkAssumption ==
  /\ MaxFail \in Nat \ {0} /\ EvCap \in Nat
  /\ {Near, Far, ScanWrap} \subseteq Nat /\ Near < Far /\ Far < ScanWrap

VARIABLES
  enabled,   \* s_enabled
  link,      \* s_state: "scanning" or "online"
  bound,     \* s_bound
  fails,     \* s_consec_fail, up to MaxFail
  out,       \* s_batch_out
  misses,    \* s_scan_fails
  rest,      \* until s_next_scan_ms
  events,    \* s_ev_cnt
  pc,        \* comms_task: in its loop, in a dwell of a scan, binding
  enabling   \* a caller is in the middle of comms_enable(true)

lvars == <<enabled, link, bound, fails, out, misses, rest, events, pc, enabling>>

LinkInit ==
  /\ enabled \in BOOLEAN /\ link = "scanning" /\ bound = FALSE
  /\ fails = 0 /\ out = FALSE /\ misses = 0 /\ rest = 0 /\ events = 0
  /\ pc = "loop" /\ enabling = FALSE

LinkTypeOK ==
  /\ {enabled, bound, out, enabling} \subseteq BOOLEAN
  /\ link \in {"scanning", "online"} /\ pc \in {"loop", "dwell", "bind"}
  /\ fails \in 0 .. MaxFail /\ misses \in 0 .. ScanWrap - 1
  /\ rest \in 0 .. 3 /\ events \in 0 .. EvCap

-----------------------------------------------------------------------------
\* Mutant: the queue is not looked at.
OfferedAnyway(n) == n + 1

\* comms_offer_event: a full queue drops the new one.
Offered(n) == IF n < EvCap THEN n + 1 ELSE n

\* Any other task has something to tell.
OfferEvent ==
  /\ events' = Offered(events) /\ events' # events
  /\ UNCHANGED <<enabled, link, bound, fails, out, misses, rest, pc, enabling>>

\* comms_task starts a scan when the rest is over.
ScanBegin ==
  /\ pc = "loop" /\ enabled /\ link = "scanning" /\ rest = 0
  /\ pc' = "dwell"
  /\ UNCHANGED <<enabled, link, bound, fails, out, misses, rest, events, enabling>>

\* A HELLO_ACK with wall time, heard on the channel of the dwell.
ScanHears ==
  /\ pc = "dwell" /\ pc' = "bind"
  /\ events' = Offered(events)
  /\ bound' = TRUE
  /\ UNCHANGED <<enabled, link, fails, out, misses, rest, enabling>>

\* The rest of the binding.
ScanBinds ==
  /\ pc = "bind" /\ pc' = "loop"
  /\ link' = "online" /\ fails' = 0 /\ misses' = 0 /\ out' = FALSE
  /\ UNCHANGED <<enabled, bound, rest, events, enabling>>

Rest(n) == IF n >= Far THEN 3 ELSE IF n >= Near THEN 2 ELSE 1

\* All channels tried, or the budget used up: a node that was bound while it
\* scanned does not rest.
ScanEnds ==
  /\ pc = "dwell" /\ pc' = "loop"
  /\ IF bound THEN UNCHANGED <<misses, rest>>
     ELSE misses' = (misses + 1) % ScanWrap /\ rest' = Rest(misses')
  /\ UNCHANGED <<enabled, link, bound, fails, out, events, enabling>>

\* go_unreachable, and what the link stays like otherwise: n failed
\* exchanges, b a batch out, q events queued.
GiveUp(n, b, q) ==
  IF n >= MaxFail
  THEN /\ link' = "scanning" /\ bound' = FALSE /\ out' = FALSE /\ rest' = 0
       /\ events' = Offered(q) /\ fails' = MaxFail
  ELSE /\ fails' = n /\ out' = b /\ events' = q
       /\ UNCHANGED <<link, bound, rest>>

OnlineStep == pc = "loop" /\ enabled /\ link = "online"

\* Mutant: a time-out of the acknowledgement is no failed exchange.
NotCounted(n) == n

\* An acknowledgement that did not come is a failed exchange.
Counted(n) == n + 1

\* online_step with a batch out whose acknowledgement is overdue: sent again,
\* unless it was once too often.
Retransmit(ok) ==
  /\ OnlineStep /\ out
  /\ LET n == Counted(fails) IN
       GiveUp(IF n >= MaxFail \/ ok THEN n ELSE n + 1, TRUE, events)
  /\ UNCHANGED <<enabled, misses, pc, enabling>>

\* online_step without: a heartbeat if it is time, an event if one is queued,
\* a batch if there are samples; then the count is looked at.
Exchange(beat, batch, ok) ==
  /\ OnlineStep /\ ~out
  /\ beat \/ batch \/ events > 0
  /\ LET hb == IF ~beat THEN fails ELSE IF ok THEN 0 ELSE fails + 1
         ev == IF events > 0 /\ ~ok THEN hb + 1 ELSE hb
         n  == IF ~batch THEN ev ELSE IF ok THEN 0 ELSE ev + 1
     IN  GiveUp(n, batch, IF events > 0 THEN events - 1 ELSE 0)
  /\ UNCHANGED <<enabled, misses, pc, enabling>>

\* handle_rx, BATCH_ACK.
Acked ==
  /\ OnlineStep /\ out
  /\ out' = FALSE /\ fails' = 0
  /\ UNCHANGED <<enabled, link, bound, misses, rest, events, pc, enabling>>

\* comms_enable(true) sets the state first and the rest after that.
EnableBegins ==
  /\ ~enabled /\ ~enabling
  /\ enabled' = TRUE /\ link' = "scanning" /\ enabling' = TRUE
  /\ UNCHANGED <<bound, fails, out, misses, rest, events, pc>>

EnableEnds ==
  /\ enabling /\ enabling' = FALSE
  /\ bound' = FALSE /\ out' = FALSE /\ rest' = 0
  /\ UNCHANGED <<enabled, link, fails, misses, events, pc>>

\* comms_enable(false): a scan under way goes on to its end.
Disable ==
  /\ enabled /\ ~enabling
  /\ enabled' = FALSE
  /\ UNCHANGED <<link, bound, fails, out, misses, rest, events, pc, enabling>>

\* Power is cut; whether comms is enabled is in NVS.
NodeReboot ==
  /\ link' = "scanning" /\ bound' = FALSE /\ fails' = 0 /\ out' = FALSE
  /\ misses' = 0 /\ rest' = 0 /\ events' = 0 /\ pc' = "loop"
  /\ enabling' = FALSE
  /\ UNCHANGED enabled

=============================================================================
