------------------------------ MODULE Custody -------------------------------
(***************************************************************************)
(* What DESIGN_NOTE_003 and 004 promise about a telemetry sample: from its *)
(* capture on, the sample is in the custody of the node until it is        *)
(* durable.  The node lets go of a sample it has not been told is durable  *)
(* only by thinning a full ring or by losing power.                        *)
(***************************************************************************)

EXTENDS Naturals

CONSTANT Samples  \* everything that may ever be captured

VARIABLES
  held,     \* samples in the ring of the node
  durable,  \* samples the backend answers for
  full,     \* the ring is at its limit
  session   \* grows each time power comes back

vars == <<held, durable, full, session>>

Init == held = {} /\ durable = {} /\ full \in BOOLEAN /\ session \in Nat

\* A new sample; a full ring may be thinned for it.
Capture ==
  \E s \in Samples \ (held \cup durable), gone \in SUBSET held :
    /\ gone # {} => full
    /\ held' = (held \ gone) \cup {s}
    /\ full' \in BOOLEAN
    /\ UNCHANGED <<durable, session>>

\* The backend writes samples; held or not, a sample never leaves the log.
Record ==
  \E some \in SUBSET Samples :
    durable' = durable \cup some /\ UNCHANGED <<held, full, session>>

\* On an acknowledgement the node lets go of durable samples only.
Release ==
  /\ held' \subseteq held
  /\ held \ held' \subseteq durable
  /\ full' \in BOOLEAN
  /\ UNCHANGED <<durable, session>>

PowerLoss ==
  /\ session' = session + 1
  /\ held' = {} /\ full' \in BOOLEAN
  /\ UNCHANGED durable

Next == Capture \/ Record \/ Release \/ PowerLoss

Spec == Init /\ [][Next]_vars

=============================================================================
