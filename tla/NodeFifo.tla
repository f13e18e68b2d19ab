----------------------------- MODULE NodeFifo ------------------------------
(***************************************************************************)
(* The sample ring of the node (node-bbu/main/comms.c) and the stamps the  *)
(* gateway computes for a frame cut from it, as operators.  A ring is the  *)
(* sequence of the capture times it holds, oldest first: the readings that *)
(* go with a capture time are not modelled.                                *)
(***************************************************************************)
EXTENDS Integers, Sequences, SequencesExt

CONSTANTS
  RingCap,      \* s_ring_cap
  FrameSamples  \* BBU_FRAME_SAMPLES

ASSUME RingAssumption == RingCap \in Nat \ {0} /\ FrameSamples \in Nat \ {0}

\* The oldest half loses its entries 0, 2, 4, ... (counted from 0): of that
\* half every second entry is kept, and the rest moves up behind them.
fifo_decimate(ring) ==
  LET half == Len(ring) \div 2
      kept == half \div 2
  IN  [i \in 1 .. Len(ring) - half + kept |->
         IF i <= kept THEN ring[2 * i] ELSE ring[i + half - kept]]

\* A full ring is decimated first; if that freed nothing the oldest entry goes.
fifo_push(ring, cap) ==
  LET thin == IF Len(ring) >= RingCap THEN fifo_decimate(ring) ELSE ring
      room == IF Len(thin) >= RingCap THEN Tail(thin) ELSE thin
  IN  Append(room, cap)

\* Mutant: everything goes up to and including the first entry above w.
fifo_trim_one_more(ring, w) ==
  LET above == {i \in DOMAIN ring : ring[i] > w}
  IN  IF above = {} THEN <<>> ELSE SubSeq(ring, Min(above) + 1, Len(ring))

\* Entries are taken off the head up to the first one above w.
fifo_trim(ring, w) ==
  LET above == {i \in DOMAIN ring : ring[i] > w}
  IN  IF above = {} THEN <<>> ELSE SubSeq(ring, Min(above), Len(ring))

\* The entries send_batch copies into a frame.
Frame(ring) == SubSeq(ring, 1, IF Len(ring) < FrameSamples THEN Len(ring)
                               ELSE FrameSamples)

\* publish_telemetry: capture times interpolated over the declared span.
Stamp(caps, i) ==
  LET n == Len(caps)
  IN  IF n = 1 THEN caps[n]
      ELSE caps[1] + ((caps[n] - caps[1]) * (i - 1)) \div (n - 1)

=============================================================================
