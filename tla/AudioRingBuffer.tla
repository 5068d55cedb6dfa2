---------------------------- MODULE AudioRingBuffer ----------------------------
(***************************************************************************)
(* backend/src/audio_ring_buffer.cpp: the ring of PCM samples between the  *)
(* thread that demodulates and the thread that cuts audio frames.  Every   *)
(* operation holds the mutex from end to end, so every operation is one    *)
(* step; the per-sample loops are modelled by what they leave behind.      *)
(***************************************************************************)
EXTENDS Integers, Sequences

CONSTANTS Samples,        \* sample values
          Silence,        \* what the vector is initialised with
          Capacity,       \* capacity_
          LargestCall,    \* the most samples one call writes or reads
          WriteBound,     \* bound on the samples written
          UnderrunBound   \* bound on the short reads

ASSUME RingAssumption ==
  /\ Silence \in Samples
  /\ Capacity \in Nat \ {0}
  /\ LargestCall \in Nat
  /\ WriteBound \in Nat
  /\ UnderrunBound \in Nat

VARIABLES
  buffer,            \* buffer_, indexed from 0
  write_pos, read_pos, fill_count,
  total_written, total_read, peak_fill_level, underrun_events,
  cleared,           \* history: samples dropped by Clear
  got                \* history: what the last Read returned

ring  == <<buffer, write_pos, read_pos, fill_count>>
stats == <<total_written, total_read, peak_fill_level, underrun_events>>
vars  == <<ring, stats, cleared, got>>

Slots == 0 .. (Capacity - 1)

TypeOK ==
  /\ buffer \in [Slots -> Samples]
  /\ write_pos \in Slots
  /\ read_pos \in Slots
  /\ fill_count \in 0 .. Capacity
  /\ total_written \in Nat
  /\ total_read \in Nat
  /\ peak_fill_level \in 0 .. Capacity
  /\ underrun_events \in Nat
  /\ cleared \in Nat
  /\ got \in Seq(Samples)

Init ==
  /\ buffer = [i \in Slots |-> Silence]
  /\ write_pos = 0 /\ read_pos = 0 /\ fill_count = 0
  /\ total_written = 0 /\ total_read = 0
  /\ peak_fill_level = 0 /\ underrun_events = 0
  /\ cleared = 0
  /\ got = <<>>

-----------------------------------------------------------------------------
Smaller(a, b) == IF a <= b THEN a ELSE b
Larger(a, b) == IF a <= b THEN b ELSE a

\* The slot n after pos: n increments modulo the capacity.
Advance(pos, n) == IF pos + n >= Capacity THEN pos + n - Capacity ELSE pos + n

\* How far slot i is ahead of pos.
Ahead(i, pos) == IF i >= pos THEN i - pos ELSE i - pos + Capacity

\* Mutant: a full buffer is overwritten.
MutantOverwrite(count) == Smaller(count, Capacity)

\* How many of `count` samples the write loop stores before the buffer is full.
Room(count) == Smaller(count, Capacity - fill_count)

\* The peak level after n samples went in.
Peak(n) == Larger(peak_fill_level, fill_count + n)

\* What fits is stored; the caller is told how much that was.
Write(samples) ==
  LET n == Room(Len(samples))
  IN  /\ samples # <<>>
      /\ total_written + Len(samples) <= WriteBound
      /\ buffer' = [i \in Slots |->
                      IF Ahead(i, write_pos) < n THEN samples[Ahead(i, write_pos) + 1]
                                                 ELSE buffer[i]]
      /\ write_pos' = Advance(write_pos, n)
      /\ fill_count' = fill_count + n
      /\ total_written' = total_written + n
      /\ peak_fill_level' = Peak(n)
      /\ UNCHANGED <<read_pos, total_read, underrun_events, cleared, got>>

\* The sample k-th in line.
Queued(k) == buffer[Advance(read_pos, k - 1)]

\* What is there is returned, up to count; asking for more is an underrun.
Read(count) ==
  LET n == Smaller(count, fill_count)
  IN  /\ count > 0
      /\ fill_count < count => underrun_events < UnderrunBound
      /\ underrun_events' = underrun_events + (IF fill_count < count THEN 1 ELSE 0)
      /\ got' = [k \in 1 .. n |-> Queued(k)]
      /\ read_pos' = Advance(read_pos, n)
      /\ total_read' = total_read + n
      /\ fill_count' = fill_count - n
      /\ UNCHANGED <<buffer, write_pos, total_written, peak_fill_level, cleared>>

\* The positions go back to 0; the statistics stay.
Clear ==
  /\ write_pos' = 0 /\ read_pos' = 0 /\ fill_count' = 0
  /\ cleared' = cleared + fill_count
  /\ UNCHANGED <<buffer, stats, got>>

Next ==
  \/ \E n \in 1 .. LargestCall : \E samples \in [1 .. n -> Samples] : Write(samples)
  \/ \E count \in 1 .. LargestCall : Read(count)
  \/ Clear

Spec == Init /\ [][Next]_vars

-----------------------------------------------------------------------------
\* The write position is fill_count slots ahead of the read position: the
\* three counters cannot drift apart over wraps and Clears.
PositionsOK == write_pos = Advance(read_pos, fill_count)

\* Every sample accepted is read, cleared or still queued, exactly once, and
\* the peak that GetStats reports is at least what is queued now.
Conservation ==
  /\ total_written = total_read + cleared + fill_count
  /\ fill_count <= peak_fill_level

Fifo == INSTANCE SampleFifo WITH content <- [k \in 1 .. fill_count |-> Queued(k)]

\* The ring behaves as a bounded first-in first-out queue.
ImplementsFifo == Fifo!Spec
=============================================================================
