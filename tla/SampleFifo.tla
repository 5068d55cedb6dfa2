------------------------------ MODULE SampleFifo ------------------------------
(***************************************************************************)
(* What the audio ring buffer promises: a first-in first-out queue of at   *)
(* most Capacity samples that takes what fits and gives what it has.       *)
(***************************************************************************)
EXTENDS Naturals, Sequences

CONSTANTS Samples,      \* sample values
          Capacity,     \* the most it holds
          LargestCall   \* the most samples one call asks for

VARIABLES content,   \* the samples in the queue, oldest first
          got        \* what the last Read returned

Smaller(a, b) == IF a <= b THEN a ELSE b

Init == content = <<>> /\ got = <<>>

\* The part of `samples` that fits is appended, the rest is refused.
Write(samples) ==
  /\ content' = content \o SubSeq(samples, 1, Smaller(Len(samples), Capacity - Len(content)))
  /\ UNCHANGED got

\* Up to `count` of the oldest samples are returned and removed.
Read(count) ==
  LET n == Smaller(count, Len(content))
  IN  /\ got' = SubSeq(content, 1, n)
      /\ content' = SubSeq(content, n + 1, Len(content))

Clear == content' = <<>> /\ UNCHANGED got

Next ==
  \/ \E n \in 1 .. LargestCall : \E samples \in [1 .. n -> Samples] : Write(samples)
  \/ \E count \in 1 .. LargestCall : Read(count)
  \/ Clear

Spec == Init /\ [][Next]_<<content, got>>
=============================================================================
