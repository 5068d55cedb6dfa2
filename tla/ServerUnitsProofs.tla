------------------------- MODULE ServerUnitsProofs --------------------------
(***************************************************************************)
(* Proofs about the parts of the server that share no state with another:  *)
(* the ring buffer of the audio, the event log and the verdict on the      *)
(* signal, for every capacity, number of files, window and block.          *)
(***************************************************************************)
EXTENDS AudioRingBuffer, EventLog, SignalHealth, SequenceTheorems, TLAPS

-----------------------------------------------------------------------------
(* The ring buffer                                                         *)
(*                                                                         *)
(* The positions and the count say where the queued samples lie; with them *)
(* the buffer implements a fifo that drops the oldest samples.             *)

RingInv == TypeOK /\ PositionsOK /\ Conservation

(* Advancing keeps a position inside the buffer, and advances add up.      *)
LEMMA AdvanceSlots ==
  ASSUME NEW pos \in Slots, NEW n \in 0 .. Capacity
  PROVE  Advance(pos, n) \in Slots
BY RingAssumption DEF Advance, Slots

LEMMA AdvanceSum ==
  ASSUME NEW pos \in Slots, NEW a \in Nat, NEW b \in Nat, a + b <= Capacity
  PROVE  Advance(Advance(pos, a), b) = Advance(pos, a + b)
BY RingAssumption DEF Advance, Slots

(* The slot k-1 after the read position, seen from the write position: a   *)
(* queued sample lies out of reach of the next writes, a free slot in reach. *)
LEMMA AheadOfWrite ==
  ASSUME NEW pos \in Slots, NEW fill \in 0 .. Capacity, NEW k \in 1 .. Capacity
  PROVE  /\ Advance(pos, k - 1) \in Slots
         /\ k <= fill => Ahead(Advance(pos, k - 1), Advance(pos, fill)) >= Capacity - fill
         /\ k > fill => Ahead(Advance(pos, k - 1), Advance(pos, fill)) = k - 1 - fill
BY RingAssumption DEF Advance, Ahead, Slots

LEMMA WriteRoom ==
  ASSUME RingInv, NEW c \in Nat
  PROVE  /\ Room(c) \in 0 .. Capacity
         /\ Room(c) <= c
         /\ fill_count + Room(c) <= Capacity
BY RingAssumption DEF RingInv, TypeOK, Room, Smaller

-----------------------------------------------------------------------------
LEMMA WriteKeeps ==
  ASSUME RingInv, NEW n \in 1 .. LargestCall, NEW samples \in [1 .. n -> Samples],
         Write(samples)
  PROVE  RingInv'
<1> DEFINE r == Room(Len(samples))
<1>1. Len(samples) = n /\ n \in Nat
  BY RingAssumption
<1>2. r \in 0 .. Capacity /\ r <= n /\ fill_count + r <= Capacity
  BY <1>1, WriteRoom
<1>3. /\ buffer' = [i \in Slots |->
                      IF Ahead(i, write_pos) < r THEN samples[Ahead(i, write_pos) + 1]
                                                 ELSE buffer[i]]
      /\ write_pos' = Advance(write_pos, r)
      /\ fill_count' = fill_count + r
      /\ total_written' = total_written + r
      /\ peak_fill_level' = Larger(peak_fill_level, fill_count + r)
      /\ UNCHANGED <<read_pos, total_read, underrun_events, cleared, got>>
  BY DEF Write, Peak
<1> HIDE DEF r
<1>4. buffer' \in [Slots -> Samples]
  <2>1. \A i \in Slots : Ahead(i, write_pos) \in Nat
    BY RingAssumption DEF RingInv, TypeOK, Ahead, Slots
  <2>2. \A i \in Slots : Ahead(i, write_pos) < r => samples[Ahead(i, write_pos) + 1] \in Samples
    BY <2>1, <1>1, <1>2
  <2>. QED
    BY <2>2, <1>3 DEF RingInv, TypeOK
<1>5. write_pos' \in Slots
  BY <1>2, <1>3, AdvanceSlots DEF RingInv, TypeOK
<1>6. peak_fill_level' \in 0 .. Capacity /\ fill_count' <= peak_fill_level'
  BY <1>2, <1>3, RingAssumption DEF RingInv, TypeOK, Larger
<1>7. TypeOK'
  BY <1>2, <1>3, <1>4, <1>5, <1>6, RingAssumption DEF RingInv, TypeOK
<1>8. PositionsOK'
  BY <1>2, <1>3, AdvanceSum, RingAssumption DEF RingInv, TypeOK, PositionsOK
<1>9. Conservation'
  BY <1>2, <1>3, <1>6 DEF RingInv, TypeOK, Conservation
<1>. QED
  BY <1>7, <1>8, <1>9 DEF RingInv

LEMMA ReadKeeps ==
  ASSUME RingInv, NEW count \in 1 .. LargestCall, Read(count)
  PROVE  RingInv'
<1> DEFINE n == Smaller(count, fill_count)
<1>1. n \in 0 .. fill_count
  BY RingAssumption DEF RingInv, TypeOK, Smaller
<1>2. /\ got' = [k \in 1 .. n |-> Queued(k)]
      /\ read_pos' = Advance(read_pos, n)
      /\ total_read' = total_read + n
      /\ fill_count' = fill_count - n
      /\ underrun_events' = underrun_events + (IF fill_count < count THEN 1 ELSE 0)
      /\ UNCHANGED <<buffer, write_pos, total_written, peak_fill_level, cleared>>
  BY DEF Read
<1> HIDE DEF n
<1>3. got' \in Seq(Samples)
  <2>1. \A k \in 1 .. n : Queued(k) \in Samples
    BY <1>1, AheadOfWrite, RingAssumption DEF RingInv, TypeOK, Queued
  <2>. QED
    BY <2>1, <1>1, <1>2, RingAssumption DEF RingInv, TypeOK
<1>4. read_pos' \in Slots
  BY <1>1, <1>2, AdvanceSlots, RingAssumption DEF RingInv, TypeOK
<1>5. TypeOK'
  BY <1>1, <1>2, <1>3, <1>4, RingAssumption DEF RingInv, TypeOK
<1>6. PositionsOK'
  BY <1>1, <1>2, AdvanceSum, RingAssumption DEF RingInv, TypeOK, PositionsOK
<1>7. Conservation'
  BY <1>1, <1>2, RingAssumption DEF RingInv, TypeOK, Conservation
<1>. QED
  BY <1>5, <1>6, <1>7 DEF RingInv

LEMMA ClearKeeps ==
  ASSUME RingInv, Clear
  PROVE  RingInv'
BY RingAssumption DEF RingInv, TypeOK, PositionsOK, Conservation, Clear, stats, Advance, Slots

(* The positions, the fill level and the statistics never drift apart.     *)
THEOREM RingInvariant == Spec => []RingInv
<1>1. Init => RingInv
  BY RingAssumption DEF Init, RingInv, TypeOK, PositionsOK, Conservation, Advance, Slots
<1>2. RingInv /\ [Next]_vars => RingInv'
  <2>1. RingInv /\ UNCHANGED vars => RingInv'
    BY DEF RingInv, TypeOK, PositionsOK, Conservation, vars, ring, stats
  <2>. QED
    BY <2>1, WriteKeeps, ReadKeeps, ClearKeeps DEF Next
<1>. QED
  BY <1>1, <1>2, PTL DEF Spec

(* The type invariant of the ring. *)
THEOREM RingTyping == Spec => []TypeOK
<1>1. RingInv => TypeOK
  BY DEF RingInv
<1>. QED
  BY <1>1, RingInvariant, PTL

(* The write position stays fill_count ahead of the read position. *)
THEOREM RingPositions == Spec => []PositionsOK
<1>1. RingInv => PositionsOK
  BY DEF RingInv
<1>. QED
  BY <1>1, RingInvariant, PTL

(* No sample is lost or counted twice. *)
THEOREM RingConservation == Spec => []Conservation
<1>1. RingInv => Conservation
  BY DEF RingInv
<1>. QED
  BY <1>1, RingInvariant, PTL

-----------------------------------------------------------------------------
(***************************************************************************)
(* The ring implements SampleFifo: its content is what lies between the    *)
(* two positions, read around the wrap.                                    *)
(***************************************************************************)
Held == [k \in 1 .. fill_count |-> Queued(k)]

LEMMA ContentType ==
  ASSUME RingInv
  PROVE  /\ Held \in Seq(Samples)
         /\ Len(Held) = fill_count
         /\ \A k \in 1 .. fill_count : Held[k] = Queued(k) /\ Queued(k) \in Samples
<1>1. \A k \in 1 .. fill_count : Queued(k) \in Samples
  BY AheadOfWrite, RingAssumption DEF RingInv, TypeOK, Queued
<1>. QED
  BY <1>1, RingAssumption DEF RingInv, TypeOK, Held

LEMMA WriteAppends ==
  ASSUME RingInv, NEW n \in 1 .. LargestCall, NEW samples \in [1 .. n -> Samples],
         Write(samples)
  PROVE  Fifo!Write(samples)
<1> DEFINE r == Room(Len(samples))
           new == SubSeq(samples, 1, r)
<1>1. Len(samples) = n /\ n \in Nat /\ samples \in Seq(Samples)
  BY RingAssumption
<1>2. r \in 0 .. Capacity /\ r <= n /\ fill_count + r <= Capacity
  BY <1>1, WriteRoom
<1>3. /\ buffer' = [i \in Slots |->
                      IF Ahead(i, write_pos) < r THEN samples[Ahead(i, write_pos) + 1]
                                                 ELSE buffer[i]]
      /\ fill_count' = fill_count + r
      /\ UNCHANGED <<read_pos, got>>
  BY DEF Write
<1>4. r = Fifo!Smaller(Len(samples), Capacity - Len(Held))
  BY ContentType DEF Room, Smaller, Fifo!Smaller
<1>5. /\ new \in Seq(Samples)
      /\ Len(new) = r
      /\ \A k \in 1 .. r : new[k] = samples[k]
  BY <1>1, <1>2
<1> HIDE DEF r, new
<1>6. ASSUME NEW k \in 1 .. (fill_count + r)
      PROVE  Queued(k)' = (Held \o new)[k]
  <2> DEFINE i == Advance(read_pos, k - 1)
  <2>1. /\ i \in Slots
        /\ k <= fill_count => Ahead(i, write_pos) >= Capacity - fill_count
        /\ k > fill_count => Ahead(i, write_pos) = k - 1 - fill_count
    <3>1. k \in 1 .. Capacity /\ read_pos \in Slots /\ fill_count \in 0 .. Capacity
      BY <1>2, RingAssumption DEF RingInv, TypeOK
    <3>. QED
      BY <3>1, AheadOfWrite DEF RingInv, PositionsOK
  <2>2. Queued(k)' = buffer'[i]
    BY <1>3 DEF Queued, Advance
  <2>3. Queued(k)' = IF Ahead(i, write_pos) < r THEN samples[Ahead(i, write_pos) + 1]
                                                ELSE buffer[i]
    BY <1>3, <2>1, <2>2
  <2>4. fill_count \in Nat /\ r \in Nat /\ k \in Nat
    BY <1>2, RingAssumption DEF RingInv, TypeOK
  <2> HIDE DEF i
  <2>5. CASE k <= fill_count
    <3>1. Ahead(i, write_pos) >= r
      <4>1. Ahead(i, write_pos) \in Int
        BY <2>1, RingAssumption DEF Ahead, Slots, RingInv, TypeOK
      <4>. QED
        BY <4>1, <2>1, <2>5, <1>2, <2>4, RingAssumption
    <3>2. Queued(k)' = Queued(k)
      <4>1. Queued(k) = buffer[i]
        BY DEF Queued, i
      <4>2. Ahead(i, write_pos) \in Int
        BY <2>1, RingAssumption DEF Ahead, Slots, RingInv, TypeOK
      <4>. QED
        BY <4>1, <4>2, <3>1, <2>3, <2>4
    <3>3. (Held \o new)[k] = Held[k] /\ Held[k] = Queued(k)
      BY <2>4, <2>5, <1>5, ContentType
    <3>. QED
      BY <3>2, <3>3
  <2>6. CASE k > fill_count
    <3>1. Queued(k)' = samples[k - fill_count]
      BY <2>1, <2>3, <2>4, <2>6
    <3>2. (Held \o new)[k] = new[k - fill_count]
      <4>1. Held \in Seq(Samples) /\ Len(Held) = fill_count
        BY ContentType
      <4>2. (Held \o new)[k] = IF k <= Len(Held) THEN Held[k]
                                                       ELSE new[k - Len(Held)]
        BY <4>1, <1>5, <1>6, ConcatProperties
      <4>. QED
        BY <4>1, <4>2, <2>4, <2>6
    <3>3. k - fill_count \in 1 .. r
      BY <2>4, <2>6
    <3>. QED
      BY <3>1, <3>2, <3>3, <1>5
  <2>7. k <= fill_count \/ k > fill_count
    BY <2>4
  <2>. QED
    BY <2>5, <2>6, <2>7
<1>7. Held' = Held \o new
  <2>1. /\ Held \o new \in Seq(Samples)
        /\ Len(Held \o new) = fill_count + r
    BY <1>5, ContentType, ConcatProperties
  <2>2. Held' = [k \in 1 .. (fill_count + r) |-> Queued(k)']
    BY <1>3 DEF Held
  <2>3. Held \o new = [k \in 1 .. (fill_count + r) |-> (Held \o new)[k]]
    BY <2>1, LenProperties
  <2>. QED
    BY <2>2, <2>3, <1>6
<1>. QED
  BY <1>3, <1>4, <1>7 DEF Fifo!Write, Held, new

LEMMA ReadTakes ==
  ASSUME RingInv, NEW count \in 1 .. LargestCall, Read(count)
  PROVE  Fifo!Read(count)
<1> DEFINE n == Smaller(count, fill_count)
<1>1. /\ n \in 0 .. fill_count /\ fill_count \in Nat
      /\ n = Fifo!Smaller(count, Len(Held))
  BY ContentType, RingAssumption DEF RingInv, TypeOK, Smaller, Fifo!Smaller
<1>2. /\ got' = [k \in 1 .. n |-> Queued(k)]
      /\ read_pos' = Advance(read_pos, n)
      /\ fill_count' = fill_count - n
      /\ buffer' = buffer
  BY DEF Read
<1> HIDE DEF n
<1>3. got' = SubSeq(Held, 1, n)
  <2>1. SubSeq(Held, 1, n) = [k \in 1 .. n |-> Held[k]]
    BY <1>1, ContentType
  <2>. QED
    BY <2>1, <1>1, <1>2, ContentType
<1>4. ASSUME NEW k \in 1 .. (fill_count - n)
      PROVE  Queued(k)' = Held[n + k]
  <2>1. /\ k \in Nat /\ n \in Nat /\ n + (k - 1) = n + k - 1 /\ n + (k - 1) <= Capacity
        /\ n + k \in 1 .. fill_count
    BY <1>1, RingAssumption DEF RingInv, TypeOK
  <2>2. Advance(Advance(read_pos, n), k - 1) = Advance(read_pos, n + k - 1)
    BY <2>1, AdvanceSum, RingAssumption DEF RingInv, TypeOK
  <2>3. Queued(k)' = buffer[Advance(Advance(read_pos, n), k - 1)]
    BY <1>2 DEF Queued, Advance
  <2>. QED
    BY <2>1, <2>2, <2>3, ContentType DEF Queued
<1>5. Held' = SubSeq(Held, n + 1, Len(Held))
  <2>1. SubSeq(Held, n + 1, fill_count) = [k \in 1 .. (fill_count - n) |-> Held[n + k]]
    BY <1>1, ContentType
  <2>2. Held' = [k \in 1 .. (fill_count - n) |-> Queued(k)']
    BY <1>2 DEF Held
  <2>. QED
    BY <2>1, <2>2, <1>4, ContentType
<1>. QED
  BY <1>1, <1>3, <1>5 DEF Fifo!Read, Held

(* The ring is a bounded first-in first-out queue of samples. *)
THEOREM RingIsFifo == Spec => ImplementsFifo
<1>1. Init => Fifo!Init
  <2>1. Init => fill_count = 0 /\ got = <<>>
    BY DEF Init
  <2>2. [k \in 1 .. 0 |-> Queued(k)] = <<>>
    OBVIOUS
  <2>. QED
    BY <2>1, <2>2 DEF Fifo!Init
<1>2. RingInv /\ [Next]_vars => [Fifo!Next]_<<Held, got>>
  <2> SUFFICES ASSUME RingInv, [Next]_vars
               PROVE  [Fifo!Next]_<<Held, got>>
    OBVIOUS
  <2>1. ASSUME Clear PROVE Fifo!Next
    <3>1. Held' = <<>>
      BY <2>1 DEF Clear, Held
    <3>. QED
      BY <2>1, <3>1 DEF Clear, Held, Fifo!Next, Fifo!Clear
  <2>2. CASE UNCHANGED vars
    BY <2>2 DEF vars, ring, Held, Queued, Advance
  <2>. QED
    BY <2>1, <2>2, WriteAppends, ReadTakes DEF Next, Fifo!Next
<1>3. RingInv /\ [Next]_vars => [Fifo!Next]_<<[k \in 1 .. fill_count |-> Queued(k)], got>>
  BY <1>2 DEF Held
<1>. QED
  BY <1>1, <1>3, RingInvariant, PTL DEF Spec, ImplementsFifo, Fifo!Spec

-----------------------------------------------------------------------------
(* The event log                                                           *)
(*                                                                         *)
(* In the proof the files are one function from the places, so that a      *)
(* rotation is a file moved to the empty place next to it.                 *)

-----------------------------------------------------------------------------
(* The event log.                                                          *)
(*                                                                         *)
(* In the proof the files are one function from the places, so that a      *)
(* rotation is a file moved to the empty place next to it.                 *)

Files == [i \in Places |-> FileAt(i)]

Suffix(F, lost, n) ==
  /\ \A m \in Int : m \in lost + 1 .. n <=> \E i \in Places : \E k \in DOMAIN F[i] : F[i][k] = m
  /\ \A i \in Places : \A k, l \in DOMAIN F[i] : k < l => F[i][k] < F[i][l]
  /\ \A i, j \in Places : i < j =>
       \A k \in DOMAIN F[i], l \in DOMAIN F[j] : F[j][l] < F[i][k]

LogTypeOK ==
  /\ lines \in Nat /\ kills \in Nat
  /\ live \in Seq(Nat) \union {NoFile}
  /\ old \in [0 .. MaxFiles -> (Seq(Nat) \ {<<>>}) \union {NoFile}]
  /\ turn \in {"off", "shift", "reopen"} /\ step \in 0 .. MaxFiles

\* A rotation begins with a full live file and works on an empty place.
RotationOK ==
  /\ turn = "shift" => live # NoFile /\ Len(live) >= MaxLines
  /\ turn = "shift" /\ step < MaxFiles => old[step] = NoFile
  /\ turn = "reopen" => live = NoFile

\* How many full files lie between an old file and the live one: those that
\* should, less one for each kill, and one while the gap of the rotation is
\* below it.
Between(i) == i - kills - (IF turn = "shift" /\ i > step THEN 1 ELSE 0)

FullOK ==
  \A i \in 0 .. MaxFiles : old[i] # NoFile =>
    lines - old[i][Len(old[i])] >= Between(i) * MaxLines + Len(Content(live))

LossOK(lost) == lost > 0 => lines - lost >= (MaxFiles + 1 - kills) * MaxLines

LogInv ==
  /\ LogTypeOK /\ RotationOK /\ FullOK
  /\ \E lost \in 0 .. lines : Suffix(Files, lost, lines) /\ LossOK(lost)

-----------------------------------------------------------------------------
(* What the steps do to the files.                                         *)

LEMMA ContentIsSeq ==
  ASSUME LogTypeOK, NEW i \in Places
  PROVE  /\ FileAt(i) \in Seq(Nat)
         /\ i # -1 => i \in 0 .. MaxFiles /\ FileAt(i) = Content(old[i])
         /\ i # -1 => (FileAt(i) = <<>> <=> old[i] = NoFile)
<1>1. <<>> \in Seq(Nat)
  BY EmptySeq
<1>2. MaxFiles \in Nat
  BY LogAssumption
<1> QED
  BY <1>1, <1>2 DEF LogTypeOK, Places, FileAt, Content

(* A file moved to the empty place next to it.                             *)
LEMMA Moved ==
  ASSUME NEW F \in [Places -> Seq(Nat)], NEW lost \in Nat, NEW n \in Nat,
         NEW p \in Places, p + 1 \in Places, F[p + 1] = <<>>, Suffix(F, lost, n)
  PROVE  Suffix([F EXCEPT ![p + 1] = F[p], ![p] = <<>>], lost, n)
<1> DEFINE G == [F EXCEPT ![p + 1] = F[p], ![p] = <<>>]
<1>1. /\ G[p + 1] = F[p] /\ G[p] = <<>> /\ p # p + 1
      /\ \A i \in Places \ {p, p + 1} : G[i] = F[i]
  BY LogAssumption DEF Places
<1>2. DOMAIN <<>> = {}
  OBVIOUS
<1> HIDE DEF G
<1>3. ASSUME NEW m \in Int
      PROVE  m \in lost + 1 .. n <=> \E i \in Places : \E k \in DOMAIN G[i] : G[i][k] = m
  <2>1. (\E i \in Places : \E k \in DOMAIN F[i] : F[i][k] = m)
          => \E i \in Places : \E k \in DOMAIN G[i] : G[i][k] = m
    BY <1>1, <1>2
  <2>2. (\E i \in Places : \E k \in DOMAIN G[i] : G[i][k] = m)
          => \E i \in Places : \E k \in DOMAIN F[i] : F[i][k] = m
    BY <1>1, <1>2
  <2> QED
    BY <2>1, <2>2 DEF Suffix
<1>4. \A i \in Places : \A k, l \in DOMAIN G[i] : k < l => G[i][k] < G[i][l]
  BY <1>1, <1>2 DEF Suffix
<1>5. ASSUME NEW i \in Places, NEW j \in Places, i < j,
             NEW k \in DOMAIN G[i], NEW l \in DOMAIN G[j]
      PROVE  G[j][l] < G[i][k]
  <2>1. i # p /\ j # p
    BY <1>1, <1>2, <1>5
  <2>2. CASE i = p + 1
    BY <1>1, <1>5, <2>1, <2>2, LogAssumption DEF Suffix, Places
  <2>3. CASE j = p + 1
    BY <1>1, <1>5, <2>1, <2>3, LogAssumption DEF Suffix, Places
  <2>4. CASE i # p + 1 /\ j # p + 1
    BY <1>1, <1>5, <2>1, <2>4 DEF Suffix
  <2> QED
    BY <2>2, <2>3, <2>4
<1> QED
  BY <1>3, <1>4, <1>5 DEF Suffix, G

(* The oldest file removed: its lines are lost, and they are the first.    *)
LEMMA DroppedOldest ==
  ASSUME NEW F \in [Places -> Seq(Nat)], NEW lost \in Nat, NEW n \in Nat,
         F[MaxFiles] # <<>>, Suffix(F, lost, n)
  PROVE  LET last == F[MaxFiles][Len(F[MaxFiles])]
         IN  last \in 1 .. n /\ Suffix([F EXCEPT ![MaxFiles] = <<>>], last, n)
<1> DEFINE G == [F EXCEPT ![MaxFiles] = <<>>]
           len == Len(F[MaxFiles])
           last == F[MaxFiles][len]
<1>1. MaxFiles \in Places /\ MaxFiles \in Nat
  BY LogAssumption DEF Places
<1>2. len \in DOMAIN F[MaxFiles] /\ len \in Nat /\ DOMAIN F[MaxFiles] = 1 .. len
  BY <1>1, EmptySeq
<1>3. last \in lost + 1 .. n /\ last \in Int
  <2>1. last \in Int
    BY <1>1, <1>2
  <2> QED
    BY <1>1, <1>2, <2>1 DEF Suffix
<1>4. /\ G[MaxFiles] = <<>> /\ \A i \in Places \ {MaxFiles} : G[i] = F[i]
  BY <1>1
<1>5. DOMAIN <<>> = {}
  OBVIOUS
<1>6. \A i \in Places \ {MaxFiles} : i < MaxFiles
  BY <1>1 DEF Places
<1>7. \A k \in DOMAIN F[MaxFiles] : F[MaxFiles][k] <= last
  <2> TAKE k \in DOMAIN F[MaxFiles]
  <2>1. F[MaxFiles][k] \in Nat
    BY <1>1
  <2>2. CASE k = len
    BY <1>3, <2>2
  <2>3. CASE k < len
    <3>1. F[MaxFiles][k] < F[MaxFiles][len]
      BY <1>1, <1>2, <2>3 DEF Suffix
    <3> QED
      BY <1>3, <2>1, <3>1
  <2> QED
    BY <1>2, <2>2, <2>3
<1>8. \A i \in Places \ {MaxFiles} : \A k \in DOMAIN F[i] : last < F[i][k]
  BY <1>1, <1>2, <1>6 DEF Suffix
<1> HIDE DEF G, last, len
<1>9. ASSUME NEW m \in Int
      PROVE  m \in last + 1 .. n <=> \E i \in Places : \E k \in DOMAIN G[i] : G[i][k] = m
  <2>1. ASSUME m \in last + 1 .. n
        PROVE  \E i \in Places : \E k \in DOMAIN G[i] : G[i][k] = m
    <3>1. m \in lost + 1 .. n
      BY <1>3, <2>1
    <3>2. PICK i \in Places : \E k \in DOMAIN F[i] : F[i][k] = m
      BY <3>1 DEF Suffix
    <3>3. i # MaxFiles
      BY <1>3, <1>7, <2>1, <3>2
    <3> QED
      BY <1>4, <3>2, <3>3
  <2>2. ASSUME NEW i \in Places, NEW k \in DOMAIN G[i], G[i][k] = m
        PROVE  m \in last + 1 .. n
    <3>1. i # MaxFiles /\ G[i] = F[i]
      BY <1>4, <1>5, <2>2
    <3>2. m \in lost + 1 .. n
      BY <2>2, <3>1 DEF Suffix
    <3>3. last < m
      BY <1>8, <2>2, <3>1
    <3> QED
      BY <1>3, <3>2, <3>3
  <2> QED
    BY <2>1, <2>2
<1>10. \A i \in Places : \A k, l \in DOMAIN G[i] : k < l => G[i][k] < G[i][l]
  BY <1>4, <1>5 DEF Suffix
<1>11. \A i, j \in Places : i < j => \A k \in DOMAIN G[i], l \in DOMAIN G[j] : G[j][l] < G[i][k]
  BY <1>4, <1>5 DEF Suffix
<1>12. last \in 1 .. n
  BY <1>3
<1> QED
  BY <1>9, <1>10, <1>11, <1>12 DEF Suffix, G, last, len

(* A line appended to the live file.                                       *)
LEMMA Logged ==
  ASSUME NEW F \in [Places -> Seq(Nat)], NEW n \in Nat, NEW lost \in 0 .. n,
         Suffix(F, lost, n)
  PROVE  Suffix([F EXCEPT ![-1] = Append(F[-1], n + 1)], lost, n + 1)
<1> DEFINE f == F[-1]
           G == [F EXCEPT ![-1] = Append(f, n + 1)]
<1>1. -1 \in Places
  BY LogAssumption DEF Places
<1>2. G[-1] = Append(f, n + 1) /\ \A i \in Places \ {-1} : G[i] = F[i]
  BY <1>1
<1>3. /\ f \in Seq(Nat) /\ Len(f) \in Nat /\ DOMAIN f = 1 .. Len(f)
      /\ DOMAIN G[-1] = 1 .. Len(f) + 1
      /\ G[-1][Len(f) + 1] = n + 1
      /\ \A k \in DOMAIN f : G[-1][k] = f[k]
  BY <1>1, <1>2, AppendProperties
<1>4. \A i \in Places : \A k \in DOMAIN F[i] : F[i][k] \in lost + 1 .. n
  BY DEF Suffix
<1>5. \A i \in Places \ {-1} : -1 < i
  BY LogAssumption DEF Places
<1> HIDE DEF G, f
<1>6. ASSUME NEW m \in Int
      PROVE  m \in lost + 1 .. n + 1 <=> \E i \in Places : \E k \in DOMAIN G[i] : G[i][k] = m
  <2>1. ASSUME m \in lost + 1 .. n
        PROVE  \E i \in Places : \E k \in DOMAIN G[i] : G[i][k] = m
    <3>1. PICK i \in Places : \E k \in DOMAIN F[i] : F[i][k] = m
      BY <2>1 DEF Suffix
    <3>2. CASE i = -1
      <4>1. PICK k \in DOMAIN F[-1] : F[-1][k] = m
        BY <3>1, <3>2
      <4>2. k \in DOMAIN f /\ f[k] = m
        BY <4>1 DEF f
      <4>3. k \in DOMAIN G[-1] /\ G[-1][k] = m
        BY ONLY <1>3, <4>2
      <4> QED
        BY <1>1, <4>3
    <3>3. CASE i # -1
      BY <1>2, <3>1, <3>3
    <3> QED
      BY <3>2, <3>3
  <2>2. ASSUME m = n + 1
        PROVE  \E i \in Places : \E k \in DOMAIN G[i] : G[i][k] = m
    BY <1>1, <1>3, <2>2
  <2>3. ASSUME NEW i \in Places, NEW k \in DOMAIN G[i], G[i][k] = m
        PROVE  m \in lost + 1 .. n + 1
    <3>1. CASE i = -1 /\ k = Len(f) + 1
      BY <1>3, <2>3, <3>1
    <3>2. CASE i = -1 /\ k # Len(f) + 1
      <4>1. k \in DOMAIN f
        BY <1>3, <3>2
      <4> QED
        BY <1>1, <1>3, <1>4, <2>3, <3>2, <4>1 DEF f
    <3>3. CASE i # -1
      BY <1>2, <1>4, <2>3, <3>3
    <3> QED
      BY <3>1, <3>2, <3>3
  <2> QED
    BY <2>1, <2>2, <2>3
<1>7. ASSUME NEW i \in Places, NEW k \in DOMAIN G[i], NEW l \in DOMAIN G[i], k < l
      PROVE  G[i][k] < G[i][l]
  <2>1. CASE i # -1
    BY <1>2, <1>7, <2>1 DEF Suffix
  <2>2. CASE i = -1 /\ l = Len(f) + 1
    <3>1. k \in DOMAIN f
      BY <1>3, <1>7, <2>2
    <3> QED
      BY <1>1, <1>3, <1>4, <2>2, <3>1 DEF f
  <2>3. CASE i = -1 /\ l # Len(f) + 1
    <3>1. k \in DOMAIN f /\ l \in DOMAIN f
      BY <1>3, <1>7, <2>3
    <3> QED
      BY <1>1, <1>3, <1>7, <2>3, <3>1 DEF f, Suffix
  <2> QED
    BY <2>1, <2>2, <2>3
<1>8. ASSUME NEW i \in Places, NEW j \in Places, i < j,
             NEW k \in DOMAIN G[i], NEW l \in DOMAIN G[j]
      PROVE  G[j][l] < G[i][k]
  <2>1. j # -1 /\ G[j] = F[j]
    BY <1>2, <1>5, <1>8, LogAssumption DEF Places
  <2>2. G[j][l] \in lost + 1 .. n
    BY <1>4, <1>8, <2>1
  <2>3. CASE i # -1
    BY <1>2, <1>8, <2>1, <2>3 DEF Suffix
  <2>4. CASE i = -1 /\ k = Len(f) + 1
    BY <1>3, <2>2, <2>4
  <2>5. CASE i = -1 /\ k # Len(f) + 1
    <3>1. k \in DOMAIN f
      BY <1>3, <1>8, <2>5
    <3> QED
      BY <1>1, <1>3, <1>8, <2>1, <2>5, <3>1 DEF f, Suffix
  <2> QED
    BY <2>3, <2>4, <2>5
<1> QED
  BY <1>6, <1>7, <1>8 DEF Suffix, G, f

-----------------------------------------------------------------------------
(* The invariant.                                                          *)

LEMMA FilesAreSeqs ==
  ASSUME LogTypeOK
  PROVE  Files \in [Places -> Seq(Nat)]
BY ContentIsSeq DEF Files

LEMMA LogInitKeeps == LogInit => LogInv
<1> SUFFICES ASSUME LogInit PROVE LogInv
  OBVIOUS
<1>1. LogTypeOK /\ RotationOK /\ FullOK
  BY LogAssumption DEF LogInit, LogTypeOK, RotationOK, FullOK
<1>2. \A i \in Places : Files[i] = <<>>
  BY DEF LogInit, Files, FileAt, Content, Places
<1>3. DOMAIN <<>> = {}
  OBVIOUS
<1>4. Suffix(Files, 0, 0) /\ LossOK(0)
  BY <1>2, <1>3 DEF Suffix, LossOK
<1> QED
  BY <1>1, <1>4 DEF LogInv, LogInit

LEMMA LogKeeps ==
  ASSUME LogInv, Log
  PROVE  LogInv'
<1>1. /\ lines \in Nat /\ lines' = lines + 1 /\ kills' = kills /\ kills \in Nat
      /\ old' = old /\ step' = MaxFiles /\ turn = "off"
      /\ live' = Append(Content(live), lines + 1)
      /\ turn' = IF Len(live') >= MaxLines THEN "shift" ELSE "off"
  BY DEF LogInv, LogTypeOK, Log
<1>2. MaxFiles \in Nat
  BY LogAssumption
<1>3. /\ Content(live) \in Seq(Nat) /\ live' \in Seq(Nat)
      /\ Len(live') = Len(Content(live)) + 1 /\ live'[Len(live')] = lines + 1
  <2>1. Content(live) \in Seq(Nat)
    BY EmptySeq DEF LogInv, LogTypeOK, Content
  <2> QED
    BY <1>1, <2>1, AppendProperties
<1>4. live' # NoFile
  <2>1. live'[Len(live')] # -1
    BY <1>1, <1>3
  <2> QED
    BY <2>1 DEF NoFile
<1>5. Content(live') = live'
  BY <1>4 DEF Content
<1>6. LogTypeOK'
  BY <1>1, <1>2, <1>3 DEF LogInv, LogTypeOK
<1>7. RotationOK'
  BY <1>1, <1>2, <1>4 DEF RotationOK
<1>8. FullOK'
  <2> SUFFICES ASSUME NEW i \in 0 .. MaxFiles, old[i] # NoFile
               PROVE  lines' - old[i][Len(old[i])] >= Between(i)' * MaxLines + Len(Content(live'))
    BY <1>1 DEF FullOK
  <2>1. Between(i)' = Between(i)
    BY <1>1, <1>2 DEF Between
  <2>2. lines - old[i][Len(old[i])] >= Between(i) * MaxLines + Len(Content(live))
    BY DEF LogInv, FullOK
  <2>3. /\ old[i][Len(old[i])] \in Nat /\ Len(Content(live)) \in Nat
        /\ Between(i) * MaxLines \in Int
    <3>1. old[i] \in Seq(Nat) /\ old[i] # <<>>
      BY DEF LogInv, LogTypeOK
    <3>2. Len(old[i]) \in 1 .. Len(old[i])
      BY <3>1, EmptySeq
    <3>3. Between(i) \in Int /\ MaxLines \in Int
      BY <1>1, <1>2, LogAssumption DEF Between
    <3>4. old[i][Len(old[i])] \in Nat
      BY ONLY <3>1, <3>2
    <3>5. Len(Content(live)) \in Nat
      BY ONLY <1>3, LenProperties
    <3>6. Between(i) * MaxLines \in Int
      BY ONLY <3>3
    <3> QED
      BY <3>4, <3>5, <3>6
  <2> QED
    BY <1>1, <1>3, <1>5, <2>1, <2>2, <2>3
<1>9. PICK lost \in 0 .. lines : Suffix(Files, lost, lines) /\ LossOK(lost)
  BY DEF LogInv
<1>10. Files' = [Files EXCEPT ![-1] = Append(Files[-1], lines + 1)]
  <2>1. -1 \in Places /\ \A i \in Places \ {-1} : i \in 0 .. MaxFiles
    BY <1>2 DEF Places
  <2>2. \A i \in Places \ {-1} : FileAt(i)' = FileAt(i)
    BY <1>1, <2>1 DEF FileAt
  <2>3. FileAt(-1)' = Append(FileAt(-1), lines + 1)
    BY <1>1, <1>5 DEF FileAt
  <2> QED
    BY <2>1, <2>2, <2>3 DEF Files
<1>11. Suffix(Files', lost, lines + 1)
  BY <1>1, <1>9, <1>10, FilesAreSeqs, Logged DEF LogInv
<1>12. LossOK(lost)'
  <2>1. (MaxFiles + 1 - kills) * MaxLines \in Int
    BY <1>1, <1>2, LogAssumption
  <2> QED
    BY <1>1, <1>9, <2>1 DEF LossOK
<1> QED
  BY <1>1, <1>6, <1>7, <1>8, <1>9, <1>11, <1>12 DEF LogInv

(* What FullOK says of a file in numbers the provers can compare.          *)
LEMMA FullNumbers ==
  ASSUME LogInv, NEW i \in 0 .. MaxFiles, old[i] # NoFile
  PROVE  /\ old[i] \in Seq(Nat) /\ old[i][Len(old[i])] \in Nat
         /\ Between(i) \in Int /\ Len(Content(live)) \in Nat
         /\ lines - old[i][Len(old[i])] >= Between(i) * MaxLines + Len(Content(live))
<1>1. old[i] \in Seq(Nat) /\ old[i] # <<>>
  BY DEF LogInv, LogTypeOK
<1>2. Len(old[i]) \in 1 .. Len(old[i])
  BY <1>1, EmptySeq
<1>3. Between(i) \in Int
  BY LogAssumption DEF Between, LogInv, LogTypeOK
<1>4. Content(live) \in Seq(Nat)
  BY EmptySeq DEF LogInv, LogTypeOK, Content
<1> QED
  BY <1>1, <1>2, <1>3, <1>4 DEF LogInv, FullOK

(* One full file more or less.                                             *)
LEMMA OneFile ==
  ASSUME NEW b \in Int
  PROVE  /\ b * MaxLines \in Int /\ MaxLines \in Nat
         /\ (b + 1) * MaxLines = b * MaxLines + MaxLines
         /\ (b - 1) * MaxLines = b * MaxLines - MaxLines
BY LogAssumption

LEMMA RemoveOldestKeeps ==
  ASSUME LogInv, RemoveOldest
  PROVE  LogInv'
<1>1. /\ turn = "shift" /\ step = MaxFiles /\ old[MaxFiles] # NoFile
      /\ old' = [old EXCEPT ![MaxFiles] = NoFile]
      /\ UNCHANGED <<live, open, turn, step, lines, kills>>
  BY DEF RemoveOldest
<1>2. MaxFiles \in Nat /\ MaxFiles \in 0 .. MaxFiles /\ MaxFiles \in Places
  BY LogAssumption DEF Places
<1>3. LogTypeOK'
  BY <1>1 DEF LogInv, LogTypeOK
<1>4. RotationOK'
  BY <1>1 DEF LogInv, RotationOK
<1>5. FullOK'
  BY <1>1, <1>2 DEF LogInv, LogTypeOK, FullOK, Between
<1>6. PICK lost \in 0 .. lines : Suffix(Files, lost, lines) /\ LossOK(lost)
  BY DEF LogInv
<1>13. PICK last : last = old[MaxFiles][Len(old[MaxFiles])]
  OBVIOUS
<1>7. Files[MaxFiles] = old[MaxFiles] /\ Files[MaxFiles] # <<>>
  BY <1>1, <1>2, ContentIsSeq DEF LogInv, LogTypeOK, Files, FileAt, Content
<1>8. Files' = [Files EXCEPT ![MaxFiles] = <<>>]
  <2>1. \A i \in Places \ {MaxFiles} : FileAt(i)' = FileAt(i)
    BY <1>1, <1>2 DEF FileAt, Places, LogInv, LogTypeOK
  <2>2. FileAt(MaxFiles)' = <<>>
    BY <1>1, <1>2 DEF FileAt, Content, LogInv, LogTypeOK
  <2> QED
    BY <1>2, <2>1, <2>2 DEF Files
<1>9. last \in 1 .. lines /\ Suffix(Files', last, lines)
  <2>1. Files \in [Places -> Seq(Nat)] /\ lines \in Nat /\ lost \in Nat
    BY FilesAreSeqs DEF LogInv, LogTypeOK
  <2> QED
    BY <1>6, <1>7, <1>8, <1>13, <2>1, DroppedOldest
<1>10. lines - last >= (MaxFiles + 1 - kills) * MaxLines
  <2>1. Between(MaxFiles) = MaxFiles - kills /\ Between(MaxFiles) \in Int
    BY <1>1, <1>2 DEF Between, LogInv, LogTypeOK
  <2>2. Len(Content(live)) >= MaxLines
    BY <1>1 DEF LogInv, RotationOK, Content
  <2>3. (MaxFiles + 1 - kills) = Between(MaxFiles) + 1
    BY <1>2, <2>1 DEF LogInv, LogTypeOK
  <2>4. lines - last >= Between(MaxFiles) * MaxLines + Len(Content(live))
    BY <1>1, <1>2, <1>13, FullNumbers
  <2>5. last \in Nat /\ lines \in Nat /\ Len(Content(live)) \in Nat
    BY <1>1, <1>2, <1>13, FullNumbers DEF LogInv, LogTypeOK
  <2>6. (MaxFiles + 1 - kills) * MaxLines = Between(MaxFiles) * MaxLines + MaxLines
    BY <2>1, <2>3, OneFile
  <2>7. Between(MaxFiles) * MaxLines \in Int /\ MaxLines \in Nat
    BY <2>1, OneFile
  <2> QED
    BY <2>2, <2>4, <2>5, <2>6, <2>7
<1>11. LossOK(last)'
  BY <1>1, <1>10 DEF LossOK
<1>12. last \in 0 .. lines'
  BY <1>1, <1>9 DEF LogInv, LogTypeOK
<1> QED
  BY <1>1, <1>3, <1>4, <1>5, <1>9, <1>11, <1>12 DEF LogInv

LEMMA ShiftKeeps ==
  ASSUME LogInv, Shift
  PROVE  LogInv'
<1>1. MaxFiles \in Nat /\ step \in 0 .. MaxFiles /\ turn = "shift" /\ step > 0
  BY LogAssumption DEF Shift, Shifting, LogInv, LogTypeOK
<1>2. PICK p \in 1 .. MaxFiles : p = step
  BY <1>1
<1>3. p - 1 \in 0 .. MaxFiles /\ p \in 0 .. MaxFiles /\ p # p - 1 /\ step' = p - 1
  BY <1>1, <1>2 DEF Shift
<1>4. /\ old[p] = NoFile
      /\ old' = IF old[p - 1] = NoFile THEN old
                ELSE [old EXCEPT ![p] = old[p - 1], ![p - 1] = NoFile]
      /\ UNCHANGED <<live, open, turn, lines, kills>>
  <2>1. CASE p = MaxFiles
    BY <1>1, <1>2, <1>3, <2>1 DEF Shift
  <2>2. CASE p # MaxFiles
    BY <1>1, <1>2, <1>3, <2>2 DEF Shift, LogInv, RotationOK
  <2> QED
    BY <2>1, <2>2
<1>5. /\ old' \in [0 .. MaxFiles -> (Seq(Nat) \ {<<>>}) \union {NoFile}]
      /\ old'[p] = old[p - 1] /\ old'[p - 1] = NoFile
      /\ \A i \in (0 .. MaxFiles) \ {p, p - 1} : old'[i] = old[i]
  BY <1>3, <1>4 DEF LogInv, LogTypeOK
<1>6. LogTypeOK'
  BY <1>3, <1>4, <1>5 DEF LogInv, LogTypeOK
<1>7. RotationOK'
  BY <1>1, <1>3, <1>4, <1>5 DEF LogInv, RotationOK
<1>8. FullOK'
  <2> SUFFICES ASSUME NEW i \in 0 .. MaxFiles, old'[i] # NoFile
               PROVE  lines - old'[i][Len(old'[i])] >= Between(i)' * MaxLines + Len(Content(live))
    BY <1>4 DEF FullOK
  <2>1. CASE i = p
    <3>1. Between(i)' = Between(p - 1)
      BY <1>1, <1>2, <1>3, <1>4, <2>1 DEF Between, LogInv, LogTypeOK
    <3> QED
      BY <1>3, <1>5, <2>1, <3>1 DEF LogInv, FullOK
  <2>2. CASE i # p
    <3>1. i # p - 1 /\ old'[i] = old[i]
      BY <1>5, <2>2
    <3>2. Between(i)' = Between(i)
      BY <1>1, <1>2, <1>3, <1>4, <2>2, <3>1 DEF Between, LogInv, LogTypeOK
    <3> QED
      BY <3>1, <3>2 DEF LogInv, FullOK
  <2> QED
    BY <2>1, <2>2
<1>9. PICK lost \in 0 .. lines : Suffix(Files, lost, lines) /\ LossOK(lost)
  BY DEF LogInv
<1>10. p \in Places /\ p - 1 \in Places /\ p # -1 /\ p - 1 # -1 /\ (p - 1) + 1 = p
  BY <1>1 DEF Places
<1>11. Files' = [Files EXCEPT ![p] = Files[p - 1], ![p - 1] = <<>>]
  <2>1. \A i \in Places \ {p, p - 1} : FileAt(i)' = FileAt(i)
    BY <1>1, <1>4, <1>5 DEF FileAt, Places
  <2>2. FileAt(p)' = FileAt(p - 1)
    BY <1>4, <1>5, <1>10 DEF FileAt
  <2>3. FileAt(p - 1)' = <<>>
    BY <1>4, <1>5, <1>10 DEF FileAt, Content
  <2> QED
    BY <1>10, <2>1, <2>2, <2>3 DEF Files
<1>12. Files[p] = <<>>
  BY <1>4, <1>10 DEF Files, FileAt, Content
<1>13. Suffix(Files', lost, lines)
  <2>1. Files \in [Places -> Seq(Nat)] /\ lines \in Nat /\ lost \in Nat
    BY FilesAreSeqs DEF LogInv, LogTypeOK
  <2>2. Suffix([Files EXCEPT ![(p - 1) + 1] = Files[p - 1], ![p - 1] = <<>>], lost, lines)
    BY <1>9, <1>10, <1>12, <2>1, Moved
  <2> QED
    BY <1>10, <1>11, <2>2
<1> QED
  BY <1>4, <1>6, <1>7, <1>8, <1>9, <1>13 DEF LogInv, LossOK

(* The live file becomes file 0.  Without old files the last one is lost.  *)
LEMMA MoveLiveKeeps ==
  ASSUME LogInv, MoveLive
  PROVE  LogInv'
<1>1. /\ turn = "shift" /\ step = 0 /\ turn' = "reopen"
      /\ old' = [old EXCEPT ![0] = live] /\ live' = NoFile
      /\ UNCHANGED <<open, step, lines, kills>>
  BY DEF MoveLive, Shifting, LogInv, LogTypeOK
<1>2. MaxFiles \in Nat /\ 0 \in 0 .. MaxFiles /\ lines \in Nat /\ kills \in Nat
  BY LogAssumption DEF LogInv, LogTypeOK
<1>3. /\ live \in Seq(Nat) /\ live # NoFile /\ live # <<>> /\ Content(live) = live
      /\ Len(live) >= MaxLines /\ Len(live) \in 1 .. Len(live) /\ live[Len(live)] \in Nat
  <2>1. live \in Seq(Nat) /\ live # NoFile /\ Len(live) >= MaxLines
    BY <1>1 DEF LogInv, LogTypeOK, RotationOK
  <2>2. Len(live) \in 1 .. Len(live) /\ live # <<>>
    BY <2>1, LogAssumption, EmptySeq
  <2> QED
    BY <2>1, <2>2 DEF Content
<1>4. /\ old' \in [0 .. MaxFiles -> (Seq(Nat) \ {<<>>}) \union {NoFile}]
      /\ old'[0] = live /\ \A i \in (0 .. MaxFiles) \ {0} : old'[i] = old[i]
  BY <1>1, <1>2, <1>3 DEF LogInv, LogTypeOK
<1>5. LogTypeOK'
  BY <1>1, <1>4 DEF LogInv, LogTypeOK
<1>6. RotationOK'
  BY <1>1 DEF RotationOK
<1>7. Content(live') = <<>> /\ Len(<<>>) = 0
  BY <1>1, EmptySeq DEF Content
<1>8. PICK lost \in 0 .. lines : Suffix(Files, lost, lines) /\ LossOK(lost)
  BY DEF LogInv
<1>9. /\ -1 \in Places /\ 0 \in Places /\ -1 + 1 = 0
      /\ Files \in [Places -> Seq(Nat)] /\ Files[-1] = live /\ Files[0] = Content(old[0])
      /\ lost \in Nat
  BY <1>2, <1>3, FilesAreSeqs DEF Places, Files, FileAt, LogInv
<1>10. Files' = [Files EXCEPT ![0] = Files[-1], ![-1] = <<>>]
  <2>1. \A i \in Places \ {-1, 0} : FileAt(i)' = FileAt(i)
    BY <1>2, <1>4 DEF FileAt, Places
  <2>2. FileAt(0)' = Files[-1] /\ FileAt(-1)' = <<>>
    BY <1>3, <1>4, <1>7, <1>9 DEF FileAt
  <2> QED
    BY <1>9, <2>1, <2>2 DEF Files
<1>11. live[Len(live)] <= lines
  BY <1>3, <1>8, <1>9 DEF Suffix
<1>12. FullOK'
  <2> SUFFICES ASSUME NEW i \in 0 .. MaxFiles, old'[i] # NoFile
               PROVE  lines - old'[i][Len(old'[i])] >= Between(i)' * MaxLines
    <3>1. \A i \in 0 .. MaxFiles : Between(i)' * MaxLines + 0 = Between(i)' * MaxLines
      <4> TAKE i \in 0 .. MaxFiles
      <4>1. PICK b \in Int : b = Between(i)'
        BY <1>1, <1>2 DEF Between
      <4>2. b * MaxLines + 0 = b * MaxLines
        BY OneFile
      <4> QED
        BY <4>1, <4>2
    <3> QED
      BY <1>1, <1>7, <3>1 DEF FullOK
  <2>1. CASE i = 0
    <3>1. Between(i)' = - kills
      BY <1>1, <1>2, <2>1 DEF Between
    <3>2. (- kills) * MaxLines <= 0
      BY <1>2, LogAssumption
    <3>3. lines - live[Len(live)] >= 0
      BY <1>2, <1>3, <1>11
    <3>4. (- kills) * MaxLines \in Int /\ lines - live[Len(live)] \in Int
      BY <1>2, <1>3, LogAssumption
    <3> QED
      BY <1>4, <2>1, <3>1, <3>2, <3>3, <3>4
  <2>2. CASE i # 0
    <3>1. old'[i] = old[i]
      BY <1>4, <2>2
    <3>2. Between(i)' = Between(i) + 1 /\ Between(i) \in Int
      BY <1>1, <1>2, <2>2 DEF Between
    <3>3. /\ lines - old[i][Len(old[i])] >= Between(i) * MaxLines + Len(live)
          /\ old[i][Len(old[i])] \in Nat
      BY <1>3, <3>1, FullNumbers
    <3>4. Between(i)' * MaxLines = Between(i) * MaxLines + MaxLines
      BY <3>2, OneFile
    <3>5. Between(i) * MaxLines \in Int /\ MaxLines \in Nat
      BY <3>2, OneFile
    <3>6. PICK room \in Int : room = Between(i) * MaxLines
      BY <3>5
    <3>7. PICK at \in Nat : at = old[i][Len(old[i])]
      BY <3>3
    <3>8. PICK len \in Nat : len = Len(live) /\ len >= MaxLines
      BY <1>3
    <3>9. lines - at >= room + len
      BY ONLY <3>3, <3>6, <3>7, <3>8
    <3>10. lines - at >= room + MaxLines
      BY ONLY <1>2, <3>5, <3>8, <3>9, at \in Nat, room \in Int
    <3> QED
      BY ONLY <3>1, <3>4, <3>6, <3>7, <3>10
  <2> QED
    BY <2>1, <2>2
<1>13. CASE old[0] = NoFile
  <2>1. Files[0] = <<>>
    BY <1>9, <1>13 DEF Content
  <2>2. Suffix([Files EXCEPT ![-1 + 1] = Files[-1], ![-1] = <<>>], lost, lines)
    BY <1>2, <1>8, <1>9, <2>1, Moved
  <2>3. Suffix(Files', lost, lines)
    BY <1>9, <1>10, <2>2
  <2> QED
    BY <1>1, <1>5, <1>6, <1>8, <1>12, <2>3 DEF LogInv, LossOK
<1>14. CASE old[0] # NoFile
  <2>1. MaxFiles = 0
    BY <1>1, <1>2, <1>14 DEF LogInv, RotationOK
  <2>2. PICK last : last = old[0][Len(old[0])]
    OBVIOUS
  <2>3. Files[0] = old[0] /\ old[0] # <<>>
    BY <1>2, <1>9, <1>14 DEF Content, LogInv, LogTypeOK
  <2> DEFINE F == [Files EXCEPT ![MaxFiles] = <<>>]
  <2>4. last \in 1 .. lines /\ Suffix(F, last, lines)
    BY <1>2, <1>8, <1>9, <2>1, <2>2, <2>3, DroppedOldest
  <2>5. /\ F \in [Places -> Seq(Nat)] /\ F[0] = <<>> /\ F[-1] = Files[-1]
        /\ Files' = [F EXCEPT ![0] = F[-1], ![-1] = <<>>]
    <3>1. <<>> \in Seq(Nat)
      BY EmptySeq
    <3>2. F \in [Places -> Seq(Nat)]
      BY <1>9, <2>1, <3>1
    <3>3. F[0] = <<>> /\ F[-1] = Files[-1]
      BY <1>9, <2>1
    <3>4. Files' = [F EXCEPT ![0] = F[-1], ![-1] = <<>>]
      BY <1>9, <1>10, <2>1, <3>3
    <3> QED
      BY <3>2, <3>3, <3>4
  <2> HIDE DEF F
  <2>6. Suffix(Files', last, lines)
    <3>1. last \in Nat /\ F[-1 + 1] = <<>> /\ -1 + 1 \in Places
      BY <1>2, <1>9, <2>4, <2>5
    <3>2. Suffix([F EXCEPT ![-1 + 1] = F[-1], ![-1] = <<>>], last, lines)
      BY <1>2, <1>9, <2>4, <2>5, <3>1, Moved
    <3> QED
      BY <1>9, <2>5, <3>2
  <2>7. lines - last >= (MaxFiles + 1 - kills) * MaxLines
    <3>1. Between(0) = - kills /\ Between(0) \in Int /\ MaxFiles + 1 - kills = Between(0) + 1
      BY <1>1, <1>2, <2>1 DEF Between
    <3>2. /\ lines - last >= Between(0) * MaxLines + Len(live)
          /\ last \in Nat
      BY <1>2, <1>3, <1>14, <2>2, FullNumbers
    <3>3. (MaxFiles + 1 - kills) * MaxLines = Between(0) * MaxLines + MaxLines
      BY <3>1, OneFile
    <3>4. Between(0) * MaxLines \in Int /\ MaxLines \in Nat
      BY <3>1, OneFile
    <3> QED
      BY <1>2, <1>3, <3>2, <3>3, <3>4
  <2>8. LossOK(last)'
    BY <1>1, <2>7 DEF LossOK
  <2>9. last \in 0 .. lines'
    BY <1>1, <1>2, <2>4
  <2> QED
    BY <1>1, <1>5, <1>6, <1>12, <2>6, <2>8, <2>9 DEF LogInv
<1> QED
  BY <1>13, <1>14

LEMMA OpenLiveKeeps ==
  ASSUME LogInv, OpenLive
  PROVE  LogInv'
<1>1. /\ turn = "reopen" /\ live = NoFile /\ live' = <<>> /\ turn' = "off"
      /\ UNCHANGED <<old, step, lines, kills>>
  BY DEF OpenLive, LogInv, RotationOK
<1>2. Content(live') = <<>> /\ Content(live) = <<>>
  BY <1>1 DEF Content, NoFile
<1>3. LogTypeOK' /\ RotationOK'
  BY <1>1, EmptySeq DEF LogInv, LogTypeOK, RotationOK
<1>4. FullOK'
  BY <1>1, <1>2 DEF LogInv, FullOK, Between
<1>5. Files' = Files
  BY <1>1, <1>2 DEF Files, FileAt
<1> QED
  BY <1>1, <1>3, <1>4, <1>5 DEF LogInv, LossOK

(* A kill forgets the rotation; the place it worked on stays empty.        *)
LEMMA KillKeeps ==
  ASSUME LogInv, Kill
  PROVE  LogInv'
<1>1. /\ kills \in Nat /\ kills' = kills + 1 /\ turn' = "off" /\ step' = 0
      /\ UNCHANGED <<live, old, lines>> /\ lines \in Nat /\ MaxFiles \in Nat
  BY LogAssumption DEF Kill, LogInv, LogTypeOK
<1>2. LogTypeOK' /\ RotationOK'
  BY <1>1 DEF LogInv, LogTypeOK, RotationOK
<1>3. FullOK'
  <2> SUFFICES ASSUME NEW i \in 0 .. MaxFiles, old[i] # NoFile
               PROVE  lines - old[i][Len(old[i])] >= Between(i)' * MaxLines + Len(Content(live))
    BY <1>1 DEF FullOK
  <2>1. Between(i) \in Int /\ (Between(i)' = Between(i) \/ Between(i)' = Between(i) - 1)
    BY <1>1 DEF Between
  <2>2. /\ lines - old[i][Len(old[i])] >= Between(i) * MaxLines + Len(Content(live))
        /\ old[i][Len(old[i])] \in Nat /\ Len(Content(live)) \in Nat
    BY FullNumbers
  <2>3. /\ Between(i) * MaxLines \in Int /\ MaxLines \in Nat
        /\ (Between(i) - 1) * MaxLines = Between(i) * MaxLines - MaxLines
    BY <2>1, OneFile
  <2>4. CASE Between(i)' = Between(i)
    BY <2>2, <2>4
  <2>5. CASE Between(i)' = Between(i) - 1
    BY <1>1, <2>2, <2>3, <2>5
  <2> QED
    BY <2>1, <2>4, <2>5
<1>4. PICK lost \in 0 .. lines : Suffix(Files, lost, lines) /\ LossOK(lost)
  BY DEF LogInv
<1>5. LossOK(lost)'
  <2>1. MaxFiles + 1 - kills \in Int /\ MaxFiles + 1 - kills' = (MaxFiles + 1 - kills) - 1
    BY <1>1
  <2>2. /\ (MaxFiles + 1 - kills') * MaxLines = (MaxFiles + 1 - kills) * MaxLines - MaxLines
        /\ (MaxFiles + 1 - kills) * MaxLines \in Int /\ MaxLines \in Nat
    BY <2>1, OneFile
  <2> QED
    BY <1>1, <1>4, <2>2 DEF LossOK
<1>6. Files' = Files
  BY <1>1 DEF Files, FileAt
<1> QED
  BY <1>1, <1>2, <1>3, <1>4, <1>5, <1>6 DEF LogInv

LEMMA LogStutters ==
  ASSUME LogInv, UNCHANGED logVars
  PROVE  LogInv'
<1>1. Files' = Files
  BY DEF logVars, Files, FileAt
<1> QED
  BY <1>1 DEF logVars, LogInv, LogTypeOK, RotationOK, FullOK, Between, LossOK

LEMMA LogIsSuffixHolds == LogInv => LogIsSuffix
<1> SUFFICES ASSUME LogInv PROVE LogIsSuffix
  OBVIOUS
<1>1. PICK lost \in 0 .. lines : Suffix(Files, lost, lines) /\ LossOK(lost)
  BY DEF LogInv
<1>2. \A i \in Places : Files[i] = FileAt(i) /\ FileAt(i) \in Seq(Nat)
  BY ContentIsSeq DEF Files, LogInv
<1>3. UNION {LinesIn(FileAt(i)) : i \in Places} = lost + 1 .. lines
  <2>1. ASSUME NEW m \in UNION {LinesIn(FileAt(i)) : i \in Places}
        PROVE  m \in lost + 1 .. lines
    <3>1. PICK i \in Places : m \in LinesIn(FileAt(i))
      OBVIOUS
    <3>2. PICK k \in DOMAIN FileAt(i) : FileAt(i)[k] = m
      BY <3>1 DEF LinesIn
    <3>3. m \in Int
      BY <1>2, <3>2
    <3> QED
      BY <1>1, <1>2, <3>2, <3>3 DEF Suffix
  <2>2. ASSUME NEW m \in lost + 1 .. lines
        PROVE  m \in UNION {LinesIn(FileAt(i)) : i \in Places}
    <3>1. PICK i \in Places : \E k \in DOMAIN FileAt(i) : FileAt(i)[k] = m
      BY <1>1, <1>2 DEF Suffix
    <3>2. m \in LinesIn(FileAt(i))
      BY <3>1 DEF LinesIn
    <3> QED
      BY <3>2
  <2> QED
    BY <2>1, <2>2
<1>4. \A i \in Places : \A k, l \in DOMAIN FileAt(i) : k < l => FileAt(i)[k] < FileAt(i)[l]
  BY <1>1, <1>2 DEF Suffix
<1>5. ASSUME NEW i \in Places, NEW j \in Places, i < j,
             NEW m \in LinesIn(FileAt(i)), NEW n \in LinesIn(FileAt(j))
      PROVE  n < m
  <2>1. PICK k \in DOMAIN FileAt(i), l \in DOMAIN FileAt(j) : FileAt(i)[k] = m /\ FileAt(j)[l] = n
    BY DEF LinesIn
  <2>2. \A a \in DOMAIN FileAt(i), b \in DOMAIN FileAt(j) : FileAt(j)[b] < FileAt(i)[a]
    BY <1>1, <1>2, <1>5 DEF Suffix
  <2> QED
    BY <2>1, <2>2
<1> QED
  BY <1>1, <1>3, <1>4, <1>5 DEF LogIsSuffix, LossOK

\* Wherever the process is killed, the files of the event log are the last
\* lines that were logged, each once and in order, and a kill costs at most one
\* file (JsonlLogger::RotateIfNeeded).
THEOREM LogSuffix == LogSpec => []LogIsSuffix
<1>1. LogInv /\ [LogNext]_logVars => LogInv'
  BY LogKeeps, RemoveOldestKeeps, ShiftKeeps, MoveLiveKeeps, OpenLiveKeeps, KillKeeps, LogStutters
  DEF LogNext
<1> QED
  BY <1>1, LogInitKeeps, LogIsSuffixHolds, PTL DEF LogSpec

-----------------------------------------------------------------------------
(* The verdict on the signal                                               *)
(*                                                                         *)
(* The counters of the run thread are the lengths of the rows of good and  *)
(* of bad windows at the end of those it judged.                           *)

HealthTypeOK ==
  /\ latest \in [level : Nat, snr : Nat, clipped : BOOLEAN, rate_ok : BOOLEAN]
  /\ judge \in [prev : [level : Int, snr : Int], stable : Nat, good : Nat, bad : Nat, ok : BOOLEAN]
  /\ judged \in Seq([heard : BOOLEAN, close : BOOLEAN, sound : BOOLEAN])

\* n of the last of len windows in a row have P, given window by window.
Row(n, len, P) ==
  /\ n \in 0 .. len
  /\ \A k \in len - n + 1 .. len : P[k]
  /\ n < len => ~P[len - n]

Closes == [k \in DOMAIN judged |-> judged[k].close]
Goods  == [k \in DOMAIN judged |-> Good(k)]
Bads   == [k \in DOMAIN judged |-> ~Good(k)]

\* The counters of the run thread are the rows at the end of its windows.
CountersOK ==
  /\ Row(judge.stable, Len(judged), Closes)
  /\ Row(judge.good, Len(judged), Goods)
  /\ Row(judge.bad, Len(judged), Bads)

\* A window in which nothing came is never sound.
SoundIsHeard == \A k \in DOMAIN judged : judged[k].sound => judged[k].heard

LatchOK ==
  judge.ok <=> \E i \in DOMAIN judged : Won(i) /\ \A k \in i + 1 .. Len(judged) : ~Dropped(k)

HealthInv == HealthTypeOK /\ CountersOK /\ SoundIsHeard /\ LatchOK

LEMMA RowGrows ==
  ASSUME NEW n, NEW len \in Nat, NEW P, NEW Q, Row(n, len, P),
         \A k \in 1 .. len : Q[k] <=> P[k],
         NEW m, m = IF Q[len + 1] THEN n + 1 ELSE 0
  PROVE  Row(m, len + 1, Q)
<1>1. n \in Nat /\ n <= len
  BY DEF Row
<1>2. CASE Q[len + 1]
  <2>1. m = n + 1 /\ m \in 0 .. len + 1
    BY <1>1, <1>2
  <2>2. \A k \in (len + 1) - m + 1 .. len + 1 : Q[k]
    BY <1>1, <1>2, <2>1 DEF Row
  <2>3. m < len + 1 => ~Q[(len + 1) - m]
    <3> SUFFICES ASSUME m < len + 1 PROVE ~Q[(len + 1) - m]
      OBVIOUS
    <3>1. (len + 1) - m = len - n /\ len - n \in 1 .. len /\ n < len
      BY <1>1, <2>1
    <3> QED
      BY <3>1 DEF Row
  <2> QED
    BY <2>1, <2>2, <2>3 DEF Row
<1>3. CASE ~Q[len + 1]
  BY <1>3 DEF Row
<1> QED
  BY <1>2, <1>3

LEMMA RowReaches ==
  ASSUME NEW n, NEW len \in Nat, NEW P, Row(n, len, P), NEW w \in Nat \ {0}
  PROVE  n >= w <=> len >= w /\ \A k \in len - w + 1 .. len : P[k]
<1>1. n \in Nat /\ n <= len
  BY DEF Row
<1>2. n >= w => len >= w /\ \A k \in len - w + 1 .. len : P[k]
  BY <1>1 DEF Row
<1>3. ASSUME n < w, len >= w
      PROVE  \E k \in len - w + 1 .. len : ~P[k]
  <2>1. len - n \in len - w + 1 .. len /\ n < len
    BY <1>1, <1>3
  <2> QED
    BY <2>1 DEF Row
<1> QED
  BY <1>1, <1>2, <1>3

LEMMA NoWindows ==
  ASSUME judged = <<>>, judge = NewJudge,
         latest \in [level : Nat, snr : Nat, clipped : BOOLEAN, rate_ok : BOOLEAN]
  PROVE  HealthInv
<1>1. Len(judged) = 0 /\ DOMAIN judged = {}
  BY DEF HealthInit
<1>2. judged \in Seq([heard : BOOLEAN, close : BOOLEAN, sound : BOOLEAN])
  BY EmptySeq
<1>3. HealthTypeOK
  BY <1>2 DEF HealthTypeOK, NewJudge, NoPrev
<1>4. CountersOK
  BY <1>1 DEF CountersOK, Row, NewJudge
<1> QED
  BY <1>1, <1>3, <1>4 DEF HealthInv, SoundIsHeard, LatchOK, NewJudge

LEMMA HealthInitKeeps == HealthInit => HealthInv
BY NoWindows DEF HealthInit, NoBlock

LEMMA JudgedAlike ==
  ASSUME HealthInv, judge' = judge, judged' = judged,
         latest' \in [level : Nat, snr : Nat, clipped : BOOLEAN, rate_ok : BOOLEAN]
  PROVE  HealthInv'
<1>1. HealthTypeOK'
  BY DEF HealthInv, HealthTypeOK
<1>2. CountersOK'
  BY DEF HealthInv, CountersOK, Row, Closes, Goods, Bads, Good
<1>3. SoundIsHeard'
  BY DEF HealthInv, SoundIsHeard
<1>4. LatchOK'
  BY DEF HealthInv, LatchOK, Won, Dropped, Good
<1> QED
  BY <1>1, <1>2, <1>3, <1>4 DEF HealthInv

LEMMA AccumulateKeeps ==
  ASSUME HealthInv, Accumulate
  PROVE  HealthInv'
<1>1. latest' \in [level : Nat, snr : Nat, clipped : BOOLEAN, rate_ok : BOOLEAN]
  BY HealthAssumption DEF Accumulate
<1>2. judge' = judge /\ judged' = judged
  BY DEF Accumulate
<1> QED
  BY <1>1, <1>2, JudgedAlike

LEMMA RestartKeeps ==
  ASSUME HealthInv, Restart
  PROVE  HealthInv'
<1>1. /\ judged' = <<>> /\ judge' = NewJudge
      /\ latest' \in [level : Nat, snr : Nat, clipped : BOOLEAN, rate_ok : BOOLEAN]
  BY DEF Restart, HealthInv, HealthTypeOK
<1>2. Len(judged') = 0 /\ DOMAIN judged' = {}
  BY <1>1
<1>3. HealthTypeOK'
  BY <1>1, EmptySeq DEF HealthTypeOK, NewJudge, NoPrev
<1>4. CountersOK'
  BY <1>1, <1>2 DEF CountersOK, Row, NewJudge
<1> QED
  BY <1>1, <1>2, <1>3, <1>4 DEF HealthInv, SoundIsHeard, LatchOK, NewJudge

(* What a report does: one window more, and the counters of the verdict.   *)
LEMMA ReportAdds ==
  ASSUME HealthInv, Report
  PROVE  \E w \in [heard : BOOLEAN, close : BOOLEAN, sound : BOOLEAN] :
           /\ judged' = Append(judged, w) /\ (w.sound => w.heard)
           /\ HealthTypeOK'
           /\ judge'.stable = IF w.close THEN judge.stable + 1 ELSE 0
           /\ judge'.good = IF w.sound /\ judge'.stable >= StableWindows THEN judge.good + 1 ELSE 0
           /\ judge'.bad = IF judge'.good > 0 THEN 0 ELSE judge.bad + 1
           /\ judge'.ok = Latch(judge.ok, judge'.good, judge'.bad)
<1>1. PICK level \in Means(window.levels),
           clipping \in IF TRUE \in window.clipped THEN window.clipped ELSE {FALSE} :
        LET close == Close(judge.prev, level, latest.snr)
            sound == Sound(level, latest.snr, clipping, latest.rate_ok)
        IN  /\ judge' = [Verdict(judge, sound, IF close THEN judge.stable + 1 ELSE 0)
                           EXCEPT !.prev = [level |-> level, snr |-> latest.snr]]
            /\ judged' = Append(judged, [heard |-> window # Empty, close |-> close, sound |-> sound])
  BY DEF Report
<1> DEFINE close == Close(judge.prev, level, latest.snr)
           sound == Sound(level, latest.snr, clipping, latest.rate_ok)
           w == [heard |-> window # Empty, close |-> close, sound |-> sound]
           stable == IF close THEN judge.stable + 1 ELSE 0
           good == IF sound /\ stable >= StableWindows THEN judge.good + 1 ELSE 0
           bad == IF good > 0 THEN 0 ELSE judge.bad + 1
           ok == Latch(judge.ok, good, bad)
<1>2. level \in Int /\ latest.snr \in Int /\ latest' = latest
  BY DEF Means, Report, HealthInv, HealthTypeOK
<1>3. close \in BOOLEAN /\ sound \in BOOLEAN /\ (window # Empty) \in BOOLEAN
  BY DEF Close, Sound
<1>4. sound => window # Empty
  <2>1. window = Empty => level = 0
    BY <1>1 DEF Means, Empty
  <2> QED
    BY <2>1, HealthAssumption DEF Sound
<1>5. stable \in Nat /\ good \in Nat /\ bad \in Nat
  BY <1>3 DEF HealthInv, HealthTypeOK
<1>6. ok \in BOOLEAN
  <2>1. judge.ok \in BOOLEAN
    BY DEF HealthInv, HealthTypeOK
  <2>2. ok = IF judge.ok THEN bad < OffWindows ELSE good >= OnWindows
    BY DEF Latch
  <2>3. (bad < OffWindows) \in BOOLEAN /\ (good >= OnWindows) \in BOOLEAN
    OBVIOUS
  <2> HIDE DEF ok, bad, good
  <2> QED
    BY <2>1, <2>2, <2>3, Zenon
<1>7. judge' = [Verdict(judge, sound, stable) EXCEPT !.prev = [level |-> level, snr |-> latest.snr]]
      /\ judged' = Append(judged, w)
  BY <1>1
<1>8. Verdict(judge, sound, stable)
        = [judge EXCEPT !.stable = stable, !.good = good, !.bad = bad, !.ok = ok]
  BY DEF Verdict
<1> HIDE DEF close, sound, stable, good, bad, ok
<1>9. judge' = [prev |-> [level |-> level, snr |-> latest.snr],
                stable |-> stable, good |-> good, bad |-> bad, ok |-> ok]
  BY <1>7, <1>8 DEF HealthInv, HealthTypeOK
<1>10. w \in [heard : BOOLEAN, close : BOOLEAN, sound : BOOLEAN]
  BY <1>3
<1>11. judged' \in Seq([heard : BOOLEAN, close : BOOLEAN, sound : BOOLEAN])
  BY <1>7, <1>10, AppendProperties DEF HealthInv, HealthTypeOK
<1>12. HealthTypeOK'
  <2>1. judge' \in [prev : [level : Int, snr : Int], stable : Nat, good : Nat, bad : Nat, ok : BOOLEAN]
    BY <1>2, <1>5, <1>6, <1>9
  <2> QED
    BY <1>2, <1>11, <2>1 DEF HealthTypeOK, HealthInv
<1>13. /\ judge'.stable = stable /\ judge'.good = good /\ judge'.bad = bad /\ judge'.ok = ok
  BY <1>9
<1>14. w.close = close /\ w.sound = sound /\ (w.sound => w.heard)
  BY <1>4
<1>15. /\ judge'.stable = IF w.close THEN judge.stable + 1 ELSE 0
       /\ judge'.good = IF w.sound /\ judge'.stable >= StableWindows THEN judge.good + 1 ELSE 0
       /\ judge'.bad = IF judge'.good > 0 THEN 0 ELSE judge.bad + 1
  BY <1>13, <1>14 DEF stable, good, bad
<1>16. judge'.ok = Latch(judge.ok, judge'.good, judge'.bad)
  BY <1>13 DEF ok
<1> QED
  BY <1>7, <1>10, <1>12, <1>14, <1>15, <1>16

LEMMA ReportKeeps ==
  ASSUME HealthInv, Report
  PROVE  HealthInv'
<1>1. PICK w \in [heard : BOOLEAN, close : BOOLEAN, sound : BOOLEAN] :
           /\ judged' = Append(judged, w) /\ (w.sound => w.heard)
           /\ HealthTypeOK'
           /\ judge'.stable = IF w.close THEN judge.stable + 1 ELSE 0
           /\ judge'.good = IF w.sound /\ judge'.stable >= StableWindows THEN judge.good + 1 ELSE 0
           /\ judge'.bad = IF judge'.good > 0 THEN 0 ELSE judge.bad + 1
           /\ judge'.ok = Latch(judge.ok, judge'.good, judge'.bad)
  BY ReportAdds
<1>2. PICK n \in Nat : n = Len(judged)
  BY DEF HealthInv, HealthTypeOK
<1>3. /\ DOMAIN judged = 1 .. n /\ DOMAIN judged' = 1 .. n + 1
      /\ Len(judged') = n + 1 /\ Len(judged) = n
      /\ judged'[n + 1] = w /\ \A k \in 1 .. n : judged'[k] = judged[k]
  BY <1>1, <1>2, AppendProperties DEF HealthInv, HealthTypeOK
<1>4. /\ StableWindows \in Nat \ {0} /\ OnWindows \in Nat \ {0} /\ OffWindows \in Nat \ {0}
      /\ n + 1 \in Nat
  BY HealthAssumption
<1>5. /\ judge.stable \in Nat /\ judge.good \in Nat /\ judge.bad \in Nat
      /\ judge'.stable \in Nat /\ judge'.good \in Nat /\ judge'.bad \in Nat
  BY <1>1 DEF HealthInv, HealthTypeOK
<1>6. SoundIsHeard'
  BY <1>1, <1>3 DEF HealthInv, SoundIsHeard
\* What was said of the windows before stays.
<1>7. \A k \in 1 .. n : Good(k)' <=> Good(k)
  BY <1>3, <1>4 DEF Good
<1>8. Row(judge'.stable, n + 1, Closes')
  <2>1. \A k \in 1 .. n : Closes'[k] <=> Closes[k]
    BY <1>3 DEF Closes
  <2>2. Closes'[n + 1] <=> w.close
    BY <1>3 DEF Closes
  <2>3. Row(judge.stable, n, Closes)
    BY <1>2 DEF HealthInv, CountersOK
  <2> QED
    BY <1>1, <2>1, <2>2, <2>3, RowGrows
<1>9. Good(n + 1)' <=> w.sound /\ judge'.stable >= StableWindows
  <2>1. Good(n + 1)' <=> /\ judged'[n + 1].sound /\ n + 1 >= StableWindows
                         /\ \A k \in (n + 1) - StableWindows + 1 .. n + 1 : judged'[k].close
    BY DEF Good
  <2>2. judge'.stable >= StableWindows
          <=> n + 1 >= StableWindows /\ \A k \in (n + 1) - StableWindows + 1 .. n + 1 : Closes'[k]
    BY <1>4, <1>8, RowReaches
  <2>3. \A k \in 1 .. n + 1 : Closes'[k] <=> judged'[k].close
    BY <1>3 DEF Closes
  <2> QED
    BY <1>3, <1>4, <2>1, <2>2, <2>3
<1>10. Row(judge'.good, n + 1, Goods')
  <2>1. \A k \in 1 .. n : Goods'[k] <=> Goods[k]
    BY <1>3, <1>7 DEF Goods
  <2>2. Goods'[n + 1] <=> w.sound /\ judge'.stable >= StableWindows
    BY <1>3, <1>9 DEF Goods
  <2>3. Row(judge.good, n, Goods)
    BY <1>2 DEF HealthInv, CountersOK
  <2>4. judge'.good = IF Goods'[n + 1] THEN judge.good + 1 ELSE 0
    BY <1>1, <2>2
  <2> QED
    BY <2>1, <2>3, <2>4, RowGrows
<1>11. Row(judge'.bad, n + 1, Bads')
  <2>1. \A k \in 1 .. n : Bads'[k] <=> Bads[k]
    BY <1>3, <1>7 DEF Bads
  <2>2. Bads'[n + 1] <=> ~(judge'.good > 0)
    <3>1. Bads'[n + 1] <=> ~Good(n + 1)'
      <4>1. n + 1 \in DOMAIN judged'
        BY <1>3
      <4> QED
        BY <4>1 DEF Bads
    <3> QED
      BY <1>1, <1>5, <1>9, <3>1
  <2>3. Row(judge.bad, n, Bads)
    BY <1>2 DEF HealthInv, CountersOK
  <2>4. judge'.bad = IF Bads'[n + 1] THEN judge.bad + 1 ELSE 0
    BY <1>1, <2>2
  <2> QED
    BY <2>1, <2>3, <2>4, RowGrows
<1>12. Won(n + 1)' <=> judge'.good >= OnWindows
  <2>1. judge'.good >= OnWindows
          <=> n + 1 >= OnWindows /\ \A k \in (n + 1) - OnWindows + 1 .. n + 1 : Goods'[k]
    BY <1>4, <1>10, RowReaches
  <2>2. \A k \in 1 .. n + 1 : Goods'[k] <=> Good(k)'
    BY <1>3 DEF Goods
  <2> QED
    BY <1>4, <2>1, <2>2 DEF Won
<1>13. Dropped(n + 1)' <=> judge'.bad >= OffWindows
  <2>1. judge'.bad >= OffWindows
          <=> n + 1 >= OffWindows /\ \A k \in (n + 1) - OffWindows + 1 .. n + 1 : Bads'[k]
    BY <1>4, <1>11, RowReaches
  <2>2. \A k \in 1 .. n + 1 : Bads'[k] <=> ~Good(k)'
    BY <1>3 DEF Bads
  <2> QED
    BY <1>4, <2>1, <2>2 DEF Dropped
<1>14. \A k \in 1 .. n : (Won(k)' <=> Won(k)) /\ (Dropped(k)' <=> Dropped(k))
  BY <1>4, <1>7 DEF Won, Dropped
<1>15. LatchOK'
  <2> DEFINE Stands == \E i \in 1 .. n : Won(i) /\ \A k \in i + 1 .. n : ~Dropped(k)
             StandsNow == \E i \in 1 .. n + 1 : Won(i)' /\ \A k \in i + 1 .. n + 1 : ~Dropped(k)'
  <2>1. judge.ok <=> Stands
    BY <1>3 DEF HealthInv, LatchOK
  <2>2. Won(n + 1)' => StandsNow
    BY <1>2
  <2>3. Stands /\ ~Dropped(n + 1)' => StandsNow
    <3> SUFFICES ASSUME Stands, ~Dropped(n + 1)' PROVE StandsNow
      OBVIOUS
    <3>1. PICK i \in 1 .. n : Won(i) /\ \A k \in i + 1 .. n : ~Dropped(k)
      OBVIOUS
    <3>2. i \in 1 .. n + 1 /\ Won(i)' /\ \A k \in i + 1 .. n + 1 : ~Dropped(k)'
      <4>1. \A k \in i + 1 .. n + 1 : k = n + 1 \/ k \in i + 1 .. n
        OBVIOUS
      <4> QED
        BY <1>14, <3>1, <4>1
    <3> QED
      BY <3>2
  <2>4. StandsNow /\ ~Won(n + 1)' => Stands /\ ~Dropped(n + 1)'
    <3> SUFFICES ASSUME StandsNow, ~Won(n + 1)' PROVE Stands /\ ~Dropped(n + 1)'
      OBVIOUS
    <3>1. PICK i \in 1 .. n + 1 : Won(i)' /\ \A k \in i + 1 .. n + 1 : ~Dropped(k)'
      OBVIOUS
    <3>2. i \in 1 .. n
      BY <3>1
    <3> QED
      BY <1>14, <3>1, <3>2
  <2>5. Won(n + 1)' => ~Dropped(n + 1)'
    BY <1>4, <1>12, <1>13, <1>1, <1>5
  <2>6. judge'.ok <=> IF judge.ok THEN ~Dropped(n + 1)' ELSE Won(n + 1)'
    <3>1. judge'.ok = IF judge.ok THEN judge'.bad < OffWindows ELSE judge'.good >= OnWindows
      BY <1>1 DEF Latch
    <3>2. judge'.bad < OffWindows <=> ~(judge'.bad >= OffWindows)
      BY <1>4, <1>5
    <3> QED
      BY <1>12, <1>13, <3>1, <3>2
  <2>7. judge'.ok <=> StandsNow
    <3> HIDE DEF Stands, StandsNow
    <3> QED
      BY <2>1, <2>2, <2>3, <2>4, <2>5, <2>6
  <2> QED
    BY <1>3, <2>7 DEF LatchOK
<1> QED
  BY <1>1, <1>3, <1>6, <1>8, <1>10, <1>11, <1>15 DEF HealthInv, CountersOK

LEMMA VerdictJustifiedHolds == HealthInv => VerdictJustified
<1> SUFFICES ASSUME HealthInv, judge.ok
             PROVE  \E i \in DOMAIN judged : i > Len(judged) - OffWindows /\ judged[i].heard
  BY DEF VerdictJustified, HealthInv, LatchOK
<1>1. PICK n \in Nat : n = Len(judged) /\ DOMAIN judged = 1 .. n
  BY DEF HealthInv, HealthTypeOK
<1>2. PICK i \in 1 .. n : Won(i) /\ \A k \in i + 1 .. n : ~Dropped(k)
  BY <1>1 DEF HealthInv, LatchOK
<1>3. OnWindows \in Nat \ {0} /\ OffWindows \in Nat \ {0}
  BY HealthAssumption
<1>4. \A k \in 1 .. n : Good(k) => judged[k].heard
  BY <1>1 DEF HealthInv, SoundIsHeard, Good
<1>5. Good(i)
  BY <1>2, <1>3 DEF Won
<1>6. CASE i > n - OffWindows
  BY <1>1, <1>2, <1>4, <1>5, <1>6
<1>7. CASE i <= n - OffWindows
  <2>1. n \in i + 1 .. n /\ ~Dropped(n) /\ n >= OffWindows
    BY <1>2, <1>3, <1>7
  <2>2. PICK k \in n - OffWindows + 1 .. n : Good(k)
    BY <2>1 DEF Dropped
  <2>3. k \in 1 .. n /\ k > n - OffWindows
    BY <1>3, <2>1
  <2> QED
    BY <1>1, <1>4, <2>2, <2>3
<1> QED
  BY <1>3, <1>6, <1>7

\* The verdict on a signal follows from the windows of its session.
THEOREM VerdictFollows == HealthSpec => []VerdictJustified
<1>1. ASSUME HealthInv, [HealthNext]_healthVars
      PROVE  HealthInv'
  <2>1. CASE UNCHANGED healthVars
    BY <1>1, <2>1, JudgedAlike DEF healthVars, HealthInv, HealthTypeOK
  <2> QED
    BY <1>1, <2>1, AccumulateKeeps, ReportKeeps, RestartKeeps DEF HealthNext
<1> QED
  BY <1>1, HealthInitKeeps, VerdictJustifiedHolds, PTL DEF HealthSpec
=============================================================================
