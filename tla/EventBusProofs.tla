---------------------------- MODULE EventBusProofs ----------------------------
(***************************************************************************)
(* Proofs about EventBus, for any number of publishers, streams, message   *)
(* classes, any deque length and any number of messages.                   *)
(***************************************************************************)
EXTENDS EventBus, SequenceTheorems, TLAPS

(***************************************************************************)
(* What a publication does to the deque, the base and the history.         *)
(***************************************************************************)
LEMMA PublishEffect ==
  ASSUME BusTypeOK, WindowOK, NEW p \in Publishers, NEW m \in Classes, Publish(p, m)
  PROVE  /\ queue' \in Seq(Classes)
         /\ base' \in Nat /\ base <= base'
         /\ log' \in Seq(Classes)
         /\ Len(log') = Len(log) + 1
         /\ log'[Len(log')] = m
         /\ \A i \in 1 .. Len(log) : log'[i] = log[i]
         /\ WindowOK'
<1> DEFINE g == Append(queue, m)
           e == Excess(g)
<1>1. /\ g \in Seq(Classes)
      /\ Len(g) = Len(queue) + 1
      /\ \A i \in 1 .. Len(queue) : g[i] = queue[i]
      /\ g[Len(queue) + 1] = m
  BY AppendProperties DEF BusTypeOK
<1>2. /\ log' \in Seq(Classes)
      /\ Len(log') = Len(log) + 1
      /\ \A i \in 1 .. Len(log) : log'[i] = log[i]
      /\ log'[Len(log) + 1] = m
  BY AppendProperties DEF BusTypeOK, Publish
<1>3. Len(queue) \in Nat /\ Len(log) \in Nat
  BY LenProperties DEF BusTypeOK
<1>4. /\ e \in Nat
      /\ IF Len(queue) < MaxMessages THEN e = 0 ELSE e = 1 /\ Len(queue) = MaxMessages
  BY <1>1, <1>3, BusAssumption DEF Excess, WindowOK
<1>5. queue' = SubSeq(g, e + 1, Len(g)) /\ base' = base + e
  BY DEF Publish
<1>. HIDE DEF g, e
<1>e. Len(g) \in Nat /\ e \in 0 .. Len(queue) + 1 /\ e + 1 <= Len(g)
  BY <1>1, <1>3, <1>4, BusAssumption
<1>6. \A i \in (e + 1) .. Len(g) : g[i] \in Classes
  BY <1>1, <1>3, <1>4, ElementOfSeq
<1>7. /\ queue' \in Seq(Classes)
      /\ Len(queue') = Len(g) - e
      /\ \A i \in 1 .. Len(queue') : queue'[i] = g[e + i]
  <2>1. /\ SubSeq(g, e + 1, Len(g)) \in Seq(Classes)
        /\ Len(SubSeq(g, e + 1, Len(g)))
             = IF e + 1 <= Len(g) THEN Len(g) - (e + 1) + 1 ELSE 0
        /\ \A i \in 1 .. Len(g) - (e + 1) + 1 :
             SubSeq(g, e + 1, Len(g))[i] = g[(e + 1) + i - 1]
    <3>1. e + 1 \in Int /\ Len(g) \in Int
      BY <1>1, <1>3, <1>4
    <3>. QED
      BY <3>1, <1>6, SubSeqProperties
  <2>2. Len(g) - (e + 1) + 1 = Len(g) - e /\ e + 1 <= Len(g)
    BY <1>e
  <2>3. ASSUME NEW i \in 1 .. Len(g) - e
        PROVE  (e + 1) + i - 1 = e + i
    BY <1>e
  <2>. QED
    BY <2>1, <2>2, <2>3, <1>5
<1>8. base' \in Nat /\ base <= base'
  BY <1>4, <1>5 DEF BusTypeOK
<1>9. WindowOK'
  <2>1. base' + Len(queue') = Len(log')
    <3>1. base \in Nat /\ base + Len(queue) = Len(log)
      BY DEF BusTypeOK, WindowOK
    <3>2. Len(queue') = Len(queue) + 1 - e
      BY <1>1, <1>3, <1>7, <1>e
    <3>3. Len(log') = Len(log) + 1 /\ base' = base + e
      BY <1>2, <1>5
    <3>4. e \in Int /\ Len(queue) \in Int
      BY <1>3, <1>4
    <3>. QED
      BY <3>1, <3>2, <3>3, <3>4
  <2>2. Len(queue') <= MaxMessages
    BY <1>1, <1>3, <1>4, <1>7, BusAssumption DEF WindowOK
  <2>3. base' > 0 => Len(queue') = MaxMessages
    BY <1>1, <1>3, <1>4, <1>5, <1>7, BusAssumption DEF WindowOK, BusTypeOK
  <2>4. ASSUME NEW i \in 1 .. Len(queue')
        PROVE  queue'[i] = log'[base' + i]
    <3>1. queue'[i] = g[e + i] /\ e + i \in 1 .. Len(queue) + 1
      BY <1>1, <1>3, <1>4, <1>7
    <3>2. base' + i = base + (e + i)
      BY <1>3, <1>4, <1>5, <1>7 DEF BusTypeOK
    <3>3. CASE e + i \in 1 .. Len(queue)
      <4>1. g[e + i] = log[base + (e + i)]
        BY <1>1, <3>3 DEF WindowOK
      <4>2. base + (e + i) \in 1 .. Len(log)
        BY <1>3, <3>3 DEF WindowOK, BusTypeOK
      <4>. QED
        BY <4>1, <4>2, <3>1, <3>2, <1>2
    <3>4. CASE e + i = Len(queue) + 1
      <4>1. base + (e + i) = Len(log) + 1
        BY <1>3, <3>4 DEF WindowOK, BusTypeOK
      <4>. QED
        BY <4>1, <3>1, <3>2, <3>4, <1>1, <1>2
    <3>. QED
      BY <3>1, <3>3, <3>4, <1>3
  <2>. QED
    BY <2>1, <2>2, <2>3, <2>4 DEF WindowOK
<1>. QED
  BY <1>2, <1>7, <1>8, <1>9

(***************************************************************************)
(* What a stream reads when there is data for it.                          *)
(***************************************************************************)
LEMMA TakeEffect ==
  ASSUME BusTypeOK, WindowOK, NEW s \in Subscribers, Take(s)
  PROVE  /\ Clamped(s) \in Nat /\ cursor[s] <= Clamped(s) /\ base <= Clamped(s)
         /\ cursor[s] < base => Clamped(s) = base
         /\ cursor[s] >= base => Clamped(s) = cursor[s]
         /\ Clamped(s) + 1 <= Len(log)
         /\ cursor' = [cursor EXCEPT ![s] = Clamped(s) + 1]
         /\ queue[Offset(s) + 1] = log[Clamped(s) + 1]
         /\ queue[Offset(s) + 1] \in Classes
<1>1. Len(queue) \in Nat /\ Len(log) \in Nat
  BY LenProperties DEF BusTypeOK
<1>2. /\ Clamped(s) \in Nat /\ cursor[s] <= Clamped(s) /\ base <= Clamped(s)
      /\ cursor[s] < base => Clamped(s) = base
      /\ cursor[s] >= base => Clamped(s) = cursor[s]
  BY DEF BusTypeOK, Clamped
<1>3. Clamped(s) < base + Len(queue)
  BY DEF Take, HasData, CursorNow
<1>4. Offset(s) + 1 \in 1 .. Len(queue) /\ Clamped(s) + 1 <= Len(log)
  BY <1>1, <1>2, <1>3 DEF BusTypeOK, WindowOK, Offset
<1>5. base + (Offset(s) + 1) = Clamped(s) + 1
  BY <1>2 DEF BusTypeOK, Offset
<1>6. queue[Offset(s) + 1] = log[Clamped(s) + 1]
  BY <1>4, <1>5 DEF WindowOK
<1>7. queue[Offset(s) + 1] \in Classes
  BY <1>4, ElementOfSeq DEF BusTypeOK
<1>. QED
  BY <1>2, <1>4, <1>6, <1>7 DEF Take

-----------------------------------------------------------------------------
(***************************************************************************)
(* Type correctness and the retention window go together: the deque index  *)
(* that a stream reads is inside the deque only because of the window.     *)
(***************************************************************************)
LEMMA WindowStep ==
  ASSUME BusTypeOK, WindowOK, [BusNext]_topicVars
  PROVE  BusTypeOK' /\ WindowOK'
<1>1. ASSUME NEW p \in Publishers, NEW m \in Classes, Publish(p, m)
      PROVE  BusTypeOK' /\ WindowOK'
  <2>1. publisher' \in [Publishers -> {"idle", "notify"}]
    BY <1>1 DEF BusTypeOK, Publish
  <2>2. UNCHANGED <<live, stream, cancelled, filter, start, cursor, held, written>>
    BY <1>1 DEF Publish, streamVars
  <2>. QED
    BY <1>1, <2>1, <2>2, PublishEffect DEF BusTypeOK
<1>2. ASSUME NEW p \in Publishers, Notify(p)
      PROVE  BusTypeOK' /\ WindowOK'
  BY <1>2 DEF BusTypeOK, WindowOK, Notify, WokenStream, StreamStates
<1>3. ASSUME NEW s \in Subscribers, NEW wanted \in SUBSET Classes, Subscribe(s, wanted)
      PROVE  BusTypeOK' /\ WindowOK'
  <2>1. StartCursor \in Nat
    BY LenProperties DEF BusTypeOK, StartCursor, CursorNow
  <2>. QED
    BY <1>3, <2>1 DEF BusTypeOK, WindowOK, Subscribe, busVars, StreamStates
<1>4. ASSUME NEW s \in Subscribers, Cancel(s)
      PROVE  BusTypeOK' /\ WindowOK'
  BY <1>4 DEF BusTypeOK, WindowOK, Cancel, busVars
<1>5. ASSUME NEW s \in Subscribers, Loop(s)
      PROVE  BusTypeOK' /\ WindowOK'
  BY <1>5 DEF BusTypeOK, WindowOK, Loop, busVars, StreamStates
<1>6. ASSUME NEW s \in Subscribers, Take(s)
      PROVE  BusTypeOK' /\ WindowOK'
  <2>1. /\ Clamped(s) + 1 \in Nat
        /\ cursor' = [cursor EXCEPT ![s] = Clamped(s) + 1]
        /\ queue[Offset(s) + 1] \in Classes
    BY <1>6, TakeEffect
  <2>2. /\ stream' \in [Subscribers -> StreamStates]
        /\ held' \in [Subscribers -> Classes \union {NoMessage}]
    BY <1>6, <2>1 DEF BusTypeOK, Take, StreamStates
  <2>. QED
    BY <1>6, <2>1, <2>2 DEF BusTypeOK, WindowOK, Take, busVars
<1>7. ASSUME NEW s \in Subscribers, NEW state \in {"blocked", "loop"}, Miss(s, state)
      PROVE  BusTypeOK' /\ WindowOK'
  BY <1>7 DEF BusTypeOK, WindowOK, Miss, Clamped, busVars, StreamStates
<1>8. ASSUME NEW s \in Subscribers, WriteOk(s)
      PROVE  BusTypeOK' /\ WindowOK'
  <2>1. Append(written[s], cursor[s]) \in Seq(Nat)
    BY AppendProperties DEF BusTypeOK
  <2>. QED
    BY <1>8, <2>1 DEF BusTypeOK, WindowOK, WriteOk, busVars, StreamStates
<1>9. ASSUME NEW s \in Subscribers, WriteFails(s)
      PROVE  BusTypeOK' /\ WindowOK'
  BY <1>9 DEF BusTypeOK, WindowOK, WriteFails, busVars, StreamStates
<1>10. CASE UNCHANGED topicVars
  BY <1>10 DEF BusTypeOK, WindowOK, topicVars, busVars, streamVars
<1>. QED
  BY <1>1, <1>2, <1>3, <1>4, <1>5, <1>6, <1>7, <1>8, <1>9, <1>10
  DEF BusNext, Handler, Check, WaitTimeout

(* Every variable keeps its type, whatever the number of streams. *)
THEOREM Typing == BusSpec => []BusTypeOK
<1>1. BusInit => BusTypeOK /\ WindowOK
  BY BusAssumption DEF BusInit, BusTypeOK, WindowOK, StreamStates
<1>2. BusTypeOK /\ WindowOK /\ [BusNext]_topicVars => (BusTypeOK /\ WindowOK)'
  BY WindowStep
<1>. QED
  BY <1>1, <1>2, PTL DEF BusSpec

(* The deque is the newest part of the history and never too long. *)
THEOREM Window == BusSpec => []WindowOK
<1>1. BusInit => BusTypeOK /\ WindowOK
  BY BusAssumption DEF BusInit, BusTypeOK, WindowOK, StreamStates
<1>2. BusTypeOK /\ WindowOK /\ [BusNext]_topicVars => (BusTypeOK /\ WindowOK)'
  BY WindowStep
<1>. QED
  BY <1>1, <1>2, PTL DEF BusSpec

-----------------------------------------------------------------------------
(***************************************************************************)
(* No stream sleeps on a message with no notification on its way.          *)
(***************************************************************************)
LEMMA WakeupStep ==
  ASSUME BusTypeOK, NoLostWakeup, [BusNext]_topicVars
  PROVE  NoLostWakeup'
<1> USE DEF NoLostWakeup, HasData, Clamped, CursorNow
<1>1. ASSUME NEW p \in Publishers, NEW m \in Classes, Publish(p, m)
      PROVE  NoLostWakeup'
  BY <1>1 DEF BusTypeOK, Publish
<1>2. ASSUME NEW p \in Publishers, Notify(p)
      PROVE  NoLostWakeup'
  BY <1>2 DEF BusTypeOK, Notify, WokenStream
<1>3. ASSUME NEW s \in Subscribers, NEW wanted \in SUBSET Classes, Subscribe(s, wanted)
      PROVE  NoLostWakeup'
  BY <1>3 DEF BusTypeOK, Subscribe, busVars
<1>4. ASSUME NEW s \in Subscribers, Cancel(s)
      PROVE  NoLostWakeup'
  BY <1>4 DEF BusTypeOK, Cancel, busVars
<1>5. ASSUME NEW s \in Subscribers, Loop(s)
      PROVE  NoLostWakeup'
  BY <1>5 DEF BusTypeOK, Loop, busVars
<1>6. ASSUME NEW s \in Subscribers, Take(s)
      PROVE  NoLostWakeup'
  BY <1>6 DEF BusTypeOK, Take, busVars
<1>7. ASSUME NEW s \in Subscribers, NEW state \in {"blocked", "loop"}, Miss(s, state)
      PROVE  NoLostWakeup'
  BY <1>7 DEF BusTypeOK, Miss, busVars
<1>8. ASSUME NEW s \in Subscribers, WriteOk(s) \/ WriteFails(s)
      PROVE  NoLostWakeup'
  BY <1>8 DEF BusTypeOK, WriteOk, WriteFails, busVars
<1>9. CASE UNCHANGED topicVars
  BY <1>9 DEF topicVars, busVars, streamVars
<1>. QED
  BY <1>1, <1>2, <1>3, <1>4, <1>5, <1>6, <1>7, <1>8, <1>9
  DEF BusNext, Handler, Check, WaitTimeout

(* A stream never waits for the timeout with a message in the deque. *)
THEOREM Wakeup == BusSpec => []NoLostWakeup
<1>1. BusInit => NoLostWakeup
  BY DEF BusInit, NoLostWakeup
<1>2. BusTypeOK /\ NoLostWakeup /\ [BusNext]_topicVars => NoLostWakeup'
  BY WakeupStep
<1>. QED
  BY <1>1, <1>2, Typing, PTL DEF BusSpec

-----------------------------------------------------------------------------
(***************************************************************************)
(* Where a stream stands: between its start and the end of the history,    *)
(* with everything written to it behind its cursor.                        *)
(***************************************************************************)
CursorOK ==
  \A s \in Subscribers :
    /\ start[s] <= cursor[s]
    /\ cursor[s] <= Len(log)
    /\ stream[s] = "none" => written[s] = <<>>

WrittenOK ==
  \A s \in Subscribers : \A k \in 1 .. Len(written[s]) :
    /\ written[s][k] <= cursor[s]
    /\ stream[s] = "write" => written[s][k] < cursor[s]

(* The inductive invariant: the parts above with the three properties that *)
(* need one another. *)
StreamInv ==
  /\ BusTypeOK
  /\ WindowOK
  /\ CursorOK
  /\ HeldOK
  /\ WrittenOK
  /\ InOrder
  /\ LossOnlyByOverwrite

StreamParts == CursorOK /\ HeldOK /\ WrittenOK /\ InOrder /\ LossOnlyByOverwrite

(* A publication moves the base up and leaves what is behind it alone. *)
LEMMA PublishStep ==
  ASSUME StreamInv, NEW p \in Publishers, NEW m \in Classes, Publish(p, m)
  PROVE  StreamParts'
<1>1. /\ base \in Nat /\ base' \in Nat /\ base <= base'
      /\ Len(log) \in Nat /\ Len(log') = Len(log) + 1
      /\ \A i \in 1 .. Len(log) : log'[i] = log[i]
  BY PublishEffect, LenProperties DEF StreamInv, BusTypeOK
<1>2. UNCHANGED <<stream, filter, start, cursor, held, written>>
  BY DEF Publish, streamVars
<1>3. \A s \in Subscribers : start[s] \in Nat /\ cursor[s] \in Nat
  BY DEF StreamInv, BusTypeOK
<1>4. CursorOK' /\ HeldOK'
  BY <1>1, <1>2, <1>3 DEF StreamInv, CursorOK, HeldOK
<1>5. WrittenOK' /\ InOrder'
  BY <1>2 DEF StreamInv, WrittenOK, InOrder
<1>6. LossOnlyByOverwrite'
  <2> SUFFICES ASSUME NEW s \in Subscribers, Open(s), NEW i \in (start[s] + 1) .. cursor[s],
                      base' < i, log'[i] \in filter[s]
               PROVE  \/ \E k \in 1 .. Len(written[s]) : written[s][k] = i
                      \/ stream[s] = "write" /\ i = cursor[s]
    BY <1>2 DEF LossOnlyByOverwrite, Open
  <2>1. i \in 1 .. Len(log) /\ base < i
    BY <1>1, <1>3 DEF StreamInv, CursorOK
  <2>. QED
    BY <1>1, <2>1 DEF StreamInv, LossOnlyByOverwrite
<1>. QED
  BY <1>4, <1>5, <1>6 DEF StreamParts

(* A message is taken: what the cursor passes over was dropped, and the    *)
(* message itself is written next or is not wanted.                        *)
LEMMA TakeStep ==
  ASSUME StreamInv, NEW s \in Subscribers, stream[s] \in {"check", "blocked"}, Take(s)
  PROVE  StreamParts'
<1> DEFINE c == Clamped(s)
<1>1. /\ c \in Nat /\ cursor[s] <= c /\ base <= c
      /\ cursor[s] < base => c = base
      /\ cursor[s] >= base => c = cursor[s]
      /\ c + 1 <= Len(log)
      /\ cursor' = [cursor EXCEPT ![s] = c + 1]
      /\ queue[Offset(s) + 1] = log[c + 1]
  BY TakeEffect DEF StreamInv
<1>2. /\ UNCHANGED <<log, base, filter, start, written>>
      /\ \/ /\ log[c + 1] \in filter[s]
            /\ stream' = [stream EXCEPT ![s] = "write"]
            /\ held' = [held EXCEPT ![s] = log[c + 1]]
         \/ /\ log[c + 1] \notin filter[s]
            /\ stream' = [stream EXCEPT ![s] = "loop"]
            /\ held' = held
  BY <1>1 DEF Take, busVars
<1>3. /\ stream \in [Subscribers -> StreamStates]
      /\ held \in [Subscribers -> Classes \union {NoMessage}]
      /\ cursor \in [Subscribers -> Nat] /\ start \in [Subscribers -> Nat]
      /\ written \in [Subscribers -> Seq(Nat)]
      /\ base \in Nat /\ Len(log) \in Nat
  BY LenProperties DEF StreamInv, BusTypeOK
<1> HIDE DEF c
<1>4. CursorOK'
  BY <1>1, <1>2, <1>3 DEF StreamInv, CursorOK
<1>5. HeldOK'
  BY <1>1, <1>2, <1>3 DEF StreamInv, HeldOK
<1>6. WrittenOK'
  <2> SUFFICES ASSUME NEW t \in Subscribers, NEW k \in 1 .. Len(written[t])
               PROVE  /\ written[t][k] <= cursor'[t]
                      /\ stream'[t] = "write" => written[t][k] < cursor'[t]
    BY <1>2 DEF WrittenOK
  <2>1. written[t][k] \in Nat /\ cursor[t] \in Nat
    BY <1>3, ElementOfSeq
  <2>. QED
    BY <2>1, <1>1, <1>2, <1>3 DEF StreamInv, WrittenOK
<1>7. InOrder'
  BY <1>2 DEF StreamInv, InOrder
<1>8. LossOnlyByOverwrite'
  <2> SUFFICES ASSUME NEW t \in Subscribers, Open(t)',
                      NEW i \in (start[t] + 1) .. cursor'[t],
                      base < i, log[i] \in filter[t]
               PROVE  \/ \E k \in 1 .. Len(written[t]) : written[t][k] = i
                      \/ stream'[t] = "write" /\ i = cursor'[t]
    BY <1>2 DEF LossOnlyByOverwrite
  <2>1. CASE t # s
    BY <2>1, <1>1, <1>2, <1>3 DEF StreamInv, LossOnlyByOverwrite, Open
  <2>2. CASE t = s /\ i = c + 1
    BY <2>2, <1>1, <1>2, <1>3
  <2>3. CASE t = s /\ i # c + 1
    <3>1. i \in (start[s] + 1) .. cursor[s]
      BY <2>3, <1>1, <1>3
    <3>2. Open(s) /\ stream[s] # "write"
      BY DEF Open
    <3>. QED
      BY <2>3, <3>1, <3>2 DEF StreamInv, LossOnlyByOverwrite
  <2>. QED
    BY <2>1, <2>2, <2>3
<1>. QED
  BY <1>4, <1>5, <1>6, <1>7, <1>8 DEF StreamParts

(* No data: the cursor moves over dropped messages at most. *)
LEMMA MissStep ==
  ASSUME StreamInv, NEW s \in Subscribers, stream[s] \in {"check", "blocked"},
         NEW state \in {"blocked", "loop"}, Miss(s, state)
  PROVE  StreamParts'
<1>1. /\ base \in Nat /\ Len(queue) \in Nat /\ base + Len(queue) = Len(log)
      /\ cursor \in [Subscribers -> Nat] /\ start \in [Subscribers -> Nat]
      /\ stream \in [Subscribers -> StreamStates]
  BY LenProperties DEF StreamInv, BusTypeOK, WindowOK
<1>2. /\ UNCHANGED <<log, base, filter, start, held, written>>
      /\ cursor' = [cursor EXCEPT ![s] = Clamped(s)]
      /\ stream' = [stream EXCEPT ![s] = state]
  BY DEF Miss, busVars
<1>3. /\ Clamped(s) \in Nat /\ cursor[s] <= Clamped(s) /\ Clamped(s) <= Len(log)
      /\ cursor[s] < Clamped(s) => Clamped(s) = base
  BY <1>1 DEF Clamped, StreamInv, CursorOK
<1>4. CursorOK' /\ HeldOK'
  BY <1>1, <1>2, <1>3 DEF StreamInv, CursorOK, HeldOK
<1>5. WrittenOK'
  <2> SUFFICES ASSUME NEW t \in Subscribers, NEW k \in 1 .. Len(written[t])
               PROVE  /\ written[t][k] <= cursor'[t]
                      /\ stream'[t] = "write" => written[t][k] < cursor'[t]
    BY <1>2 DEF WrittenOK
  <2>1. written[t][k] \in Nat
    BY ElementOfSeq DEF StreamInv, BusTypeOK
  <2>. QED
    BY <2>1, <1>1, <1>2, <1>3 DEF StreamInv, WrittenOK
<1>6. InOrder'
  BY <1>2 DEF StreamInv, InOrder
<1>7. LossOnlyByOverwrite'
  <2> SUFFICES ASSUME NEW t \in Subscribers, Open(t)',
                      NEW i \in (start[t] + 1) .. cursor'[t],
                      base < i, log[i] \in filter[t]
               PROVE  \/ \E k \in 1 .. Len(written[t]) : written[t][k] = i
                      \/ stream'[t] = "write" /\ i = cursor'[t]
    BY <1>2 DEF LossOnlyByOverwrite
  <2>1. i \in (start[t] + 1) .. cursor[t]
    BY <1>1, <1>2, <1>3
  <2>. QED
    BY <2>1, <1>1, <1>2 DEF StreamInv, LossOnlyByOverwrite, Open
<1>. QED
  BY <1>4, <1>5, <1>6, <1>7 DEF StreamParts

(* A message is written: its number joins the history, above all others. *)
LEMMA WriteStep ==
  ASSUME StreamInv, NEW s \in Subscribers, WriteOk(s)
  PROVE  StreamParts'
<1> DEFINE grown == Append(written[s], cursor[s])
<1>1. /\ cursor \in [Subscribers -> Nat] /\ start \in [Subscribers -> Nat]
      /\ stream \in [Subscribers -> StreamStates]
      /\ written \in [Subscribers -> Seq(Nat)]
  BY DEF StreamInv, BusTypeOK
<1>2. /\ Len(written[s]) \in Nat
      /\ Len(grown) = Len(written[s]) + 1
      /\ \A k \in 1 .. Len(written[s]) : grown[k] = written[s][k]
      /\ grown[Len(written[s]) + 1] = cursor[s]
  BY <1>1, AppendProperties, LenProperties
<1> HIDE DEF grown
<1>3. /\ UNCHANGED <<log, base, filter, start, cursor>>
      /\ stream[s] = "write"
      /\ stream' = [stream EXCEPT ![s] = "loop"]
      /\ written' = [written EXCEPT ![s] = grown]
      /\ \A t \in Subscribers : t # s => held'[t] = held[t]
  BY DEF WriteOk, busVars, grown, StreamInv, BusTypeOK
<1>4. CursorOK' /\ HeldOK'
  BY <1>1, <1>3 DEF StreamInv, CursorOK, HeldOK
<1>5. \A k \in 1 .. Len(written[s]) : written[s][k] < cursor[s]
  BY <1>3 DEF StreamInv, WrittenOK
<1>6. WrittenOK'
  BY <1>1, <1>2, <1>3, <1>5 DEF StreamInv, WrittenOK
<1>7. InOrder'
  BY <1>1, <1>2, <1>3, <1>5 DEF StreamInv, InOrder
<1>8. LossOnlyByOverwrite'
  <2> SUFFICES ASSUME NEW t \in Subscribers, Open(t)',
                      NEW i \in (start[t] + 1) .. cursor[t],
                      base < i, log[i] \in filter[t]
               PROVE  \/ \E k \in 1 .. Len(written'[t]) : written'[t][k] = i
                      \/ stream'[t] = "write" /\ i = cursor[t]
    BY <1>3 DEF LossOnlyByOverwrite
  <2>1. CASE t # s
    BY <2>1, <1>1, <1>3 DEF StreamInv, LossOnlyByOverwrite, Open
  <2>2. CASE t = s
    <3>1. \/ \E k \in 1 .. Len(written[s]) : written[s][k] = i
          \/ i = cursor[s]
      BY <2>2, <1>3 DEF StreamInv, LossOnlyByOverwrite, Open
    <3>2. \E k \in 1 .. Len(grown) : grown[k] = i
      BY <3>1, <1>2
    <3>. QED
      BY <3>2, <2>2, <1>1, <1>3
  <2>. QED
    BY <2>1, <2>2
<1>. QED
  BY <1>4, <1>6, <1>7, <1>8 DEF StreamParts

LEMMA StreamInvStep ==
  ASSUME StreamInv, [BusNext]_topicVars
  PROVE  StreamInv'
<1>1. BusTypeOK' /\ WindowOK'
  BY WindowStep DEF StreamInv
<1>2. ASSUME NEW p \in Publishers, Notify(p)
      PROVE  StreamParts'
  BY <1>2 DEF StreamInv, BusTypeOK, StreamParts, CursorOK, HeldOK, WrittenOK, InOrder,
     LossOnlyByOverwrite, Open, Notify, WokenStream, StreamStates
<1>3. ASSUME NEW s \in Subscribers, NEW wanted \in SUBSET Classes, Subscribe(s, wanted)
      PROVE  StreamParts'
  <2>1. StartCursor \in Nat /\ StartCursor <= Len(log)
    BY LenProperties DEF StreamInv, BusTypeOK, WindowOK, StartCursor, CursorNow
  <2>2. written[s] = <<>>
    BY <1>3 DEF StreamInv, CursorOK, Subscribe
  <2>3. /\ UNCHANGED <<log, base, held, written>>
        /\ stream' = [stream EXCEPT ![s] = "loop"]
        /\ filter' = [filter EXCEPT ![s] = wanted]
        /\ start' = [start EXCEPT ![s] = StartCursor]
        /\ cursor' = [cursor EXCEPT ![s] = StartCursor]
    BY <1>3 DEF Subscribe, busVars
  <2>4. CursorOK' /\ HeldOK'
    BY <2>1, <2>3 DEF StreamInv, BusTypeOK, CursorOK, HeldOK
  <2>5. WrittenOK'
    BY <2>1, <2>2, <2>3 DEF StreamInv, BusTypeOK, WrittenOK
  <2>6. InOrder'
    BY <2>3 DEF StreamInv, InOrder
  <2>7. LossOnlyByOverwrite'
    BY <2>1, <2>3 DEF StreamInv, BusTypeOK, LossOnlyByOverwrite, Open
  <2>. QED
    BY <2>4, <2>5, <2>6, <2>7 DEF StreamParts
<1>4. ASSUME NEW s \in Subscribers, Cancel(s)
      PROVE  StreamParts'
  BY <1>4 DEF StreamInv, StreamParts, CursorOK, HeldOK, WrittenOK, InOrder,
     LossOnlyByOverwrite, Open, Cancel, busVars
<1>5. ASSUME NEW s \in Subscribers, Loop(s)
      PROVE  StreamParts'
  BY <1>5 DEF StreamInv, BusTypeOK, StreamParts, CursorOK, HeldOK, WrittenOK, InOrder,
     LossOnlyByOverwrite, Open, Loop, busVars
<1>6. ASSUME NEW s \in Subscribers, WriteFails(s)
      PROVE  StreamParts'
  BY <1>6 DEF StreamInv, BusTypeOK, StreamParts, CursorOK, HeldOK, WrittenOK, InOrder,
     LossOnlyByOverwrite, Open, WriteFails, busVars
<1>7. ASSUME UNCHANGED topicVars
      PROVE  StreamParts'
  <2>1. UNCHANGED <<log, base, stream, filter, start, cursor, held, written>>
    BY <1>7 DEF topicVars, busVars, streamVars
  <2>2. CursorOK' /\ HeldOK' /\ WrittenOK' /\ InOrder'
    BY <2>1 DEF StreamInv, CursorOK, HeldOK, WrittenOK, InOrder
  <2>3. LossOnlyByOverwrite'
    BY <2>1 DEF StreamInv, LossOnlyByOverwrite, Open
  <2>. QED
    BY <2>2, <2>3 DEF StreamParts
<1>8. ASSUME NEW s \in Subscribers, Check(s) \/ WaitTimeout(s)
      PROVE  StreamParts'
  <2>1. stream[s] \in {"check", "blocked"}
    BY <1>8 DEF Check, WaitTimeout
  <2>2. Take(s) \/ Miss(s, "blocked") \/ Miss(s, "loop")
    BY <1>8 DEF Check, WaitTimeout
  <2>. QED
    BY <2>1, <2>2, TakeStep, MissStep
<1>9. StreamParts'
  BY <1>2, <1>3, <1>4, <1>5, <1>6, <1>7, <1>8, PublishStep, WriteStep
  DEF BusNext, Handler
<1>. QED
  BY <1>1, <1>9 DEF StreamInv, StreamParts

LEMMA StreamInvInit ==
  BusInit => StreamInv
BY BusAssumption DEF BusInit, StreamInv, BusTypeOK, WindowOK, StreamStates, CursorOK, HeldOK,
   WrittenOK, InOrder, LossOnlyByOverwrite, Open

\* The topic's deque and every stream that reads it stay as StreamInv says: the
\* window, the cursors, what is held and what has been written.
THEOREM StreamInvariant == BusSpec => []StreamInv
<1>1. BusInit => StreamInv
  BY StreamInvInit
<1>2. StreamInv /\ [BusNext]_topicVars => StreamInv'
  BY StreamInvStep
<1>. QED
  BY <1>1, <1>2, PTL DEF BusSpec

(* A client gets messages in publication order and none twice. *)
THEOREM Order == BusSpec => []InOrder
<1>1. StreamInv => InOrder
  BY DEF StreamInv
<1>. QED
  BY <1>1, StreamInvariant, PTL

(* What is written is the published message, and one that was asked for. *)
THEOREM Held == BusSpec => []HeldOK
<1>1. StreamInv => HeldOK
  BY DEF StreamInv
<1>. QED
  BY <1>1, StreamInvariant, PTL

(* Only overwritten messages are lost. *)
THEOREM Loss == BusSpec => []LossOnlyByOverwrite
<1>1. StreamInv => LossOnlyByOverwrite
  BY DEF StreamInv
<1>. QED
  BY <1>1, StreamInvariant, PTL

-----------------------------------------------------------------------------
(***************************************************************************)
(* The topic and its streams implement LossyFeed: subscribing is Attach,   *)
(* a publication is Publish, taking a message is Read, the rest stutters.  *)
(***************************************************************************)
LEMMA FeedInit ==
  BusInit => Feed!Init
BY DEF BusInit, Feed!Init

LEMMA FeedStep ==
  ASSUME StreamInv, [BusNext]_topicVars
  PROVE  [Feed!Next]_(Feed!feedVars)
<1> USE DEF Feed!feedVars
<1>1. ASSUME NEW p \in Publishers, NEW m \in Classes, Publish(p, m)
      PROVE  Feed!Next
  BY <1>1 DEF Publish, streamVars, Feed!Next, Feed!Publish
<1>2. ASSUME NEW p \in Publishers, Notify(p)
      PROVE  UNCHANGED Feed!feedVars
  BY <1>2 DEF StreamInv, BusTypeOK, Notify, WokenStream
<1>3. ASSUME NEW s \in Subscribers, NEW wanted \in SUBSET Classes, Subscribe(s, wanted)
      PROVE  Feed!Next
  <2>1. StartCursor \in {0, Len(log)}
    BY DEF StreamInv, WindowOK, StartCursor, CursorNow
  <2>2. Feed!Attach(s)
    BY <1>3, <2>1 DEF StreamInv, BusTypeOK, Subscribe, busVars, Feed!Attach
  <2>. QED
    BY <2>2 DEF Feed!Next
<1>4. ASSUME NEW s \in Subscribers, Cancel(s)
      PROVE  UNCHANGED Feed!feedVars
  BY <1>4 DEF Cancel, busVars
<1>5. ASSUME NEW s \in Subscribers, Loop(s) \/ WriteOk(s) \/ WriteFails(s)
      PROVE  UNCHANGED Feed!feedVars
  BY <1>5 DEF StreamInv, BusTypeOK, Loop, WriteOk, WriteFails, busVars
<1>6. ASSUME NEW s \in Subscribers, stream[s] # "none", Take(s)
      PROVE  Feed!Next
  <2> DEFINE c == Clamped(s)
  <2>1. /\ c \in Nat /\ cursor[s] <= c
        /\ cursor[s] < base => c = base
        /\ cursor[s] >= base => c = cursor[s]
        /\ c + 1 <= Len(log)
        /\ cursor' = [cursor EXCEPT ![s] = c + 1]
    BY <1>6, TakeEffect DEF StreamInv
  <2>2. /\ UNCHANGED log
        /\ {t \in Subscribers : stream'[t] # "none"} = {t \in Subscribers : stream[t] # "none"}
    BY <1>6 DEF StreamInv, BusTypeOK, Take, busVars
  <2>3. /\ Len(log) \in Nat /\ base \in Nat /\ cursor[s] \in Nat
        /\ base > 0 => base + MaxMessages = Len(log)
    BY LenProperties DEF StreamInv, BusTypeOK, WindowOK
  <2> HIDE DEF c
  <2>4. \A j \in cursor[s] .. (c - 1) : j + MaxMessages < Len(log)
    BY <2>1, <2>3, BusAssumption
  <2>5. c \in 0 .. (Len(log) - 1)
    BY <2>1, <2>3
  <2>6. Feed!Read(s, c)
    BY <1>6, <2>1, <2>2, <2>4 DEF Feed!Read
  <2>. QED
    BY <2>5, <2>6 DEF Feed!Next
<1>7. ASSUME NEW s \in Subscribers, stream[s] # "none", NEW state \in {"blocked", "loop"},
             Miss(s, state)
      PROVE  UNCHANGED Feed!feedVars
  <2>1. Clamped(s) = cursor[s]
    BY <1>7, BusAssumption, LenProperties
    DEF StreamInv, BusTypeOK, WindowOK, Miss, HasData, Clamped, CursorNow
  <2>. QED
    BY <1>7, <2>1 DEF StreamInv, BusTypeOK, Miss, busVars
<1>8. ASSUME NEW s \in Subscribers, Check(s) \/ WaitTimeout(s)
      PROVE  Feed!Next \/ UNCHANGED Feed!feedVars
  <2>1. stream[s] # "none" /\ (Take(s) \/ Miss(s, "blocked") \/ Miss(s, "loop"))
    BY <1>8 DEF Check, WaitTimeout
  <2>. QED
    BY <2>1, <1>6, <1>7
<1>9. CASE UNCHANGED topicVars
  BY <1>9 DEF topicVars, busVars, streamVars
<1>. QED
  BY <1>1, <1>2, <1>3, <1>4, <1>5, <1>8, <1>9 DEF BusNext, Handler

(* One topic with all its streams is a lossy feed that keeps MaxMessages. *)
THEOREM Implementation == BusSpec => ImplementsFeed
<1>1. BusInit => Feed!Init
  BY FeedInit
<1>2. StreamInv /\ [BusNext]_topicVars => [Feed!Next]_(Feed!feedVars)
  BY FeedStep
<1>. QED
  BY <1>1, <1>2, StreamInvariant, PTL DEF BusSpec, ImplementsFeed, Feed!Spec
=============================================================================
