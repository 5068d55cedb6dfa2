---------------------------- MODULE SessionProofs ----------------------------
(***************************************************************************)
(* Proofs about a receiver's session and the calls on it.                  *)
(*                                                                         *)
(* ReceiverWorker, for any number of clients, any depth of the queue and   *)
(* any bounds: the inductive invariant has three parts, what the holder of *)
(* the manager's mutex has done so far (Lifecycle), who may sleep on what  *)
(* (NoSleepOnBlock), and which blocks the queue holds (Queue).  The last   *)
(* two need the first: a thread is only spawned in the place of a dead     *)
(* one, and the session only changes while the threads are dead.           *)
(*                                                                         *)
(* ClientSession: what the client was told a receiver holds is what the    *)
(* server holds, and a start the client waits for starts what is in front  *)
(* of the user.                                                            *)
(***************************************************************************)
EXTENDS ReceiverWorker, ClientSession, SequenceTheorems, FiniteSetTheorems, TLAPS

-----------------------------------------------------------------------------
(* The invariant *)

\* Between calls a receiver is up or down.
Settled ==
  /\ buffer = running
  /\ joinable = IF running THEN Threads ELSE {}

\* What has been done when the holder of the mutex stands at x.
Stage(x) ==
  /\ x \in {"start", "stop", "other"} => Settled
  /\ x \in Starting => running
  /\ x \in {"clear", "buffer"} => joinable = {}
  /\ x \in {"spawn_run", "spawn_ingest", "spawn_process"} \union Joining => buffer
  /\ x = "clear" => ~buffer
  /\ x = "spawn_run" => joinable = {}
  /\ x = "spawn_ingest" => joinable = {"run"}
  /\ x = "spawn_process" => joinable = {"run", "ingest"}
  /\ x \in Joining => ~running
  /\ x \in {"notify", "join_ingest"} => joinable = Threads
  /\ x = "join_process" => joinable = {"process", "run"}
  /\ x = "join_run" => joinable = {"run"}
  /\ x = "reset" => joinable = {}

Mutex ==
  /\ \A c \in Callers : call[c] \in Inside => lock = c
  /\ \A c \in Callers : lock = c => call[c] \in Inside

\* A thread that no std::thread member holds has ended, and a device is open
\* only while the ingest thread runs.
ThreadsHeld ==
  /\ "ingest" \notin joinable => ingest = "dead"
  /\ "process" \notin joinable => process = "dead"
  /\ "run" \notin joinable => run = "dead"
  /\ ingest = "dead" => device # "open"

Lifecycle ==
  /\ Mutex
  /\ lock = NoCaller => Settled
  /\ \A c \in Callers : call[c] \in Inside => Stage(call[c])
  /\ ThreadsHeld

\* The process thread goes to sleep only after it saw the queue empty.
NoSleepOnBlock ==
  /\ process = "sleepy" => iq_deque = <<>>
  /\ NoLostBlock

Queue ==
  /\ ingest = "push" => in_hand.number = captured /\ in_hand.session = session
  /\ NewestKept

\* Old blocks are at positions that leave room for those already taken.
OldBlocks ==
  /\ stale <= MaxQueueDepth
  /\ \A i \in 1 .. Len(iq_deque) :
       iq_deque[i].session < session => stale + i <= MaxQueueDepth

IInv == TypeOK /\ Lifecycle /\ NoSleepOnBlock /\ Queue /\ OldBlocks

-----------------------------------------------------------------------------
(* Lifecycle *)

\* The initial state satisfies the invariant.
LEMMA InitInvariant == Init => IInv
<1> SUFFICES ASSUME Init PROVE IInv
  OBVIOUS
<1> USE WorkerAssumption DEF Init
<1>1. TypeOK
  <2>1. call \in [Callers -> CallStates]
    BY DEF CallStates
  <2>2. in_hand \in Blocks /\ iq_deque \in Seq(Blocks) /\ Len(iq_deque) <= MaxQueueDepth
    BY DEF Blocks
  <2> QED
    BY <2>1, <2>2 DEF TypeOK
<1>2. Lifecycle
  BY DEF Lifecycle, Mutex, Settled, ThreadsHeld, Inside, Starting, Joining
<1>3. NoSleepOnBlock /\ Queue /\ OldBlocks
  BY DEF NoSleepOnBlock, NoLostBlock, Queue, Pushing, NewestKept, OldBlocks
<1> QED
  BY <1>1, <1>2, <1>3 DEF IInv

\* No step of a call breaks the lifecycle.
LEMMA CallLifecycle ==
  ASSUME TypeOK, Lifecycle, NEW c \in Callers, CallStep(c)
  PROVE  Lifecycle'
<1> USE WorkerAssumption DEF TypeOK, Lifecycle, Mutex, ThreadsHeld, Settled, Stage, Inside, Starting,
      Joining, Requests, Threads, At, controlVars, queueVars, threadVars, Proceed, Return
<1>1. CASE Acquire(c)
  <2>1. /\ lock = NoCaller /\ lock' = c
        /\ Settled
        /\ \A d \in Callers : call[d] \notin Inside
    BY <1>1 DEF Acquire, Free
  <2>2. /\ call'[c] \in {"start", "stop", "other"}
        /\ \A d \in Callers \ {c} : call'[d] = call[d]
    BY <1>1 DEF Acquire
  <2>3. Mutex'
    BY <2>1, <2>2
  <2>4. Settled' /\ ThreadsHeld'
    BY <1>1, <2>1 DEF Acquire
  <2>5. \A d \in Callers : (call[d] \in Inside)' => Stage(call[d])'
    BY <2>1, <2>2, <2>4
  <2> QED
    BY <2>1, <2>3, <2>4, <2>5
<1>2. CASE Other(c)
  <2>1. call[c] = "other" /\ lock = c /\ lock' = NoCaller
    BY <1>2 DEF Other
  <2>2. /\ call'[c] = "idle"
        /\ \A d \in Callers \ {c} : call'[d] = call[d] /\ call[d] \notin Inside
    BY <1>2, <2>1 DEF Other
  <2>3. Mutex' /\ \A d \in Callers : (call[d] \in Inside)' => Stage(call[d])'
    BY <2>1, <2>2
  <2>4. Settled' /\ ThreadsHeld'
    BY <1>2, <2>1 DEF Other
  <2> QED
    BY <2>3, <2>4
<1>3. CASE StartRefused(c)
  <2>1. call[c] = "start" /\ lock = c /\ lock' = NoCaller
    BY <1>3 DEF StartRefused
  <2>2. /\ call'[c] = "idle"
        /\ \A d \in Callers \ {c} : call'[d] = call[d] /\ call[d] \notin Inside
    BY <1>3, <2>1 DEF StartRefused
  <2>3. Mutex' /\ \A d \in Callers : (call[d] \in Inside)' => Stage(call[d])'
    BY <2>1, <2>2
  <2>4. Settled' /\ ThreadsHeld'
    BY <1>3, <2>1 DEF StartRefused
  <2> QED
    BY <2>3, <2>4
<1>4. CASE StartCas(c)
  <2>1. call[c] = "start" /\ lock = c /\ ~buffer /\ joinable = {}
    BY <1>4 DEF StartCas
  <2> QED
    BY <1>4, <2>1 DEF StartCas
<1>5. CASE ClearError(c)
  BY <1>5 DEF ClearError
<1>6. CASE NewBuffer(c)
  BY <1>6 DEF NewBuffer
<1>7. CASE SpawnRun(c)
  BY <1>7 DEF SpawnRun, Spawn
<1>8. CASE SpawnIngest(c)
  BY <1>8 DEF SpawnIngest, Spawn
<1>9. CASE SpawnProcess(c)
  BY <1>9 DEF SpawnProcess, Spawn
<1>10. CASE StopIdle(c)
  BY <1>10 DEF StopIdle
<1>11. CASE StopCas(c)
  BY <1>11 DEF StopCas
<1>12. CASE NotifyAll(c)
  BY <1>12 DEF NotifyAll, Woken
<1>13. CASE JoinIngest(c)
  BY <1>13 DEF JoinIngest, Join, AfterJoin
<1>14. CASE JoinProcess(c)
  BY <1>14 DEF JoinProcess, Join, AfterJoin
<1>15. CASE JoinRun(c)
  BY <1>15 DEF JoinRun, Join, AfterJoin
<1>16. CASE ResetBuffer(c)
  BY <1>16 DEF ResetBuffer
<1> QED
  BY <1>1, <1>2, <1>3, <1>4, <1>5, <1>6, <1>7, <1>8, <1>9, <1>10, <1>11, <1>12, <1>13, <1>14,
     <1>15, <1>16 DEF CallStep, StartStep, StopStep

\* No step of a thread breaks it either: they end by themselves, but only
\* the holder of the mutex starts or joins them.
LEMMA ThreadLifecycle ==
  ASSUME TypeOK, Lifecycle, Ingest \/ Process \/ SpuriousWakeup \/ RunLoop
  PROVE  Lifecycle'
<1>1. UNCHANGED <<lock, call, running, buffer, joinable>>
  BY DEF Ingest, IngestLoop, OpenDevice, DeviceFails, Capture, Push, NotifyOne, CloseDevice, IngestAt,
         Process, ProcessLoop, TakeBlock, Break, NothingToDo, Sleep, Work, ProcessAt, SpuriousWakeup,
         RunLoop, RunAt, callVars, controlVars
<1>2. ThreadsHeld'
  <2> USE DEF TypeOK, Lifecycle, ThreadsHeld
  <2>1. CASE Ingest
    BY <2>1 DEF Ingest, IngestLoop, OpenDevice, DeviceFails, Capture, Push, NotifyOne, CloseDevice,
         IngestAt, Woken, Closed, controlVars
  <2>2. CASE Process \/ SpuriousWakeup
    BY <2>2 DEF Process, ProcessLoop, TakeBlock, Break, NothingToDo, Sleep, Work, ProcessAt,
         SpuriousWakeup, controlVars
  <2>3. CASE RunLoop
    BY <2>3 DEF RunLoop, RunAt, controlVars
  <2> QED
    BY <2>1, <2>2, <2>3
<1> QED
  BY <1>1, <1>2 DEF Lifecycle, Mutex, Settled, Stage

LEMMA LifecycleStep == TypeOK /\ Lifecycle /\ [Next]_vars => Lifecycle'
<1> SUFFICES ASSUME TypeOK, Lifecycle, [Next]_vars PROVE Lifecycle'
  OBVIOUS
<1>1. ASSUME NEW c \in Callers, NEW wish \in Requests, Request(c, wish) PROVE Lifecycle'
  BY <1>1, WorkerAssumption DEF Request, At, TypeOK, Lifecycle, Mutex, Settled, Stage, ThreadsHeld, Inside,
     Starting, Joining, Requests, controlVars, queueVars, threadVars
<1>2. CASE UNCHANGED vars
  BY <1>2 DEF vars, callVars, controlVars, threadVars, Lifecycle, Mutex, Settled, Stage, ThreadsHeld
<1> QED
  BY <1>1, <1>2, CallLifecycle, ThreadLifecycle DEF Next

-----------------------------------------------------------------------------
(* Types *)

LEMMA TypeStep == TypeOK /\ [Next]_vars => TypeOK'
<1> SUFFICES ASSUME TypeOK, [Next]_vars PROVE TypeOK'
  OBVIOUS
<1> USE WorkerAssumption DEF TypeOK
<1>1. ASSUME NEW c \in Callers, NEW wish \in Requests, Request(c, wish) PROVE TypeOK'
  BY <1>1 DEF Request, At, CallStates, controlVars, queueVars, threadVars
<1>2. ASSUME NEW c \in Callers, CallStep(c) PROVE TypeOK'
  <2>1. call' \in [Callers -> CallStates] /\ lock' \in Callers \union {NoCaller} /\ calls' \in Nat
    <3> USE DEF At, Return, Proceed
    <3>1. CASE Acquire(c) \/ Other(c)
      BY <3>1 DEF Acquire, Other, CallStates, Inside
    <3>2. CASE StartStep(c)
      <4>1. \E from, to \in CallStates : At(c, from, to)
        BY <3>2 DEF StartStep, StartRefused, StartCas, ClearError, NewBuffer, SpawnRun, SpawnIngest,
                    SpawnProcess, CallStates, Inside, Starting
      <4> QED
        BY <4>1, <3>2 DEF StartStep, StartRefused, StartCas, ClearError, NewBuffer, SpawnRun,
                    SpawnIngest, SpawnProcess
    <3>3. CASE StopStep(c)
      <4>1. \E from, to \in CallStates : At(c, from, to)
        BY <3>3 DEF StopStep, StopIdle, StopCas, NotifyAll, JoinIngest, JoinProcess, JoinRun,
                    ResetBuffer, CallStates, Inside, Joining
      <4> QED
        BY <4>1, <3>3 DEF StopStep, StopIdle, StopCas, NotifyAll, JoinIngest, JoinProcess, JoinRun,
                    ResetBuffer
    <3> QED
      BY <1>2, <3>1, <3>2, <3>3 DEF CallStep
  <2>2. /\ running' \in BOOLEAN /\ last_error' \in BOOLEAN /\ session' \in Nat /\ buffer' \in BOOLEAN
        /\ joinable' \in SUBSET Threads /\ stale' \in Nat
    <3> USE DEF controlVars, queueVars
    <3>1. CASE Acquire(c) \/ Other(c)
      BY <3>1 DEF Acquire, Other
    <3>2. CASE StartStep(c)
      <4>1. CASE StartRefused(c) \/ ClearError(c) \/ NewBuffer(c)
        BY <4>1 DEF StartRefused, ClearError, NewBuffer
      <4>3. CASE StartCas(c)
        BY <4>3 DEF StartCas
      <4>2. CASE SpawnRun(c) \/ SpawnIngest(c) \/ SpawnProcess(c)
        BY <4>2 DEF SpawnRun, SpawnIngest, SpawnProcess, Spawn, Threads
      <4> QED
        BY <3>2, <4>1, <4>2, <4>3 DEF StartStep
    <3>3. CASE StopStep(c)
      BY <3>3 DEF StopStep, StopIdle, StopCas, NotifyAll, JoinIngest, JoinProcess, JoinRun,
                  ResetBuffer, Join, AfterJoin
    <3> QED
      BY <1>2, <3>1, <3>2, <3>3 DEF CallStep
  <2>3. UNCHANGED <<captured, in_hand, iq_deque, taken, device>>
    <3> USE DEF queueVars, threadVars
    <3>1. CASE Acquire(c) \/ Other(c)
      BY <3>1 DEF Acquire, Other
    <3>2. CASE StartStep(c)
      BY <3>2 DEF StartStep, StartRefused, StartCas, ClearError, NewBuffer, SpawnRun, SpawnIngest,
                  SpawnProcess, Spawn
    <3>3. CASE StopStep(c)
      BY <3>3 DEF StopStep, StopIdle, StopCas, NotifyAll, JoinIngest, JoinProcess, JoinRun,
                  ResetBuffer, Join, AfterJoin
    <3> QED
      BY <1>2, <3>1, <3>2, <3>3 DEF CallStep
  <2>4. /\ ingest' \in {ingest, "loop"}
        /\ process' \in {process, "loop", "lock"}
        /\ run' \in {run, "loop"}
    <3> USE DEF threadVars
    <3>1. CASE Acquire(c) \/ Other(c)
      BY <3>1 DEF Acquire, Other
    <3>2. CASE StartStep(c)
      BY <3>2 DEF StartStep, StartRefused, StartCas, ClearError, NewBuffer, SpawnRun, SpawnIngest,
                  SpawnProcess, Spawn
    <3>3. CASE StopStep(c)
      BY <3>3 DEF StopStep, StopIdle, StopCas, NotifyAll, JoinIngest, JoinProcess, JoinRun,
                  ResetBuffer, Join, AfterJoin, Woken
    <3> QED
      BY <1>2, <3>1, <3>2, <3>3 DEF CallStep
  <2> QED
    BY <2>1, <2>2, <2>3, <2>4
<1>3. CASE Push
  <2>1. Trimmed(iq_deque) \in Seq(Blocks) /\ Len(Trimmed(iq_deque)) < MaxQueueDepth
    BY DEF Trimmed
  <2>2. /\ iq_deque' \in Seq(Blocks)
        /\ Len(iq_deque') <= MaxQueueDepth
    BY <1>3, <2>1, AppendProperties DEF Push
  <2> QED
    BY <1>3, <2>2 DEF Push, IngestAt, callVars, controlVars
<1>4. CASE IngestLoop \/ OpenDevice \/ DeviceFails \/ CloseDevice
  <2> USE DEF IngestAt, callVars, controlVars, queueVars
  <2>1. CASE IngestLoop
    BY <2>1 DEF IngestLoop
  <2>2. CASE OpenDevice
    BY <2>2 DEF OpenDevice
  <2>3. CASE DeviceFails
    BY <2>3 DEF DeviceFails
  <2>4. CASE CloseDevice
    BY <2>4 DEF CloseDevice, Closed
  <2> QED
    BY <1>4, <2>1, <2>2, <2>3, <2>4
<1>9. CASE NotifyOne
  BY <1>9 DEF NotifyOne, Woken, callVars, controlVars, queueVars
<1>10. CASE Capture
  <2>1. in_hand' \in Blocks /\ captured' \in Nat
    BY <1>10 DEF Capture, Blocks
  <2> QED
    BY <1>10, <2>1 DEF Capture, IngestAt, callVars, controlVars
<1>5. CASE TakeBlock
  <2>1. Head(iq_deque) \in Blocks /\ Tail(iq_deque) \in Seq(Blocks) /\ Len(Tail(iq_deque)) <= MaxQueueDepth
    BY <1>5 DEF TakeBlock
  <2> QED
    BY <1>5, <2>1 DEF TakeBlock, ProcessAt, Blocks, callVars, controlVars
<1>6. CASE ProcessLoop \/ Break \/ NothingToDo \/ Sleep \/ Work \/ SpuriousWakeup
  BY <1>6 DEF ProcessLoop, Break, NothingToDo, Sleep, Work, SpuriousWakeup, ProcessAt, callVars,
       controlVars, queueVars
<1>7. CASE RunLoop
  BY <1>7 DEF RunLoop, RunAt, callVars, controlVars, queueVars
<1>8. CASE UNCHANGED vars
  BY <1>8 DEF vars, callVars, controlVars, queueVars, threadVars
<1> QED
  BY <1>1, <1>2, <1>3, <1>4, <1>5, <1>6, <1>7, <1>8, <1>9, <1>10 DEF Next, Ingest, Process

-----------------------------------------------------------------------------
(* The queue *)

\* Calls leave the blocks and the ingest thread's hand alone; a new session
\* begins while the threads are dead.
LEMMA CallQueue ==
  ASSUME TypeOK, Lifecycle, NEW c \in Callers, CallStep(c)
  PROVE  /\ UNCHANGED <<captured, in_hand, iq_deque, taken>>
         /\ \/ UNCHANGED <<ingest, session, stale>>
            \/ UNCHANGED <<session, stale>> /\ ingest = "dead" /\ ingest' = "loop"
            \/ ingest = "dead" /\ ingest' = "dead" /\ stale' = 0
         /\ \/ UNCHANGED process
            \/ process' \in {"loop", "lock"}
<1> USE DEF controlVars, queueVars, threadVars
<1>1. CASE Acquire(c) \/ Other(c)
  BY <1>1 DEF Acquire, Other
<1>2. CASE StartRefused(c) \/ ClearError(c) \/ NewBuffer(c) \/ SpawnRun(c) \/ SpawnProcess(c)
  BY <1>2 DEF StartRefused, ClearError, NewBuffer, SpawnRun, SpawnProcess, Spawn
<1>3. CASE StartCas(c)
  <2>1. ingest = "dead"
    BY <1>3 DEF StartCas, Proceed, At, Lifecycle, Inside, Stage, Settled, ThreadsHeld
  <2> QED
    BY <1>3, <2>1 DEF StartCas
<1>4. CASE SpawnIngest(c)
  <2>1. ingest = "dead"
    BY <1>4 DEF SpawnIngest, Proceed, At, Lifecycle, Inside, Starting, Stage, ThreadsHeld
  <2> QED
    BY <1>4, <2>1 DEF SpawnIngest, Spawn
<1>5. CASE StopStep(c)
  BY <1>5 DEF StopStep, StopIdle, StopCas, NotifyAll, JoinIngest, JoinProcess, JoinRun, ResetBuffer,
              Join, AfterJoin, Woken
<1> QED
  BY <1>1, <1>2, <1>3, <1>4, <1>5 DEF CallStep, StartStep

\* The process thread goes to sleep only on an empty queue, and a block that
\* is pushed later is followed by a notification.
LEMMA SleepStep == TypeOK /\ Lifecycle /\ NoSleepOnBlock /\ [Next]_vars => NoSleepOnBlock'
<1> SUFFICES ASSUME TypeOK, Lifecycle, NoSleepOnBlock, [Next]_vars PROVE NoSleepOnBlock'
  OBVIOUS
<1> USE DEF NoSleepOnBlock, NoLostBlock
<1>1. ASSUME NEW c \in Callers, CallStep(c) PROVE NoSleepOnBlock'
  BY <1>1, CallQueue
<1>2. CASE Ingest
  BY <1>2 DEF Ingest, IngestLoop, OpenDevice, DeviceFails, Capture, Push, QueueUnlocked, NotifyOne,
       CloseDevice, IngestAt, Woken, queueVars
<1>3. CASE Process \/ SpuriousWakeup
  BY <1>3 DEF Process, ProcessLoop, TakeBlock, Break, NothingToDo, Sleep, Work, ProcessAt,
       SpuriousWakeup, queueVars
<1>4. CASE RunLoop \/ UNCHANGED vars
  BY <1>4 DEF RunLoop, RunAt, vars, threadVars, queueVars
<1>5. ASSUME NEW c \in Callers, NEW wish \in Requests, Request(c, wish) PROVE NoSleepOnBlock'
  BY <1>5 DEF Request, queueVars, threadVars
<1> QED
  BY <1>1, <1>2, <1>3, <1>4, <1>5 DEF Next

\* Trimming drops at most the oldest block.
LEMMA TrimmedProperties ==
  ASSUME TypeOK
  PROVE  \/ Trimmed(iq_deque) = iq_deque
         \/ iq_deque # <<>> /\ Trimmed(iq_deque) = Tail(iq_deque)
BY WorkerAssumption DEF TypeOK, Trimmed

\* What the tail of the queue holds.
LEMMA TailProperties ==
  ASSUME TypeOK, iq_deque # <<>>
  PROVE  /\ Len(iq_deque) \in Nat \ {0}
         /\ Len(Tail(iq_deque)) = Len(iq_deque) - 1
         /\ Tail(iq_deque) \in Seq(Blocks)
         /\ \A i \in 1 .. Len(Tail(iq_deque)) :
              i + 1 \in 1 .. Len(iq_deque) /\ Tail(iq_deque)[i] = iq_deque[i + 1]
BY DEF TypeOK

\* Blocks are queued and taken in the order of their numbers.
LEMMA QueueStep == TypeOK /\ Lifecycle /\ Queue /\ [Next]_vars => Queue'
<1> SUFFICES ASSUME TypeOK, Lifecycle, Queue, [Next]_vars PROVE Queue'
  OBVIOUS
<1>0. /\ captured \in Nat /\ taken \in Nat /\ in_hand \in Blocks /\ iq_deque \in Seq(Blocks)
      /\ \A i \in 1 .. Len(iq_deque) : iq_deque[i].number \in Nat
      /\ Len(iq_deque) \in Nat
  <2>1. captured \in Nat /\ taken \in Nat /\ in_hand \in Blocks /\ iq_deque \in Seq(Blocks)
    BY DEF TypeOK
  <2>2. \A i \in 1 .. Len(iq_deque) : iq_deque[i] \in Blocks
    BY <2>1, ElementOfSeq
  <2> QED
    BY <2>1, <2>2, LenProperties DEF Blocks
<1>1. CASE UNCHANGED <<captured, in_hand, iq_deque, taken>> /\ ingest # "push" /\ ingest' # "push"
  BY <1>1 DEF Queue, NewestKept, Pushing
<1>2. CASE UNCHANGED <<captured, in_hand, iq_deque, taken, ingest, session>>
  BY <1>2 DEF Queue, NewestKept, Pushing
<1>3. CASE Capture
  BY <1>0, <1>3 DEF Capture, IngestAt, controlVars, Queue, NewestKept, Pushing
<1>4. CASE Push
  <2> DEFINE t == Trimmed(iq_deque)
  <2>1. /\ ingest = "push" /\ ingest' = "notify"
        /\ iq_deque' = Append(t, in_hand)
        /\ UNCHANGED <<captured, in_hand, taken, session>>
    BY <1>4 DEF Push, IngestAt, controlVars
  <2>2. /\ t \in Seq(Blocks) /\ Len(t) \in Nat
        /\ \A i \in 1 .. Len(t) :
             t[i].number \in Nat /\ t[i].number > taken /\ t[i].number + (Len(t) - i) + 1 = captured
    <3>1. CASE t = iq_deque
      BY <1>0, <2>1, <3>1 DEF Queue, NewestKept, Pushing
    <3>2. CASE iq_deque # <<>> /\ t = Tail(iq_deque)
      BY <1>0, <2>1, <3>2, TailProperties DEF Queue, NewestKept, Pushing
    <3> QED
      BY <3>1, <3>2, TrimmedProperties
  <2>3. in_hand.number = captured /\ captured > taken
    <3>1. CASE iq_deque = <<>>
      BY <1>0, <2>1, <3>1 DEF Queue, NewestKept, Pushing
    <3>2. CASE iq_deque # <<>>
      <4>1. 1 \in 1 .. Len(iq_deque)
        BY <1>0, <3>2, TailProperties
      <4> QED
        BY <1>0, <2>1, <4>1 DEF Queue, NewestKept, Pushing
    <3> QED
      BY <3>1, <3>2
  <2> HIDE DEF t
  <2>4. /\ Len(iq_deque') = Len(t) + 1
        /\ iq_deque'[Len(t) + 1] = in_hand
        /\ \A i \in 1 .. Len(t) : iq_deque'[i] = t[i]
    BY <1>0, <2>1, <2>2, AppendProperties
  <2>5. \A i \in 1 .. Len(iq_deque') :
          iq_deque'[i].number > taken /\ iq_deque'[i].number + (Len(iq_deque') - i) = captured
    <3> SUFFICES ASSUME NEW i \in 1 .. Len(t) + 1
                 PROVE  /\ iq_deque'[i].number > taken
                        /\ iq_deque'[i].number + (Len(t) + 1 - i) = captured
      BY <2>4
    <3>1. CASE i = Len(t) + 1
      <4>1. Len(t) + 1 - i = 0
        BY <2>2, <3>1
      <4>2. iq_deque'[i] = in_hand
        BY <2>4, <3>1
      <4> QED
        BY <1>0, <2>3, <4>1, <4>2
    <3>2. CASE i \in 1 .. Len(t)
      <4>1. iq_deque'[i] = t[i]
        BY <2>4, <3>2
      <4>2. /\ t[i].number \in Nat /\ t[i].number > taken
            /\ t[i].number + (Len(t) - i) + 1 = captured
        BY <2>2, <3>2
      <4>3. \A m, k, j, n \in Int : m + (k - j) + 1 = n => m + (k + 1 - j) = n
        OBVIOUS
      <4>4. i \in Int /\ Len(t) \in Int /\ captured \in Int /\ t[i].number \in Int
        BY <1>0, <2>2, <3>2, <4>2
      <4>5. t[i].number + (Len(t) + 1 - i) = captured
        BY <4>2, <4>3, <4>4
      <4> QED
        BY <4>1, <4>2, <4>5
    <3> QED
      BY <2>2, <3>1, <3>2
  <2> QED
    BY <1>0, <2>1, <2>2, <2>4, <2>5 DEF Queue, NewestKept, Pushing
<1>5. CASE TakeBlock
  <2>1. /\ iq_deque # <<>>
        /\ taken' = iq_deque[1].number
        /\ iq_deque' = Tail(iq_deque)
        /\ UNCHANGED <<captured, in_hand, ingest, session>>
    BY <1>5 DEF TakeBlock, ProcessAt, controlVars
  <2>2. 1 \in 1 .. Len(iq_deque)
    BY <2>1, TailProperties
  <2>3. \A i \in 1 .. Len(iq_deque') :
          /\ iq_deque'[i].number > taken'
          /\ iq_deque'[i].number + (Len(iq_deque') - i) + Pushing = captured
    BY <1>0, <2>1, <2>2, TailProperties DEF Queue, NewestKept, Pushing
  <2>4. ASSUME iq_deque' = <<>> PROVE taken' + Pushing = captured
    <3>1. Len(iq_deque) = 1
      <4>1. Len(Tail(iq_deque)) = 0
        BY <1>0, <2>1, <2>4, TailProperties, EmptySeq
      <4> QED
        BY <1>0, <2>1, <4>1, TailProperties
    <3>2. iq_deque[1].number + (Len(iq_deque) - 1) + Pushing = captured
      BY <2>2 DEF Queue, NewestKept
    <3> QED
      BY <1>0, <2>1, <2>2, <3>1, <3>2 DEF Pushing
  <2> QED
    BY <2>1, <2>3, <2>4 DEF Queue, NewestKept, Pushing
<1>6. ASSUME NEW c \in Callers, CallStep(c) PROVE Queue'
  BY <1>1, <1>2, <1>6, CallQueue DEF Queue
<1>7. CASE IngestLoop \/ OpenDevice \/ DeviceFails \/ NotifyOne \/ CloseDevice
  BY <1>1, <1>7 DEF IngestLoop, OpenDevice, DeviceFails, NotifyOne, CloseDevice, IngestAt, queueVars
<1>8. CASE ProcessLoop \/ Break \/ NothingToDo \/ Sleep \/ Work \/ SpuriousWakeup \/ RunLoop
  BY <1>2, <1>8 DEF ProcessLoop, Break, NothingToDo, Sleep, Work, SpuriousWakeup, ProcessAt, RunLoop,
       RunAt, controlVars, queueVars
<1>9. CASE (\E c \in Callers, wish \in Requests : Request(c, wish)) \/ UNCHANGED vars
  BY <1>2, <1>9 DEF Request, vars, controlVars, queueVars, threadVars
<1> QED
  BY <1>3, <1>4, <1>5, <1>6, <1>7, <1>8, <1>9 DEF Next, Ingest, Process

\* The blocks of earlier sessions only get fewer.
LEMMA OldStep == TypeOK /\ Lifecycle /\ Queue /\ OldBlocks /\ [Next]_vars => OldBlocks'
<1> SUFFICES ASSUME TypeOK, Lifecycle, Queue, OldBlocks, [Next]_vars PROVE OldBlocks'
  OBVIOUS
<1>0. /\ stale \in Nat /\ session \in Nat /\ MaxQueueDepth \in Nat /\ in_hand \in Blocks
      /\ iq_deque \in Seq(Blocks) /\ Len(iq_deque) \in Nat /\ Len(iq_deque) <= MaxQueueDepth
  BY WorkerAssumption DEF TypeOK
<1>1. CASE UNCHANGED iq_deque /\ stale' = 0
  BY <1>0, <1>1 DEF OldBlocks
<1>2. CASE UNCHANGED <<iq_deque, stale, session>>
  BY <1>2 DEF OldBlocks
<1>3. CASE Push
  <2> DEFINE t == Trimmed(iq_deque)
  <2>1. /\ iq_deque' = Append(t, in_hand)
        /\ UNCHANGED <<stale, session>>
        /\ in_hand.session = session
    BY <1>3 DEF Push, IngestAt, controlVars, Queue
  <2>2. /\ t \in Seq(Blocks) /\ Len(t) \in Nat
        /\ \A i \in 1 .. Len(t) : t[i].session < session => stale + i <= MaxQueueDepth
    <3>1. CASE t = iq_deque
      BY <1>0, <3>1 DEF OldBlocks
    <3>2. CASE iq_deque # <<>> /\ t = Tail(iq_deque)
      BY <1>0, <3>2, TailProperties DEF OldBlocks
    <3> QED
      BY <3>1, <3>2, TrimmedProperties
  <2> HIDE DEF t
  <2>3. /\ Len(iq_deque') = Len(t) + 1
        /\ iq_deque'[Len(t) + 1] = in_hand
        /\ \A i \in 1 .. Len(t) : iq_deque'[i] = t[i]
    BY <1>0, <2>1, <2>2, AppendProperties
  <2>4. ASSUME NEW i \in 1 .. Len(iq_deque'), iq_deque'[i].session < session
        PROVE  stale + i <= MaxQueueDepth
    <3>1. i # Len(t) + 1
      BY <1>0, <2>1, <2>3, <2>4
    <3>2. i \in 1 .. Len(t)
      BY <2>2, <2>3, <3>1
    <3> QED
      BY <2>2, <2>3, <2>4, <3>2
  <2> QED
    BY <2>1, <2>4 DEF OldBlocks
<1>4. CASE TakeBlock
  <2>1. /\ iq_deque # <<>>
        /\ iq_deque' = Tail(iq_deque)
        /\ session' = session
        /\ stale' = IF iq_deque[1].session < session THEN stale + 1 ELSE stale
    BY <1>4 DEF TakeBlock, ProcessAt, controlVars
  <2>2. 1 \in 1 .. Len(iq_deque)
    BY <2>1, TailProperties
  <2>3. stale' <= MaxQueueDepth /\ stale' <= stale + 1 /\ stale' \in Nat
    BY <1>0, <2>1, <2>2 DEF OldBlocks
  <2>4. \A j \in Int : stale + (j + 1) <= MaxQueueDepth => stale' + j <= MaxQueueDepth
    <3>1. /\ stale \in Int /\ stale' \in Int /\ MaxQueueDepth \in Int
          /\ stale' = stale \/ stale' = stale + 1
      BY <1>0, <2>1, <2>3
    <3>2. ASSUME NEW j \in Int, stale + (j + 1) <= MaxQueueDepth PROVE stale' + j <= MaxQueueDepth
      <4>1. CASE stale' = stale
        BY <3>1, <3>2, <4>1
      <4>2. CASE stale' = stale + 1
        BY <3>1, <3>2, <4>2
      <4> QED
        BY <3>1, <4>1, <4>2
    <3> QED
      BY <3>2
  <2>5. ASSUME NEW i \in 1 .. Len(iq_deque'), iq_deque'[i].session < session
        PROVE  stale' + i <= MaxQueueDepth
    <3>1. i + 1 \in 1 .. Len(iq_deque) /\ iq_deque[i + 1].session < session
      BY <2>1, <2>5, TailProperties
    <3>2. stale + (i + 1) <= MaxQueueDepth
      BY <3>1 DEF OldBlocks
    <3>3. i \in Int
      BY <1>0, <2>1, TailProperties
    <3> QED
      BY <2>4, <3>2, <3>3
  <2> QED
    BY <2>1, <2>3, <2>5 DEF OldBlocks
<1>5. ASSUME NEW c \in Callers, CallStep(c) PROVE OldBlocks'
  BY <1>1, <1>2, <1>5, CallQueue
<1>6. CASE IngestLoop \/ OpenDevice \/ DeviceFails \/ NotifyOne \/ CloseDevice \/ Capture
  BY <1>2, <1>6 DEF IngestLoop, OpenDevice, DeviceFails, NotifyOne, CloseDevice, Capture, controlVars,
       queueVars
<1>7. CASE ProcessLoop \/ Break \/ NothingToDo \/ Sleep \/ Work \/ SpuriousWakeup \/ RunLoop
  BY <1>2, <1>7 DEF ProcessLoop, Break, NothingToDo, Sleep, Work, SpuriousWakeup, RunLoop, RunAt,
       controlVars, queueVars
<1>8. CASE (\E c \in Callers, wish \in Requests : Request(c, wish)) \/ UNCHANGED vars
  BY <1>2, <1>8 DEF Request, vars, controlVars, queueVars
<1> QED
  BY <1>3, <1>4, <1>5, <1>6, <1>7, <1>8 DEF Next, Ingest, Process

-----------------------------------------------------------------------------
(* Theorems *)

LEMMA Invariance == Spec => []IInv
<1>1. IInv /\ [Next]_vars => IInv'
  BY TypeStep, LifecycleStep, SleepStep, QueueStep, OldStep DEF IInv
<1> QED
  BY InitInvariant, <1>1, PTL DEF Spec

\* Every variable keeps its type, and the queue its bound.
THEOREM Typing == Spec => []TypeOK
BY Invariance, PTL DEF IInv

\* The audio buffer exists while a thread that uses it may run.
THEOREM Buffer == Spec => []BufferOutlivesThreads
<1>1. IInv => BufferOutlivesThreads
  <2> SUFFICES ASSUME IInv, ~buffer PROVE process = "dead" /\ run = "dead"
    BY DEF BufferOutlivesThreads, IInv, TypeOK
  <2> USE DEF IInv, Lifecycle, ThreadsHeld
  <2>1. CASE lock = NoCaller
    BY <2>1 DEF Settled
  <2>2. ASSUME NEW c \in Callers, lock = c PROVE joinable = {}
    <3>1. call[c] \in Inside /\ Stage(call[c])
      BY <2>2 DEF Mutex
    <3> QED
      BY <3>1 DEF Stage, Inside, Starting, Joining, Settled
  <2> QED
    BY <2>1, <2>2 DEF TypeOK
<1> QED
  BY <1>1, Invariance, PTL

\* Start never assigns to a std::thread that holds a thread.
THEOREM Fresh == Spec => []FreshThreads
<1>1. IInv => FreshThreads
  <2> SUFFICES ASSUME IInv, NEW c \in Callers
               PROVE  /\ call[c] = "spawn_run" => "run" \notin joinable
                      /\ call[c] = "spawn_ingest" => "ingest" \notin joinable
                      /\ call[c] = "spawn_process" => "process" \notin joinable
    BY DEF FreshThreads
  <2>1. call[c] \in Starting => Stage(call[c])
    BY DEF IInv, Lifecycle, Inside
  <2> QED
    BY <2>1 DEF Stage, Starting
<1> QED
  BY <1>1, Invariance, PTL

\* Stop returns only when everything it stops has ended.
THEOREM Stopped == Spec => StopMeansStopped
<1>1. ASSUME IInv, [Next]_vars, NEW c \in Callers, call[c] \in {"stop"} \union Joining, call'[c] = "idle"
      PROVE  /\ ingest' = "dead" /\ process' = "dead" /\ run' = "dead"
             /\ joinable' = {}
             /\ device' # "open"
             /\ ~buffer'
  <2>1. lock = c /\ Stage(call[c])
    BY <1>1 DEF IInv, Lifecycle, Mutex, Inside
  <2>2. ~(UNCHANGED call)
    BY <1>1 DEF Joining
  <2>3. PICK d \in Callers : CallStep(d) \/ \E wish \in Requests : Request(d, wish)
    BY <1>1, <2>2 DEF Next, vars, callVars, Ingest, IngestLoop, OpenDevice, DeviceFails, Capture, Push,
         NotifyOne, CloseDevice, IngestAt, Process, ProcessLoop, TakeBlock, Break, NothingToDo, Sleep,
         Work, ProcessAt, SpuriousWakeup, RunLoop, RunAt
  <2>4. call' = [call EXCEPT ![d] = call'[d]]
    BY <2>3 DEF IInv, TypeOK, CallStep, Request, Acquire, Other, StartStep, StartRefused, StartCas,
         ClearError, NewBuffer, SpawnRun, SpawnIngest, SpawnProcess, StopStep, StopIdle, StopCas,
         NotifyAll, JoinIngest, JoinProcess, JoinRun, ResetBuffer, Proceed, Return, At
  <2>5. d = c
    BY <1>1, <2>4 DEF IInv, TypeOK, Joining
  <2>6. StopIdle(c) \/ ResetBuffer(c)
    BY <1>1, <2>3, <2>5 DEF IInv, TypeOK, Joining, CallStep, Request, Acquire, Other, StartStep,
         StartRefused, StartCas, ClearError, NewBuffer, SpawnRun, SpawnIngest, SpawnProcess, StopStep,
         StopCas, NotifyAll, JoinIngest, JoinProcess, JoinRun, Proceed, Return, At, Requests
  <2>7. joinable = {} /\ joinable' = {} /\ ~buffer' /\ UNCHANGED <<ingest, process, run, device>>
    BY <2>1, <2>6 DEF StopIdle, ResetBuffer, Return, At, Stage, Settled, Joining, controlVars, threadVars
  <2> QED
    BY <1>1, <2>7 DEF IInv, Lifecycle, ThreadsHeld
<1>2. IInv /\ [Next]_vars
        => [\A c \in Callers :
              call[c] \in {"stop"} \union Joining /\ call'[c] = "idle"
                => /\ ingest' = "dead" /\ process' = "dead" /\ run' = "dead"
                   /\ joinable' = {}
                   /\ device' # "open"
                   /\ ~buffer']_vars
  BY <1>1
<1> QED
  BY <1>2, Invariance, PTL DEF Spec, StopMeansStopped

\* The process thread never sleeps on a block.
THEOREM Wakeup == Spec => []NoLostBlock
<1>1. IInv => NoLostBlock
  BY DEF IInv, NoSleepOnBlock
<1> QED
  BY <1>1, Invariance, PTL

\* Only the oldest blocks are lost, and none is processed twice.
THEOREM Newest == Spec => []NewestKept
<1>1. IInv => NewestKept
  BY DEF IInv, Queue
<1> QED
  BY <1>1, Invariance, PTL

\* Both, whatever the speed of the two threads.
THEOREM QueueIsSound == Spec => []QueueSound
BY Wakeup, Newest, PTL DEF QueueSound

\* A session meets at most a queue full of blocks of earlier ones.
THEOREM Stale == Spec => []StaleBounded
<1>1. IInv => StaleBounded
  BY DEF IInv, OldBlocks, StaleBounded
<1> QED
  BY <1>1, Invariance, PTL

-----------------------------------------------------------------------------
(* The control panel and its calls *)

\* The calls that name no receiver.
Plain == {"get_ppm", "list", "set_ppm"}

CallOK(c) ==
  /\ c = [number |-> c.number, step |-> c.step, on |-> c.on, late |-> c.late,
          arg |-> c.arg, stage |-> c.stage, ok |-> c.ok, answer |-> c.answer]
  /\ c.number \in Nat \ {0}
  /\ c.step \in Steps
  /\ c.stage \in {"sent", "file", "cache", "done"}
  /\ c.stage \in {"file", "cache"} => c.step = "set_ppm"
  /\ c.step \notin Plain => c.on \in Receivers
  /\ c.step = "mode" => c.arg \in {"fixed", "range", "list"}
  /\ c.step = "config" => c.arg \in Settings
  /\ c.step = "set_ppm" => c.arg \in Values
  /\ (c.stage = "done" /\ c.step = "list") => c.answer \in [Receivers -> Settings]
  /\ (c.stage = "done" /\ c.step = "get_ppm") => c.answer \in Values

CallsOK ==
  /\ IsFiniteSet(requests)
  /\ \A c \in requests : CallOK(c)
  /\ \A c, d \in requests : c.number = d.number => c = d

\* One call at most is past the file, or two of them have overlapped.
HardwareInv ==
  ~hw_overlap => \A c \in requests : c.stage = "file" => c.arg = file_ppm

ModeMatches(r) == r \notin overtaken => mode[r] = ModeOf(AppliedTab)
ConfMatches(r) == r \notin overtaken => conf[r].tab = AppliedTab /\ conf[r].radio = radio

\* What the program goes on with after a call of this kind.
Follows(step) ==
  program # <<>> => /\ Head(program) = "config" => step = "mode"
                    /\ Head(program) = "start" => step = "config"

\* The call the client waits for carries what is in front of the user.
WaitedOK(c) ==
  /\ c.step \in {"mode", "config", "start"} => c.on = selected
  /\ c.step \in {"mode", "config"} => confirmed[selected] = Unknown
  /\ c.step = "mode" => /\ c.arg = ModeOf(AppliedTab)
                        /\ c.stage = "done" => ModeMatches(selected)
  /\ c.step = "config" => /\ c.arg = Panel
                          /\ ModeMatches(selected)
                          /\ c.stage = "done" => ConfMatches(selected)
  /\ c.step = "start" => ModeMatches(selected) /\ ConfMatches(selected)
  /\ Follows(c.step)

WaitedInv == \A c \in requests : c.number = pending => WaitedOK(c)

\* The call to be made next finds the receiver as the calls before it left it.
ReadyInv ==
  (pending = 0 /\ program # <<>>) =>
    /\ Head(program) = "config" => confirmed[selected] = Unknown /\ ModeMatches(selected)
    /\ Head(program) = "start" => ModeMatches(selected) /\ ConfMatches(selected)

ProgramInv ==
  /\ \A i \in 2 .. Len(program) : /\ program[i] = "config" => program[i-1] = "mode"
                                  /\ program[i] = "start" => program[i-1] = "config"
  /\ selected = NoReceiver => \A i \in 1 .. Len(program) : program[i] \in Plain

SessionInv ==
  /\ SessionTypeOK /\ CallsOK /\ ProgramInv
  /\ WaitedInv /\ ReadyInv
  /\ ServerAsShown /\ HardwareInv /\ HardwareAgrees

-----------------------------------------------------------------------------
(* The programs of the presses *)

\* A program a press may start with the receiver `sel` in front.
Pressable(p, sel) ==
  /\ p \in Seq(Steps)
  /\ \A i \in 2 .. Len(p) : /\ p[i] = "config" => p[i-1] = "mode"
                            /\ p[i] = "start" => p[i-1] = "config"
  /\ sel = NoReceiver => \A i \in 1 .. Len(p) : p[i] \in Plain
  /\ p # <<>> => Head(p) \notin {"config", "start"}

LEMMA ProgramsPressable ==
  ASSUME NEW sel
  PROVE  /\ Pressable(<<>>, sel) /\ Pressable(RefreshSteps, sel)
         /\ Pressable(<<"set_ppm">>, sel)
         /\ sel # NoReceiver => /\ Pressable(ApplySteps, sel) /\ Pressable(StartSteps, sel)
                                /\ Pressable(StopSteps, sel) /\ Pressable(TabSteps, sel)
                                /\ Pressable(SpinSteps, sel)
<1>1. Pressable(<<>>, sel)
  BY DEF Pressable
<1>2. Pressable(RefreshSteps, sel) /\ Pressable(<<"set_ppm">>, sel)
  BY DEF Pressable, RefreshSteps, Steps, Plain
<1>3. ASSUME sel # NoReceiver
      PROVE  Pressable(ApplySteps, sel) /\ Pressable(SpinSteps, sel) /\ Pressable(StopSteps, sel)
  BY <1>3 DEF Pressable, ApplySteps, SpinSteps, StopSteps, Steps
<1>4. ASSUME sel # NoReceiver PROVE Pressable(StartSteps, sel)
  BY <1>4 DEF Pressable, StartSteps, Steps
<1>5. ASSUME sel # NoReceiver PROVE Pressable(TabSteps, sel)
  BY <1>5 DEF Pressable, TabSteps, Steps
<1>. QED BY <1>1, <1>2, <1>3, <1>4, <1>5

-----------------------------------------------------------------------------
(* The user *)

\* A press changes the panel and the program, and only when no call is waited for.
LEMMA PressKeeps ==
  ASSUME SessionInv, pending = 0 \/ UNCHANGED panelVars,
         Pressable(program', selected'),
         selected' \in Receivers \union {NoReceiver},
         tab' \in Tabs, last_mode_tab' \in ModeTabs, radio' \in Values, spin' \in Values,
         UNCHANGED <<pending, requests, serverVars, ghostVars>>
  PROVE  SessionInv'
<1>. USE DEF SessionInv
<1>1. SessionTypeOK'
  BY DEF SessionTypeOK, Pressable, serverVars, ghostVars
<1>2. CallsOK'
  BY DEF CallsOK
<1>3. ProgramInv'
  BY DEF ProgramInv, Pressable
<1>4. WaitedInv'
  <2>. SUFFICES ASSUME NEW c \in requests, c.number = pending
                PROVE  WaitedOK(c)'
    BY DEF WaitedInv
  <2>1. pending # 0
    BY DEF CallsOK, CallOK
  <2>2. WaitedOK(c) /\ UNCHANGED <<selected, radio, spin, confirmed, mode, conf, overtaken>>
    BY <2>1 DEF WaitedInv, panelVars, ghostVars, serverVars
  <2>3. AppliedTab' = AppliedTab /\ Panel' = Panel
    BY <2>1 DEF panelVars, AppliedTab, Panel
  <2>4. Follows(c.step)'
    BY DEF Follows, Pressable
  <2>5. UNCHANGED <<ModeMatches(selected), ConfMatches(selected)>>
    BY <2>2, <2>3 DEF ModeMatches, ConfMatches
  <2>. QED BY <2>2, <2>3, <2>4, <2>5 DEF WaitedOK
<1>5. ReadyInv'
  BY DEF ReadyInv, Pressable
<1>6. ServerAsShown'
  BY DEF ServerAsShown, serverVars, ghostVars
<1>7. HardwareInv' /\ HardwareAgrees'
  BY DEF HardwareInv, HardwareAgrees, serverVars, ghostVars
<1>. QED BY <1>1, <1>2, <1>3, <1>4, <1>5, <1>6, <1>7

LEMMA UserKeeps ==
  ASSUME SessionInv, User
  PROVE  SessionInv'
<1>. USE ProgramsPressable
<1>t. /\ selected \in Receivers \union {NoReceiver}
      /\ tab \in Tabs /\ last_mode_tab \in ModeTabs /\ radio \in Values /\ spin \in Values
  BY DEF SessionInv, SessionTypeOK
<1>1. CASE OpenWindow
  BY <1>1, <1>t, PressKeeps DEF OpenWindow, panelVars
<1>2. CASE PressRefresh
  BY <1>2, <1>t, PressKeeps DEF PressRefresh, Press, panelVars
<1>3. CASE PressApply
  BY <1>3, <1>t, PressKeeps DEF PressApply, Press, panelVars
<1>4. CASE PressStart
  BY <1>4, <1>t, PressKeeps DEF PressStart, Press, panelVars
<1>5. CASE PressStop
  BY <1>5, <1>t, PressKeeps DEF PressStop, Press, panelVars
<1>6. CASE SelectModulation
  BY <1>6, <1>t, PressKeeps DEF SelectModulation, Press
<1>7. CASE EditSetting
  BY <1>7, <1>t, PressKeeps DEF EditSetting, Press
<1>8. CASE SpinPpm
  BY <1>8, <1>t, PressKeeps DEF SpinPpm, Press
<1>9. CASE SelectReceiver
  BY <1>9, <1>t, PressKeeps DEF SelectReceiver, Press
<1>10. ASSUME NEW t \in VisitedTabs, ChangeTab(t)
       PROVE  SessionInv'
  <2>1. t \in Tabs
    BY SessionAssumption
  <2>2. last_mode_tab' \in ModeTabs
    BY <1>10, <1>t DEF ChangeTab
  <2>3. Pressable(program', selected')
    BY <1>10 DEF ChangeTab, Press
  <2>. QED BY <1>10, <1>t, <2>1, <2>2, <2>3, PressKeeps DEF ChangeTab, Press
<1>. QED BY <1>1, <1>2, <1>3, <1>4, <1>5, <1>6, <1>7, <1>8, <1>9, <1>10 DEF User

-----------------------------------------------------------------------------
(* The client's thread *)

\* n calls cannot use up n + 1 numbers.
LEMMA NumbersClash ==
  ASSUME NEW S, IsFiniteSet(S), NEW I, IsFiniteSet(I), Cardinality(S) < Cardinality(I),
         NEW holder \in [I -> S]
  PROVE  \E n \in I : holder[n].number # n
<1>1. \E m, n \in I : m # n /\ holder[m] = holder[n]
  BY FS_PigeonHole
<1>. QED BY <1>1

LEMMA NumbersLeft ==
  ASSUME NEW S, IsFiniteSet(S)
  PROVE  \E n \in 1 .. (Cardinality(S) + 1) : \A c \in S : c.number # n
<1>1. PICK I : I = 1 .. (Cardinality(S) + 1)
  OBVIOUS
<1>2. Cardinality(S) \in Nat
  BY FS_CardinalityType
<1>3. IsFiniteSet(I) /\ Cardinality(S) < Cardinality(I)
  <2>1. 1 \in Int /\ Cardinality(S) + 1 \in Int
    BY <1>2
  <2>2. IsFiniteSet(I) /\ Cardinality(I) = IF 1 > Cardinality(S) + 1 THEN 0 ELSE (Cardinality(S) + 1) - 1 + 1
    BY <1>1, <2>1, FS_Interval
  <2>. QED BY <1>2, <2>2
<1>4. ASSUME \A n \in I : \E c \in S : c.number = n
      PROVE  FALSE
  <2>1. PICK holder : holder = [n \in I |-> CHOOSE c \in S : c.number = n]
    OBVIOUS
  <2>2. \A n \in I : holder[n] \in S /\ holder[n].number = n
    BY <1>4, <2>1
  <2>3. holder \in [I -> S]
    BY <2>1, <2>2
  <2>. QED BY <1>3, <2>2, <2>3, NumbersClash
<1>. QED BY <1>1, <1>4

LEMMA FreeNumberFree ==
  ASSUME IsFiniteSet(requests)
  PROVE  /\ FreeNumber \in Nat \ {0}
         /\ \A c \in requests : c.number # FreeNumber
<1>1. \E n \in 1 .. (Cardinality(requests) + 1) : \A c \in requests : c.number # n
  BY NumbersLeft
<1>2. Cardinality(requests) \in Nat
  BY FS_CardinalityType
<1>. QED BY <1>1, <1>2 DEF FreeNumber

LEMMA SendKeeps ==
  ASSUME SessionInv, Send
  PROVE  SessionInv'
<1>s. PICK s : s = Head(program)
  OBVIOUS
<1>d. PICK d : d = [number |-> FreeNumber, step |-> s, on |-> selected, late |-> FALSE,
                    arg |-> Argument(s), stage |-> "sent", ok |-> TRUE, answer |-> "none"]
  OBVIOUS
<1>0. /\ d.number = FreeNumber /\ d.step = s /\ d.on = selected
      /\ d.arg = Argument(s) /\ d.stage = "sent"
  BY <1>d
<1>f. ~d.late
  BY <1>d
<1>1. /\ FreeNumber \in Nat \ {0}
      /\ \A c \in requests : c.number # FreeNumber
  BY FreeNumberFree DEF SessionInv, CallsOK
<1>2. /\ pending = 0 /\ pending' = FreeNumber /\ program' = Tail(program)
      /\ requests' = requests \union {d}
      /\ UNCHANGED <<selected, tab, last_mode_tab, radio, spin, presses>>
      /\ UNCHANGED <<started, mode, conf, file_ppm, cache_ppm, hw_overlap>>
  BY <1>s, <1>d DEF Send, panelVars, serverVars
<1>3. /\ program \in Seq(Steps) /\ program # <<>>
      /\ s \in Steps /\ s = program[1] /\ Len(program) \in Nat /\ 1 \in 1 .. Len(program)
      /\ Tail(program) \in Seq(Steps) /\ Len(Tail(program)) = Len(program) - 1
      /\ \A i \in 1 .. Len(Tail(program)) : Tail(program)[i] = program[i+1]
  <2>1. program \in Seq(Steps) /\ program # <<>>
    BY DEF Send, SessionInv, SessionTypeOK
  <2>2. Len(program) \in Nat /\ 1 \in 1 .. Len(program) /\ s = program[1]
    BY <2>1, <1>s
  <2>. QED BY <2>1, <2>2, HeadTailProperties
<1>4. s \notin Plain => selected \in Receivers
  BY <1>3 DEF SessionInv, ProgramInv, SessionTypeOK
<1>5. AppliedTab \in Tabs /\ Panel \in Settings
  BY DEF SessionInv, SessionTypeOK, AppliedTab, Panel, Settings, Tabs, ModeTabs
<1>6. CallOK(d)
  <2>1. s = "mode" => Argument(s) \in {"fixed", "range", "list"}
    BY DEF Argument, ModeOf
  <2>2. s = "config" => Argument(s) \in Settings
    BY <1>5 DEF Argument
  <2>3. s = "set_ppm" => Argument(s) \in Values
    BY DEF Argument, SessionInv, SessionTypeOK
  <2>. QED BY <1>d, <1>1, <1>3, <1>4, <2>1, <2>2, <2>3 DEF CallOK
<1>7. /\ AppliedTab' = AppliedTab /\ Panel' = Panel
  BY <1>2 DEF AppliedTab, Panel
<1>8. /\ s = "mode" => /\ selected \in Receivers
                       /\ confirmed' = [confirmed EXCEPT ![selected] = Unknown]
                       /\ overtaken' = overtaken \ {selected}
      /\ s # "mode" => UNCHANGED <<confirmed, overtaken>>
  BY <1>s, <1>4 DEF Send, Plain
<1>9. SessionTypeOK'
  <2>. USE DEF SessionInv, SessionTypeOK
  <2>1. confirmed' \in [Receivers -> Settings \union {Unknown}] /\ overtaken' \subseteq Receivers
    BY <1>8
  <2>2. \A c \in requests' : c.late <=> c.number # pending'
    <3>1. d.late <=> d.number # FreeNumber
      BY <1>0, <1>f, Zenon
    <3>2. ASSUME NEW c \in requests PROVE c.late <=> c.number # FreeNumber
      <4>1. c.late <=> c.number # 0
        <5>1. c.late <=> c.number # pending
          BY Zenon
        <5>. QED BY <1>2, <5>1, Zenon
      <4>2. c.number # 0
        BY DEF CallsOK, CallOK
      <4>. QED BY <1>1, <4>1, <4>2
    <3>. QED BY <1>2, <3>1, <3>2
  <2>3. \A c \in requests' : c.step \in Steps /\ c.stage \in {"sent", "file", "cache", "done"}
    BY <1>0, <1>2, <1>3
  <2>4. d \in requests' /\ d.number = pending' /\ ~d.late
    BY <1>0, <1>f, <1>2
  <2>5. program' \in Seq(Steps)
    BY <1>2, <1>3
  <2>. QED BY <1>2, <2>1, <2>2, <2>3, <2>4, <2>5
<1>10. CallsOK'
  <2>1. IsFiniteSet(requests')
    BY <1>2, FS_AddElement DEF SessionInv, CallsOK
  <2>2. \A c \in requests' : CallOK(c)
    BY <1>2, <1>6 DEF SessionInv, CallsOK
  <2>3. \A c, e \in requests' : c.number = e.number => c = e
    BY <1>0, <1>1, <1>2 DEF SessionInv, CallsOK
  <2>. QED BY <2>1, <2>2, <2>3 DEF CallsOK
<1>11. ProgramInv'
  <2>1. ASSUME NEW i \in 1 .. Len(Tail(program))
        PROVE  i + 1 \in 2 .. Len(program) /\ Tail(program)[i] = program[i+1]
    BY <1>3
  <2>2. ASSUME NEW i \in 2 .. Len(Tail(program))
        PROVE  /\ Tail(program)[i] = "config" => Tail(program)[i-1] = "mode"
               /\ Tail(program)[i] = "start" => Tail(program)[i-1] = "config"
    <3>1. i - 1 \in 1 .. Len(Tail(program)) /\ i \in 1 .. Len(Tail(program)) /\ (i - 1) + 1 = i
          /\ (i + 1) - 1 = i
      BY <1>3
    <3>2. Tail(program)[i] = program[i+1] /\ Tail(program)[i-1] = program[(i - 1) + 1]
          /\ i + 1 \in 2 .. Len(program)
      BY <2>1, <3>1
    <3>3. /\ program[i+1] = "config" => program[(i+1)-1] = "mode"
          /\ program[i+1] = "start" => program[(i+1)-1] = "config"
      BY <3>2 DEF SessionInv, ProgramInv
    <3>. QED BY <3>1, <3>2, <3>3
  <2>3. ASSUME selected = NoReceiver, NEW i \in 1 .. Len(Tail(program))
        PROVE  Tail(program)[i] \in Plain
    <3>1. i + 1 \in 1 .. Len(program)
      BY <1>3, <2>1
    <3>. QED BY <2>1, <2>3, <3>1 DEF SessionInv, ProgramInv
  <2>. QED BY <1>2, <2>2, <2>3 DEF ProgramInv, Plain
<1>12. WaitedInv'
  <2>1. ASSUME NEW c \in requests', c.number = pending' PROVE c = d
    BY <1>1, <1>2, <2>1
  <2>2. Follows(s)'
    <3>. SUFFICES ASSUME Tail(program) # <<>>
                  PROVE  /\ Head(Tail(program)) = "config" => s = "mode"
                         /\ Head(Tail(program)) = "start" => s = "config"
      BY <1>2 DEF Follows
    <3>1. /\ 2 \in 2 .. Len(program) /\ 1 \in 1 .. Len(Tail(program)) /\ 2 - 1 = 1
          /\ Head(Tail(program)) = Tail(program)[1] /\ Tail(program)[1] = program[2]
      <4>1. Len(Tail(program)) # 0 /\ Head(Tail(program)) = Tail(program)[1]
        BY <1>3
      <4>2. 1 \in 1 .. Len(Tail(program)) /\ 2 \in 2 .. Len(program)
        BY <1>3, <4>1
      <4>. QED BY <1>3, <4>1, <4>2
    <3>2. /\ program[2] = "config" => program[1] = "mode"
          /\ program[2] = "start" => program[1] = "config"
      BY <3>1 DEF SessionInv, ProgramInv
    <3>. QED BY <1>3, <3>1, <3>2
  <2>3. s = "mode" => confirmed'[selected] = Unknown
    BY <1>8 DEF SessionInv, SessionTypeOK
  <2>4. s = "config" => confirmed'[selected] = Unknown /\ ModeMatches(selected)
    BY <1>s, <1>2, <1>3, <1>8 DEF SessionInv, ReadyInv
  <2>5. s = "start" => ModeMatches(selected) /\ ConfMatches(selected)
    BY <1>s, <1>2, <1>3 DEF SessionInv, ReadyInv
  <2>6. s # "mode" => UNCHANGED <<ModeMatches(selected), ConfMatches(selected)>>
    BY <1>2, <1>7, <1>8 DEF ModeMatches, ConfMatches
  <2>7. s = "mode" => Argument(s) = ModeOf(AppliedTab)
    BY DEF Argument
  <2>8. s = "config" => Argument(s) = Panel
    BY DEF Argument
  <2>9. WaitedOK(d)'
    BY <1>0, <1>2, <1>7, <2>2, <2>3, <2>4, <2>5, <2>6, <2>7, <2>8 DEF WaitedOK
  <2>. QED BY <2>1, <2>9 DEF WaitedInv
<1>13. ReadyInv'
  BY <1>1, <1>2 DEF ReadyInv
<1>14. ServerAsShown'
  <2>. SUFFICES ASSUME NEW r \in Receivers, r \notin overtaken', confirmed'[r] # Unknown
                PROVE  /\ mode[r] = ModeOf(confirmed'[r].tab)
                       /\ conf[r].tab = confirmed'[r].tab
                       /\ conf[r].radio = confirmed'[r].radio
    BY <1>2 DEF ServerAsShown
  <2>1. r \notin overtaken /\ confirmed'[r] = confirmed[r]
    BY <1>8 DEF SessionInv, SessionTypeOK
  <2>. QED BY <2>1 DEF SessionInv, ServerAsShown
<1>15. HardwareInv' /\ HardwareAgrees'
  BY <1>0, <1>2 DEF HardwareInv, HardwareAgrees, SessionInv
<1>. QED BY <1>9, <1>10, <1>11, <1>12, <1>13, <1>14, <1>15 DEF SessionInv

\* A call made late is the call it was.
LEMMA LateCall ==
  ASSUME NEW c, CallOK(c), NEW d, d = [c EXCEPT !.late = TRUE]
  PROVE  /\ CallOK(d) /\ d.number = c.number /\ d.late /\ d.stage = c.stage
         /\ d.arg = c.arg /\ d.step = c.step
<1>1. d = [number |-> c.number, step |-> c.step, on |-> c.on, late |-> TRUE,
           arg |-> c.arg, stage |-> c.stage, ok |-> c.ok, answer |-> c.answer]
  BY DEF CallOK
<1>2. /\ d.number = c.number /\ d.step = c.step /\ d.on = c.on /\ d.stage = c.stage
      /\ d.arg = c.arg /\ d.ok = c.ok /\ d.answer = c.answer
  BY <1>1
<1>3. d.late = TRUE
  BY <1>1
<1>4. d = [number |-> d.number, step |-> d.step, on |-> d.on, late |-> d.late,
           arg |-> d.arg, stage |-> d.stage, ok |-> d.ok, answer |-> d.answer]
  BY <1>1, <1>2, <1>3
<1>5. CallOK(d)
  BY <1>2, <1>4 DEF CallOK
<1>. QED BY <1>2, <1>3, <1>5

\* The client stops waiting: what remains to be shown is the panel, and that
\* the rest of the program may go on.
LEMMA CallEnds ==
  ASSUME SessionInv, NEW c \in requests, c.number = pending, pending' = 0,
         \/ requests' = requests \ {c} /\ c.stage \in {"sent", "done"}
         \/ requests' = (requests \ {c}) \union {[c EXCEPT !.late = TRUE]},
         program' = program \/ program' = <<>>,
         selected' = selected \/ selected' \in Receivers,
         UNCHANGED <<tab, last_mode_tab, presses, serverVars, overtaken, hw_overlap>>,
         radio' \in Values, spin' \in Values,
         confirmed' \in [Receivers -> Settings \union {Unknown}],
         ServerAsShown', ReadyInv'
  PROVE  SessionInv'
<1>c. CallOK(c)
  BY DEF SessionInv, CallsOK
<1>1. PICK d : d = [c EXCEPT !.late = TRUE]
  OBVIOUS
<1>2. /\ CallOK(d) /\ d.number = c.number /\ d.late /\ d.stage = c.stage
      /\ d.arg = c.arg /\ d.step = c.step
  BY <1>c, <1>1, LateCall
<1>3. requests' \subseteq (requests \ {c}) \union {d}
  BY <1>1
<1>4. \A e \in requests' : /\ CallOK(e) /\ e.late
                           /\ e.step \in Steps /\ e.stage \in {"sent", "file", "cache", "done"}
  <2>1. ASSUME NEW e \in requests \ {c} PROVE e.late
    <3>1. e.late <=> e.number # pending
      BY Zenon DEF SessionInv, SessionTypeOK
    <3>2. e.number # pending
      BY DEF SessionInv, CallsOK
    <3>. QED BY <3>1, <3>2
  <2>. QED BY <1>2, <1>3, <2>1 DEF SessionInv, CallsOK, CallOK
<1>5. SessionTypeOK'
  <2>1. \A e \in requests' : e.late <=> e.number # pending'
    <3>1. ASSUME NEW e \in requests' PROVE e.number # 0
      BY <1>4 DEF CallOK
    <3>. QED BY <1>4, <3>1, Zenon
  <2>2. program' \in Seq(Steps)
    <3>1. <<>> \in Seq(Steps) /\ program \in Seq(Steps)
      BY DEF SessionInv, SessionTypeOK
    <3>. QED BY <3>1
  <2>. QED BY <1>4, <2>1, <2>2 DEF SessionInv, SessionTypeOK, serverVars
<1>6. CallsOK'
  <2>1. IsFiniteSet(requests')
    <3>1. IsFiniteSet(requests \ {c}) 
      BY FS_RemoveElement DEF SessionInv, CallsOK
    <3>2. IsFiniteSet((requests \ {c}) \union {d})
      BY <3>1, FS_AddElement
    <3>. QED BY <1>1, <3>1, <3>2
  <2>2. \A e, f \in requests' : e.number = f.number => e = f
    BY <1>2, <1>3 DEF SessionInv, CallsOK
  <2>. QED BY <1>4, <2>1, <2>2 DEF CallsOK
<1>7. ProgramInv'
  <2>1. selected' = NoReceiver => selected = NoReceiver
    BY SessionAssumption
  <2>2. CASE program' = program
    BY <2>1, <2>2 DEF SessionInv, ProgramInv, Plain
  <2>3. CASE program' = <<>>
    BY <2>3 DEF ProgramInv
  <2>. QED BY <2>2, <2>3
<1>8. WaitedInv'
  BY <1>4 DEF WaitedInv, CallOK
<1>9. HardwareInv'
  BY <1>2, <1>3 DEF SessionInv, HardwareInv, serverVars
<1>10. HardwareAgrees'
  <2>1. ASSUME NEW e \in requests, e.stage = "file" PROVE \E f \in requests' : f.stage = "file"
    BY <1>1, <1>2, <2>1
  <2>. QED BY <2>1 DEF SessionInv, HardwareAgrees, serverVars
<1>. QED BY <1>5, <1>6, <1>7, <1>8, <1>9, <1>10 DEF SessionInv

LEMMA ReplyKeeps ==
  ASSUME SessionInv, NEW c \in requests, Reply(c)
  PROVE  SessionInv'
<1>1. /\ c.number = pending /\ c.stage = "done" /\ pending' = 0 /\ requests' = requests \ {c}
      /\ UNCHANGED <<presses, serverVars, overtaken, hw_overlap>>
  BY DEF Reply
<1>2. CallOK(c) /\ WaitedOK(c)
  BY <1>1 DEF SessionInv, CallsOK, WaitedInv
<1>3. program' = program \/ program' = <<>>
  BY DEF Reply, AfterFailure
<1>4. \/ c.step = "list" /\ LoadPanel(c.answer)
      \/ c.step = "get_ppm" /\ spin' = c.answer /\ UNCHANGED <<selected, tab, last_mode_tab, radio>>
      \/ UNCHANGED panelVars
  BY DEF Reply
<1>5. UNCHANGED <<tab, last_mode_tab>>
  BY <1>4 DEF LoadPanel, Reselected, panelVars
<1>6. /\ selected' = selected \/ selected' \in Receivers
      /\ radio' \in Values /\ spin' \in Values
  <2>1. CASE c.step = "list" /\ LoadPanel(c.answer)
    <3>1. c.answer \in [Receivers -> Settings]
      BY <1>1, <1>2, <2>1 DEF CallOK
    <3>2. selected' \in Receivers
      BY <2>1, SessionAssumption DEF LoadPanel, Reselected, SessionInv, SessionTypeOK
    <3>3. c.answer[selected'].radio \in Values
      BY <3>1, <3>2 DEF Settings
    <3>. QED BY <2>1, <3>2, <3>3 DEF LoadPanel, Reselected, SessionInv, SessionTypeOK
  <2>2. CASE c.step = "get_ppm" /\ spin' = c.answer /\ UNCHANGED <<selected, tab, last_mode_tab, radio>>
    BY <1>1, <1>2, <2>2 DEF CallOK, SessionInv, SessionTypeOK
  <2>3. CASE UNCHANGED panelVars
    BY <2>3 DEF panelVars, SessionInv, SessionTypeOK
  <2>. QED BY <1>4, <2>1, <2>2, <2>3
<1>7. \/ c.step = "config" /\ confirmed' = [confirmed EXCEPT ![c.on] = c.arg]
      \/ UNCHANGED confirmed
  BY DEF Reply
<1>8. confirmed' \in [Receivers -> Settings \union {Unknown}]
  <2>1. c.step = "config" => c.arg \in Settings
    BY <1>2 DEF CallOK
  <2>. QED BY <1>7, <2>1 DEF SessionInv, SessionTypeOK
<1>9. ServerAsShown'
  <2>. SUFFICES ASSUME NEW r \in Receivers, r \notin overtaken, confirmed'[r] # Unknown
                PROVE  /\ mode[r] = ModeOf(confirmed'[r].tab)
                       /\ conf[r].tab = confirmed'[r].tab
                       /\ conf[r].radio = confirmed'[r].radio
    BY <1>1 DEF ServerAsShown, serverVars
  <2>1. CASE confirmed'[r] = confirmed[r]
    BY <2>1 DEF SessionInv, ServerAsShown
  <2>2. CASE confirmed'[r] # confirmed[r]
    <3>1. c.step = "config" /\ r = c.on /\ confirmed'[r] = c.arg
      BY <1>2, <1>7, <2>2 DEF CallOK, Plain, SessionInv, SessionTypeOK
    <3>2. r = selected /\ c.arg = Panel /\ ModeMatches(r) /\ ConfMatches(r)
      BY <1>1, <1>2, <3>1 DEF WaitedOK
    <3>3. c.arg.tab = AppliedTab /\ c.arg.radio = radio
      BY <3>2 DEF Panel
    <3>. QED BY <3>1, <3>2, <3>3 DEF ModeMatches, ConfMatches
  <2>. QED BY <2>1, <2>2
<1>10. ReadyInv'
  <2>. SUFFICES ASSUME program' # <<>>
                PROVE  /\ Head(program') = "config" => confirmed'[selected'] = Unknown /\ ModeMatches(selected)'
                       /\ Head(program') = "start" => ModeMatches(selected)' /\ ConfMatches(selected)'
    BY DEF ReadyInv
  <2>1. CASE c.step \in {"mode", "config", "start"}
    <3>1. UNCHANGED <<selected, tab, last_mode_tab, radio, spin>> /\ program' = program
      BY <1>3, <1>4, <2>1 DEF panelVars
    <3>2. AppliedTab' = AppliedTab
      BY <3>1 DEF AppliedTab
    <3>3. UNCHANGED <<ModeMatches(selected), ConfMatches(selected)>>
      BY <1>1, <3>1, <3>2 DEF ModeMatches, ConfMatches, serverVars
    <3>4. c.step = "mode" => confirmed'[selected'] = Unknown
      BY <1>2, <1>7, <3>1 DEF WaitedOK
    <3>. QED BY <1>1, <1>2, <3>1, <3>3, <3>4 DEF WaitedOK, Follows
  <2>2. CASE c.step \notin {"mode", "config", "start"}
    BY <1>2, <1>3, <2>2 DEF WaitedOK, Follows
  <2>. QED BY <2>1, <2>2
<1>. QED BY <1>1, <1>3, <1>5, <1>6, <1>8, <1>9, <1>10, CallEnds

LEMMA FailureKeeps ==
  ASSUME SessionInv, NEW c \in requests, GiveUp(c) \/ Unreachable(c)
  PROVE  SessionInv'
<1>1. /\ c.number = pending /\ pending' = 0
      /\ program' = AfterFailure(c.step)
      /\ \/ requests' = requests \ {c} /\ c.stage \in {"sent", "done"}
         \/ requests' = (requests \ {c}) \union {[c EXCEPT !.late = TRUE]}
      /\ UNCHANGED <<panelVars, presses, serverVars, ghostVars>>
  BY DEF GiveUp, Unreachable
<1>2. /\ program' = program \/ program' = <<>>
      /\ program' # <<>> => program' = program /\ c.step \in Plain
  BY <1>1 DEF AfterFailure, Plain
<1>3. /\ UNCHANGED <<selected, tab, last_mode_tab, radio, spin, confirmed, overtaken, hw_overlap>>
  BY <1>1 DEF panelVars, ghostVars
<1>4. ServerAsShown'
  BY <1>1, <1>3 DEF SessionInv, ServerAsShown, serverVars
<1>5. ReadyInv'
  BY <1>1, <1>2 DEF SessionInv, WaitedInv, WaitedOK, Follows, ReadyInv, Plain
<1>. QED BY <1>1, <1>2, <1>3, <1>4, <1>5, CallEnds DEF SessionInv, SessionTypeOK

-----------------------------------------------------------------------------
(* The handlers *)

LEMMA FurtherCall ==
  ASSUME NEW c, CallOK(c), c.step = "set_ppm", NEW stage \in {"file", "cache"},
         NEW d, d = [c EXCEPT !.stage = stage]
  PROVE  /\ CallOK(d) /\ d.number = c.number /\ d.late = c.late /\ d.stage = stage
         /\ d.arg = c.arg /\ d.step = c.step /\ d.on = c.on
<1>1. d = [number |-> c.number, step |-> c.step, on |-> c.on, late |-> c.late,
           arg |-> c.arg, stage |-> stage, ok |-> c.ok, answer |-> c.answer]
  BY DEF CallOK
<1>2. /\ d.number = c.number /\ d.step = c.step /\ d.on = c.on /\ d.late = c.late
      /\ d.arg = c.arg /\ d.stage = stage /\ d.ok = c.ok /\ d.answer = c.answer
  BY <1>1
<1>3. d = [number |-> d.number, step |-> d.step, on |-> d.on, late |-> d.late,
           arg |-> d.arg, stage |-> d.stage, ok |-> d.ok, answer |-> d.answer]
  BY <1>1, <1>2
<1>4. CallOK(d)
  BY <1>2, <1>3 DEF CallOK
<1>. QED BY <1>2, <1>4

\* What a handler does: the call `c` becomes `d`, or is gone when nobody waits for it.
Handled(c, d) ==
  /\ CallOK(d) /\ d.number = c.number /\ d.late = c.late /\ d.arg = c.arg
  /\ d.step = c.step /\ d.on = c.on
  /\ \/ requests' = (requests \ {c}) \union {d}
     \/ c.late /\ requests' = requests \ {c} /\ d.stage # "file"

LEMMA AnswerHandled ==
  ASSUME NEW c, CallOK(c), NEW ok, NEW answer, Answered(c, ok, answer),
         c.step = "list" => answer \in [Receivers -> Settings],
         c.step = "get_ppm" => answer \in Values,
         c.stage # "file"
  PROVE  \E d : Handled(c, d) /\ d.stage = "done"
<1>1. PICK d : d = [c EXCEPT !.stage = "done", !.ok = ok, !.answer = answer]
  OBVIOUS
<1>2. /\ CallOK(d) /\ d.number = c.number /\ d.late = c.late /\ d.stage = "done"
      /\ d.arg = c.arg /\ d.step = c.step /\ d.on = c.on
  <2>1. d = [number |-> c.number, step |-> c.step, on |-> c.on, late |-> c.late,
             arg |-> c.arg, stage |-> "done", ok |-> ok, answer |-> answer]
    <3>1. PICK e : e = [c EXCEPT !.stage = "done"]
      OBVIOUS
    <3>2. e = [number |-> c.number, step |-> c.step, on |-> c.on, late |-> c.late,
               arg |-> c.arg, stage |-> "done", ok |-> c.ok, answer |-> c.answer]
      BY <3>1 DEF CallOK
    <3>3. PICK f : f = [e EXCEPT !.ok = ok]
      OBVIOUS
    <3>4. f = [number |-> c.number, step |-> c.step, on |-> c.on, late |-> c.late,
               arg |-> c.arg, stage |-> "done", ok |-> ok, answer |-> c.answer]
      BY <3>2, <3>3
    <3>5. d = [f EXCEPT !.answer = answer]
      BY <1>1, <3>1, <3>3
    <3>. QED BY <3>4, <3>5
  <2>2. /\ d.number = c.number /\ d.step = c.step /\ d.on = c.on /\ d.late = c.late
        /\ d.arg = c.arg /\ d.stage = "done" /\ d.ok = ok /\ d.answer = answer
    BY <2>1
  <2>3. d = [number |-> d.number, step |-> d.step, on |-> d.on, late |-> d.late,
             arg |-> d.arg, stage |-> d.stage, ok |-> d.ok, answer |-> d.answer]
    BY <2>1, <2>2
  <2>4. CallOK(d)
    BY <2>2, <2>3 DEF CallOK
  <2>. QED BY <2>2, <2>4
<1>3. CASE c.late
  <2>1. requests' = requests \ {c}
    BY <1>3 DEF Answered
  <2>. QED BY <1>2, <1>3, <2>1 DEF Handled
<1>4. CASE ~c.late
  <2>1. requests' = (requests \ {c}) \union {d}
    BY <1>1, <1>4 DEF Answered
  <2>. QED BY <1>2, <2>1 DEF Handled
<1>. QED BY <1>3, <1>4

\* The calls after a handler; what remains is the state it changed.
LEMMA HandledKeeps ==
  ASSUME SessionInv, UNCHANGED <<panelVars, clientVars, confirmed>>,
         NEW c \in requests, NEW d, Handled(c, d),
         started' \in [Receivers -> BOOLEAN],
         mode' \in [Receivers -> {"fixed", "range", "list"}],
         conf' \in [Receivers -> Settings],
         file_ppm' \in Values, cache_ppm' \in Values,
         overtaken' \subseteq Receivers, hw_overlap' \in BOOLEAN
  PROVE  /\ SessionTypeOK' /\ CallsOK' /\ ProgramInv'
         /\ AppliedTab' = AppliedTab /\ Panel' = Panel
         /\ UNCHANGED <<selected, tab, last_mode_tab, radio, spin, program, pending, confirmed>>
         /\ \A e \in requests' : e \in requests \/ (e = d /\ c.number = d.number)
<1>0. /\ UNCHANGED <<selected, tab, last_mode_tab, radio, spin, program, pending, presses, confirmed>>
  BY DEF panelVars, clientVars
<1>1. requests' \subseteq (requests \ {c}) \union {d} /\ d.number = c.number
  BY DEF Handled
<1>2. SessionTypeOK'
  <2>1. \A e \in requests' : e.late <=> e.number # pending'
    <3>1. \A e \in requests : e.late <=> e.number # pending
      BY Zenon DEF SessionInv, SessionTypeOK
    <3>2. d.late = c.late /\ d.number = c.number
      BY DEF Handled
    <3>3. d.late <=> d.number # pending
      BY <3>1, <3>2, Zenon
    <3>. QED BY <1>0, <1>1, <3>1, <3>3, Zenon
  <2>2. \A e \in requests' : e.step \in Steps /\ e.stage \in {"sent", "file", "cache", "done"}
    BY <1>1 DEF SessionInv, SessionTypeOK, Handled, CallOK
  <2>3. ASSUME pending # 0 PROVE \E e \in requests' : e.number = pending /\ ~e.late
    <3>1. PICK e \in requests : e.number = pending /\ ~e.late
      BY <2>3 DEF SessionInv, SessionTypeOK
    <3>2. CASE e # c
      BY <3>1, <3>2 DEF Handled
    <3>3. CASE e = c
      <4>1. requests' = (requests \ {c}) \union {d} /\ d.late = c.late
        BY <3>1, <3>3 DEF Handled
      <4>2. ~d.late
        BY <3>1, <3>3, <4>1, Zenon
      <4>. QED BY <1>1, <3>1, <3>3, <4>1, <4>2
    <3>. QED BY <3>2, <3>3
  <2>. QED BY <1>0, <2>1, <2>2, <2>3 DEF SessionInv, SessionTypeOK
<1>3. CallsOK'
  <2>1. IsFiniteSet(requests')
    <3>1. IsFiniteSet(requests \ {c})
      BY FS_RemoveElement DEF SessionInv, CallsOK
    <3>2. IsFiniteSet((requests \ {c}) \union {d})
      BY <3>1, FS_AddElement
    <3>. QED BY <3>1, <3>2 DEF Handled
  <2>2. \A e \in requests' : CallOK(e)
    BY <1>1 DEF SessionInv, CallsOK, Handled
  <2>3. \A e, f \in requests' : e.number = f.number => e = f
    BY <1>1 DEF SessionInv, CallsOK
  <2>. QED BY <2>1, <2>2, <2>3 DEF CallsOK
<1>4. ProgramInv'
  BY <1>0 DEF SessionInv, ProgramInv, Plain
<1>5. AppliedTab' = AppliedTab /\ Panel' = Panel
  BY <1>0 DEF AppliedTab, Panel
<1>. QED BY <1>0, <1>1, <1>2, <1>3, <1>4, <1>5

\* A handler that leaves the mode and the settings (but for the correction) as they are.
LEMMA SettingsKept ==
  ASSUME SessionInv, UNCHANGED <<panelVars, clientVars, confirmed, overtaken>>,
         NEW c \in requests, NEW d, Handled(c, d), c.step \notin {"mode", "config"},
         \A r \in Receivers : /\ mode'[r] = mode[r]
                              /\ conf'[r].tab = conf[r].tab /\ conf'[r].radio = conf[r].radio
  PROVE  WaitedInv' /\ ReadyInv' /\ ServerAsShown'
<1>0. /\ UNCHANGED <<selected, tab, last_mode_tab, radio, spin, program, pending, confirmed, overtaken>>
  BY DEF panelVars, clientVars
<1>1. AppliedTab' = AppliedTab /\ Panel' = Panel
  BY <1>0 DEF AppliedTab, Panel
<1>2. selected \in Receivers => /\ ModeMatches(selected)' <=> ModeMatches(selected)
                                /\ ConfMatches(selected)' <=> ConfMatches(selected)
  BY <1>0, <1>1 DEF ModeMatches, ConfMatches
<1>3. WaitedInv'
  <2>. SUFFICES ASSUME NEW e \in requests', e.number = pending
                PROVE  WaitedOK(e)'
    BY <1>0 DEF WaitedInv
  <2>1. PICK b \in requests : /\ b.number = e.number /\ b.step = e.step /\ b.arg = e.arg /\ b.on = e.on
                              /\ e = b \/ e.step \notin {"mode", "config"}
    BY DEF Handled
  <2>2. WaitedOK(b) /\ CallOK(b)
    BY <2>1 DEF SessionInv, WaitedInv, CallsOK
  <2>3. b.step \in {"mode", "config", "start"} => b.on = selected /\ selected \in Receivers
    BY <2>2 DEF WaitedOK, CallOK, Plain
  <2>4. Follows(e.step)'
    BY <1>0, <2>1, <2>2 DEF WaitedOK, Follows
  <2>5. CASE e = b
    BY <1>0, <1>1, <1>2, <2>2, <2>3, <2>4, <2>5 DEF WaitedOK
  <2>6. CASE e.step \notin {"mode", "config"}
    BY <1>0, <1>1, <1>2, <2>1, <2>2, <2>3, <2>4, <2>6 DEF WaitedOK
  <2>. QED BY <2>1, <2>5, <2>6
<1>4. ReadyInv'
  <2>1. program # <<>> /\ Head(program) \in {"config", "start"} => selected \in Receivers
    <3>1. program # <<>> => 1 \in 1 .. Len(program) /\ Head(program) = program[1]
      BY DEF SessionInv, SessionTypeOK
    <3>. QED BY <3>1 DEF SessionInv, SessionTypeOK, ProgramInv, Plain
  <2>. QED BY <1>0, <1>2, <2>1 DEF SessionInv, ReadyInv
<1>5. ServerAsShown'
  BY <1>0 DEF SessionInv, ServerAsShown
<1>. QED BY <1>3, <1>4, <1>5

\* A late handler changes a receiver the account leaves out from then on.
LEMMA LateKeeps ==
  ASSUME SessionInv, UNCHANGED <<panelVars, clientVars, confirmed>>,
         NEW c \in requests, NEW d, Handled(c, d), c.late,
         overtaken' = overtaken \union {c.on},
         \A r \in Receivers \ {c.on} : mode'[r] = mode[r] /\ conf'[r] = conf[r]
  PROVE  WaitedInv' /\ ReadyInv' /\ ServerAsShown'
<1>0. /\ UNCHANGED <<selected, tab, last_mode_tab, radio, spin, program, pending, confirmed>>
  BY DEF panelVars, clientVars
<1>1. AppliedTab' = AppliedTab /\ Panel' = Panel
  BY <1>0 DEF AppliedTab, Panel
<1>2. selected \in Receivers => /\ ModeMatches(selected) => ModeMatches(selected)'
                                /\ ConfMatches(selected) => ConfMatches(selected)'
  BY <1>0, <1>1 DEF ModeMatches, ConfMatches
<1>3. WaitedInv'
  <2>. SUFFICES ASSUME NEW e \in requests', e.number = pending
                PROVE  WaitedOK(e)'
    BY <1>0 DEF WaitedInv
  <2>1. c.number # pending
    BY Zenon DEF SessionInv, SessionTypeOK
  <2>2. e \in requests
    BY <2>1 DEF Handled
  <2>3. WaitedOK(e) /\ CallOK(e)
    BY <2>2 DEF SessionInv, WaitedInv, CallsOK
  <2>4. e.step \in {"mode", "config", "start"} => e.on = selected /\ selected \in Receivers
    BY <2>3 DEF WaitedOK, CallOK, Plain
  <2>5. Follows(e.step)'
    BY <1>0, <2>3 DEF WaitedOK, Follows
  <2>. QED BY <1>0, <1>1, <1>2, <2>3, <2>4, <2>5 DEF WaitedOK
<1>4. ReadyInv'
  <2>1. program # <<>> /\ Head(program) \in {"config", "start"} => selected \in Receivers
    <3>1. program # <<>> => 1 \in 1 .. Len(program) /\ Head(program) = program[1]
      BY DEF SessionInv, SessionTypeOK
    <3>. QED BY <3>1 DEF SessionInv, SessionTypeOK, ProgramInv, Plain
  <2>. QED BY <1>0, <1>2, <2>1 DEF SessionInv, ReadyInv
<1>5. ServerAsShown'
  BY <1>0 DEF SessionInv, ServerAsShown
<1>. QED BY <1>3, <1>4, <1>5

\* The call the client waits for changes the receiver in front, as it is shown.
LEMMA WaitedKeeps ==
  ASSUME SessionInv, UNCHANGED <<panelVars, clientVars, confirmed, overtaken>>,
         NEW c \in requests, NEW d, Handled(c, d), c.number = pending,
         c.step \in {"mode", "config"},
         \A r \in Receivers \ {c.on} : mode'[r] = mode[r] /\ conf'[r] = conf[r],
         c.step = "mode" => ModeMatches(selected)',
         c.step = "config" => ModeMatches(selected)' /\ ConfMatches(selected)'
  PROVE  WaitedInv' /\ ReadyInv' /\ ServerAsShown'
<1>0. /\ UNCHANGED <<selected, tab, last_mode_tab, radio, spin, program, pending, confirmed, overtaken>>
  BY DEF panelVars, clientVars
<1>1. AppliedTab' = AppliedTab /\ Panel' = Panel
  BY <1>0 DEF AppliedTab, Panel
<1>2. WaitedOK(c) /\ c.number # 0
  BY DEF SessionInv, WaitedInv, CallsOK, CallOK
<1>3. WaitedInv'
  <2>. SUFFICES ASSUME NEW e \in requests', e.number = pending
                PROVE  WaitedOK(e)'
    BY <1>0 DEF WaitedInv
  <2>1. e = d
    BY DEF Handled, SessionInv, CallsOK
  <2>2. e.step = c.step /\ e.arg = c.arg /\ e.on = c.on
    BY <2>1 DEF Handled
  <2>3. Follows(e.step)'
    BY <1>0, <1>2, <2>2 DEF WaitedOK, Follows
  <2>. QED BY <1>0, <1>1, <1>2, <2>2, <2>3 DEF WaitedOK
<1>4. ReadyInv'
  BY <1>0, <1>2 DEF ReadyInv
<1>5. ServerAsShown'
  BY <1>0, <1>2 DEF SessionInv, ServerAsShown, WaitedOK
<1>. QED BY <1>3, <1>4, <1>5

LEMMA ServeModeKeeps ==
  ASSUME SessionInv, UNCHANGED <<panelVars, clientVars>>, NEW c \in requests, ServeMode(c)
  PROVE  SessionInv'
<1>1. /\ c.step = "mode" /\ c.stage = "sent"
      /\ mode' = [mode EXCEPT ![c.on] = c.arg]
      /\ UNCHANGED <<started, conf, file_ppm, cache_ppm, confirmed, hw_overlap>>
  BY DEF ServeMode, Handle
<1>2. CallOK(c) /\ c.on \in Receivers /\ c.arg \in {"fixed", "range", "list"}
  BY <1>1 DEF SessionInv, CallsOK, CallOK, Plain
<1>3. PICK ok : ok = TRUE
  OBVIOUS
<1>4. Answered(c, ok, "none")
  BY <1>3 DEF ServeMode
<1>5. PICK d : Handled(c, d) /\ d.stage = "done"
  BY <1>1, <1>2, <1>4, AnswerHandled
<1>6. /\ c.late => overtaken' = overtaken \union {c.on}
      /\ ~c.late => overtaken' = overtaken
  BY DEF ServeMode, Overtakes
<1>7. SessionTypeOK' /\ CallsOK' /\ ProgramInv'
  <2>1. mode' \in [Receivers -> {"fixed", "range", "list"}]
    BY <1>1, <1>2 DEF SessionInv, SessionTypeOK
  <2>2. overtaken' \subseteq Receivers
    BY <1>2, <1>6 DEF SessionInv, SessionTypeOK
  <2>3. /\ started' \in [Receivers -> BOOLEAN] /\ conf' \in [Receivers -> Settings]
        /\ file_ppm' \in Values /\ cache_ppm' \in Values /\ hw_overlap' \in BOOLEAN
    BY <1>1 DEF SessionInv, SessionTypeOK
  <2>. QED BY <1>1, <1>5, <2>1, <2>2, <2>3, HandledKeeps
<1>8. \A r \in Receivers \ {c.on} : mode'[r] = mode[r] /\ conf'[r] = conf[r]
  BY <1>1 DEF SessionInv, SessionTypeOK
<1>9. WaitedInv' /\ ReadyInv' /\ ServerAsShown'
  <2>1. CASE c.late
    BY <1>1, <1>5, <1>6, <1>8, <2>1, LateKeeps
  <2>2. CASE ~c.late
    <3>1. c.number = pending
      BY <2>2, Zenon DEF SessionInv, SessionTypeOK
    <3>2. c.on = selected /\ c.arg = ModeOf(AppliedTab)
      BY <1>1, <3>1 DEF SessionInv, WaitedInv, WaitedOK
    <3>3. AppliedTab' = AppliedTab /\ selected' = selected
      BY DEF AppliedTab, panelVars
    <3>4. ModeMatches(selected)'
      BY <1>1, <1>2, <3>2, <3>3 DEF ModeMatches, SessionInv, SessionTypeOK
    <3>. QED BY <1>1, <1>5, <1>6, <1>8, <2>2, <3>1, <3>4, WaitedKeeps
  <2>. QED BY <2>1, <2>2
<1>10. HardwareInv' /\ HardwareAgrees'
  BY <1>1, <1>5 DEF Handled, SessionInv, HardwareInv, HardwareAgrees
<1>. QED BY <1>7, <1>9, <1>10 DEF SessionInv

LEMMA ServeConfigKeeps ==
  ASSUME SessionInv, UNCHANGED <<panelVars, clientVars>>, NEW c \in requests, ServeConfig(c)
  PROVE  SessionInv'
<1>1. /\ c.step = "config" /\ c.stage = "sent"
      /\ conf' = [conf EXCEPT ![c.on] = c.arg]
      /\ UNCHANGED <<started, mode, file_ppm, cache_ppm, confirmed, hw_overlap>>
  BY DEF ServeConfig, Handle
<1>2. CallOK(c) /\ c.on \in Receivers /\ c.arg \in Settings
  BY <1>1 DEF SessionInv, CallsOK, CallOK, Plain
<1>3. PICK ok : ok = TRUE
  OBVIOUS
<1>4. Answered(c, ok, "none")
  BY <1>3 DEF ServeConfig
<1>5. PICK d : Handled(c, d) /\ d.stage = "done"
  BY <1>1, <1>2, <1>4, AnswerHandled
<1>6. /\ c.late => overtaken' = overtaken \union {c.on}
      /\ ~c.late => overtaken' = overtaken
  BY DEF ServeConfig, Overtakes
<1>7. SessionTypeOK' /\ CallsOK' /\ ProgramInv'
  <2>1. conf' \in [Receivers -> Settings]
    BY <1>1, <1>2 DEF SessionInv, SessionTypeOK
  <2>2. overtaken' \subseteq Receivers
    BY <1>2, <1>6 DEF SessionInv, SessionTypeOK
  <2>3. /\ started' \in [Receivers -> BOOLEAN] /\ mode' \in [Receivers -> {"fixed", "range", "list"}]
        /\ file_ppm' \in Values /\ cache_ppm' \in Values /\ hw_overlap' \in BOOLEAN
    BY <1>1 DEF SessionInv, SessionTypeOK
  <2>. QED BY <1>1, <1>5, <2>1, <2>2, <2>3, HandledKeeps
<1>8. \A r \in Receivers \ {c.on} : mode'[r] = mode[r] /\ conf'[r] = conf[r]
  BY <1>1 DEF SessionInv, SessionTypeOK
<1>9. WaitedInv' /\ ReadyInv' /\ ServerAsShown'
  <2>1. CASE c.late
    BY <1>1, <1>5, <1>6, <1>8, <2>1, LateKeeps
  <2>2. CASE ~c.late
    <3>1. c.number = pending
      BY <2>2, Zenon DEF SessionInv, SessionTypeOK
    <3>2. c.on = selected /\ c.arg = Panel /\ ModeMatches(selected)
      BY <1>1, <3>1 DEF SessionInv, WaitedInv, WaitedOK
    <3>3. AppliedTab' = AppliedTab /\ selected' = selected /\ radio' = radio
      BY DEF AppliedTab, panelVars
    <3>4. ModeMatches(selected)'
      BY <1>1, <1>6, <2>2, <3>2, <3>3 DEF ModeMatches
    <3>5. conf'[selected] = Panel
      BY <1>1, <1>2, <3>2 DEF SessionInv, SessionTypeOK
    <3>6. ConfMatches(selected)'
      BY <3>3, <3>5 DEF ConfMatches, Panel
    <3>. QED BY <1>1, <1>5, <1>6, <1>8, <2>2, <3>1, <3>4, <3>6, WaitedKeeps
  <2>. QED BY <2>1, <2>2
<1>10. HardwareInv' /\ HardwareAgrees'
  BY <1>1, <1>5 DEF Handled, SessionInv, HardwareInv, HardwareAgrees
<1>. QED BY <1>7, <1>9, <1>10 DEF SessionInv

\* The handlers that leave mode and settings alone, but for the correction.
LEMMA OthersKeep ==
  ASSUME SessionInv, UNCHANGED <<panelVars, clientVars, mode, confirmed, overtaken>>,
         NEW c \in requests, NEW d, Handled(c, d), c.step \notin {"mode", "config"},
         started' \in [Receivers -> BOOLEAN],
         conf' = conf \/ \E v \in Values : conf' = WithPpm(conf, v),
         file_ppm' \in Values, cache_ppm' \in Values, hw_overlap' \in BOOLEAN,
         HardwareInv', HardwareAgrees'
  PROVE  SessionInv'
<1>1. /\ conf' \in [Receivers -> Settings]
      /\ \A r \in Receivers : conf'[r].tab = conf[r].tab /\ conf'[r].radio = conf[r].radio
  <2>1. conf \in [Receivers -> Settings]
    BY DEF SessionInv, SessionTypeOK
  <2>2. ASSUME NEW v \in Values, conf' = WithPpm(conf, v)
        PROVE  /\ conf' \in [Receivers -> Settings]
               /\ \A r \in Receivers : conf'[r].tab = conf[r].tab /\ conf'[r].radio = conf[r].radio
    <3>1. \A r \in Receivers : /\ conf'[r] = [conf[r] EXCEPT !.ppm = v]
                               /\ conf[r] \in Settings
      BY <2>1, <2>2 DEF WithPpm
    <3>2. \A s \in Settings : /\ [s EXCEPT !.ppm = v] \in Settings
                              /\ [s EXCEPT !.ppm = v].tab = s.tab
                              /\ [s EXCEPT !.ppm = v].radio = s.radio
      BY DEF Settings
    <3>3. conf' = [r \in Receivers |-> conf'[r]]
      BY <2>2 DEF WithPpm
    <3>. QED BY <3>1, <3>2, <3>3
  <2>. QED BY <2>1, <2>2
<1>2. /\ mode' \in [Receivers -> {"fixed", "range", "list"}] /\ overtaken' \subseteq Receivers
      /\ \A r \in Receivers : mode'[r] = mode[r]
  BY DEF SessionInv, SessionTypeOK
<1>3. SessionTypeOK' /\ CallsOK' /\ ProgramInv'
  BY <1>1, <1>2, HandledKeeps
<1>4. WaitedInv' /\ ReadyInv' /\ ServerAsShown'
  BY <1>1, <1>2, SettingsKept
<1>. QED BY <1>3, <1>4 DEF SessionInv

\* An answer of a handler that is not past the file leaves the hardware's account.
LEMMA HardwareKept ==
  ASSUME SessionInv, NEW c \in requests, NEW d, Handled(c, d), d.stage # "file",
         c.stage # "file", UNCHANGED <<file_ppm, cache_ppm, hw_overlap>>
  PROVE  HardwareInv' /\ HardwareAgrees'
  BY DEF Handled, SessionInv, HardwareInv, HardwareAgrees

LEMMA SmallHandlersKeep ==
  ASSUME SessionInv, UNCHANGED <<panelVars, clientVars>>, NEW c \in requests,
         ServeStart(c) \/ ServeStop(c) \/ ServeList(c) \/ ServeGetPpm(c)
  PROVE  SessionInv'
<1>1. /\ c.step \notin {"mode", "config"} /\ c.stage = "sent" /\ CallOK(c)
      /\ UNCHANGED <<mode, conf, file_ppm, cache_ppm, confirmed, overtaken, hw_overlap>>
  BY DEF ServeStart, ServeStop, ServeList, ServeGetPpm, Handle, serverVars, ghostVars,
         SessionInv, CallsOK
<1>2. started' \in [Receivers -> BOOLEAN]
  BY DEF ServeStart, ServeStop, ServeList, ServeGetPpm, serverVars, SessionInv, SessionTypeOK
<1>3. \E d : Handled(c, d) /\ d.stage = "done"
  <2>0. PICK yes : yes = TRUE
    OBVIOUS
  <2>1. CASE ServeStart(c)
    <3>1. PICK ok : ok = ~started[c.on]
      OBVIOUS
    <3>2. Answered(c, ok, "none") /\ c.step = "start"
      BY <2>1, <3>1 DEF ServeStart, Handle
    <3>. QED BY <1>1, <3>2, AnswerHandled
  <2>2. CASE ServeStop(c)
    <3>1. Answered(c, yes, "none") /\ c.step = "stop"
      BY <2>0, <2>2 DEF ServeStop, Handle
    <3>. QED BY <1>1, <3>1, AnswerHandled
  <2>3. CASE ServeList(c)
    <3>1. Answered(c, yes, conf) /\ c.step = "list"
      BY <2>0, <2>3 DEF ServeList, Handle
    <3>2. conf \in [Receivers -> Settings]
      BY DEF SessionInv, SessionTypeOK
    <3>3. PICK answer : answer = conf
      OBVIOUS
    <3>4. Answered(c, yes, answer) /\ answer \in [Receivers -> Settings]
      BY <3>1, <3>2, <3>3
    <3>. QED BY <1>1, <3>1, <3>4, AnswerHandled
  <2>4. CASE ServeGetPpm(c)
    <3>1. Answered(c, yes, cache_ppm) /\ c.step = "get_ppm"
      BY <2>0, <2>4 DEF ServeGetPpm, Handle
    <3>2. cache_ppm \in Values
      BY DEF SessionInv, SessionTypeOK
    <3>3. PICK answer : answer = cache_ppm
      OBVIOUS
    <3>4. Answered(c, yes, answer) /\ answer \in Values
      BY <3>1, <3>2, <3>3
    <3>. QED BY <1>1, <3>1, <3>4, AnswerHandled
  <2>. QED BY <2>1, <2>2, <2>3, <2>4
<1>4. PICK d : Handled(c, d) /\ d.stage = "done"
  BY <1>3
<1>5. HardwareInv' /\ HardwareAgrees'
  BY <1>1, <1>4, HardwareKept
<1>6. file_ppm' \in Values /\ cache_ppm' \in Values /\ hw_overlap' \in BOOLEAN
  BY <1>1 DEF SessionInv, SessionTypeOK
<1>. QED BY <1>1, <1>2, <1>4, <1>5, <1>6, OthersKeep

LEMMA WriteFileKeeps ==
  ASSUME SessionInv, UNCHANGED <<panelVars, clientVars>>, NEW c \in requests, WriteFile(c)
  PROVE  SessionInv'
<1>1. /\ c.step = "set_ppm" /\ c.stage = "sent" /\ CallOK(c) /\ c.arg \in Values
      /\ UNCHANGED <<started, mode, conf, cache_ppm, confirmed, overtaken>>
  BY DEF WriteFile, Handle, SessionInv, CallsOK, CallOK
<1>2. started' \in [Receivers -> BOOLEAN] /\ cache_ppm' \in Values
  BY <1>1 DEF SessionInv, SessionTypeOK
<1>3. CASE /\ file_ppm' = c.arg
           /\ requests' = (requests \ {c}) \union {[c EXCEPT !.stage = "file"]}
           /\ hw_overlap' = (hw_overlap \/ \E d \in requests : d.stage \in {"file", "cache"})
  <2>1. PICK d : d = [c EXCEPT !.stage = "file"]
    OBVIOUS
  <2>2. Handled(c, d) /\ d.stage = "file"
    <3>1. /\ CallOK(d) /\ d.number = c.number /\ d.late = c.late /\ d.stage = "file"
          /\ d.arg = c.arg /\ d.step = c.step /\ d.on = c.on
      BY <1>1, <2>1, FurtherCall
    <3>. QED BY <1>3, <2>1, <3>1 DEF Handled
  <2>3. hw_overlap' \in BOOLEAN
    BY <1>3
  <2>4. requests' = (requests \ {c}) \union {d}
    BY <1>3, <2>1
  <2>5. ~hw_overlap' => \A e \in requests : e.stage \notin {"file", "cache"}
    BY <1>3
  <2>6. HardwareInv'
    BY <1>3, <2>2, <2>4, <2>5 DEF Handled, HardwareInv
  <2>7. HardwareAgrees'
    BY <2>2, <2>4 DEF HardwareAgrees
  <2>. QED BY <1>1, <1>2, <1>3, <2>2, <2>3, <2>6, <2>7, OthersKeep
<1>4. CASE Answered(c, FALSE, "none") /\ UNCHANGED <<file_ppm, hw_overlap>>
  <2>1. PICK no : no = FALSE
    OBVIOUS
  <2>2. Answered(c, no, "none")
    BY <1>4, <2>1
  <2>3. PICK d : Handled(c, d) /\ d.stage = "done"
    BY <1>1, <2>2, AnswerHandled
  <2>4. HardwareInv' /\ HardwareAgrees'
    BY <1>1, <1>4, <2>3, HardwareKept
  <2>5. file_ppm' \in Values /\ hw_overlap' \in BOOLEAN
    BY <1>4 DEF SessionInv, SessionTypeOK
  <2>. QED BY <1>1, <1>2, <2>3, <2>4, <2>5, OthersKeep
<1>. QED BY <1>3, <1>4 DEF WriteFile

LEMMA WriteCacheKeeps ==
  ASSUME SessionInv, UNCHANGED <<panelVars, clientVars>>, NEW c \in requests, WriteCache(c)
  PROVE  SessionInv'
<1>1. /\ c.stage = "file" /\ c.step = "set_ppm" /\ CallOK(c) /\ c.arg \in Values
      /\ cache_ppm' = c.arg
      /\ UNCHANGED <<started, mode, conf, file_ppm, confirmed, overtaken, hw_overlap>>
  BY DEF WriteCache, ghostVars, SessionInv, CallsOK, CallOK
<1>2. PICK d : d = [c EXCEPT !.stage = "cache"]
  OBVIOUS
<1>3. /\ CallOK(d) /\ d.number = c.number /\ d.late = c.late /\ d.stage = "cache"
      /\ d.arg = c.arg /\ d.step = c.step /\ d.on = c.on
  BY <1>1, <1>2, FurtherCall
<1>4. requests' = (requests \ {c}) \union {d}
  BY <1>2 DEF WriteCache
<1>5. Handled(c, d)
  BY <1>3, <1>4 DEF Handled
<1>6. HardwareInv'
  BY <1>1, <1>3, <1>4 DEF SessionInv, HardwareInv
<1>7. HardwareAgrees'
  BY <1>1 DEF SessionInv, HardwareInv, HardwareAgrees
<1>8. /\ started' \in [Receivers -> BOOLEAN] /\ file_ppm' \in Values
      /\ cache_ppm' \in Values /\ hw_overlap' \in BOOLEAN
  BY <1>1 DEF SessionInv, SessionTypeOK
<1>. QED BY <1>1, <1>5, <1>6, <1>7, <1>8, OthersKeep

LEMMA ApplyPpmKeeps ==
  ASSUME SessionInv, UNCHANGED <<panelVars, clientVars>>, NEW c \in requests, ApplyPpm(c)
  PROVE  SessionInv'
<1>1. /\ c.stage = "cache" /\ c.step = "set_ppm" /\ CallOK(c) /\ c.arg \in Values
      /\ conf' = WithPpm(conf, c.arg)
      /\ UNCHANGED <<started, mode, file_ppm, cache_ppm, confirmed, overtaken, hw_overlap>>
  BY DEF ApplyPpm, ghostVars, SessionInv, CallsOK, CallOK
<1>2. PICK yes : yes = TRUE
  OBVIOUS
<1>3. Answered(c, yes, "none")
  BY <1>2 DEF ApplyPpm
<1>4. PICK d : Handled(c, d) /\ d.stage = "done"
  BY <1>1, <1>3, AnswerHandled
<1>5. HardwareInv' /\ HardwareAgrees'
  BY <1>1, <1>4, HardwareKept
<1>6. /\ started' \in [Receivers -> BOOLEAN] /\ file_ppm' \in Values
      /\ cache_ppm' \in Values /\ hw_overlap' \in BOOLEAN
  BY <1>1 DEF SessionInv, SessionTypeOK
<1>. QED BY <1>1, <1>4, <1>5, <1>6, OthersKeep

-----------------------------------------------------------------------------
(* The whole *)

LEMMA SessionStarts == SessionInit => SessionInv
<1>. SUFFICES ASSUME SessionInit PROVE SessionInv
  OBVIOUS
<1>1. SessionTypeOK
  <2>1. conf \in [Receivers -> Settings]
    BY DEF SessionInit, Settings, Tabs, ModeTabs
  <2>2. program \in Seq(Steps) /\ Default \in Values
    BY SessionAssumption DEF SessionInit
  <2>3. \A c \in requests : /\ c.step \in Steps
                            /\ c.stage \in {"sent", "file", "cache", "done"}
                            /\ c.late <=> c.number # pending
    BY DEF SessionInit
  <2>4. /\ started \in [Receivers -> BOOLEAN] /\ mode \in [Receivers -> {"fixed", "range", "list"}]
        /\ confirmed \in [Receivers -> Settings \union {Unknown}]
    BY DEF SessionInit
  <2>5. /\ selected \in Receivers \union {NoReceiver} /\ tab \in Tabs /\ last_mode_tab \in ModeTabs
        /\ radio \in Values /\ spin \in Values /\ file_ppm \in Values /\ cache_ppm \in Values
        /\ overtaken \subseteq Receivers /\ hw_overlap \in BOOLEAN /\ pending = 0
    BY <2>2 DEF SessionInit, Tabs, ModeTabs
  <2>. QED BY <2>1, <2>2, <2>3, <2>4, <2>5 DEF SessionTypeOK
<1>2. CallsOK
  BY FS_EmptySet DEF SessionInit, CallsOK
<1>. QED BY <1>1, <1>2 DEF SessionInit, SessionInv, ProgramInv, WaitedInv, ReadyInv,
                           ServerAsShown, HardwareInv, HardwareAgrees

LEMMA SessionKeeps == SessionInv /\ [SessionNext]_sessionVars => SessionInv'
<1>. SUFFICES ASSUME SessionInv, [SessionNext]_sessionVars PROVE SessionInv'
  OBVIOUS
<1>1. CASE UNCHANGED sessionVars
  <2>1. /\ UNCHANGED <<panelVars, pending, requests, serverVars, ghostVars>>
        /\ UNCHANGED <<selected, tab, last_mode_tab, radio, spin, program, pending, requests>>
        /\ UNCHANGED <<started, mode, conf, file_ppm, cache_ppm, confirmed, overtaken, hw_overlap>>
    BY <1>1 DEF sessionVars, panelVars, clientVars, serverVars, ghostVars
  <2>2. AppliedTab' = AppliedTab /\ Panel' = Panel
    BY <2>1 DEF AppliedTab, Panel
  <2>3. UNCHANGED <<ModeMatches(selected), ConfMatches(selected)>>
    BY <2>1, <2>2 DEF ModeMatches, ConfMatches
  <2>4. SessionTypeOK' /\ CallsOK' /\ ProgramInv'
    BY <2>1 DEF SessionInv, SessionTypeOK, CallsOK, ProgramInv, Plain
  <2>5. WaitedInv'
    BY <2>1, <2>2, <2>3 DEF SessionInv, WaitedInv, WaitedOK, Follows
  <2>6. ReadyInv'
    BY <2>1, <2>2, <2>3 DEF SessionInv, ReadyInv
  <2>7. ServerAsShown' /\ HardwareInv' /\ HardwareAgrees'
    BY <2>1 DEF SessionInv, ServerAsShown, HardwareInv, HardwareAgrees
  <2>. QED BY <2>4, <2>5, <2>6, <2>7 DEF SessionInv
<1>2. CASE User
  BY <1>2, UserKeeps
<1>3. CASE Client
  BY <1>3, SendKeeps, ReplyKeeps, FailureKeeps DEF Client
<1>4. CASE Server
  BY <1>4, ServeModeKeeps, ServeConfigKeeps, SmallHandlersKeep, WriteFileKeeps,
     WriteCacheKeeps, ApplyPpmKeeps DEF Server
<1>. QED BY <1>1, <1>2, <1>3, <1>4 DEF SessionNext

\* The inductive invariant: what the call waited for carries, and what the calls
\* still to be made will find, is what the panel shows.
THEOREM SessionSound == SessionSpec => []SessionInv
<1>. QED BY SessionStarts, SessionKeeps, PTL DEF SessionSpec

\* The copies of a setting agree: what the client was told a receiver holds is
\* what it holds until an abandoned call runs late, and the cache of the server
\* says what hardware.conf says unless two changes of it have overlapped.
THEOREM CopiesStayAgreed == SessionSpec => [](SessionTypeOK /\ CopiesAgree)
<1>1. SessionInv => SessionTypeOK /\ CopiesAgree
  BY DEF SessionInv, CopiesAgree
<1>. QED BY <1>1, SessionSound, PTL

\* A start the client still waits for starts the receiver with the mode and the
\* settings in front of the user, however many calls given up run in between.
THEOREM StartIsAsShown == SessionSpec => StartsAsShown
<1>. DEFINE Shown == \A r \in Receivers \ overtaken :
              (~started[r] /\ started'[r]
                 /\ \E c \in requests : c.number = pending /\ c.step = "start" /\ c.on = r)
              => mode[r] = ModeOf(AppliedTab) /\ conf[r].tab = AppliedTab /\ conf[r].radio = radio
<1>1. SessionInv => Shown
  <2>. SUFFICES ASSUME SessionInv, NEW r \in Receivers, r \notin overtaken,
                       NEW c \in requests, c.number = pending, c.step = "start", c.on = r
                PROVE  mode[r] = ModeOf(AppliedTab) /\ conf[r].tab = AppliedTab /\ conf[r].radio = radio
    OBVIOUS
  <2>1. WaitedOK(c)
    BY DEF SessionInv, WaitedInv
  <2>. QED BY <2>1 DEF WaitedOK, ModeMatches, ConfMatches
<1>2. SessionInv => [Shown]_sessionVars
  BY <1>1
<1>. QED BY <1>2, SessionSound, PTL DEF StartsAsShown

=============================================================================
