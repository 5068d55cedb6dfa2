---------------------------- MODULE ReceiverWorker ----------------------------
(***************************************************************************)
(* The life of one receiver: the calls that start and stop it              *)
(* (ReceiverManager over ReceiverWorker::Start and Stop, in                *)
(* backend/src/receiver_manager.cpp and receiver_worker.cpp), its three    *)
(* threads, and the queue of IQ blocks from the ingest thread to the       *)
(* process thread.  What the threads compute is the subject of other       *)
(* modules; here a block is its number and the session it was captured in. *)
(*                                                                         *)
(* Calls come from the threads of the gRPC server.  The manager's mutex is *)
(* held for the whole call, the joins of Stop included.  Of the queue's    *)
(* mutex only one thing is visible: the process thread holds it between    *)
(* the moment it finds nothing to do ("sleepy") and the moment it is       *)
(* asleep ("blocked"), and Stop does not take it.                          *)
(***************************************************************************)
EXTENDS Naturals, Sequences

CONSTANTS Callers,        \* server threads that call the manager
          NoCaller,       \* the mutex is free
          MaxQueueDepth,  \* kMaxQueueDepth
          CallBound,      \* bound on the number of calls
          BlockBound      \* bound on the number of blocks captured

ASSUME WorkerAssumption ==
  /\ NoCaller \notin Callers
  /\ MaxQueueDepth \in Nat \ {0}
  /\ CallBound \in Nat
  /\ BlockBound \in Nat

VARIABLES
  lock,        \* mu_ of the manager: who holds it
  call,        \* call[c]: where the call of c stands
  calls,       \* history: the number of calls made
  running,     \* running_
  last_error,  \* last_error_: TRUE when it is not empty
  session,     \* history: how many times the receiver was started
  buffer,      \* audio_buffer_ is not null
  joinable,    \* the std::thread members that hold a thread
  ingest,      \* where IngestLoop stands
  process,     \* where ProcessLoop stands
  run,         \* where RunLoop stands
  device,      \* device_: "none", "closed" or "open"
  captured,    \* history: the number of blocks captured
  in_hand,     \* the block IngestLoop is about to queue
  iq_deque,    \* iq_deque_
  taken,       \* history: the number of the last block ProcessLoop took
  stale        \* history: blocks of earlier sessions taken in this one

callVars    == <<lock, call, calls>>
controlVars == <<running, last_error, session, buffer, joinable>>
queueVars   == <<captured, in_hand, iq_deque, taken, stale>>
threadVars  == <<ingest, process, run, device>>
vars        == <<callVars, controlVars, queueVars, threadVars>>

Requests == {"want_start", "want_stop", "want_other"}
Starting == {"clear", "buffer", "spawn_run", "spawn_ingest", "spawn_process"}
Joining  == {"notify", "join_ingest", "join_process", "join_run", "reset"}
Inside   == {"start", "stop", "other"} \union Starting \union Joining

CallStates == {"idle"} \union Requests \union Inside

Threads == {"ingest", "process", "run"}
Blocks  == [number : Nat, session : Nat]

TypeOK ==
  /\ lock \in Callers \union {NoCaller}
  /\ call \in [Callers -> CallStates]
  /\ calls \in Nat
  /\ running \in BOOLEAN
  /\ last_error \in BOOLEAN
  /\ session \in Nat
  /\ buffer \in BOOLEAN
  /\ joinable \in SUBSET Threads
  /\ ingest \in {"dead", "loop", "open", "capture", "push", "notify", "close"}
  /\ process \in {"dead", "loop", "lock", "sleepy", "blocked", "work"}
  /\ run \in {"dead", "loop", "body"}
  /\ device \in {"none", "closed", "open"}
  /\ captured \in Nat
  /\ in_hand \in Blocks
  /\ iq_deque \in Seq(Blocks)
  /\ Len(iq_deque) <= MaxQueueDepth
  /\ taken \in Nat
  /\ stale \in Nat

\* A worker has a device, or none (then the IQ blocks are synthetic).
Init ==
  /\ lock = NoCaller
  /\ call = [c \in Callers |-> "idle"]
  /\ calls = 0
  /\ running = FALSE
  /\ last_error = FALSE
  /\ session = 0
  /\ buffer = FALSE
  /\ joinable = {}
  /\ ingest = "dead" /\ process = "dead" /\ run = "dead"
  /\ device \in {"none", "closed"}
  /\ captured = 0
  /\ in_hand = [number |-> 0, session |-> 0]
  /\ iq_deque = <<>>
  /\ taken = 0
  /\ stale = 0

-----------------------------------------------------------------------------
(* Calls *)

At(c, from, to) == call[c] = from /\ call' = [call EXCEPT ![c] = to]

\* A request reaches the manager: start, stop, or any of the calls that do
\* not touch the threads (list, status, set mode, set config, set PPM).
Request(c, wish) ==
  /\ calls < CallBound
  /\ calls' = calls + 1
  /\ At(c, "idle", wish)
  /\ UNCHANGED <<lock, controlVars, queueVars, threadVars>>

\* Mutant: the manager does not lock its mutex.
MutantNoMutex == TRUE

Free == lock = NoCaller

\* std::lock_guard lock(mu_).
Acquire(c) ==
  /\ Free
  /\ \/ At(c, "want_start", "start")
     \/ At(c, "want_stop", "stop")
     \/ At(c, "want_other", "other")
  /\ lock' = c
  /\ UNCHANGED <<calls, controlVars, queueVars, threadVars>>

\* The call returns and gives up the mutex.
Return(c, from) ==
  /\ At(c, from, "idle")
  /\ lock' = NoCaller
  /\ UNCHANGED calls

Proceed(c, from, to) == At(c, from, to) /\ UNCHANGED <<lock, calls>>

Other(c) == Return(c, "other") /\ UNCHANGED <<controlVars, queueVars, threadVars>>

\* Start: compare_exchange on running_; it fails on a running receiver.
StartRefused(c) ==
  /\ running
  /\ Return(c, "start")
  /\ UNCHANGED <<controlVars, queueVars, threadVars>>

StartCas(c) ==
  /\ ~running
  /\ Proceed(c, "start", "clear")
  /\ running' = TRUE
  /\ session' = session + 1
  /\ stale' = 0
  /\ UNCHANGED <<last_error, buffer, joinable, captured, in_hand, iq_deque, taken, threadVars>>

ClearError(c) ==
  /\ Proceed(c, "clear", "buffer")
  /\ last_error' = FALSE
  /\ UNCHANGED <<running, session, buffer, joinable, queueVars, threadVars>>

\* make_unique<AudioRingBuffer>; PushPluginConfig is the subject of PluginChain.
NewBuffer(c) ==
  /\ Proceed(c, "buffer", "spawn_run")
  /\ buffer' = TRUE
  /\ UNCHANGED <<running, last_error, session, joinable, queueVars, threadVars>>

\* thread_ = std::thread(...), and so on: the new thread stands at its loop.
Spawn(thread) ==
  /\ joinable' = joinable \union {thread}
  /\ UNCHANGED <<running, last_error, session, buffer, queueVars, device>>

SpawnRun(c) ==
  /\ Proceed(c, "spawn_run", "spawn_ingest")
  /\ Spawn("run") /\ run' = "loop"
  /\ UNCHANGED <<ingest, process>>

SpawnIngest(c) ==
  /\ Proceed(c, "spawn_ingest", "spawn_process")
  /\ Spawn("ingest") /\ ingest' = "loop"
  /\ UNCHANGED <<process, run>>

SpawnProcess(c) ==
  /\ Return(c, "spawn_process")
  /\ Spawn("process") /\ process' = "loop"
  /\ UNCHANGED <<ingest, run>>

\* Stop: of a receiver that is not running it returns at once, successfully.
StopIdle(c) ==
  /\ ~running
  /\ Return(c, "stop")
  /\ UNCHANGED <<controlVars, queueVars, threadVars>>

StopCas(c) ==
  /\ running
  /\ Proceed(c, "stop", "notify")
  /\ running' = FALSE
  /\ UNCHANGED <<last_error, session, buffer, joinable, queueVars, threadVars>>

\* What a notification does to the process thread: it locks the mutex again
\* and evaluates the predicate.
Woken(state) == IF state = "blocked" THEN "lock" ELSE state

\* iq_queue_cv_.notify_all(), without iq_queue_mu_.
NotifyAll(c) ==
  /\ Proceed(c, "notify", "join_ingest")
  /\ process' = Woken(process)
  /\ UNCHANGED <<controlVars, queueVars, ingest, run, device>>

\* Mutant: Stop does not wait for the thread.
MutantNoJoin(thread, state) == joinable' = joinable \ {thread}

\* if (joinable()) join(): returns once the thread has ended.
Join(thread, state) == state = "dead" /\ joinable' = joinable \ {thread}

AfterJoin == UNCHANGED <<running, last_error, session, buffer, queueVars, threadVars>>

JoinIngest(c) ==
  Proceed(c, "join_ingest", "join_process") /\ Join("ingest", ingest) /\ AfterJoin

JoinProcess(c) ==
  Proceed(c, "join_process", "join_run") /\ Join("process", process) /\ AfterJoin

JoinRun(c) ==
  Proceed(c, "join_run", "reset") /\ Join("run", run) /\ AfterJoin

\* audio_buffer_.reset(), and Stop returns.
ResetBuffer(c) ==
  /\ Return(c, "reset")
  /\ buffer' = FALSE
  /\ UNCHANGED <<running, last_error, session, joinable, queueVars, threadVars>>

StartStep(c) ==
  \/ StartRefused(c) \/ StartCas(c) \/ ClearError(c) \/ NewBuffer(c)
  \/ SpawnRun(c) \/ SpawnIngest(c) \/ SpawnProcess(c)

StopStep(c) ==
  \/ StopIdle(c) \/ StopCas(c) \/ NotifyAll(c)
  \/ JoinIngest(c) \/ JoinProcess(c) \/ JoinRun(c) \/ ResetBuffer(c)

-----------------------------------------------------------------------------
(* The ingest thread *)

IngestAt(from, to) == ingest = from /\ ingest' = to /\ UNCHANGED <<callVars, process, run>>

\* Mutant: the loop does not test running_.
MutantIngestForever ==
  /\ IngestAt("loop", IF device = "closed" THEN "open" ELSE "capture")
  /\ UNCHANGED <<controlVars, queueVars, device>>

\* while (running_): open the device if need be, or read from it.
IngestLoop ==
  /\ IngestAt("loop", IF ~running THEN "close"
                      ELSE IF device = "closed" THEN "open" ELSE "capture")
  /\ UNCHANGED <<controlVars, queueVars, device>>

OpenDevice ==
  /\ IngestAt("open", "capture")
  /\ device' = "open"
  /\ UNCHANGED <<controlVars, queueVars>>

\* Open, a setting of the device, or ReadIq fails: last_error_ is set and the
\* loop starts over after a short sleep.  Without a device nothing fails,
\* except that past BlockBound every read does.
DeviceFails ==
  /\ device # "none" \/ captured = BlockBound
  /\ IngestAt("open", "loop") \/ IngestAt("capture", "loop")
  /\ last_error' = TRUE
  /\ UNCHANGED <<running, session, buffer, joinable, queueVars, device>>

Capture ==
  /\ captured < BlockBound
  /\ IngestAt("capture", "push")
  /\ captured' = captured + 1
  /\ in_hand' = [number |-> captured + 1, session |-> session]
  /\ UNCHANGED <<controlVars, iq_deque, taken, stale, device>>

\* Mutant: the ingest thread does not take the queue's mutex.
MutantPushUnlocked == TRUE

\* iq_queue_mu_ is free (its other critical sections are single steps).
QueueUnlocked == process # "sleepy"

\* The oldest block makes room.
Trimmed(q) == IF Len(q) >= MaxQueueDepth THEN Tail(q) ELSE q

Push ==
  /\ QueueUnlocked
  /\ IngestAt("push", "notify")
  /\ iq_deque' = Append(Trimmed(iq_deque), in_hand)
  /\ UNCHANGED <<controlVars, captured, in_hand, taken, stale, device>>

\* notify_one, after the lock is released.
NotifyOne ==
  /\ ingest = "notify"
  /\ ingest' = "loop"
  /\ process' = Woken(process)
  /\ UNCHANGED <<callVars, controlVars, queueVars, run, device>>

\* if (device_ != nullptr && device_opened) Close().
Closed == IF device = "open" THEN "closed" ELSE device

CloseDevice ==
  /\ IngestAt("close", "dead")
  /\ device' = Closed
  /\ UNCHANGED <<controlVars, queueVars>>

Ingest ==
  IngestLoop \/ OpenDevice \/ DeviceFails \/ Capture \/ Push \/ NotifyOne \/ CloseDevice

-----------------------------------------------------------------------------
(* The process thread *)

ProcessAt(from, to) == process = from /\ process' = to /\ UNCHANGED <<callVars, ingest, run, device>>

\* while (running_).
ProcessLoop ==
  /\ ProcessAt("loop", IF running THEN "lock" ELSE "dead")
  /\ UNCHANGED <<controlVars, queueVars>>

\* The predicate holds and there is a block: it is moved out of the queue.
TakeBlock ==
  /\ iq_deque # <<>>
  /\ ProcessAt("lock", "work")
  /\ taken' = Head(iq_deque).number
  /\ stale' = IF Head(iq_deque).session < session THEN stale + 1 ELSE stale
  /\ iq_deque' = Tail(iq_deque)
  /\ UNCHANGED <<controlVars, captured, in_hand>>

\* The predicate holds because the receiver stopped: break.
Break ==
  /\ iq_deque = <<>> /\ ~running
  /\ ProcessAt("lock", "dead")
  /\ UNCHANGED <<controlVars, queueVars>>

\* The predicate does not hold; the mutex is still held.
NothingToDo ==
  /\ iq_deque = <<>> /\ running
  /\ ProcessAt("lock", "sleepy")
  /\ UNCHANGED <<controlVars, queueVars>>

\* The wait gives up the mutex and sleeps, in one step.
Sleep == ProcessAt("sleepy", "blocked") /\ UNCHANGED <<controlVars, queueVars>>

\* The wait may return without a notification.
SpuriousWakeup == ProcessAt("blocked", "lock") /\ UNCHANGED <<controlVars, queueVars>>

\* The block is demodulated (AudioPath, PluginChain).
Work == ProcessAt("work", "loop") /\ UNCHANGED <<controlVars, queueVars>>

Process == ProcessLoop \/ TakeBlock \/ Break \/ NothingToDo \/ Sleep \/ Work

-----------------------------------------------------------------------------
(* The run thread *)

RunAt(from, to) ==
  run = from /\ run' = to /\ UNCHANGED <<callVars, controlVars, queueVars, ingest, process, device>>

\* RunLoop tests running_ and runs its body (Scanner, AudioPath).
RunLoop == RunAt("loop", IF running THEN "body" ELSE "dead") \/ RunAt("body", "loop")

-----------------------------------------------------------------------------
CallStep(c) == Acquire(c) \/ Other(c) \/ StartStep(c) \/ StopStep(c)

Next ==
  \/ \E c \in Callers, wish \in Requests : Request(c, wish)
  \/ \E c \in Callers : CallStep(c)
  \/ Ingest
  \/ Process
  \/ SpuriousWakeup
  \/ RunLoop

Spec == Init /\ [][Next]_vars

\* Every thread is scheduled, and a device call returns.  Nothing obliges a
\* client to call, nor the condition variable to wake without a notification.
\* The number of calls is bounded, so a caller that waits for the mutex
\* needs no more than weak fairness.
Fairness ==
  /\ \A c \in Callers : WF_vars(CallStep(c))
  /\ WF_vars(Ingest)
  /\ WF_vars(Process)
  /\ WF_vars(RunLoop)

FairSpec == Spec /\ Fairness

-----------------------------------------------------------------------------
(* Safety *)

\* When a call of Stop returns, the three threads have ended and been joined,
\* the device is closed and the audio buffer is gone, also when another
\* client stopped the receiver (receiver_worker.cpp 472-498, under the mutex
\* of receiver_manager.cpp 88).
StopMeansStopped ==
  [][\A c \in Callers :
       call[c] \in {"stop"} \union Joining /\ call'[c] = "idle"
         => /\ ingest' = "dead" /\ process' = "dead" /\ run' = "dead"
            /\ joinable' = {}
            /\ device' # "open"
            /\ ~buffer']_vars

\* The audio buffer exists as long as a thread that uses it may run: the
\* process thread writes to it and the run thread reads from it, both
\* without a lock around the pointer (receiver_worker.hpp 69).
BufferOutlivesThreads == process # "dead" \/ run # "dead" => buffer

\* Start assigns a new thread only to a member that holds none: assigning to
\* a joinable std::thread would terminate the program.
FreshThreads ==
  \A c \in Callers :
    /\ call[c] = "spawn_run" => "run" \notin joinable
    /\ call[c] = "spawn_ingest" => "ingest" \notin joinable
    /\ call[c] = "spawn_process" => "process" \notin joinable

\* The process thread does not sleep on a block that is there for it, unless
\* the notification is on its way.
NoLostBlock == process = "blocked" /\ iq_deque # <<>> => ingest = "notify"

\* A block was captured that is not in the queue yet.
Pushing == IF ingest = "push" THEN 1 ELSE 0

\* The queue holds the newest blocks that were queued, without a gap, and
\* none that was taken: a slow process thread loses the oldest blocks only.
NewestKept ==
  /\ \A i \in 1 .. Len(iq_deque) :
       /\ iq_deque[i].number > taken
       /\ iq_deque[i].number + (Len(iq_deque) - i) + Pushing = captured
  /\ iq_deque = <<>> => taken + Pushing = captured

\* A process thread that is slower than the device loses only the oldest
\* blocks and gets none twice; one that is faster never sleeps on a block.
QueueSound == NewestKept /\ NoLostBlock

\* Start does not empty the queue: the process thread may meet blocks of the
\* previous session, at most a queue full of them.
StaleBounded == stale <= MaxQueueDepth

-----------------------------------------------------------------------------
(* Liveness *)

\* The process thread fell asleep after the notification of Stop, and the
\* ingest thread, which could wake it, has ended.
Hung == process = "blocked" /\ ingest = "dead"

\* Every call of a client returns, unless the notification of Stop is lost to
\* the wait of the process thread (ProcessLoop): nothing else keeps the
\* manager's mutex for ever.
ReturnsOrHangs == \A c \in Callers : []<>(call[c] = "idle" \/ Hung)

\* Every call of Stop returns, as the tests of the repository take for
\* granted (tests/test_mode_state_machine.cpp 102).  It does not hold: the
\* store to running_ and the notification can both fall between the
\* predicate and the sleep of the process thread.
StopReturns ==
  \A c \in Callers : call[c] \in {"stop"} \union Joining ~> call[c] = "idle"
=============================================================================
