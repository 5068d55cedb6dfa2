------------------------------- MODULE EventBus -------------------------------
(***************************************************************************)
(* One topic of backend/src/event_bus.cpp and the gRPC streams that read   *)
(* it (TelemetryServiceImpl in backend/src/grpc_services.cpp).  The four   *)
(* topics (receiver events, decoded messages, audio frames, IQ frames) are *)
(* the same code over a mutex, a condition variable, a deque and a base    *)
(* index; they differ in where a stream starts: at cursor 0 (events,       *)
(* decoded messages) or at the tail (audio, IQ).  `live` says which.       *)
(*                                                                         *)
(* A critical section is one step.  notify_all runs after the unlock, so   *)
(* it is a step of its own.  A message is reduced to its class: what the   *)
(* streams' filters (receiver id, signal type) tell apart.                 *)
(***************************************************************************)
EXTENDS Naturals, Sequences

CONSTANTS Publishers,    \* threads that publish (workers, the manager)
          Subscribers,   \* server streams
          Classes,       \* message classes a filter distinguishes
          NoMessage,     \* what a stream that is writing nothing holds
          MaxMessages,   \* max_messages_
          PublishBound   \* bound on the number of messages published

ASSUME BusAssumption ==
  /\ NoMessage \notin Classes
  /\ MaxMessages \in Nat \ {0}
  /\ PublishBound \in Nat

VARIABLES
  live,       \* TRUE: an audio or IQ topic, streams start at the tail
  log,        \* history: every message published
  queue,      \* the deque
  base,       \* the base index: how many messages were dropped at the front
  publisher,  \* publisher[p]: "idle", or "notify" between unlock and notify_all
  stream,     \* stream[s]: where the handler of s stands
  cancelled,  \* cancelled[s]: context->IsCancelled()
  filter,     \* filter[s]: the classes that s asked for
  start,      \* history: the cursor s started from
  cursor,     \* cursor[s]
  held,       \* held[s]: the message WaitFor returned, while it is written
  written     \* history: the numbers (from 1) of the messages written to s

busVars    == <<live, log, queue, base, publisher>>
streamVars == <<stream, cancelled, filter, start, cursor, held, written>>
topicVars  == <<busVars, streamVars>>

StreamStates == {"none", "loop", "check", "blocked", "write", "closed"}

BusTypeOK ==
  /\ live \in BOOLEAN
  /\ log \in Seq(Classes)
  /\ queue \in Seq(Classes)
  /\ base \in Nat
  /\ publisher \in [Publishers -> {"idle", "notify"}]
  /\ stream \in [Subscribers -> StreamStates]
  /\ cancelled \in [Subscribers -> BOOLEAN]
  /\ filter \in [Subscribers -> SUBSET Classes]
  /\ start \in [Subscribers -> Nat]
  /\ cursor \in [Subscribers -> Nat]
  /\ held \in [Subscribers -> Classes \union {NoMessage}]
  /\ written \in [Subscribers -> Seq(Nat)]

BusInit ==
  /\ live \in BOOLEAN
  /\ log = <<>>
  /\ queue = <<>>
  /\ base = 0
  /\ publisher = [p \in Publishers |-> "idle"]
  /\ stream = [s \in Subscribers |-> "none"]
  /\ cancelled = [s \in Subscribers |-> FALSE]
  /\ filter = [s \in Subscribers |-> {}]
  /\ start = [s \in Subscribers |-> 0]
  /\ cursor = [s \in Subscribers |-> 0]
  /\ held = [s \in Subscribers |-> NoMessage]
  /\ written = [s \in Subscribers |-> <<>>]

-----------------------------------------------------------------------------
(* Publishing *)

\* How many messages the while loop pops once m has been pushed.
Excess(q) == IF Len(q) > MaxMessages THEN Len(q) - MaxMessages ELSE 0

\* push_back, then pop_front and ++base while the deque is too long.
Publish(p, m) ==
  /\ Len(log) < PublishBound
  /\ publisher[p] = "idle"
  /\ LET grown == Append(queue, m)
     IN  /\ queue' = SubSeq(grown, Excess(grown) + 1, Len(grown))
         /\ base' = base + Excess(grown)
  /\ log' = Append(log, m)
  /\ publisher' = [publisher EXCEPT ![p] = "notify"]
  /\ UNCHANGED <<live, streamVars>>

\* Mutant: publishing notifies nobody.
MutantUnwoken(state) == state

\* What a notification does to a handler: it looks at the predicate again.
WokenStream(state) == IF state = "blocked" THEN "check" ELSE state

\* notify_all, after the lock is released.
Notify(p) ==
  /\ publisher[p] = "notify"
  /\ publisher' = [publisher EXCEPT ![p] = "idle"]
  /\ stream' = [s \in Subscribers |-> WokenStream(stream[s])]
  /\ UNCHANGED <<live, log, queue, base>>
  /\ UNCHANGED <<cancelled, filter, start, cursor, held, written>>

-----------------------------------------------------------------------------
(* Streaming *)

\* AudioFrameCursorNow, IqFrameCursorNow.
CursorNow == base + Len(queue)

\* Mutant: a live stream starts at the oldest buffered frame.
MutantStartAtBase == IF live THEN base ELSE 0

\* Where a new stream starts: size_t cursor = 0, or the tail.
StartCursor == IF live THEN CursorNow ELSE 0

\* A client opens the stream and its handler sets the cursor.
Subscribe(s, wanted) ==
  /\ stream[s] = "none"
  /\ stream' = [stream EXCEPT ![s] = "loop"]
  /\ filter' = [filter EXCEPT ![s] = wanted]
  /\ start' = [start EXCEPT ![s] = StartCursor]
  /\ cursor' = [cursor EXCEPT ![s] = StartCursor]
  /\ UNCHANGED <<busVars, cancelled, held, written>>

\* The client cancels the call or goes away.
Cancel(s) ==
  /\ stream[s] \notin {"none", "closed"}
  /\ ~cancelled[s]
  /\ cancelled' = [cancelled EXCEPT ![s] = TRUE]
  /\ UNCHANGED <<busVars, stream, filter, start, cursor, held, written>>

\* while (!context->IsCancelled()): WaitFor is called, or the stream ends.
Loop(s) ==
  /\ stream[s] = "loop"
  /\ stream' = [stream EXCEPT ![s] = IF cancelled[s] THEN "closed" ELSE "check"]
  /\ UNCHANGED <<busVars, cancelled, filter, start, cursor, held, written>>

\* The predicate's side effect: a cursor that was overrun moves up to base.
Clamped(s) == IF cursor[s] < base THEN base ELSE cursor[s]

\* The offset of the cursor in the deque.
Offset(s) == Clamped(s) - base

\* The value of the predicate has_data.
HasData(s) == Clamped(s) < CursorNow

\* WaitFor returns queue[offset] and advances the cursor; the handler
\* writes the message, or skips one its filter does not want.
Take(s) ==
  LET m == queue[Offset(s) + 1]
  IN  /\ HasData(s)
      /\ cursor' = [cursor EXCEPT ![s] = Clamped(s) + 1]
      /\ IF m \in filter[s]
         THEN /\ stream' = [stream EXCEPT ![s] = "write"]
              /\ held' = [held EXCEPT ![s] = m]
         ELSE /\ stream' = [stream EXCEPT ![s] = "loop"]
              /\ UNCHANGED held
      /\ UNCHANGED <<busVars, cancelled, filter, start, written>>

\* No data: the cursor keeps its clamped value, the handler goes to `state`.
Miss(s, state) ==
  /\ ~HasData(s)
  /\ cursor' = [cursor EXCEPT ![s] = Clamped(s)]
  /\ stream' = [stream EXCEPT ![s] = state]
  /\ UNCHANGED <<busVars, cancelled, filter, start, held, written>>

\* The predicate is evaluated under the lock, and the lock is given up and
\* the thread put to sleep in one step.
Check(s) ==
  /\ stream[s] = "check"
  /\ Take(s) \/ Miss(s, "blocked")

\* Mutant: cv.wait instead of cv.wait_for.
MutantNoTimeout(s) == stream[s] = "blocked" /\ Take(s)

\* The 1000 ms pass, or the wakeup is spurious: the predicate is evaluated
\* once more, and on a timeout WaitFor returns nullopt.
WaitTimeout(s) ==
  /\ stream[s] = "blocked"
  /\ Take(s) \/ Miss(s, "loop")

WriteOk(s) ==
  /\ stream[s] = "write"
  /\ written' = [written EXCEPT ![s] = Append(@, cursor[s])]
  /\ held' = [held EXCEPT ![s] = NoMessage]
  /\ stream' = [stream EXCEPT ![s] = "loop"]
  /\ UNCHANGED <<busVars, cancelled, filter, start, cursor>>

\* Write returns false: the peer is gone.
WriteFails(s) ==
  /\ stream[s] = "write"
  /\ held' = [held EXCEPT ![s] = NoMessage]
  /\ stream' = [stream EXCEPT ![s] = "closed"]
  /\ UNCHANGED <<busVars, cancelled, filter, start, cursor, written>>

-----------------------------------------------------------------------------
Handler(s) == Loop(s) \/ Check(s) \/ WaitTimeout(s) \/ WriteOk(s) \/ WriteFails(s)

BusNext ==
  \/ \E p \in Publishers, m \in Classes : Publish(p, m)
  \/ \E p \in Publishers : Notify(p)
  \/ \E s \in Subscribers, wanted \in SUBSET Classes : Subscribe(s, wanted)
  \/ \E s \in Subscribers : Cancel(s) \/ Handler(s)

BusSpec == BusInit /\ [][BusNext]_topicVars

\* Handler threads and publishers are scheduled; a Write returns, since the
\* transport accepts the message or reports the peer gone.  Nothing obliges
\* anybody to publish, to subscribe or to cancel.
BusFairness ==
  /\ \A s \in Subscribers : WF_topicVars(Handler(s))
  /\ \A p \in Publishers : WF_topicVars(Notify(p))

BusFairSpec == BusSpec /\ BusFairness

-----------------------------------------------------------------------------
(* Safety *)

\* The handler of s is running.
Open(s) == stream[s] \notin {"none", "closed"}

\* The deque is the newest part of the history: at most MaxMessages of the
\* published messages, with base counting those before it (event_bus.cpp
\* 12-16).  A message is dropped only when the deque is full.
WindowOK ==
  /\ base + Len(queue) = Len(log)
  /\ Len(queue) <= MaxMessages
  /\ base > 0 => Len(queue) = MaxMessages
  /\ \A i \in 1 .. Len(queue) : queue[i] = log[base + i]

\* No stream sleeps on a message that is there for it, unless a notification
\* is on its way: messages are not left to the 1000 ms timeout.
NoLostWakeup ==
  \A s \in Subscribers :
    stream[s] = "blocked" /\ HasData(s) => \E p \in Publishers : publisher[p] = "notify"

\* A client gets the messages in publication order and none twice.
InOrder ==
  \A s \in Subscribers :
    \A i, j \in 1 .. Len(written[s]) : i < j => written[s][i] < written[s][j]

\* The message being written is the one at the position the cursor passed,
\* and one that the client asked for.
HeldOK ==
  \A s \in Subscribers : stream[s] = "write" =>
    /\ cursor[s] \in 1 .. Len(log)
    /\ held[s] = log[cursor[s]]
    /\ held[s] \in filter[s]

\* Messages are lost only by being overwritten: one that is behind an open
\* stream's cursor and still in the deque was written, if it was asked for.
LossOnlyByOverwrite ==
  \A s \in Subscribers : Open(s) =>
    \A i \in (start[s] + 1) .. cursor[s] :
      base < i /\ log[i] \in filter[s]
        => \/ \E k \in 1 .. Len(written[s]) : written[s][k] = i
           \/ stream[s] = "write" /\ i = cursor[s]

-----------------------------------------------------------------------------
(* Liveness *)

\* A stream that stays open gets past every published message, whether or
\* not anything else is ever published: it is behind the n-th for a while
\* and, as cursors only advance and a closed stream stays closed, once.
CatchesUp ==
  \A s \in Subscribers : \A n \in 1 .. PublishBound :
    []<>~(Open(s) /\ Len(log) >= n /\ cursor[s] < n)

\* A cancelled stream ends, even on a topic where nothing is published.
CancelledCloses ==
  \A s \in Subscribers : []<>(cancelled[s] => stream[s] = "closed")

\* An open stream gets past everything that is published, and one whose client
\* has cancelled it ends, although it waits for messages that may never come
\* (the bounded wait of grpc_services.cpp 480-487).
StreamsServed == CatchesUp /\ CancelledCloses

-----------------------------------------------------------------------------
(* Refinement *)

Feed == INSTANCE LossyFeed
          WITH Messages <- Classes,
               Retain   <- MaxMessages,
               attached <- {s \in Subscribers : stream[s] # "none"},
               next     <- cursor

\* The topic and its streams implement LossyFeed.
ImplementsFeed == Feed!Spec
=============================================================================
