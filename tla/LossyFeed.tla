------------------------------ MODULE LossyFeed ------------------------------
(***************************************************************************)
(* What one topic of the event bus promises its subscribers, without the   *)
(* deque, the base index, the mutex and the condition variable: a          *)
(* subscriber reads the published messages in order, each at most once,    *)
(* and passes over a message only when Retain newer ones exist.            *)
(***************************************************************************)
EXTENDS Naturals, Sequences

CONSTANTS Subscribers,  \* the streams that read the topic
          Messages,     \* what can be published
          Retain        \* how many messages the topic keeps

VARIABLES log,       \* every message published so far
          attached,  \* the subscribers that have started reading
          next       \* next[s]: the number of messages behind s

feedVars == <<log, attached, next>>

Init ==
  /\ log = <<>>
  /\ attached = {}
  /\ next = [s \in Subscribers |-> 0]

Publish(m) ==
  /\ log' = Append(log, m)
  /\ UNCHANGED <<attached, next>>

\* A stream starts at the oldest message or, for audio and IQ, at the tail.
Attach(s) ==
  /\ s \notin attached
  /\ attached' = attached \union {s}
  /\ \E start \in {0, Len(log)} : next' = [next EXCEPT ![s] = start]
  /\ UNCHANGED log

\* Message number i (from 0) is given to s; what lies between is lost, and
\* only what is too old may be lost.
Read(s, i) ==
  /\ s \in attached
  /\ next[s] <= i
  /\ \A j \in next[s] .. (i - 1) : j + Retain < Len(log)
  /\ next' = [next EXCEPT ![s] = i + 1]
  /\ UNCHANGED <<log, attached>>

Next ==
  \/ \E m \in Messages : Publish(m)
  \/ \E s \in Subscribers : Attach(s)
  \/ \E s \in Subscribers : \E i \in 0 .. (Len(log) - 1) : Read(s, i)

Spec == Init /\ [][Next]_feedVars
=============================================================================
