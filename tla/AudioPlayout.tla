---------------------------- MODULE AudioPlayout ----------------------------
(***************************************************************************)
(* The audio of the graphical client: from a frame of the stream through   *)
(* the gap detection and the queue to the sound device                     *)
(* (frontend/src/main_window.cpp).                                         *)
(*                                                                         *)
(* A frame is one unit of sound, as long as kAudioMinStartupMs, the longest*)
(* gap fill and the low-water mark (40 ms each).  Resampling keeps the     *)
(* duration, so it does not show.  Frames of one session of a receiver have*)
(* consecutive sequence numbers and sample indices (RunLoop); some are lost*)
(* on the way.  Another session starts when the receiver is started again  *)
(* or another one is selected; its numbers have nothing to do with the last.*)
(***************************************************************************)
EXTENDS Naturals, Sequences, FiniteSets

CONSTANTS Rates,        \* sample rates a sound device can have
          NoDevice,     \* no sound device, or no sink
          Prefill,      \* units to have before playing starts (kAudioPrefillMs)
          PrefillWait,  \* ticks after which less will do (kAudioPrefillMaxWaitMs)
          PendingMax,   \* units kept at most (kAudioPendingMaxMs)
          SinkSize,     \* units the sink holds (kAudioSinkBufferMs)
          FrameBound,   \* bound on the frames the server sends
          StartNumbers, \* where a session we join may have got to
          SwitchBound   \* bound on changes of session or device

ASSUME PlayAssumption ==
  /\ NoDevice \notin Rates
  /\ {Prefill, PrefillWait, PendingMax, SinkSize, FrameBound, SwitchBound} \subseteq Nat \ {0}
  /\ StartNumbers \subseteq Nat
  /\ Prefill <= PendingMax

VARIABLES
  feed,      \* session, and number of its next frame
  sent,      \* history: frames sent
  switches,  \* history: changes of session and device
  track,     \* audio_stream_*: what the next frame should be
  device,    \* the default output of the computer
  out        \* the queue and the sink, see NewSink; history: heard

playVars == <<feed, sent, switches, track, device, out>>

Untracked == [seq_valid |-> FALSE, last |-> 0, index_valid |-> FALSE, next |-> 0]

Quiet == [session |-> 0, number |-> 0]
Unit(n) == [session |-> feed.session, number |-> n]

PlayTypeOK ==
  /\ feed.session \in Nat /\ feed.number \in Nat
  /\ device \in Rates \union {NoDevice} /\ out.sink \in Rates \union {NoDevice}
  /\ track \in [seq_valid : BOOLEAN, last : Nat, index_valid : BOOLEAN, next : Nat]
  /\ track.index_valid => track.seq_valid /\ track.next = track.last + 1
  /\ out.free \in 0 .. SinkSize /\ out.wait \in 0 .. PrefillWait
  /\ Len(out.pend) <= PendingMax
  /\ out.sink = NoDevice => out.pend = <<>> /\ ~out.done

PlayInit ==
  /\ feed = [session |-> 1, number |-> 0]
  /\ sent = 0 /\ switches = 0
  /\ track = Untracked
  /\ device \in Rates
  /\ out = [sink |-> NoDevice, free |-> SinkSize, pend |-> <<>>, done |-> FALSE,
            wait |-> 0, heard |-> <<>>]

-----------------------------------------------------------------------------
(* The queue.  `ok` says whether a sink starts, `accepts` how much one write takes. *)

Least(S) == CHOOSE x \in S : \A y \in S : x <= y

\* A sink that is (not) started leaves an empty queue that has to fill again.
NewSink(q, rate) ==
  [q EXCEPT !.sink = rate, !.free = SinkSize, !.pend = <<>>, !.done = FALSE, !.wait = 0]

\* EnsureAudioOutputInitialized: without a device the old sink stays.
Ensure(q, ok) ==
  IF device \in {NoDevice, q.sink} THEN q ELSE NewSink(q, IF ok THEN device ELSE NoDevice)

\* k units go to the sink.
Taken(q, k) == [q EXCEPT !.heard = @ \o SubSeq(q.pend, 1, k),
                         !.free = @ - k,
                         !.pend = SubSeq(@, k + 1, Len(@))]

\* Mutant: the queue has to be full again before each write.
MutantPlays(q) == q.sink # NoDevice /\ q.done /\ Len(q.pend) >= Prefill

Plays(q) == q.sink # NoDevice /\ q.done /\ q.pend # <<>>

\* DrainAudioOutputQueue: as much as the sink has room for, and takes.
Drained(q, accepts) ==
  IF Plays(q) THEN Taken(q, Least({Len(q.pend), q.free, accepts})) ELSE q

\* Mutant: the queue only grows.
MutantCapped(s) == s

\* The oldest units go when the queue gets too long.
Capped(s) == IF Len(s) > PendingMax THEN SubSeq(s, Len(s) - PendingMax + 1, Len(s)) ELSE s

\* The waiting time of the prefill counts from an empty queue.
Appended(q, unit) == [q EXCEPT !.wait = IF q.pend = <<>> THEN 0 ELSE @,
                               !.pend = Capped(Append(@, unit))]

Prefilled(q) == q.done \/ Len(q.pend) >= Prefill \/ (q.wait >= PrefillWait /\ q.pend # <<>>)

\* HandleAudioPcmFrame: the prefill is looked at only when a frame comes.
Handled(q, unit, ok, accepts) ==
  LET e == Ensure(q, ok)
      more == Appended(e, unit)
  IN  IF e.sink = NoDevice THEN e
      ELSE IF Prefilled(more) THEN Drained([more EXCEPT !.done = TRUE], accepts)
      ELSE more

-----------------------------------------------------------------------------

\* A sequence number out of line invalidates the sample index as well.
InLine(n) == track.seq_valid /\ n = track.last + 1 /\ track.index_valid

\* A sample index ahead of the expected one is filled with silence, one unit
\* at most, if the queue is about to run dry.
Gap(n) == InLine(n) /\ n > track.next /\ Len(out.pend) <= 1

\* OnAudioFrame
OnAudioFrame(n) ==
  /\ \E ok \in BOOLEAN, accepts \in 0 .. SinkSize :
       LET filled == IF Gap(n) THEN Handled(out, Quiet, ok, accepts) ELSE out
       IN  out' = Handled(filled, Unit(n), ok, accepts)
  /\ track' = [seq_valid |-> TRUE, last |-> n, index_valid |-> TRUE, next |-> n + 1]

\* Frame n of the session is sent and either comes or is lost.
Frame ==
  /\ sent < FrameBound
  /\ sent' = sent + 1
  /\ feed' = [feed EXCEPT !.number = @ + 1]
  /\ \/ OnAudioFrame(feed.number)
     \/ UNCHANGED <<track, out>>
  /\ UNCHANGED <<switches, device>>

\* The timer drains the queue every 10 ms.
DrainTimer ==
  /\ \E accepts \in 1 .. SinkSize : out' = Drained(out, accepts)
  /\ out' # out
  /\ UNCHANGED <<feed, sent, switches, track, device>>

\* The sound device plays a unit.
Play ==
  /\ out.sink # NoDevice /\ out.free < SinkSize
  /\ out' = [out EXCEPT !.free = @ + 1]
  /\ UNCHANGED <<feed, sent, switches, track, device>>

Tick ==
  /\ out.pend # <<>> /\ ~out.done /\ out.wait < PrefillWait
  /\ out' = [out EXCEPT !.wait = @ + 1]
  /\ UNCHANGED <<feed, sent, switches, track, device>>

SwitchSession ==
  /\ switches < SwitchBound /\ switches' = switches + 1
  /\ \E n \in StartNumbers : feed' = [session |-> feed.session + 1, number |-> n]
  /\ UNCHANGED <<sent, track, device, out>>

SwitchDevice ==
  /\ switches < SwitchBound /\ switches' = switches + 1
  /\ device' \in (Rates \union {NoDevice}) \ {device}
  /\ UNCHANGED <<feed, sent, track, out>>

PlayNext == Frame \/ DrainTimer \/ Play \/ Tick \/ SwitchSession \/ SwitchDevice

\* The timer of the window and the sound device go on.
PlaySpec ==
  /\ PlayInit /\ [][PlayNext]_playVars
  /\ WF_playVars(DrainTimer) /\ WF_playVars(Play)

-----------------------------------------------------------------------------
(* Properties *)

Before(u, v) == u.session < v.session \/ (u.session = v.session /\ u.number < v.number)

\* Silence has no place in it.
InOrder(s) ==
  \A i, j \in DOMAIN s : i < j /\ s[i] # Quiet /\ s[j] # Quiet => Before(s[i], s[j])

HeardInOrder == InOrder(out.heard \o out.pend)

\* What is heard and what is queued is in the order it was sent in, nothing
\* twice, whatever is lost, dropped or switched; and once playing has started,
\* the queue is played to its end.
AudioPlayed ==
  /\ []HeardInOrder
  /\ (out.done /\ out.pend # <<>>) ~> (out.pend = <<>> \/ ~out.done)
=============================================================================
