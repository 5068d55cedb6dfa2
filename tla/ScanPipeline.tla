----------------------------- MODULE ScanPipeline -----------------------------
(***************************************************************************)
(* The scanner with the two threads it works beside: the ingest thread,    *)
(* which reads the device on the channel the index says, and the process   *)
(* thread, which demodulates the blocks, measures their level and fills    *)
(* the audio ring buffer (IngestLoop and ProcessLoop in                    *)
(* backend/src/receiver_worker.cpp).  This module puts them in the place   *)
(* of Scanner's Measure, and opens up its Frame: the run thread reads the  *)
(* ring while the process thread clears and fills it.                      *)
(*                                                                         *)
(* A sample is the queue entry it was demodulated from.  The ring is the FIFO that  *)
(* AudioRingBuffer is proved to implement; the queue of blocks is that of  *)
(* ReceiverWorker, with its locking.                                       *)
(***************************************************************************)
EXTENDS Scanner

CONSTANTS MaxQueueDepth, \* kMaxQueueDepth
          Capacity,      \* of the ring
          BlockSamples,  \* audio samples that one block gives
          FrameSamples,  \* frame_samples
          Prefill,       \* minimum_prefill
          MaxAttempts    \* the 10 attempts of a write or a read

ASSUME PipelineAssumption ==
  /\ MaxQueueDepth \in Nat \ {0} /\ Capacity \in Nat \ {0}
  /\ BlockSamples \in Nat \ {0} /\ FrameSamples \in Nat \ {0}
  /\ Prefill \in Nat /\ MaxAttempts \in Nat \ {0}

VARIABLES
  ingest,    \* where IngestLoop stands
  in_hand,   \* the entry it is about to queue
  iq_deque,  \* iq_deque_
  process,   \* where ProcessLoop stands
  entry,     \* the entry it works on
  last_idx,  \* last_processed_channel_idx
  left,      \* samples of the block not yet written
  attempts,  \* of the write
  ring,      \* *audio_buffer_
  primed,    \* buffer_primed
  frame,     \* the samples read so far for the frame being made
  tries,     \* read_attempts
  published  \* history: the last frame published and its channel

pipeVars == <<ingest, in_hand, iq_deque, process, entry, last_idx, left, attempts, ring>>
frameVars == <<primed, frame, tries, published>>
allVars  == <<vars, pipeVars, frameVars>>

\* SelectRuntimeChannel: which channel (place) the receiver is tuned to in a
\* mode, with a configuration, at an index; the index is clamped.
SelectRuntimeChannel(m, c, i) ==
  IF m = "list" /\ c.chans # <<>>
  THEN LET at == Least(i, Len(c.chans) - 1)
       IN  [mode |-> m, config |-> c, place |-> at, kind |-> c.chans[at + 1]]
  ELSE [mode |-> IF m = "range" /\ c.range > 0 THEN m ELSE "fixed",
        config |-> c,
        place |-> IF m = "range" /\ c.range > 0 THEN Least(i, c.range - 1) ELSE 0,
        kind |-> "voice"]

Channel == {SelectRuntimeChannel(m, c, i) : m \in Modes, c \in Configs \union {NoConfig}, i \in Indices}
Entries == [idx : Indices, chan : Channel]

NoEntry == [idx |-> 0, chan |-> SelectRuntimeChannel("fixed", NoConfig, 0)]

PipeTypeOK ==
  /\ ingest \in {"loop", "push"}
  /\ in_hand \in Entries
  /\ iq_deque \in Seq(Entries) /\ Len(iq_deque) <= MaxQueueDepth
  /\ process \in {"wait", "clear", "mark", "demod", "write"}
  /\ entry \in Entries
  /\ last_idx \in Indices \union {-1}
  /\ left \in 0 .. BlockSamples
  /\ attempts \in 0 .. MaxAttempts
  /\ ring \in Seq(Entries) /\ Len(ring) <= Capacity
  /\ primed \in BOOLEAN
  /\ frame \in Seq(Entries) /\ Len(frame) <= FrameSamples
  /\ tries \in 0 .. MaxAttempts
  /\ published.chan \in Channel /\ published.samples \in Seq(Entries)

PipeInit ==
  /\ Init
  /\ ingest = "loop" /\ in_hand = NoEntry /\ iq_deque = <<>>
  /\ process = "wait" /\ entry = NoEntry /\ last_idx = -1
  /\ left = 0 /\ attempts = 0
  /\ ring = <<>> /\ primed = FALSE /\ frame = <<>> /\ tries = 0
  /\ published = [chan |-> NoEntry.chan, samples |-> <<>>]

-----------------------------------------------------------------------------
(* The ingest thread *)

\* The settings and the index are copied together, the device is tuned and
\* read.  (With the index of every read goes the configuration of that read.)
Ingest ==
  /\ ingest = "loop"
  /\ ingest' = "push"
  /\ in_hand' = [idx |-> scan_idx, chan |-> SelectRuntimeChannel(mode, config, scan_idx)]
  /\ UNCHANGED <<vars, iq_deque, process, entry, last_idx, left, attempts, ring, frameVars>>

\* A full queue drops its oldest entry.
Trimmed == IF Len(iq_deque) >= MaxQueueDepth THEN Tail(iq_deque) ELSE iq_deque

Push ==
  /\ ingest = "push"
  /\ ingest' = "loop"
  /\ iq_deque' = Append(Trimmed, in_hand)
  /\ UNCHANGED <<vars, in_hand, process, entry, last_idx, left, attempts, ring, frameVars>>

-----------------------------------------------------------------------------
(* The process thread *)

ProcessAt(from, to) ==
  /\ process = from /\ process' = to
  /\ UNCHANGED <<settingVars, scan_idx, carrier, localVars, timeVars, ingest, in_hand, frameVars>>

\* The next entry; the first one, or one of another index, marks its channel.
Take ==
  /\ iq_deque # <<>>
  /\ entry' = Head(iq_deque)
  /\ iq_deque' = Tail(iq_deque)
  /\ ProcessAt("wait", IF Head(iq_deque).idx = last_idx THEN "demod"
                       ELSE IF last_idx >= 0 THEN "clear" ELSE "mark")
  /\ UNCHANGED <<level, audio_idx, last_idx, left, attempts, ring>>

\* Mutant: the ring is not cleared.
MutantKeepRing == ring

\* audio_buffer_->Clear().
Cleared == <<>>

\* The channel changed: the ring is cleared and the demodulators are reset.
ClearRing ==
  /\ ProcessAt("clear", "mark")
  /\ ring' = Cleared
  /\ UNCHANGED <<level, audio_idx, entry, iq_deque, last_idx, left, attempts>>

\* Mutant: only the first block names its channel.
MutantMarkedOnce == IF last_idx < 0 THEN entry.idx ELSE audio_idx

\* The index that came with the block.
Marked == entry.idx

\* audio_channel_idx_ = new_idx.
Mark ==
  /\ ProcessAt("mark", "demod")
  /\ audio_idx' = Marked
  /\ last_idx' = entry.idx
  /\ UNCHANGED <<level, entry, iq_deque, left, attempts, ring>>

\* A voice block is measured and gives samples; a packet or data block does
\* neither (its demodulators are plugins), nor does any block in range mode, which is
\* asked of the mode set now.
Demodulate ==
  /\ IF entry.chan.kind = "voice" /\ mode # "range"
     THEN /\ ProcessAt("demod", "write")
          /\ level' = (entry.chan.place \in carrier)
          /\ left' = BlockSamples
     ELSE /\ ProcessAt("demod", "wait")
          /\ UNCHANGED <<level, left>>
  /\ attempts' = 0
  /\ UNCHANGED <<audio_idx, entry, iq_deque, last_idx, ring>>

\* Mutant: a full buffer is retried without end.
MutantGivesUp == FALSE

\* attempts < 10.
GivesUp == attempts >= MaxAttempts

\* One round of the loop that writes: as much as there is room for; then a
\* sleep and another attempt, or the rest is dropped.
WriteSome ==
  /\ left > 0 /\ ~GivesUp
  /\ ProcessAt("write", "write")
  /\ LET n == Least(left, Capacity - Len(ring))
     IN  /\ ring' = ring \o [k \in 1 .. n |-> entry]
         /\ left' = left - n
         /\ attempts' = IF n < left THEN Least(attempts + 1, MaxAttempts) ELSE attempts
  /\ UNCHANGED <<level, audio_idx, entry, iq_deque, last_idx>>

WriteDone ==
  /\ left = 0 \/ GivesUp
  /\ ProcessAt("write", "wait")
  /\ left' = 0
  /\ UNCHANGED <<level, audio_idx, entry, iq_deque, last_idx, attempts, ring>>

Process == Take \/ ClearRing \/ Mark \/ Demodulate \/ WriteSome \/ WriteDone

-----------------------------------------------------------------------------
(* The run thread makes a frame *)

Tuned == SelectRuntimeChannel(seen.mode, seen.config, seen.idx)

\* Packet and data channels publish no audio, and outside scan list mode nothing is
\* published before the buffer is primed.
NoFrame ==
  /\ Frame
  /\ frame = <<>> /\ tries = 0
  /\ \/ Tuned.kind # "voice" /\ run' = "check" /\ UNCHANGED primed
     \/ Tuned.kind = "voice" /\ ~primed /\ seen.mode # "list"
        /\ Len(ring) < Prefill /\ run' = "loop" /\ UNCHANGED primed
     \/ Tuned.kind = "voice" /\ run' = "check"        \* no frame is due yet
        /\ (primed \/ seen.mode = "list" \/ Len(ring) >= Prefill) /\ primed' = TRUE
  /\ UNCHANGED <<pipeVars, frame, tries, published>>

MayFill ==
  /\ run = "frame" /\ Tuned.kind = "voice"
  /\ primed \/ seen.mode = "list" \/ Len(ring) >= Prefill

\* The ring after a read of n samples.
Rest(n) == SubSeq(ring, n + 1, Len(ring))

\* One round of the loop that fills the frame from the ring; a frame that is
\* short while the ring was low waits 1 ms and tries again.
FillFrame ==
  LET n == Least(FrameSamples - Len(frame), Len(ring))
      low == 2 * Len(ring) < FrameSamples
  IN  /\ MayFill
      /\ Len(frame) < FrameSamples /\ tries < MaxAttempts
      /\ frame' = frame \o SubSeq(ring, 1, n)
      /\ ring' = Rest(n)
      /\ tries' = IF low THEN tries + 1 ELSE MaxAttempts
      /\ primed' = TRUE
      /\ UNCHANGED <<vars, ingest, in_hand, iq_deque, process, entry, last_idx, left, attempts, published>>

\* The squelch: in normal scan list mode the whole frame is zeroed.
Silenced == seen.mode = "list" /\ ~seen.config.monitor /\ muted

\* The rest of a frame that is short is silence; it is published under the
\* channel of the snapshot.  (When several frames are due they are made in as many passes.)
PublishFrame ==
  /\ MayFill
  /\ Len(frame) = FrameSamples \/ tries = MaxAttempts
  /\ Frame /\ run' = "check"
  /\ published' = [chan |-> Tuned, samples |-> IF Silenced THEN <<>> ELSE frame]
  /\ frame' = <<>> /\ tries' = 0
  /\ UNCHANGED <<pipeVars, primed>>

-----------------------------------------------------------------------------
RunThread ==
  \/ (Snapshot \/ RangeRead \/ RangeMove \/ CheckRead \/ Decide \/ Status)
     /\ UNCHANGED <<pipeVars, frameVars>>
  \/ NoFrame \/ FillFrame \/ PublishFrame

PipeNext ==
  \/ (Clients \/ (\E i \in Indices : Air(i)) \/ Tick) /\ UNCHANGED <<pipeVars, frameVars>>
  \/ RunThread
  \/ Ingest \/ Push
  \/ Process

PipeSpec == PipeInit /\ [][PipeNext]_allVars

\* Every thread is scheduled and time passes, so that a frame is due again and
\* again while the receiver is tuned to a voice channel.
PipeFairness ==
  /\ WF_allVars(RunThread)
  /\ SF_allVars(FillFrame)
  /\ WF_allVars(Ingest \/ Push)
  /\ WF_allVars(Process)
  /\ SF_allVars(Tick /\ UNCHANGED <<pipeVars, frameVars>>)

PipeFairSpec == PipeSpec /\ PipeFairness

-----------------------------------------------------------------------------
(* Safety *)

\* audio_channel_idx_ is the channel whose audio is in the ring buffer (the
\* comments at receiver_worker.cpp 1268 and 2141): at no moment, also not
\* between the Clear and the write of the index, is there a sample of another
\* index in it.
RingOfAudioIdx == \A k \in 1 .. Len(ring) : ring[k].idx = audio_idx

-----------------------------------------------------------------------------
(* Liveness *)

\* A full ring holds the process thread up only for so long, also when nobody
\* reads it (the mode became range, or the channel a data channel).
WriteEnds == process = "write" ~> process = "wait"

\* Once the index stays, the audio follows it.
AudioFollows == \A i \in Indices : <>[](scan_idx = i) => <>[](audio_idx = i)
=============================================================================
