------------------------- MODULE ScanPipelineProofs -------------------------
(***************************************************************************)
(* Proofs about Scanner, for every list of channels, dwell and tail, and   *)
(* about ScanPipeline, for every list, ring, queue and frame size.         *)
(***************************************************************************)
EXTENDS ScanPipeline, SequenceTheorems, TLAPS

-----------------------------------------------------------------------------
(* The scanner                                                             *)
(*                                                                         *)
(* OpenIsHeard is inductive once the types are known.  HangTime needs to   *)
(* know how long the channel was quiet in every state of the scanner: in   *)
(* "waiting" the whole tail, in "tail" at least as long as the tail was.   *)

\* The moves are only entered with something to move over.
MovesOK ==
  /\ run = "range_move" => seen.config.range > 0
  /\ run = "decide" => Channels > 0

QuietOK ==
  /\ state = "waiting" => quiet = TailTicks
  /\ state = "tail" => quiet >= tail

ScanInv == TypeOK /\ MovesOK /\ OpenIsHeard /\ QuietOK

-----------------------------------------------------------------------------
(* What the settings look like.                                            *)
LEMMA SettingsTyped ==
  ASSUME NEW c \in Configs \union {NoConfig}
  PROVE  /\ c.chans \in Seq(Kinds) /\ Len(c.chans) \in Nat /\ Len(c.chans) <= MaxChannels
         /\ c.range \in Nat /\ c.range <= MaxChannels
         /\ c.lock \in Int /\ c.monitor \in BOOLEAN
<1>1. CASE c \in Configs
  BY <1>1, ScannerAssumption DEF ConfigType
<1>2. CASE c = NoConfig
  BY <1>2, ScannerAssumption DEF NoConfig, Kinds
<1> QED
  BY <1>1, <1>2

LEMMA SeenTyped ==
  ASSUME TypeOK
  PROVE  /\ Channels \in Nat /\ Channels <= MaxChannels
         /\ seen.config.range \in Nat /\ seen.config.range <= MaxChannels
         /\ seen.config.lock \in Int
<1>1. seen.config \in Configs \union {NoConfig}
  BY DEF TypeOK
<1> QED
  BY <1>1, SettingsTyped DEF Channels

(* The next channel is one of the list, and another one than the current.  *)
LEMMA NextInList ==
  ASSUME NEW i \in Nat, NEW n \in Nat, n > 0, n <= MaxChannels
  PROVE  (i + 1) % n \in Indices
BY ScannerAssumption DEF Indices

LEMMA InitKeeps == Init => ScanInv
<1> SUFFICES ASSUME Init PROVE ScanInv
  OBVIOUS
<1>1. /\ scan_idx \in Indices /\ cur \in Indices /\ audio_idx \in Indices \union {-1}
      /\ dwell \in 0 .. DwellTicks /\ tail \in 0 .. TailTicks /\ quiet \in 0 .. TailTicks
  BY ScannerAssumption DEF Init, Indices
<1>2. seen \in [mode : Modes, config : Configs \union {NoConfig}, idx : Indices]
  BY <1>1 DEF Init
<1>3. TypeOK
  BY <1>1, <1>2 DEF Init, TypeOK
<1>4. MovesOK /\ OpenIsHeard /\ QuietOK
  BY DEF Init, MovesOK, OpenIsHeard, QuietOK
<1> QED
  BY <1>3, <1>4 DEF ScanInv

-----------------------------------------------------------------------------
(* The steps that leave the scanner's state alone.                         *)
LEMMA ClientsKeep ==
  ASSUME ScanInv, Clients
  PROVE  ScanInv'
<1>1. ASSUME NEW m \in Modes, SetMode(m)
      PROVE  ScanInv'
  BY <1>1, ScannerAssumption
     DEF SetMode, ScanInv, TypeOK, MovesOK, OpenIsHeard, QuietOK, Channels, sharedVars, localVars
<1>2. ASSUME NEW c \in Configs, SetModeConfig(c)
      PROVE  ScanInv'
  BY <1>2, ScannerAssumption
     DEF SetModeConfig, ScanInv, TypeOK, MovesOK, OpenIsHeard, QuietOK, Channels, localVars, Indices
<1> QED
  BY <1>1, <1>2 DEF Clients

LEMMA EnvironmentKeeps ==
  ASSUME ScanInv, Measure \/ Tick \/ \E i \in Indices : Air(i)
  PROVE  ScanInv'
<1>1. CASE Measure
  <2>1. level' \in BOOLEAN /\ audio_idx' \in Indices \union {-1}
    <3>1. level' = (IF Measured THEN Place \in carrier ELSE level) /\ audio_idx' = scan_idx
      BY <1>1 DEF Measure
    <3>2. level \in BOOLEAN /\ scan_idx \in Indices
      BY DEF ScanInv, TypeOK
    <3>3. CASE ~Measured
      BY <3>1, <3>2, <3>3
    <3>4. CASE Measured
      <4>1. level' = (Place \in carrier)
        BY <3>1, <3>4
      <4>2. level' \in BOOLEAN
        BY ONLY <4>1
      <4> QED
        BY <3>1, <3>2, <4>2
    <3> QED
      BY <3>3, <3>4
  <2> QED
    BY <1>1, <2>1 DEF Measure, ScanInv, TypeOK, MovesOK, OpenIsHeard, QuietOK, Channels,
                      settingVars, localVars, timeVars
<1>2. CASE Tick
  BY <1>2, ScannerAssumption
     DEF Tick, Older, ScanInv, TypeOK, MovesOK, OpenIsHeard, QuietOK, Channels,
         settingVars, sharedVars, localVars
<1>3. ASSUME NEW i \in Indices, Air(i)
      PROVE  ScanInv'
  <2>1. carrier' \in SUBSET Indices
    <3>1. carrier' = carrier \ {i} \/ carrier' = carrier \union {i}
      BY <1>3 DEF Air
    <3> QED
      BY <3>1 DEF ScanInv, TypeOK
  <2> QED
    BY <1>3, <2>1 DEF Air, ScanInv, TypeOK, MovesOK, OpenIsHeard, QuietOK, Channels,
                      settingVars, localVars, timeVars
<1> QED
  BY <1>1, <1>2, <1>3

(* The passes of the run thread up to the decision.                        *)
LEMMA PassesKeep ==
  ASSUME ScanInv, Snapshot \/ RangeRead \/ Frame \/ CheckRead \/ Status
  PROVE  ScanInv'
<1> USE DEF ScanInv, RunAt, settingVars, timeVars
<1>1. CASE Snapshot
  BY <1>1 DEF Snapshot, TypeOK, MovesOK, OpenIsHeard, QuietOK, Channels
<1>2. CASE RangeRead
  BY <1>2, SeenTyped DEF RangeRead, TypeOK, MovesOK, OpenIsHeard, QuietOK, Channels
<1>3. CASE Frame
  BY <1>3 DEF Frame, TypeOK, MovesOK, OpenIsHeard, QuietOK, Channels
<1>4. CASE CheckRead
  BY <1>4 DEF CheckRead, TypeOK, MovesOK, OpenIsHeard, QuietOK, Channels
<1>5. CASE Status
  BY <1>5 DEF Status, TypeOK, MovesOK, OpenIsHeard, QuietOK, Channels
<1> QED
  BY <1>1, <1>2, <1>3, <1>4, <1>5

LEMMA RangeMoveKeeps ==
  ASSUME ScanInv, RangeMove
  PROVE  ScanInv'
<1>1. seen.config.range \in Nat /\ seen.config.range > 0 /\ seen.config.range <= MaxChannels
  BY SeenTyped DEF ScanInv, MovesOK, RangeMove, RunAt
<1>2. cur \in Nat
  BY DEF ScanInv, TypeOK, Indices
<1>3. scan_idx' \in Indices
  BY <1>1, <1>2, NextInList DEF RangeMove
<1> QED
  BY <1>3, ScannerAssumption
     DEF RangeMove, RunAt, settingVars, ScanInv, TypeOK, MovesOK, OpenIsHeard, QuietOK, Channels

-----------------------------------------------------------------------------
(* The decision, whichever kind the current channel is taken for.          *)
LEMMA DecideKeeps ==
  ASSUME ScanInv, Decide
  PROVE  ScanInv'
<1>1. PICK kind \in CurrentKinds :
        /\ RunAt("decide", "status")
        /\ DecideLocked(kind) \/ DecideAdvance(kind) \/ DecideStay(kind)
        /\ tail' = IF Gated(kind) = "tail" /\ state = "open" THEN 0 ELSE tail
        /\ quiet' = IF scan_idx' # cur THEN TailTicks
                    ELSE IF reading /\ ~Ungated(kind) THEN 0 ELSE quiet
        /\ UNCHANGED <<seen, cur, reading, due>>
  BY DEF Decide
<1>2. /\ Channels \in Nat /\ Channels > 0 /\ Channels <= MaxChannels
      /\ cur \in Nat /\ seen.config.lock \in Int
  BY <1>1, SeenTyped DEF ScanInv, MovesOK, RunAt, TypeOK, Indices
<1>3. NextIdx \in Indices /\ NextIdx < Channels /\ (Channels > 1 => NextIdx # cur)
  BY <1>2, ScannerAssumption DEF NextIdx, Indices
<1>4. Locked => seen.config.lock \in Indices
  BY <1>2, ScannerAssumption DEF Locked, Indices
<1>5. /\ state' \in {"waiting", "open", "tail"} /\ muted' \in BOOLEAN
      /\ scan_idx' \in Indices /\ dwell' \in 0 .. DwellTicks
  <2>1. Gated(kind) \in {"waiting", "open", "tail"} /\ GatedMute(kind) \in BOOLEAN
    BY Zenon DEF Gated, GatedMute, ScanInv, TypeOK
  <2> USE DEF ScanInv, TypeOK
  <2>2. CASE DecideLocked(kind)
    <3>1. muted' = FALSE
      BY <2>2 DEF DecideLocked
    <3>2. CASE cur # seen.config.lock
      <4>1. scan_idx' = seen.config.lock /\ state' = "waiting" /\ dwell' = 0
        BY <2>2, <3>2 DEF DecideLocked, Select
      <4>2. seen.config.lock \in Indices
        BY <1>4, <2>2 DEF DecideLocked
      <4>3. 0 \in 0 .. DwellTicks
        BY ScannerAssumption
      <4> QED
        BY <3>1, <4>1, <4>2, <4>3, Zenon
    <3>3. CASE cur = seen.config.lock
      BY <2>1, <2>2, <3>1, <3>3 DEF DecideLocked
    <3> QED
      BY <3>2, <3>3
  <2>3. CASE DecideAdvance(kind)
    BY <1>3, <2>3, ScannerAssumption DEF DecideAdvance, Select
  <2>4. CASE DecideStay(kind)
    BY <2>1, <2>4 DEF DecideStay
  <2> QED
    BY <1>1, <2>2, <2>3, <2>4
<1>6. OpenIsHeard' /\ QuietOK'
  <2> USE DEF ScanInv, TypeOK, OpenIsHeard, QuietOK
  <2>1. CASE DecideLocked(kind) /\ cur # seen.config.lock
    BY <1>1, <1>2, <2>1, ScannerAssumption DEF DecideLocked, Select, Gated
  <2>2. CASE DecideLocked(kind) /\ cur = seen.config.lock
    BY <1>1, <1>2, <2>2, ScannerAssumption DEF DecideLocked, Gated
  <2>3. CASE DecideAdvance(kind)
    BY <1>1, <1>2, <1>3, <2>3, ScannerAssumption
       DEF DecideAdvance, Select, WantsAdvance, DwellOver, TailOver, Gated
  <2>4. CASE DecideStay(kind)
    <3>1. OpenIsHeard'
      BY <2>4, Zenon DEF DecideStay, Gated, GatedMute
    <3>2. QuietOK'
      BY <1>1, <1>2, <2>4, ScannerAssumption DEF DecideStay, Gated
    <3> QED
      BY <3>1, <3>2
  <2> QED
    BY <1>1, <2>1, <2>2, <2>3, <2>4
<1>7. TypeOK'
  BY <1>1, <1>5, ScannerAssumption DEF ScanInv, TypeOK, RunAt, settingVars
<1>8. MovesOK'
  BY <1>1 DEF MovesOK, RunAt
<1> QED
  BY <1>6, <1>7, <1>8 DEF ScanInv

-----------------------------------------------------------------------------
(* Together.                                                               *)
LEMMA StutterKeeps ==
  ASSUME ScanInv, UNCHANGED vars
  PROVE  ScanInv'
BY DEF vars, settingVars, sharedVars, localVars, timeVars, ScanInv, TypeOK, MovesOK,
       OpenIsHeard, QuietOK, Channels

LEMMA StepKeeps ==
  ASSUME ScanInv, [Next]_vars
  PROVE  ScanInv'
BY ClientsKeep, EnvironmentKeeps, PassesKeep, RangeMoveKeeps, DecideKeeps, StutterKeeps
   DEF Next, RunLoop

(* The invariant of the scanner: every step of a client, of the air, of    *)
(* the clock and of the run thread (RunLoop) keeps it.                     *)
THEOREM ScanInvariant == Spec => []ScanInv
<1> QED
  BY InitKeeps, StepKeeps, PTL DEF Spec

(* The indices, the copies of the run thread and its clocks keep their     *)
(* ranges: the index the thread writes is always one of a list.            *)
THEOREM Typed == Spec => []TypeOK
<1>1. ScanInv => TypeOK
  BY DEF ScanInv
<1> QED
  BY <1>1, ScanInvariant, PTL

(* While the squelch is open the channel is heard, whatever a lock,        *)
(* monitor mode, a data channel or new settings did to the muting          *)
(* (receiver_worker.cpp 2060-2140).                                        *)
THEOREM Heard == Spec => []OpenIsHeard
<1>1. ScanInv => OpenIsHeard
  BY DEF ScanInv
<1> QED
  BY <1>1, ScanInvariant, PTL

(* The step that leaves a gated channel comes after the whole tail.        *)
LEMMA LeavesQuiet ==
  ASSUME ScanInv, [Next]_vars, run = "decide", run' # "decide", cur < Channels,
         scan_idx = cur, scan_idx' # cur, ~Locked, ~Ungated(seen.config.chans[cur + 1])
  PROVE  quiet = TailTicks
<1>1. Decide
  BY DEF Next, vars, localVars, Clients, SetMode, SetModeConfig, Air, Measure, Tick, RunLoop, RunAt,
         Snapshot, RangeRead, RangeMove, Frame, CheckRead, Status
<1>2. DecideAdvance(seen.config.chans[cur + 1])
  BY <1>1 DEF Decide, CurrentKinds, DecideLocked, DecideStay
<1>3. \/ state = "waiting"
      \/ state = "tail" /\ tail >= TailTicks
  BY <1>2 DEF DecideAdvance, WantsAdvance, TailOver
<1> QED
  BY <1>3, ScannerAssumption DEF ScanInv, QuietOK, TypeOK

(* A pause in a transmission does not end it: by itself the scanner leaves *)
(* a gated channel only when no check has found its squelch open for the   *)
(* whole tail (receiver_worker.cpp 1857 and 2085).                         *)
THEOREM Hang == Spec => HangTime
<1>1. ScanInv /\ [Next]_vars
      => [run = "decide" /\ run' # "decide" /\ cur < Channels /\ scan_idx = cur
          /\ scan_idx' # cur /\ ~Locked /\ ~Ungated(seen.config.chans[cur + 1])
          => quiet = TailTicks]_vars
  BY LeavesQuiet
<1> QED
  BY <1>1, ScanInvariant, PTL DEF Spec, HangTime

-----------------------------------------------------------------------------
(* The pipeline                                                            *)
(*                                                                         *)
(* The scanner in the pipeline takes the steps of Scanner but for Measure, *)
(* so that its invariant ScanInv carries over: the threads beside it only  *)
(* write the level and the index of the audio.  The ring needs to know     *)
(* more: that the audio index is the last one processed, that the block    *)
(* being written has that index, and that the ring is empty from its       *)
(* clearing until the index is written.                                    *)

EntriesOK ==
  /\ in_hand \in Entries
  /\ iq_deque \in Seq(Entries)
  /\ entry \in Entries

SizesOK ==
  /\ ring \in Seq(Entries) /\ Len(ring) <= Capacity
  /\ frame \in Seq(Entries) /\ Len(frame) <= FrameSamples
  /\ left \in Nat

\* Where the process thread is between the clearing of the ring and the
\* writing of the index.
IndexOK ==
  /\ audio_idx = last_idx
  /\ last_idx \in Indices \union {-1}
  /\ process = "mark" \/ last_idx = -1 => ring = <<>>
  /\ process \in {"demod", "write"} => entry.idx = last_idx

PipeInv == ScanInv /\ EntriesOK /\ SizesOK /\ IndexOK /\ RingOfAudioIdx

-----------------------------------------------------------------------------
LEMMA ChannelIsOne ==
  ASSUME TypeOK
  PROVE  SelectRuntimeChannel(mode, config, scan_idx) \in Channel
BY DEF TypeOK, Channel

LEMMA NoEntryTyped == NoEntry \in Entries
<1>1. 0 \in Indices
  BY ScannerAssumption DEF Indices
<1>2. NoEntry.chan \in Channel
  BY <1>1 DEF NoEntry, Channel, Modes
<1> QED
  BY <1>1, <1>2 DEF NoEntry, Entries

LEMMA PipeInitKeeps == PipeInit => PipeInv
<1> SUFFICES ASSUME PipeInit PROVE PipeInv
  OBVIOUS
<1>1. ScanInv
  BY InitKeeps DEF PipeInit
<1>2. EntriesOK /\ SizesOK
  BY NoEntryTyped, PipelineAssumption DEF PipeInit, EntriesOK, SizesOK
<1>3. IndexOK /\ RingOfAudioIdx
  BY DEF PipeInit, Init, IndexOK, RingOfAudioIdx
<1> QED
  BY <1>1, <1>2, <1>3 DEF PipeInv

-----------------------------------------------------------------------------
(* The scanner's own steps leave the pipeline alone, and the other way     *)
(* round: what the pipeline does to the scanner is a new level or index.   *)
LEMMA ScannerIgnoresAudio ==
  ASSUME ScanInv, level' \in BOOLEAN, audio_idx' \in Indices \union {-1},
         UNCHANGED <<settingVars, scan_idx, carrier, localVars, timeVars>>
  PROVE  ScanInv'
BY DEF ScanInv, TypeOK, MovesOK, OpenIsHeard, QuietOK, Channels, settingVars, localVars, timeVars

LEMMA PipelineIgnoresScanner ==
  ASSUME PipeInv, ScanInv', UNCHANGED <<audio_idx, pipeVars, frameVars>>
  PROVE  PipeInv'
BY DEF PipeInv, EntriesOK, SizesOK, IndexOK, RingOfAudioIdx, pipeVars, frameVars

LEMMA ScannerSteps ==
  ASSUME PipeInv, UNCHANGED <<pipeVars, frameVars>>,
         Clients \/ (\E i \in Indices : Air(i)) \/ Tick \/ Snapshot \/ RangeRead \/ RangeMove \/ CheckRead \/ Decide \/ Status
  PROVE  PipeInv'
<1>1. ScanInv'
  BY ClientsKeep, EnvironmentKeeps, PassesKeep, RangeMoveKeeps, DecideKeeps DEF PipeInv
<1>2. UNCHANGED audio_idx
  BY DEF Clients, SetMode, SetModeConfig, sharedVars, Air, Tick, Snapshot, RangeRead, RangeMove,
         CheckRead, Decide, Status, RunAt
<1> QED
  BY <1>1, <1>2, PipelineIgnoresScanner

-----------------------------------------------------------------------------
LEMMA IngestSteps ==
  ASSUME PipeInv, Ingest \/ Push
  PROVE  PipeInv'
<1>1. UNCHANGED <<vars, process, entry, last_idx, left, ring, frame>>
  BY DEF Ingest, Push, frameVars
<1>2. ScanInv' /\ UNCHANGED audio_idx
  BY <1>1, StutterKeeps DEF PipeInv, vars, sharedVars
<1>3. EntriesOK'
  <2>1. CASE Ingest
    BY <2>1, ChannelIsOne DEF Ingest, PipeInv, EntriesOK, ScanInv, Entries, TypeOK
  <2>2. CASE Push
    <3>1. Trimmed \in Seq(Entries)
      BY PipelineAssumption DEF Trimmed, PipeInv, EntriesOK
    <3> QED
      BY <2>2, <3>1 DEF Push, PipeInv, EntriesOK
  <2> QED
    BY <2>1, <2>2
<1> QED
  BY <1>1, <1>2, <1>3 DEF PipeInv, SizesOK, IndexOK, RingOfAudioIdx

-----------------------------------------------------------------------------
(* The process thread.                                                     *)
LEMMA WrittenSamples ==
  ASSUME PipeInv, left > 0,
         NEW n, n = Least(left, Capacity - Len(ring))
  PROVE  /\ n \in Nat /\ n <= left
         /\ [k \in 1 .. n |-> entry] \in Seq(Entries)
         /\ ring \o [k \in 1 .. n |-> entry] \in Seq(Entries)
         /\ Len(ring \o [k \in 1 .. n |-> entry]) = Len(ring) + n
         /\ Len(ring) + n <= Capacity
         /\ \A k \in 1 .. Len(ring) + n :
              (ring \o [j \in 1 .. n |-> entry])[k] = IF k <= Len(ring) THEN ring[k] ELSE entry
<1>1. ring \in Seq(Entries) /\ Len(ring) \in Nat /\ Len(ring) <= Capacity /\ left \in Nat
  BY DEF PipeInv, SizesOK
<1>2. n \in Nat /\ n <= left /\ Len(ring) + n <= Capacity
  BY <1>1, PipelineAssumption DEF Least
<1> DEFINE w == [k \in 1 .. n |-> entry]
<1>3. w \in Seq(Entries) /\ Len(w) = n
  BY <1>2, IsASeq DEF PipeInv, EntriesOK
<1> HIDE DEF w
<1>4. /\ ring \o w \in Seq(Entries) /\ Len(ring \o w) = Len(ring) + n
      /\ \A k \in 1 .. Len(ring) + n : (ring \o w)[k] = IF k <= Len(ring) THEN ring[k] ELSE w[k - Len(ring)]
  BY <1>1, <1>2, <1>3, ConcatProperties
<1>5. \A k \in 1 .. Len(ring) + n : k > Len(ring) => w[k - Len(ring)] = entry
  BY <1>1, <1>2 DEF w
<1> QED
  BY <1>1, <1>2, <1>3, <1>4, <1>5 DEF w

LEMMA ProcessSteps ==
  ASSUME PipeInv, Process
  PROVE  PipeInv'
<1> USE DEF PipeInv
<1>1. /\ UNCHANGED <<settingVars, scan_idx, carrier, localVars, timeVars, in_hand, frame>>
      /\ level' \in BOOLEAN
  <2>1. level \in BOOLEAN
    BY DEF ScanInv, TypeOK
  <2>2. CASE Demodulate
    <3>1. CASE entry.chan.kind = "voice" /\ mode # "range"
      <4>1. level' = (entry.chan.place \in carrier)
        BY <2>2, <3>1 DEF Demodulate
      <4>2. level' \in BOOLEAN
        BY ONLY <4>1
      <4> QED
        BY <2>2, <3>1, <4>2 DEF Demodulate, ProcessAt, frameVars
    <3>2. CASE ~(entry.chan.kind = "voice" /\ mode # "range")
      BY <2>1, <2>2, <3>2 DEF Demodulate, ProcessAt, frameVars
    <3> QED
      BY <3>1, <3>2
  <2>3. CASE Take \/ ClearRing \/ Mark \/ WriteSome \/ WriteDone
    BY <2>1, <2>3 DEF Take, ClearRing, Mark, WriteSome, WriteDone, ProcessAt, frameVars
  <2> QED
    BY <2>2, <2>3 DEF Process
<1>2. CASE Take
  <2>1. /\ Head(iq_deque) \in Entries /\ Tail(iq_deque) \in Seq(Entries)
        /\ entry' = Head(iq_deque) /\ iq_deque' = Tail(iq_deque)
        /\ process' = IF entry'.idx = last_idx THEN "demod"
                      ELSE IF last_idx >= 0 THEN "clear" ELSE "mark"
        /\ UNCHANGED <<audio_idx, last_idx, left, ring>>
    BY <1>2 DEF Take, ProcessAt, EntriesOK
  <2>2. last_idx = -1 \/ last_idx >= 0
    BY ScannerAssumption DEF IndexOK, Indices
  <2>3. IndexOK'
    BY <2>1, <2>2 DEF IndexOK
  <2> QED
    BY <1>1, <2>1, <2>3, ScannerIgnoresAudio DEF ScanInv, TypeOK, EntriesOK, SizesOK, RingOfAudioIdx
<1>3. CASE ClearRing
  <2>1. ring' = <<>> /\ UNCHANGED <<audio_idx, entry, iq_deque, last_idx, left>> /\ process' = "mark"
    BY <1>3 DEF ClearRing, Cleared, ProcessAt
  <2>2. SizesOK' /\ IndexOK' /\ RingOfAudioIdx'
    BY <1>1, <2>1, PipelineAssumption DEF SizesOK, IndexOK, RingOfAudioIdx
  <2> QED
    BY <1>1, <2>1, <2>2, ScannerIgnoresAudio DEF ScanInv, TypeOK, EntriesOK
<1>4. CASE Mark
  <2>1. /\ ring = <<>> /\ audio_idx' = entry.idx /\ last_idx' = entry.idx /\ process' = "demod"
        /\ UNCHANGED <<entry, iq_deque, left, ring>>
    BY <1>4 DEF Mark, Marked, ProcessAt, IndexOK
  <2>2. entry.idx \in Indices
    BY DEF EntriesOK, Entries
  <2>3. SizesOK' /\ IndexOK' /\ RingOfAudioIdx'
    BY <1>1, <2>1, <2>2 DEF SizesOK, IndexOK, RingOfAudioIdx
  <2> QED
    BY <1>1, <2>1, <2>2, <2>3, ScannerIgnoresAudio DEF EntriesOK
<1>5. CASE Demodulate
  <2>1. /\ process = "demod" /\ process' \in {"write", "wait"} /\ left' \in Nat
        /\ UNCHANGED <<audio_idx, entry, iq_deque, last_idx, ring>>
    BY <1>5, PipelineAssumption DEF Demodulate, ProcessAt, SizesOK
  <2>2. SizesOK' /\ IndexOK' /\ RingOfAudioIdx'
    BY <1>1, <2>1 DEF SizesOK, IndexOK, RingOfAudioIdx
  <2> QED
    BY <1>1, <2>1, <2>2, ScannerIgnoresAudio DEF ScanInv, TypeOK, EntriesOK
<1>6. CASE WriteSome
  <2> DEFINE n == Least(left, Capacity - Len(ring))
  <2>1. /\ left > 0 /\ process = "write" /\ process' = "write"
        /\ ring' = ring \o [k \in 1 .. n |-> entry] /\ left' = left - n
        /\ UNCHANGED <<audio_idx, entry, iq_deque, last_idx>>
    BY <1>6 DEF WriteSome, ProcessAt
  <2> HIDE DEF n
  <2>2. /\ n \in Nat /\ n <= left
        /\ ring' \in Seq(Entries) /\ Len(ring') = Len(ring) + n /\ Len(ring') <= Capacity
        /\ \A k \in 1 .. Len(ring) + n : ring'[k] = IF k <= Len(ring) THEN ring[k] ELSE entry
    BY <2>1, WrittenSamples DEF n
  <2>3. SizesOK'
    BY <1>1, <2>1, <2>2 DEF SizesOK
  <2>4. last_idx # -1 /\ entry.idx = audio_idx
    BY <2>1, ScannerAssumption DEF IndexOK, EntriesOK, Entries, Indices
  <2>5. IndexOK' /\ RingOfAudioIdx'
    BY <2>1, <2>2, <2>4 DEF IndexOK, RingOfAudioIdx, SizesOK
  <2> QED
    BY <1>1, <2>1, <2>3, <2>5, ScannerIgnoresAudio DEF ScanInv, TypeOK, EntriesOK
<1>7. CASE WriteDone
  <2>1. process' = "wait" /\ left' = 0 /\ UNCHANGED <<audio_idx, entry, iq_deque, last_idx, ring>>
    BY <1>7 DEF WriteDone, ProcessAt
  <2>2. SizesOK' /\ IndexOK' /\ RingOfAudioIdx'
    BY <1>1, <2>1 DEF SizesOK, IndexOK, RingOfAudioIdx
  <2> QED
    BY <1>1, <2>1, <2>2, ScannerIgnoresAudio DEF ScanInv, TypeOK, EntriesOK
<1> QED
  BY <1>2, <1>3, <1>4, <1>5, <1>6, <1>7 DEF Process

-----------------------------------------------------------------------------
(* The run thread takes from the front of the ring.                        *)
LEMMA FrameSteps ==
  ASSUME PipeInv, NoFrame \/ FillFrame \/ PublishFrame
  PROVE  PipeInv'
<1> USE DEF PipeInv
<1>1. CASE NoFrame
  <2>1. ScanInv' /\ UNCHANGED <<audio_idx, pipeVars, frame>>
    BY <1>1, PassesKeep DEF NoFrame, Frame, RunAt
  <2> QED
    BY <2>1 DEF EntriesOK, SizesOK, IndexOK, RingOfAudioIdx, pipeVars
<1>2. CASE PublishFrame
  <2>1. ScanInv' /\ UNCHANGED <<audio_idx, pipeVars>> /\ frame' = <<>>
    BY <1>2, PassesKeep DEF PublishFrame, Frame, RunAt
  <2>2. Len(frame') = 0 /\ frame' \in Seq(Entries)
    BY <2>1
  <2> QED
    BY <2>1, <2>2, PipelineAssumption DEF EntriesOK, SizesOK, IndexOK, RingOfAudioIdx, pipeVars
<1>3. CASE FillFrame
  <2> DEFINE n == Least(FrameSamples - Len(frame), Len(ring))
  <2>1. /\ Len(frame) < FrameSamples
        /\ frame' = frame \o SubSeq(ring, 1, n) /\ ring' = SubSeq(ring, n + 1, Len(ring))
        /\ UNCHANGED <<vars, in_hand, iq_deque, process, entry, last_idx, left>>
    BY <1>3 DEF FillFrame, Rest
  <2>2. /\ ring \in Seq(Entries) /\ Len(ring) \in Nat /\ Len(ring) <= Capacity
        /\ frame \in Seq(Entries) /\ Len(frame) \in Nat
    BY DEF SizesOK
  <2>3. n \in Nat /\ n <= Len(ring) /\ Len(frame) + n <= FrameSamples
    BY <2>1, <2>2, PipelineAssumption DEF Least
  <2> HIDE DEF n
  <2>4. SubSeq(ring, 1, n) \in Seq(Entries) /\ Len(SubSeq(ring, 1, n)) = n
    BY <2>2, <2>3, SubSeqProperties
  <2>5. frame' \in Seq(Entries) /\ Len(frame') = Len(frame) + n
    BY <2>1, <2>2, <2>4, ConcatProperties
  <2>6. /\ ring' \in Seq(Entries) /\ Len(ring') = Len(ring) - n
        /\ \A k \in 1 .. Len(ring) - n : ring'[k] = ring[n + k]
    BY <2>1, <2>2, <2>3, SubSeqProperties
  <2>7. ring = <<>> => ring' = <<>>
    BY <2>2, <2>3, <2>6
  <2>8. SizesOK' /\ EntriesOK' /\ IndexOK'
    <3>1. SizesOK'
      <4>1. Len(ring') <= Capacity /\ Len(frame') <= FrameSamples /\ left' \in Nat
        BY <2>1, <2>2, <2>3, <2>5, <2>6, PipelineAssumption DEF SizesOK
      <4> QED
        BY <2>5, <2>6, <4>1 DEF SizesOK
    <3>2. EntriesOK'
      BY <2>1 DEF EntriesOK
    <3>3. IndexOK'
      BY <2>1, <2>7 DEF IndexOK, vars, sharedVars
    <3> QED
      BY <3>1, <3>2, <3>3
  <2>9. RingOfAudioIdx'
    BY <2>1, <2>2, <2>3, <2>6 DEF RingOfAudioIdx, vars, sharedVars
  <2> QED
    BY <2>1, <2>8, <2>9, StutterKeeps
<1> QED
  BY <1>1, <1>2, <1>3

LEMMA PipeStepKeeps ==
  ASSUME PipeInv, [PipeNext]_allVars
  PROVE  PipeInv'
<1>1. CASE PipeNext
  BY <1>1, ScannerSteps, IngestSteps, ProcessSteps, FrameSteps DEF PipeNext, RunThread
<1>2. CASE UNCHANGED allVars
  <2>1. ScanInv' /\ UNCHANGED <<audio_idx, pipeVars, frameVars>>
    BY <1>2, StutterKeeps DEF PipeInv, allVars, vars, sharedVars
  <2> QED
    BY <2>1, PipelineIgnoresScanner
<1> QED
  BY <1>1, <1>2

(* The invariant of the three threads of a session that scans: every step  *)
(* of IngestLoop, ProcessLoop and RunLoop keeps it.                        *)
THEOREM PipeInvariant == PipeSpec => []PipeInv
<1> QED
  BY PipeInitKeeps, PipeStepKeeps, PTL DEF PipeSpec

(* At no moment is there a sample of another channel index in the ring     *)
(* than the one audio_channel_idx_ names, also not between the clearing of *)
(* the ring and the writing of the index (receiver_worker.cpp 1268, 2141). *)
THEOREM RingKeepsIndex == PipeSpec => []RingOfAudioIdx
<1>1. PipeInv => RingOfAudioIdx
  BY DEF PipeInv
<1> QED
  BY <1>1, PipeInvariant, PTL

(* What Scanner promises with a level that comes at the environment's      *)
(* leisure holds with the threads that measure it: an open squelch is      *)
(* heard.                                                                  *)
THEOREM HeardInPipeline == PipeSpec => []OpenIsHeard
<1>1. PipeInv => OpenIsHeard
  BY DEF PipeInv, ScanInv
<1> QED
  BY <1>1, PipeInvariant, PTL

(* The decision of a check is the scanner's own step.                      *)
LEMMA DecisionIsTheScanners ==
  ASSUME [PipeNext]_allVars, run = "decide", run' # "decide"
  PROVE  Next
<1>1. Decide
  BY DEF PipeNext, RunThread, Clients, SetMode, SetModeConfig, Air, Tick, Snapshot, RangeRead,
         RangeMove, CheckRead, Status, NoFrame, FillFrame, MayFill, PublishFrame, Frame, RunAt,
         Ingest, Push, Process, ProcessAt, Take, ClearRing, Mark, Demodulate, WriteSome,
         WriteDone, allVars, vars, localVars
<1> QED
  BY <1>1 DEF Next, RunLoop

(* Nor does a pause in a transmission end it when the level comes late, by *)
(* way of the queue and the process thread: as Hang above.                 *)
THEOREM HangInPipeline == PipeSpec => HangTime
<1>1. PipeInv /\ [PipeNext]_allVars
      => [run = "decide" /\ run' # "decide" /\ cur < Channels /\ scan_idx = cur
          /\ scan_idx' # cur /\ ~Locked /\ ~Ungated(seen.config.chans[cur + 1])
          => quiet = TailTicks]_vars
  BY DecisionIsTheScanners, LeavesQuiet DEF PipeInv
<1> QED
  BY <1>1, PipeInvariant, PTL DEF PipeSpec, HangTime
=============================================================================
