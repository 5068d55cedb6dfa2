------------------------------- MODULE Scanner -------------------------------
(***************************************************************************)
(* Channel scanning: the run thread of a receiver (ReceiverWorker::RunLoop *)
(* in backend/src/receiver_worker.cpp) against the calls that change its   *)
(* settings.  The thread copies the settings under mu_, works on the copy, *)
(* and takes mu_ again for each read and write of scan_channel_idx_.       *)
(*                                                                         *)
(* A channel is its kind.  "voice" (FM, AM) is gated by squelch and its    *)
(* level is measured; "packet" (GMSK, FSK, PPM, VDES ASM) is gated too,    *)
(* but nothing measures it, so the level it is judged by is the one that   *)
(* the last voice channel left; "data" (ADS-B, AIS Dual) is not gated.  A  *)
(* level is "above the squelch" or not.  "list" stands for SCAN_LIST and   *)
(* AIR_MARINE_PLOT, which the code treats alike.  Time passes in ticks of  *)
(* the 200 ms between two checks; the thread reads the clock once per      *)
(* pass, so it passes between passes.  In this module the level follows    *)
(* the channel at the environment's leisure; ScanPipeline puts the threads *)
(* that measure it in its place.                                           *)
(***************************************************************************)
EXTENDS Integers, Sequences

CONSTANTS Configs,    \* the mode configurations clients send
          MaxChannels, \* the longest list in a configuration
          DwellTicks, \* dwell_ms, in ticks
          TailTicks,  \* kScanTailMs, in ticks
          ClientBound \* bound on the number of client calls

Modes == {"fixed", "range", "list"}
Kinds == {"voice", "packet", "data"}

\* chans: scan_list_channels.  range: how many frequencies the range or the
\* frequency list has.  monitor, lock: scan_list_monitor_mode and the locked
\* channel, -1 when there is none.
ConfigType ==
  [chans : Seq(Kinds), range : Nat, monitor : BOOLEAN, lock : Int]

ASSUME ScannerAssumption ==
  /\ MaxChannels \in Nat \ {0}
  /\ Configs \subseteq ConfigType
  /\ \A c \in Configs : Len(c.chans) <= MaxChannels /\ c.range <= MaxChannels
  /\ DwellTicks \in Nat \ {0}
  /\ TailTicks \in Nat \ {0}
  /\ ClientBound \in Nat

VARIABLES
  mode,        \* mode_
  config,      \* mode_config_
  clients,     \* history: the number of client calls
  scan_idx,    \* scan_channel_idx_
  audio_idx,   \* audio_channel_idx_
  carrier,     \* the channels with a signal on the air
  level,       \* iq_shared_.channel_rssi_db: above the squelch?
  run,         \* where RunLoop stands
  seen,        \* its copies of mode, config and index
  cur,         \* cur_ingest_idx (cur_idx in range mode)
  reading,     \* channel_rssi_db as it read it
  state,       \* scan_state
  muted,       \* scan_audio_muted
  dwell,       \* ticks since scan_dwell_started_at
  tail,        \* ticks since scan_tail_started_at
  due,         \* now >= next_scan_check_at
  quiet        \* history: ticks since a check found the selected channel open

settingVars == <<mode, config, clients>>
sharedVars  == <<scan_idx, audio_idx, carrier, level>>
timeVars    == <<dwell, tail, due, quiet>>
localVars   == <<run, seen, cur, reading, state, muted>>
vars        == <<settingVars, sharedVars, localVars, timeVars>>

NoConfig == [chans |-> <<>>, range |-> 0, monitor |-> FALSE, lock |-> -1]
Indices  == 0 .. MaxChannels - 1

TypeOK ==
  /\ mode \in Modes
  /\ config \in Configs \union {NoConfig}
  /\ clients \in Nat
  /\ scan_idx \in Indices
  /\ audio_idx \in Indices \union {-1}
  /\ carrier \in SUBSET Indices
  /\ level \in BOOLEAN
  /\ run \in {"loop", "range", "range_move", "frame", "check", "decide", "status"}
  /\ seen \in [mode : Modes, config : Configs \union {NoConfig}, idx : Indices]
  /\ cur \in Indices
  /\ reading \in BOOLEAN
  /\ state \in {"waiting", "open", "tail"}
  /\ muted \in BOOLEAN
  /\ dwell \in 0 .. DwellTicks
  /\ tail \in 0 .. TailTicks
  /\ due \in BOOLEAN
  /\ quiet \in 0 .. TailTicks

\* The receiver was just started, in the mode of its last session.
Init ==
  /\ mode \in Modes
  /\ config = NoConfig
  /\ clients = 0
  /\ scan_idx = 0
  /\ audio_idx = -1
  /\ carrier \in SUBSET Indices
  /\ level = FALSE
  /\ run = "loop"
  /\ seen = [mode |-> mode, config |-> NoConfig, idx |-> 0]
  /\ cur = 0
  /\ reading = FALSE
  /\ state = "waiting"
  /\ muted = TRUE
  /\ dwell = 0 /\ tail = 0 /\ due = TRUE
  /\ quiet = TailTicks

-----------------------------------------------------------------------------
(* Clients *)

\* SetMode: the index and the configuration stay as they are.
SetMode(m) ==
  /\ clients < ClientBound
  /\ clients' = clients + 1
  /\ mode' = m
  /\ quiet' = TailTicks
  /\ UNCHANGED <<config, sharedVars, localVars, dwell, tail, due>>

\* SetModeConfig: the index starts over; the dwell does not.
SetModeConfig(c) ==
  /\ clients < ClientBound
  /\ clients' = clients + 1
  /\ config' = c
  /\ scan_idx' = 0
  /\ quiet' = TailTicks
  /\ UNCHANGED <<mode, audio_idx, carrier, level, localVars, dwell, tail, due>>

-----------------------------------------------------------------------------
(* The environment *)

\* A transmission begins or ends on channel i.
Air(i) ==
  /\ carrier' = IF i \in carrier THEN carrier \ {i} ELSE carrier \union {i}
  /\ UNCHANGED <<settingVars, scan_idx, audio_idx, level, localVars, timeVars>>

Least(a, b) == IF a < b THEN a ELSE b

InList == mode = "list" /\ config.chans # <<>>

\* The channel the receiver is tuned to: in a list the index is clamped.
Place     == IF InList THEN Least(scan_idx, Len(config.chans) - 1) ELSE 0
TunedKind == IF InList THEN config.chans[Place + 1] ELSE "voice"

\* Only the FM and the AM demodulator measure a level, and in range mode no
\* block reaches them.
Measured == mode # "range" /\ TunedKind = "voice"

\* A block of the current channel is processed.
Measure ==
  /\ level' = IF Measured THEN Place \in carrier ELSE level
  /\ audio_idx' = scan_idx
  /\ <<level', audio_idx'>> # <<level, audio_idx>>
  /\ UNCHANGED <<settingVars, scan_idx, carrier, localVars, timeVars>>

Older(age, limit) == IF age < limit THEN age + 1 ELSE age

\* 200 ms pass.
Tick ==
  /\ run = "loop"
  /\ ~due
  /\ dwell' = Older(dwell, DwellTicks)
  /\ tail' = Older(tail, TailTicks)
  /\ quiet' = Older(quiet, TailTicks)
  /\ due' = TRUE
  /\ UNCHANGED <<settingVars, sharedVars, localVars>>

-----------------------------------------------------------------------------
(* The run thread *)

RunAt(from, to) == run = from /\ run' = to /\ UNCHANGED <<settingVars, audio_idx, carrier, level>>

\* The settings and the index are copied under the lock.
Snapshot ==
  /\ RunAt("loop", IF mode = "range" THEN "range" ELSE "frame")
  /\ seen' = [mode |-> mode, config |-> config, idx |-> scan_idx]
  /\ UNCHANGED <<scan_idx, cur, reading, state, muted, timeVars>>

\* Range mode: when a check is due, the index is read again, and moved if
\* the dwell is over.
RangeRead ==
  LET moves == due /\ seen.config.range > 1 /\ dwell >= DwellTicks
  IN  /\ RunAt("range", IF moves THEN "range_move" ELSE "loop")
      /\ cur' = IF due /\ seen.config.range > 0 THEN scan_idx ELSE cur
      /\ due' = (due /\ seen.config.range = 0)
      /\ UNCHANGED <<scan_idx, seen, reading, state, muted, dwell, tail, quiet>>

RangeMove ==
  /\ RunAt("range_move", "loop")
  /\ scan_idx' = (cur + 1) % seen.config.range
  /\ dwell' = 0
  /\ quiet' = TailTicks
  /\ UNCHANGED <<seen, cur, reading, state, muted, tail, due>>

\* Frames are published, silenced or not (Audible), if any are due; before
\* the buffer is primed the pass ends here.
Frame ==
  /\ \/ RunAt("frame", "check")
     \/ seen.mode # "list" /\ RunAt("frame", "loop")
  /\ UNCHANGED <<scan_idx, seen, cur, reading, state, muted, timeVars>>

Channels == Len(seen.config.chans)

\* A check of the scan list that is due reads the index and the level.
CheckRead ==
  LET checks == seen.mode = "list" /\ Channels > 0 /\ due
  IN  /\ RunAt("check", IF checks THEN "decide" ELSE "loop")
      /\ cur' = IF checks THEN scan_idx ELSE cur
      /\ reading' = IF checks THEN level ELSE reading
      /\ due' = (due /\ ~checks)
      /\ UNCHANGED <<scan_idx, seen, state, muted, dwell, tail, quiet>>

\* cur_chan.  The index is not clamped: past the end of the list the channel
\* is whatever memory holds.
CurrentKinds == IF cur < Channels THEN {seen.config.chans[cur + 1]} ELSE Kinds

Ungated(kind) == seen.config.monitor \/ kind = "data"

DwellOver == Channels > 1 /\ dwell >= DwellTicks

\* Mutant: the tail is measured from the start of the dwell.
MutantTailOver == dwell >= DwellTicks

TailOver == tail >= TailTicks

\* should_advance, before the lock has its say.
WantsAdvance(kind) ==
  \/ Ungated(kind) /\ DwellOver
  \/ ~Ungated(kind) /\ ~reading
     /\ \/ state = "waiting" /\ DwellOver
        \/ state = "tail" /\ TailOver

\* scan_state after the switch.
Gated(kind) ==
  IF Ungated(kind) THEN state
  ELSE IF reading THEN "open"
  ELSE IF state = "open" THEN "tail" ELSE state

\* Mutant: a signal that comes back during the tail stays silent.
MutantTailMute(kind) == ~Ungated(kind) /\ (IF reading THEN state # "waiting" /\ muted
                                           ELSE state = "open" \/ muted)

\* scan_audio_muted after the switch.
GatedMute(kind) ==
  IF Ungated(kind) THEN FALSE
  ELSE IF reading THEN state = "open" /\ muted
  ELSE state = "open" \/ muted

Locked == seen.config.lock >= 0 /\ seen.config.lock < Channels

\* Mutant: the scanner wraps one channel too early.
MutantNextIdx == IF cur + 2 >= Channels THEN 0 ELSE cur + 1

NextIdx == (cur + 1) % Channels

\* Back to waiting for a signal, on channel i.
Select(i) ==
  /\ scan_idx' = i
  /\ state' = "waiting"
  /\ dwell' = 0

DecideLocked(kind) ==
  /\ Locked
  /\ muted' = FALSE
  /\ IF cur # seen.config.lock
     THEN Select(seen.config.lock)
     ELSE state' = Gated(kind) /\ UNCHANGED <<scan_idx, dwell>>

DecideAdvance(kind) ==
  /\ ~Locked /\ WantsAdvance(kind)
  /\ muted' = TRUE
  /\ IF Channels > 1
     THEN Select(NextIdx)
     ELSE state' = "waiting" /\ dwell' = 0 /\ UNCHANGED scan_idx

DecideStay(kind) ==
  /\ ~Locked /\ ~WantsAdvance(kind)
  /\ state' = Gated(kind)
  /\ muted' = GatedMute(kind)
  /\ UNCHANGED <<scan_idx, dwell>>

\* The check: squelch, tail, dwell, lock, and the write of the index.
Decide ==
  \E kind \in CurrentKinds :
    /\ RunAt("decide", "status")
    /\ DecideLocked(kind) \/ DecideAdvance(kind) \/ DecideStay(kind)
    /\ tail' = IF Gated(kind) = "tail" /\ state = "open" THEN 0 ELSE tail
    /\ quiet' = IF scan_idx' # cur THEN TailTicks
                ELSE IF reading /\ ~Ungated(kind) THEN 0 ELSE quiet
    /\ UNCHANGED <<seen, cur, reading, due>>

\* SCAN_STATUS reads audio_channel_idx_ and publishes; no state changes.
Status ==
  /\ RunAt("status", "loop")
  /\ UNCHANGED <<scan_idx, seen, cur, reading, state, muted, timeVars>>

RunLoop ==
  Snapshot \/ RangeRead \/ RangeMove \/ Frame \/ CheckRead \/ Decide \/ Status

-----------------------------------------------------------------------------
Clients == (\E m \in Modes : SetMode(m)) \/ (\E c \in Configs : SetModeConfig(c))

Next ==
  Clients \/ (\E i \in Indices : Air(i)) \/ Measure \/ Tick \/ RunLoop

Spec == Init /\ [][Next]_vars

\* The threads are scheduled and time passes; clients do as they like, and
\* transmissions begin and end, or do not.  Measure is fair in that blocks
\* keep being processed; a block that nobody measures leaves the level.  The
\* clock does not wait for the thread, but here it moves only between passes,
\* so it needs strong fairness.
FairSpec == Spec /\ WF_vars(RunLoop) /\ WF_vars(Measure) /\ SF_vars(Tick)

-----------------------------------------------------------------------------
(* Safety *)

\* The scanner leaves a gated channel by itself only once no check has found
\* its squelch open for the whole tail (the hold of receiver_worker.cpp 1857
\* and 2085): a pause in a transmission does not end it.
HangTime ==
  [][run = "decide" /\ run' # "decide" /\ cur < Channels /\ scan_idx = cur /\ scan_idx' # cur /\ ~Locked
       /\ ~Ungated(seen.config.chans[cur + 1])
     => quiet = TailTicks]_vars

\* While the squelch is open the channel is heard, also after the tail, the
\* lock, monitor mode or a channel without squelch had a say in the muting.
OpenIsHeard == state = "open" => ~muted

\* The scan list is read inside its bounds.  It would hold if, as the
\* comment at receiver_worker.hpp 84 says, only the run thread wrote the
\* index (modulo the list it sees); but SetMode and SetModeConfig change the
\* list under an index that came from another one.
ListReadInRange == run = "decide" => cur < Channels

-----------------------------------------------------------------------------
(* Liveness *)

\* From some time on the receiver is in mode m with configuration c.
Settles(m, c) == <>[](mode = m /\ config = c)

LockValid(c) == c.lock >= 0 /\ c.lock < Len(c.chans)

\* A signal on the channel the receiver is tuned to, where one is measured.
Signal == Measured /\ Place \in carrier

\* In normal mode: one channel is kept because its signal never stays away ...
KeptBySignal == (\E j \in Indices : <>[](scan_idx = j)) /\ []<>Signal

\* ... or because of a level that is not its own.
KeptByStaleLevel == <>[](level /\ TunedKind = "packet")

\* The scanner never stops: with settings that stay and no lock, every
\* channel of two or more is selected again and again, also when the level
\* rises as the channel is left and whatever the air does, unless the scanner
\* stays with a voice channel whose signal never stays away, or with a packet
\* channel under a level above squelch that it inherited (DigitalScansOn).
ScansOn ==
  \A c \in Configs :
    /\ \A i \in 0 .. c.range - 1 :
         c.range > 1 /\ Settles("range", c) => []<>(scan_idx = i)
    /\ ~LockValid(c) => \A i \in 0 .. Len(c.chans) - 1 :
         Len(c.chans) > 1 /\ Settles("list", c)
           => []<>(scan_idx = i) \/ (~c.monitor /\ (KeptBySignal \/ KeptByStaleLevel))

\* A list of digital channels is scanned on: the comment at
\* receiver_worker.cpp 1930 says of the modes without audio that the state
\* machine still runs "so channel advance continues to work".  It fails when
\* the level was above squelch the last time it was measured: the check opens
\* the squelch of a packet channel by it, and nothing ever lowers it.
DigitalScansOn ==
  \A c \in Configs :
    /\ ~c.monitor /\ ~LockValid(c)
    /\ Len(c.chans) > 1 /\ \A i \in 1 .. Len(c.chans) : c.chans[i] # "voice"
    /\ Settles("list", c)
    => \A i \in 0 .. Len(c.chans) - 1 : []<>(scan_idx = i)
=============================================================================
