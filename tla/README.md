# multi-radio in TLA+

A verification project for multi-radio: a C++ daemon that runs SDR receivers,
demodulates and decodes what they hear (voice, AIS, ADS-B, DSC, VDES) and
serves audio, messages and a radar picture to clients over gRPC, and its
graphical client. The modules model the concurrent core of the daemon, the
state it keeps, the bit-level work of its plugins, and what the client makes of
it; TLC checks them on small instances; TLAPS proves the central properties for
every value of the constants.

    tlc -workers 2 -config MCSession.cfg MCSession        # any MC*.cfg with its module
    tlapm EventBusProofs.tla                              # any *Proofs.tla

Line numbers are those of the files under `backend/`, `plugins/` and
`frontend/` of this commit; `PROJECT.json` maps every definition to its lines.
`RW` below is `backend/src/receiver_worker.cpp`, `MW` is
`frontend/src/main_window.cpp`.

## 1. Inventory

### Threads, locks and the way of a sample

    device -> IngestLoop -> iq_deque_ -> ProcessLoop -> AudioRingBuffer -> RunLoop -> EventBus -> streams -> client
                                            |                               (scanner)
                                            +-> PluginHost -> callback -> TrackDatabase, TargetTracker -> snapshot streams
    client's buttons -> unary calls -> ReceiverManager (one mutex for all calls) -> ReceiverWorker

Each started receiver has three threads, `IngestLoop`, `ProcessLoop` and
`RunLoop`. gRPC handlers run in threads of the server, one per call or stream.
The mutexes are the manager's (held for a whole call, joins included), each
worker's `mu_` (settings, channel index) and `iq_queue_mu_`, the plugin host's,
one per EventBus topic, the tracker's, the database's and the log's. The client
has its user-interface thread, which makes the unary calls (deadline 2 s), one
thread per stream, and one for the weather.

### Components

| Component | State | Operations | Hard because | Correct when |
|---|---|---|---|---|
| EventBus topic and its streams (`event_bus.cpp`, `grpc_services.cpp` 469-670) | deque, base index, a cursor per stream | Publish, WaitFor, Subscribe, cancel, write | notify after unlock; overrun while a stream sleeps or writes; live and historical starts | in order, nothing twice, loss only by overwriting, no sleeping on data, cancelled streams end |
| AudioRingBuffer | samples, two positions, fill level, statistics | Write, Read, Clear, GetStats | wrap, full, partial results | a bounded FIFO |
| Receiver life cycle (`receiver_manager.cpp`, RW 437-498) | `running_`, three thread handles, device, audio buffer | Start, Stop, other calls | two clients at once; a stop in the middle of anything | every call returns; nothing outlives Stop; no use of a buffer that is gone |
| IQ queue (RW 920-935, 1254-1265) | deque of blocks, condition variable | push with drop-oldest, wait, take | drop while the consumer moves; the wakeup of Stop | newest blocks kept, none left waiting |
| Scanner (RW 1857-2170) | channel index, squelch state, dwell, tail, mute | one check per pass; SetMode, SetModeConfig | settings change between reading, deciding and writing the index; a level nobody measured anew | never stops scanning, keeps a channel for the hang time of its signal |
| Tuner (RW 767-935, `rtl_sdr_device.cpp`) | caches of a session, memory of the device object, settings of the hardware | open, rate, correction, gain, frequency, read | every call may fail; the three live for different times; clients change what is wanted | a block is what it is labelled |
| Noise reduction (RW 1107-1204, 1621-1625) | samples left over, rate, channel | a block, a switch | frames do not fit blocks; channel, rate and switch change in between | a channel's sound is its own |
| Audio path (RW 775-935, 1254-1818, 1928-2024) | queue, `audio_channel_idx_`, ring, frame | ingest, demodulate, write, fill and publish a frame | three threads, blocks older than the channel index | the index names the audio; a full ring delays and does not block |
| Signal health (RW 1205-1253, 2168-2391) | window of blocks, hysteresis | add a block, take the window, judge | window shared by two threads, nothing reset at Start | a verdict follows from the windows of its session |
| Plugin chain (`plugin_host.cpp`, RW 578-761, 1369-1450, 1609-1708) | active plugin per place, parameters, enabled flags, `plugin_config_generation_` | SetActive*, SetParam, ProcessIq, ProcessAudio, PushPluginConfig | two threads set the chain call by call | each block decoded once, by the chain of its modulation |
| AIS bursts (`ais_dual_demod.c`, `gmsk_demod.c`, `nrzi_decoder.c`, `hdlc_postproc.c`) | gate, bit buffer, last bit, deframer | a block of symbols, reconfiguration | branches share decoder and deframer; long bursts are split | every whole burst once |
| AIS and ASM messages (`ais_decoder.c`, `asm_decoder.c`) | none | a frame | two decoders, lengths in bytes and in bits | a field lies within its frame |
| DSC (`dsc_afsk_demod.c`, `dsc_decoder.c`, RW rate limiter) | chunk, last call, times | bits, a chunk, a message | chunks cut calls; end searched from the back | a whole call reaches the client |
| ADS-B (`adsb_demod.c`) | samples carried over, position cache | a block | frames across blocks; aircraft share cache places | every frame once; a position of one aircraft |
| VDES (`vdes_burst_demod.c`, `vdes_burst_decoder.c`, `vdes_asm_decoder.c`) | search state, stream, scan position, tuning | symbols, bits, parameters | streams cut behind a scan that goes back | every burst and sync word is told |
| IQ recorder (`iq_recorder.c`) | open file, sidecar, counters | start, stop, a block, deactivate | failing writes, kills, several receivers | a complete recording is whole |
| Track database (`track_database.cpp`) | entities, tracks, raw frames; name cache, last positions | UpsertEntity, LookupName, RecordPosition, ClearEntities, open | cache against table over restarts; results of SQL ignored | lookups and table agree; no news dropped |
| Target tracker and position streams (`target_tracker.cpp`, `grpc_services.cpp` 622-715) | one entry per target | Update, LearnLabel, TakeSnapshot | several pollers of a removal list that exists once | a client's map follows the tracker |
| Message callback (RW 1445-1611) | none of its own | learn, record, inject, update, publish | several receivers, two mutexes, values read earlier | as the two above |
| Event log (`jsonl_logger.cpp`) | live file, old files, size | log, rotate | killed inside a rotation | the files are the last lines, in order |
| Hardware configuration (`hardware_config.cpp`) | file, cache, receivers | SetHardwareConfig, GetHardwareConfig | three copies written one after the other | one value |
| Client: control panel (MW, `grpc_client.cpp`) | widgets, tabs, what it was told | presses as programs of unary calls | late answers, handlers that run after the deadline | what it shows is what the server does |
| Client: streams (`grpc_client.cpp` 180-420) | a loop per stream, cursors, availability | open, read, pause, reopen, cancel | breaks, old servers, the shutdown | streams resume, miss nothing buffered, end |
| Client: scan lists, calibration (MW 4400-5000) | two lists, frozen and active index, settings file | add, edit, remove, import, freeze, calibrate | indices into lists that change | the lock is the frozen channel |
| Client: audio output (MW 3600-3900, 5000-5300) | sequence numbers, queue, sink | a frame, drain timer | losses, gaps, sessions that overlap | in order, nothing twice, played to the end |
| Client: weather (`weather_worker.cpp`, MW) | requests in flight, payload | hourly fetch, replies | late, failed and overlapping replies | one fetch is shown |
| Not modelled | | | | see section 5 |

## 2. Modules

| Module | Models | Builds on |
|---|---|---|
| `LossyFeed` | what a topic promises its subscribers | |
| `EventBus`, `...Proofs` | one topic and the streams that read it | implements `LossyFeed` |
| `SampleFifo` | a bounded FIFO of samples | |
| `AudioRingBuffer` | the ring buffer | implements `SampleFifo` |
| `ReceiverWorker`, `MC...` | Start, Stop, three threads, the IQ queue | |
| `ClientSession` | the control panel, its unary calls and their handlers | |
| `MCSession` | one of the receiver, the control panel and the bus | `ReceiverWorker`, `ClientSession`, `EventBus` |
| `SessionProofs` | proofs, one component after the other | `ReceiverWorker`, `ClientSession` |
| `Scanner`, `MC...` | RunLoop's scanner against changes of the settings | |
| `ScanPipeline`, `MC...`, `...Proofs` | the scanner with the ingest and process threads and the ring | extends `Scanner`, uses the FIFO of `SampleFifo`; the proofs are about both |
| `PluginChain`, `MC...`, `...Proofs` | selecting and running the decoding chain | the proofs are about `IqRecording`, `AisMessages`, `SyncSearch` and `AdsbFrames` too |
| `BurstFraming`, `BurstProofs` | symbols to AIS frames: gate, bit buffer, NRZI, HDLC | the proofs are about `VdesBursts` and `DscCalls` too |
| `AisMessages` | which bits of a frame become which field | |
| `DscCalls`, `MCDsc` | bits to DSC calls to the client | |
| `AdsbFrames` | ADS-B frames across blocks, positions from pairs | |
| `VdesBursts` | VDES symbols to bursts to candidates | |
| `SyncSearch` | the sync word search of `vdes_asm_decoder` | |
| `IqRecording` | recordings and sidecars on a failing disk | |
| `MCPlugins` | the chain, or one of the seven above | those eight |
| `TrackDatabase` | the store: tables and caches | |
| `TargetTracker` | the radar picture | extends `TrackDatabase` |
| `Targets`, `MC...`, `...Proofs` | the message callback, the snapshot streams, a client's map | extends `TargetTracker` |
| `SignalHealth` | the verdict on the signal | |
| `DeviceTuning` | the ingest thread, the device object and the tuner | |
| `NoiseReduction` | frames of the noise reduction over blocks | |
| `EventLog` | the log and its rotation | |
| `ScanPanel` | the client's scan lists and calibration | |
| `AudioPlayout` | the client's audio | |
| `ClientStreams` | the client's stream loops | |
| `WeatherUpdates` | the weather worker and its window | |
| `MCUnits` | one of nine components that share no state | `AudioRingBuffer`, `SignalHealth` and the seven above |
| `ServerUnitsProofs` | proofs | `AudioRingBuffer`, `EventLog`, `SignalHealth` |
| `ClientUnitsProofs` | proofs | `ScanPanel`, `AudioPlayout`, `ClientStreams`, `WeatherUpdates` |

`MCSession`, `MCPlugins` and `MCUnits` put components that share no state into
one run: `focus` picks one in the initial state and only that one moves, so
that the states add up and do not multiply, and each is explored as in a run of
its own.

**EventBus.** The four topics are the same code; `live` says whether streams
start at the tail. A critical section is one step, and `notify_all`, which runs
after the unlock, another. `stream[s]` follows the handler: `loop`, `check`
(predicate), `blocked`, `write`. `log`, `start` and `written` are history.

**AudioRingBuffer.** Every method is one critical section, so one step. Samples
are values; positions wrap as in the code.

**ReceiverWorker.** A call is a walk through the code's steps under the
manager's mutex (`StartStep`, `StopStep`), each thread a small program. The
only part of `iq_queue_mu_` that shows is the moment between the evaluation of
the wait predicate (`sleepy`) and sleep (`blocked`), because Stop notifies
without the mutex. A block is its number and its session.

**ClientSession.** A press is a program of unary calls made one after the other
by the user-interface thread. When a deadline passes the client goes on and the
request stays in the server, to run whenever it gets its lock. A setting is a
value in the widgets, in what the client was told, in the server, in its cache
and in its file.

**Scanner.** The run thread copies the settings, reads the clock, then takes
`mu_` again for each use of the index. Channels are of three kinds: voice (FM,
AM) is gated by squelch and measured; packets (GMSK, FSK, PPM, VDES ASM) are
gated and never measured, so that they are judged by the level the last voice
channel left; data (ADS-B, AIS Dual) is not gated. A level is above the squelch
or not, whatever the threshold of its channel, and time comes in ticks of the
200 ms between checks. Transmissions come and go with `Air`; in `Scanner`
`Measure` stands for the blocks that follow them, and in `ScanPipeline` a block
carries the level through the queue. A list is SCAN_LIST or AIR_MARINE_PLOT,
which the code treats alike. A channel index past the end of the list reads
whatever memory holds.

**ScanPipeline.** A sample is the queue entry it came from, so the model tells
whose audio is where. The ring is the FIFO that `AudioRingBuffer` implements.

**PluginChain.** Each `SetActive...` or `SetParam` is one step under the host's
mutex, taken by the client's thread (`Push`) or the process thread (`Switch...`).
A message is its signal type and the plugins it went through. One receiver.

**The plugins.** The transmitter, the air and libmodes are external and send
what is legal, with noise around it. A symbol, bit or sample carries the burst,
word or frame it belongs to, so that a property can say that what is told is
what was sent and in one piece; the code's sizes are constants, small in the
runs (the heads of the modules name the real ones). Filters, tone detection and
all floating point are left out: the models begin where the code has decided on
a symbol. `AisMessages` has the layouts of the thirteen message types and the
fifteen binary messages as rows of field widths, for either decoder by itself:
nothing is handed from one to the other (`msg8_handoff`).

**IqRecording.** A file is the number of blocks on disk and in the buffer of
stdio; any write may fail, the process may be killed between any two calls.

**TrackDatabase, TargetTracker, Targets.** Calls of the database are one step
each; the tracker's mutex is a variable, since `Update` holds it over database
calls. A position is a place and a speed; places are at least 100 m apart. The
foreign key from tracks to entities, which is on, refuses rows and deletions,
and the code ignores that it did.

**The client's other parts.** `ScanPanel` has the server's scanner as its
environment: it reports the channel it is on, and an apply reaches it or fails.
`AudioPlayout` counts in units of 40 ms. `ClientStreams` numbers the items of
the message stream; the server may go and come back empty, and an old one lacks
optional streams. `EventLog` writes the rotation rename by rename.

**DeviceTuning, NoiseReduction.** In the first a client's settings are what the
ingest loop looks at, and any call to the tuner may fail, which ends the pass.
In the second a sample is its number, channel and rate, so that a property can
say where in a block it went; resampling is left out.

## 3. What is checked

| Run | Instance | Shows |
|---|---|---|
| `sessions` | worker: 2 clients, 3 calls, 3 blocks, queue of 2; panel: 2 receivers, 2 values, 3 tabs, 2 presses; bus: 2 publishers, 1 stream, 2 classes, deque of 2, 5 messages | `BufferOutlivesThreads`, `QueueSound`, `StopMeansStopped`, `ReturnsOrHangs`; `CopiesAgree`, `StartsAsShown`, `PressEnds`; `NoLostWakeup`, `ImplementsFeed`, `StreamsServed` |
| `scanner` | 4 configurations of 2-3 channels, dwell 2, tail 3, 2 client calls | `OpenIsHeard`, `HangTime`, `ScansOn` |
| `pipeline` | 2 channels (data, voice), queue and ring of 1 | `RingOfAudioIdx`, `WriteEnds`, `AudioFollows` |
| `plugin_chain` | chain: 3 configurations, 4 modulations, 2 client calls; plugins: see below | `HandedOnce`, `ChainOfBlock`, `ChainSettles`; `WholeBurstsDecoded`, `WholeCallTold`, `FramesTold`, `BurstsFoundOnce`, `FieldsSound`, `RecordingsWhole`, `SyncWordsTold` |
| `targets` | 2 receivers, 2 map clients, a vessel and an aircraft, 2 messages of 6, 1 restart, 2 ticks, with and without a row from an earlier life | `LookupsMatchRows`, `TrackKept`, `GhostsWereLost` |
| `units` | ring of 3, 6 samples, calls of up to 4; lists of 3, 3 edits; 5 frames, queue of 3, sink of 2; bus of 2, 2 breaks; 2 hours; 12 lines, 2 kills; 5 windows; tuner: 2 changes, 2 faults, 2 sessions; noise: frames of 3, 4 blocks, 2 rates | `ImplementsFifo`; `LockedOnFrozen`, `CalibrationEnds`; `AudioPlayed`; `NothingMissed`, `StreamsEndOrResume`; `WeatherShown`; `LogIsSuffix`; `VerdictJustified`; `BlockAsTuned`; `BlendSound` |

The comment above each property says what it means and which lines it is about.

Why these bounds:

* A deque of two overrun by five messages wraps its base three times, with the
  stream at every place; three ring slots under calls of four see every wrap,
  full and empty case.
* Three calls of two clients give Start/Stop/Start and every overlap of two. Two
  presses give a late handler of the first under every step of the second.
* Two client calls put one change between any two critical sections of the
  scanner and a second after the first took effect; a third channel tells
  "next" from "other".
* Two messages put one receiver's callback between any two steps of the
  other's, and the initial tables stand for what earlier messages left.
  `MaxInterval` and both times to go stale are one tick, so that two ticks see
  each limit reached and passed.
* Chain: it starts in list mode, the other mode and both orders of switching come
  from the client's calls.
* Bursts: three branches of two kinds, bursts shorter and longer than the bit
  buffer, two of them, at every offset of a block, with the gate opening late or
  not, and a reset. DSC: calls at every offset of a chunk, three in a row for the
  limit per second. ADS-B: blocks of two and five samples around the three that
  are carried over, two aircraft that share a place of the cache, three frames.
  VDES: bursts and pauses around the sizes at which the stream is cut. AIS:
  every type with every length at which a field begins or ends to count.
  Recordings: files of two blocks, two receivers, four client calls. Sync words:
  blocks shorter and longer than what is kept, two bursts, one parameter.
* The event log gets lines to wrap its three files twice between two kills.
* Tuner: two faults put one into a session and one into the next, or two into
  one pass that is tried again; the settings differ in every part, with a
  frequency that the offset takes below 0 and one above the largest. Noise:
  blocks of less and of more than a frame, none a multiple of it.

Where a run says `CHECK_DEADLOCK FALSE` the bounded number of calls, messages,
bursts or samples lets the system stop.

### Disagreements found

Six runs check one statement of the repository each and expect TLC to refute it.

* `stop_hangs` / `StopReturns`. Stop stores `running_` and notifies without
  `iq_queue_mu_`. Both can fall between the predicate and the sleep of the
  process thread; Stop then joins a thread nobody wakes and keeps the manager's
  mutex. `ReturnsOrHangs` shows that this is the only way for a call to hang.
* `scanner_range` / `ListReadInRange`. The scan list is indexed with an index
  that came from another mode or an older list.
* `scanner_digital` / `DigitalScansOn`. A list of packet channels is judged by
  the level that a voice channel left when the list was changed. If that was
  above the squelch, the scanner stays on the first of them for good. `ScansOn`
  shows that this, and a signal that never stays away, are the only ways for it
  to stop.
* `msg8_handoff` / `Msg8HandedOver`. Binary AIS messages never reach
  asm_decoder: what a postprocessor emits is delivered without another stage.
* `vessel_name` / `NameKept`. A class B vessel sends its name and its callsign
  in different messages (type 24, parts A and B). Part B makes the callsign the
  cached label, the callback injects it as the name, and the tracker stores it
  over the name.
* `dsc_silent` / `WholeCallTold`. The decoder looks for the end of a call from
  the back and counts its repetitions forwards from there: one. With
  `min_eos_tail_repeats` 2, which is what the daemon sets, every call that ends
  as it should is filtered. (The run `plugin_chain` checks the same property
  with 0, as the tests of the repository do.)

### Seen while modelling, without a run of their own

Receiver and scanner. The dwell start is a local of the run thread that calls
which select a channel do not reset (RW 2048); Start keeps the old queue
(RW 456), window and latest block; monitor mode leaves a one-channel list
unmuted (RW 2061); after an advance a frame goes out under the new channel with
samples of the previous one (RW 1969). A packet channel under a low level is
muted and skipped, whatever it receives. `SCAN_SQUELCH_OPEN`, which the client
would reset its audio on (MW 3365-3399), is sent by nobody. Receivers share one plugin host (RW 587):
the calls of one change the chain of another, the Stop of one ends the
recording of another, and blocks of both land in one file. The comment that
plugins see every block (RW 1435) does not hold for DSC over audio in range
mode. `SCAN_SQUELCH_CLOSE`, `AUDIO_PCM16` and the message
kinds "metric" and "candidate" are emitted by nobody.

Tuner. A frequency correction that fails is cached as if it had not (RW 871) and
never tried again; the cache begins one below the value of the file, so that
a session's first correction of just that value is never made; and the
comment "PPM is applied on first device open, even before the client sends a
ModeConfig" (RW 768-769) does not hold, as what is applied is the
configuration's own 0. A manual gain that was given up half-way stays when the
automatic one is wanted again and was set before. At a frequency of 0 the block
is read where the tuner was.

Noise reduction. A block that is no multiple of a frame ends with samples as
they were, which come again, denoised, in the next, and of more than the block
has places for the last are lost, against "fully denoised (100%)" (MW 1329,
1595). Samples left over when it is switched off come back when it is on again,
and a fixed receiver that is tuned elsewhere keeps them too.

Plugins. An AIS burst of more than 1024 bits is split and can be mixed with
another branch's; `hdlc_postproc` keeps the first 4096 bytes of a longer frame
although its comment says such frames are discarded; `gmsk_demod` with
`squelch_db` 0 closes its gate for good. DSC chunks of 256 bits decode a call
that lies across two with wrong fields, and a dropped word shifts the others.
`asm_decoder` counts the check sequence in the minima of types 6, 8, 12 and 14,
so that frames two bytes short are told with zero bits; its comment "decoded
identically to ais_decoder" (`asm_decoder.c` 869) is wrong for types 9 and 19; FI
31 prints strings that were never set; names with `"` or `\` break the JSON.
VDES: with 54 + `candidate_bits` no whole bytes the second of two bursts can be
missed; 96 to 127 candidate bits never give a candidate; a `corr_threshold` set
before the first block is overwritten. `vdes_asm_decoder` rescans the 512 bits
it keeps and tells the same word again; its tuning depends on the parity of the
bits and prefers the 13-bit pattern that the 28-bit one contains; the default
1056 candidate bits exceed what it keeps; and `vdes_asm_postproc` reads the
header as if every word had 13 bits. The recorder's header says a
`recording_start` opens a new file and `max_bytes` closes without restart; an
open file goes on instead, and a new one starts at once. A change of modulation
never stops a recording.

Store. `ClearNameDatabase` reports success and deletes nothing once a track
exists (`track_database.cpp` 427), and the names are back after a restart;
positions of entities without a name are refused by the foreign key (281-300); a
stopped vessel is recorded twice per message, once with its last speed
(`target_tracker.cpp` 90); two clients on the snapshot streams each miss the
removals that the other took (164, `GhostsWereLost` says that nothing else
leaves a marker behind). The event log keeps `max_files` + 1 old files, and a
kill inside a rotation costs one.

Client. A frozen index survives a cleared or replaced list and freezes what
comes in its place; a new card is not put in the grid until the layout changes;
a refresh, start or stop cancels a calibration with the monitor box left on, and
one on a list of one channel never ends; a cleared scan list comes back as five
blanks. The sequence check (MW 3681-3685) invalidates the sample index, so that
the gap detection behind it never fills a lost frame; audio shorter than the
prefill waits for more. Leaving the log tab restarts the receiver, which MW 2645
says never happens. The message and event streams start at the head, so that
each reconnect repeats what is buffered. UNIMPLEMENTED is
final until the window opens again. StopStreaming cancels nothing: closing the
window waits for streams the server keeps open. Weather: both signals of a
failed request clear its flag, so that a fetch can begin in between and tell a
mixed snapshot; a reply that never comes stops all updates.

### Fairness

* EventBus: every handler and every pending notification gets to run, and a
  Write returns. Nobody is obliged to publish, subscribe or cancel.
* ReceiverWorker: every thread is scheduled and device calls return; weak
  fairness is enough for the mutex because the number of calls is bounded.
  Condition variables need not wake without a notification.
* ClientSession: a call is sent, and answered or given up at its deadline. No
  handler is obliged to run.
* Scanner, ScanPipeline: the threads run, blocks of the current channel are
  processed (of a packet channel that means no measurement) and the clock
  advances. The clock can only tick between passes, so it, and the frame filling
  that waits for the ring, get strong fairness: real time does not stop while a
  thread runs. The air owes nothing: a transmission may never begin or end.
* PluginChain: the client's thread finishes its call, the process thread its
  block.
* The client: the server scans and its events come, timer and sound device go
  on, the stream loops run. Nobody is obliged to keep the server up.
* Everything else: safety only.

## 4. What is proved

For every value of the constants, from the assumptions each module names
(`...Assumption`, one or two in every module with constants; TLC evaluates them
on every run):

* `EventBusProofs`: `BusTypeOK`, `WindowOK`, `NoLostWakeup`, `InOrder`,
  `LossOnlyByOverwrite`, that a stream writes the message at its cursor
  (`HeldOK`), and that the topic implements `LossyFeed`. `BusTypeOK` and `WindowOK`
  are inductive together. The stream properties are not: that nothing is
  written twice needs that everything written lies at or before the cursor
  (`CursorOK`, `WrittenOK`). The conjunction, `StreamInv`, is inductive; one
  lemma per kind of step. The refinement maps `cursor` to the feed's `next`;
  publishing, subscribing and taking are its steps, the rest stutters.
  (`WindowOK`, `InOrder` and `LossOnlyByOverwrite` are not in a run any more:
  the feed has them, and the run checks that it is implemented.)
* `SessionProofs`, of the receiver: `TypeOK`, `BufferOutlivesThreads`, `FreshThreads`,
  `StopMeansStopped`, and `QueueSound` with its parts `NoLostBlock`,
  `NewestKept`, `StaleBounded`. The invariant `IInv` adds what the holder of the
  mutex has done so far at each step of a call (`Lifecycle`): without it nothing
  says that a thread is spawned in the place of a dead one, and the queue's
  invariants fail on a second process thread. `StopMeansStopped` is an action
  property read off `Lifecycle`.
* `SessionProofs`, of the client: `CopiesAgree` and the action property `StartsAsShown`.
  Both need what the remaining calls of a press will find when their turn
  comes, so `SessionInv` says it of the program (`ProgramInv`: a start follows a
  configuration, which follows a mode), of the call the client waits for
  (`WaitedInv`: it carries what is in front of the user, and its handler, if it
  ran, did what it says) and of the next one (`ReadyInv`). A handler that runs
  after the deadline can only undo this for a receiver that is marked
  `overtaken`. `HardwareInv` says that at most one change of the hardware is
  past the file, or two have overlapped. `StartsAsShown` is about the start the
  client still waits for; one it gave up starts what it carried.
* `ScanPipelineProofs`: about `Scanner`, `TypeOK`, `OpenIsHeard` and `HangTime`.
  The last needs how long the channel has been quiet in each state of the
  squelch machine (`QuietOK`: the whole tail while it waits, at least the age of
  the tail in the tail) and that a move has something to move over (`MovesOK`).
  About the pipeline, `RingOfAudioIdx`, and `OpenIsHeard` and `HangTime` with
  the threads that measure the level. The scanner in the pipeline takes the
  steps of `Scanner` but for the measurement, so `ScanInv` carries over; the
  ring needs that it is empty from its clearing until the index is written, and
  that the block being written has the index last processed (`IndexOK`).
* `PluginChainProofs`, the plugins:
  * `HandedOnce` and `ChainOfBlock`, for all configurations. `SwitchOK` says
    which stages a switch that nobody disturbs has set and which it has left,
    `ChainOK` that with the generation of the last switch the host is set up for
    its modulation; both only hold because the last of a client's host calls
    counts the generation (`PendingOK`), so that a call that ends is seen.
  * `RecordingsWhole`: the sidecar of the open file never counts more than the
    file holds (`OpenOK`); that of a closed one that says it is complete counts
    all of it (`ClosedOK`).
  * `FieldsSound`, for all types and lengths, in either decoder by itself. It is
    about one step, and the work is in the layouts: fields of given widths side by side do not overlap
    and end where their widths add up to (`TidyRow`), and every message is such
    rows, apart from each other, up to the bit its minimum length allows.
  * `SyncWordsTold`. A word that was sent stands in the stream or in what is
    still to come until it is cut off (`Placed`); an inverted word has as many
    errors as the word itself (`ErrorsSame`); the search misses no hit but those
    that lie across a hit it told (`HitsAreCovered`); and a word that is cut off was whole
    in the stream when it was last searched (`CutWordsTold`).
  * `FramesTold`. The samples carried over and those to come are one row
    (`RowOf`). A frame that is neither lost nor begun before the carried samples
    lies whole in it where its counts say (`FirstOf`), and no other frame does
    (`AirOK`), so a block tells just the frames whose first sample is among as
    many as it has (`BeginsWhereCounted`, `CountedBegins`). The frames are told
    in the order they were sent in (`InOrder`), which makes a cache entry the
    last frame of its aircraft and parity (`ToldOK`).
* `BurstProofs`: `BurstsFoundOnce`, a burst that was emitted is found once, with
  the bits that follow its training. The bits emitted are numbered through, and
  what stands in the decoder's stream is a piece of them in the order they were
  sent in, so a training stands there at most once. The invariant `VdesInv` says
  of the decoder (`DecoderOK`) that a training before `scan_pos` was found and
  one behind it was not, and that what was emitted last is longer than the way
  the scan goes back after a cut (`Backup`), so that no training comes before
  `scan_pos` twice with a window behind it; and of the demodulator (`DemodOK`)
  that what it gathers begins behind all it has emitted, with a training. The
  sizes this needs are `VdesAssumption`, and the code's fulfil them.
  `WholeCallTold`, for all calls a ship may enter (`Legal`) and every offset in
  the chunk. In the air stand noise, the words of what was sent, numbered
  through, and noise, and so they do after a chunk was taken off (`AirGoesOn`):
  beside the words' offset no word is valid (`NoWordsBeside`), at it just the
  call's are (`WordsOfCall`), so the decoder chooses that offset and reads the
  call's symbols (`OffsetFound`, `CallRead`). What follows are the places of the
  fields, which lie where their lengths add up to (`DistressRead`,
  `OtherRead`), and the limit per second, which never bites because the calls
  that were told lie `Interval` apart (`SpacedOut`, `RateAllows`). The theorem
  says what the repetitions asked for decide: with none or one every whole call
  is told; with two or more, the daemon's configuration, nothing ever is,
  because the last end symbol stands there (`EndStands`), is counted once, and
  so no symbols pass (`NothingPasses`), whichever offset was best
  (`BestIsThere`).
  `WholeBurstsDecoded`, for any branches, payloads, noise and block sizes. The
  invariant `BurstInv` says of every burst that is due which of its symbols are
  still to come, that the buffer holds the bits heard since the last time it was
  emptied, and, once part of the burst was emitted, that the last bit is the
  one before them and what the deframer has read (`Tracks`): so many bits of the
  flag, of the stuffed payload or of the closing flag. Before the first flag the
  deframer may be in any state (`FlagStep`), which is why branches can share it;
  from there on destuffing undoes stuffing bit by bit (`BodyOK`), and the hold
  outlasts the bits that emitting whole bytes cuts off (`ClosedOwesNothing`).
  This needs of `FramingAssumption` that the buffer holds whole bytes, that the
  deframer takes less than a byte of a flag for data, and that the gate stays
  open for more than a byte; the code's sizes fulfil it. That the gate opens
  before the training is over is assumed of the signal. A burst that is split
  while another of its kind emits is not promised.
* `ServerUnitsProofs`:
  * the ring buffer's `TypeOK`, `PositionsOK`, `Conservation`, and that it
    implements `SampleFifo`. The argument is arithmetic on positions: advances
    add up (`AdvanceSum`), and a queued sample lies out of reach of a write that
    fits (`AheadOfWrite`).
  * `LogIsSuffix`. All files, the live one among them, are one function of
    places, and a rotation moves the content of one place to the next (`Suffix`
    is kept by moves, by dropping the last place and by appending in the first).
    That a kill costs at most one file needs how many full files lie between a
    place and the live file (`FullOK`).
  * `VerdictJustified`: the counters of the run thread are the lengths of the
    rows of good, bad and close windows at the end of what it judged
    (`CountersOK`), and the latch is up if a row long enough stands since no row
    long enough fell (`LatchOK`).
* `ClientUnitsProofs`:
  * `LockedOnFrozen`, for lists of any length: the index points to the channel
    that was frozen through every edit (`FrozenOK`), and what is sent is taken
    from one state.
  * `AudioInOrder`, the safety part of `AudioPlayed` (`HeardInOrder`): what was
    heard comes before what is queued, and that before the next frame
    (`Queued`), through every split of a frame between sink and queue.
  * `NothingMissed`: the cursor of a message stream only passes what was received
    or what the bus has dropped (`NothingSkipped`).
  * `WeatherShown`: as long as no fetch began between the two signals of a failed
    request, the replies on their way are those awaited and the second signals
    of failures, all of the last fetch (`RepliesOK`).
* `TargetsProofs`: `GhostsWereLost`, `LookupsMatchRows` and `TrackKept`, each
  from an invariant of its own. `MapInv` speaks of snapshots in flight: what one
  shows may be gone when it is written, and then its removal went elsewhere.
  `NamesInv` adds that `Update` upserts with a text only; without one, a cleared
  id would count as learned. `TrackInv` relates what counts as recorded
  (`last_pos_`) to the tracks: there is a row, unless the entity had none yet,
  and then the recording is no newer than the entity's row. `TrackKept` is an
  action property: its last step is the arithmetic of `ShouldRecord`.

Where the code has a loop inside one step (the search for a sync word, the
widths of a row), the model has a recursive function, and what it
computes is proved by looking at the least place where the statement would fail:
the induction theorems of the library are not used, because they take an
operator as a parameter.

Only model-checked: all liveness (out of the prover's reach, as is `ENABLED`):
`StreamsServed`, `ReturnsOrHangs`, `PressEnds`, `ScansOn`, `WriteEnds`,
 `AudioFollows`, `ChainSettles`, `CalibrationEnds`,
`StreamsEndOrResume`, and that audio is played to its end; and `BlockAsTuned`
and `BlendSound`. Every other invariant of a passing run is stated by a theorem,
under the assumptions on the constants named above.

The type invariants of modules without proofs state the types; they hold in the
instances above and are not run on their own.

## 5. Not modelled

Signal processing: the FM and AM demodulators, `fsk_demod`, `ppm_demod`,
`vdes_phy_demod`, the filters and symbol decisions of the other plugins, the
estimation of spectra and scores. Their state is floating-point samples; the
models keep which block a sample came from. The device driver (one call of
librtlsdr each), authorisation (a string comparison), conversions to and from
protobuf, drawing (radar map, spectra, coastlines), the terminal client, the
offline tools. Server start and shutdown: they run once, before and after all
threads; `Shutdown` is only called by the destructor, when `Run` has returned.
`vdes_asm_postproc` prints three fields and keeps nothing. `NameDatabase` is dead
code. Of modelled parts: one receiver per plugin host (in `PluginChain`; the
recorder has several), no other plugin parameters than `invert`, no pacing of
frames, no course and altitude, no raw frames, no `Prune` (nobody calls it), no
labels and thresholds of scan channels.

The client's table of messages: `decoded_table_` (`main_window.hpp` 278) is never
created, so `AddMessageRow` returns at its first line (MW 5751), and the filter
in front of it is hidden (MW 1806). The cards of the radar's scan list: their
grid is never created either (MW 4285), so that of `ScanPanel` only the scan
list's half can be seen.

What the models simplify, and where the code does more:

* `ClientSession`: what lies between widgets and configuration (MW 2971,
  3199-3207). `ScanPanel`: an apply is all or nothing; SetMode can succeed and
  SetModeConfig fail (MW 3330-3347).
* `AudioPlayout`: `Gap` cannot occur with the numbers RunLoop gives; the reset on
  `SCAN_SQUELCH_OPEN` is left out; an unplugged sink keeps playing.
* `PluginChain`: over audio a block has a configured demodulator and samples
  (RW 1629, 1668-1683), and `HandedOnce` speaks of blocks during which no client
  calls (`calm`). `VdesBursts`: both plugins get sizes that both accept, where
  one refuses what the other takes (`vdes_burst_decoder.c` 355, RW 656-657).
  `IqRecording`: a list for AIS Dual sends no `recording_start` (RW 633-637).
* `DeviceTuning`: a sample rate of 0, which would equal the cache of a new
  session, the hardware's bandwidth, which does nothing, and the synthetic IQ of
  a build without a device are left out. `NoiseReduction`: a build without
  rnnoise does nothing.

## 6. What could follow

1. Several receivers on one plugin host: the property to state is that a chain
   belongs to one of them, which the code does not give; it would be a run that
   expects a violation of the comment at RW 1435.
2. The composition of `ClientSession` with `ReceiverWorker`: a press whose Stop
   hangs, and what the panel shows then.
