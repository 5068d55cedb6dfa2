----------------------------- MODULE DeviceTuning -----------------------------
(***************************************************************************)
(* The tuner of a receiver: IngestLoop of backend/src/receiver_worker.cpp, *)
(* which copies the clients' mode and configuration before every block and *)
(* tells the device what its caches say is new, RtlSdrDevice of            *)
(* backend/src/rtl_sdr_device.cpp, which remembers the rate and the        *)
(* frequency it was told last and stamps the blocks with them, and the     *)
(* tuner behind librtlsdr, where every call may fail.                      *)
(*                                                                         *)
(* The caches live as long as a session, the device object as long as the  *)
(* receiver, the tuner's settings until it is closed.  What clients set is *)
(* reduced to what the loop looks at.  The bandwidth of the hardware is    *)
(* left out: the device takes every value and does nothing with it.        *)
(***************************************************************************)
EXTENDS Integers

CONSTANTS Settings,     \* records of mod, range, rate, hz, lo, ppm
          MaxRate,      \* kWfmMaxRuntimeSampleRateHz
          AdsbRate,     \* 2400000
          MaxHz,        \* the largest uint32_t
          FilePpms,     \* what the configuration file of the hardware may say
          ChangeBound, FaultBound, IngestBound

ASSUME TuningAssumption ==
  /\ Settings \subseteq [mod : {"wfm", "nfm", "adsb", "data"}, range : BOOLEAN,
                         rate : Nat \ {0}, hz : Nat, lo : Int, ppm : Int]
  /\ {MaxRate, AdsbRate, MaxHz} \subseteq Nat \ {0} /\ FilePpms \subseteq Int
  /\ {ChangeBound, FaultBound, IngestBound} \subseteq Nat

VARIABLES
  wanted,    \* mode_ and mode_config_, as far as the loop looks at them
  receiving, \* running_
  at,        \* where the loop stands
  pass,      \* its copy of wanted
  cache,     \* the configured_* of the session
  memo,      \* sample_rate_hz_ and center_frequency_hz_ of the device object
  tuner,     \* the settings of the hardware
  block,     \* history: the last block, with what it was read at, or NoIq
  trimmed,   \* history: the correction was "never" told to this tuner, is "set", or "failed"
  made       \* history: the changes, the faults and the sessions so far

tuningVars == <<wanted, receiving, at, pass, cache, memo, tuner, block, trimmed, made>>

Closed == [open |-> FALSE, rate |-> 0, hz |-> 0, gain |-> "none", ppm |-> 0]
NoIq   == [pass |-> "none"]

\* Mutant: the caches outlive the session.
MutantNewCache(ppm) == cache

\* The caches of a new session; the correction's is one off the file's.
NewCache(ppm) == [rate |-> 0, hz |-> 0, gain |-> "none", ppm |-> ppm - 1]

TuningInit ==
  /\ wanted \in Settings /\ pass = wanted
  /\ receiving = FALSE /\ at = "off"
  /\ cache = [rate |-> 0, hz |-> 0, gain |-> "none", ppm |-> 0]
  /\ memo = [rate |-> 0, hz |-> 0] /\ tuner = Closed
  /\ block = NoIq /\ trimmed = "never"
  /\ made = [changes |-> 0, faults |-> 0, sessions |-> 0]

-----------------------------------------------------------------------------
(* What a pass asks for *)

\* effective_sample_rate_hz
RateOf(s) ==
  IF s.mod = "adsb" THEN AdsbRate
  ELSE IF s.range \/ s.mod = "data" \/ s.rate < MaxRate THEN s.rate
  ELSE MaxRate

\* hardware_tuned_frequency_hz; lo is 0 when the offset is not enabled.
HertzOf(s) ==
  IF s.hz + s.lo < 0 THEN 0
  ELSE IF s.hz + s.lo > MaxHz THEN MaxHz
  ELSE s.hz + s.lo

\* desired_gain_tenth_db: 0 for broadcasts, else the tuner's own choice.
GainOf(s) == IF s.mod = "wfm" THEN "manual" ELSE "auto"

-----------------------------------------------------------------------------
(* Clients *)

ChangeSettings(s) ==
  /\ made.changes < ChangeBound /\ s # wanted
  /\ wanted' = s /\ made' = [made EXCEPT !.changes = @ + 1]
  /\ UNCHANGED <<receiving, at, pass, cache, memo, tuner, block, trimmed>>

\* Start, of which the ingest thread sees a new loop with caches of its own.
StartIngest ==
  /\ at = "off" /\ made.sessions < IngestBound
  /\ receiving' = TRUE /\ at' = "pass" /\ trimmed' = "never"
  /\ \E ppm \in FilePpms : cache' = NewCache(ppm)
  /\ made' = [made EXCEPT !.sessions = @ + 1]
  /\ UNCHANGED <<wanted, pass, memo, tuner, block>>

StopIngest ==
  /\ receiving /\ receiving' = FALSE
  /\ UNCHANGED <<wanted, at, pass, cache, memo, tuner, block, trimmed, made>>

-----------------------------------------------------------------------------
(* The loop *)

Idle == UNCHANGED <<wanted, receiving, pass>>

\* A call that fails ends the pass; nothing is cached.
Refused ==
  /\ made.faults < FaultBound /\ made' = [made EXCEPT !.faults = @ + 1]
  /\ at' = "pass" /\ UNCHANGED <<cache, memo, trimmed>>

\* while (running_): the copy under the lock; the device is opened once.
BeginPass ==
  /\ at = "pass" /\ receiving
  /\ pass' = wanted /\ at' = IF tuner.open THEN "rate" ELSE "open"
  /\ UNCHANGED <<wanted, receiving, cache, memo, tuner, block, trimmed, made>>

\* The loop ends, and with it what the tuner was told.
CloseDevice ==
  /\ at = "pass" /\ ~receiving
  /\ at' = "off" /\ tuner' = Closed
  /\ Idle /\ UNCHANGED <<cache, memo, block, trimmed, made>>

OpenDevice ==
  /\ at = "open" /\ Idle /\ UNCHANGED block
  /\ \/ /\ at' = "rate" /\ tuner' = [Closed EXCEPT !.open = TRUE, !.gain = "auto"]
        /\ UNCHANGED <<cache, memo, trimmed, made>>
     \/ Refused /\ UNCHANGED tuner

SetRate ==
  LET rate == RateOf(pass)
  IN  /\ at = "rate" /\ Idle /\ UNCHANGED block
      /\ \/ /\ cache.rate = rate
            /\ at' = "ppm" /\ UNCHANGED <<cache, memo, tuner, trimmed, made>>
         \/ /\ cache.rate # rate
            /\ at' = "ppm" /\ UNCHANGED <<trimmed, made>>
            /\ tuner' = [tuner EXCEPT !.rate = rate]
            /\ memo' = [memo EXCEPT !.rate = rate]
            /\ cache' = [cache EXCEPT !.rate = rate]
         \/ cache.rate # rate /\ Refused /\ UNCHANGED tuner

\* The one call whose failure is cached like a success, and the pass goes on.
SetPpm ==
  /\ at = "ppm" /\ at' = "gain" /\ Idle /\ UNCHANGED <<memo, block>>
  /\ cache' = [cache EXCEPT !.ppm = pass.ppm]
  /\ \/ /\ cache.ppm = pass.ppm
        /\ UNCHANGED <<tuner, trimmed, made>>
     \/ /\ cache.ppm # pass.ppm
        /\ tuner' = [tuner EXCEPT !.ppm = pass.ppm]
        /\ trimmed' = "set" /\ UNCHANGED made
     \/ /\ cache.ppm # pass.ppm /\ made.faults < FaultBound
        /\ made' = [made EXCEPT !.faults = @ + 1]
        /\ trimmed' = "failed" /\ UNCHANGED tuner

\* A manual gain is two calls: after the first the tuner no longer chooses,
\* and if the second fails its gain is neither: "half".
SetGain ==
  LET gain == GainOf(pass)
  IN  /\ at = "gain" /\ Idle /\ UNCHANGED block
      /\ \/ /\ cache.gain = gain
            /\ at' = "hertz" /\ UNCHANGED <<cache, memo, tuner, trimmed, made>>
         \/ /\ cache.gain # gain
            /\ at' = "hertz" /\ UNCHANGED <<memo, trimmed, made>>
            /\ tuner' = [tuner EXCEPT !.gain = gain]
            /\ cache' = [cache EXCEPT !.gain = gain]
         \/ /\ cache.gain # gain /\ Refused
            /\ \/ UNCHANGED tuner
               \/ gain = "manual" /\ tuner' = [tuner EXCEPT !.gain = "half"]

\* A frequency of 0 is not set.
SetHertz ==
  LET hz == HertzOf(pass)
  IN  /\ at = "hertz" /\ Idle /\ UNCHANGED block
      /\ \/ /\ hz \in {0, cache.hz}
            /\ at' = "read" /\ UNCHANGED <<cache, memo, tuner, trimmed, made>>
         \/ /\ hz \notin {0, cache.hz}
            /\ at' = "read" /\ UNCHANGED <<trimmed, made>>
            /\ tuner' = [tuner EXCEPT !.hz = hz]
            /\ memo' = [memo EXCEPT !.hz = hz]
            /\ cache' = [cache EXCEPT !.hz = hz]
         \/ hz \notin {0, cache.hz} /\ Refused /\ UNCHANGED tuner

\* ReadIq stamps the block with what the device object remembers, the loop
\* adds what its copy asks for; the next pass begins.
ReadBlock ==
  /\ at = "read" /\ Idle /\ UNCHANGED tuner
  /\ \/ /\ at' = "pass" /\ UNCHANGED <<cache, memo, trimmed, made>>
        /\ block' = [pass |-> pass, stamp |-> memo, tuner |-> tuner,
                     trimmed |-> trimmed]
     \/ Refused /\ UNCHANGED block

TuningNext ==
  \/ \E s \in Settings : ChangeSettings(s)
  \/ StartIngest \/ StopIngest
  \/ BeginPass \/ CloseDevice \/ OpenDevice \/ SetRate \/ SetPpm \/ SetGain
  \/ SetHertz \/ ReadBlock

TuningSpec == TuningInit /\ [][TuningNext]_tuningVars

-----------------------------------------------------------------------------
(* Safety *)

TuningTypeOK ==
  /\ {wanted, pass} \subseteq Settings
  /\ receiving \in BOOLEAN
  /\ at \in {"off", "pass", "open", "rate", "ppm", "gain", "hertz", "read"}
  /\ cache \in [rate : Nat, hz : Nat, gain : {"none", "auto", "manual"}, ppm : Int]
  /\ memo \in [rate : Nat, hz : Nat]
  /\ tuner \in [open : BOOLEAN, rate : Nat, hz : Nat,
                gain : {"none", "auto", "manual", "half"}, ppm : Int]
  /\ trimmed \in {"never", "set", "failed"}

\* A block is what it is labelled: whatever failed, was changed, or was
\* closed and opened before it, it was read at the rate and the frequency
\* of the settings that go with it, which are also its stamp
\* (receiver_worker.cpp 840-912).  The gain is the wanted one unless a
\* manual gain was given up half-way, and the correction the wanted one
\* unless the call for it failed or was never made.
BlockAsTuned ==
  block # NoIq =>
    LET s == block.pass  t == block.tuner
    IN  /\ t.open
        /\ t.rate = RateOf(s) /\ block.stamp.rate = RateOf(s)
        /\ HertzOf(s) # 0 => t.hz = HertzOf(s) /\ block.stamp.hz = HertzOf(s)
        /\ t.gain = GainOf(s) \/ (t.gain = "half" /\ GainOf(s) = "auto")
        /\ block.trimmed = "set" => t.ppm = s.ppm
=============================================================================
