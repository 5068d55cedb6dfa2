---------------------------- MODULE NoiseReduction ----------------------------
(***************************************************************************)
(* The noise reduction of voice, in ProcessLoop of                         *)
(* backend/src/receiver_worker.cpp.  rnnoise works on frames of 480        *)
(* samples; what is left of a block waits in rnnoise_pending for the next  *)
(* one, and a block is given back as long as it came: the denoised samples *)
(* take its first places, what there are too many of is dropped, and what  *)
(* there are too few of leaves the end of the block as it was.             *)
(*                                                                         *)
(* A sample is the channel and the rate its block came with and its number *)
(* among the samples given to the noise reduction.  A frame is FrameSize   *)
(* samples at every rate: the resampling to 48 kHz and back is left out.   *)
(***************************************************************************)
EXTENDS Integers, Sequences

CONSTANTS VoiceRates,    \* AudioSampleRateForModulation of voice; data has 0
          BlockSizes,    \* samples of a demodulated block, 0 if there are none
          FrameSize,     \* kRnnoiseFrameSize
          ListLength,    \* channels of the scan list
          VoiceBound, ToggleBound

ASSUME DenoiseAssumption ==
  /\ VoiceRates \subseteq Nat \ {0} /\ BlockSizes \subseteq Nat
  /\ {FrameSize, ListLength} \subseteq Nat \ {0}
  /\ {VoiceBound, ToggleBound} \subseteq Nat

VARIABLES
  enabled,     \* mode_config_.rnnoise_enabled
  lastIdx,     \* last_processed_channel_idx, or -1
  filterRate,  \* audio_filter_sr_hz, which rnnoise_native_sr and rnnoise_st follow
  pending,     \* rnnoise_pending
  given,       \* history: samples given to the noise reduction
  sound,       \* history: the last block: its channel, rate, samples, how many of
               \* them are denoised, and what became of them; or NoSound
  steps        \* history: the blocks and the changes of enabled so far

denoiseVars == <<enabled, lastIdx, filterRate, pending, given, sound, steps>>

NoSound == [idx |-> -1, rate |-> 0, came |-> <<>>, denoised |-> 0, went |-> <<>>]

DenoiseInit ==
  /\ enabled \in BOOLEAN
  /\ lastIdx = -1 /\ filterRate = 0 /\ pending = <<>>
  /\ given = 0 /\ sound = NoSound
  /\ steps = [blocks |-> 0, toggles |-> 0]

-----------------------------------------------------------------------------

\* SetModeConfig
Toggle ==
  /\ steps.toggles < ToggleBound
  /\ enabled' = ~enabled /\ steps' = [steps EXCEPT !.toggles = @ + 1]
  /\ UNCHANGED <<lastIdx, filterRate, pending, given, sound>>

\* Mutant: what waits for a frame is kept.
MutantRebuilt(queue) == queue

\* rebuild_rnnoise
Rebuilt(queue) == <<>>

\* A block from another channel: everything of the old one goes.
Switched(idx) == lastIdx >= 0 /\ idx # lastIdx

\* What waits when the samples of a block are there: rebuilt on a switch,
\* and on a rate that is not the filters'.
Waiting(idx, rate) ==
  LET queue == IF Switched(idx) THEN Rebuilt(pending) ELSE pending
      known == IF Switched(idx) THEN 0 ELSE filterRate
  IN  IF rate # known THEN Rebuilt(queue) ELSE queue

\* The block, numbered from `given`.
Demodulated(idx, rate, n) ==
  [i \in 1 .. n |-> [idx |-> idx, rate |-> rate, no |-> given + i]]

\* How many of `n` samples whole frames are.
WholeFrames(n) == n - (n % FrameSize)

\* apply_rnnoise, on: the frames of what waited and came over the block.
Denoised(queue, block) ==
  LET ready == WholeFrames(Len(queue))
      places == IF ready < Len(block) THEN ready ELSE Len(block)
  IN  [places |-> places, went |-> SubSeq(queue, 1, places) \o SubSeq(block, places + 1, Len(block)),
       rest |-> SubSeq(queue, ready + 1, Len(queue))]

Heard(idx, rate, block, places, went) ==
  [idx |-> idx, rate |-> rate, came |-> block, denoised |-> places, went |-> went]

\* A block of voice that was demodulated to n samples; `enabled` is read as
\* it stands then.
Voice(idx, rate, n) ==
  LET block == Demodulated(idx, rate, n)
      queue == Waiting(idx, rate)
      done == Denoised(queue \o block, block)
  IN  /\ steps.blocks < VoiceBound /\ steps' = [steps EXCEPT !.blocks = @ + 1]
      /\ lastIdx' = idx /\ filterRate' = rate
      /\ IF enabled /\ n > 0
         THEN /\ given' = given + n /\ pending' = done.rest
              /\ sound' = Heard(idx, rate, block, done.places, done.went)
         ELSE /\ given' = given /\ pending' = queue
              /\ sound' = Heard(idx, rate, block, 0, block)
      /\ UNCHANGED enabled

\* A block of data, or one in scan range mode: no sound, but for the switch.
Unvoiced(idx) ==
  /\ steps.blocks < VoiceBound /\ steps' = [steps EXCEPT !.blocks = @ + 1]
  /\ lastIdx' = idx
  /\ pending' = IF Switched(idx) THEN Rebuilt(pending) ELSE pending
  /\ filterRate' = IF Switched(idx) THEN 0 ELSE filterRate
  /\ UNCHANGED <<enabled, given, sound>>

DenoiseNext ==
  \/ Toggle
  \/ \E idx \in 0 .. ListLength - 1 :
       \/ Unvoiced(idx)
       \/ \E rate \in VoiceRates, n \in BlockSizes : Voice(idx, rate, n)

DenoiseSpec == DenoiseInit /\ [][DenoiseNext]_denoiseVars

-----------------------------------------------------------------------------
(* Safety *)

\* Whatever was switched between two blocks, a block that was denoised is
\* sound of its own channel and rate only, as long as it came; the samples
\* in its denoised places are in the order they were given and less than a
\* frame behind their place, and less than a frame at its end is left as it
\* was (receiver_worker.cpp 1143-1204, 1267-1290, 1621-1625).
BlendSound ==
  LET came == sound.came  went == sound.went  n == sound.denoised
  IN  /\ Len(went) = Len(came)
      /\ \A i \in 1 .. Len(went) : went[i].idx = sound.idx /\ went[i].rate = sound.rate
      /\ \A i \in 1 .. n : came[i].no - went[i].no \in 0 .. FrameSize - 1
      /\ \A i, j \in 1 .. n : i < j => went[i].no < went[j].no
      /\ n > 0 => Len(came) - n < FrameSize
=============================================================================
