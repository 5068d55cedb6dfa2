------------------------------- MODULE MCUnits -------------------------------
(* Components that share no state with another: a behaviour follows one,   *)
(* whichever.  The ring buffer of the backend has three slots; the panel   *)
(* two lists of at most three channels and two loops of a calibration; the *)
(* audio of the client a queue of three units for a sink of two; its       *)
(* streams an event bus of two messages; the weather three hours; the      *)
(* event log two lines to a file, two old files and two kills; the verdict *)
(* on the signal five windows in two sessions, with a good block and one   *)
(* that is bad in every way; the tuner two changes of the settings, two    *)
(* faults and two sessions; the noise reduction frames of three samples    *)
(* and four blocks of up to five.                                          *)
EXTENDS AudioRingBuffer, ScanPanel, AudioPlayout, ClientStreams,
        WeatherUpdates, EventLog, SignalHealth, DeviceTuning, NoiseReduction

CONSTANTS low, high, a, b, blank

MCSamples   == {low, high}
MCChannels  == {a, b}
MCFiles     == {<<b>>}
MCScan      == <<blank, blank>>
MCRadar     == <<a, b>>
MCRates     == {8, 48}
MCStart     == {1, 2}
MCStreams   == {"messages", "audio"}
MCOptional  == {"audio"}
MCBlocks    ==
  {[level |-> 1, snr |-> 1, clipped |-> FALSE, rate_ok |-> TRUE],
   [level |-> 3, snr |-> 0, clipped |-> TRUE, rate_ok |-> FALSE]}
Wide        == [mod |-> "wfm", range |-> FALSE, rate |-> 3, hz |-> 1, lo |-> 0, ppm |-> 0]
MCSettings  ==
  {Wide, [Wide EXCEPT !.mod = "nfm", !.rate = 1, !.hz = 2, !.lo = -1, !.ppm = 1],
   [Wide EXCEPT !.mod = "adsb", !.hz = 3, !.lo = 1], [Wide EXCEPT !.mod = "data", !.hz = 0],
   [Wide EXCEPT !.range = TRUE, !.hz = 2, !.lo = -3]}
MCFilePpms  == {0, 2}
MCVoice     == {32, 48}
MCSizes     == {0, 2, 5}

VARIABLE focus

clientVars == <<listVars, playVars, streamVars, weatherVars>>
serverVars == <<logVars, healthVars, tuningVars, denoiseVars>>
unitVars   == <<focus, vars, clientVars, serverVars>>

\* What is not in focus starts in one state, and its server never comes.
UnitsInit ==
  /\ focus \in {"ring", "panel", "audio", "streams", "weather", "log", "health",
               "tuner", "denoise"}
  /\ Init /\ PanelInit /\ PlayInit /\ StreamInit
  /\ WeatherInit /\ LogInit /\ HealthInit /\ TuningInit /\ DenoiseInit
  /\ focus # "streams" => ~up /\ lacks = {}
  /\ focus # "audio" => device = 8
  /\ wanted = Wide
  /\ focus # "denoise" => enabled

RingStep(A)   == focus = "ring" /\ A /\ UNCHANGED <<focus, clientVars, serverVars>>
PanelStep(A)  == focus = "panel" /\ A /\ UNCHANGED <<focus, vars, serverVars, playVars, streamVars, weatherVars>>
AudioStep(A)  == focus = "audio" /\ A /\ UNCHANGED <<focus, vars, serverVars, listVars, streamVars, weatherVars>>
StreamStep(A) == focus = "streams" /\ A /\ UNCHANGED <<focus, vars, serverVars, listVars, playVars, weatherVars>>
WeatherStep(A) == focus = "weather" /\ A /\ UNCHANGED <<focus, vars, serverVars, listVars, playVars, streamVars>>
LogStep(A)    == focus = "log" /\ A /\ UNCHANGED <<focus, vars, clientVars, healthVars, tuningVars, denoiseVars>>
HealthStep(A) == focus = "health" /\ A /\ UNCHANGED <<focus, vars, clientVars, logVars, tuningVars, denoiseVars>>
TunerStep(A)  == focus = "tuner" /\ A /\ UNCHANGED <<focus, vars, clientVars, logVars, healthVars, denoiseVars>>
DenoiseStep(A) == focus = "denoise" /\ A /\ UNCHANGED <<focus, vars, clientVars, logVars, healthVars, tuningVars>>

UnitsNext == \/ RingStep(Next)
             \/ PanelStep(PanelNext) \/ AudioStep(PlayNext)
             \/ StreamStep(StreamNext)
             \/ WeatherStep(WeatherNext)
             \/ LogStep(LogNext) \/ HealthStep(HealthNext)
             \/ TunerStep(TuningNext) \/ DenoiseStep(DenoiseNext)

\* The server scans and its events come; the audio timer and the sound device
\* go on; the loops of the streams run, and StopStreaming waits for nothing else.
UnitsSpec ==
  /\ UnitsInit /\ [][UnitsNext]_unitVars
  /\ WF_unitVars(PanelStep(Scan)) /\ WF_unitVars(PanelStep(StatusEvent))
  /\ WF_unitVars(AudioStep(DrainTimer)) /\ WF_unitVars(AudioStep(Play))
  /\ \A s \in Streams : WF_unitVars(StreamStep(Loop(s)))
  /\ WF_unitVars(StreamStep(JoinThreads))
=============================================================================
