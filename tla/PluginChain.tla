----------------------------- MODULE PluginChain -----------------------------
(***************************************************************************)
(* The chain of plugins that decodes the blocks of a receiver: demodulator,*)
(* decoder and postprocessors of the PluginHost (backend/src/              *)
(* plugin_host.cpp), selected call by call, each under the host's mutex,   *)
(* from two sides: PushPluginConfig, in the client's call that changes the *)
(* configuration, and ProcessLoop, which switches the chain to the         *)
(* modulation of the block (both in backend/src/receiver_worker.cpp).      *)
(* plugin_config_generation_ tells the second of the first.                *)
(*                                                                         *)
(* Client calls come one at a time: ReceiverManager holds its mutex.  A    *)
(* plugin is its name, a message its signal type and the plugins it went   *)
(* through.  Of the parameters only invert is kept, which both sides set.  *)
(* There is one receiver: several would share the host, and the calls of   *)
(* one would change the chain of another without a word to it.             *)
(***************************************************************************)
EXTENDS Integers, Sequences, FiniteSets

CONSTANTS Configs,     \* the configurations that clients send
          Modulations, \* of the blocks; old blocks may have any
          Switched,    \* the plugins that clients disable and enable
          ClientBound  \* bound on the number of client calls

ASSUME ChainAssumption == ClientBound \in Nat

VARIABLES
  mode,         \* mode_
  config,       \* mode_config_
  pending,      \* the host calls that are left of PushPluginConfig
  nfm_dsc,      \* nfm_dsc_audio_chain_enabled_
  generation,   \* plugin_config_generation_
  host,         \* the active plugin in each place, and the parameter
  enabled,      \* the plugins that are enabled
  process,      \* where ProcessLoop stands
  entry,        \* the modulation of the block it works on
  cur_gen,      \* what it read of the generation
  snapshot,     \* what it read of the configuration
  switch,       \* the host calls that are left of its switch
  last_mod,     \* last_demod_modulation
  last_gen,     \* last_plugin_config_gen
  delivered,    \* the messages of the last block given to the host
  calls,        \* the client calls so far
  fed,          \* history: how often this block was given to the host
  calm          \* history: no client call since the block was taken

clientVars  == <<mode, config, pending, nfm_dsc, generation, calls>>
processVars == <<process, entry, cur_gen, snapshot, switch, last_mod, last_gen, delivered, fed>>
vars == <<clientVars, processVars, host, enabled, calm>>

Keep == "unchanged"  \* no call is made

Demodulators == {"gmsk_demod", "ais_dual_demod", "iq_recorder", "vdes_asm_demod", "dsc_afsk_demod"}
Decoders     == {"nrzi_decoder", "dsc_decoder", "vdes_asm_decoder"}
Postprocs    == {"ais_decoder", "asm_decoder", "vdes_asm_postproc"}
Plugins      == Demodulators \union Decoders \union Postprocs

NoConfig == [fixed |-> "nfm", list |-> <<>>, decoder |-> "", postproc |-> "", invert |-> "0"]

-----------------------------------------------------------------------------
(* Which chain *)

\* DemodNameForModulation; FM and AM have none.
DemodNameForModulation(m) ==
  CASE m = "gmsk" -> "gmsk_demod"
    [] m = "ais_dual" -> "ais_dual_demod"
    [] m = "vdes" -> "iq_recorder"
    [] OTHER -> ""

Sketch(c) == c.decoder = "vdes_asm_decoder" \/ c.postproc = "vdes_asm_postproc"

Handoff(c, m) == m # "ais_dual" /\ c.postproc = "ais_decoder"

\* The decoder and the postprocessors for modulation m; dual: AIS Dual, dsc:
\* DSC over audio.
Stages(c, m, dual, dsc) ==
  CASE dual -> [decoder |-> "nrzi_decoder", postproc |-> "ais_decoder", asm |-> "asm_decoder", invert |-> "1"]
    [] ~dual /\ dsc -> [decoder |-> "dsc_decoder", postproc |-> "", asm |-> "", invert |-> Keep]
    [] ~dual /\ ~dsc /\ m = "vdes" -> [decoder |-> "", postproc |-> "", asm |-> "", invert |-> Keep]
    [] ~dual /\ ~dsc /\ m # "vdes" /\ Sketch(c) ->
         [decoder |-> "vdes_asm_decoder", postproc |-> "vdes_asm_postproc", asm |-> "", invert |-> "0"]
    [] OTHER -> [decoder |-> c.decoder, postproc |-> c.postproc,
                 asm |-> IF Handoff(c, m) THEN "asm_decoder" ELSE "", invert |-> c.invert]

\* effective_modulation: in a scan list that of the first channel.
Effective(md, c) == IF md = "list" /\ c.list # <<>> THEN c.list[1] ELSE c.fixed

HasAisDual(md, c) ==
  c.fixed = "ais_dual" \/ (md = "list" /\ \E i \in 1 .. Len(c.list) : c.list[i] = "ais_dual")

UseNfmDscAudio(m, c) == m = "nfm" /\ ~Sketch(c) /\ c.decoder = "dsc_decoder"

StageCalls(s) ==
  << <<"decoder", s.decoder>>, <<"invert", s.invert>>, <<"postproc", s.postproc>>, <<"asm", s.asm>> >>

\* The stages as PushPluginConfig sets them: it sets the ASM postprocessor
\* after all other branches but two.
PushStages(md, c) ==
  LET m == Effective(md, c)
      s == Stages(c, m, HasAisDual(md, c), UseNfmDscAudio(m, c))
  IN  IF HasAisDual(md, c) \/ m = "vdes" THEN s
      ELSE [s EXCEPT !.asm = IF Handoff(c, m) THEN "asm_decoder" ELSE ""]

PushDemod(md, c) ==
  LET m == Effective(md, c)
  IN  IF m \notin {"vdes", "ais_dual"} /\ Sketch(c) THEN "vdes_asm_demod"
      ELSE IF UseNfmDscAudio(m, c) THEN "dsc_afsk_demod" ELSE DemodNameForModulation(m)

\* Mutant: the generation is counted before the plugins are set.
MutantPushCalls(md, c) ==
  << <<"generation", "">>, <<"invert", c.invert>> >> \o StageCalls(PushStages(md, c))
    \o << <<"demod", PushDemod(md, c)>>, <<"nfm_dsc", "">> >>

\* PushPluginConfig, call by call.
PushCalls(md, c) ==
  << <<"invert", c.invert>> >> \o StageCalls(PushStages(md, c))
    \o << <<"demod", PushDemod(md, c)>>, <<"nfm_dsc", "">>, <<"generation", "">> >>

-----------------------------------------------------------------------------
(* The host *)

Active(p) == p \in enabled

\* The signal types that start a decoder (EmitFromPlugin, stage 1).
RawBits == {"FSK_DATA", "GMSK_DATA", "GMSK_ASM_DATA", "VDES_ASM_DATA", "VDES_BURST_DATA"}

\* AIS on two of the four frequencies, ASM on the others.
DualTypes == {"GMSK_DATA", "GMSK_ASM_DATA"}

NrziType(sig) == IF sig = "GMSK_ASM_DATA" THEN "NRZI_ASM_DATA" ELSE "NRZI_DATA"

\* A decoded message; a message 8 is also passed on as it is.
AisTypes == {"AIS", "AIS_MSG8_RAW"}

\* What plugin p makes of a signal.
Emits(p, sig) ==
  CASE p = "gmsk_demod" -> {"GMSK_DATA"}
    [] p = "ais_dual_demod" -> DualTypes
    [] p = "vdes_asm_demod" -> {"VDES_ASM_DATA"}
    [] p = "dsc_afsk_demod" -> {"FSK_DATA"}
    [] p = "nrzi_decoder" -> {NrziType(sig)}
    [] p = "dsc_decoder" -> {"DSC"}
    [] p = "vdes_asm_decoder" -> {"VDES_ASM_L2"}
    [] p = "vdes_asm_postproc" -> {"VDES_ASM_DIAG"}
    [] p = "ais_decoder" -> AisTypes
    [] p = "asm_decoder" -> {"AIS_ASM"}
    [] OTHER -> {}   \* the recorder

Through(m, p) == {[sig |-> s, path |-> Append(m.path, p), raw |-> m.raw] : s \in Emits(p, m.sig)}

\* The signal types that go to the ASM postprocessor.
AsmMarked == {"NRZI_ASM_DATA", "AIS_MSG8_RAW"}

\* Stage 2 to 3: the postprocessor, and what it emits is delivered.
Postprocessed(m) ==
  LET p == IF m.sig \in AsmMarked /\ Active(host.asm) THEN host.asm ELSE host.postproc
  IN  IF Active(p) THEN Through(m, p) ELSE {m}

\* Stage 1 to 2: the decoder, and with no decoder the postprocessor at once;
\* what is not raw bits passes an active decoder by.
Decoded(m) ==
  IF ~Active(host.decoder) THEN Postprocessed(m)
  ELSE IF m.sig \in RawBits THEN UNION {Postprocessed(d) : d \in Through(m, host.decoder)}
  ELSE {m}

\* ProcessIq: the messages of one block.
Messages ==
  IF Active(host.demod)
  THEN UNION {Decoded([sig |-> s, path |-> <<host.demod>>, raw |-> s]) : s \in Emits(host.demod, "IQ")}
  ELSE {}

\* One call of SetActive... or SetParam.
HostAfter(call) ==
  IF call[2] = Keep \/ call[1] \notin DOMAIN host THEN host ELSE [host EXCEPT ![call[1]] = call[2]]

\* DisablePlugin; EnablePlugin.
Disable(p) ==
  /\ p \in enabled
  /\ enabled' = enabled \ {p}
  /\ calls < ClientBound /\ calls' = calls + 1
  /\ calm' = FALSE
  /\ UNCHANGED <<mode, config, pending, nfm_dsc, generation, processVars, host>>

Enable(p) ==
  /\ p \notin enabled
  /\ enabled' = enabled \union {p}
  /\ calm' = FALSE
  /\ UNCHANGED <<clientVars, processVars, host>>

-----------------------------------------------------------------------------
(* The client's calls *)

\* Start has pushed the configuration of the last session, here the default.
Init ==
  /\ mode \in {"fixed", "range", "list"}
  /\ config = NoConfig
  /\ pending = <<>>
  /\ nfm_dsc = FALSE
  /\ generation = 1
  /\ host = [demod |-> "", decoder |-> "", postproc |-> "", asm |-> "", invert |-> "0"]
  /\ enabled = Plugins
  /\ process = "wait" /\ entry = "none"
  /\ cur_gen = -1 /\ snapshot = NoConfig /\ switch = <<>>
  /\ last_mod = "none" /\ last_gen = -1
  /\ delivered = {} /\ calls = 0 /\ fed = 1 /\ calm = FALSE

Call == pending = <<>> /\ calls < ClientBound /\ calls' = calls + 1 /\ calm' = FALSE

\* SetMode: the plugins stay as they are.
SetMode(md) ==
  /\ Call
  /\ mode' = md
  /\ UNCHANGED <<config, pending, nfm_dsc, generation, processVars, host, enabled>>

SetModeConfig(c) ==
  /\ Call
  /\ config' = c
  /\ pending' = PushCalls(mode, c)
  /\ UNCHANGED <<mode, nfm_dsc, generation, processVars, host, enabled>>

\* The next call of PushPluginConfig.
Push ==
  /\ pending # <<>>
  /\ pending' = Tail(pending)
  /\ host' = HostAfter(Head(pending))
  /\ nfm_dsc' = IF Head(pending)[1] = "nfm_dsc" THEN UseNfmDscAudio(Effective(mode, config), config) ELSE nfm_dsc
  /\ generation' = IF Head(pending)[1] = "generation" THEN generation + 1 ELSE generation
  /\ calm' = FALSE
  /\ UNCHANGED <<mode, config, calls, processVars, enabled>>

-----------------------------------------------------------------------------
(* ProcessLoop *)

ProcessAt(from, to) ==
  process = from /\ process' = to /\ UNCHANGED <<clientVars, enabled>>

\* Mutant: only a change of modulation switches.
MutantStale(m) == m # last_mod

Stale(m) == m # last_mod \/ generation # last_gen

\* The generation, as it is read with the block.
ReadGen == generation

\* A block; the chain is switched if it is not the one set up last.
Take(m) ==
  /\ ProcessAt("wait", IF Stale(m) THEN "snap" ELSE "defer")
  /\ entry' = m
  /\ cur_gen' = ReadGen
  /\ delivered' = {}
  /\ fed' = 0
  /\ calm' = (pending = <<>>)
  /\ UNCHANGED <<snapshot, switch, last_mod, last_gen, host>>

Snap ==
  /\ ProcessAt("snap", "branch")
  /\ snapshot' = config
  /\ UNCHANGED <<entry, cur_gen, switch, last_mod, last_gen, delivered, fed, host, calm>>

Dsc == nfm_dsc /\ entry = "nfm"

Branch ==
  /\ ProcessAt("branch", "switch")
  /\ switch' = StageCalls(Stages(snapshot, entry, entry = "ais_dual", Dsc))
  /\ UNCHANGED <<entry, cur_gen, snapshot, last_mod, last_gen, delivered, fed, host, calm>>

SwitchCall ==
  /\ switch # <<>>
  /\ ProcessAt("switch", "switch")
  /\ host' = HostAfter(Head(switch))
  /\ switch' = Tail(switch)
  /\ UNCHANGED <<entry, cur_gen, snapshot, last_mod, last_gen, delivered, fed, calm>>

\* The demodulator is set last, and the flag is read again for it.
SwitchDemod ==
  /\ switch = <<>>
  /\ ProcessAt("switch", "defer")
  /\ host' = [host EXCEPT !.demod = IF Dsc THEN "dsc_afsk_demod" ELSE DemodNameForModulation(entry)]
  /\ last_mod' = entry
  /\ last_gen' = cur_gen
  /\ snapshot' = NoConfig
  /\ UNCHANGED <<entry, cur_gen, switch, delivered, fed, calm>>

\* Mutant: every block is deferred while the audio chain is on.
MutantDeferred == nfm_dsc

\* defer_plugin_to_nfm_audio.
Deferred == Dsc

\* The block goes to the host, or waits for its audio.
Defer ==
  /\ ProcessAt("defer", IF Deferred THEN "audio" ELSE "iq")
  /\ UNCHANGED <<entry, cur_gen, snapshot, switch, last_mod, last_gen, delivered, fed, host, calm>>

Feed == delivered' = Messages /\ fed' = fed + 1

FeedIq ==
  /\ ProcessAt("iq", "audio")
  /\ Feed
  /\ UNCHANGED <<entry, cur_gen, snapshot, switch, last_mod, last_gen, host, calm>>

\* The audio of an NFM block goes to the host if the audio chain is on now; in
\* range mode there is no audio.
Audio ==
  /\ ProcessAt("audio", "wait")
  /\ IF Dsc /\ mode # "range" THEN Feed ELSE UNCHANGED <<delivered, fed>>
  /\ entry' = "none" /\ cur_gen' = -1
  /\ UNCHANGED <<snapshot, switch, last_mod, last_gen, host, calm>>

Process ==
  \/ \E m \in Modulations : Take(m)
  \/ Snap \/ Branch \/ SwitchCall \/ SwitchDemod \/ Defer \/ FeedIq \/ Audio

-----------------------------------------------------------------------------
Next ==
  \/ \E md \in {"fixed", "range", "list"} : SetMode(md)
  \/ \E c \in Configs : SetModeConfig(c)
  \/ \E p \in Switched : Disable(p) \/ Enable(p)
  \/ Push
  \/ Process

Spec == Init /\ [][Next]_vars

\* The client's thread gets on with its call, the process thread with its
\* block, whenever there is one.
FairSpec == Spec /\ WF_vars(Push) /\ WF_vars(Process)

-----------------------------------------------------------------------------
Chain(c, m, dsc) ==
  LET s == Stages(c, m, m = "ais_dual", dsc)
  IN  [demod |-> IF dsc THEN "dsc_afsk_demod" ELSE DemodNameForModulation(m),
       decoder |-> s.decoder, postproc |-> s.postproc, asm |-> s.asm, invert |-> s.invert]

\* The host is set up for the block in hand; the parameter counts when the
\* chain has a use for it.
ChainIsOurs ==
  LET want == Chain(config, entry, Dsc)
  IN  \A place \in DOMAIN host : host[place] = want[place] \/ want[place] = Keep

TypeOK ==
  /\ mode \in {"fixed", "range", "list"} /\ config \in Configs \union {NoConfig}
  /\ \A i \in 1 .. Len(pending) : pending[i][1] \in DOMAIN host \union {"nfm_dsc", "generation"}
  /\ nfm_dsc \in BOOLEAN /\ calm \in BOOLEAN
  /\ generation \in 1 .. ClientBound + 1
  /\ host.demod \in Demodulators \union {""} /\ host.decoder \in Decoders \union {""}
  /\ host.postproc \in Postprocs \union {""} /\ host.asm \in {"", "asm_decoder"}
  /\ host.invert \in {"0", "1"} /\ enabled \subseteq Plugins
  /\ process \in {"wait", "snap", "branch", "switch", "defer", "iq", "audio"}
  /\ entry \in Modulations \union {"none"} /\ last_mod \in Modulations \union {"none"}
  /\ cur_gen \in -1 .. generation /\ last_gen \in -1 .. generation
  /\ fed \in 0 .. 2 /\ calls \in 0 .. ClientBound

\* A block is decoded by the chain of its modulation and of the configuration
\* in force, unless a client call is under way or has ended since the block
\* was taken -- for all the calls that came while the chain was being switched
\* (what plugin_config_generation_ is for, receiver_worker.cpp 1368-1371).
ChainOfBlock ==
  [][fed' > fed /\ pending = <<>> /\ generation = last_gen => ChainIsOurs]_vars

\* Every block is handed to the host once, by its IQ samples or by its audio,
\* though the flag that says which is read twice; unless a client call came in
\* between, or the mode is range.
HandedOnce == process = "wait" /\ calm /\ mode # "range" => fed = 1

\* Once the configuration stays, every block is decoded by its chain.
ChainSettles ==
  \A c \in Configs :
    <>[](config = c) => <>[](process \in {"defer", "iq"} => ChainIsOurs)

\* "Can operate standalone ... or receive pre-framed bytes via the
\* AIS_MSG8_RAW handoff from ais_decoder" (plugins/asm_decoder.c 22-23): no such
\* message is delivered raw while the handoff is configured.  It does not
\* hold: ais_decoder is a postprocessor, and what a postprocessor emits is
\* delivered without another stage.
Msg8HandedOver ==
  [][fed' > fed /\ Active(host.asm) => \A m \in delivered' : m.sig # "AIS_MSG8_RAW"]_vars
=============================================================================
