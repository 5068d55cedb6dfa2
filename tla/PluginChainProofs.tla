------------------------- MODULE PluginChainProofs --------------------------
(***************************************************************************)
(* Proofs about the plugins of the backend: the chain that is selected, for *)
(* all configurations and modulations; the recordings, for any number of   *)
(* receivers and blocks; what is told of an AIS frame, for all types and    *)
(* lengths; the search for a sync word, for all words, blocks and settings; *)
(* and the frames of aircraft, for all lengths of blocks and frames.       *)
(***************************************************************************)
EXTENDS PluginChain, IqRecording, AisMessages, SyncSearch, AdsbFrames, SequenceTheorems,
        FiniteSetTheorems, WellFoundedInduction, TLAPS

-----------------------------------------------------------------------------
(* The chain                                                               *)
(*                                                                         *)
(* HandedOnce needs to know where the process thread decided what.  The    *)
(* argument for ChainOfBlock is the one the generation was made for: a     *)
(* client's call that ends counts it, so that as long as no call is under  *)
(* way and the generation is the one read, the configuration, the flag and *)
(* what was set in the host are as they were (SwitchOK, ChainOK).          *)

HandedInv ==
  /\ fed \in Nat
  /\ calm => pending = <<>>
  /\ process \in {"snap", "branch", "switch", "defer", "iq"} => fed = 0
  /\ process = "iq" /\ calm => ~Dsc
  /\ process = "audio" /\ calm => fed = IF Dsc THEN 0 ELSE 1
  /\ HandedOnce

LEMMA HandedInit == Init => HandedInv
<1> SUFFICES ASSUME Init PROVE HandedInv
  OBVIOUS
<1>1. fed \in Nat /\ fed = 1 /\ process = "wait"
  BY DEF Init
<1>2. ~calm
  BY DEF Init
<1> QED
  BY <1>1, <1>2 DEF HandedInv, HandedOnce

LEMMA HandedStep ==
  ASSUME HandedInv, [Next]_vars
  PROVE  HandedInv'
<1> USE DEF HandedInv, HandedOnce, Dsc
<1>1. ASSUME NEW md \in {"fixed", "range", "list"}, SetMode(md)
      PROVE  HandedInv'
  BY <1>1 DEF SetMode, Call, processVars
<1>2. ASSUME NEW c \in Configs, SetModeConfig(c)
      PROVE  HandedInv'
  BY <1>2 DEF SetModeConfig, Call, processVars
<1>3. ASSUME NEW p \in Switched, Disable(p) \/ Enable(p)
      PROVE  HandedInv'
  BY <1>3 DEF Disable, Enable, processVars, clientVars
<1>4. CASE Push
  BY <1>4 DEF Push, processVars
<1>5. CASE Process
  <2> USE DEF ProcessAt, clientVars
  <2>1. ASSUME NEW m \in Modulations, Take(m)
        PROVE  HandedInv'
    BY <2>1 DEF Take
  <2>2. CASE Snap \/ Branch \/ SwitchCall \/ SwitchDemod
    BY <2>2 DEF Snap, Branch, SwitchCall, SwitchDemod
  <2>3. CASE Defer
    BY <2>3 DEF Defer, Deferred
  <2>4. CASE FeedIq
    BY <2>4 DEF FeedIq, Feed
  <2>5. CASE Audio
    BY <2>5 DEF Audio, Feed
  <2> QED
    BY <1>5, <2>1, <2>2, <2>3, <2>4, <2>5 DEF Process
<1>6. CASE UNCHANGED vars
  BY <1>6 DEF vars, clientVars, processVars
<1> QED
  BY <1>1, <1>2, <1>3, <1>4, <1>5, <1>6 DEF Next

(* Every block is handed to the host once, by its samples or by its audio, *)
(* though the flag that says which is read twice (receiver_worker.cpp,     *)
(* defer_plugin_to_nfm_audio), unless a client call came in between or the *)
(* mode is range.                                                          *)
THEOREM Handed == Spec => []HandedOnce
<1>1. HandedInv => HandedOnce
  BY DEF HandedInv
<1> QED
  BY <1>1, HandedInit, HandedStep, PTL DEF Spec

-----------------------------------------------------------------------------
Places == {"demod", "decoder", "postproc", "asm", "invert"}

\* What the switch sets for the block, in the configuration in force.
Wanted == Stages(config, entry, entry = "ais_dual", Dsc)

Agrees(place, value) == host[place] = value \/ value = Keep

\* No client call is under way and none has ended since the block was taken.
Undisturbed == pending = <<>> /\ cur_gen = generation

NumbersOK ==
  /\ generation \in Nat /\ cur_gen \in Int /\ last_gen \in Int
  /\ cur_gen <= generation /\ last_gen <= generation
  /\ fed \in Nat
  /\ DOMAIN host = Places

\* The last host call of PushPluginConfig counts the generation.
PendingOK ==
  \E S : /\ pending \in Seq(S)
         /\ pending # <<>> => pending[Len(pending)][1] = "generation"

\* A switch that nobody disturbs: the stages it has set and those it has left.
SwitchOK ==
  /\ process \in {"branch", "switch"} /\ Undisturbed => snapshot = config
  /\ process = "switch" /\ Undisturbed =>
       LET d == <<"decoder", Wanted.decoder>>
           i == <<"invert", Wanted.invert>>
           p == <<"postproc", Wanted.postproc>>
           a == <<"asm", Wanted.asm>>
           set(n) == /\ n >= 1 => Agrees("decoder", Wanted.decoder)
                     /\ n >= 2 => Agrees("invert", Wanted.invert)
                     /\ n >= 3 => Agrees("postproc", Wanted.postproc)
                     /\ n >= 4 => Agrees("asm", Wanted.asm)
       IN  \/ switch = <<d, i, p, a>>
           \/ switch = <<i, p, a>> /\ set(1)
           \/ switch = <<p, a>> /\ set(2)
           \/ switch = <<a>> /\ set(3)
           \/ switch = <<>> /\ set(4)

\* With the generation of the last switch, the host is set up for its
\* modulation.
ChainOK ==
  /\ process \in {"defer", "iq", "audio"} => entry = last_mod
  /\ process # "switch" /\ pending = <<>> /\ last_gen = generation =>
       LET want == Chain(config, last_mod, nfm_dsc /\ last_mod = "nfm")
       IN  \A place \in Places : Agrees(place, want[place])

ChainInv == NumbersOK /\ PendingOK /\ SwitchOK /\ ChainOK

-----------------------------------------------------------------------------
LEMMA ChainInit == Init => ChainInv
<1> SUFFICES ASSUME Init PROVE ChainInv
  OBVIOUS
<1>1. NumbersOK
  <2>1. generation = 1 /\ cur_gen = -1 /\ last_gen = -1 /\ fed = 1
    BY DEF Init
  <2>2. DOMAIN host = Places
    BY DEF Init, Places
  <2> QED
    BY <2>1, <2>2 DEF NumbersOK
<1>2. PendingOK
  <2>1. pending = <<>> /\ pending \in Seq({})
    BY EmptySeq DEF Init
  <2> QED
    BY <2>1 DEF PendingOK
<1>3. SwitchOK /\ ChainOK
  <2>1. process = "wait" /\ generation = 1 /\ last_gen = -1
    BY DEF Init
  <2> QED
    BY <2>1 DEF SwitchOK, ChainOK
<1> QED
  BY <1>1, <1>2, <1>3 DEF ChainInv

(* A call of the host changes one place, and leaves the places as they are.*)
LEMMA OneCall ==
  ASSUME DOMAIN host = Places, NEW place \in Places, NEW value,
         host' = HostAfter(<<place, value>>)
  PROVE  /\ DOMAIN host' = Places
         /\ Agrees(place, value)'
         /\ \A q \in Places \ {place} : host'[q] = host[q]
BY DEF HostAfter, Agrees

LEMMA AnyCall ==
  ASSUME DOMAIN host = Places, NEW call, host' = HostAfter(call)
  PROVE  DOMAIN host' = Places
BY DEF HostAfter

LEMMA CallsEndWithGeneration ==
  ASSUME NEW md, NEW c
  PROVE  \E S : /\ PushCalls(md, c) \in Seq(S) /\ PushCalls(md, c) # <<>>
                /\ PushCalls(md, c)[Len(PushCalls(md, c))][1] = "generation"
<1> DEFINE s == PushStages(md, c)
           e1 == <<"invert", c.invert>>
           e2 == <<"decoder", s.decoder>>
           e3 == <<"invert", s.invert>>
           e4 == <<"postproc", s.postproc>>
           e5 == <<"asm", s.asm>>
           e6 == <<"demod", PushDemod(md, c)>>
           e7 == <<"nfm_dsc", "">>
           e8 == <<"generation", "">>
           S  == {e1, e2, e3, e4, e5, e6, e7, e8}
           q  == PushCalls(md, c)
<1>1. q = <<e1>> \o <<e2, e3, e4, e5>> \o <<e6, e7, e8>>
  BY DEF PushCalls, StageCalls
<1>2. e8[1] = "generation"
  OBVIOUS
<1> HIDE DEF e1, e2, e3, e4, e5, e6, e7, e8, s, q
<1>3. <<e1>> \in Seq(S) /\ <<e2, e3, e4, e5>> \in Seq(S) /\ <<e6, e7, e8>> \in Seq(S)
  OBVIOUS
<1>4. <<e1>> \o <<e2, e3, e4, e5>> \in Seq(S) /\ Len(<<e1>> \o <<e2, e3, e4, e5>>) = 5
  BY <1>3, ConcatProperties
<1>5. q \in Seq(S) /\ Len(q) = 8 /\ q[8] = <<e6, e7, e8>>[3]
  BY <1>1, <1>3, <1>4, ConcatProperties
<1>6. q # <<>> /\ q[Len(q)] = e8
  BY <1>5
<1> QED
  BY <1>2, <1>5, <1>6 DEF q

-----------------------------------------------------------------------------
(* The calls of clients.  A call under way disturbs, one that ends counts  *)
(* the generation.                                                         *)
LEMMA ChainUntouched ==
  ASSUME ChainInv, UNCHANGED <<config, pending, nfm_dsc, generation, processVars, host>>
  PROVE  ChainInv'
<1>1. NumbersOK'
  BY DEF ChainInv, NumbersOK, processVars
<1>2. PendingOK'
  BY DEF ChainInv, PendingOK, processVars
<1>3. SwitchOK'
  <2>1. SwitchOK
    BY DEF ChainInv
  <2>2. Wanted' = Wanted
    BY DEF Wanted, Dsc, processVars
  <2>3. \A place, x : Agrees(place, x)' = Agrees(place, x)
    BY DEF Agrees
  <2>4. UNCHANGED <<process, snapshot, config, switch, pending, cur_gen, generation>>
    BY DEF processVars
  <2> QED
    BY ONLY <2>1, <2>2, <2>3, <2>4 DEF SwitchOK, Undisturbed
<1>4. ChainOK'
  BY DEF ChainInv, ChainOK, Undisturbed, Wanted, Agrees, Dsc, processVars
<1> QED
  BY <1>1, <1>2, <1>3, <1>4 DEF ChainInv

LEMMA CallSteps ==
  ASSUME ChainInv,
         \/ \E md \in {"fixed", "range", "list"} : SetMode(md)
         \/ \E c \in Configs : SetModeConfig(c)
         \/ \E p \in Switched : Disable(p) \/ Enable(p)
  PROVE  ChainInv'
<1>1. ASSUME NEW md, SetMode(md)
      PROVE  ChainInv'
  <2>1. UNCHANGED <<config, pending, nfm_dsc, generation, processVars, host>>
    BY <1>1 DEF SetMode
  <2> QED
    BY <2>1, ChainUntouched
<1>2. ASSUME NEW p, Disable(p) \/ Enable(p)
      PROVE  ChainInv'
  <2>1. UNCHANGED <<config, pending, nfm_dsc, generation, processVars, host>>
    BY <1>2 DEF Disable, Enable, clientVars
  <2> QED
    BY <2>1, ChainUntouched
<1>3. ASSUME NEW c, SetModeConfig(c)
      PROVE  ChainInv'
  <2>1. pending' = PushCalls(mode, c) /\ UNCHANGED <<nfm_dsc, generation, processVars, host>>
    BY <1>3 DEF SetModeConfig
  <2>2. pending' # <<>> /\ PendingOK'
    BY <2>1, CallsEndWithGeneration DEF PendingOK
  <2>3. NumbersOK' /\ SwitchOK' /\ ChainOK'
    BY <2>1, <2>2 DEF ChainInv, NumbersOK, SwitchOK, ChainOK, Undisturbed, processVars
  <2> QED
    BY <2>2, <2>3 DEF ChainInv
<1> QED
  BY <1>1, <1>2, <1>3

LEMMA PushStep ==
  ASSUME ChainInv, Push
  PROVE  ChainInv'
<1>1. /\ pending # <<>> /\ pending' = Tail(pending) /\ host' = HostAfter(Head(pending))
      /\ generation' = IF Head(pending)[1] = "generation" THEN generation + 1 ELSE generation
      /\ UNCHANGED <<config, processVars>>
  BY DEF Push
<1>2. PICK S : /\ pending \in Seq(S) /\ pending[Len(pending)][1] = "generation"
  BY <1>1 DEF ChainInv, PendingOK
<1>3. pending' \in Seq(S) /\ Len(pending') = Len(pending) - 1 /\ Len(pending) \in Nat \ {0}
  BY <1>1, <1>2
<1>4. pending' = <<>> => generation' = generation + 1
  <2>1. pending' = <<>> => Len(pending) = 1
    BY <1>3
  <2>2. Len(pending) = 1 => Head(pending) = pending[Len(pending)]
    BY <1>2
  <2> QED
    BY <1>1, <1>2, <2>1, <2>2
<1>5. pending' # <<>> => pending'[Len(pending')] = pending[Len(pending)]
  BY <1>1, <1>2, <1>3
<1>6. PendingOK'
  BY <1>2, <1>3, <1>5 DEF PendingOK
<1>7. NumbersOK'
  <2>1. DOMAIN host' = Places
    BY <1>1, AnyCall DEF ChainInv, NumbersOK
  <2> QED
    BY <1>1, <2>1 DEF ChainInv, NumbersOK, processVars
<1>8. SwitchOK' /\ ChainOK'
  BY <1>1, <1>4 DEF ChainInv, NumbersOK, SwitchOK, ChainOK, Undisturbed, processVars
<1> QED
  BY <1>6, <1>7, <1>8 DEF ChainInv

-----------------------------------------------------------------------------
(* The process thread.                                                     *)
LEMMA BlockSteps ==
  ASSUME ChainInv,
         (\E m \in Modulations : Take(m)) \/ Snap \/ Branch \/ Defer \/ FeedIq \/ Audio
  PROVE  ChainInv'
<1> USE DEF ProcessAt, clientVars, ChainInv
<1>1. ASSUME NEW m, Take(m)
      PROVE  ChainInv'
  <2>1. /\ process = "wait" /\ process' = (IF Stale(m) THEN "snap" ELSE "defer")
        /\ entry' = m /\ cur_gen' = generation /\ fed' = 0
        /\ UNCHANGED <<config, pending, nfm_dsc, generation, last_mod, last_gen, host>>
    BY <1>1 DEF Take, ReadGen
  <2>2. NumbersOK' /\ PendingOK' /\ SwitchOK'
    BY <2>1 DEF NumbersOK, PendingOK, SwitchOK
  <2>3. ChainOK'
    BY <2>1 DEF ChainOK, Stale, Agrees
  <2> QED
    BY <2>2, <2>3
<1>2. CASE Snap
  <2>1. /\ process = "snap" /\ process' = "branch" /\ snapshot' = config
        /\ UNCHANGED <<config, pending, nfm_dsc, generation, entry, cur_gen, last_mod, last_gen, fed, host>>
    BY <1>2 DEF Snap
  <2> QED
    BY <2>1 DEF NumbersOK, PendingOK, SwitchOK, ChainOK, Agrees
<1>3. CASE Branch
  <2>1. /\ process = "branch" /\ process' = "switch"
        /\ switch' = StageCalls(Stages(snapshot, entry, entry = "ais_dual", Dsc))
        /\ UNCHANGED <<config, pending, nfm_dsc, generation, entry, cur_gen, snapshot, last_mod,
                       last_gen, fed, host>>
    BY <1>3 DEF Branch
  <2>2. SwitchOK'
    BY <2>1 DEF SwitchOK, Undisturbed, Wanted, Dsc, StageCalls
  <2> QED
    BY <2>1, <2>2 DEF NumbersOK, PendingOK, ChainOK
<1>4. CASE Defer \/ FeedIq \/ Audio
  <2>1. /\ process \in {"defer", "iq", "audio"} /\ process' \in {"iq", "audio", "wait"}
        /\ process' # "wait" => entry' = entry
        /\ cur_gen' \in {cur_gen, -1} /\ fed' \in {fed, fed + 1}
        /\ UNCHANGED <<config, pending, nfm_dsc, generation, last_mod, last_gen, host>>
    BY <1>4 DEF Defer, FeedIq, Audio, Feed
  <2>2. NumbersOK' /\ PendingOK' /\ SwitchOK'
    BY <2>1 DEF NumbersOK, PendingOK, SwitchOK
  <2>3. ChainOK'
    BY <2>1 DEF ChainOK, Agrees
  <2> QED
    BY <2>2, <2>3
<1> QED
  BY <1>1, <1>2, <1>3, <1>4

LEMMA SwitchCallStep ==
  ASSUME ChainInv, SwitchCall
  PROVE  ChainInv'
<1>1. /\ process = "switch" /\ process' = "switch" /\ switch # <<>>
      /\ host' = HostAfter(Head(switch)) /\ switch' = Tail(switch)
      /\ UNCHANGED <<config, pending, nfm_dsc, generation, entry, cur_gen, snapshot, last_mod,
                     last_gen, fed>>
  BY DEF SwitchCall, ProcessAt, clientVars
<1>2. DOMAIN host = Places
  BY DEF ChainInv, NumbersOK
<1>3. NumbersOK' /\ PendingOK' /\ ChainOK'
  BY <1>1, <1>2, AnyCall DEF ChainInv, NumbersOK, PendingOK, ChainOK
<1>4. SwitchOK'
  <2> SUFFICES ASSUME Undisturbed
               PROVE  SwitchOK'
    BY <1>1 DEF SwitchOK, Undisturbed
  <2> DEFINE d == <<"decoder", Wanted.decoder>>
             i == <<"invert", Wanted.invert>>
             p == <<"postproc", Wanted.postproc>>
             a == <<"asm", Wanted.asm>>
  <2>1. snapshot' = config' /\ Wanted' = Wanted
    BY <1>1 DEF ChainInv, SwitchOK, Wanted, Dsc
  <2>2. "decoder" \in Places /\ "invert" \in Places /\ "postproc" \in Places /\ "asm" \in Places
    BY DEF Places
  <2>3. CASE switch = <<d, i, p, a>>
    <3>1. Head(switch) = d /\ switch' = <<i, p, a>>
      BY <1>1, <2>3
    <3>2. Agrees("decoder", Wanted.decoder)'
      BY <1>1, <1>2, <2>1, <2>2, <3>1, OneCall
    <3> QED
      BY <2>1, <3>1, <3>2 DEF SwitchOK
  <2>4. CASE switch = <<i, p, a>> /\ Agrees("decoder", Wanted.decoder)
    <3>1. Head(switch) = i /\ switch' = <<p, a>>
      BY <1>1, <2>4
    <3>2. Agrees("invert", Wanted.invert)' /\ \A q \in Places \ {"invert"} : host'[q] = host[q]
      BY <1>1, <1>2, <2>1, <2>2, <3>1, OneCall
    <3>3. Agrees("decoder", Wanted.decoder)'
      BY <2>1, <2>2, <2>4, <3>2 DEF Agrees
    <3> QED
      BY <2>1, <3>1, <3>2, <3>3 DEF SwitchOK
  <2>5. CASE /\ switch = <<p, a>>
             /\ Agrees("decoder", Wanted.decoder) /\ Agrees("invert", Wanted.invert)
    <3>1. Head(switch) = p /\ switch' = <<a>>
      BY <1>1, <2>5
    <3>2. Agrees("postproc", Wanted.postproc)' /\ \A q \in Places \ {"postproc"} : host'[q] = host[q]
      BY <1>1, <1>2, <2>1, <2>2, <3>1, OneCall
    <3>3. Agrees("decoder", Wanted.decoder)' /\ Agrees("invert", Wanted.invert)'
      BY <2>1, <2>2, <2>5, <3>2 DEF Agrees
    <3> QED
      BY <2>1, <3>1, <3>2, <3>3 DEF SwitchOK
  <2>6. CASE /\ switch = <<a>>
             /\ Agrees("decoder", Wanted.decoder) /\ Agrees("invert", Wanted.invert)
             /\ Agrees("postproc", Wanted.postproc)
    <3>1. Head(switch) = a /\ switch' = <<>>
      BY <1>1, <2>6
    <3>2. Agrees("asm", Wanted.asm)' /\ \A q \in Places \ {"asm"} : host'[q] = host[q]
      BY <1>1, <1>2, <2>1, <2>2, <3>1, OneCall
    <3>3. /\ Agrees("decoder", Wanted.decoder)' /\ Agrees("invert", Wanted.invert)'
          /\ Agrees("postproc", Wanted.postproc)'
      BY <2>1, <2>2, <2>6, <3>2 DEF Agrees
    <3> QED
      BY <2>1, <3>1, <3>2, <3>3 DEF SwitchOK
  <2> QED
    BY <1>1, <2>3, <2>4, <2>5, <2>6 DEF ChainInv, SwitchOK
<1> QED
  BY <1>3, <1>4 DEF ChainInv

LEMMA SwitchDemodStep ==
  ASSUME ChainInv, SwitchDemod
  PROVE  ChainInv'
<1> DEFINE demod == IF Dsc THEN "dsc_afsk_demod" ELSE DemodNameForModulation(entry)
<1>1. /\ process = "switch" /\ process' = "defer" /\ switch = <<>>
      /\ host' = [host EXCEPT !.demod = demod]
      /\ last_mod' = entry /\ last_gen' = cur_gen
      /\ UNCHANGED <<config, pending, nfm_dsc, generation, entry, cur_gen, fed>>
  BY DEF SwitchDemod, ProcessAt, clientVars
<1> HIDE DEF demod
<1>2. DOMAIN host = Places /\ "demod" \in Places
  BY DEF ChainInv, NumbersOK, Places
<1>3. DOMAIN host' = Places /\ host'["demod"] = demod
      /\ \A q \in Places \ {"demod"} : host'[q] = host[q]
  BY <1>1, <1>2
<1>4. NumbersOK' /\ PendingOK' /\ SwitchOK'
  BY <1>1, <1>3 DEF ChainInv, NumbersOK, PendingOK, SwitchOK
<1>5. ChainOK'
  <2> SUFFICES ASSUME Undisturbed
               PROVE  ChainOK'
    BY <1>1 DEF ChainOK, Undisturbed
  <2> DEFINE want == Chain(config, entry, Dsc)
  <2>1. /\ Agrees("decoder", Wanted.decoder) /\ Agrees("invert", Wanted.invert)
        /\ Agrees("postproc", Wanted.postproc) /\ Agrees("asm", Wanted.asm)
    BY <1>1 DEF ChainInv, SwitchOK
  <2>2. /\ want["demod"] = demod
        /\ want["decoder"] = Wanted.decoder /\ want["invert"] = Wanted.invert
        /\ want["postproc"] = Wanted.postproc /\ want["asm"] = Wanted.asm
    BY DEF Chain, Wanted, demod
  <2>3. Chain(config, last_mod, nfm_dsc /\ last_mod = "nfm")' = want
    BY <1>1 DEF Dsc
  <2> HIDE DEF want
  <2>4. \A place \in Places : host'[place] = want[place] \/ want[place] = Keep
    BY <1>3, <2>1, <2>2, <2>3 DEF Places, Agrees
  <2> QED
    BY <1>1, <2>3, <2>4 DEF ChainOK, Agrees
<1> QED
  BY <1>4, <1>5 DEF ChainInv

LEMMA ChainStep ==
  ASSUME ChainInv, [Next]_vars
  PROVE  ChainInv'
<1>1. CASE UNCHANGED vars
  <2>1. UNCHANGED <<config, pending, nfm_dsc, generation, processVars, host>>
    BY <1>1 DEF vars, clientVars, processVars
  <2> QED
    BY <2>1, ChainUntouched
<1>2. CASE Next
  BY <1>2, CallSteps, PushStep, BlockSteps, SwitchCallStep, SwitchDemodStep DEF Next, Process
<1> QED
  BY <1>1, <1>2

LEMMA FedByItsChain ==
  ASSUME ChainInv, [Next]_vars, fed' > fed, pending = <<>>, generation = last_gen
  PROVE  ChainIsOurs
<1>1. FeedIq \/ Audio
  <2>1. fed' # fed
    BY DEF ChainInv, NumbersOK
  <2>2. ASSUME NEW m, Take(m)
        PROVE  FALSE
    BY <2>2 DEF Take, ChainInv, NumbersOK
  <2> QED
    BY <2>1, <2>2 DEF Next, SetMode, SetModeConfig, Disable, Enable, Push, Process, Snap, Branch,
                      SwitchCall, SwitchDemod, Defer, vars, processVars
<1>2. process \in {"iq", "audio"}
  BY <1>1 DEF FeedIq, Audio, ProcessAt
<1>3. entry = last_mod /\ \A place \in Places : Agrees(place, Chain(config, entry, Dsc)[place])
  BY <1>2 DEF ChainInv, ChainOK, Dsc
<1> QED
  BY <1>3 DEF ChainIsOurs, Agrees, ChainInv, NumbersOK

(* A block is decoded by the chain of its modulation and of the            *)
(* configuration in force, unless a client call is under way or has ended  *)
(* since the last switch began -- what plugin_config_generation_ is for    *)
(* (receiver_worker.cpp 1368-1371).                                        *)
THEOREM ChainIsTheBlocks == Spec => ChainOfBlock
<1>1. ChainInv /\ [Next]_vars
      => [fed' > fed /\ pending = <<>> /\ generation = last_gen => ChainIsOurs]_vars
  BY FedByItsChain
<1> QED
  BY <1>1, ChainInit, ChainStep, PTL DEF Spec, ChainOfBlock

-----------------------------------------------------------------------------
(* The recordings                                                          *)
(*                                                                         *)
(* The sidecar of the open file counts no block the file does not hold;    *)
(* that of a closed one that says it is complete counts them all.          *)

SidecarType == [complete : BOOLEAN, blocks : Nat]
FileType == [held : Nat, torn : BOOLEAN, sidecar : SidecarType]

\* The open file, with the number of blocks that were counted, and the others.
OpenOK(f, n) ==
  /\ f.sidecar.complete = FALSE /\ f.sidecar.blocks <= f.held
  /\ f.held = n /\ f.torn = FALSE

ClosedOK(f) ==
  f.sidecar.complete => f.sidecar.blocks = f.held + (IF f.torn THEN 1 ELSE 0)

FilesOK ==
  /\ files \in Seq(FileType) /\ now \in 0 .. Len(files) /\ count \in Nat
  /\ \A i \in DOMAIN files : IF i = now THEN OpenOK(files[i], count) ELSE ClosedOK(files[i])

\* A stop closes the file and takes the request back, and no call comes before
\* its threads are gone.
StopsEmpty ==
  /\ running = {} \/ stopping # Nobody => now = 0
  /\ stopping # Nobody => ~requested

RecordInv == FilesOK /\ StopsEmpty

LEMMA WrittenType ==
  ASSUME NEW old \in SidecarType, NEW new \in SidecarType, NEW s \in Written(old, new)
  PROVE  s \in SidecarType /\ (s = old \/ s = new \/ (s.complete = FALSE /\ s.blocks = 0))
<1>1. s = old \/ s = new \/ s = Unreadable
  BY DEF Written
<1>2. Unreadable \in SidecarType /\ Unreadable.complete = FALSE /\ Unreadable.blocks = 0
  BY DEF Unreadable, Sidecar, SidecarType
<1> QED
  BY <1>1, <1>2

LEMMA SidecarTyped ==
  ASSUME NEW b \in Nat
  PROVE  /\ Sidecar(TRUE, b) \in SidecarType /\ Sidecar(TRUE, b).blocks = b
         /\ Sidecar(FALSE, b) \in SidecarType /\ Sidecar(FALSE, b).blocks = b
         /\ Sidecar(FALSE, b).complete = FALSE
BY DEF Sidecar, SidecarType

\* Whatever is said of one file leaves the others as they are.
LEMMA FileReplaced ==
  ASSUME files \in Seq(FileType), NEW i \in DOMAIN files, NEW f \in FileType,
         DOMAIN files' = DOMAIN files, files' = [k \in DOMAIN files |-> files'[k]],
         \A k \in DOMAIN files : files'[k] = IF k = i THEN f ELSE files[k]
  PROVE  files' \in Seq(FileType) /\ Len(files') = Len(files)
<1>1. PICK n \in Nat : n = Len(files) /\ DOMAIN files = 1 .. n
  OBVIOUS
<1>2. \A k \in 1 .. n : files'[k] \in FileType
  BY <1>1
<1>3. files' \in [1 .. n -> FileType]
  BY <1>1, <1>2
<1> QED
  BY <1>1, <1>3

LEMMA CloseFileKeeps ==
  ASSUME FilesOK, now # 0, NEW lost \in BOOLEAN, CloseFile(lost)
  PROVE  FilesOK'
<1>1. now \in 1 .. Len(files) /\ count \in Nat /\ files[now] \in FileType
  BY DEF FilesOK
<1>2. PICK s \in Written(files[now].sidecar, Sidecar(TRUE, Reported(count))) :
        files' = [files EXCEPT ![now].sidecar = s,
                               ![now].held = IF lost THEN @ - 1 ELSE @,
                               ![now].torn = lost]
  BY DEF CloseFile
<1>3. OpenOK(files[now], count)
  BY <1>1 DEF FilesOK
<1>4. s \in SidecarType /\ (s = files[now].sidecar \/ s = Sidecar(TRUE, count) \/ s.complete = FALSE)
  BY <1>1, SidecarTyped, WrittenType DEF FileType, Reported
<1> DEFINE f == [held |-> IF lost THEN files[now].held - 1 ELSE files[now].held,
                 torn |-> lost, sidecar |-> s]
<1>5. \A i \in DOMAIN files : files'[i] = IF i = now THEN f ELSE files[i]
  BY <1>1, <1>2 DEF FileType
<1>6. lost => files[now].held >= 1
  BY <1>1, <1>3 DEF CloseFile, OpenOK, ClosedOK
<1>7. f \in FileType
  BY <1>1, <1>4, <1>6 DEF FileType
<1>8. ClosedOK(f)
  <2>1. s.complete => s.blocks = count
    BY <1>3, <1>4 DEF OpenOK, ClosedOK, Sidecar
  <2> QED
    BY <1>1, <1>3, <2>1 DEF OpenOK, ClosedOK, FileType
<1>9. now' = 0 /\ count' = 0
  BY DEF CloseFile
<1>10. files' \in Seq(FileType) /\ DOMAIN files' = DOMAIN files /\ Len(files') = Len(files)
  <2>1. DOMAIN files' = DOMAIN files /\ files' = [k \in DOMAIN files |-> files'[k]]
    BY <1>2
  <2>2. files \in Seq(FileType) /\ now \in DOMAIN files
    BY <1>1 DEF FilesOK
  <2> HIDE DEF f
  <2> QED
    BY <1>5, <1>7, <2>1, <2>2, FileReplaced
<1> HIDE DEF f
<1>11. \A i \in DOMAIN files' : ClosedOK(files'[i])
  BY <1>5, <1>8, <1>10 DEF FilesOK, OpenOK, ClosedOK
<1>12. \A i \in DOMAIN files' : i # 0
  BY <1>10
<1> QED
  BY <1>9, <1>10, <1>11, <1>12 DEF FilesOK

LEMMA CloseKeeps ==
  ASSUME FilesOK, Close
  PROVE  FilesOK' /\ now' = 0
<1>1. CASE now = 0
  BY <1>1 DEF Close, FilesOK
<1>2. CASE now # 0
  <2>1. PICK lost \in BOOLEAN : CloseFile(lost)
    BY <1>2 DEF Close
  <2> QED
    BY <1>2, <2>1, CloseFileKeeps DEF CloseFile
<1> QED
  BY <1>1, <1>2

LEMMA OpenFileKeeps ==
  ASSUME FilesOK, OpenFile
  PROVE  FilesOK'
<1> DEFINE n == Len(files)
<1>1. n \in Nat /\ files \in Seq(FileType) /\ DOMAIN files = 1 .. n /\ now = 0
  BY DEF FilesOK, OpenFile
<1>2. \A i \in 1 .. n : ClosedOK(files[i])
  BY <1>1 DEF FilesOK
<1>3. ASSUME NEW held \in {0, 1}, NEW s \in SidecarType, NewFile(held, s)
      PROVE  /\ files' \in Seq(FileType) /\ Len(files') = n + 1 /\ DOMAIN files' = 1 .. n + 1
             /\ files'[n + 1] = [held |-> held, torn |-> FALSE, sidecar |-> s]
             /\ \A i \in 1 .. n : files'[i] = files[i]
  <2>1. [held |-> held, torn |-> FALSE, sidecar |-> s] \in FileType
    BY <1>3 DEF FileType
  <2> QED
    BY <1>1, <1>3, <2>1, AppendProperties DEF NewFile
<1>4. CASE UNCHANGED <<now, count, files>>
  BY <1>4 DEF FilesOK
<1>5. CASE /\ \E s \in Written(Sidecar(FALSE, 0), Sidecar(FALSE, 1)) : NewFile(1, s)
           /\ now' = Len(files') /\ count' = 1
  <2>1. PICK s \in Written(Sidecar(FALSE, 0), Sidecar(FALSE, 1)) : NewFile(1, s)
    BY <1>5
  <2>2. s \in SidecarType /\ s.complete = FALSE /\ s.blocks \in {0, 1}
    <3>1. Sidecar(FALSE, 0) \in SidecarType /\ Sidecar(FALSE, 1) \in SidecarType
      BY SidecarTyped
    <3>2. s \in SidecarType
      BY <2>1, <3>1, WrittenType
    <3>3. s.complete = FALSE /\ s.blocks \in {0, 1}
      BY DEF Written, Unreadable, Sidecar
    <3> QED
      BY <3>2, <3>3
  <2>3. /\ files' \in Seq(FileType) /\ Len(files') = n + 1 /\ DOMAIN files' = 1 .. n + 1
        /\ files'[n + 1] = [held |-> 1, torn |-> FALSE, sidecar |-> s]
        /\ \A i \in 1 .. n : files'[i] = files[i]
    BY <1>3, <2>1, <2>2
  <2>4. OpenOK(files'[n + 1], 1)
    BY <2>2, <2>3 DEF OpenOK, ClosedOK
  <2>5. \A i \in 1 .. n : ClosedOK(files'[i])
    BY <1>2, <2>3 DEF OpenOK, ClosedOK
  <2>6. now' = n + 1 /\ count' = 1
    BY <1>5, <2>3
  <2>7. \A i \in 1 .. n + 1 : IF i = n + 1 THEN OpenOK(files'[i], 1) ELSE ClosedOK(files'[i])
    BY <1>1, <2>4, <2>5
  <2>8. \A i \in DOMAIN files' : IF i = now' THEN OpenOK(files'[i], count') ELSE ClosedOK(files'[i])
    BY <2>3, <2>6, <2>7 DEF OpenOK, ClosedOK
  <2> QED
    BY <1>1, <2>3, <2>6, <2>8 DEF FilesOK
<1>6. CASE /\ \E s \in Written(Sidecar(FALSE, 0), Sidecar(TRUE, Reported(0))) : NewFile(0, s)
           /\ UNCHANGED <<now, count>>
  <2>1. PICK s \in Written(Sidecar(FALSE, 0), Sidecar(TRUE, Reported(0))) : NewFile(0, s)
    BY <1>6
  <2>2. s \in SidecarType /\ s.blocks = 0
    <3>1. PICK old \in SidecarType, new \in SidecarType :
            /\ old = Sidecar(FALSE, 0) /\ new = Sidecar(TRUE, Reported(0))
            /\ old.blocks = 0 /\ new.blocks = 0
      BY SidecarTyped DEF Reported
    <3>2. s \in Written(old, new)
      BY <2>1, <3>1
    <3> QED
      BY ONLY <3>1, <3>2, WrittenType
  <2>3. /\ files' \in Seq(FileType) /\ Len(files') = n + 1 /\ DOMAIN files' = 1 .. n + 1
        /\ files'[n + 1] = [held |-> 0, torn |-> FALSE, sidecar |-> s]
        /\ \A i \in 1 .. n : files'[i] = files[i]
    BY <1>3, <2>1, <2>2
  <2>4. ClosedOK(files'[n + 1])
    BY <2>2, <2>3 DEF OpenOK, ClosedOK
  <2>5. \A i \in 1 .. n + 1 : ClosedOK(files'[i])
    <3>1. \A i \in 1 .. n + 1 : i = n + 1 \/ i \in 1 .. n
      BY <1>1
    <3> QED
      BY <1>2, <2>3, <2>4, <3>1
  <2>6. now' = 0 /\ count' = count
    BY <1>1, <1>6
  <2>7. \A i \in DOMAIN files' : IF i = now' THEN OpenOK(files'[i], count') ELSE ClosedOK(files'[i])
    <3>1. \A i \in DOMAIN files' : i # now'
      BY <2>3, <2>6
    <3> QED
      BY <2>3, <2>5, <2>6, <3>1 DEF OpenOK, ClosedOK
  <2> QED
    BY <1>1, <2>3, <2>6, <2>7 DEF FilesOK
<1> QED
  BY <1>4, <1>5, <1>6 DEF OpenFile

LEMMA WriteBlockKeeps ==
  ASSUME FilesOK, WriteBlock
  PROVE  FilesOK' /\ (now' = 0 \/ now' = now)
<1>1. CASE Close
  BY <1>1, CloseKeeps
<1>2. CASE /\ \E s \in Written(files[now].sidecar, Sidecar(FALSE, count + 1)) :
                files' = [files EXCEPT ![now].held = @ + 1, ![now].sidecar = s]
           /\ count' = count + 1 /\ UNCHANGED now
  <2>1. PICK s \in Written(files[now].sidecar, Sidecar(FALSE, count + 1)) :
             files' = [files EXCEPT ![now].held = @ + 1, ![now].sidecar = s]
    BY <1>2
  <2>2. now \in 1 .. Len(files) /\ count \in Nat /\ files[now] \in FileType
    BY DEF FilesOK, WriteBlock
  <2>3. OpenOK(files[now], count)
    BY <2>2 DEF FilesOK
  <2>4. s \in SidecarType
    <3>1. files[now].sidecar \in SidecarType /\ Sidecar(FALSE, count + 1) \in SidecarType
      BY <2>2 DEF FileType, Sidecar, SidecarType
    <3> QED
      BY <2>1, <3>1, WrittenType
  <2>5. s.complete = FALSE /\ s.blocks <= count + 1
    BY <2>2, <2>3 DEF FileType, SidecarType, Sidecar, Written, Unreadable, OpenOK, ClosedOK
  <2> DEFINE f == [held |-> count + 1, torn |-> FALSE, sidecar |-> s]
  <2>6. \A i \in DOMAIN files : files'[i] = IF i = now THEN f ELSE files[i]
    <3>1. files[now].torn = FALSE /\ files[now].held = count
      BY <2>3 DEF OpenOK
    <3>2. DOMAIN files = 1 .. Len(files)
      BY DEF FilesOK
    <3>3. files'[now] = [[files[now] EXCEPT !.held = @ + 1] EXCEPT !.sidecar = s]
      BY <2>1, <2>2, <3>2
    <3>4. files'[now] = f
      BY <2>2, <3>1, <3>3 DEF FileType
    <3> QED
      BY <2>1, <2>2, <3>4
  <2>7. f \in FileType /\ OpenOK(f, count + 1)
    BY <2>2, <2>4, <2>5 DEF FileType, OpenOK, ClosedOK
  <2>8. files' \in Seq(FileType) /\ DOMAIN files' = DOMAIN files /\ Len(files') = Len(files)
    <3>1. DOMAIN files' = DOMAIN files /\ files' = [k \in DOMAIN files |-> files'[k]]
      BY <2>1
    <3>2. files \in Seq(FileType) /\ now \in DOMAIN files
      BY <2>2 DEF FilesOK
    <3> HIDE DEF f
    <3> QED
      BY <2>6, <2>7, <3>1, <3>2, FileReplaced
  <2> HIDE DEF f
  <2>9. \A i \in DOMAIN files : i # now => ClosedOK(files[i])
    BY DEF FilesOK, OpenOK, ClosedOK
  <2>10. \A i \in DOMAIN files' : IF i = now' THEN OpenOK(files'[i], count') ELSE ClosedOK(files'[i])
    BY <1>2, <2>6, <2>7, <2>8, <2>9 DEF OpenOK, ClosedOK
  <2> QED
    BY <1>2, <2>2, <2>8, <2>10 DEF FilesOK
<1> QED
  BY <1>1, <1>2 DEF WriteBlock

LEMMA RecordBlockKeeps ==
  ASSUME RecordInv, RecordBlock
  PROVE  RecordInv'
<1>1. CASE OpenFile
  <2>1. FilesOK'
    BY <1>1, OpenFileKeeps DEF RecordInv
  <2>2. StopsEmpty'
    BY <1>1 DEF RecordInv, StopsEmpty, RecordBlock, OpenFile
  <2> QED
    BY <2>1, <2>2 DEF RecordInv
<1>2. CASE WriteBlock
  <2>1. FilesOK' /\ (now' = 0 \/ now' = now) /\ requested' = requested
    BY <1>2, WriteBlockKeeps DEF RecordInv, WriteBlock
  <2>2. StopsEmpty'
    BY <2>1 DEF RecordInv, StopsEmpty, RecordBlock
  <2> QED
    BY <2>1, <2>2 DEF RecordInv
<1>3. CASE EndFile
  <2>1. FilesOK' /\ now' = 0 /\ requested' = requested
    BY <1>3, CloseKeeps DEF RecordInv, EndFile
  <2>2. StopsEmpty'
    BY <2>1 DEF RecordInv, StopsEmpty, RecordBlock
  <2> QED
    BY <2>1, <2>2 DEF RecordInv
<1> QED
  BY <1>1, <1>2, <1>3 DEF RecordBlock

LEMMA KillKeeps ==
  ASSUME RecordInv, KillServer
  PROVE  RecordInv'
<1>1. now \in 1 .. Len(files) /\ count \in Nat /\ files[now] \in FileType
  BY DEF RecordInv, FilesOK, KillServer
<1>2. OpenOK(files[now], count)
  BY <1>1 DEF RecordInv, FilesOK
<1>3. /\ files' \in Seq(FileType) /\ DOMAIN files' = DOMAIN files /\ Len(files') = Len(files)
      /\ \A i \in DOMAIN files : ClosedOK(files'[i])
  <2>1. CASE UNCHANGED files
    BY <2>1 DEF RecordInv, FilesOK, OpenOK, ClosedOK
  <2>2. CASE count > 0 /\ files' = [files EXCEPT ![now].held = @ - 1, ![now].torn = TRUE]
    <3> DEFINE f == [held |-> count - 1, torn |-> TRUE, sidecar |-> files[now].sidecar]
    <3>1. files' = [files EXCEPT ![now] = f]
      BY <1>1, <1>2, <2>2 DEF FileType, OpenOK, ClosedOK
    <3>2. f \in FileType /\ ClosedOK(f)
      BY <1>1, <1>2, <2>2 DEF FileType, OpenOK, ClosedOK
    <3>3. files' \in Seq(FileType) /\ DOMAIN files' = DOMAIN files /\ Len(files') = Len(files)
      BY <1>1, <3>1, <3>2 DEF RecordInv, FilesOK
    <3>4. \A i \in DOMAIN files : files'[i] = IF i = now THEN f ELSE files[i]
      BY <3>1 DEF RecordInv, FilesOK
    <3> HIDE DEF f
    <3> QED
      BY <3>2, <3>3, <3>4 DEF RecordInv, FilesOK, OpenOK, ClosedOK
  <2> QED
    BY <2>1, <2>2 DEF KillServer
<1>4. \A i \in DOMAIN files' : i # 0
  BY <1>3
<1>5. /\ now' = 0 /\ count' = 0 /\ requested' = FALSE /\ stopping' = Nobody
  BY DEF KillServer
<1>6. FilesOK'
  BY <1>3, <1>4, <1>5 DEF FilesOK, OpenOK, ClosedOK
<1> QED
  BY <1>5, <1>6 DEF RecordInv, StopsEmpty

LEMMA RecordNextKeeps ==
  ASSUME RecordInv, [RecordNext]_recordVars
  PROVE  RecordInv'
<1> USE RecordingAssumption
<1>1. CASE RecordBlock
  BY <1>1, RecordBlockKeeps
<1>2. ASSUME NEW r \in Receivers, StartReceiver(r)
      PROVE  RecordInv'
  BY <1>2 DEF RecordInv, FilesOK, StopsEmpty, StartReceiver, ClientCall, PushConfig
<1>3. ASSUME NEW r \in Receivers, StopReceiver(r)
      PROVE  RecordInv'
  <2>1. FilesOK' /\ now' = 0 /\ requested' = FALSE
    BY <1>3, CloseKeeps DEF RecordInv, StopReceiver, RecordingStop
  <2> QED
    BY <2>1 DEF RecordInv, StopsEmpty
<1>4. ASSUME NEW r \in Receivers, NEW vdes \in BOOLEAN, SetModulation(r, vdes)
      PROVE  RecordInv'
  BY <1>4 DEF RecordInv, FilesOK, StopsEmpty, SetModulation, ClientCall, PushConfig
<1>5. CASE ThreadsJoined
  BY <1>5 DEF RecordInv, FilesOK, StopsEmpty, ThreadsJoined
<1>6. CASE SwitchDemodulator
  BY <1>6 DEF RecordInv, FilesOK, StopsEmpty, SwitchDemodulator
<1>7. CASE KillServer
  BY <1>7, KillKeeps
<1>8. CASE UNCHANGED recordVars
  BY <1>8 DEF RecordInv, FilesOK, StopsEmpty, recordVars
<1> QED
  BY <1>1, <1>2, <1>3, <1>4, <1>5, <1>6, <1>7, <1>8 DEF RecordNext

\* Whatever fails on the disk, and whenever the process is killed: a sidecar
\* that says its recording is complete tells how many blocks the file holds.
THEOREM RecordingsStayWhole == RecordSpec => []RecordingsWhole
<1>1. RecordInit => RecordInv
  <2>1. RecordInit => files \in Seq(FileType) /\ DOMAIN files = {} /\ Len(files) = 0
    BY EmptySeq DEF RecordInit
  <2> QED
    BY <2>1 DEF RecordInit, RecordInv, FilesOK, StopsEmpty
<1>2. RecordInv => RecordingsWhole
  BY DEF RecordInv, FilesOK, OpenOK, ClosedOK, StopsEmpty, RecordingsWhole
<1> QED
  BY <1>1, <1>2, RecordNextKeeps, PTL DEF RecordSpec

-----------------------------------------------------------------------------
(* Natural numbers *)

\* Every set of natural numbers that is not empty has a least one.
LEMMA LeastNat ==
  ASSUME NEW T, T \subseteq Nat, T # {}
  PROVE  \E x \in T : \A y \in T : x <= y
<1>1. PICK x \in T : \A y \in T : ~(<<y, x>> \in OpToRel(<, Nat))
  BY NatLessThanWellFounded, WFMin
<1>2. \A y \in T : <<y, x>> \in OpToRel(<, Nat) <=> y < x
  BY DEF OpToRel
<1>3. ASSUME NEW y \in T
      PROVE  x <= y
  <2>1. ~(y < x)
    BY <1>1, <1>2
  <2> QED
    BY <2>1
<1> QED
  BY <1>3

-----------------------------------------------------------------------------
(* What is told of a frame                                                 *)
(*                                                                         *)
(* FieldsSound is about one step: what is told is set anew with every      *)
(* frame.  Every message is shown to be tidy, its fields between two bits  *)
(* and apart; messages are put together from rows of fields, shifted and   *)
(* side by side.                                                           *)

\* Fields between the bits a and b, no two of which overlap.
Tidy(S, a, b) ==
  /\ S \subseteq Int \X Int
  /\ \A p \in S : a <= p[1] /\ p[2] >= 0 /\ p[1] + p[2] <= b
  /\ \A p, q \in S : p # q => ~Overlap2(p, q)

LEMMA TidyUnion ==
  ASSUME NEW a \in Int, NEW b \in Int, NEW c \in Int, a <= b, b <= c,
         NEW S, NEW T, Tidy(S, a, b), Tidy(T, b, c)
  PROVE  Tidy(S \union T, a, c)
<1>1. \A p \in S : p \in Int \X Int /\ p[1] \in Int /\ p[2] \in Int /\ a <= p[1] /\ p[2] >= 0 /\ p[1] + p[2] <= b
  BY DEF Tidy
<1>2. \A p \in T : p \in Int \X Int /\ p[1] \in Int /\ p[2] \in Int /\ b <= p[1] /\ p[2] >= 0 /\ p[1] + p[2] <= c
  BY DEF Tidy
<1>3. ASSUME NEW p \in S, NEW q \in T
      PROVE  ~Overlap2(p, q) /\ ~Overlap2(q, p)
  BY <1>1, <1>2 DEF Overlap2
<1>4. \A p \in S \union T : a <= p[1] /\ p[2] >= 0 /\ p[1] + p[2] <= c
  BY <1>1, <1>2
<1> QED
  BY <1>1, <1>2, <1>3, <1>4 DEF Tidy

LEMMA TidyShifted ==
  ASSUME NEW a \in Int, NEW b \in Int, NEW off \in Int, NEW S, Tidy(S, a, b)
  PROVE  Tidy(Shifted(S, off), off + a, off + b)
<1>1. \A p \in S : p \in Int \X Int /\ p[1] \in Int /\ p[2] \in Int /\ a <= p[1] /\ p[2] >= 0 /\ p[1] + p[2] <= b
  BY DEF Tidy
<1>2. \A q \in Shifted(S, off) : \E p \in S : q = <<off + p[1], p[2]>>
  BY DEF Shifted
<1>3. ASSUME NEW p \in S, NEW q \in S, <<off + p[1], p[2]>> # <<off + q[1], q[2]>>
      PROVE  ~Overlap2(<<off + p[1], p[2]>>, <<off + q[1], q[2]>>)
  <2>1. ~Overlap2(p, q)
    BY <1>3 DEF Tidy
  <2> QED
    BY <1>1, <2>1 DEF Overlap2
<1> QED
  BY <1>1, <1>2, <1>3 DEF Tidy

LEMMA TidyPart ==
  ASSUME NEW a, NEW b, NEW S, NEW T, Tidy(T, a, b), S \subseteq T
  PROVE  Tidy(S, a, b)
BY DEF Tidy

LEMMA TidyMore ==
  ASSUME NEW a \in Int, NEW b \in Int, NEW c \in Int, NEW d \in Int, c <= a, b <= d, NEW S, Tidy(S, a, b)
  PROVE  Tidy(S, c, d)
BY DEF Tidy

LEMMA TidyOne ==
  ASSUME NEW a \in Int, NEW n \in Nat
  PROVE  Tidy({<<a, n>>}, a, a + n)
BY DEF Tidy

LEMMA TidyTwo ==
  Tidy({<<46, 10>>, <<56, 1>>, <<112, 12>>, <<124, 9>>} \union Position(57, 85), 46, 133)
BY DEF Tidy, Position, Overlap2

-----------------------------------------------------------------------------
(* Rows of fields *)

\* The ends of a row are what adding up its widths gives.
Adds(g, first, widths) ==
  g = [j \in 0 .. Len(widths) |-> IF j = 0 THEN first ELSE g[j - 1] + widths[j]]

\* The sums up to a place.
AddsTo(g, n, first, widths) ==
  /\ DOMAIN g = 0 .. n
  /\ \A j \in 0 .. n : g[j] = IF j = 0 THEN first ELSE g[j - 1] + widths[j]

LEMMA SumsExist ==
  ASSUME NEW first, NEW widths, NEW len \in Nat
  PROVE  \E g : AddsTo(g, len, first, widths)
<1> DEFINE Bad == {n \in Nat : ~\E g : AddsTo(g, n, first, widths)}
<1> SUFFICES ASSUME Bad # {} PROVE FALSE
  OBVIOUS
<1>1. PICK n \in Bad : \A m \in Bad : n <= m
  <2>1. Bad \subseteq Nat
    OBVIOUS
  <2> HIDE DEF Bad
  <2> QED
    BY <2>1, LeastNat
<1>2. n \in Nat /\ ~\E g : AddsTo(g, n, first, widths)
  OBVIOUS
<1>3. CASE n = 0
  <2>1. AddsTo([m \in 0 .. 0 |-> first], 0, first, widths)
    BY DEF AddsTo
  <2> QED
    BY <1>2, <1>3, <2>1
<1>4. CASE n > 0
  <2>1. n - 1 \in Nat /\ n - 1 \notin Bad
    BY <1>1, <1>2, <1>4
  <2>2. PICK h : AddsTo(h, n - 1, first, widths)
    BY <2>1
  <2> DEFINE g == [m \in 0 .. n |-> IF m = n THEN h[n - 1] + widths[n] ELSE h[m]]
  <2>3. \A m \in 0 .. n : m = n \/ m \in 0 .. n - 1
    BY <1>2
  <2>4. \A m \in 0 .. n - 1 : g[m] = h[m] /\ m \in 0 .. n
    BY <1>2
  <2>5. g[n] = g[n - 1] + widths[n]
    BY <1>2, <1>4
  <2>6. DOMAIN g = 0 .. n
    OBVIOUS
  <2> HIDE DEF g
  <2>7. ASSUME NEW m \in 0 .. n
        PROVE  g[m] = IF m = 0 THEN first ELSE g[m - 1] + widths[m]
    <3>1. CASE m = n
      BY <1>4, <2>5, <3>1
    <3>2. CASE m \in 0 .. n - 1 /\ m = 0
      BY <2>2, <2>4, <3>2 DEF AddsTo
    <3>3. CASE m \in 0 .. n - 1 /\ m # 0
      <4>1. m - 1 \in 0 .. n - 1
        BY <1>2, <3>3
      <4> QED
        BY <2>2, <2>4, <3>3, <4>1 DEF AddsTo
    <3> QED
      BY <2>3, <3>1, <3>2, <3>3
  <2>8. AddsTo(g, n, first, widths)
    BY <2>6, <2>7 DEF AddsTo
  <2> QED
    BY <1>2, <2>8
<1> QED
  BY <1>2, <1>3, <1>4

LEMMA EndsAdd ==
  ASSUME NEW first \in Nat, NEW widths \in Seq(Nat)
  PROVE  /\ Ends(first, widths)[0] = first
         /\ \A j \in 1 .. Len(widths) : Ends(first, widths)[j] = Ends(first, widths)[j - 1] + widths[j]
<1>1. Len(widths) \in Nat
  OBVIOUS
<1>2. PICK g : AddsTo(g, Len(widths), first, widths)
  BY <1>1, SumsExist
<1>3. Adds([j \in 0 .. Len(widths) |-> g[j]], first, widths)
  <2> DEFINE f == [j \in 0 .. Len(widths) |-> g[j]]
  <2>1. \A j \in 0 .. Len(widths) : j # 0 => j - 1 \in 0 .. Len(widths)
    BY <1>1
  <2>2. \A j \in 0 .. Len(widths) : f[j] = IF j = 0 THEN first ELSE f[j - 1] + widths[j]
    BY <1>2, <2>1 DEF AddsTo
  <2>3. f = [j \in 0 .. Len(widths) |-> f[j]]
    OBVIOUS
  <2> HIDE DEF f
  <2> QED
    BY <2>2, <2>3 DEF Adds
<1> DEFINE e == CHOOSE h : Adds(h, first, widths)
<1>4. Adds(e, first, widths)
  BY <1>3
<1>5. Ends(first, widths) = e
  BY DEF Ends, Adds
<1> HIDE DEF e
<1>6. \A j \in 0 .. Len(widths) : e[j] = IF j = 0 THEN first ELSE e[j - 1] + widths[j]
  BY <1>4 DEF Adds
<1>7. 0 \in 0 .. Len(widths) /\ \A j \in 1 .. Len(widths) : j \in 0 .. Len(widths) /\ j # 0
  BY <1>1
<1> QED
  BY <1>5, <1>6, <1>7

\* The ends are numbers, in their order.
LEMMA EndsGrow ==
  ASSUME NEW first \in Nat, NEW widths \in Seq(Nat), NEW e, e = Ends(first, widths)
  PROVE  \A j \in 0 .. Len(widths) : e[j] \in Nat /\ \A i \in 0 .. j : e[i] \in Nat /\ e[i] <= e[j]
<1> DEFINE Good(j) == e[j] \in Nat /\ \A i \in 0 .. j : e[i] \in Nat /\ e[i] <= e[j]
           Bad == {j \in 0 .. Len(widths) : ~Good(j)}
<1> SUFFICES ASSUME Bad # {} PROVE FALSE
  OBVIOUS
<1>0. Len(widths) \in Nat /\ \A j \in 1 .. Len(widths) : widths[j] \in Nat
  OBVIOUS
<1>1. PICK n \in Bad : \A m \in Bad : n <= m
  <2>1. Bad \subseteq Nat
    OBVIOUS
  <2> HIDE DEF Bad
  <2> QED
    BY <2>1, LeastNat
<1>2. n \in Nat /\ n \in 0 .. Len(widths) /\ ~Good(n)
  OBVIOUS
<1>3. CASE n = 0
  <2>1. e[0] = first /\ \A i \in 0 .. 0 : i = 0
    BY EndsAdd
  <2> QED
    BY <1>2, <1>3, <2>1
<1>4. CASE n > 0
  <2>1. n - 1 \in 0 .. Len(widths) /\ n \in 1 .. Len(widths) /\ n - 1 \notin Bad
    BY <1>0, <1>1, <1>2, <1>4
  <2>2. Good(n - 1)
    BY <2>1
  <2>3. e[n] = e[n - 1] + widths[n] /\ widths[n] \in Nat
    BY <1>0, <2>1, EndsAdd
  <2>4. e[n] \in Nat /\ e[n - 1] \in Nat /\ e[n - 1] <= e[n]
    BY <2>2, <2>3
  <2>5. \A i \in 0 .. n : i = n \/ i \in 0 .. n - 1
    BY <1>2
  <2>6. ASSUME NEW i \in 0 .. n
        PROVE  e[i] \in Nat /\ e[i] <= e[n]
    <3>1. CASE i = n
      BY <2>4, <3>1
    <3>2. CASE i \in 0 .. n - 1
      <4>1. e[i] \in Nat /\ e[i] <= e[n - 1]
        BY <2>2, <3>2
      <4> QED
        BY <2>4, <4>1
    <3> QED
      BY <2>5, <3>1, <3>2
  <2> QED
    BY <1>2, <2>4, <2>6
<1> QED
  BY <1>2, <1>3, <1>4

LEMMA TidyRow ==
  ASSUME NEW first \in Nat, NEW widths \in Seq(Nat)
  PROVE  /\ Ends(first, widths)[Len(widths)] \in Nat
         /\ first <= Ends(first, widths)[Len(widths)]
         /\ Tidy(InRow(first, widths), first, Ends(first, widths)[Len(widths)])
<1> DEFINE e == Ends(first, widths)
<1>0. Len(widths) \in Nat /\ DOMAIN widths = 1 .. Len(widths) /\ \A j \in 1 .. Len(widths) : widths[j] \in Nat
  OBVIOUS
<1>1. e[0] = first /\ \A j \in 1 .. Len(widths) : e[j] = e[j - 1] + widths[j]
  BY EndsAdd
<1>2. \A j \in 0 .. Len(widths) : e[j] \in Nat /\ \A i \in 0 .. j : e[i] \in Nat /\ e[i] <= e[j]
  BY EndsGrow
<1>3. InRow(first, widths) = {<<e[i - 1], widths[i]>> : i \in 1 .. Len(widths)}
  BY <1>0 DEF InRow
<1> HIDE DEF e
<1>4. ASSUME NEW i \in 1 .. Len(widths)
      PROVE  /\ <<e[i - 1], widths[i]>> \in Int \X Int
             /\ first <= e[i - 1] /\ widths[i] >= 0 /\ e[i - 1] + widths[i] <= e[Len(widths)]
  <2>1. i - 1 \in 0 .. Len(widths) /\ 0 \in 0 .. i - 1 /\ i \in 0 .. Len(widths)
        /\ Len(widths) \in 0 .. Len(widths)
    BY <1>0
  <2>2. e[i - 1] \in Nat /\ e[0] <= e[i - 1] /\ e[i] <= e[Len(widths)]
    BY <1>2, <2>1
  <2> QED
    BY <1>0, <1>1, <2>2
<1>5. ASSUME NEW i \in 1 .. Len(widths), NEW j \in 1 .. Len(widths), i # j
      PROVE  ~Overlap2(<<e[i - 1], widths[i]>>, <<e[j - 1], widths[j]>>)
  <2>1. e[i] = e[i - 1] + widths[i] /\ e[j] = e[j - 1] + widths[j]
    BY <1>1
  <2>2. i - 1 \in 0 .. Len(widths) /\ j - 1 \in 0 .. Len(widths)
        /\ (i \in 0 .. j - 1 \/ j \in 0 .. i - 1)
    BY <1>0, <1>5
  <2>3. e[i] <= e[j - 1] \/ e[j] <= e[i - 1]
    BY <1>2, <2>2
  <2>4. e[i - 1] \in Nat /\ e[j - 1] \in Nat /\ widths[i] \in Nat /\ widths[j] \in Nat
    BY <1>0, <1>2, <2>2
  <2> QED
    BY <2>1, <2>3, <2>4 DEF Overlap2
<1>6. e[Len(widths)] \in Nat /\ first <= e[Len(widths)]
  <2>1. Len(widths) \in 0 .. Len(widths) /\ 0 \in 0 .. Len(widths)
    BY <1>0
  <2> QED
    BY <1>1, <1>2, <2>1
<1>7. Tidy(InRow(first, widths), first, e[Len(widths)])
  <2>1. \A p \in InRow(first, widths) : \E i \in 1 .. Len(widths) : p = <<e[i - 1], widths[i]>>
    BY <1>3
  <2>2. ASSUME NEW p \in InRow(first, widths)
        PROVE  p \in Int \X Int /\ first <= p[1] /\ p[2] >= 0 /\ p[1] + p[2] <= e[Len(widths)]
    <3>1. PICK i \in 1 .. Len(widths) : p = <<e[i - 1], widths[i]>>
      BY <2>1
    <3>2. p[1] = e[i - 1] /\ p[2] = widths[i]
      BY <3>1
    <3> QED
      BY <1>4, <3>1, <3>2
  <2>3. ASSUME NEW p \in InRow(first, widths), NEW q \in InRow(first, widths), p # q
        PROVE  ~Overlap2(p, q)
    BY <1>5, <2>1, <2>3
  <2> QED
    BY <2>2, <2>3 DEF Tidy
<1> QED
  BY <1>6, <1>7 DEF e
-----------------------------------------------------------------------------
(* The messages *)

LEMMA TidyMmsi ==
  ASSUME NEW b \in Int, NEW S, Tidy(S, 38, b), b >= 38
  PROVE  Tidy({Mmsi} \union S, 8, b)
<1>1. Tidy({<<8, 30>>}, 8, 38)
  BY DEF Tidy
<1> QED
  BY <1>1, TidyUnion DEF Mmsi

LEMMA TidyReport ==
  ASSUME NEW t \in Int
  PROVE  Tidy(PositionReport(t), 38, 137)
<1>1. CASE t <= 3
  <2>1. Tidy(Shifted({<<46, 10>>, <<56, 1>>, <<112, 12>>, <<124, 9>>} \union Position(57, 85), 4), 50, 137)
    BY TidyTwo, TidyShifted
  <2>2. Tidy({<<38, 4>>}, 38, 50)
    BY DEF Tidy
  <2> QED
    BY <1>1, <2>1, <2>2, TidyUnion DEF PositionReport
<1>2. CASE ~(t <= 3)
  <2>1. Tidy(Shifted({<<46, 10>>, <<56, 1>>, <<112, 12>>, <<124, 9>>} \union Position(57, 85), 0), 46, 133)
    BY TidyTwo, TidyShifted
  <2> QED
    BY <1>2, <2>1, TidyMore DEF PositionReport
<1> QED
  BY <1>1, <1>2

LEMMA BaseStationRow == Ends(38, <<14, 4, 5, 5, 6, 6>>)[6] = 78
<1>0. PICK c \in Nat : c = 38
  OBVIOUS
<1> DEFINE w == <<14, 4, 5, 5, 6, 6>>
<1>1. w \in Seq(Nat) /\ Len(w) = 6
  OBVIOUS
<1>2. w[1] = 14 /\ w[2] = 4 /\ w[3] = 5 /\ w[4] = 5 /\ w[5] = 6 /\ w[6] = 6
  OBVIOUS
<1> HIDE DEF w
<1>3. Ends(c, w)[0] = c /\ \A j \in 1 .. 6 : Ends(c, w)[j] = Ends(c, w)[j - 1] + w[j]
  <2>1. /\ Ends(c, w)[0] = c
        /\ \A j \in 1 .. Len(w) : Ends(c, w)[j] = Ends(c, w)[j - 1] + w[j]
    BY <1>1, EndsAdd
  <2> QED
    BY <1>1, <2>1
<1>4. /\ Ends(c, w)[1] = Ends(c, w)[0] + w[1]
      /\ Ends(c, w)[2] = Ends(c, w)[1] + w[2]
      /\ Ends(c, w)[3] = Ends(c, w)[2] + w[3]
      /\ Ends(c, w)[4] = Ends(c, w)[3] + w[4]
      /\ Ends(c, w)[5] = Ends(c, w)[4] + w[5]
      /\ Ends(c, w)[6] = Ends(c, w)[5] + w[6]
  BY <1>3
<1>5. Ends(c, w)[6] = 78
  BY <1>0, <1>2, <1>3, <1>4
<1> QED
  BY <1>0, <1>5 DEF w

LEMMA SarRow == Ends(38, <<12, 10>>)[2] = 60
<1>0. PICK c \in Nat : c = 38
  OBVIOUS
<1> DEFINE w == <<12, 10>>
<1>1. w \in Seq(Nat) /\ Len(w) = 2 /\ w[1] = 12 /\ w[2] = 10
  OBVIOUS
<1> HIDE DEF w
<1>2. Ends(c, w)[0] = c /\ \A j \in 1 .. 2 : Ends(c, w)[j] = Ends(c, w)[j - 1] + w[j]
  <2>1. /\ Ends(c, w)[0] = c
        /\ \A j \in 1 .. Len(w) : Ends(c, w)[j] = Ends(c, w)[j - 1] + w[j]
    BY <1>1, EndsAdd
  <2> QED
    BY <1>1, <2>1
<1>3. Ends(c, w)[1] = Ends(c, w)[0] + w[1] /\ Ends(c, w)[2] = Ends(c, w)[1] + w[2]
  BY <1>2
<1>4. Ends(c, w)[2] = 60
  BY <1>0, <1>1, <1>2, <1>3
<1> QED
  BY <1>0, <1>4 DEF w

LEMMA RouteRow == Ends(0, <<10, 2, 4, 4, 5, 5, 6, 18, 5>>)[9] = 59
<1> DEFINE w == <<10, 2, 4, 4, 5, 5, 6, 18, 5>>
<1>1. w \in Seq(Nat) /\ Len(w) = 9
  OBVIOUS
<1>2. /\ w[1] = 10 /\ w[2] = 2 /\ w[3] = 4 /\ w[4] = 4 /\ w[5] = 5
      /\ w[6] = 5 /\ w[7] = 6 /\ w[8] = 18 /\ w[9] = 5
  OBVIOUS
<1> HIDE DEF w
<1>3. Ends(0, w)[0] = 0 /\ \A j \in 1 .. 9 : Ends(0, w)[j] = Ends(0, w)[j - 1] + w[j]
  <2>1. /\ Ends(0, w)[0] = 0
        /\ \A j \in 1 .. Len(w) : Ends(0, w)[j] = Ends(0, w)[j - 1] + w[j]
    BY <1>1, EndsAdd
  <2> QED
    BY <1>1, <2>1
<1>4. /\ Ends(0, w)[1] = Ends(0, w)[0] + w[1]
      /\ Ends(0, w)[2] = Ends(0, w)[1] + w[2]
      /\ Ends(0, w)[3] = Ends(0, w)[2] + w[3]
      /\ Ends(0, w)[4] = Ends(0, w)[3] + w[4]
      /\ Ends(0, w)[5] = Ends(0, w)[4] + w[5]
      /\ Ends(0, w)[6] = Ends(0, w)[5] + w[6]
      /\ Ends(0, w)[7] = Ends(0, w)[6] + w[7]
      /\ Ends(0, w)[8] = Ends(0, w)[7] + w[8]
      /\ Ends(0, w)[9] = Ends(0, w)[8] + w[9]
  BY <1>3
<1>5. Ends(0, w)[9] = 59
  BY <1>2, <1>3, <1>4
<1> QED
  BY <1>5 DEF w

LEMMA TidyBase == Tidy(BaseStation, 38, 134)
<1>1. <<14, 4, 5, 5, 6, 6>> \in Seq(Nat) /\ Len(<<14, 4, 5, 5, 6, 6>>) = 6
  OBVIOUS
<1>2. Tidy(InRow(38, <<14, 4, 5, 5, 6, 6>>), 38, 78)
  <2> DEFINE w == <<14, 4, 5, 5, 6, 6>>
  <2>1. w \in Seq(Nat) /\ Len(w) = 6 /\ Ends(38, w)[6] = 78
    BY <1>1, BaseStationRow
  <2> HIDE DEF w
  <2>2. Tidy(InRow(38, w), 38, Ends(38, w)[Len(w)])
    BY <2>1, TidyRow
  <2>3. Tidy(InRow(38, w), 38, 78)
    BY <2>1, <2>2
  <2> QED
    BY <2>3 DEF w
<1>3. Tidy(Position(79, 107), 78, 134)
  BY DEF Tidy, Position, Overlap2
<1> QED
  BY <1>2, <1>3, TidyUnion DEF BaseStation

LEMMA TidySar == Tidy(SarPosition, 38, 128)
<1>2. Tidy(InRow(38, <<12, 10>>), 38, 60)
  <2> DEFINE w == <<12, 10>>
  <2>1. w \in Seq(Nat) /\ Len(w) = 2 /\ Ends(38, w)[2] = 60
    BY SarRow
  <2> HIDE DEF w
  <2>2. Tidy(InRow(38, w), 38, Ends(38, w)[Len(w)])
    BY <2>1, TidyRow
  <2>3. Tidy(InRow(38, w), 38, 60)
    BY <2>1, <2>2
  <2> QED
    BY <2>3 DEF w
<1>3. Tidy(Position(61, 89) \union {<<116, 12>>}, 60, 128)
  BY DEF Tidy, Position, Overlap2
<1>4. SarPosition = InRow(38, <<12, 10>>) \union (Position(61, 89) \union {<<116, 12>>})
  BY DEF SarPosition
<1> QED
  BY <1>2, <1>3, <1>4, TidyUnion

LEMMA TidyVoyage == Tidy(Voyage, 38, 422)
BY DEF Tidy, Voyage, Letters, Overlap2

LEMMA TidyAid == Tidy(AidToNavigation, 38, 219)
BY DEF Tidy, AidToNavigation, Letters, Position, Overlap2

LEMMA TidyStatic ==
  ASSUME NEW part
  PROVE  Tidy(Static24(part), 38, 160)
BY DEF Tidy, Static24, Letters, Overlap2

LEMMA TidyExtended == Tidy(ExtendedPosition, 38, 271)
BY DEF Tidy, ExtendedPosition, Letters, Position, Overlap2

LEMMA TidyUnknown ==
  ASSUME NEW f, f.bytes \in Nat
  PROVE  Tidy(IF f.bytes >= 5 THEN {Mmsi} ELSE {}, 8, 8 * f.bytes)
BY DEF Tidy, Mmsi

\* What is told of a message of a known type lies within its bytes.
LEMMA AisTidy ==
  ASSUME NEW f, f.bytes \in Nat, f.type \in Int, AisTakes(f)
  PROVE  Tidy(AisFields(f), 8, 8 * f.bytes)
<1>1. CASE f.type \in {1, 2, 3, 18}
  <2>1. f.bytes >= 21 /\ AisFields(f) = {Mmsi} \union PositionReport(f.type)
    BY <1>1 DEF AisTakes, AisMinBytes, AisFields
  <2>2. Tidy({Mmsi} \union PositionReport(f.type), 8, 137)
    BY TidyReport, TidyMmsi
  <2> QED
    BY <2>1, <2>2, TidyMore
<1>2. CASE f.type = 4
  <2>1. f.bytes >= 21 /\ AisFields(f) = {Mmsi} \union BaseStation
    BY <1>2 DEF AisTakes, AisMinBytes, AisFields
  <2>2. Tidy({Mmsi} \union BaseStation, 8, 134)
    BY TidyBase, TidyMmsi
  <2> QED
    BY <2>1, <2>2, TidyMore
<1>3. CASE f.type = 5
  <2>1. f.bytes >= 53 /\ AisFields(f) = {Mmsi} \union Voyage
    BY <1>3 DEF AisTakes, AisMinBytes, AisFields
  <2>2. Tidy({Mmsi} \union Voyage, 8, 422)
    BY TidyVoyage, TidyMmsi
  <2> QED
    BY <2>1, <2>2, TidyMore
<1>4. CASE f.type = 9
  <2>1. f.bytes >= 21 /\ AisFields(f) = {Mmsi} \union SarPosition
    BY <1>4 DEF AisTakes, AisMinBytes, AisFields
  <2>2. Tidy({Mmsi} \union SarPosition, 8, 128)
    BY TidySar, TidyMmsi
  <2> QED
    BY <2>1, <2>2, TidyMore
<1>5. CASE f.type = 19
  <2>1. f.bytes >= 39 /\ AisFields(f) = {Mmsi} \union ExtendedPosition
    BY <1>5 DEF AisTakes, AisMinBytes, AisFields
  <2>2. Tidy({Mmsi} \union ExtendedPosition, 8, 271)
    BY TidyExtended, TidyMmsi
  <2> QED
    BY <2>1, <2>2, TidyMore
<1>6. CASE f.type = 21
  <2>1. f.bytes >= 34 /\ AisFields(f) = {Mmsi} \union AidToNavigation
    BY <1>6 DEF AisTakes, AisMinBytes, AisFields
  <2>2. Tidy({Mmsi} \union AidToNavigation, 8, 219)
    BY TidyAid, TidyMmsi
  <2> QED
    BY <2>1, <2>2, TidyMore
<1>7. CASE f.type = 24
  <2>1. f.bytes >= 20 /\ AisFields(f) = {Mmsi} \union Static24(f.part)
    BY <1>7 DEF AisTakes, AisMinBytes, AisFields
  <2>2. Tidy({Mmsi} \union Static24(f.part), 8, 160)
    BY TidyStatic, TidyMmsi
  <2> QED
    BY <2>1, <2>2, TidyMore
<1>8. CASE f.type \notin {1, 2, 3, 18, 4, 5, 9, 19, 21, 24}
  <2>1. AisFields(f) = IF f.bytes >= 5 THEN {Mmsi} ELSE {}
    BY <1>8 DEF AisFields
  <2> QED
    BY <2>1, TidyUnknown
<1> QED
  BY <1>1, <1>2, <1>3, <1>4, <1>5, <1>6, <1>7, <1>8

LEMMA AsmTidy ==
  ASSUME NEW f, f.bytes \in Nat, f.type \in Int, AsmTakes(f), f.type \notin Binary
  PROVE  Tidy(AsmFields(f), 8, 8 * f.bytes)
<1> USE DEF Binary
<1>1. CASE f.type \in {1, 2, 3, 18}
  <2>1. /\ f.bytes >= 21
        /\ AsmFields(f) = {Mmsi} \union (PositionReport(f.type) \ {<<38, 4>>, <<56, 1>>, <<60, 1>>})
    BY <1>1 DEF AsmTakes, AsmFields
  <2>2. Tidy({Mmsi} \union PositionReport(f.type), 8, 137)
    BY TidyReport, TidyMmsi
  <2>3. Tidy(AsmFields(f), 8, 137)
    BY <2>1, <2>2, TidyPart
  <2> QED
    BY <2>1, <2>3, TidyMore
<1>2. CASE f.type = 4
  <2>1. f.bytes >= 21 /\ AsmFields(f) = {Mmsi} \union (BaseStation \ {<<72, 6>>})
    BY <1>2 DEF AsmTakes, AsmFields
  <2>2. Tidy({Mmsi} \union BaseStation, 8, 134)
    BY TidyBase, TidyMmsi
  <2>3. Tidy(AsmFields(f), 8, 134)
    BY <2>1, <2>2, TidyPart
  <2> QED
    BY <2>1, <2>3, TidyMore
<1>3. CASE f.type = 5
  <2>1. f.bytes >= 53 /\ AsmFields(f) = {Mmsi} \union (Voyage \ {<<232, 8>>, <<294, 8>>})
    BY <1>3 DEF AsmTakes, AsmFields
  <2>2. Tidy({Mmsi} \union Voyage, 8, 422)
    BY TidyVoyage, TidyMmsi
  <2>3. Tidy(AsmFields(f), 8, 422)
    BY <2>1, <2>2, TidyPart
  <2> QED
    BY <2>1, <2>3, TidyMore
<1>4. CASE f.type = 21
  <2>1. f.bytes >= 34 /\ AsmFields(f) = {Mmsi} \union AidToNavigation
    BY <1>4 DEF AsmTakes, AsmFields
  <2>2. Tidy({Mmsi} \union AidToNavigation, 8, 219)
    BY TidyAid, TidyMmsi
  <2> QED
    BY <2>1, <2>2, TidyMore
<1>5. CASE f.type = 24
  <2>1. f.bytes >= 20 /\ AsmFields(f) = {Mmsi} \union Static24(f.part)
    BY <1>5 DEF AsmTakes, AsmFields
  <2>2. Tidy({Mmsi} \union Static24(f.part), 8, 160)
    BY TidyStatic, TidyMmsi
  <2> QED
    BY <2>1, <2>2, TidyMore
<1>6. CASE f.type \notin {1, 2, 3, 18, 4, 5, 21, 24}
  <2>1. AsmFields(f) = IF f.bytes >= 5 THEN {Mmsi} ELSE {}
    BY <1>6 DEF AsmFields
  <2> QED
    BY <2>1, TidyUnknown
<1> QED
  BY <1>1, <1>2, <1>3, <1>4, <1>5, <1>6

-----------------------------------------------------------------------------
(* What asm_decoder tells of a binary message *)

\* Fields from the bit a on.
TidyFrom(S, a) == \E b \in Int : a <= b /\ Tidy(S, a, b)

LEMMA RowFrom ==
  ASSUME NEW off \in Nat, NEW widths \in Seq(Nat)
  PROVE  TidyFrom(Shifted(InRow(0, widths), off), off)
<1> DEFINE last == Ends(0, widths)[Len(widths)]
<1>1. last \in Nat /\ 0 <= last /\ Tidy(InRow(0, widths), 0, last)
  BY TidyRow
<1> HIDE DEF last
<1>2. Tidy(Shifted(InRow(0, widths), off), off + 0, off + last)
  BY <1>1, TidyShifted
<1>3. off + last \in Int /\ off <= off + last /\ off + 0 = off
  BY <1>1
<1> QED
  BY <1>2, <1>3 DEF TidyFrom

LEMMA OneFrom ==
  ASSUME NEW off \in Nat, NEW n \in Nat
  PROVE  TidyFrom({<<off, n>>}, off)
<1>1. Tidy({<<off, n>>}, off, off + n)
  BY DEF Tidy
<1>2. off + n \in Int /\ off <= off + n
  OBVIOUS
<1> QED
  BY <1>1, <1>2 DEF TidyFrom

LEMMA FromUnion ==
  ASSUME NEW a \in Int, NEW b \in Int, a <= b, NEW S, NEW T, Tidy(S, a, b), TidyFrom(T, b)
  PROVE  TidyFrom(S \union T, a)
<1>1. PICK c \in Int : b <= c /\ Tidy(T, b, c)
  BY DEF TidyFrom
<1>2. Tidy(S \union T, a, c) /\ a <= c
  BY <1>1, TidyUnion
<1> QED
  BY <1>2 DEF TidyFrom

LEMMA NoneFrom ==
  ASSUME NEW a \in Int
  PROVE  TidyFrom({}, a)
<1>1. Tidy({}, a, a)
  BY DEF Tidy
<1> QED
  BY <1>1 DEF TidyFrom

LEMMA LettersFrom ==
  ASSUME NEW f, f.bytes \in Nat, NEW from \in Nat
  PROVE  TidyFrom(LettersLeft(f, from), from)
<1> DEFINE n == (8 * f.bytes - from) \div 6
           m == IF n > 63 THEN 63 ELSE n
<1>1. n \in Int
  OBVIOUS
<1>2. LettersLeft(f, from) = IF n < 0 THEN {} ELSE {<<from, 6 * m>>}
  BY DEF LettersLeft, Letters
<1> HIDE DEF n
<1>3. CASE n < 0
  BY <1>2, <1>3, NoneFrom
<1>4. CASE ~(n < 0)
  <2>1. 6 * m \in Nat
    BY <1>1, <1>4
  <2> HIDE DEF m
  <2> QED
    BY <1>2, <1>4, <2>1, OneFrom
<1> QED
  BY <1>1, <1>3, <1>4

LEMMA RouteFrom ==
  ASSUME NEW off \in Nat, NEW n \in Int
  PROVE  TidyFrom(Shifted(Route(n), off), off)
<1> DEFINE w == <<10, 2, 4, 4, 5, 5, 6, 18, 5>>
           v == <<28, 27>>
<1>1. w \in Seq(Nat) /\ Len(w) = 9 /\ Ends(0, w)[9] = 59 /\ v \in Seq(Nat) /\ 59 \in Nat
  BY RouteRow
<1>2. Route(n) = InRow(0, w) \union (IF n > 0 THEN InRow(59, v) ELSE {})
  BY DEF Route
<1> HIDE DEF w, v
<1>3. Tidy(InRow(0, w), 0, 59)
  <2>1. Tidy(InRow(0, w), 0, Ends(0, w)[Len(w)])
    BY <1>1, TidyRow
  <2> QED
    BY <1>1, <2>1
<1>4. TidyFrom(IF n > 0 THEN InRow(59, v) ELSE {}, 59)
  <2>0. PICK c \in Nat : c = 59
    OBVIOUS
  <2> DEFINE last == Ends(c, v)[Len(v)]
  <2>1. last \in Nat /\ c <= last /\ Tidy(InRow(c, v), c, last)
    BY <1>1, TidyRow
  <2> HIDE DEF last
  <2>2. TidyFrom(InRow(c, v), c)
    BY <2>1 DEF TidyFrom
  <2>3. TidyFrom({}, c)
    BY NoneFrom
  <2> QED
    BY <2>0, <2>2, <2>3
<1>5. PICK last \in Int : 0 <= last /\ Tidy(Route(n), 0, last)
  <2> DEFINE leg == IF n > 0 THEN InRow(59, v) ELSE {}
             row == InRow(0, w)
  <2>1. Tidy(row, 0, 59) /\ TidyFrom(leg, 59) /\ Route(n) = row \union leg
    BY <1>2, <1>3, <1>4
  <2> HIDE DEF leg, row
  <2>2. TidyFrom(row \union leg, 0)
    BY <2>1, FromUnion
  <2> QED
    BY <2>1, <2>2 DEF TidyFrom
<1>6. Tidy(Shifted(Route(n), off), off + 0, off + last)
  BY <1>5, TidyShifted
<1>7. off + last \in Int /\ off <= off + last /\ off + 0 = off
  BY <1>5
<1> QED
  BY <1>6, <1>7 DEF TidyFrom

\* The application data stand behind the header, whatever they are.
LEMMA FunctionFrom ==
  ASSUME NEW f, f.bytes \in Nat, f.waypoints \in Int, NEW off \in Nat
  PROVE  TidyFrom(Function(f, off), off)
<1>1. CASE f.fi \in {11, 21}
  <2>1. <<7, 7, 9, 9, 11, 7, 10, 9, 4, 8, 3, 9, 2>> \in Seq(Nat)
    OBVIOUS
  <2>2. Function(f, off) = Shifted(InRow(0, <<7, 7, 9, 9, 11, 7, 10, 9, 4, 8, 3, 9, 2>>), off)
    BY <1>1 DEF Function, MetHydro
  <2> QED
    BY <2>1, <2>2, RowFrom
<1>2. CASE f.fi = 13
  <2>1. <<120, 5, 5, 6, 5, 5, 6>> \in Seq(Nat)
    OBVIOUS
  <2>2. Function(f, off) = Shifted(InRow(0, <<120, 5, 5, 6, 5, 5, 6>>), off)
    BY <1>2 DEF Function, FairwayClosed
  <2> QED
    BY <2>1, <2>2, RowFrom
<1>3. CASE f.fi = 16
  <2>1. Function(f, off) = {<<off, 13>>}
    BY <1>3 DEF Function
  <2> QED
    BY <2>1, OneFrom
<1>4. CASE f.fi = 17
  <2>1. Function(f, off) = {<<off, 10>>} \union LettersLeft(f, off + 10)
    BY <1>4 DEF Function
  <2>2. TidyFrom(LettersLeft(f, off + 10), off + 10) /\ Tidy({<<off, 10>>}, off, off + 10)
    BY LettersFrom, TidyOne
  <2> QED
    BY <2>1, <2>2, FromUnion
<1>5. CASE f.fi = 22
  <2>1. <<10, 7, 4, 5, 5, 6, 18>> \in Seq(Nat)
    OBVIOUS
  <2>2. Function(f, off) = Shifted(InRow(0, <<10, 7, 4, 5, 5, 6, 18>>), off)
    BY <1>5 DEF Function, AreaNotice
  <2> QED
    BY <2>1, <2>2, RowFrom
<1>6. CASE f.fi = 26
  <2>1. Function(f, off) = {<<off, 4>>}
    BY <1>6 DEF Function
  <2> QED
    BY <2>1, OneFrom
<1>7. CASE f.fi = 27
  <2>1. Function(f, off) = Shifted(Route(f.waypoints), off)
    BY <1>7 DEF Function
  <2> QED
    BY <2>1, RouteFrom
<1>8. CASE f.fi = 28
  <2>1. Function(f, off) = {<<off, 2>>, <<off + 2, 1>>} \union LettersLeft(f, off + 6)
    BY <1>8 DEF Function
  <2>2. TidyFrom(LettersLeft(f, off + 6), off + 6)
    BY LettersFrom
  <2>3. Tidy({<<off, 2>>, <<off + 2, 1>>}, off, off + 6)
    BY DEF Tidy, Overlap2
  <2> QED
    BY <2>1, <2>2, <2>3, FromUnion
<1>9. CASE f.fi = 29
  <2>1. <<10, 84, 28, 27, 2, 5, 5, 6>> \in Seq(Nat)
    OBVIOUS
  <2>2. Function(f, off) = Shifted(InRow(0, <<10, 84, 28, 27, 2, 5, 5, 6>>), off)
    BY <1>9 DEF Function, TrafficSignal
  <2> QED
    BY <2>1, <2>2, RowFrom
<1>10. CASE f.fi = 31
  <2>1. <<25, 24, 1, 5, 5, 6, 7, 7, 9, 9, 11, 7, 10, 9, 4, 8, 9, 8, 6, 9, 10, 3, 9, 2>> \in Seq(Nat)
    OBVIOUS
  <2>2. Function(f, off) = Shifted(InRow(0,
          <<25, 24, 1, 5, 5, 6, 7, 7, 9, 9, 11, 7, 10, 9, 4, 8, 9, 8, 6, 9, 10, 3, 9, 2>>), off)
    BY <1>10 DEF Function, MetHydroLong
  <2> QED
    BY <2>1, <2>2, RowFrom
<1>11. CASE f.fi = 32
  <2>1. <<4, 5, 27, 28, 5, 6, 5, 6, 9, 8>> \in Seq(Nat)
    OBVIOUS
  <2>2. Function(f, off) = Shifted(InRow(0, <<4, 5, 27, 28, 5, 6, 5, 6, 9, 8>>), off)
    BY <1>11 DEF Function, TidalWindow
  <2> QED
    BY <2>1, <2>2, RowFrom
<1>12. CASE f.fi \notin {11, 21, 13, 16, 17, 22, 26, 27, 28, 29, 31, 32}
  <2> DEFINE left == f.bytes - off \div 8
             n == IF left < 60 THEN left ELSE 60
  <2>1. Function(f, off) = IF off \div 8 < f.bytes THEN {<<off, 8 * n>>} ELSE {}
    BY <1>12 DEF Function
  <2>2. off \div 8 \in Int
    OBVIOUS
  <2>3. CASE off \div 8 < f.bytes
    <3>1. left \in Nat
      BY <2>2, <2>3
    <3>2. 8 * n \in Nat
      BY <3>1
    <3> HIDE DEF n
    <3> QED
      BY <2>1, <2>3, <3>2, OneFrom
  <2>4. CASE ~(off \div 8 < f.bytes)
    BY <2>1, <2>4, NoneFrom
  <2> QED
    BY <2>3, <2>4
<1> QED
  BY <1>1, <1>2, <1>3, <1>4, <1>5, <1>6, <1>7, <1>8, <1>9, <1>10, <1>11, <1>12

LEMMA HeaderTidy ==
  /\ Tidy(Header(6), 8, 88) /\ Tidy(Header(8), 8, 56) /\ Tidy(Header(12), 8, 70)
  /\ Tidy(Header(14), 8, 38)
<1>1. Tidy(Header(6), 8, 88)
  BY DEF Tidy, Header, Mmsi, Overlap2
<1>2. Tidy(Header(8), 8, 56)
  BY DEF Tidy, Header, Mmsi, Overlap2
<1>3. Tidy(Header(12), 8, 70)
  BY DEF Tidy, Header, Mmsi, Overlap2
<1>4. Tidy(Header(14), 8, 38)
  BY DEF Tidy, Header, Mmsi, Overlap2
<1> QED
  BY <1>1, <1>2, <1>3, <1>4

LEMMA BinaryTidy ==
  ASSUME NEW f, f.bytes \in Nat, f.waypoints \in Int, f.type \in Binary
  PROVE  TidyFrom(AsmFields(f), 8)
<1>1. AsmFields(f) = Header(f.type) \union Body(f)
  BY DEF AsmFields, Binary
<1>2. CASE f.type = 6
  <2>1. Body(f) = Function(f, 88)
    BY <1>2 DEF Body
  <2>2. TidyFrom(Body(f), 88)
    BY <2>1, FunctionFrom
  <2> QED
    BY <1>1, <1>2, <2>2, HeaderTidy, FromUnion
<1>3. CASE f.type = 8
  <2>1. Body(f) = Function(f, 56)
    BY <1>3 DEF Body
  <2>2. TidyFrom(Body(f), 56)
    BY <2>1, FunctionFrom
  <2> QED
    BY <1>1, <1>3, <2>2, HeaderTidy, FromUnion
<1>4. CASE f.type = 12
  <2>1. Body(f) = LettersLeft(f, 72)
    BY <1>4 DEF Body
  <2>2. TidyFrom(Body(f), 72) /\ Tidy(Header(12), 8, 72)
    BY <2>1, LettersFrom, HeaderTidy, TidyMore
  <2> QED
    BY <1>1, <1>4, <2>2, FromUnion
<1>5. CASE f.type = 14
  <2>1. Body(f) = LettersLeft(f, 40)
    BY <1>5 DEF Body
  <2>2. TidyFrom(Body(f), 40) /\ Tidy(Header(14), 8, 40)
    BY <2>1, LettersFrom, HeaderTidy, TidyMore
  <2> QED
    BY <1>1, <1>5, <2>2, FromUnion
<1> QED
  BY <1>2, <1>3, <1>4, <1>5 DEF Binary

\* What is told of any frame, by either decoder.
Sound(told) ==
  /\ \A p, q \in told.fields : p # q => ~Overlap2(p, q)
  /\ told.by = "ais" \/ told.type \notin Binary =>
       \A p \in told.fields : p[1] + p[2] <= 8 * told.bytes
  /\ told.by = "asm" /\ told.type \in Binary =>
       \A p \in Header(told.type) : p[1] + p[2] <= 8 * told.bytes + 16

LEMMA UntoldSound == Sound(Untold)
BY DEF Sound, Untold, Binary

(* The header of a binary message lies within data and check sequence.      *)
LEMMA HeaderNearlyWhole ==
  ASSUME NEW f, f.bytes \in Nat, f.type \in Binary, AsmTakes(f)
  PROVE  \A p \in Header(f.type) : p[1] + p[2] <= 8 * f.bytes + 16
<1>1. CASE f.type = 6
  <2>1. f.bytes >= 10 /\ \A p \in Header(6) : p \in Int \X Int /\ p[1] + p[2] <= 88
    BY <1>1, HeaderTidy DEF AsmTakes, Tidy
  <2> QED
    BY <1>1, <2>1
<1>2. CASE f.type = 8
  <2>1. f.bytes >= 5 /\ \A p \in Header(8) : p \in Int \X Int /\ p[1] + p[2] <= 56
    BY <1>2, HeaderTidy DEF AsmTakes, Tidy
  <2> QED
    BY <1>2, <2>1
<1>3. CASE f.type = 12
  <2>1. f.bytes >= 8 /\ \A p \in Header(12) : p \in Int \X Int /\ p[1] + p[2] <= 70
    BY <1>3, HeaderTidy DEF AsmTakes, Tidy
  <2> QED
    BY <1>3, <2>1
<1>4. CASE f.type = 14
  <2>1. f.bytes >= 4 /\ \A p \in Header(14) : p \in Int \X Int /\ p[1] + p[2] <= 38
    BY <1>4, HeaderTidy DEF AsmTakes, Tidy
  <2> QED
    BY <1>4, <2>1
<1> QED
  BY <1>1, <1>2, <1>3, <1>4 DEF Binary

LEMMA AsmSound ==
  ASSUME NEW f, f.bytes \in Nat, f.waypoints \in Int, f.type \in Int, AsmTakes(f)
  PROVE  Sound(Tells("asm", f, AsmFields(f)))
<1>1. CASE f.type \in Binary
  <2>1. \A p, q \in AsmFields(f) : p # q => ~Overlap2(p, q)
    BY <1>1, BinaryTidy DEF TidyFrom, Tidy
  <2>2. \A p \in Header(f.type) : p[1] + p[2] <= 8 * f.bytes + 16
    BY <1>1, HeaderNearlyWhole
  <2> QED
    BY <1>1, <2>1, <2>2 DEF Sound, Tells
<1>2. CASE f.type \notin Binary
  <2>1. Tidy(AsmFields(f), 8, 8 * f.bytes)
    BY <1>2, AsmTidy
  <2> QED
    BY <1>2, <2>1 DEF Sound, Tells, Tidy
<1> QED
  BY <1>1, <1>2

LEMMA AisSound ==
  ASSUME NEW f, f.bytes \in Nat, f.type \in Int, AisTakes(f)
  PROVE  Sound(Tells("ais", f, AisFields(f)))
<1>1. Tidy(AisFields(f), 8, 8 * f.bytes)
  BY AisTidy
<1> QED
  BY <1>1 DEF Sound, Tells, Tidy

\* A frame is told within its bytes and no bit of it twice, whatever frames
\* are received by either decoder; a binary message may lack up to 16 bits of
\* its header in asm_decoder (ais_decoder.c:471, asm_decoder.c:641 and 871).
THEOREM FieldsStaySound == AisSpec => []FieldsSound
<1>1. AisInit => FieldsSound
  BY UntoldSound DEF AisInit, FieldsSound, Sound, InFrame
<1>2. FieldsSound /\ [AisNext]_aisVars => FieldsSound'
  <2> SUFFICES ASSUME FieldsSound, [AisNext]_aisVars PROVE FieldsSound'
    OBVIOUS
  <2>1. CASE AisNext
    <3>1. PICK t \in Types, n \in Sizes, part \in {0, 1}, fi \in Functions, w \in {0, 1} :
            AisReceive([type |-> t, bytes |-> n, part |-> part, fi |-> fi, waypoints |-> w])
      BY <2>1 DEF AisNext
    <3> DEFINE f == [type |-> t, bytes |-> n, part |-> part, fi |-> fi, waypoints |-> w]
    <3>2. f.bytes \in Nat /\ f.type \in Int /\ f.waypoints \in Int
      BY AisAssumption
    <3>3. AisReceives(f) \/ AsmReceives(f)
      BY <3>1 DEF AisReceive
    <3> HIDE DEF f
    <3>4. Sound(aisTold')
      BY <3>2, <3>3, UntoldSound, AsmSound, AisSound DEF AisReceives, AsmReceives
    <3> QED
      BY <3>4 DEF FieldsSound, Sound, InFrame
  <2>2. CASE UNCHANGED aisVars
    BY <2>2 DEF FieldsSound, InFrame, aisVars
  <2> QED
    BY <2>1, <2>2
<1> QED
  BY <1>1, <1>2, PTL DEF AisSpec

-----------------------------------------------------------------------------
(* The search for a sync word                                              *)
(*                                                                         *)
(* SyncWordsTold needs that the stream is never longer than what is kept   *)
(* of it, that a word that was sent is found where history has it, as it   *)
(* is or inverted, and that the search misses nothing: where the word in   *)
(* use is, is a candidate or is covered by one.                            *)

LEMMA MinOfTwo ==
  ASSUME NEW a \in Int, NEW b \in Int
  PROVE  Min({a, b}) \in {a, b} /\ Min({a, b}) <= a /\ Min({a, b}) <= b
<1>1. \E x \in {a, b} : \A y \in {a, b} : x <= y
  <2>1. CASE a <= b
    BY <2>1
  <2>2. CASE b <= a
    BY <2>2
  <2> QED
    BY <2>1, <2>2
<1> QED
  BY <1>1 DEF Min

LEMMA MaxOfTwo ==
  ASSUME NEW a \in Int, NEW b \in Int
  PROVE  Max({a, b}) \in {a, b} /\ Max({a, b}) >= a /\ Max({a, b}) >= b
<1>1. \E x \in {a, b} : \A y \in {a, b} : x >= y
  <2>1. CASE a <= b
    BY <2>1
  <2>2. CASE b <= a
    BY <2>2
  <2> QED
    BY <2>1, <2>2
<1> QED
  BY <1>1 DEF Max

-----------------------------------------------------------------------------
(* Errors *)

\* The word that was sent stands in the bits, as it is or inverted.
Stands(bits, at) ==
  \E flip \in {0, 1} :
    \A k \in 1 .. Len(SyncWord) : bits[at + k] = IF flip = 1 THEN 1 - SyncWord[k] ELSE SyncWord[k]

\* A word has as many errors in it where it was received as in the word itself.
LEMMA ErrorsSame ==
  ASSUME NEW bits \in Seq({0, 1}), NEW word \in Seq({0, 1}), SyncWord \in Seq({0, 1}),
         NEW at \in Nat, NEW i \in Nat, i + Len(word) <= Len(SyncWord), Stands(bits, at)
  PROVE  SyncErrors(bits, at + i, word) = SyncErrors(SyncWord, i, word)
<1> DEFINE D == DOMAIN word
           W == {k \in D : SyncWord[i + k] # word[k]}
           V == {k \in D : bits[at + i + k] # word[k]}
           n == Len(word)
<1>1. n \in Nat /\ D = 1 .. n /\ Len(SyncWord) \in Nat
  OBVIOUS
<1>2. IsFiniteSet(D) /\ Cardinality(D) = n
  <2> HIDE DEF n, D
  <2>1. IsFiniteSet(1 .. n) /\ Cardinality(1 .. n) = IF 1 > n THEN 0 ELSE n - 1 + 1
    BY <1>1, FS_Interval
  <2> QED
    BY <1>1, <2>1
<1>3. PICK flip \in {0, 1} :
        \A k \in 1 .. Len(SyncWord) : bits[at + k] = IF flip = 1 THEN 1 - SyncWord[k] ELSE SyncWord[k]
  BY DEF Stands
<1>4. ASSUME NEW k \in D
      PROVE  /\ i + k \in 1 .. Len(SyncWord) /\ at + i + k = at + (i + k)
             /\ SyncWord[i + k] \in {0, 1} /\ word[k] \in {0, 1}
             /\ bits[at + i + k] = IF flip = 1 THEN 1 - SyncWord[i + k] ELSE SyncWord[i + k]
  <2>1. i + k \in 1 .. Len(SyncWord) /\ at + i + k = at + (i + k)
    BY <1>1
  <2> QED
    BY <1>1, <1>3, <2>1
<1>5. Cardinality(W) \in Nat /\ Cardinality(W) <= n
  <2>1. W \in SUBSET D
    OBVIOUS
  <2> HIDE DEF W, D, n
  <2>2. IsFiniteSet(W) /\ Cardinality(W) <= Cardinality(D)
    BY <1>2, <2>1, FS_Subset
  <2> QED
    BY <1>2, <2>2, FS_CardinalityType
<1>6. CASE flip = 0
  <2>1. V = W
    BY <1>4, <1>6
  <2> HIDE DEF V, W
  <2> QED
    BY <2>1 DEF SyncErrors, V, W
<1>7. CASE flip = 1
  <2>1. V = D \ W
    <3>1. ASSUME NEW k \in D
          PROVE  bits[at + i + k] # word[k] <=> ~(SyncWord[i + k] # word[k])
      <4>1. PICK x \in {0, 1} : x = SyncWord[i + k]
        BY <1>4, <3>1
      <4>2. PICK y \in {0, 1} : y = word[k]
        BY <1>4, <3>1
      <4>3. bits[at + i + k] = 1 - x
        BY <1>4, <1>7, <3>1, <4>1
      <4>4. 1 - x # y <=> x = y
        OBVIOUS
      <4> QED
        BY <4>1, <4>2, <4>3, <4>4
    <3> QED
      BY <3>1
  <2>2. D \cap W = W
    OBVIOUS
  <2>3. Cardinality(V) = n - Cardinality(W)
    <3> HIDE DEF V, W, D, n
    <3>1. Cardinality(D \ W) = Cardinality(D) - Cardinality(D \cap W)
      BY <1>2, FS_Difference
    <3> QED
      BY <1>2, <2>1, <2>2, <3>1
  <2>4. SyncErrors(bits, at + i, word) = Min({Cardinality(V), n - Cardinality(V)})
    BY DEF SyncErrors
  <2>5. SyncErrors(SyncWord, i, word) = Min({Cardinality(W), n - Cardinality(W)})
    BY DEF SyncErrors
  <2> HIDE DEF V, W, D, n
  <2>6. {Cardinality(V), n - Cardinality(V)} = {Cardinality(W), n - Cardinality(W)}
    BY <1>1, <1>5, <2>3
  <2> QED
    BY <2>4, <2>5, <2>6
<1> QED
  BY <1>6, <1>7
-----------------------------------------------------------------------------
(* The search *)

Hit(s, i) == Fits(s.stream, i, s.word) /\ SyncErrors(s.stream, i, s.word) <= s.errors

\* What is found from a place on, when g says what is found behind it.
FoundFrom(g, s, i) ==
  IF ~Fits(s.stream, i, s.word) THEN {}
  ELSE IF SyncErrors(s.stream, i, s.word) <= s.errors
  THEN {[at |-> i, bits |-> CandidateBits(s, i)]} \union g[i + Len(s.word)]
  ELSE g[i + 1]

\* The search ends: what it finds from every place on is one function of places.
LEMMA SearchEnds ==
  ASSUME NEW s, Len(s.stream) \in Nat, Len(s.word) \in Nat, Len(s.word) > 0
  PROVE  \E g : g = [i \in Nat |-> FoundFrom(g, s, i)]
<1> DEFINE M == Len(s.stream) + 1
           Good(n) == \E g : DOMAIN g = Nat /\ \A i \in Nat : i + n >= M => g[i] = FoundFrom(g, s, i)
           Bad == {n \in Nat : ~Good(n)}
<1>1. M \in Nat
  OBVIOUS
<1>2. Good(M) => \E g : g = [i \in Nat |-> FoundFrom(g, s, i)]
  <2> SUFFICES ASSUME Good(M) PROVE \E g : g = [i \in Nat |-> FoundFrom(g, s, i)]
    OBVIOUS
  <2>1. PICK g : DOMAIN g = Nat /\ \A i \in Nat : i + M >= M => g[i] = FoundFrom(g, s, i)
    OBVIOUS
  <2>2. PICK h : h = [i \in Nat |-> g[i]]
    OBVIOUS
  <2>3. \A i \in Nat : g[i] = FoundFrom(g, s, i)
    BY <1>1, <2>1
  <2>4. ASSUME NEW i \in Nat
        PROVE  FoundFrom(h, s, i) = FoundFrom(g, s, i)
    <3>1. i + 1 \in Nat /\ i + Len(s.word) \in Nat
      OBVIOUS
    <3>2. h[i + 1] = g[i + 1] /\ h[i + Len(s.word)] = g[i + Len(s.word)]
      BY <2>2, <3>1
    <3> QED
      BY <3>2 DEF FoundFrom
  <2>5. \A i \in Nat : h[i] = FoundFrom(h, s, i)
    BY <2>2, <2>3, <2>4
  <2> QED
    BY <2>2, <2>5
<1> SUFFICES ASSUME Bad # {} PROVE FALSE
  BY <1>1, <1>2
<1>3. PICK n \in Bad : \A m \in Bad : n <= m
  <2>1. Bad \subseteq Nat
    OBVIOUS
  <2> HIDE DEF Bad
  <2> QED
    BY <2>1, LeastNat
<1>4. n \in Nat /\ ~Good(n)
  OBVIOUS
<1>5. CASE n = 0
  <2> DEFINE g == [i \in Nat |-> {}]
  <2>1. \A i \in Nat : i >= M => ~Fits(s.stream, i, s.word)
    BY DEF Fits
  <2>2. DOMAIN g = Nat /\ \A i \in Nat : i + n >= M => g[i] = FoundFrom(g, s, i)
    BY <1>5, <2>1 DEF FoundFrom
  <2> QED
    BY <1>4, <2>2
<1>6. CASE n > 0
  <2>1. n - 1 \in Nat /\ n - 1 \notin Bad
    <3>1. n - 1 \in Nat /\ ~(n <= n - 1)
      BY <1>4, <1>6
    <3> HIDE DEF Bad
    <3> QED
      BY <1>3, <3>1
  <2>2. PICK h : DOMAIN h = Nat /\ \A i \in Nat : i + (n - 1) >= M => h[i] = FoundFrom(h, s, i)
    BY <2>1
  <2>3. PICK k \in Int : k = M - n
    BY <1>1, <1>4
  <2>4. \A i \in Nat : i + n >= M => i = k \/ i + (n - 1) >= M
    BY <1>1, <1>4, <2>3
  <2>5. CASE k \notin Nat
    <3>1. \A i \in Nat : i + n >= M => h[i] = FoundFrom(h, s, i)
      BY <2>2, <2>4, <2>5
    <3> QED
      BY <1>4, <2>2, <3>1
  <2>6. CASE k \in Nat
    <3> DEFINE g == [i \in Nat |-> IF i = k THEN FoundFrom(h, s, k) ELSE h[i]]
    <3>1. \A i \in Nat : i # k => g[i] = h[i]
      OBVIOUS
    <3>2. g[k] = FoundFrom(h, s, k) /\ DOMAIN g = Nat
      BY <2>6
    <3> HIDE DEF g
    <3>3. ASSUME NEW i \in Nat, i + n >= M
          PROVE  FoundFrom(g, s, i) = FoundFrom(h, s, i)
      <4>1. i >= k
        BY <1>1, <1>4, <2>3, <3>3
      <4>2. /\ i + 1 \in Nat /\ i + 1 # k
            /\ i + Len(s.word) \in Nat /\ i + Len(s.word) # k
        BY <2>6, <4>1
      <4>3. g[i + 1] = h[i + 1] /\ g[i + Len(s.word)] = h[i + Len(s.word)]
        BY <3>1, <4>2
      <4> QED
        BY <4>3 DEF FoundFrom
    <3>4. ASSUME NEW i \in Nat, i + n >= M
          PROVE  g[i] = FoundFrom(g, s, i)
      <4>1. CASE i = k
        BY <3>2, <3>3, <3>4, <4>1
      <4>2. CASE i # k
        <5>1. h[i] = FoundFrom(h, s, i)
          BY <2>2, <2>4, <3>4, <4>2
        <5> QED
          BY <3>1, <3>3, <3>4, <4>2, <5>1
      <4> QED
        BY <4>1, <4>2
    <3> QED
      BY <1>4, <3>2, <3>4
  <2> QED
    BY <2>5, <2>6
<1> QED
  BY <1>4, <1>5, <1>6

LEMMA CandidatesAre ==
  ASSUME NEW s, Len(s.stream) \in Nat, Len(s.word) \in Nat, Len(s.word) > 0
  PROVE  \E g : g = [i \in Nat |-> FoundFrom(g, s, i)] /\ CandidatesOf(s) = g[0]
<1> DEFINE g == CHOOSE f : f = [i \in Nat |-> FoundFrom(f, s, i)]
<1>1. g = [i \in Nat |-> FoundFrom(g, s, i)]
  BY SearchEnds
<1>2. CandidatesOf(s) = g[0]
  BY DEF CandidatesOf, FoundFrom
<1> QED
  BY <1>1, <1>2

\* No hit is missed: it is a candidate, or one before it covers its start.
LEMMA HitsAreCovered ==
  ASSUME NEW s, Len(s.stream) \in Nat, Len(s.word) \in Nat, Len(s.word) > 0,
         NEW p \in Nat, Hit(s, p)
  PROVE  \E at \in 0 .. p : /\ p < at + Len(s.word)
                           /\ [at |-> at, bits |-> CandidateBits(s, at)] \in CandidatesOf(s)
<1>1. PICK g : g = [i \in Nat |-> FoundFrom(g, s, i)] /\ CandidatesOf(s) = g[0]
  BY CandidatesAre
<1>2. \A i \in Nat : g[i] = FoundFrom(g, s, i)
  BY <1>1
<1> DEFINE Covered(i) == \E at \in 0 .. p : /\ p < at + Len(s.word)
                                            /\ [at |-> at, bits |-> CandidateBits(s, at)] \in g[i]
           Bad == {n \in 0 .. p : ~Covered(p - n)}
<1>3. p \in 0 .. p /\ p - p = 0
  OBVIOUS
<1> SUFFICES ASSUME Bad # {} PROVE FALSE
  BY <1>1, <1>3
<1>4. PICK n \in Bad : \A m \in Bad : n <= m
  <2>1. Bad \subseteq Nat
    OBVIOUS
  <2> HIDE DEF Bad
  <2> QED
    BY <2>1, LeastNat
<1>5. n \in 0 .. p /\ ~Covered(p - n)
  OBVIOUS
<1>6. PICK i \in 0 .. p : i = p - n
  BY <1>5
<1>7. i \in Nat /\ Fits(s.stream, i, s.word)
  BY <1>6 DEF Hit, Fits
<1>8. ASSUME NEW j \in 0 .. p, j > i
      PROVE  Covered(j)
  <2>1. p - j \in 0 .. p /\ p - j < n /\ p - (p - j) = j
    BY <1>5, <1>6, <1>8
  <2>2. p - j \notin Bad
    <3>1. ~(n <= p - j)
      BY <1>5, <2>1
    <3> HIDE DEF Bad
    <3> QED
      BY <1>4, <3>1
  <2> HIDE DEF Covered
  <2> QED
    BY <2>1, <2>2
<1>9. CASE SyncErrors(s.stream, i, s.word) <= s.errors
  <2>1. g[i] = {[at |-> i, bits |-> CandidateBits(s, i)]} \union g[i + Len(s.word)]
    BY <1>2, <1>7, <1>9 DEF FoundFrom
  <2>2. CASE p < i + Len(s.word)
    <3>1. Covered(i)
      BY <1>6, <2>1, <2>2
    <3> QED
      BY <1>5, <1>6, <3>1
  <2>3. CASE ~(p < i + Len(s.word))
    <3>1. i + Len(s.word) \in 0 .. p /\ i + Len(s.word) > i
      BY <1>7, <2>3
    <3>2. Covered(i + Len(s.word))
      BY <1>8, <3>1
    <3>3. Covered(i)
      BY <2>1, <3>2
    <3> QED
      BY <1>5, <1>6, <3>3
  <2> QED
    BY <2>2, <2>3
<1>10. CASE ~(SyncErrors(s.stream, i, s.word) <= s.errors)
  <2>1. g[i] = g[i + 1]
    BY <1>2, <1>7, <1>10 DEF FoundFrom
  <2>2. i # p
    BY <1>10 DEF Hit
  <2>3. i + 1 \in 0 .. p /\ i + 1 > i
    BY <1>7, <2>2, <1>6
  <2>4. Covered(i + 1)
    BY <1>8, <2>3
  <2>5. Covered(i)
    BY <2>1, <2>4
  <2> QED
    BY <1>5, <1>6, <2>5
<1> QED
  BY <1>9, <1>10

-----------------------------------------------------------------------------
(* The tuning *)

SearchFields == {"stream", "word", "errors", "size", "blocks", "tune", "word_lock", "error_lock"}

\* What the search needs of its state, however it is tuned.
IsSearch(s) ==
  /\ DOMAIN s = SearchFields
  /\ s.stream \in Seq({0, 1}) /\ s.word \in WordsUsed
  /\ s.size \in Nat /\ s.size >= LeastCand

LEMMA WordOK ==
  ASSUME NEW w \in WordsUsed
  PROVE  w \in Seq({0, 1}) /\ Len(w) \in Nat /\ Len(w) > 0 /\ Len(w) <= KeepBits
BY SearchAssumption DEF SearchAssumption

LEMMA TunedKeeps ==
  ASSUME NEW s, IsSearch(s)
  PROVE  IsSearch(Autotuned(s)) /\ Autotuned(s).stream = s.stream
<1> DEFINE bits == Scanned(s.stream)
           best == CHOOSE w \in BestWord(bits) : TRUE
           limit == ChooseErrorLimit(bits, best.word)
<1>1. Autotuned(s) = s \/ (BestWord(bits) # {} /\ Autotuned(s) = Limited(Retuned(s, bits, best), limit))
  BY DEF Autotuned
<1>2. ASSUME BestWord(bits) # {}
      PROVE  best.word \in WordsUsed
  <2>1. best \in BestWord(bits)
    BY <1>2
  <2>2. PICK k \in DOMAIN TuneWords : best.word = TuneWords[k]
    <3> HIDE DEF best, bits
    <3>1. PICK k \in DOMAIN TuneWords : \E x : best = [word |-> TuneWords[k], score |-> x]
      BY <2>1 DEF BestWord
    <3> QED
      BY <3>1
  <2> QED
    BY <2>2 DEF WordsUsed, ToSet
<1> HIDE DEF bits, best, limit
<1>3. ASSUME BestWord(bits) # {}
      PROVE  IsSearch(Retuned(s, bits, best)) /\ Retuned(s, bits, best).stream = s.stream
  <2>1. Retuned(s, bits, best) \in {s, [s EXCEPT !.word = best.word]}
    BY DEF Retuned
  <2>2. PICK w \in WordsUsed : w = best.word
    BY <1>2, <1>3
  <2>3. IsSearch([s EXCEPT !.word = w]) /\ [s EXCEPT !.word = w].stream = s.stream
    BY DEF IsSearch, SearchFields
  <2> QED
    BY <2>1, <2>2, <2>3
<1>4. ASSUME NEW t, IsSearch(t)
      PROVE  IsSearch(Limited(t, limit)) /\ Limited(t, limit).stream = t.stream
  <2>1. \/ Limited(t, limit) = t
        \/ Limited(t, limit) = [t EXCEPT !.errors = t.errors + 1]
        \/ Limited(t, limit) = [t EXCEPT !.errors = t.errors - 1]
        \/ Limited(t, limit) = [t EXCEPT !.errors = limit]
    BY DEF Limited
  <2>2. \A e : IsSearch([t EXCEPT !.errors = e]) /\ [t EXCEPT !.errors = e].stream = t.stream
    BY <1>4 DEF IsSearch, SearchFields
  <2> QED
    BY <1>4, <2>1, <2>2
<1> QED
  BY <1>1, <1>3, <1>4

-----------------------------------------------------------------------------
(* Where the words are *)

BitAt(a, b, j) == IF j < Len(a) THEN a[j + 1] ELSE b[j - Len(a) + 1]

\* The word that was sent is at a place of the stream and what is to come.
Placed(a, b, at) ==
  /\ at \in Nat /\ at + Len(SyncWord) <= Len(a) + Len(b)
  /\ \E flip \in {0, 1} :
       \A k \in 1 .. Len(SyncWord) :
         BitAt(a, b, at + k - 1) = IF flip = 1 THEN 1 - SyncWord[k] ELSE SyncWord[k]

\* A word stays at its place when the bits there do.
LEMMA PlaceMoves ==
  ASSUME SyncWord \in Seq({0, 1}), NEW a, NEW b, NEW c, NEW d, Len(a) \in Nat, Len(b) \in Nat,
         NEW at, NEW to \in Nat, Placed(a, b, at), to + Len(SyncWord) <= Len(c) + Len(d),
         \A k \in 1 .. Len(SyncWord) : BitAt(c, d, to + k - 1) = BitAt(a, b, at + k - 1)
  PROVE  Placed(c, d, to)
BY DEF Placed

\* A block takes from the front of what is to come.
LEMMA BlockTaken ==
  ASSUME SyncWord \in Seq({0, 1}), NEW a \in Seq({0, 1}), NEW b \in Seq({0, 1}), NEW at, Placed(a, b, at),
         NEW block \in Seq({0, 1}), NEW n \in Nat, Len(block) = n,
         \A i \in 1 .. n : i <= Len(b) => block[i] = b[i]
  PROVE  Placed(a \o block, SubSeq(b, n + 1, Len(b)), at)
<1> DEFINE c == a \o block
           d == SubSeq(b, n + 1, Len(b))
<1>1. /\ Len(a) \in Nat /\ Len(b) \in Nat /\ Len(c) \in Nat /\ Len(d) \in Nat
      /\ Len(c) = Len(a) + n
      /\ Len(d) = IF n + 1 <= Len(b) THEN Len(b) - n ELSE 0
      /\ Len(SyncWord) \in Nat
  <2>1. Len(a) \in Nat /\ Len(b) \in Nat /\ Len(SyncWord) \in Nat
    OBVIOUS
  <2>2. Len(c) = Len(a) + n /\ Len(c) \in Nat
    <3>1. Len(a \o block) = Len(a) + Len(block)
      BY ConcatProperties
    <3> QED
      BY <2>1, <3>1
  <2>3. Len(d) = IF n + 1 <= Len(b) THEN Len(b) - n ELSE 0
    OBVIOUS
  <2>4. d \in Seq({0, 1})
    BY SubSeqProperties
  <2> HIDE DEF d
  <2>5. Len(d) \in Nat
    BY <2>4
  <2> QED
    BY <2>1, <2>2, <2>3, <2>5
<1>5. /\ \A i \in 1 .. Len(a) : c[i] = a[i]
      /\ \A i \in 1 .. n : c[Len(a) + i] = block[i]
      /\ \A i \in 1 .. Len(d) : d[i] = b[n + i]
  <2>1. \A i \in 1 .. Len(a) : c[i] = a[i]
    OBVIOUS
  <2>2. \A i \in 1 .. n : c[Len(a) + i] = block[i]
    OBVIOUS
  <2>3. \A i \in 1 .. Len(d) : d[i] = b[n + i]
    <3>1. \A i \in 1 .. Len(d) : i \in 1 .. Len(b) - n /\ (n + 1) + i - 1 = n + i
      BY <1>1
    <3> QED
      BY <1>1, <3>1
  <2> QED
    BY <2>1, <2>2, <2>3
<1> HIDE DEF c, d
<1>2. at \in Nat /\ at + Len(SyncWord) <= Len(a) + Len(b)
  BY DEF Placed
<1>3. at + Len(SyncWord) <= Len(c) + Len(d)
  <2>1. Len(c) + Len(d) >= Len(a) + Len(b)
    <3>1. CASE n + 1 <= Len(b)
      BY <1>1, <3>1
    <3>2. CASE ~(n + 1 <= Len(b))
      BY <1>1, <3>2
    <3> QED
      BY <3>1, <3>2
  <2>2. PICK x \in Nat, y \in Nat : x = Len(c) + Len(d) /\ y = Len(a) + Len(b)
    <3>1. Len(c) + Len(d) \in Nat /\ Len(a) + Len(b) \in Nat
      <4>1. Len(a) \in Nat /\ Len(b) \in Nat /\ Len(c) \in Nat /\ Len(d) \in Nat
        BY <1>1
      <4> QED
        BY <4>1
    <3> QED
      BY <3>1
  <2>3. PICK z \in Nat : z = at + Len(SyncWord)
    BY <1>1, <1>2
  <2>4. z <= y /\ y <= x
    BY <1>2, <2>1, <2>2, <2>3
  <2> QED
    BY <2>2, <2>3, <2>4
<1>4. ASSUME NEW k \in 1 .. Len(SyncWord)
      PROVE  BitAt(c, d, at + k - 1) = BitAt(a, b, at + k - 1)
  <2>1. PICK j \in Nat : j = at + k - 1
    BY <1>1, <1>2
  <2>2. j < Len(a) + Len(b)
    BY <1>1, <1>2, <2>1
  <2>3. CASE j < Len(a)
    <3>0. j + 1 \in 1 .. Len(a)
      BY <1>1, <2>3
    <3>1. c[j + 1] = a[j + 1] /\ j < Len(c)
      <4>1. c[j + 1] = a[j + 1]
        BY <1>5, <3>0
      <4>2. Len(c) = Len(a) + n /\ Len(a) \in Nat
        BY <1>1
      <4>3. j < Len(c)
        BY <2>3, <4>2
      <4> QED
        BY <4>1, <4>3
    <3> QED
      BY <2>1, <2>3, <3>1 DEF BitAt
  <2>4. CASE j >= Len(a) /\ j < Len(a) + n
    <3>0. j - Len(a) + 1 \in 1 .. n
      BY <1>1, <2>4
    <3>1. PICK i \in 1 .. n : i = j - Len(a) + 1
      BY <3>0
    <3>2. i <= Len(b) /\ block[i] = b[i]
      BY <1>1, <2>2, <3>1
    <3>3. c[j + 1] = block[i] /\ j < Len(c) /\ ~(j < Len(a))
      BY <1>1, <1>5, <2>4, <3>1
    <3> QED
      BY <2>1, <3>1, <3>2, <3>3 DEF BitAt
  <2>5. CASE j >= Len(a) + n
    <3>0. j - Len(c) + 1 \in 1 .. Len(d)
      BY <1>1, <2>2, <2>5
    <3>1. PICK i \in 1 .. Len(d) : i = j - Len(c) + 1
      BY <3>0
    <3>2. n + i = j - Len(a) + 1 /\ ~(j < Len(c)) /\ ~(j < Len(a))
      BY <1>1, <2>5, <3>1
    <3>3. d[i] = b[j - Len(a) + 1]
      BY <1>5, <3>2
    <3> QED
      BY <2>1, <3>1, <3>2, <3>3 DEF BitAt
  <2> QED
    BY <1>1, <2>3, <2>4, <2>5
<1>6. Placed(c, d, at)
  BY <1>1, <1>2, <1>3, <1>4, PlaceMoves
<1> QED
  BY <1>6 DEF c, d

\* What is cut off moves what is left.
LEMMA FrontCut ==
  ASSUME SyncWord \in Seq({0, 1}), NEW a \in Seq({0, 1}), NEW b \in Seq({0, 1}), NEW at, Placed(a, b, at),
         NEW c \in 0 .. Len(a), at >= c
  PROVE  Placed(SubSeq(a, c + 1, Len(a)), b, at - c)
<1> DEFINE t == SubSeq(a, c + 1, Len(a))
<1>1. Len(a) \in Nat /\ Len(b) \in Nat /\ Len(t) = Len(a) - c /\ Len(SyncWord) \in Nat
  OBVIOUS
<1>5. \A i \in 1 .. Len(t) : t[i] = a[c + i]
  <2>1. \A i \in 1 .. Len(t) : i \in 1 .. Len(a) - c /\ (c + 1) + i - 1 = c + i
    BY <1>1
  <2> QED
    BY <1>1, <2>1
<1> HIDE DEF t
<1>2. at \in Nat /\ at + Len(SyncWord) <= Len(a) + Len(b) /\ at - c \in Nat
  BY <1>1 DEF Placed
<1>3. at - c + Len(SyncWord) <= Len(t) + Len(b)
  BY <1>1, <1>2
<1>4. ASSUME NEW k \in 1 .. Len(SyncWord)
      PROVE  BitAt(t, b, at - c + k - 1) = BitAt(a, b, at + k - 1)
  <2>1. PICK j \in Nat : j = at + k - 1
    BY <1>1, <1>2
  <2>2. at - c + k - 1 = j - c /\ j >= c
    BY <1>1, <1>2, <2>1
  <2>3. CASE j < Len(a)
    <3>0. j - c + 1 \in 1 .. Len(t) /\ c + (j - c + 1) = j + 1 /\ j - c < Len(t)
      BY <1>1, <2>2, <2>3
    <3>1. t[j - c + 1] = a[j + 1] /\ j - c < Len(t)
      BY <1>5, <3>0
    <3> QED
      BY <2>1, <2>2, <2>3, <3>1 DEF BitAt
  <2>4. CASE j >= Len(a)
    <3>1. ~(j - c < Len(t)) /\ (j - c) - Len(t) + 1 = j - Len(a) + 1 /\ ~(j < Len(a))
      BY <1>1, <2>2, <2>4
    <3> QED
      BY <2>1, <2>2, <3>1 DEF BitAt
  <2> QED
    BY <1>1, <2>3, <2>4
<1>6. Placed(t, b, at - c)
  BY <1>1, <1>2, <1>3, <1>4, PlaceMoves
<1> QED
  BY <1>6 DEF t

\* A word all of which has come stands in the stream.
LEMMA PlacedStands ==
  ASSUME SyncWord \in Seq({0, 1}), NEW a \in Seq({0, 1}), NEW b, NEW at, Placed(a, b, at), at + Len(SyncWord) <= Len(a)
  PROVE  Stands(a, at)
<1>1. PICK flip \in {0, 1} :
        \A k \in 1 .. Len(SyncWord) :
          BitAt(a, b, at + k - 1) = IF flip = 1 THEN 1 - SyncWord[k] ELSE SyncWord[k]
  BY DEF Placed
<1>2. at \in Nat /\ Len(a) \in Nat /\ Len(SyncWord) \in Nat
  BY DEF Placed
<1>3. ASSUME NEW k \in 1 .. Len(SyncWord)
      PROVE  BitAt(a, b, at + k - 1) = a[at + k]
  <2>1. at + k - 1 < Len(a) /\ at + k - 1 + 1 = at + k
    BY <1>2
  <2> QED
    BY <2>1 DEF BitAt
<1> QED
  BY <1>1, <1>3 DEF Stands

-----------------------------------------------------------------------------
(* A word that leaves the stream was told *)

LEMMA SentBits == SyncWord \in Seq({0, 1})
<1>1. SyncWord \in WordsUsed
  BY DEF WordsUsed
<1> QED
  BY <1>1, WordOK

LEMMA SizesOK ==
  /\ KeepBits \in Nat /\ LeastCand \in Nat /\ StreamBits \in Nat /\ DefaultCand \in Nat
  /\ Len(SyncWord) \in Nat /\ Len(SyncWord) > 0
  /\ Len(SyncWord) <= KeepBits /\ LeastCand <= KeepBits - Len(SyncWord)
  /\ LeastCand <= DefaultCand
<1>1. SyncWord \in WordsUsed
  BY DEF WordsUsed
<1> QED
  BY <1>1, WordOK, SearchAssumption DEF SearchAssumption

\* What is kept is as long for every word.
LEMMA CutIs ==
  ASSUME NEW s, IsSearch(s)
  PROVE  /\ TailKept(s) = KeepBits /\ Cut(s) \in 0 .. Len(s.stream)
         /\ (Cut(s) = 0 /\ Len(s.stream) <= KeepBits) \/ Cut(s) = Len(s.stream) - KeepBits
<1>1. Len(s.stream) \in Nat /\ Len(s.word) \in Nat /\ Len(s.word) <= KeepBits /\ KeepBits \in Nat
  BY WordOK, SizesOK DEF IsSearch
<1>2. TailKept(s) = KeepBits
  <2>1. PICK a \in Int : a = Len(s.word)
    BY <1>1
  <2>2. PICK b \in Int : b = KeepBits
    BY <1>1
  <2>3. Max({a, b}) \in {a, b} /\ Max({a, b}) >= b
    BY MaxOfTwo
  <2>4. Max({a, b}) = b
    BY <1>1, <2>1, <2>2, <2>3
  <2> QED
    BY <2>1, <2>2, <2>4 DEF TailKept
<1>3. PICK d \in Int : d = Len(s.stream) - KeepBits
  BY <1>1
<1>4. Cut(s) = Max({0, d})
  BY <1>2, <1>3 DEF Cut
<1>5. Max({0, d}) \in {0, d} /\ Max({0, d}) >= 0 /\ Max({0, d}) >= d
  BY MaxOfTwo
<1> QED
  BY <1>1, <1>2, <1>3, <1>4, <1>5

LEMMA CutWordsTold ==
  ASSUME NEW s, IsSearch(s), NEW at \in Nat, at < Len(s.stream) - KeepBits,
         Stands(s.stream, at), Sought(s)
  PROVE  \E c \in CandidatesOf(s) : TellsWord(s, c, at)
<1>0. s.stream \in Seq({0, 1}) /\ s.word \in Seq({0, 1})
  BY WordOK DEF IsSearch
<1>1. /\ Len(s.stream) \in Nat /\ s.size \in Nat /\ s.size >= LeastCand
      /\ Len(s.word) \in Nat /\ Len(s.word) > 0
  BY WordOK DEF IsSearch
<1>2. PICK i \in 0 .. Len(SyncWord) - Len(s.word) : SyncErrors(SyncWord, i, s.word) <= s.errors
  BY DEF Sought
<1>3. i \in Nat /\ i + Len(s.word) <= Len(SyncWord)
  BY <1>1, <1>2, SizesOK
<1>4. PICK p \in Nat : p = at + i
  BY <1>3
<1>5. at <= p /\ p + Len(s.word) <= at + Len(SyncWord) /\ at + Len(SyncWord) < Len(s.stream)
  <2>1. PICK l \in Nat, w \in Nat : l = Len(s.stream) /\ w = Len(s.word)
    BY <1>1
  <2>2. PICK n \in Nat, keep \in Nat : n = Len(SyncWord) /\ keep = KeepBits
    BY SizesOK
  <2>3. at < l - keep /\ n <= keep /\ i + w <= n
    BY <1>3, <2>1, <2>2, SizesOK
  <2>4. at <= p /\ p + w <= at + n /\ at + n < l
    BY <1>3, <1>4, <2>3
  <2> QED
    BY <2>1, <2>2, <2>4
<1>6. Hit(s, p)
  <2>1. SyncErrors(s.stream, at + i, s.word) = SyncErrors(SyncWord, i, s.word)
    BY <1>0, <1>3, SentBits, ErrorsSame
  <2>2. p + Len(s.word) <= Len(s.stream)
    BY <1>1, <1>5, SizesOK
  <2> QED
    BY <1>2, <1>4, <2>1, <2>2 DEF Hit, Fits
<1>7. PICK b \in 0 .. p : /\ p < b + Len(s.word)
                         /\ [at |-> b, bits |-> CandidateBits(s, b)] \in CandidatesOf(s)
  BY <1>1, <1>6, HitsAreCovered
<1>8. b < at + Len(SyncWord) /\ at < b + Len(s.word) /\ b \in Nat
  BY <1>1, <1>5, <1>7, SizesOK
<1>9. CandidateBits(s, b) >= Min({s.size, KeepBits - Len(SyncWord)})
  <2>1. PICK left \in Int : left = Len(s.stream) - b
    <3>1. Len(s.stream) \in Nat /\ b \in Nat
      BY <1>1, <1>8
    <3>2. Len(s.stream) - b \in Int
      BY <3>1
    <3> QED
      BY <3>2
  <2>2. PICK keep \in Int : keep = KeepBits - Len(SyncWord)
    BY SizesOK
  <2>3. left >= keep /\ keep >= LeastCand
    BY <1>1, <1>8, <2>1, <2>2, SizesOK
  <2> DEFINE use == Min({left, s.size})
             need == Min({s.size, keep})
  <2>0. PICK size \in Int : size = s.size
    BY <1>1
  <2>4. use \in {left, s.size} /\ use <= left /\ use <= s.size
    BY <2>0, MinOfTwo
  <2>5. need \in {s.size, keep} /\ need <= s.size /\ need <= keep
    BY <2>0, MinOfTwo
  <2>6. CandidateBits(s, b) = IF use < LeastCand THEN 0 ELSE use
    BY <2>1 DEF CandidateBits
  <2> HIDE DEF use, need
  <2>7. use >= LeastCand /\ use >= need
    BY <1>1, <2>3, <2>4, <2>5, SizesOK
  <2>8. CandidateBits(s, b) >= need
    BY <1>1, <2>4, <2>6, <2>7, SizesOK
  <2> QED
    BY <2>2, <2>8 DEF need
<1> QED
  BY <1>7, <1>8, <1>9 DEF TellsWord

-----------------------------------------------------------------------------
(* The invariant *)

IsWord(w) == w \in [at : Int, told : BOOLEAN, sought : BOOLEAN]

\* The stream is as short as what is kept of it; every word that was sent and
\* has not left it is where it is believed to be.
SyncInv ==
  /\ IsSearch(search) /\ Len(search.stream) <= KeepBits
  /\ coming \in Seq({0, 1})
  /\ \A w \in words : IsWord(w) /\ (w.at >= 0 => Placed(search.stream, coming, w.at))
  /\ SyncWordsTold

LEMMA SyncInitOK == SyncInit => SyncInv
<1> SUFFICES ASSUME SyncInit PROVE SyncInv
  OBVIOUS
<1>1. SyncWord \in WordsUsed
  BY DEF WordsUsed
<1>2. search.stream = <<>> /\ search.word = SyncWord /\ search.size = DefaultCand /\ DOMAIN search = SearchFields
  BY DEF SyncInit, SearchFields
<1>3. IsSearch(search) /\ Len(search.stream) <= KeepBits
  BY <1>1, <1>2, SizesOK DEF IsSearch
<1> QED
  BY <1>3 DEF SyncInit, SyncInv, SyncWordsTold

LEMMA SendOK ==
  ASSUME SyncInv, NEW noise \in SyncNoises, NEW inverted \in BOOLEAN, NEW data \in SyncData,
         SyncSend(noise, inverted, data)
  PROVE  SyncInv'
<1> DEFINE w == [i \in DOMAIN SyncWord |-> IF inverted THEN 1 - SyncWord[i] ELSE SyncWord[i]]
           n == Len(search.stream) + Len(coming) + Len(noise)
<1>1. /\ search.stream \in Seq({0, 1}) /\ coming \in Seq({0, 1}) /\ noise \in Seq({0, 1})
      /\ data \in Seq({0, 1}) /\ SyncWord \in Seq({0, 1})
  BY SentBits, SearchAssumption DEF SyncInv, IsSearch, SearchAssumption
<1>2. w \in Seq({0, 1}) /\ Len(w) = Len(SyncWord)
  <2>1. ASSUME NEW i \in 1 .. Len(SyncWord)
        PROVE  SyncWord[i] \in {0, 1} /\ 1 - SyncWord[i] \in {0, 1}
    <3>1. PICK x \in {0, 1} : x = SyncWord[i]
      BY <1>1
    <3>2. 1 - x \in {0, 1}
      OBVIOUS
    <3> QED
      BY <3>1, <3>2
  <2>2. PICK l \in Nat : l = Len(SyncWord) /\ DOMAIN SyncWord = 1 .. l
    BY <1>1
  <2>3. w \in [1 .. l -> {0, 1}]
    BY <2>1, <2>2
  <2> HIDE DEF w
  <2> QED
    BY <2>2, <2>3
<1>3. PICK flip \in {0, 1} :
        \A k \in 1 .. Len(SyncWord) : w[k] = IF flip = 1 THEN 1 - SyncWord[k] ELSE SyncWord[k]
  <2>1. CASE inverted = TRUE
    BY <1>1, <2>1
  <2>2. CASE inverted = FALSE
    BY <1>1, <2>2
  <2> QED
    BY <2>1, <2>2
<1>4. /\ search' = search /\ coming' = ((coming \o noise) \o w) \o data
      /\ words' = words \union {[at |-> n, told |-> FALSE, sought |-> TRUE]}
  BY DEF SyncSend
<1> HIDE DEF w
<1>5. /\ coming' \in Seq({0, 1})
      /\ Len(coming') = Len(coming) + Len(noise) + Len(w) + Len(data)
      /\ \A k \in 1 .. Len(coming) : coming'[k] = coming[k]
      /\ \A k \in 1 .. Len(w) : coming'[(Len(coming) + Len(noise)) + k] = w[k]
  <2>1. PICK x \in Seq({0, 1}) : x = coming \o noise
    BY <1>1, ConcatProperties
  <2>2. Len(x) = Len(coming) + Len(noise) /\ \A k \in 1 .. Len(coming) : x[k] = coming[k]
    BY <1>1, <2>1
  <2>3. PICK y \in Seq({0, 1}) : y = x \o w
    BY <1>2, ConcatProperties
  <2>4. /\ Len(y) = Len(x) + Len(w) /\ \A k \in 1 .. Len(x) : y[k] = x[k]
        /\ \A k \in 1 .. Len(w) : y[Len(x) + k] = w[k]
    <3>1. Len(y) = Len(x) + Len(w)
      BY <1>2, <2>3, ConcatProperties
    <3>2. \A k \in 1 .. Len(x) : y[k] = x[k]
      BY <1>2, <2>3
    <3>3. \A k \in 1 .. Len(w) : y[Len(x) + k] = w[k]
      BY <1>2, <2>3
    <3> QED
      BY <3>1, <3>2, <3>3
  <2>5. coming' = y \o data
    BY <1>4, <2>1, <2>3
  <2>6. /\ coming' \in Seq({0, 1}) /\ Len(coming') = Len(y) + Len(data)
        /\ \A k \in 1 .. Len(y) : coming'[k] = y[k]
    BY <1>1, <2>5
  <2>7. Len(coming) \in Nat /\ Len(noise) \in Nat /\ Len(w) \in Nat /\ Len(data) \in Nat
    BY <1>1, <1>2
  <2>8. \A k \in 1 .. Len(coming) : k \in 1 .. Len(x) /\ k \in 1 .. Len(y)
    BY <2>2, <2>4, <2>7
  <2>9. \A k \in 1 .. Len(w) : Len(x) + k \in 1 .. Len(y)
    BY <2>2, <2>4, <2>7
  <2>10. \A k \in 1 .. Len(coming) : coming'[k] = coming[k]
    BY <2>2, <2>4, <2>6, <2>8
  <2>11. \A k \in 1 .. Len(w) : coming'[Len(x) + k] = w[k]
    BY <2>4, <2>6, <2>9
  <2> QED
    BY <2>2, <2>4, <2>6, <2>7, <2>10, <2>11
<1>6. PICK a \in Nat, b \in Nat, c \in Nat, d \in Nat, m \in Nat :
        /\ a = Len(search.stream) /\ b = Len(coming) /\ c = Len(noise) /\ d = Len(data)
        /\ m = Len(SyncWord) /\ m = Len(w) /\ n = a + b + c
  <2>1. Len(search.stream) \in Nat /\ Len(coming) \in Nat
    BY <1>1
  <2>2. Len(noise) \in Nat /\ Len(data) \in Nat
    BY <1>1
  <2>3. Len(SyncWord) \in Nat /\ Len(SyncWord) = Len(w)
    BY <1>2, SizesOK
  <2> QED
    BY <2>1, <2>2, <2>3
<1> HIDE DEF n
<1>11. n \in Nat /\ Len(coming') = b + c + m + d
  BY <1>5, <1>6
<1>7. ASSUME NEW v \in words, v.at >= 0
      PROVE  Placed(search.stream, coming', v.at)
  <2>1. Placed(search.stream, coming, v.at) /\ v.at \in Nat
    BY <1>7 DEF SyncInv, Placed
  <2>2. v.at + Len(SyncWord) <= Len(search.stream) + Len(coming)
    BY <2>1 DEF Placed
  <2>3. v.at + Len(SyncWord) <= Len(search.stream) + Len(coming')
    <3>1. v.at + m <= a + b
      BY <1>6, <2>2
    <3>2. v.at + m <= a + (b + c + m + d)
      BY <2>1, <3>1
    <3> QED
      BY <1>6, <1>11, <3>2
  <2>4. ASSUME NEW k \in 1 .. Len(SyncWord)
        PROVE  BitAt(search.stream, coming', v.at + k - 1) = BitAt(search.stream, coming, v.at + k - 1)
    <3>1. PICK j \in Nat : j = v.at + k - 1
      BY <2>1
    <3>2. j < a + b
      <4>1. PICK t \in Nat : t = v.at
        BY ONLY <2>1
      <4>2. t + m <= a + b
        BY ONLY <1>6, <2>2, <4>1
      <4>3. k \in 1 .. m
        BY <1>6
      <4> QED
        BY ONLY <3>1, <4>1, <4>2, <4>3
    <3>3. CASE j < Len(search.stream)
      BY <3>1, <3>3 DEF BitAt
    <3>4. CASE ~(j < Len(search.stream))
      <4>1. j - Len(search.stream) + 1 \in 1 .. Len(coming)
        <5>1. ~(j < a)
          BY <1>6, <3>4
        <5>2. j - a + 1 \in 1 .. b
          BY <3>2, <5>1
        <5> QED
          BY <1>6, <5>2
      <4> QED
        BY <1>5, <3>1, <3>4, <4>1 DEF BitAt
    <3> QED
      BY <3>3, <3>4
  <2>5. Len(coming') \in Nat /\ Len(search.stream) \in Nat /\ Len(coming) \in Nat
    BY <1>6, <1>11
  <2> QED
    BY <2>1, <2>3, <2>4, <2>5, SentBits, PlaceMoves
<1>8. Placed(search.stream, coming', n)
  <2>1. n + Len(SyncWord) <= Len(search.stream) + Len(coming')
    <3>1. (a + b + c) + m <= a + (b + c + m + d)
      OBVIOUS
    <3> QED
      BY <1>6, <1>11, <3>1
  <2>2. ASSUME NEW k \in 1 .. Len(SyncWord)
        PROVE  BitAt(search.stream, coming', n + k - 1) = w[k]
    <3>0. k \in 1 .. m
      BY <1>6
    <3>1. PICK j \in Nat : j = n + k - 1
      BY <1>11, <3>0
    <3>2. /\ ~(j < Len(search.stream))
          /\ j - Len(search.stream) + 1 = (Len(coming) + Len(noise)) + k
      <4>1. ~(j < a) /\ j - a + 1 = (b + c) + k
        <5>1. j = (a + b + c) + k - 1 /\ k \in Nat /\ k >= 1
          BY <1>6, <3>0, <3>1
        <5> QED
          BY <5>1
      <4> QED
        BY <1>6, <4>1
    <3>3. k \in 1 .. Len(w)
      BY <1>2
    <3> QED
      BY <1>5, <3>1, <3>2, <3>3 DEF BitAt
  <2> QED
    BY <1>3, <1>11, <2>1, <2>2 DEF Placed
<1>9. \A v \in words' : IsWord(v) /\ (v.at >= 0 => Placed(search.stream, coming', v.at))
  <2>1. [at |-> n, told |-> FALSE, sought |-> TRUE] \in [at : Int, told : BOOLEAN, sought : BOOLEAN]
    BY <1>11
  <2>2. [at |-> n, told |-> FALSE, sought |-> TRUE].at = n
    OBVIOUS
  <2> QED
    BY <1>4, <1>7, <1>8, <2>1, <2>2 DEF SyncInv, IsWord
<1>10. SyncWordsTold'
  <2>1. ~([at |-> n, told |-> FALSE, sought |-> TRUE].at < 0)
    BY <1>11
  <2> QED
    BY <1>4, <2>1 DEF SyncInv, SyncWordsTold
<1> QED
  BY <1>4, <1>5, <1>9, <1>10 DEF SyncInv

LEMMA ParamOK ==
  ASSUME SyncInv, NEW p \in SyncParams, SetSyncParam(p[1], p[2])
  PROVE  SyncInv'
<1>1. search' = [search EXCEPT ![p[1]] = p[2]] /\ coming' = coming /\ words' = words
  BY DEF SetSyncParam
<1>2. /\ p[1] \in {"word", "errors", "size", "tune", "word_lock", "error_lock"}
      /\ p[1] = "size" => p[2] \in Nat /\ p[2] >= LeastCand
  BY SearchAssumption DEF SearchAssumption
<1>3. p[1] = "word" => p[2] \in WordsUsed
  BY DEF WordsUsed
<1>4. IsSearch(search')
  BY <1>1, <1>2, <1>3 DEF SyncInv, IsSearch, SearchFields
<1>5. search'.stream = search.stream
  BY <1>1, <1>2 DEF SyncInv, IsSearch, SearchFields
<1> QED
  BY <1>1, <1>4, <1>5 DEF SyncInv, SyncWordsTold

\* A block is appended, searched and cut.
LEMMA BlockOK ==
  ASSUME SyncInv, NEW n \in SyncBlocks, NEW noise \in SyncNoises, SyncBlock(n, noise)
  PROVE  SyncInv'
<1> DEFINE block == [i \in 1 .. n |-> IF i <= Len(coming) THEN coming[i] ELSE noise[1 + (i % Len(noise))]]
           counted == [search EXCEPT !.blocks = (@ + 1) % TuneEvery]
           longer == AppendBits(counted, block)
           s == Autotuned(longer)
           Seen(w) == IF ~Fits(s.stream, w.at, SyncWord) THEN [w EXCEPT !.at = @ - Cut(s)]
                      ELSE [w EXCEPT !.told = @ \/ \E c \in CandidatesOf(s) : TellsWord(s, c, w.at),
                                     !.sought = @ /\ Sought(s), !.at = @ - Cut(s)]
<1>1. /\ search' = [s EXCEPT !.stream = SubSeq(@, Cut(s) + 1, Len(@))]
      /\ words' = {Seen(w) : w \in {v \in words : v.at >= 0}}
      /\ coming' = SubSeq(coming, n + 1, Len(coming))
  BY DEF SyncBlock, ProcessBits
<1>2. n \in Nat /\ n > 0 /\ n + KeepBits <= StreamBits /\ noise \in Seq({0, 1}) /\ noise # <<>>
  BY SearchAssumption DEF SearchAssumption
<1>3. IsSearch(search) /\ Len(search.stream) <= KeepBits /\ coming \in Seq({0, 1})
  BY DEF SyncInv
<1>4. search.stream \in Seq({0, 1}) /\ Len(search.stream) \in Nat /\ Len(coming) \in Nat
  BY <1>3 DEF IsSearch
<1>5. /\ block \in Seq({0, 1}) /\ Len(block) = n
      /\ \A i \in 1 .. n : i <= Len(coming) => block[i] = coming[i]
  <2>1. ASSUME NEW i \in 1 .. n
        PROVE  block[i] \in {0, 1}
    <3>1. CASE i <= Len(coming)
      BY <1>2, <1>3, <1>4, <3>1
    <3>2. CASE ~(i <= Len(coming))
      <4>1. PICK l \in Nat : l = Len(noise) /\ l > 0
        BY <1>2
      <4>2. i % l \in 0 .. l - 1
        BY <1>2, <4>1
      <4>3. 1 + (i % Len(noise)) \in 1 .. Len(noise)
        BY <4>1, <4>2
      <4>4. noise[1 + (i % Len(noise))] \in {0, 1}
        BY <1>2, <4>3
      <4> QED
        BY <3>2, <4>4
    <3> QED
      BY <3>1, <3>2
  <2>2. block \in [1 .. n -> {0, 1}]
    BY <2>1
  <2>3. \A i \in 1 .. n : i <= Len(coming) => block[i] = coming[i]
    OBVIOUS
  <2> HIDE DEF block
  <2> QED
    BY <1>2, <2>2, <2>3
<1> HIDE DEF block
<1>6. /\ IsSearch(counted) /\ counted.stream = search.stream
  BY <1>3 DEF IsSearch, SearchFields
<1> HIDE DEF counted
<1>7. longer = [counted EXCEPT !.stream = search.stream \o block]
  <2>1. PICK l \in Nat, k \in Nat, m \in Nat : l = Len(search.stream) /\ k = KeepBits /\ m = StreamBits
    BY <1>4, SizesOK
  <2>2. ~(l + n > m)
    BY <1>2, <1>3, <2>1
  <2> QED
    BY <1>5, <1>6, <2>1, <2>2 DEF AppendBits
<1> DEFINE all == search.stream \o block
<1>8. all \in Seq({0, 1}) /\ Len(all) = Len(search.stream) + n
  <2>1. search.stream \o block \in Seq({0, 1})
    BY <1>4, <1>5, ConcatProperties
  <2>2. Len(search.stream \o block) = Len(search.stream) + Len(block)
    BY <1>4, <1>5, ConcatProperties
  <2> QED
    BY <1>5, <2>1, <2>2
<1>9. IsSearch(longer) /\ longer.stream = all
  <2>1. longer = [counted EXCEPT !.stream = all]
    BY <1>7
  <2> HIDE DEF all, longer
  <2> QED
    BY <1>6, <1>8, <2>1 DEF IsSearch, SearchFields
<1> HIDE DEF all, longer
<1>10. IsSearch(s) /\ s.stream = all
  BY <1>9, TunedKeeps
<1> HIDE DEF s
<1>11. PICK cut \in 0 .. Len(all) :
         /\ cut = Cut(s) /\ ((cut = 0 /\ Len(all) <= KeepBits) \/ cut = Len(all) - KeepBits)
  BY <1>10, CutIs
<1> DEFINE tail == SubSeq(all, cut + 1, Len(all))
<1>12. search' = [s EXCEPT !.stream = tail]
  BY <1>1, <1>10, <1>11
<1>13. tail \in Seq({0, 1}) /\ Len(tail) <= KeepBits
  <2>1. tail \in Seq({0, 1})
    BY <1>8, SubSeqProperties
  <2>2. Len(tail) = IF cut + 1 <= Len(all) THEN Len(all) - cut ELSE 0
    BY <1>8
  <2> HIDE DEF tail
  <2>3. PICK l \in Nat, k \in Nat : l = Len(all) /\ k = KeepBits
    BY <1>8, SizesOK
  <2>4. (IF cut + 1 <= l THEN l - cut ELSE 0) <= k
    BY <1>11, <2>3
  <2> QED
    BY <2>1, <2>2, <2>3, <2>4
<1> HIDE DEF tail
<1>14. IsSearch(search') /\ search'.stream = tail
  BY <1>10, <1>12, <1>13 DEF IsSearch, SearchFields
<1>15. coming' \in Seq({0, 1})
  <2>1. SubSeq(coming, n + 1, Len(coming)) \in Seq({0, 1})
    BY <1>2, <1>3, SubSeqProperties
  <2> QED
    BY <1>1, <2>1
<1>16. ASSUME NEW w \in words, w.at >= 0
       PROVE  /\ IsWord(Seen(w))
              /\ Seen(w).at >= 0 => Placed(tail, coming', Seen(w).at)
              /\ Seen(w).at < 0 /\ Seen(w).sought => Seen(w).told
  <2>1. IsWord(w) /\ Placed(search.stream, coming, w.at) /\ w.at \in Nat
    BY <1>16 DEF SyncInv, Placed
  <2>2. Placed(all, coming', w.at)
    <3>1. Placed(search.stream \o block, SubSeq(coming, n + 1, Len(coming)), w.at)
      BY <1>2, <1>3, <1>4, <1>5, <2>1, SentBits, BlockTaken
    <3> QED
      BY <1>1, <3>1 DEF all
  <2>3. IsWord(Seen(w)) /\ Seen(w).at = w.at - cut
    <3>0. w.at - Cut(s) = w.at - cut /\ w.at - cut \in Int
      BY <1>11, <2>1
    <3>1. CASE ~Fits(s.stream, w.at, SyncWord)
      <4>1. Seen(w) = [w EXCEPT !.at = w.at - cut]
        BY <3>0, <3>1
      <4> HIDE DEF Seen
      <4> QED
        BY <2>1, <3>0, <4>1 DEF IsWord
    <3>2. CASE Fits(s.stream, w.at, SyncWord)
      <4> DEFINE t == w.told \/ \E c \in CandidatesOf(s) : TellsWord(s, c, w.at)
                 u == w.sought /\ Sought(s)
      <4>1. Seen(w) = [w EXCEPT !.told = t, !.sought = u, !.at = w.at - cut]
        BY <3>0, <3>2
      <4>2. PICK x \in BOOLEAN : x = t
        BY Zenon
      <4>3. PICK y \in BOOLEAN : y = u
        BY Zenon
      <4> HIDE DEF Seen, t, u
      <4>4. Seen(w) = [w EXCEPT !.told = x, !.sought = y, !.at = w.at - cut]
        BY <4>1, <4>2, <4>3, Zenon
      <4>5. Seen(w) = [[[w EXCEPT !.told = x] EXCEPT !.sought = y] EXCEPT !.at = w.at - cut]
        BY <2>1, <4>4 DEF IsWord
      <4> QED
        BY <2>1, <3>0, <4>5 DEF IsWord
    <3> QED
      BY <3>1, <3>2
  <2>4. ASSUME Seen(w).at >= 0
        PROVE  Placed(tail, coming', Seen(w).at)
    <3>1. w.at >= cut
      <4> HIDE DEF Seen
      <4> QED
        BY <2>1, <2>3, <2>4
    <3>2. Placed(tail, coming', w.at - cut)
      BY <1>8, <1>15, <2>2, <3>1, SentBits, FrontCut DEF tail
    <3> QED
      BY <2>3, <3>2
  <2>5. ASSUME Seen(w).at < 0, Seen(w).sought
        PROVE  Seen(w).told
    <3>1. PICK l \in Nat, k \in Nat, m \in Nat : l = Len(all) /\ k = KeepBits /\ m = Len(SyncWord) /\ m <= k
      BY <1>8, SizesOK
    <3>2. w.at < cut
      <4> HIDE DEF Seen
      <4> QED
        BY <2>1, <2>3, <2>5
    <3>3. w.at < l - k
      BY <1>11, <2>1, <3>1, <3>2
    <3>4. w.at + m <= l
      BY <2>1, <3>1, <3>3
    <3>5. Fits(s.stream, w.at, SyncWord)
      BY <1>10, <3>1, <3>4 DEF Fits
    <3>6. /\ Seen(w).told = (w.told \/ \E c \in CandidatesOf(s) : TellsWord(s, c, w.at))
          /\ Seen(w).sought = (w.sought /\ Sought(s))
      BY <2>1, <3>5 DEF IsWord
    <3>7. Stands(s.stream, w.at)
      BY <1>8, <1>10, <2>2, <3>1, <3>4, SentBits, PlacedStands
    <3>8. Sought(s)
      BY <2>5, <3>6
    <3>9. \E c \in CandidatesOf(s) : TellsWord(s, c, w.at)
      BY <1>10, <2>1, <3>1, <3>3, <3>7, <3>8, CutWordsTold
    <3> QED
      BY <3>6, <3>9
  <2> QED
    BY <2>3, <2>4, <2>5
<1> HIDE DEF Seen
<1>17. \A v \in words' : \E w \in words : w.at >= 0 /\ v = Seen(w)
  BY <1>1
<1>18. \A v \in words' : IsWord(v) /\ (v.at >= 0 => Placed(tail, coming', v.at))
  BY <1>16, <1>17
<1>19. SyncWordsTold'
  BY <1>16, <1>17 DEF SyncWordsTold
<1> QED
  BY <1>13, <1>14, <1>15, <1>18, <1>19 DEF SyncInv

LEMMA SyncStepOK == SyncInv /\ [SyncNext]_syncVars => SyncInv'
<1> SUFFICES ASSUME SyncInv, [SyncNext]_syncVars PROVE SyncInv'
  OBVIOUS
<1>1. CASE \E n \in SyncBlocks, noise \in SyncNoises : SyncBlock(n, noise)
  BY <1>1, BlockOK
<1>2. CASE \E noise \in SyncNoises, inverted \in BOOLEAN, data \in SyncData :
             SyncSend(noise, inverted, data)
  BY <1>2, SendOK
<1>3. CASE \E p \in SyncParams : SetSyncParam(p[1], p[2])
  BY <1>3, ParamOK
<1>4. CASE UNCHANGED syncVars
  BY <1>4 DEF SyncInv, SyncWordsTold, syncVars
<1> QED
  BY <1>1, <1>2, <1>3, <1>4 DEF SyncNext

\* No sync word that is searched for leaves the stream untold, however the
\* blocks cut it and whatever the tuning does (vdes_asm_decoder.c:308, 381,
\* 494).
THEOREM SyncWordsAreTold == SyncSpec => []SyncWordsTold
<1>1. SyncInv => SyncWordsTold
  BY DEF SyncInv
<1> QED
  BY <1>1, SyncInitOK, SyncStepOK, PTL DEF SyncSpec

-----------------------------------------------------------------------------
(* The frames of aircraft                                                  *)
(*                                                                         *)
(* The samples that are carried over and those to come are one row, which  *)
(* a block shifts.  In it a frame that is still to be told lies whole      *)
(* (Whole), and of one that was told or lost a sample is gone for good     *)
(* (Broken); so a frame is told when its first sample passes out of the    *)
(* samples that are carried over, and the frames are told in their order.  *)

SampleType == [frame : Nat, place : Nat]
FrameType == [icao : Nat, parity : Parities, ahead : Nat, come : Nat, lost : BOOLEAN,
              told : Nat, when : Nat, pos : {<<>>} \union [1 .. 2 -> Nat]]
EntryType == [icao : Nat, ts : [1 .. 2 -> Nat], pos : [1 .. 2 -> Nat], valid : SUBSET Parities]

Ordinals == Nat \ {0}

\* The samples from the first that was carried over on.
RowOf(buf, next) ==
  [k \in Ordinals |-> IF k <= Overlap THEN buf[k]
                      ELSE IF k - Overlap <= Len(next) THEN next[k - Overlap] ELSE Nothing]

Awaited(g) == ~g.lost /\ g.come <= Overlap

\* Where in the row its first sample is.
FirstOf(g) == IF g.come > 0 THEN Overlap - g.come + 1 ELSE Overlap + g.ahead + 1

Whole(air, f, at) == \A i \in 1 .. FrameSize : air[at + i - 1] = [frame |-> f, place |-> i]
Broken(air, f) == \E i \in 1 .. FrameSize : \A k \in Ordinals : air[k] # [frame |-> f, place |-> i]

\* No sample is there twice.
AirOK(air, fr) ==
  /\ air \in [Ordinals -> SampleType]
  /\ \A k \in Ordinals : air[k].frame <= Len(fr)
  /\ \A k, l \in Ordinals : air[k].frame > 0 /\ air[k] = air[l] => k = l
  /\ \A f \in DOMAIN fr : IF Awaited(fr[f]) THEN Whole(air, f, FirstOf(fr[f])) ELSE Broken(air, f)

\* The counts of a frame, and when it was told.
CountsOK(g) ==
  /\ g.come > 0 => g.ahead = 0
  /\ g.told = IF ~g.lost /\ g.come > Overlap THEN 1 ELSE 0

InOrder(fr) ==
  \A f, g \in DOMAIN fr : f < g /\ Awaited(fr[f]) /\ ~fr[g].lost => FirstOf(fr[f]) < FirstOf(fr[g])

-----------------------------------------------------------------------------
(* The cache *)

\* The last frame of this parity that was told of the aircraft.
LastTold(fr, g, icao, q) ==
  /\ g \in DOMAIN fr /\ fr[g].icao = icao /\ fr[g].parity = q /\ fr[g].told > 0
  /\ \A h \in DOMAIN fr : h > g /\ fr[h].told > 0 /\ fr[h].icao = icao => fr[h].parity # q

CacheOK(cache, fr) ==
  /\ cache \in [0 .. CacheSize - 1 -> EntryType]
  /\ \A s \in 0 .. CacheSize - 1 : \A q \in cache[s].valid :
       /\ cache[s].icao % CacheSize = s
       /\ LastTold(fr, cache[s].pos[q + 1], cache[s].icao, q)
       /\ cache[s].ts[q + 1] = fr[cache[s].pos[q + 1]].when

\* A position is of the frame and the last one of the other parity before it.
PositionOK(fr, f) ==
  fr[f].pos # <<>> =>
    LET p == fr[f].parity
        other == fr[f].pos[2 - p]
    IN  /\ fr[f].told > 0
        /\ fr[f].pos[p + 1] = f
        /\ other \in 1 .. f - 1
        /\ fr[other].icao = fr[f].icao /\ fr[other].parity = 1 - p /\ fr[other].told > 0
        /\ fr[f].when - fr[other].when <= MaxAge
        /\ \A g \in other + 1 .. f - 1 :
             fr[g].told > 0 /\ fr[g].icao = fr[f].icao => fr[g].parity = p

ToldOK(cache, fr) == CacheOK(cache, fr) /\ \A f \in DOMAIN fr : PositionOK(fr, f)

\* What was told stays so when the frames go on, and when another one is sent.
LEMMA ToldStays ==
  ASSUME NEW fr \in Seq(FrameType), NEW more \in Seq(FrameType), NEW cache, ToldOK(cache, fr),
         Len(fr) <= Len(more),
         \A f \in DOMAIN fr : /\ more[f].icao = fr[f].icao /\ more[f].parity = fr[f].parity
                              /\ more[f].told = fr[f].told /\ more[f].when = fr[f].when
                              /\ more[f].pos = fr[f].pos,
         \A f \in DOMAIN more \ DOMAIN fr : more[f].told = 0 /\ more[f].pos = <<>>
  PROVE  ToldOK(cache, more)
<1>1. PICK m \in Nat : m = Len(fr)
  OBVIOUS
<1>2. PICK n \in Nat : n = Len(more)
  OBVIOUS
<1>3. DOMAIN fr = 1 .. m /\ DOMAIN more = 1 .. n /\ m <= n
  BY <1>1, <1>2
<1>4. \A f \in 1 .. m : f \in 1 .. n /\ f \in Nat
  BY <1>3
<1>6. ASSUME NEW g, NEW icao, NEW q, LastTold(fr, g, icao, q)
      PROVE  LastTold(more, g, icao, q)
  <2>1. \A h \in 1 .. n : more[h].told > 0 => h \in 1 .. m
    BY <1>3
  <2> QED
    BY <1>3, <1>4, <1>6, <2>1 DEF LastTold
<1>7. CacheOK(cache, more)
  <2>1. ASSUME NEW s \in 0 .. CacheSize - 1, NEW q \in cache[s].valid
        PROVE  /\ cache[s].icao % CacheSize = s
               /\ LastTold(more, cache[s].pos[q + 1], cache[s].icao, q)
               /\ cache[s].ts[q + 1] = more[cache[s].pos[q + 1]].when
    <3>1. /\ cache[s].icao % CacheSize = s
          /\ LastTold(fr, cache[s].pos[q + 1], cache[s].icao, q)
          /\ cache[s].ts[q + 1] = fr[cache[s].pos[q + 1]].when
      BY DEF ToldOK, CacheOK
    <3>2. cache[s].pos[q + 1] \in DOMAIN fr
      BY <3>1 DEF LastTold
    <3> QED
      BY <1>6, <3>1, <3>2
  <2> QED
    BY <2>1 DEF ToldOK, CacheOK
<1>8. ASSUME NEW f \in 1 .. n
      PROVE  PositionOK(more, f)
  <2>1. CASE f \in 1 .. m
    <3>1. PositionOK(fr, f)
      BY <1>3, <2>1 DEF ToldOK
    <3>2. \A g \in 1 .. f - 1 : g \in 1 .. m
      BY <1>3, <2>1
    <3> SUFFICES ASSUME more[f].pos # <<>>
                 PROVE  LET p == more[f].parity
                            other == more[f].pos[2 - p]
                        IN  /\ more[f].told > 0
                            /\ more[f].pos[p + 1] = f
                            /\ other \in 1 .. f - 1
                            /\ more[other].icao = more[f].icao /\ more[other].parity = 1 - p
                            /\ more[other].told > 0
                            /\ more[f].when - more[other].when <= MaxAge
                            /\ \A g \in other + 1 .. f - 1 :
                                 more[g].told > 0 /\ more[g].icao = more[f].icao => more[g].parity = p
      BY DEF PositionOK
    <3>3. fr[f].pos # <<>> /\ more[f].pos = fr[f].pos /\ more[f].parity = fr[f].parity
      BY <1>3, <2>1
    <3> DEFINE p == fr[f].parity
               other == fr[f].pos[2 - p]
    <3>4. /\ fr[f].told > 0
          /\ fr[f].pos[p + 1] = f
          /\ other \in 1 .. f - 1
          /\ fr[other].icao = fr[f].icao /\ fr[other].parity = 1 - p /\ fr[other].told > 0
          /\ fr[f].when - fr[other].when <= MaxAge
          /\ \A g \in other + 1 .. f - 1 :
               fr[g].told > 0 /\ fr[g].icao = fr[f].icao => fr[g].parity = p
      BY <3>1, <3>3 DEF PositionOK
    <3> HIDE DEF p, other
    <3>5. \A g \in other + 1 .. f - 1 : g \in 1 .. f - 1
      BY <2>1, <3>4
    <3>6. \A g \in other + 1 .. f - 1 :
            more[g].told > 0 /\ more[g].icao = more[f].icao => more[g].parity = p
      BY <1>3, <2>1, <3>2, <3>4, <3>5
    <3>7. /\ more[f].told > 0
          /\ more[f].pos[p + 1] = f
          /\ more[other].icao = more[f].icao /\ more[other].parity = 1 - p
          /\ more[other].told > 0
          /\ more[f].when - more[other].when <= MaxAge
      BY <1>3, <2>1, <3>2, <3>3, <3>4
    <3> QED
      BY <3>3, <3>4, <3>6, <3>7 DEF p, other
  <2>2. CASE f \notin 1 .. m
    BY <1>3, <2>2 DEF PositionOK
  <2> QED
    BY <2>1, <2>2
<1> QED
  BY <1>3, <1>7, <1>8 DEF ToldOK

\* The entry of an aircraft, whoever had its place before.
LEMMA EntryFetched ==
  ASSUME NEW fr, NEW cache, CacheOK(cache, fr), NEW icao, icao \in Nat
  PROVE  LET e == CprGet(cache, icao)
         IN  /\ e \in EntryType /\ e.icao = icao /\ icao % CacheSize \in 0 .. CacheSize - 1
             /\ \A q \in e.valid : /\ LastTold(fr, e.pos[q + 1], icao, q)
                                   /\ e.ts[q + 1] = fr[e.pos[q + 1]].when
<1> DEFINE e == CprGet(cache, icao)
<1>1. icao % CacheSize \in 0 .. CacheSize - 1
  BY AdsbAssumption
<1> DEFINE old == cache[icao % CacheSize]
<1>2. old \in EntryType
  BY <1>1 DEF CacheOK
<1>3. CASE old.icao # icao
  <2>1. e = [NoEntry EXCEPT !.icao = icao]
    BY <1>3 DEF CprGet
  <2>2. e = [icao |-> icao, ts |-> <<0, 0>>, pos |-> <<0, 0>>, valid |-> {}]
    BY <2>1 DEF NoEntry
  <2>3. <<0, 0>> \in [1 .. 2 -> Nat]
    OBVIOUS
  <2> QED
    BY <1>1, <2>2, <2>3 DEF EntryType
<1>4. CASE old.icao = icao
  <2>1. e = old
    BY <1>4 DEF CprGet
  <2> QED
    BY <1>1, <1>2, <1>4, <2>1 DEF CacheOK
<1> QED
  BY <1>3, <1>4

\* The entry with a frame in it.
\* The entry e is old with frame f of parity p entered at that moment.
WithFrame(e, old, f, p, moment) ==
  /\ e \in EntryType /\ e.icao = old.icao /\ e.valid = old.valid \union {p}
  /\ e.pos[p + 1] = f /\ e.ts[p + 1] = moment
  /\ \A q \in Parities \ {p} : e.pos[q + 1] = old.pos[q + 1] /\ e.ts[q + 1] = old.ts[q + 1]

LEMMA EntryKept ==
  ASSUME NEW old \in EntryType, NEW f, f \in Nat, NEW p \in Parities, NEW moment \in Nat,
         NEW e, e = Kept(old, f, p, moment)
  PROVE  WithFrame(e, old, f, p, moment)
<1>1. /\ old = [icao |-> old.icao, ts |-> old.ts, pos |-> old.pos, valid |-> old.valid]
      /\ old.icao \in Nat /\ old.ts \in [1 .. 2 -> Nat] /\ old.pos \in [1 .. 2 -> Nat]
      /\ old.valid \subseteq Parities
  BY DEF EntryType
<1>2. p + 1 \in 1 .. 2 /\ \A q \in Parities \ {p} : q + 1 \in 1 .. 2 /\ q + 1 # p + 1
  BY DEF Parities
<1> DEFINE ts == [old.ts EXCEPT ![p + 1] = moment]
           pos == [old.pos EXCEPT ![p + 1] = f]
<1>3. /\ ts \in [1 .. 2 -> Nat] /\ ts[p + 1] = moment
      /\ \A q \in Parities \ {p} : ts[q + 1] = old.ts[q + 1]
  BY <1>1, <1>2
<1>4. /\ pos \in [1 .. 2 -> Nat] /\ pos[p + 1] = f
      /\ \A q \in Parities \ {p} : pos[q + 1] = old.pos[q + 1]
  BY <1>1, <1>2
<1> HIDE DEF ts, pos
<1>8. e = [icao |-> old.icao, ts |-> ts, pos |-> pos, valid |-> old.valid \union {p}]
  BY DEF Kept, ts, pos
<1> QED
  BY <1>1, <1>3, <1>4, <1>8 DEF EntryType, WithFrame

LEMMA ToldFields ==
  ASSUME NEW g \in FrameType, NEW moment \in Nat, NEW pos \in {<<>>} \union [1 .. 2 -> Nat],
         NEW h, h = ToldNow(g, moment, pos)
  PROVE  /\ h \in FrameType
         /\ h.icao = g.icao /\ h.parity = g.parity /\ h.ahead = g.ahead /\ h.come = g.come
         /\ h.lost = g.lost /\ h.told = g.told + 1 /\ h.when = moment /\ h.pos = pos
<1>1. PICK i \in Nat, p \in Parities, a \in Nat, c \in Nat, l \in BOOLEAN, t \in Nat, w \in Nat,
           at \in {<<>>} \union [1 .. 2 -> Nat] :
        g = [icao |-> i, parity |-> p, ahead |-> a, come |-> c, lost |-> l, told |-> t,
             when |-> w, pos |-> at]
  BY DEF FrameType
<1>2. h = [icao |-> i, parity |-> p, ahead |-> a, come |-> c, lost |-> l, told |-> t + 1,
           when |-> moment, pos |-> pos]
  BY <1>1 DEF ToldNow
<1> QED
  BY <1>1, <1>2 DEF FrameType

LEMMA TellKeeps ==
  ASSUME NEW fr \in Seq(FrameType), NEW cache, ToldOK(cache, fr),
         NEW f \in DOMAIN fr, NEW moment \in Nat,
         fr[f].told = 0, \A h \in DOMAIN fr : fr[h].told > 0 => h < f,
         NEW was, was.cache = cache, was.frames = fr, NEW st, st = Tell(was, f, moment)
  PROVE  /\ st.frames \in Seq(FrameType) /\ DOMAIN st.frames = DOMAIN fr
         /\ \A h \in DOMAIN fr :
              /\ st.frames[h].icao = fr[h].icao /\ st.frames[h].parity = fr[h].parity
              /\ st.frames[h].ahead = fr[h].ahead /\ st.frames[h].come = fr[h].come
              /\ st.frames[h].lost = fr[h].lost
              /\ st.frames[h].told = IF h = f THEN 1 ELSE fr[h].told
         /\ ToldOK(st.cache, st.frames)
<1>1. fr[f] \in FrameType /\ f \in Nat
  <2>1. Len(fr) \in Nat /\ DOMAIN fr = 1 .. Len(fr)
    OBVIOUS
  <2> QED
    BY <2>1
<1>2. PICK icao \in Nat : icao = fr[f].icao
  BY <1>1 DEF FrameType
<1>3. PICK p \in Parities : p = fr[f].parity
  BY <1>1 DEF FrameType
<1>p. 1 - p \in Parities \ {p}
  BY DEF Parities
<1>s. PICK s : s = icao % CacheSize
  OBVIOUS
<1>o. PICK old : old = CprGet(cache, icao)
  OBVIOUS
<1>e. PICK e : e = Kept(old, f, p, moment)
  OBVIOUS
<1>a. PICK pos : pos = PositionOf(e, p, moment)
  OBVIOUS
<1>g. PICK g : g = ToldNow(fr[f], moment, pos)
  OBVIOUS
<1>m. PICK more : more = st.frames
  OBVIOUS
<1>4. /\ old \in EntryType /\ old.icao = icao /\ s \in 0 .. CacheSize - 1
      /\ \A q \in old.valid : /\ LastTold(fr, old.pos[q + 1], icao, q)
                              /\ old.ts[q + 1] = fr[old.pos[q + 1]].when
  <2>1. CacheOK(cache, fr)
    BY DEF ToldOK
  <2>2. CprGet(cache, icao) = old
    BY <1>o
  <2>3. LET x == CprGet(cache, icao)
        IN  /\ x \in EntryType /\ x.icao = icao /\ icao % CacheSize \in 0 .. CacheSize - 1
            /\ \A q \in x.valid : /\ LastTold(fr, x.pos[q + 1], icao, q)
                                  /\ x.ts[q + 1] = fr[x.pos[q + 1]].when
    BY <2>1, EntryFetched
  <2> QED
    BY <1>s, <2>2, <2>3
<1>5. /\ e \in EntryType /\ e.icao = icao /\ e.valid = old.valid \union {p}
      /\ e.pos[p + 1] = f /\ e.ts[p + 1] = moment
      /\ \A q \in Parities \ {p} : e.pos[q + 1] = old.pos[q + 1] /\ e.ts[q + 1] = old.ts[q + 1]
  <2>1. old \in EntryType /\ old.icao = icao
    BY <1>4
  <2>2. f \in Nat
    BY <1>1
  <2>3. WithFrame(e, old, f, p, moment)
    BY ONLY <2>1, <2>2, <1>e, p \in Parities, moment \in Nat, EntryKept
  <2> QED
    BY ONLY <2>1, <2>3 DEF WithFrame
<1>6. st = [cache |-> [cache EXCEPT ![s] = e], frames |-> [fr EXCEPT ![f] = g]]
  BY <1>2, <1>3, <1>s, <1>o, <1>e, <1>a, <1>g DEF Tell
<1>7. st.cache = [cache EXCEPT ![s] = e] /\ more = [fr EXCEPT ![f] = g]
  <2>1. PICK c : c = [cache EXCEPT ![s] = e]
    OBVIOUS
  <2>2. PICK r : r = [fr EXCEPT ![f] = g]
    OBVIOUS
  <2>3. st = [cache |-> c, frames |-> r]
    BY <1>6, <2>1, <2>2
  <2>4. st.cache = c /\ st.frames = r
    BY <2>3
  <2> QED
    BY <1>m, <2>1, <2>2, <2>4
<1>8. pos \in {<<>>} \union [1 .. 2 -> Nat]
  BY <1>a, <1>5 DEF PositionOf, EntryType
<1>9. pos # <<>> => 1 - p \in e.valid /\ Recent(e.ts[1 - p + 1], moment) /\ pos = e.pos
  BY <1>a DEF PositionOf
<1>12. g \in FrameType
  BY <1>1, <1>2, <1>3, <1>g, <1>8, ToldFields
<1>13. /\ g.icao = icao /\ g.parity = p /\ g.ahead = fr[f].ahead /\ g.come = fr[f].come
       /\ g.lost = fr[f].lost /\ g.told = 1 /\ g.when = moment /\ g.pos = pos
  BY <1>1, <1>2, <1>3, <1>g, <1>8, ToldFields
<1>14. /\ more \in Seq(FrameType) /\ DOMAIN more = DOMAIN fr /\ more[f] = g
       /\ \A h \in DOMAIN fr \ {f} : more[h] = fr[h]
  BY <1>7, <1>12
<1>15. PICK n \in Nat : DOMAIN fr = 1 .. n
  BY <1>1
<1>16. \A h \in DOMAIN fr : more[h].icao = fr[h].icao /\ more[h].parity = fr[h].parity
  BY <1>2, <1>3, <1>13, <1>14
<1>17. CacheOK(st.cache, more)
  <2>1. cache \in [0 .. CacheSize - 1 -> EntryType]
    BY DEF ToldOK, CacheOK
  <2>2. st.cache \in [0 .. CacheSize - 1 -> EntryType]
    BY <1>4, <1>5, <1>7, <2>1
  <2>3. st.cache[s] = e /\ \A t \in 0 .. CacheSize - 1 : t # s => st.cache[t] = cache[t]
    BY <1>4, <1>7, <2>1
  <2>4. ASSUME NEW k, NEW i, NEW q, LastTold(fr, k, i, q), i # icao \/ q # p
        PROVE  LastTold(more, k, i, q) /\ k # f
    <3>1. k # f
      BY <2>4 DEF LastTold
    <3>2. k \in DOMAIN fr /\ more[k] = fr[k]
      BY <1>14, <2>4, <3>1 DEF LastTold
    <3>3. ASSUME NEW h \in DOMAIN fr, h > k, more[h].told > 0, more[h].icao = i
          PROVE  more[h].parity # q
      BY <1>13, <1>14, <1>16, <2>4, <3>3 DEF LastTold
    <3> QED
      BY <1>14, <2>4, <3>1, <3>2, <3>3 DEF LastTold
  <2>5. LastTold(more, f, icao, p)
    <3>1. \A h \in DOMAIN fr : h > f => more[h].told = fr[h].told /\ ~(fr[h].told > 0)
      BY <1>1, <1>14, <1>15
    <3> QED
      BY <1>13, <1>14, <3>1 DEF LastTold
  <2>6. ASSUME NEW t \in 0 .. CacheSize - 1, NEW q \in st.cache[t].valid
        PROVE  /\ st.cache[t].icao % CacheSize = t
               /\ LastTold(more, st.cache[t].pos[q + 1], st.cache[t].icao, q)
               /\ st.cache[t].ts[q + 1] = more[st.cache[t].pos[q + 1]].when
    <3>1. CASE t # s
      <4>1. /\ cache[t].icao % CacheSize = t
            /\ LastTold(fr, cache[t].pos[q + 1], cache[t].icao, q)
            /\ cache[t].ts[q + 1] = fr[cache[t].pos[q + 1]].when
        BY <2>3, <2>6, <3>1 DEF ToldOK, CacheOK
      <4>2. cache[t].icao # icao
        BY <3>1, <4>1, <1>s
      <4>3. cache[t].pos[q + 1] \in DOMAIN fr
        BY <4>1 DEF LastTold
      <4>4. LastTold(more, cache[t].pos[q + 1], cache[t].icao, q) /\ cache[t].pos[q + 1] # f
        BY <2>4, <4>1, <4>2
      <4> QED
        BY <1>14, <2>3, <3>1, <4>1, <4>3, <4>4
    <3>2. CASE t = s /\ q = p
      BY <1>5, <1>13, <1>14, <2>3, <2>5, <3>2, <1>s
    <3>3. CASE t = s /\ q # p
      <4>1. q \in old.valid /\ q \in Parities \ {p}
        BY <1>4, <1>5, <2>3, <2>6, <3>3 DEF EntryType
      <4>2. LastTold(fr, old.pos[q + 1], icao, q) /\ old.ts[q + 1] = fr[old.pos[q + 1]].when
        BY <1>4, <4>1
      <4>3. LastTold(more, old.pos[q + 1], icao, q) /\ old.pos[q + 1] # f
        BY <2>4, <3>3, <4>2
      <4>4. old.pos[q + 1] \in DOMAIN fr
        BY <4>2 DEF LastTold
      <4>5. more[old.pos[q + 1]] = fr[old.pos[q + 1]]
        BY <1>14, <4>3, <4>4
      <4> QED
        BY <1>5, <2>3, <3>3, <4>1, <4>2, <4>3, <4>5, <1>s
    <3> QED
      BY <3>1, <3>2, <3>3
  <2> QED
    BY <2>2, <2>6 DEF CacheOK
<1>18. ASSUME NEW h \in DOMAIN fr, h # f
       PROVE  PositionOK(more, h)
  <2>1. PositionOK(fr, h) /\ more[h] = fr[h] /\ h \in 1 .. n
    BY <1>14, <1>15, <1>18 DEF ToldOK
  <2> SUFFICES ASSUME fr[h].pos # <<>> PROVE PositionOK(more, h)
    BY <2>1 DEF PositionOK
  <2> DEFINE q == fr[h].parity
             other == fr[h].pos[2 - q]
  <2>2. /\ fr[h].told > 0
        /\ fr[h].pos[q + 1] = h
        /\ other \in 1 .. h - 1
        /\ fr[other].icao = fr[h].icao /\ fr[other].parity = 1 - q /\ fr[other].told > 0
        /\ fr[h].when - fr[other].when <= MaxAge
        /\ \A k \in other + 1 .. h - 1 :
             fr[k].told > 0 /\ fr[k].icao = fr[h].icao => fr[k].parity = q
    BY <2>1 DEF PositionOK
  <2>3. h < f
    BY <2>2
  <2>4. \A k \in 1 .. h - 1 : k \in DOMAIN fr /\ k # f
    BY <1>15, <2>1, <2>3
  <2>5. \A k \in 1 .. h - 1 : more[k] = fr[k]
    BY <1>14, <2>4
  <2> HIDE DEF q, other
  <2>6. \A k \in other + 1 .. h - 1 : k \in 1 .. h - 1
    BY <2>1, <2>2
  <2>7. /\ more[other] = fr[other]
        /\ \A k \in other + 1 .. h - 1 :
             more[k].told > 0 /\ more[k].icao = fr[h].icao => more[k].parity = q
    BY <2>2, <2>5, <2>6
  <2> QED
    BY <2>1, <2>2, <2>7 DEF PositionOK, q, other
<1>19. PositionOK(more, f)
  <2> SUFFICES ASSUME pos # <<>>
               PROVE  /\ more[f].told > 0
                      /\ pos[p + 1] = f
                      /\ pos[2 - p] \in 1 .. f - 1
                      /\ more[pos[2 - p]].icao = icao /\ more[pos[2 - p]].parity = 1 - p
                      /\ more[pos[2 - p]].told > 0
                      /\ moment - more[pos[2 - p]].when <= MaxAge
                      /\ \A k \in pos[2 - p] + 1 .. f - 1 :
                           more[k].told > 0 /\ more[k].icao = icao => more[k].parity = p
    BY <1>13, <1>14 DEF PositionOK
  <2>1. 2 - p = 1 - p + 1
    BY <1>2 DEF Parities
  <2> DEFINE k == old.pos[2 - p]
  <2>2. 1 - p \in old.valid
    BY <1>p, <1>5, <1>9
  <2>3. LastTold(fr, k, icao, 1 - p) /\ old.ts[2 - p] = fr[k].when
    BY <1>4, <2>1, <2>2
  <2>4. pos[2 - p] = k /\ pos[p + 1] = f /\ e.ts[2 - p] = old.ts[2 - p]
    BY <1>p, <1>5, <1>9, <2>1
  <2> HIDE DEF k
  <2>5. k \in DOMAIN fr /\ fr[k].told > 0 /\ k < f /\ more[k] = fr[k]
    BY <1>1, <1>14, <2>3 DEF LastTold
  <2>6. k \in 1 .. f - 1
    BY <1>1, <1>15, <2>5
  <2>7. moment - fr[k].when <= MaxAge
    BY <1>9, <2>1, <2>3, <2>4 DEF Recent
  <2>8. ASSUME NEW h \in k + 1 .. f - 1, more[h].told > 0, more[h].icao = icao
        PROVE  more[h].parity = p
    <3>1. h \in DOMAIN fr /\ h > k /\ h # f
      BY <1>15, <2>6, <2>8
    <3>2. more[h] = fr[h] /\ fr[h].parity # 1 - p
      BY <1>14, <2>3, <2>8, <3>1 DEF LastTold
    <3>3. fr[h] \in FrameType
      BY <3>1
    <3> QED
      BY <1>p, <3>2, <3>3 DEF FrameType, Parities
  <2> QED
    BY <1>13, <1>14, <2>3, <2>4, <2>5, <2>6, <2>7, <2>8 DEF LastTold
<1>20. \A h \in DOMAIN fr : more[h].told = IF h = f THEN 1 ELSE fr[h].told
  BY <1>13, <1>14
<1>21. \A h \in DOMAIN fr :
         more[h].ahead = fr[h].ahead /\ more[h].come = fr[h].come /\ more[h].lost = fr[h].lost
  BY <1>13, <1>14
<1> QED
  BY <1>14, <1>16, <1>17, <1>18, <1>19, <1>20, <1>21, <1>m DEF ToldOK

-----------------------------------------------------------------------------
(* The samples of a block *)

LEMMA FirstNumber ==
  ASSUME NEW g \in FrameType
  PROVE  /\ g.come \in Nat /\ g.ahead \in Nat /\ FirstOf(g) \in Int
         /\ g.come > Overlap => FirstOf(g) <= 0
         /\ Awaited(g) => FirstOf(g) > 0
<1>1. g.come \in Nat /\ g.ahead \in Nat
  BY DEF FrameType
<1> QED
  BY <1>1, AdsbAssumption DEF FirstOf, Awaited

\* How far a frame is with n samples more.
LEMMA FurtherFields ==
  ASSUME NEW g \in FrameType, g.come > 0 => g.ahead = 0, NEW n \in Nat, n > 0,
         NEW h, h = Further(g, n)
  PROVE  /\ h \in FrameType
         /\ h.icao = g.icao /\ h.parity = g.parity /\ h.lost = g.lost
         /\ h.told = g.told /\ h.when = g.when /\ h.pos = g.pos
         /\ h.come > 0 => h.ahead = 0
         /\ ~Awaited(g) => ~Awaited(h) /\ (h.come > Overlap <=> g.come > Overlap)
         /\ Awaited(g) => /\ FirstOf(h) = FirstOf(g) - n /\ FirstOf(g) > 0
                          /\ Awaited(h) <=> FirstOf(g) > n
<1>1. PICK i \in Nat, p \in Parities, a \in Nat, c \in Nat, l \in BOOLEAN, t \in Nat, w \in Nat,
           at \in {<<>>} \union [1 .. 2 -> Nat] :
        g = [icao |-> i, parity |-> p, ahead |-> a, come |-> c, lost |-> l, told |-> t,
             when |-> w, pos |-> at]
  BY DEF FrameType
<1>2. PICK b : b = IF a > n THEN a - n ELSE 0
  OBVIOUS
<1>3. PICK d : d = IF l \/ c > Overlap \/ n <= a THEN c ELSE c + n - a
  OBVIOUS
<1>0. b \in Nat /\ d \in Nat
  BY <1>2, <1>3
<1>4. h = [icao |-> i, parity |-> p, ahead |-> b, come |-> d, lost |-> l, told |-> t,
           when |-> w, pos |-> at]
  BY <1>1, <1>2, <1>3 DEF Further
<1>5. g.ahead = a /\ g.come = c /\ g.lost = l /\ h.ahead = b /\ h.come = d /\ h.lost = l
  BY <1>1, <1>4
<1>6. c > 0 => a = 0
  BY <1>5
<1>7. (d > 0 => b = 0) /\ (~(~l /\ c <= Overlap) => ~(~l /\ d <= Overlap) /\ (d > Overlap <=> c > Overlap))
  BY <1>0, <1>2, <1>3, <1>6, AdsbAssumption
<1>8. ASSUME ~l, c <= Overlap
      PROVE  LET x == IF c > 0 THEN Overlap - c + 1 ELSE Overlap + a + 1
                 y == IF d > 0 THEN Overlap - d + 1 ELSE Overlap + b + 1
             IN  y = x - n /\ x > 0 /\ (d <= Overlap <=> x > n)
  BY <1>2, <1>3, <1>6, <1>0, <1>8, AdsbAssumption
<1>9. h \in FrameType
  BY <1>0, <1>4 DEF FrameType
<1> QED
  BY <1>1, <1>4, <1>5, <1>7, <1>8, <1>9 DEF Awaited, FirstOf

\* A block shifts the samples.
LEMMA AirShifts ==
  ASSUME NEW fr \in Seq(FrameType), NEW air, AirOK(air, fr), NEW n \in Nat, n > 0,
         \A f \in DOMAIN fr : CountsOK(fr[f]),
         NEW more \in Seq(FrameType), DOMAIN more = DOMAIN fr,
         \A f \in DOMAIN fr : LET h == Further(fr[f], n)
                              IN  more[f].ahead = h.ahead /\ more[f].come = h.come /\ more[f].lost = h.lost,
         NEW air2, air2 = [k \in Ordinals |-> air[k + n]]
  PROVE  AirOK(air2, more)
<1>1. Len(more) = Len(fr)
  OBVIOUS
<1>2. \A k \in Ordinals : k + n \in Ordinals /\ air2[k] = air[k + n]
  BY DEF Ordinals
<1>3. air2 \in [Ordinals -> SampleType]
  BY <1>2 DEF AirOK
<1>4. \A k \in Ordinals : air2[k].frame <= Len(more)
  BY <1>1, <1>2 DEF AirOK
<1>5. \A k, l \in Ordinals : air2[k].frame > 0 /\ air2[k] = air2[l] => k = l
  <2> SUFFICES ASSUME NEW k \in Ordinals, NEW l \in Ordinals, air2[k].frame > 0, air2[k] = air2[l]
               PROVE  k = l
    OBVIOUS
  <2>1. k + n = l + n
    BY <1>2 DEF AirOK
  <2>2. k \in Nat /\ l \in Nat /\ n \in Nat
    BY DEF Ordinals
  <2> QED
    BY ONLY <2>1, <2>2
<1>6. ASSUME NEW f \in DOMAIN fr
      PROVE  IF Awaited(more[f]) THEN Whole(air2, f, FirstOf(more[f])) ELSE Broken(air2, f)
  <2>1. PICK h : h = Further(fr[f], n)
    OBVIOUS
  <2>2. Awaited(more[f]) = Awaited(h) /\ FirstOf(more[f]) = FirstOf(h)
    BY <2>1 DEF Awaited, FirstOf
  <2>3. fr[f] \in FrameType
    OBVIOUS
  <2>4. /\ ~Awaited(fr[f]) => ~Awaited(h)
        /\ Awaited(fr[f]) => /\ FirstOf(h) = FirstOf(fr[f]) - n /\ FirstOf(fr[f]) > 0
                             /\ Awaited(h) <=> FirstOf(fr[f]) > n
    BY <2>1, <2>3, FurtherFields DEF CountsOK
  <2>5. IF Awaited(fr[f]) THEN Whole(air, f, FirstOf(fr[f])) ELSE Broken(air, f)
    BY DEF AirOK
  <2>6. CASE ~Awaited(fr[f])
    <3>1. Broken(air2, f)
      BY <1>2, <2>5, <2>6 DEF Broken
    <3> QED
      BY <2>2, <2>4, <2>6, <3>1
  <2>7. CASE Awaited(fr[f])
    <3>1. PICK at \in Int : at = FirstOf(fr[f])
      BY <2>3, FirstNumber
    <3>2. Whole(air, f, at)
      BY <2>5, <2>7, <3>1
    <3>3. CASE at > n
      <4>1. ASSUME NEW i \in 1 .. FrameSize
            PROVE  air2[at - n + i - 1] = [frame |-> f, place |-> i]
        <5>1. PICK k \in Ordinals : k = (at - n) + i - 1
          BY <3>3, AdsbAssumption DEF Ordinals
        <5>2. k + n = at + i - 1
          BY <5>1 DEF Ordinals
        <5>3. air2[k] = air[at + i - 1]
          BY <1>2, <5>2
        <5>4. air[at + i - 1] = [frame |-> f, place |-> i]
          BY <3>2 DEF Whole
        <5> QED
          BY <5>1, <5>3, <5>4
      <4>2. Whole(air2, f, at - n)
        BY <4>1 DEF Whole
      <4> QED
        BY <2>2, <2>4, <2>7, <3>1, <3>3, <4>2
    <3>4. CASE ~(at > n)
      <4>1. 1 \in 1 .. FrameSize /\ at + 1 - 1 = at
        BY AdsbAssumption
      <4>2. air[at] = [frame |-> f, place |-> 1] /\ at \in Ordinals
        <5>1. at > 0
          BY <2>4, <2>7, <3>1
        <5>2. air[at + 1 - 1] = [frame |-> f, place |-> 1]
          BY <3>2, <4>1 DEF Whole
        <5> QED
          BY <4>1, <5>1, <5>2 DEF Ordinals
      <4>3. f > 0
        OBVIOUS
      <4>4. ASSUME NEW k \in Ordinals, air2[k] = [frame |-> f, place |-> 1]
            PROVE  FALSE
        <5>1. k + n = at
          <6>1. k + n \in Ordinals /\ air[k + n] = [frame |-> f, place |-> 1]
            BY <1>2, <4>4
          <6>2. air[at].frame > 0 /\ air[at] = air[k + n]
            BY <4>2, <4>3, <6>1
          <6> QED
            BY <4>2, <6>1, <6>2 DEF AirOK
        <5> QED
          BY <3>4, <5>1 DEF Ordinals
      <4>5. Broken(air2, f)
        BY <4>1, <4>4 DEF Broken
      <4> QED
        BY <2>2, <2>4, <2>7, <3>1, <3>4, <4>5
    <3> QED
      BY <3>3, <3>4
  <2> QED
    BY <2>6, <2>7
<1> QED
  BY <1>3, <1>4, <1>5, <1>6 DEF AirOK

\* Their order.
LEMMA OrderShifts ==
  ASSUME NEW fr \in Seq(FrameType), InOrder(fr), NEW n \in Nat, n > 0,
         \A f \in DOMAIN fr : CountsOK(fr[f]),
         NEW more \in Seq(FrameType), DOMAIN more = DOMAIN fr,
         \A f \in DOMAIN fr : LET h == Further(fr[f], n)
                              IN  more[f].ahead = h.ahead /\ more[f].come = h.come /\ more[f].lost = h.lost
  PROVE  InOrder(more)
<1>1. ASSUME NEW f \in DOMAIN fr
      PROVE  /\ fr[f] \in FrameType /\ FirstOf(fr[f]) \in Int
             /\ more[f].lost = fr[f].lost
             /\ ~Awaited(fr[f]) => ~Awaited(more[f])
             /\ Awaited(fr[f]) => FirstOf(more[f]) = FirstOf(fr[f]) - n /\ FirstOf(fr[f]) > 0
  <2>1. PICK h : h = Further(fr[f], n)
    OBVIOUS
  <2>2. Awaited(more[f]) = Awaited(h) /\ FirstOf(more[f]) = FirstOf(h) /\ more[f].lost = h.lost
    BY <2>1 DEF Awaited, FirstOf
  <2>3. fr[f] \in FrameType
    OBVIOUS
  <2>4. FirstOf(fr[f]) \in Int
    BY <2>3, FirstNumber
  <2> QED
    BY <2>1, <2>2, <2>3, <2>4, FurtherFields DEF CountsOK
<1>2. ASSUME NEW f \in DOMAIN fr, NEW g \in DOMAIN fr, f < g, Awaited(more[f]), ~more[g].lost
      PROVE  FirstOf(more[f]) < FirstOf(more[g])
  <2>1. Awaited(fr[f]) /\ ~fr[g].lost /\ FirstOf(fr[f]) < FirstOf(fr[g])
    BY <1>1, <1>2 DEF InOrder
  <2>2. Awaited(fr[g])
    <3> SUFFICES ASSUME fr[g].come > Overlap PROVE FALSE
      BY <1>1, <2>1, FirstNumber, AdsbAssumption DEF Awaited
    <3>1. FirstOf(fr[g]) <= 0
      BY <1>1, FirstNumber
    <3> QED
      BY <1>1, <2>1, <3>1
  <2> QED
    BY <1>1, <2>1, <2>2
<1> QED
  BY <1>2 DEF InOrder

\* The frame of which a sample is lost.
Touched(g, n) == g.come < FrameSize /\ g.ahead < n

\* Samples that do not come, behind those that are carried over.
LEMMA AirLosesSome ==
  ASSUME NEW fr \in Seq(FrameType), NEW air, AirOK(air, fr), NEW n \in Nat, n > 0,
         \A f \in DOMAIN fr : CountsOK(fr[f]),
         NEW more \in Seq(FrameType), DOMAIN more = DOMAIN fr,
         \A f \in DOMAIN fr : Touched(fr[f], n) => more[f].lost,
         \A f \in DOMAIN fr : ~Touched(fr[f], n) =>
            /\ more[f].lost = fr[f].lost /\ more[f].come = fr[f].come
            /\ more[f].ahead = IF fr[f].ahead > n THEN fr[f].ahead - n ELSE 0,
         NEW air2, air2 = [k \in Ordinals |-> IF k <= Overlap THEN air[k] ELSE air[k + n]]
  PROVE  AirOK(air2, more)
<1>1. Len(more) = Len(fr)
  OBVIOUS
<1>2. \A k \in Ordinals : k + n \in Ordinals /\ k \in Nat /\ k > 0
  BY DEF Ordinals
<1>3. \A k \in Ordinals : \E l \in Ordinals :
        air2[k] = air[l] /\ ((l = k /\ k <= Overlap) \/ (l = k + n /\ k > Overlap))
  BY <1>2, AdsbAssumption
<1>4. air2 \in [Ordinals -> SampleType]
  BY <1>2 DEF AirOK
<1>5. \A k \in Ordinals : air2[k].frame <= Len(more)
  BY <1>1, <1>3 DEF AirOK
<1>6. \A k, l \in Ordinals : air2[k].frame > 0 /\ air2[k] = air2[l] => k = l
  <2> SUFFICES ASSUME NEW k \in Ordinals, NEW l \in Ordinals, air2[k].frame > 0, air2[k] = air2[l]
               PROVE  k = l
    OBVIOUS
  <2>1. PICK i \in Ordinals : air2[k] = air[i] /\ ((i = k /\ k <= Overlap) \/ (i = k + n /\ k > Overlap))
    BY <1>3
  <2>2. PICK j \in Ordinals : air2[l] = air[j] /\ ((j = l /\ l <= Overlap) \/ (j = l + n /\ l > Overlap))
    BY <1>3
  <2>3. i = j
    BY <2>1, <2>2 DEF AirOK
  <2>4. k \in Nat /\ l \in Nat /\ n \in Nat /\ Overlap \in Nat
    BY AdsbAssumption DEF Ordinals
  <2>5. (i = k /\ k <= Overlap) \/ (i = k + n /\ k > Overlap)
    BY <2>1
  <2>6. (i = l /\ l <= Overlap) \/ (i = l + n /\ l > Overlap)
    BY <2>2, <2>3
  <2> QED
    BY ONLY <2>4, <2>5, <2>6
<1>7. ASSUME NEW f \in DOMAIN fr, Broken(air, f)
      PROVE  Broken(air2, f)
  BY <1>3, <1>7 DEF Broken
<1>8. ASSUME NEW f \in DOMAIN fr
      PROVE  IF Awaited(more[f]) THEN Whole(air2, f, FirstOf(more[f])) ELSE Broken(air2, f)
  <2>1. fr[f] \in FrameType /\ f > 0
    OBVIOUS
  <2>2. PICK c \in Nat : c = fr[f].come
    BY <2>1, FirstNumber
  <2>3. PICK a \in Nat : a = fr[f].ahead
    BY <2>1, FirstNumber
  <2>4. c > 0 => a = 0
    BY <2>2, <2>3 DEF CountsOK
  <2>5. CASE ~Awaited(fr[f])
    <3>1. ~Awaited(more[f])
      BY <2>5 DEF Awaited
    <3>2. Broken(air, f)
      BY <2>5 DEF AirOK
    <3> QED
      BY <1>7, <3>1, <3>2
  <2>6. CASE Awaited(fr[f]) /\ Touched(fr[f], n)
    <3>1. c < FrameSize /\ a < n
      BY <2>2, <2>3, <2>6 DEF Touched
    <3>2. PICK at \in Nat : at = FirstOf(fr[f])
      BY <2>1, <2>6, FirstNumber
    <3>3. at = (IF c > 0 THEN Overlap - c + 1 ELSE Overlap + a + 1) /\ at > 0
      BY <2>1, <2>2, <2>3, <2>6, <3>2, FirstNumber DEF FirstOf
    <3>4. PICK i \in 1 .. FrameSize : i = c + 1
      BY <3>1, AdsbAssumption
    <3>5. PICK at2 \in Ordinals : at2 = at + i - 1
      BY <3>3 DEF Ordinals
    <3>6. at2 > Overlap /\ at2 <= Overlap + n
      <4>1. PICK ov \in Nat : ov = Overlap
        BY AdsbAssumption
      <4>2. at = (IF c > 0 THEN ov - c + 1 ELSE ov + a + 1) /\ at2 = at + i - 1 /\ i = c + 1
        BY <3>3, <3>4, <3>5, <4>1
      <4>3. at2 > ov /\ at2 <= ov + n
        BY ONLY <2>4, <3>1, <4>2, ov \in Nat, c \in Nat, a \in Nat, n \in Nat, at \in Nat, i \in Int
      <4> QED
        BY <4>1, <4>3
    <3>7. air[at2] = [frame |-> f, place |-> i]
      BY <2>6, <3>2, <3>5 DEF AirOK, Whole
    <3>8. ASSUME NEW k \in Ordinals, air2[k] = [frame |-> f, place |-> i]
          PROVE  FALSE
      <4>1. PICK l \in Ordinals : air2[k] = air[l] /\ ((l = k /\ k <= Overlap) \/ (l = k + n /\ k > Overlap))
        BY <1>3
      <4>2. l = at2
        BY <2>1, <3>7, <3>8, <4>1 DEF AirOK
      <4> QED
        BY <1>2, <3>6, <4>1, <4>2, AdsbAssumption
    <3>9. Broken(air2, f)
      BY <3>8 DEF Broken
    <3> QED
      BY <2>6, <3>9 DEF Awaited
  <2>7. CASE Awaited(fr[f]) /\ ~Touched(fr[f], n)
    <3>1. Awaited(more[f]) /\ more[f].come = c /\ more[f].ahead = IF a > n THEN a - n ELSE 0
      BY <2>2, <2>3, <2>7 DEF Awaited
    <3>2. c >= FrameSize \/ (c = 0 /\ a >= n)
      BY <2>2, <2>3, <2>4, <2>7, AdsbAssumption DEF Touched
    <3>3. c <= Overlap
      BY <2>2, <2>7 DEF Awaited
    <3>4. PICK at \in Nat : at = FirstOf(fr[f])
      BY <2>1, <2>7, FirstNumber
    <3>5. at = (IF c > 0 THEN Overlap - c + 1 ELSE Overlap + a + 1) /\ at > 0
      BY <2>1, <2>2, <2>3, <2>7, <3>4, FirstNumber DEF FirstOf
    <3>6. PICK at2 \in Nat : at2 = (IF c > 0 THEN Overlap - c + 1 ELSE Overlap + (a - n) + 1)
      BY <3>2, <3>3, AdsbAssumption
    <3>7. FirstOf(more[f]) = at2
      BY <3>1, <3>2, <3>6, AdsbAssumption DEF FirstOf
    <3>8. ASSUME NEW i \in 1 .. FrameSize
          PROVE  air2[at2 + i - 1] = [frame |-> f, place |-> i]
      <4>1. PICK k \in Ordinals : k = at2 + i - 1
        BY <3>2, <3>3, <3>6, AdsbAssumption DEF Ordinals
      <4>2. PICK l \in Ordinals : l = at + i - 1
        BY <3>5 DEF Ordinals
      <4>3. IF k <= Overlap THEN l = k ELSE l = k + n
        BY <3>2, <3>3, <3>5, <3>6, <4>1, <4>2, AdsbAssumption
      <4>4. air2[k] = air[l]
        BY <4>3
      <4>5. air[l] = [frame |-> f, place |-> i]
        BY <2>7, <3>4, <4>2 DEF AirOK, Whole
      <4> QED
        BY <4>1, <4>4, <4>5
    <3> QED
      BY <3>1, <3>7, <3>8 DEF Whole
  <2> QED
    BY <2>5, <2>6, <2>7
<1> QED
  BY <1>4, <1>5, <1>6, <1>8 DEF AirOK

LEMMA OrderLosesSome ==
  ASSUME NEW fr \in Seq(FrameType), InOrder(fr), NEW n \in Nat, n > 0,
         \A f \in DOMAIN fr : CountsOK(fr[f]),
         NEW more \in Seq(FrameType), DOMAIN more = DOMAIN fr,
         \A f \in DOMAIN fr : Touched(fr[f], n) => more[f].lost,
         \A f \in DOMAIN fr : ~Touched(fr[f], n) =>
            /\ more[f].lost = fr[f].lost /\ more[f].come = fr[f].come
            /\ more[f].ahead = IF fr[f].ahead > n THEN fr[f].ahead - n ELSE 0
  PROVE  InOrder(more)
<1> SUFFICES ASSUME NEW f \in DOMAIN fr, NEW g \in DOMAIN fr, f < g, Awaited(more[f]), ~more[g].lost
             PROVE  FirstOf(more[f]) < FirstOf(more[g])
  BY DEF InOrder
<1>1. fr[f] \in FrameType /\ fr[g] \in FrameType
  OBVIOUS
<1>2. ~Touched(fr[f], n) /\ ~Touched(fr[g], n)
  BY DEF Awaited
<1>3. Awaited(fr[f]) /\ ~fr[g].lost
  BY <1>2 DEF Awaited
<1>4. FirstOf(fr[f]) < FirstOf(fr[g])
  BY <1>3 DEF InOrder
<1>5. PICK c \in Nat, a \in Nat : c = fr[f].come /\ a = fr[f].ahead
  BY <1>1, FirstNumber
<1>6. PICK d \in Nat, b \in Nat : d = fr[g].come /\ b = fr[g].ahead
  BY <1>1, FirstNumber
<1>7. (c > 0 => a = 0) /\ (d > 0 => b = 0)
  BY <1>5, <1>6 DEF CountsOK
<1>8. (c >= FrameSize \/ (c = 0 /\ a >= n)) /\ (d >= FrameSize \/ (d = 0 /\ b >= n))
  BY <1>2, <1>5, <1>6, <1>7, AdsbAssumption DEF Touched
<1>9. /\ FirstOf(more[f]) = IF c > 0 THEN Overlap - c + 1 ELSE Overlap + (IF a > n THEN a - n ELSE 0) + 1
      /\ FirstOf(more[g]) = IF d > 0 THEN Overlap - d + 1 ELSE Overlap + (IF b > n THEN b - n ELSE 0) + 1
      /\ FirstOf(fr[f]) = IF c > 0 THEN Overlap - c + 1 ELSE Overlap + a + 1
      /\ FirstOf(fr[g]) = IF d > 0 THEN Overlap - d + 1 ELSE Overlap + b + 1
  BY <1>2, <1>5, <1>6 DEF FirstOf
<1> QED
  BY <1>4, <1>7, <1>8, <1>9, AdsbAssumption

\* A frame behind all there is.
LEMMA AirGetsMore ==
  ASSUME NEW fr \in Seq(FrameType), NEW air, AirOK(air, fr),
         NEW end \in Nat, end >= Overlap, \A k \in Ordinals : k > end => air[k] = Nothing,
         NEW g \in FrameType, g.come = 0, g.ahead = end - Overlap, ~g.lost,
         NEW f0 \in Nat, f0 = Len(fr) + 1,
         NEW air2, air2 = [k \in Ordinals |-> IF k > end /\ k <= end + FrameSize
                                              THEN [frame |-> f0, place |-> k - end] ELSE air[k]]
  PROVE  AirOK(air2, Append(fr, g)) /\ FirstOf(g) = end + 1 /\ Awaited(g)
<1> DEFINE more == Append(fr, g)
<1>1. PICK n \in Nat : n = Len(fr)
  OBVIOUS
<1>2. DOMAIN fr = 1 .. n /\ f0 = n + 1 /\ DOMAIN more = 1 .. n + 1 /\ Len(more) = n + 1
  BY <1>1
<1>3. \A f \in 1 .. n : more[f] = fr[f]
  BY <1>2
<1>4. more[f0] = g
  BY <1>2
<1>5. FirstOf(g) = end + 1
  BY AdsbAssumption DEF FirstOf
<1>6. Awaited(g)
  BY AdsbAssumption DEF Awaited
<1> HIDE DEF more
<1>7. \A k \in Ordinals : air[k] \in SampleType /\ air[k].frame \in Nat /\ air[k].frame <= n
  BY <1>1 DEF AirOK, SampleType
<1>8. ASSUME NEW k \in Ordinals
      PROVE  \/ /\ k > end /\ k <= end + FrameSize
                /\ air2[k] = [frame |-> f0, place |-> k - end] /\ k - end \in Nat
             \/ (k <= end \/ k > end + FrameSize) /\ air2[k] = air[k]
  BY AdsbAssumption DEF Ordinals
<1>9. air2 \in [Ordinals -> SampleType]
  <2>1. DOMAIN air2 = Ordinals
    OBVIOUS
  <2>2. \A k \in Ordinals : air2[k] \in SampleType
    BY <1>7, <1>8 DEF SampleType
  <2>3. air2 = [k \in Ordinals |-> air2[k]]
    OBVIOUS
  <2> QED
    BY <2>1, <2>2, <2>3
<1>10. \A k \in Ordinals : air2[k].frame <= Len(more)
  BY <1>2, <1>7, <1>8
<1>11. ASSUME NEW k \in Ordinals, NEW l \in Ordinals, air2[k].frame > 0, air2[k] = air2[l]
       PROVE  k = l
  <2>1. k \in Nat /\ l \in Nat
    BY DEF Ordinals
  <2>2. CASE air2[k].frame = f0
    <3>1. air2[k] = [frame |-> f0, place |-> k - end]
      BY <1>2, <1>7, <1>8, <2>2
    <3>2. air2[l] = [frame |-> f0, place |-> l - end]
      BY <1>2, <1>7, <1>8, <1>11, <2>2
    <3> QED
      BY <1>11, <2>1, <3>1, <3>2
  <2>3. CASE air2[k].frame # f0
    <3>1. air2[k] = air[k] /\ air2[l] = air[l]
      BY <1>8, <1>11, <2>3
    <3> QED
      BY <1>11, <3>1 DEF AirOK
  <2> QED
    BY <2>2, <2>3
<1>12. ASSUME NEW f \in 1 .. n
       PROVE  /\ Awaited(fr[f]) => Whole(air2, f, FirstOf(fr[f])) /\ FirstOf(fr[f]) <= end
              /\ ~Awaited(fr[f]) => Broken(air2, f)
  <2>0. fr[f] \in FrameType /\ f > 0 /\ f # f0
    BY <1>2
  <2>1. ASSUME ~Awaited(fr[f])
        PROVE  Broken(air2, f)
    <3>1. PICK i \in 1 .. FrameSize : \A k \in Ordinals : air[k] # [frame |-> f, place |-> i]
      BY <1>2, <2>1 DEF AirOK, Broken
    <3>2. \A k \in Ordinals : air2[k] # [frame |-> f, place |-> i]
      BY <1>8, <2>0, <3>1
    <3> QED
      BY <3>2 DEF Broken
  <2>2. ASSUME Awaited(fr[f])
        PROVE  Whole(air2, f, FirstOf(fr[f])) /\ FirstOf(fr[f]) <= end
    <3>1. PICK at \in Nat : at = FirstOf(fr[f]) /\ at > 0
      BY <2>0, <2>2, FirstNumber
    <3>2. \A i \in 1 .. FrameSize : air[at + i - 1] = [frame |-> f, place |-> i]
      BY <1>2, <2>2, <3>1 DEF AirOK, Whole
    <3>3. ASSUME NEW i \in 1 .. FrameSize
          PROVE  air2[at + i - 1] = [frame |-> f, place |-> i] /\ at + i - 1 <= end
      <4>1. PICK k \in Ordinals : k = at + i - 1
        BY <3>1 DEF Ordinals
      <4>2. air[k] = [frame |-> f, place |-> i]
        BY <3>2, <4>1
      <4>3. air[k] # Nothing
        BY <2>0, <4>2 DEF Nothing
      <4>4. ~(k > end)
        BY <4>3
      <4>5. air2[k] = air[k]
        BY <1>8, <4>4
      <4>6. k <= end
        BY <4>4 DEF Ordinals
      <4> QED
        BY <4>1, <4>2, <4>5, <4>6
    <3>4. at <= end
      <4>1. 1 \in 1 .. FrameSize /\ at + 1 - 1 = at
        BY AdsbAssumption
      <4> QED
        BY <3>3, <4>1
    <3> QED
      BY <3>1, <3>3, <3>4 DEF Whole
  <2> QED
    BY <2>1, <2>2
<1>13. Whole(air2, f0, FirstOf(g))
  <2> SUFFICES ASSUME NEW i \in 1 .. FrameSize
               PROVE  air2[end + 1 + i - 1] = [frame |-> f0, place |-> i]
    BY <1>5 DEF Whole
  <2>1. PICK k \in Ordinals : k = end + 1 + i - 1
    BY DEF Ordinals
  <2>2. k > end /\ k <= end + FrameSize /\ k - end = i
    BY <2>1, AdsbAssumption
  <2>3. air2[k] = [frame |-> f0, place |-> k - end]
    BY <2>2
  <2> QED
    BY <2>1, <2>2, <2>3
<1>14. \A f \in DOMAIN more : IF Awaited(more[f]) THEN Whole(air2, f, FirstOf(more[f])) ELSE Broken(air2, f)
  <2> SUFFICES ASSUME NEW f \in 1 .. n + 1
               PROVE  IF Awaited(more[f]) THEN Whole(air2, f, FirstOf(more[f])) ELSE Broken(air2, f)
    BY <1>2
  <2>1. CASE f \in 1 .. n
    BY <1>3, <1>12, <2>1
  <2>2. CASE f = n + 1
    BY <1>2, <1>4, <1>6, <1>13, <2>2
  <2> QED
    BY <2>1, <2>2
<1>15. AirOK(air2, more)
  BY <1>9, <1>10, <1>11, <1>14 DEF AirOK
<1> QED
  BY <1>5, <1>6, <1>15 DEF more

LEMMA OrderGetsMore ==
  ASSUME NEW fr \in Seq(FrameType), NEW air, AirOK(air, fr), InOrder(fr),
         NEW end \in Nat, \A k \in Ordinals : k > end => air[k] = Nothing,
         NEW g \in FrameType, FirstOf(g) = end + 1
  PROVE  InOrder(Append(fr, g))
<1> DEFINE more == Append(fr, g)
<1>1. PICK n \in Nat : n = Len(fr)
  OBVIOUS
<1>2. DOMAIN fr = 1 .. n /\ DOMAIN more = 1 .. n + 1
  BY <1>1
<1>3. (\A f \in 1 .. n : more[f] = fr[f]) /\ more[n + 1] = g
  BY <1>1, <1>2
<1> HIDE DEF more
<1> SUFFICES ASSUME NEW f \in 1 .. n + 1, NEW h \in 1 .. n + 1, f < h, Awaited(more[f]), ~more[h].lost
             PROVE  FirstOf(more[f]) < FirstOf(more[h])
  BY <1>2 DEF InOrder, more
<1>4. f \in 1 .. n /\ fr[f] \in FrameType /\ f > 0
  BY <1>2
<1>5. CASE h \in 1 .. n
  BY <1>2, <1>3, <1>4, <1>5 DEF InOrder
<1>6. CASE h = n + 1
  <2>1. PICK at \in Nat : at = FirstOf(fr[f]) /\ at > 0
    BY <1>3, <1>4, FirstNumber
  <2>2. 1 \in 1 .. FrameSize /\ at + 1 - 1 = at
    BY AdsbAssumption
  <2>3. air[at + 1 - 1] = [frame |-> f, place |-> 1]
    BY <1>2, <1>3, <1>4, <2>1, <2>2 DEF AirOK, Whole
  <2>4. at \in Ordinals /\ air[at] # Nothing
    BY <1>4, <2>1, <2>2, <2>3 DEF Nothing, Ordinals
  <2>5. ~(at > end)
    BY <2>4
  <2> QED
    BY <1>3, <1>4, <1>6, <2>1, <2>5
<1> QED
  BY <1>5, <1>6

\* One sequence behind another.
LEMMA Joined ==
  ASSUME NEW S, NEW a \in Seq(S), NEW b \in Seq(S)
  PROVE  /\ a \o b \in Seq(S) /\ Len(a \o b) = Len(a) + Len(b)
         /\ \A k \in 1 .. Len(a) : (a \o b)[k] = a[k]
         /\ \A k \in 1 .. Len(b) : (a \o b)[Len(a) + k] = b[k]
<1>0. PICK m \in Nat : m = Len(a)
  OBVIOUS
<1>n. PICK n \in Nat : n = Len(b)
  OBVIOUS
<1>1. a \o b \in Seq(S) /\ Len(a \o b) = m + n
  BY <1>0, <1>n
<1>2. \A k \in 1 .. m + n : (a \o b)[k] = IF k <= m THEN a[k] ELSE b[k - m]
  BY <1>0, <1>n
<1>3. \A k \in 1 .. m : k \in 1 .. m + n /\ k <= m
  OBVIOUS
<1>4. \A k \in 1 .. n : m + k \in 1 .. m + n /\ ~(m + k <= m) /\ (m + k) - m = k
  OBVIOUS
<1>5. /\ \A k \in 1 .. m : (a \o b)[k] = a[k]
      /\ \A k \in 1 .. n : (a \o b)[m + k] = b[k]
  BY <1>2, <1>3, <1>4
<1> QED
  BY <1>0, <1>n, <1>1, <1>5

\* The row after a block, without the samples of a block, and with a frame.
Moved(air, n) == [k \in Ordinals |-> air[k + n]]
Skipped(air, n) == [k \in Ordinals |-> IF k <= Overlap THEN air[k] ELSE air[k + n]]
Filled(air, end, f) ==
  [k \in Ordinals |-> IF k > end /\ k <= end + FrameSize THEN [frame |-> f, place |-> k - end] ELSE air[k]]

SentBehind(s, gap, f) ==
  s \o [i \in 1 .. gap |-> Nothing] \o [i \in 1 .. FrameSize |-> [frame |-> f, place |-> i]]

\* What is left of a sequence.
LEMMA LeftOver ==
  ASSUME NEW s \in Seq(SampleType), NEW n \in Nat, n > 0, NEW rest, rest = SubSeq(s, n + 1, Len(s))
  PROVE  /\ rest \in Seq(SampleType) /\ Len(rest) \in Nat
         /\ \A i \in Nat : i > 0 => (IF i <= Len(rest) THEN rest[i] ELSE Nothing)
                                     = (IF n + i <= Len(s) THEN s[n + i] ELSE Nothing)
<1>1. PICK len \in Nat : len = Len(s)
  OBVIOUS
<1>2. Len(rest) = (IF n + 1 <= len THEN len - (n + 1) + 1 ELSE 0)
  BY <1>1, SubSeqProperties
<1>3. rest \in Seq(SampleType)
  BY <1>1, SubSeqProperties
<1>4. \A k \in 1 .. Len(rest) : rest[k] = s[n + 1 + k - 1]
  BY <1>1, SubSeqProperties
<1>5. PICK rl \in Nat : rl = Len(rest)
  <2>1. Len(rest) \in Nat
    BY ONLY <1>3
  <2> QED
    BY <2>1
<1>6. \A k \in 1 .. rl : n + 1 + k - 1 = n + k
  OBVIOUS
<1>7. rl = IF len > n THEN len - n ELSE 0
  BY <1>2, <1>5
<1>8. ASSUME NEW i \in Nat, i > 0
      PROVE  (IF i <= rl THEN rest[i] ELSE Nothing) = (IF n + i <= len THEN s[n + i] ELSE Nothing)
  <2>1. n + i <= len <=> i <= rl
    BY <1>7, <1>8
  <2>2. i <= rl => rest[i] = s[n + i]
    BY <1>4, <1>5, <1>6, <1>8
  <2> QED
    BY <2>1, <2>2
<1> QED
  BY <1>1, <1>3, <1>5, <1>8

\* What a block brings and what it leaves, as the row of samples.
\* A block of n samples is the beginning of the row, and leaves the rest of it.
RowCut(buf, air, n) ==
  /\ \A k \in 1 .. Overlap + n : buf[k] = air[k]
  /\ TailOf(buf, n) \in Seq(SampleType) /\ Len(TailOf(buf, n)) = Overlap
  /\ SubSeq(stream, n + 1, Len(stream)) \in Seq(SampleType)
  /\ RowOf(TailOf(buf, n), SubSeq(stream, n + 1, Len(stream))) = Moved(air, n)

LEMMA RowOfBlock ==
  ASSUME mag_buf \in Seq(SampleType), Len(mag_buf) = Overlap, stream \in Seq(SampleType),
         NEW n \in Nat, n > 0,
         NEW buf, buf = mag_buf \o Samples(n),
         NEW air, air = RowOf(mag_buf, stream)
  PROVE  RowCut(buf, air, n)
<1>w. PICK new : new = Samples(n)
  OBVIOUS
<1>g. PICK base : base = mag_buf
  OBVIOUS
<1> DEFINE rest == SubSeq(stream, n + 1, Len(stream))
           tail == TailOf(buf, n)
<1>1. PICK len \in Nat : len = Len(stream)
  OBVIOUS
<1>2. Nothing \in SampleType
  BY DEF Nothing, SampleType
<1>3. /\ new \in Seq(SampleType) /\ Len(new) = n
      /\ \A i \in 1 .. n : new[i] = IF i <= len THEN stream[i] ELSE Nothing
  <2>1. \A i \in 1 .. n : (IF i <= len THEN stream[i] ELSE Nothing) \in SampleType
    BY <1>1, <1>2
  <2>2. new = [i \in 1 .. n |-> IF i <= len THEN stream[i] ELSE Nothing]
    BY <1>1, <1>w DEF Samples
  <2> QED
    BY <2>1, <2>2
<1>m. PICK ov \in Nat : ov = Overlap
  BY AdsbAssumption
<1>b. buf = base \o new /\ base \in Seq(SampleType) /\ Len(base) = ov
  BY <1>g, <1>m, <1>w
<1>4. buf \in Seq(SampleType) /\ Len(buf) = ov + n
  <2>1. new \in Seq(SampleType)
    BY <1>3
  <2>2. base \o new \in Seq(SampleType) /\ Len(base \o new) = Len(base) + Len(new)
    BY ONLY <1>b, <2>1, Joined
  <2> QED
    BY <1>3, <1>b, <2>2
<1>5. /\ \A k \in 1 .. ov : buf[k] = mag_buf[k]
      /\ \A k \in 1 .. n : buf[ov + k] = new[k]
  <2>1. new \in Seq(SampleType)
    BY <1>3
  <2>2. /\ \A k \in 1 .. Len(base) : (base \o new)[k] = base[k]
        /\ \A k \in 1 .. Len(new) : (base \o new)[Len(base) + k] = new[k]
    BY ONLY <1>b, <2>1, Joined
  <2> QED
    BY <1>3, <1>b, <1>g, <2>2
<1>6. /\ \A k \in Ordinals : k <= Overlap => air[k] = mag_buf[k]
      /\ \A k \in Ordinals : k > Overlap => air[k] = IF k - Overlap <= len THEN stream[k - Overlap] ELSE Nothing
      /\ \A k \in Ordinals : k \in Nat /\ k > 0
  BY <1>1, AdsbAssumption DEF RowOf, Ordinals
<1>7. ASSUME NEW k \in 1 .. Overlap + n
      PROVE  buf[k] = air[k]
  <2>1. k \in Ordinals
    BY AdsbAssumption DEF Ordinals
  <2>2. CASE k <= Overlap
    <3>1. k \in 1 .. ov
      BY <1>m, <2>2
    <3> QED
      BY <1>5, <1>6, <2>1, <2>2, <3>1
  <2>3. CASE k > Overlap
    <3>1. PICK i \in 1 .. n : i = k - Overlap
      BY <2>3, AdsbAssumption
    <3>2. buf[k] = new[i]
      <4>1. ov + i = k
        BY <1>m, <3>1
      <4> QED
        BY <1>5, <4>1
    <3>3. air[k] = IF i <= len THEN stream[i] ELSE Nothing
      BY <1>6, <2>1, <2>3, <3>1
    <3> QED
      BY <1>3, <3>1, <3>2, <3>3
  <2>4. k <= Overlap \/ k > Overlap
    <3>1. k \in 1 .. ov + n
      BY <1>m
    <3>2. k <= ov \/ k > ov
      BY <3>1
    <3> QED
      BY <1>m, <3>2
  <2> QED
    BY <2>2, <2>3, <2>4
<1>8. /\ tail \in Seq(SampleType) /\ Len(tail) = Overlap
      /\ \A k \in 1 .. Overlap : tail[k] = buf[n + k]
  <2>2. PICK m \in Nat : m = Overlap
    BY AdsbAssumption
  <2>3. tail = SubSeq(buf, n + 1, n + m)
    BY <2>2 DEF TailOf
  <2>4. PICK bl \in Nat : bl = Len(buf) /\ bl = m + n
    BY <1>4, <1>m, <2>2
  <2>5. \A i \in n + 1 .. n + m : i \in 1 .. bl
    BY <2>4
  <2>6. \A i \in n + 1 .. n + m : buf[i] \in SampleType
    BY <1>4, <2>4, <2>5
  <2>7. tail \in Seq(SampleType)
    BY <2>3, <2>6, SubSeqProperties, <1>4, <2>4
  <2>8. Len(tail) = m /\ \A k \in 1 .. m : tail[k] = buf[n + k]
    <3>1. Len(SubSeq(buf, n + 1, n + m)) = (IF n + 1 <= n + m THEN (n + m) - (n + 1) + 1 ELSE 0)
      BY <1>4, <2>4, SubSeqProperties
    <3>2. \A k \in 1 .. m : SubSeq(buf, n + 1, n + m)[k] = buf[n + 1 + k - 1]
      <4>1. \A k \in 1 .. m : k \in 1 .. (n + m) - (n + 1) + 1
        OBVIOUS
      <4>2. \A k \in 1 .. (n + m) - (n + 1) + 1 : SubSeq(buf, n + 1, n + m)[k] = buf[n + 1 + k - 1]
        <5>1. n + 1 \in Int /\ n + m \in Int
          OBVIOUS
        <5>2. \A i \in n + 1 .. n + m : buf[i] \in SampleType
          BY <2>6
        <5> QED
          BY ONLY <5>1, <5>2, SubSeqProperties
      <4> QED
        BY <4>1, <4>2
    <3>3. \A k \in 1 .. m : n + 1 + k - 1 = n + k
      OBVIOUS
    <3>4. (IF n + 1 <= n + m THEN (n + m) - (n + 1) + 1 ELSE 0) = m
      OBVIOUS
    <3> QED
      BY <2>3, <3>1, <3>2, <3>3, <3>4
  <2> QED
    BY <2>2, <2>7, <2>8
<1>9. /\ rest \in Seq(SampleType) /\ Len(rest) \in Nat
      /\ \A i \in Nat : i > 0 => (IF i <= Len(rest) THEN rest[i] ELSE Nothing)
                                  = (IF n + i <= len THEN stream[n + i] ELSE Nothing)
  BY <1>1, LeftOver
<1> HIDE DEF rest, tail
<1>10. ASSUME NEW k \in Ordinals
       PROVE  (IF k <= Overlap THEN tail[k] ELSE IF k - Overlap <= Len(rest) THEN rest[k - Overlap] ELSE Nothing)
                = air[k + n]
  <2>1. k \in Nat /\ k > 0 /\ k + n \in Ordinals
    BY DEF Ordinals
  <2>2. CASE k <= Overlap
    <3>1. k \in 1 .. Overlap /\ n + k \in 1 .. Overlap + n /\ n + k = k + n
      BY <2>1, <2>2, AdsbAssumption
    <3> QED
      BY <1>7, <1>8, <2>2, <3>1
  <2>3. CASE k > Overlap
    <3>1. PICK i \in Nat : i = k - Overlap /\ i > 0
      BY <2>1, <2>3, AdsbAssumption
    <3>2. k + n > Overlap /\ k + n - Overlap = n + i
      BY <2>1, <2>3, <3>1, AdsbAssumption
    <3>3. air[k + n] = IF n + i <= len THEN stream[n + i] ELSE Nothing
      BY <1>6, <2>1, <3>2
    <3>4. ~(k <= Overlap)
      BY <2>1, <2>3, AdsbAssumption
    <3> QED
      BY ONLY <1>9, <3>1, <3>3, <3>4
  <2> QED
    BY <2>1, <2>2, <2>3, AdsbAssumption
<1>11. RowOf(tail, rest) = Moved(air, n)
  BY <1>10 DEF RowOf, Moved
<1> QED
  BY <1>7, <1>8, <1>9, <1>11 DEF tail, rest, RowCut

\* Without the samples of a block.
LEMMA RowOfLost ==
  ASSUME NEW buf, NEW s \in Seq(SampleType), NEW n \in Nat, n > 0, NEW air, air = RowOf(buf, s)
  PROVE  /\ SubSeq(s, n + 1, Len(s)) \in Seq(SampleType)
         /\ RowOf(buf, SubSeq(s, n + 1, Len(s))) = Skipped(air, n)
<1>1. PICK rest : rest = SubSeq(s, n + 1, Len(s))
  OBVIOUS
<1>2. PICK len \in Nat : len = Len(s)
  OBVIOUS
<1>3. /\ rest \in Seq(SampleType) /\ Len(rest) \in Nat
      /\ \A i \in Nat : i > 0 => (IF i <= Len(rest) THEN rest[i] ELSE Nothing)
                                  = (IF n + i <= len THEN s[n + i] ELSE Nothing)
  <2>1. rest \in Seq(SampleType) /\ Len(rest) \in Nat
    BY <1>1, LeftOver
  <2>2. \A i \in Nat : i > 0 => (IF i <= Len(rest) THEN rest[i] ELSE Nothing)
                                = (IF n + i <= Len(s) THEN s[n + i] ELSE Nothing)
    BY <1>1, LeftOver
  <2> QED
    BY ONLY <1>2, <2>1, <2>2
<1>4. ASSUME NEW k \in Ordinals
      PROVE  (IF k <= Overlap THEN buf[k] ELSE IF k - Overlap <= Len(rest) THEN rest[k - Overlap] ELSE Nothing)
               = IF k <= Overlap THEN air[k] ELSE air[k + n]
  <2>1. k \in Nat /\ k > 0 /\ k + n \in Ordinals
    BY DEF Ordinals
  <2>2. CASE k <= Overlap
    BY <2>2 DEF RowOf
  <2>3. CASE k > Overlap
    <3>1. PICK i \in Nat : i = k - Overlap /\ i > 0
      BY <2>1, <2>3, AdsbAssumption
    <3>2. ~(k + n <= Overlap) /\ (k + n) - Overlap = n + i /\ ~(k <= Overlap)
      BY <2>1, <2>3, <3>1, AdsbAssumption
    <3>4. PICK l \in Ordinals : l = k + n
      BY <2>1
    <3>5. air[l] = IF l - Overlap <= len THEN s[l - Overlap] ELSE Nothing
      BY <1>2, <3>2, <3>4 DEF RowOf
    <3>3. air[k + n] = IF n + i <= len THEN s[n + i] ELSE Nothing
      BY ONLY <3>2, <3>4, <3>5
    <3> QED
      BY <1>3, <3>1, <3>2, <3>3
  <2> QED
    BY <2>1, <2>2, <2>3, AdsbAssumption
<1> QED
  BY <1>1, <1>3, <1>4 DEF RowOf, Skipped

\* With a frame behind what is to come.
LEMMA RowOfSent ==
  ASSUME NEW buf, NEW s \in Seq(SampleType), NEW gap \in Nat, NEW f \in Nat,
         NEW air, air = RowOf(buf, s), NEW end, end = Overlap + Len(s) + gap,
         NEW next, next = SentBehind(s, gap, f)
  PROVE  /\ next \in Seq(SampleType)
         /\ end \in Nat /\ end >= Overlap /\ \A k \in Ordinals : k > end => air[k] = Nothing
         /\ RowOf(buf, next) = Filled(air, end, f)
<1>1. PICK len \in Nat : len = Len(s)
  OBVIOUS
<1>2. PICK quiet : quiet = [i \in 1 .. gap |-> Nothing]
  OBVIOUS
<1>3. PICK one : one = [i \in 1 .. FrameSize |-> [frame |-> f, place |-> i]]
  OBVIOUS
<1>4. quiet \in Seq(SampleType) /\ Len(quiet) = gap /\ \A i \in 1 .. gap : quiet[i] = Nothing
  <2>1. Nothing \in SampleType
    BY DEF Nothing, SampleType
  <2> QED
    BY <1>2, <2>1
<1>5. /\ one \in Seq(SampleType) /\ Len(one) = FrameSize
      /\ \A i \in 1 .. FrameSize : one[i] = [frame |-> f, place |-> i]
  <2>1. \A i \in 1 .. FrameSize : [frame |-> f, place |-> i] \in SampleType
    BY DEF SampleType
  <2>2. FrameSize \in Nat
    BY AdsbAssumption
  <2> QED
    BY <1>3, <2>1, <2>2
<1>6. PICK mid : mid = s \o quiet
  OBVIOUS
<1>7. /\ mid \in Seq(SampleType) /\ Len(mid) = len + gap
      /\ \A k \in 1 .. len : mid[k] = s[k]
      /\ \A k \in 1 .. gap : mid[len + k] = Nothing
  <2>1. /\ s \o quiet \in Seq(SampleType) /\ Len(s \o quiet) = Len(s) + Len(quiet)
        /\ \A k \in 1 .. Len(s) : (s \o quiet)[k] = s[k]
        /\ \A k \in 1 .. Len(quiet) : (s \o quiet)[Len(s) + k] = quiet[k]
    <3>1. s \in Seq(SampleType) /\ quiet \in Seq(SampleType)
      BY <1>4
    <3> QED
      BY ONLY <3>1, Joined
  <2> QED
    BY <1>1, <1>4, <1>6, <2>1
<1>8. /\ next \in Seq(SampleType) /\ Len(next) = len + gap + FrameSize
      /\ \A k \in 1 .. len + gap : next[k] = mid[k]
      /\ \A k \in 1 .. FrameSize : next[len + gap + k] = one[k]
  <2>1. /\ mid \o one \in Seq(SampleType) /\ Len(mid \o one) = Len(mid) + Len(one)
        /\ \A k \in 1 .. Len(mid) : (mid \o one)[k] = mid[k]
        /\ \A k \in 1 .. Len(one) : (mid \o one)[Len(mid) + k] = one[k]
    <3>1. mid \in Seq(SampleType) /\ one \in Seq(SampleType)
      BY <1>5, <1>7
    <3> QED
      BY ONLY <3>1, Joined
  <2>2. next = mid \o one
    BY <1>2, <1>3, <1>6 DEF SentBehind
  <2> QED
    BY <1>5, <1>7, <2>1, <2>2
<1>9. PICK ov \in Nat : ov = Overlap
  BY AdsbAssumption
<1>10. PICK size \in Nat : size = FrameSize /\ size > 0
  BY AdsbAssumption
<1>11. end = ov + len + gap
  BY <1>1, <1>9
<1>12. \A k \in Ordinals : k \in Nat /\ k > 0
  BY DEF Ordinals
<1>13. \A k \in Ordinals : air[k] = IF k <= ov THEN buf[k] ELSE IF k - ov <= len THEN s[k - ov] ELSE Nothing
  BY <1>1, <1>9 DEF RowOf
<1>14. ASSUME NEW k \in Ordinals
       PROVE  (IF k <= ov THEN buf[k] ELSE IF k - ov <= len + gap + size THEN next[k - ov] ELSE Nothing)
                = IF k > end /\ k <= end + size THEN [frame |-> f, place |-> k - end] ELSE air[k]
  <2>0. k \in Nat /\ k > 0 /\ end = ov + len + gap /\ end \in Nat
    BY ONLY <1>11, <1>12, ov \in Nat, len \in Nat, gap \in Nat, k \in Ordinals
  <2>1. CASE k <= ov
    BY ONLY <1>13, <2>0, <2>1, ov \in Nat, len \in Nat, gap \in Nat, k \in Ordinals
  <2>2. CASE k > ov
    <3>1. PICK i \in Nat : i = k - ov /\ i > 0
      BY <1>12, <2>2
    <3>2. air[k] = IF i <= len THEN s[i] ELSE Nothing
      BY <1>12, <1>13, <2>2, <3>1
    <3>3. k > end <=> i > len + gap
      BY ONLY <2>0, <3>1, ov \in Nat, len \in Nat, gap \in Nat, size \in Nat
    <3>4. k <= end + size <=> i <= len + gap + size
      BY ONLY <2>0, <3>1, ov \in Nat, len \in Nat, gap \in Nat, size \in Nat
    <3>5. CASE i <= len
      <4>1. i \in 1 .. len /\ i \in 1 .. len + gap
        BY <3>1, <3>5
      <4>2. next[i] = s[i]
        BY <1>7, <1>8, <4>1
      <4> QED
        BY ONLY <2>0, <2>2, <3>1, <3>2, <3>3, <3>5, <4>2, i \in Nat, ov \in Nat, len \in Nat, gap \in Nat, size \in Nat
    <3>6. CASE i > len /\ i <= len + gap
      <4>1. PICK j \in 1 .. gap : j = i - len
        BY <3>6
      <4>2. i \in 1 .. len + gap /\ len + j = i
        BY <3>1, <3>6, <4>1
      <4>3. next[i] = Nothing
        BY <1>7, <1>8, <4>1, <4>2
      <4> QED
        BY ONLY <2>0, <2>2, <3>1, <3>2, <3>3, <3>6, <4>3, i \in Nat, ov \in Nat, len \in Nat, gap \in Nat, size \in Nat
    <3>7. CASE i > len + gap /\ i <= len + gap + size
      <4>1. PICK j \in 1 .. size : j = i - (len + gap)
        BY <3>7
      <4>2. len + gap + j = i /\ k - end = j
        BY ONLY <2>0, <3>1, <4>1, i \in Nat, j \in 1 .. size, ov \in Nat, len \in Nat, gap \in Nat, size \in Nat
      <4>3. next[i] = [frame |-> f, place |-> j]
        BY <1>5, <1>8, <1>10, <4>1, <4>2
      <4> QED
        BY ONLY <2>0, <2>2, <3>1, <3>3, <3>4, <3>7, <4>2, <4>3, i \in Nat, ov \in Nat, len \in Nat, gap \in Nat, size \in Nat
    <3>8. CASE i > len + gap + size
      BY ONLY <2>0, <2>2, <3>1, <3>2, <3>4, <3>8, i \in Nat, ov \in Nat, len \in Nat, gap \in Nat, size \in Nat
    <3> QED
      BY ONLY <3>5, <3>6, <3>7, <3>8, i \in Nat, len \in Nat, gap \in Nat, size \in Nat
  <2> QED
    BY ONLY <2>0, <2>1, <2>2, ov \in Nat
<1>15. \A k \in Ordinals : k > end => air[k] = Nothing
  BY <1>11, <1>12, <1>13
<1>16. Len(next) = len + gap + size
  BY ONLY <1>8, <1>10
<1>17. RowOf(buf, next) = Filled(air, end, f)
  BY ONLY <1>9, <1>10, <1>14, <1>16 DEF RowOf, Filled
<1>18. end \in Nat /\ end >= Overlap
  BY ONLY <1>9, <1>11, ov \in Nat, len \in Nat, gap \in Nat
<1> QED
  BY <1>8, <1>15, <1>17, <1>18

-----------------------------------------------------------------------------
(* The frames of a block, one after another *)

RunsOver(g, n, buf, moment) ==
  /\ DOMAIN g = 0 .. n
  /\ \A j \in 0 .. n :
       g[j] = IF j = 0 THEN [cache |-> cpr_cache, frames |-> frames]
              ELSE IF BeginsAt(buf, j) THEN Tell(g[j - 1], buf[j].frame, moment)
              ELSE g[j - 1]

LEMMA RunsExist ==
  ASSUME NEW len \in Nat, NEW buf, NEW moment
  PROVE  \E g : RunsOver(g, len, buf, moment)
<1> DEFINE Bad == {n \in Nat : ~\E g : RunsOver(g, n, buf, moment)}
<1> SUFFICES ASSUME Bad # {} PROVE FALSE
  OBVIOUS
<1>1. PICK n \in Bad : \A m \in Bad : n <= m
  <2>1. Bad \subseteq Nat
    OBVIOUS
  <2> HIDE DEF Bad
  <2> QED
    BY <2>1, LeastNat
<1>2. n \in Nat /\ ~\E g : RunsOver(g, n, buf, moment)
  OBVIOUS
<1>3. CASE n = 0
  <2>1. RunsOver([m \in 0 .. 0 |-> [cache |-> cpr_cache, frames |-> frames]], 0, buf, moment)
    BY DEF RunsOver
  <2> QED
    BY <1>2, <1>3, <2>1
<1>4. CASE n > 0
  <2>1. n - 1 \in Nat /\ n - 1 \notin Bad
    BY <1>1, <1>2, <1>4
  <2>2. PICK h : RunsOver(h, n - 1, buf, moment)
    BY <2>1
  <2>0. PICK last : last = IF BeginsAt(buf, n) THEN Tell(h[n - 1], buf[n].frame, moment) ELSE h[n - 1]
    OBVIOUS
  <2> DEFINE g == [m \in 0 .. n |-> IF m = n THEN last ELSE h[m]]
  <2>3. \A m \in 0 .. n : m = n \/ m \in 0 .. n - 1
    BY <1>2
  <2>4. \A m \in 0 .. n - 1 : g[m] = h[m] /\ m \in 0 .. n
    BY <1>2
  <2>5. g[n] = last /\ n - 1 \in 0 .. n - 1
    BY <1>2, <1>4
  <2>6. DOMAIN g = 0 .. n
    OBVIOUS
  <2> HIDE DEF g
  <2>7. ASSUME NEW m \in 0 .. n
        PROVE  g[m] = IF m = 0 THEN [cache |-> cpr_cache, frames |-> frames]
                      ELSE IF BeginsAt(buf, m) THEN Tell(g[m - 1], buf[m].frame, moment)
                      ELSE g[m - 1]
    <3>1. CASE m = n
      BY <1>4, <2>0, <2>4, <2>5, <3>1
    <3>2. CASE m \in 0 .. n - 1 /\ m = 0
      BY <2>2, <2>4, <3>2 DEF RunsOver
    <3>3. CASE m \in 0 .. n - 1 /\ m # 0
      <4>1. m - 1 \in 0 .. n - 1
        BY <1>2, <3>3
      <4> QED
        BY <2>2, <2>4, <3>3, <4>1 DEF RunsOver
    <3> QED
      BY <2>3, <3>1, <3>2, <3>3
  <2>8. RunsOver(g, n, buf, moment)
    BY <2>6, <2>7 DEF RunsOver
  <2> QED
    BY <1>2, <2>8
<1> QED
  BY <1>2, <1>3, <1>4

LEMMA DemodulatedRuns ==
  ASSUME NEW n \in Nat, NEW buf, NEW moment
  PROVE  \E g : RunsOver(g, n, buf, moment) /\ Demodulated(buf, n, moment) = g[n]
<1>1. PICK g : RunsOver(g, n, buf, moment)
  BY RunsExist
<1> DEFINE Unfolds(h) == h = [j \in 0 .. n |->
             IF j = 0 THEN [cache |-> cpr_cache, frames |-> frames]
             ELSE IF BeginsAt(buf, j) THEN Tell(h[j - 1], buf[j].frame, moment)
             ELSE h[j - 1]]
           f == [j \in 0 .. n |-> g[j]]
           e == CHOOSE h : Unfolds(h)
<1>2. Unfolds(f)
  <2>1. \A j \in 0 .. n : j # 0 => j - 1 \in 0 .. n
    OBVIOUS
  <2>2. \A j \in 0 .. n : f[j] = IF j = 0 THEN [cache |-> cpr_cache, frames |-> frames]
                                 ELSE IF BeginsAt(buf, j) THEN Tell(f[j - 1], buf[j].frame, moment)
                                 ELSE f[j - 1]
    BY <1>1, <2>1 DEF RunsOver
  <2>3. f = [j \in 0 .. n |-> f[j]]
    OBVIOUS
  <2> HIDE DEF f
  <2> QED
    BY <2>2, <2>3
<1>3. Unfolds(e)
  BY <1>2
<1>4. Demodulated(buf, n, moment) = e[n]
  BY DEF Demodulated
<1> HIDE DEF e
<1>5. RunsOver(e, n, buf, moment)
  BY <1>3 DEF RunsOver
<1> QED
  BY <1>4, <1>5

\* Where a frame begins in the samples is where the counts say.
LEMMA BeginsWhereCounted ==
  ASSUME NEW fr \in Seq(FrameType), NEW air, AirOK(air, fr), NEW n \in Nat, NEW buf,
         \A k \in 1 .. Overlap + n : buf[k] = air[k], NEW j \in 1 .. n
  PROVE  /\ BeginsAt(buf, j) => /\ buf[j].frame \in DOMAIN fr /\ Awaited(fr[buf[j].frame])
                                /\ FirstOf(fr[buf[j].frame]) = j
<1>1. \A i \in 1 .. FrameSize : j + i - 1 \in Ordinals /\ buf[j + i - 1] = air[j + i - 1]
  <2> SUFFICES ASSUME NEW i \in 1 .. FrameSize
               PROVE  j + i - 1 \in Ordinals /\ j + i - 1 \in 1 .. Overlap + n
    OBVIOUS
  <2> QED
    BY AdsbAssumption DEF Ordinals
<1>2. 1 \in 1 .. FrameSize /\ j + 1 - 1 = j /\ j \in Ordinals
  BY AdsbAssumption DEF Ordinals
<1>3. buf[j] = air[j]
  BY <1>1, <1>2
<1>4. ASSUME BeginsAt(buf, j)
      PROVE  /\ buf[j].frame \in DOMAIN fr /\ Awaited(fr[buf[j].frame])
             /\ FirstOf(fr[buf[j].frame]) = j
  <2>1. PICK f : f = buf[j].frame
    OBVIOUS
  <2>2. \A i \in 1 .. FrameSize : air[j + i - 1] = [frame |-> f, place |-> i]
    BY <1>1, <1>4, <2>1 DEF BeginsAt
  <2>3. air[j] \in SampleType /\ air[j].frame = f /\ f > 0
    BY <1>2, <1>3, <1>4, <2>1 DEF BeginsAt, AirOK
  <2>4. f \in DOMAIN fr
    BY <1>2, <2>3 DEF AirOK, SampleType
  <2>5. ~Broken(air, f)
    BY <1>1, <2>2 DEF Broken
  <2>6. Awaited(fr[f]) /\ Whole(air, f, FirstOf(fr[f]))
    BY <2>4, <2>5 DEF AirOK
  <2>7. PICK at \in Ordinals : at = FirstOf(fr[f]) /\ at + 1 - 1 = at
    <3>1. fr[f] \in FrameType
      BY <2>4
    <3> QED
      BY <2>6, <3>1, FirstNumber DEF Ordinals
  <2>8. air[at] = air[j]
    <3>1. Whole(air, f, at)
      BY <2>6, <2>7
    <3>2. air[at + 1 - 1] = [frame |-> f, place |-> 1]
      BY <1>2, <3>1 DEF Whole
    <3>3. air[j + 1 - 1] = [frame |-> f, place |-> 1]
      BY <1>2, <2>2
    <3> QED
      BY <1>2, <2>7, <3>2, <3>3
  <2>9. at = j
    BY <1>2, <2>3, <2>8 DEF AirOK
  <2> QED
    BY <2>1, <2>4, <2>6, <2>7, <2>9
<1> QED
  BY <1>4

\* An awaited frame that comes at ordinal j begins there in the row.
LEMMA CountedBegins ==
  ASSUME NEW fr \in Seq(FrameType), NEW air, AirOK(air, fr), NEW n \in Nat, NEW buf,
         \A k \in 1 .. Overlap + n : buf[k] = air[k], NEW j \in 1 .. n,
         NEW f \in DOMAIN fr, Awaited(fr[f]), FirstOf(fr[f]) = j
  PROVE  BeginsAt(buf, j) /\ buf[j].frame = f
<1>1. \A i \in 1 .. FrameSize : j + i - 1 \in Ordinals /\ buf[j + i - 1] = air[j + i - 1]
  <2> SUFFICES ASSUME NEW i \in 1 .. FrameSize
               PROVE  j + i - 1 \in Ordinals /\ j + i - 1 \in 1 .. Overlap + n
    OBVIOUS
  <2> QED
    BY AdsbAssumption DEF Ordinals
<1>2. 1 \in 1 .. FrameSize /\ j + 1 - 1 = j /\ j \in Ordinals
  BY AdsbAssumption DEF Ordinals
<1>3. buf[j] = air[j]
  BY <1>1, <1>2
<1>x1. \A i \in 1 .. FrameSize : air[j + i - 1] = [frame |-> f, place |-> i]
  BY DEF AirOK, Whole
<1>x2. air[j] = [frame |-> f, place |-> 1]
  BY <1>2, <1>x1
<1>x3. buf[j].frame = f
  BY <1>3, <1>x2
<1>x4. f > 0
  OBVIOUS
<1> QED
  BY <1>1, <1>x1, <1>x3, <1>x4 DEF BeginsAt

\* What is told once the first j samples are looked at.
ToldUpto(st, fr, j) ==
  /\ st.frames \in Seq(FrameType) /\ DOMAIN st.frames = DOMAIN fr
  /\ \A f \in DOMAIN fr :
       /\ st.frames[f].icao = fr[f].icao /\ st.frames[f].parity = fr[f].parity
       /\ st.frames[f].ahead = fr[f].ahead /\ st.frames[f].come = fr[f].come
       /\ st.frames[f].lost = fr[f].lost
       /\ st.frames[f].told = IF Awaited(fr[f]) /\ FirstOf(fr[f]) <= j THEN 1 ELSE fr[f].told
  /\ ToldOK(st.cache, st.frames)

LEMMA NextIsTold ==
  ASSUME NEW fr \in Seq(FrameType), NEW air, AirOK(air, fr), InOrder(fr),
         \A f \in DOMAIN fr : CountsOK(fr[f]),
         NEW n \in Nat, NEW buf, \A k \in 1 .. Overlap + n : buf[k] = air[k], NEW moment \in Nat,
         NEW j \in 1 .. n, NEW was, ToldUpto(was, fr, j - 1),
         NEW st, st = IF BeginsAt(buf, j) THEN Tell(was, buf[j].frame, moment) ELSE was
  PROVE  ToldUpto(st, fr, j)
<1>1. /\ BeginsAt(buf, j) => /\ buf[j].frame \in DOMAIN fr /\ Awaited(fr[buf[j].frame])
                             /\ FirstOf(fr[buf[j].frame]) = j
      /\ \A f \in DOMAIN fr : Awaited(fr[f]) /\ FirstOf(fr[f]) = j
                                => BeginsAt(buf, j) /\ buf[j].frame = f
  <2>1. ASSUME BeginsAt(buf, j)
        PROVE  /\ buf[j].frame \in DOMAIN fr /\ Awaited(fr[buf[j].frame])
               /\ FirstOf(fr[buf[j].frame]) = j
    BY <2>1, BeginsWhereCounted
  <2>2. ASSUME NEW f \in DOMAIN fr, Awaited(fr[f]), FirstOf(fr[f]) = j
        PROVE  BeginsAt(buf, j) /\ buf[j].frame = f
    BY <2>2, CountedBegins
  <2> QED
    BY <2>1, <2>2
<1>2. \A f \in DOMAIN fr : fr[f] \in FrameType /\ FirstOf(fr[f]) \in Int /\ f \in Nat
  <2>1. \A f \in DOMAIN fr : fr[f] \in FrameType /\ f \in Nat
    OBVIOUS
  <2> QED
    BY <2>1, FirstNumber
<1>3. CASE ~BeginsAt(buf, j)
  <2>1. \A f \in DOMAIN fr : Awaited(fr[f]) => (FirstOf(fr[f]) <= j <=> FirstOf(fr[f]) <= j - 1)
    BY <1>1, <1>2, <1>3
  <2> QED
    BY <1>3, <2>1 DEF ToldUpto
<1>4. CASE BeginsAt(buf, j)
  <2>1. PICK f \in DOMAIN fr : f = buf[j].frame
    BY <1>1, <1>4
  <2>2. Awaited(fr[f]) /\ FirstOf(fr[f]) = j
    BY <1>1, <1>4, <2>1
  <2>3. \A h \in DOMAIN fr : Awaited(fr[h]) /\ FirstOf(fr[h]) = j => h = f
    BY <1>1, <2>1
  <2>4. fr[f].told = 0
    <3>1. fr[f].come \in Nat /\ fr[f].come <= Overlap
      BY <1>2, <2>2, FirstNumber DEF Awaited
    <3> QED
      BY <3>1, AdsbAssumption DEF CountsOK
  <2>5. PICK cache : cache = was.cache
    OBVIOUS
  <2>6. PICK mid : mid = was.frames
    OBVIOUS
  <2>7. /\ mid \in Seq(FrameType) /\ DOMAIN mid = DOMAIN fr /\ ToldOK(cache, mid)
        /\ \A h \in DOMAIN fr :
             /\ mid[h].icao = fr[h].icao /\ mid[h].parity = fr[h].parity
             /\ mid[h].ahead = fr[h].ahead /\ mid[h].come = fr[h].come
             /\ mid[h].lost = fr[h].lost
             /\ mid[h].told = IF Awaited(fr[h]) /\ FirstOf(fr[h]) <= j - 1 THEN 1 ELSE fr[h].told
    BY <2>5, <2>6 DEF ToldUpto
  <2>8. mid[f].told = 0
    BY <2>2, <2>4, <2>7
  <2>9. ASSUME NEW h \in DOMAIN fr, mid[h].told > 0
        PROVE  h < f
    <3>1. FirstOf(fr[h]) < j /\ ~fr[h].lost
      <4>1. CASE Awaited(fr[h]) /\ FirstOf(fr[h]) <= j - 1
        BY <1>2, <4>1 DEF Awaited
      <4>2. CASE ~(Awaited(fr[h]) /\ FirstOf(fr[h]) <= j - 1)
        <5>1. fr[h].told > 0
          BY <2>7, <2>9, <4>2
        <5>2. ~fr[h].lost /\ fr[h].come > Overlap
          BY <5>1 DEF CountsOK
        <5>3. FirstOf(fr[h]) <= 0
          BY <1>2, <5>2, FirstNumber
        <5> QED
          BY <1>2, <5>2, <5>3
      <4> QED
        BY <4>1, <4>2
    <3>2. h # f
      BY <2>8, <2>9
    <3>3. ~(f < h)
      BY <1>2, <2>2, <3>1 DEF InOrder
    <3> QED
      BY <1>2, <3>2, <3>3
  <2>10. st = Tell(was, f, moment)
    BY <1>4, <2>1
  <2>11. f \in DOMAIN mid /\ \A h \in DOMAIN mid : mid[h].told > 0 => h < f
    BY <2>7, <2>9
  <2>12. was.cache = cache /\ was.frames = mid
    BY <2>5, <2>6
  <2>13. mid \in Seq(FrameType) /\ ToldOK(cache, mid)
    BY <2>7
  <2>14. /\ st.frames \in Seq(FrameType) /\ DOMAIN st.frames = DOMAIN mid
         /\ \A h \in DOMAIN mid :
              /\ st.frames[h].icao = mid[h].icao /\ st.frames[h].parity = mid[h].parity
              /\ st.frames[h].ahead = mid[h].ahead /\ st.frames[h].come = mid[h].come
              /\ st.frames[h].lost = mid[h].lost
              /\ st.frames[h].told = IF h = f THEN 1 ELSE mid[h].told
         /\ ToldOK(st.cache, st.frames)
    BY ONLY <2>8, <2>10, <2>11, <2>12, <2>13, moment \in Nat, TellKeeps
  <2>15. ASSUME NEW h \in DOMAIN fr
         PROVE  st.frames[h].told = IF Awaited(fr[h]) /\ FirstOf(fr[h]) <= j THEN 1 ELSE fr[h].told
    <3>1. st.frames[h].told = IF h = f THEN 1 ELSE mid[h].told
      BY <2>7, <2>14
    <3>2. CASE h = f
      BY <2>2, <3>1, <3>2
    <3>3. CASE h # f
      <4>1. Awaited(fr[h]) => (FirstOf(fr[h]) <= j <=> FirstOf(fr[h]) <= j - 1)
        BY <1>2, <2>3, <3>3
      <4> QED
        BY <2>7, <3>1, <3>3, <4>1
    <3> QED
      BY <3>2, <3>3
  <2>16. st.frames \in Seq(FrameType) /\ DOMAIN st.frames = DOMAIN fr /\ ToldOK(st.cache, st.frames)
    BY ONLY <2>7, <2>14
  <2>17. \A h \in DOMAIN fr :
           /\ st.frames[h].icao = fr[h].icao /\ st.frames[h].parity = fr[h].parity
           /\ st.frames[h].ahead = fr[h].ahead /\ st.frames[h].come = fr[h].come
           /\ st.frames[h].lost = fr[h].lost
    BY ONLY <2>7, <2>14
  <2> QED
    BY ONLY <2>15, <2>16, <2>17 DEF ToldUpto
<1> QED
  BY <1>3, <1>4

\* All frames that begin among the first n samples are told.
LEMMA AllAreTold ==
  ASSUME NEW air, frames \in Seq(FrameType), AirOK(air, frames), InOrder(frames),
         \A f \in DOMAIN frames : CountsOK(frames[f]), ToldOK(cpr_cache, frames),
         NEW n \in Nat, NEW buf, \A k \in 1 .. Overlap + n : buf[k] = air[k], NEW moment \in Nat
  PROVE  ToldUpto(Demodulated(buf, n, moment), frames, n)
<1>1. PICK g : RunsOver(g, n, buf, moment) /\ Demodulated(buf, n, moment) = g[n]
  BY DemodulatedRuns
<1> DEFINE Bad == {j \in 0 .. n : ~ToldUpto(g[j], frames, j)}
<1> SUFFICES ASSUME Bad # {} PROVE FALSE
  BY <1>1
<1>2. PICK j \in Bad : \A m \in Bad : j <= m
  <2>1. Bad \subseteq Nat
    OBVIOUS
  <2> HIDE DEF Bad
  <2> QED
    BY <2>1, LeastNat
<1>3. j \in 0 .. n /\ ~ToldUpto(g[j], frames, j)
  OBVIOUS
<1>4. CASE j = 0
  <2>1. g[0] = [cache |-> cpr_cache, frames |-> frames]
    BY <1>1, <1>3, <1>4 DEF RunsOver
  <2>2. g[0].cache = cpr_cache /\ g[0].frames = frames
    BY <2>1
  <2>3. \A f \in DOMAIN frames : Awaited(frames[f]) => ~(FirstOf(frames[f]) <= 0)
    <3>1. \A f \in DOMAIN frames : frames[f] \in FrameType
      OBVIOUS
    <3> QED
      BY <3>1, FirstNumber
  <2>4. ToldUpto(g[0], frames, 0)
    BY <2>2, <2>3 DEF ToldUpto
  <2> QED
    BY <1>3, <1>4, <2>4
<1>5. CASE j > 0
  <2>1. j \in 1 .. n /\ j - 1 \in 0 .. n /\ ~(j <= j - 1)
    BY <1>3, <1>5
  <2>2. ToldUpto(g[j - 1], frames, j - 1)
    BY <1>2, <2>1
  <2>3. g[j] = IF BeginsAt(buf, j) THEN Tell(g[j - 1], buf[j].frame, moment) ELSE g[j - 1]
    BY <1>1, <1>3, <1>5 DEF RunsOver
  <2>4. PICK fr : fr = frames
    OBVIOUS
  <2>5. /\ fr \in Seq(FrameType) /\ AirOK(air, fr) /\ InOrder(fr)
        /\ \A f \in DOMAIN fr : CountsOK(fr[f])
        /\ ToldUpto(g[j - 1], fr, j - 1)
    BY <2>2, <2>4
  <2>6. ToldUpto(g[j], fr, j)
    BY <2>1, <2>3, <2>5, NextIsTold
  <2> QED
    BY <1>3, <2>4, <2>6
<1> QED
  BY <1>3, <1>4, <1>5

-----------------------------------------------------------------------------
(* The inductive invariant *)

FramesInv ==
  /\ stream \in Seq(SampleType)
  /\ mag_buf \in Seq(SampleType) /\ Len(mag_buf) = Overlap
  /\ frames \in Seq(FrameType) /\ time \in Nat
  /\ AirOK(RowOf(mag_buf, stream), frames) /\ InOrder(frames)
  /\ \A f \in DOMAIN frames : CountsOK(frames[f])
  /\ ToldOK(cpr_cache, frames)

LEMMA FramesInit ==
  ASSUME AdsbInit
  PROVE  FramesInv
<1>1. stream = <<>> /\ frames = <<>> /\ DOMAIN frames = {} /\ Len(frames) = 0 /\ Len(stream) = 0
  BY DEF AdsbInit
<1>2. Nothing \in SampleType /\ Nothing.frame = 0
  BY DEF Nothing, SampleType
<1>3. mag_buf \in Seq(SampleType) /\ Len(mag_buf) = Overlap /\ \A k \in 1 .. Overlap : mag_buf[k] = Nothing
  <2>1. Overlap \in Nat /\ mag_buf = [i \in 1 .. Overlap |-> Nothing]
    BY AdsbAssumption DEF AdsbInit
  <2> QED
    BY <1>2, <2>1
<1>4. \A k \in Ordinals : RowOf(mag_buf, stream)[k] = Nothing
  <2> SUFFICES ASSUME NEW k \in Ordinals PROVE RowOf(mag_buf, stream)[k] = Nothing
    OBVIOUS
  <2>1. k \in Nat /\ k > 0
    BY DEF Ordinals
  <2>2. CASE k <= Overlap
    <3>1. k \in 1 .. Overlap
      BY <2>1, <2>2, AdsbAssumption
    <3> QED
      BY <1>3, <2>2, <3>1 DEF RowOf
  <2>3. CASE ~(k <= Overlap)
    <3>1. ~(k - Overlap <= 0)
      BY <2>1, <2>3, AdsbAssumption
    <3> QED
      BY <1>1, <2>3, <3>1 DEF RowOf
  <2> QED
    BY <2>2, <2>3
<1>5. AirOK(RowOf(mag_buf, stream), frames)
  <2>1. PICK air : air = RowOf(mag_buf, stream)
    OBVIOUS
  <2>2. DOMAIN air = Ordinals /\ air = [k \in Ordinals |-> air[k]]
    BY <2>1 DEF RowOf
  <2>3. \A k \in Ordinals : air[k] = Nothing
    BY <1>4, <2>1
  <2>4. air \in [Ordinals -> SampleType]
    BY <1>2, <2>2, <2>3
  <2>5. AirOK(air, frames)
    BY <1>1, <1>2, <2>3, <2>4 DEF AirOK
  <2> QED
    BY <2>1, <2>5
<1>6. CacheOK(cpr_cache, frames)
  <2>1. cpr_cache = [i \in 0 .. CacheSize - 1 |-> NoEntry]
    BY DEF AdsbInit
  <2>2. NoEntry \in EntryType /\ NoEntry.valid = {}
    <3>1. <<0, 0>> \in [1 .. 2 -> Nat]
      OBVIOUS
    <3> QED
      BY <3>1 DEF NoEntry, EntryType
  <2> QED
    BY <2>1, <2>2 DEF CacheOK
<1>7. time \in Nat
  BY AdsbAssumption DEF AdsbInit
<1>8. stream \in Seq(SampleType) /\ frames \in Seq(FrameType)
  BY <1>1
<1> QED
  BY <1>1, <1>3, <1>5, <1>6, <1>7, <1>8 DEF FramesInv, ToldOK, InOrder

\* How far a frame is depends on nothing else.
LEMMA FurtherNumbers ==
  ASSUME NEW g \in FrameType, NEW n \in Nat, NEW h, h = Further(g, n)
  PROVE  /\ h.ahead = IF g.ahead > n THEN g.ahead - n ELSE 0
         /\ h.come = IF g.lost \/ g.come > Overlap \/ n <= g.ahead THEN g.come ELSE g.come + n - g.ahead
         /\ h.lost = g.lost
<1>1. PICK i \in Nat, p \in Parities, a \in Nat, c \in Nat, l \in BOOLEAN, t \in Nat, w \in Nat,
           at \in {<<>>} \union [1 .. 2 -> Nat] :
        g = [icao |-> i, parity |-> p, ahead |-> a, come |-> c, lost |-> l, told |-> t,
             when |-> w, pos |-> at]
  BY DEF FrameType
<1>2. PICK b : b = IF a > n THEN a - n ELSE 0
  OBVIOUS
<1>3. PICK d : d = IF l \/ c > Overlap \/ n <= a THEN c ELSE c + n - a
  OBVIOUS
<1>4. h = [icao |-> i, parity |-> p, ahead |-> b, come |-> d, lost |-> l, told |-> t,
           when |-> w, pos |-> at]
  BY <1>1, <1>2, <1>3 DEF Further
<1>5. g.ahead = a /\ g.come = c /\ g.lost = l /\ h.ahead = b /\ h.come = d /\ h.lost = l
  BY <1>1, <1>4
<1> QED
  BY <1>2, <1>3, <1>5

LEMMA FurtherAlike ==
  ASSUME NEW g \in FrameType, NEW x \in FrameType, g.ahead = x.ahead, g.come = x.come, g.lost = x.lost,
         NEW n \in Nat
  PROVE  /\ Further(g, n).ahead = Further(x, n).ahead /\ Further(g, n).come = Further(x, n).come
         /\ Further(g, n).lost = Further(x, n).lost
<1>1. PICK h : h = Further(g, n)
  OBVIOUS
<1>2. PICK y : y = Further(x, n)
  OBVIOUS
<1>3. h.ahead = y.ahead /\ h.come = y.come /\ h.lost = y.lost
  <2>1. /\ h.ahead = IF g.ahead > n THEN g.ahead - n ELSE 0
        /\ h.come = IF g.lost \/ g.come > Overlap \/ n <= g.ahead THEN g.come ELSE g.come + n - g.ahead
        /\ h.lost = g.lost
    BY <1>1, FurtherNumbers
  <2>2. /\ y.ahead = IF x.ahead > n THEN x.ahead - n ELSE 0
        /\ y.come = IF x.lost \/ x.come > Overlap \/ n <= x.ahead THEN x.come ELSE x.come + n - x.ahead
        /\ y.lost = x.lost
    BY <1>2, FurtherNumbers
  <2> QED
    BY <2>1, <2>2
<1> QED
  BY <1>1, <1>2, <1>3

LEMMA FramesBlock ==
  ASSUME FramesInv, NEW n \in BlockSizes, NEW delay \in Delays, AdsbBlock(n, delay)
  PROVE  FramesInv'
<1>1. n \in Nat /\ n > 0 /\ delay \in Nat
  BY AdsbAssumption
<1>2. PICK moment \in Nat : moment = time + delay
  BY <1>1 DEF FramesInv
<1>3. PICK buf : buf = mag_buf \o Samples(n)
  OBVIOUS
<1>4. PICK air : air = RowOf(mag_buf, stream)
  OBVIOUS
<1>5. PICK fr : fr = frames
  OBVIOUS
<1>6. PICK after : after = Demodulated(buf, n, moment)
  OBVIOUS
<1>7. PICK mid : mid = after.frames
  OBVIOUS
<1>8. PICK more : more = frames'
  OBVIOUS
<1>9. /\ fr \in Seq(FrameType) /\ AirOK(air, fr) /\ InOrder(fr)
      /\ \A f \in DOMAIN fr : CountsOK(fr[f])
  BY <1>4, <1>5 DEF FramesInv
<1>10. /\ \A k \in 1 .. Overlap + n : buf[k] = air[k]
       /\ TailOf(buf, n) \in Seq(SampleType) /\ Len(TailOf(buf, n)) = Overlap
       /\ SubSeq(stream, n + 1, Len(stream)) \in Seq(SampleType)
       /\ RowOf(TailOf(buf, n), SubSeq(stream, n + 1, Len(stream))) = Moved(air, n)
  <2>1. mag_buf \in Seq(SampleType) /\ Len(mag_buf) = Overlap /\ stream \in Seq(SampleType)
    BY DEF FramesInv
  <2>2. PICK m \in Nat : m = n
    BY <1>1
  <2>3. m > 0 /\ buf = mag_buf \o Samples(m) /\ air = RowOf(mag_buf, stream)
    BY <1>1, <1>3, <1>4, <2>2
  <2>4. RowCut(buf, air, m)
    BY ONLY <2>1, <2>3, m \in Nat, RowOfBlock
  <2> QED
    BY <2>2, <2>4 DEF RowCut
<1>11. ToldUpto(after, fr, n)
  BY <1>1, <1>2, <1>4, <1>5, <1>6, <1>10, AllAreTold DEF FramesInv
<1>12. /\ mag_buf' = TailOf(buf, n) /\ cpr_cache' = after.cache /\ time' = moment
       /\ more = [f \in DOMAIN fr |-> Further(mid[f], n)]
       /\ stream' = SubSeq(stream, n + 1, Len(stream))
  BY <1>2, <1>3, <1>5, <1>6, <1>7, <1>8 DEF AdsbBlock
<1>13. PICK num \in Nat : num = Len(fr)
  BY <1>9
<1>14. /\ DOMAIN fr = 1 .. num /\ DOMAIN mid = 1 .. num /\ mid \in Seq(FrameType) /\ ToldOK(after.cache, mid)
       /\ \A f \in 1 .. num :
            /\ fr[f] \in FrameType /\ mid[f] \in FrameType
            /\ mid[f].ahead = fr[f].ahead /\ mid[f].come = fr[f].come /\ mid[f].lost = fr[f].lost
            /\ mid[f].told = IF Awaited(fr[f]) /\ FirstOf(fr[f]) <= n THEN 1 ELSE fr[f].told
  <2>1. DOMAIN fr = 1 .. num /\ \A f \in 1 .. num : fr[f] \in FrameType
    BY <1>9, <1>13
  <2>2. mid \in Seq(FrameType) /\ DOMAIN mid = 1 .. num /\ ToldOK(after.cache, mid)
    BY <1>7, <1>11, <2>1 DEF ToldUpto
  <2>3. \A f \in 1 .. num : mid[f] \in FrameType
    BY <2>2
  <2> QED
    BY <1>7, <1>11, <2>1, <2>2, <2>3 DEF ToldUpto
<1>15. ASSUME NEW f \in 1 .. num
       PROVE  /\ more[f] = Further(mid[f], n) /\ more[f] \in FrameType
              /\ more[f].icao = mid[f].icao /\ more[f].parity = mid[f].parity
              /\ more[f].told = mid[f].told /\ more[f].when = mid[f].when /\ more[f].pos = mid[f].pos
              /\ LET h == Further(fr[f], n)
                 IN  more[f].ahead = h.ahead /\ more[f].come = h.come /\ more[f].lost = h.lost
              /\ CountsOK(more[f])
  <2>1. PICK g : g = mid[f]
    OBVIOUS
  <2>2. PICK h : h = more[f]
    OBVIOUS
  <2>3. PICK x : x = fr[f]
    OBVIOUS
  <2>4. /\ g \in FrameType /\ x \in FrameType /\ g.ahead = x.ahead /\ g.come = x.come /\ g.lost = x.lost
        /\ g.told = IF Awaited(x) /\ FirstOf(x) <= n THEN 1 ELSE x.told
    BY <1>14, <2>1, <2>3
  <2>5. h = Further(g, n)
    BY <1>12, <1>14, <2>1, <2>2
  <2>6. CountsOK(x)
    BY <1>9, <1>14, <2>3
  <2>7. g.come > 0 => g.ahead = 0
    BY <2>4, <2>6 DEF CountsOK
  <2>8. /\ h \in FrameType
        /\ h.icao = g.icao /\ h.parity = g.parity /\ h.lost = g.lost
        /\ h.told = g.told /\ h.when = g.when /\ h.pos = g.pos
        /\ h.come > 0 => h.ahead = 0
        /\ ~Awaited(g) => ~Awaited(h) /\ (h.come > Overlap <=> g.come > Overlap)
        /\ Awaited(g) => /\ FirstOf(h) = FirstOf(g) - n /\ FirstOf(g) > 0
                         /\ Awaited(h) <=> FirstOf(g) > n
    BY ONLY <1>1, <2>4, <2>5, <2>7, FurtherFields
  <2>9. h.ahead = Further(x, n).ahead /\ h.come = Further(x, n).come /\ h.lost = Further(x, n).lost
    BY ONLY <1>1, <2>4, <2>5, FurtherAlike
  <2>10. Awaited(g) = Awaited(x) /\ FirstOf(g) = FirstOf(x)
    BY <2>4 DEF Awaited, FirstOf
  <2>11. /\ x.come \in Nat /\ h.come \in Nat /\ FirstOf(x) \in Int
    BY <2>4, <2>8, FirstNumber
  <2>12. h.told = IF ~h.lost /\ h.come > Overlap THEN 1 ELSE 0
    <3>1. x.told = IF ~x.lost /\ x.come > Overlap THEN 1 ELSE 0
      BY <2>6 DEF CountsOK
    <3>2. CASE ~Awaited(x)
      <4>1. h.told = x.told /\ (h.come > Overlap <=> x.come > Overlap) /\ h.lost = x.lost
        BY <2>4, <2>8, <2>10, <3>2
      <4> QED
        BY <3>1, <4>1
    <3>3. CASE Awaited(x)
      <4>1. ~x.lost /\ ~(x.come > Overlap) /\ x.told = 0
        BY <2>11, <3>1, <3>3, AdsbAssumption DEF Awaited
      <4>2. h.lost = x.lost /\ (h.come <= Overlap <=> ~(FirstOf(x) <= n))
        <5>1. h.lost = x.lost
          BY <2>4, <2>8
        <5>2. Awaited(h) <=> FirstOf(x) > n
          BY <2>8, <2>10, <3>3
        <5> QED
          BY <1>1, <2>11, <4>1, <5>1, <5>2 DEF Awaited
      <4>3. h.told = IF FirstOf(x) <= n THEN 1 ELSE 0
        BY <2>4, <2>8, <3>3, <4>1
      <4> QED
        BY <2>11, <4>1, <4>2, <4>3, AdsbAssumption
    <3> QED
      BY <3>2, <3>3
  <2>13. CountsOK(h)
    BY <2>8, <2>12 DEF CountsOK
  <2> QED
    BY <2>1, <2>2, <2>3, <2>5, <2>8, <2>9, <2>13
<1>16. more \in Seq(FrameType) /\ DOMAIN more = 1 .. num /\ Len(more) = num /\ Len(mid) = num
  <2>1. more = [f \in 1 .. num |-> more[f]]
    BY <1>12, <1>14
  <2>2. \A f \in 1 .. num : more[f] \in FrameType
    BY <1>15
  <2>3. more \in Seq(FrameType)
    BY <2>1, <2>2
  <2> QED
    BY <1>14, <2>1, <2>3
<1>17. RowOf(mag_buf', stream') = Moved(air, n)
  BY <1>10, <1>12
<1>18. AirOK(RowOf(mag_buf', stream'), more)
  <2>1. PICK air2 : air2 = [k \in Ordinals |-> air[k + n]]
    OBVIOUS
  <2>2. \A f \in DOMAIN fr : LET h == Further(fr[f], n)
                             IN  more[f].ahead = h.ahead /\ more[f].come = h.come /\ more[f].lost = h.lost
    BY <1>14, <1>15
  <2>3. DOMAIN more = DOMAIN fr /\ more \in Seq(FrameType)
    BY <1>14, <1>16
  <2>4. AirOK(air2, more)
    BY ONLY <1>1, <1>9, <2>1, <2>2, <2>3, AirShifts
  <2> QED
    BY <1>17, <2>1, <2>4 DEF Moved
<1>19. InOrder(more)
  <2>2. \A f \in DOMAIN fr : LET h == Further(fr[f], n)
                             IN  more[f].ahead = h.ahead /\ more[f].come = h.come /\ more[f].lost = h.lost
    BY <1>14, <1>15
  <2>3. DOMAIN more = DOMAIN fr /\ more \in Seq(FrameType)
    BY <1>14, <1>16
  <2> QED
    BY ONLY <1>1, <1>9, <2>2, <2>3, OrderShifts
<1>20. ToldOK(cpr_cache', more)
  <2>1. \A f \in DOMAIN mid : /\ more[f].icao = mid[f].icao /\ more[f].parity = mid[f].parity
                              /\ more[f].told = mid[f].told /\ more[f].when = mid[f].when
                              /\ more[f].pos = mid[f].pos
    BY <1>14, <1>15
  <2>2. DOMAIN more \ DOMAIN mid = {}
    BY <1>14, <1>16
  <2>3. mid \in Seq(FrameType) /\ more \in Seq(FrameType) /\ ToldOK(after.cache, mid)
    BY <1>14, <1>16
  <2>4. Len(mid) <= Len(more)
    BY <1>16
  <2>5. ToldOK(after.cache, more)
    BY ONLY <2>1, <2>2, <2>3, <2>4, ToldStays
  <2> QED
    BY <1>12, <2>5
<1>21. \A f \in DOMAIN more : CountsOK(more[f])
  BY <1>15, <1>16
<1> QED
  BY <1>8, <1>10, <1>12, <1>16, <1>18, <1>19, <1>20, <1>21 DEF FramesInv

LEMMA FramesLost ==
  ASSUME FramesInv, NEW n \in BlockSizes, AdsbLost(n)
  PROVE  FramesInv'
<1>1. n \in Nat /\ n > 0
  BY AdsbAssumption
<1>4. PICK air : air = RowOf(mag_buf, stream)
  OBVIOUS
<1>5. PICK fr : fr = frames
  OBVIOUS
<1>8. PICK more : more = frames'
  OBVIOUS
<1>9. /\ fr \in Seq(FrameType) /\ AirOK(air, fr) /\ InOrder(fr) /\ ToldOK(cpr_cache, fr)
      /\ \A f \in DOMAIN fr : CountsOK(fr[f])
  BY <1>4, <1>5 DEF FramesInv
<1>10. /\ SubSeq(stream, n + 1, Len(stream)) \in Seq(SampleType)
       /\ RowOf(mag_buf, SubSeq(stream, n + 1, Len(stream))) = Skipped(air, n)
  BY <1>1, <1>4, RowOfLost DEF FramesInv
<1>12. /\ mag_buf' = mag_buf /\ cpr_cache' = cpr_cache /\ time' = time
       /\ stream' = SubSeq(stream, n + 1, Len(stream))
       /\ more = [f \in DOMAIN fr |->
                   IF Touched(fr[f], n) THEN [fr[f] EXCEPT !.lost = TRUE, !.ahead = 0, !.come = 0]
                   ELSE [fr[f] EXCEPT !.ahead = IF fr[f].ahead > n THEN fr[f].ahead - n ELSE 0]]
  BY <1>5, <1>8 DEF AdsbLost, Touched
<1>13. PICK num \in Nat : num = Len(fr)
  BY <1>9
<1>14. DOMAIN fr = 1 .. num /\ \A f \in 1 .. num : fr[f] \in FrameType
  BY <1>9, <1>13
<1>15. ASSUME NEW f \in 1 .. num
       PROVE  /\ more[f] \in FrameType
              /\ more[f].icao = fr[f].icao /\ more[f].parity = fr[f].parity
              /\ more[f].told = fr[f].told /\ more[f].when = fr[f].when /\ more[f].pos = fr[f].pos
              /\ Touched(fr[f], n) => more[f].lost
              /\ ~Touched(fr[f], n) => /\ more[f].lost = fr[f].lost /\ more[f].come = fr[f].come
                                   /\ more[f].ahead = IF fr[f].ahead > n THEN fr[f].ahead - n ELSE 0
              /\ CountsOK(more[f])
  <2>1. PICK h : h = more[f]
    OBVIOUS
  <2>2. PICK i \in Nat, p \in Parities, a \in Nat, c \in Nat, l \in BOOLEAN, t \in Nat, w \in Nat,
             at \in {<<>>} \union [1 .. 2 -> Nat] :
          fr[f] = [icao |-> i, parity |-> p, ahead |-> a, come |-> c, lost |-> l, told |-> t,
                   when |-> w, pos |-> at]
    BY <1>14 DEF FrameType
  <2>3. (c > 0 => a = 0) /\ t = IF ~l /\ c > Overlap THEN 1 ELSE 0
    <3>1. CountsOK(fr[f])
      BY <1>9, <1>14
    <3>2. fr[f].come = c /\ fr[f].ahead = a /\ fr[f].lost = l /\ fr[f].told = t
      BY <2>2
    <3> QED
      BY <3>1, <3>2 DEF CountsOK
  <2>4. Touched(fr[f], n) <=> c < FrameSize /\ a < n
    BY <2>2 DEF Touched
  <2>r. PICK r : r = fr[f]
    OBVIOUS
  <2>5. CASE Touched(fr[f], n)
    <3>0. h = [r EXCEPT !.lost = TRUE, !.ahead = 0, !.come = 0]
      BY <1>12, <1>14, <2>1, <2>5, <2>r
    <3>1. h = [icao |-> i, parity |-> p, ahead |-> 0, come |-> 0, lost |-> TRUE, told |-> t,
               when |-> w, pos |-> at]
      <4>1. r = [icao |-> i, parity |-> p, ahead |-> a, come |-> c, lost |-> l, told |-> t,
                 when |-> w, pos |-> at]
        BY ONLY <2>2, <2>r
      <4>2. PICK r1 : r1 = [r EXCEPT !.lost = TRUE]
        OBVIOUS
      <4>3. r1 = [icao |-> i, parity |-> p, ahead |-> a, come |-> c, lost |-> TRUE, told |-> t,
                  when |-> w, pos |-> at]
        BY ONLY <4>1, <4>2
      <4>4. PICK r2 : r2 = [r1 EXCEPT !.ahead = 0]
        OBVIOUS
      <4>5. r2 = [icao |-> i, parity |-> p, ahead |-> 0, come |-> c, lost |-> TRUE, told |-> t,
                  when |-> w, pos |-> at]
        BY ONLY <4>3, <4>4
      <4>6. h = [r2 EXCEPT !.come = 0]
        BY ONLY <3>0, <4>2, <4>4
      <4> QED
        BY ONLY <4>5, <4>6
    <3>2. t = 0
      BY <2>3, <2>4, <2>5, AdsbAssumption
    <3>3. h \in FrameType
      BY <3>1 DEF FrameType
    <3>4. CountsOK(h)
      BY <3>1, <3>2 DEF CountsOK
    <3> QED
      BY <2>1, <2>2, <2>5, <3>1, <3>3, <3>4
  <2>6. CASE ~Touched(fr[f], n)
    <3>a. (IF a > n THEN a - n ELSE 0) \in Nat
      BY ONLY <1>1, a \in Nat
    <3>0. PICK b \in Nat : b = IF a > n THEN a - n ELSE 0
      BY <3>a
    <3>7. r.ahead = a /\ r = [icao |-> i, parity |-> p, ahead |-> a, come |-> c, lost |-> l, told |-> t,
                               when |-> w, pos |-> at]
      BY ONLY <2>2, <2>r
    <3>8. h = [r EXCEPT !.ahead = b]
      BY <1>12, <1>14, <2>1, <2>6, <2>r, <3>0, <3>7
    <3>1. h = [icao |-> i, parity |-> p, ahead |-> b, come |-> c, lost |-> l, told |-> t,
               when |-> w, pos |-> at]
      BY ONLY <3>7, <3>8
    <3>3. h \in FrameType
      BY <3>1 DEF FrameType
    <3>4. c > 0 => b = 0
      BY <1>1, <2>3, <3>0
    <3>5. h.come = c /\ h.ahead = b /\ h.lost = l /\ h.told = t
      BY <3>1
    <3>6. CountsOK(h)
      BY <2>3, <3>4, <3>5 DEF CountsOK
    <3> QED
      BY <2>1, <2>2, <2>6, <2>r, <3>0, <3>1, <3>3, <3>6, <3>7
  <2> QED
    BY <2>5, <2>6
<1>16. more \in Seq(FrameType) /\ DOMAIN more = 1 .. num /\ Len(more) = num
  <2>1. more = [f \in 1 .. num |-> more[f]]
    BY <1>12, <1>14
  <2>2. \A f \in 1 .. num : more[f] \in FrameType
    BY <1>15
  <2>3. more \in Seq(FrameType)
    BY <2>1, <2>2
  <2> QED
    BY <2>1, <2>3
<1>17. /\ DOMAIN more = DOMAIN fr /\ more \in Seq(FrameType)
       /\ \A f \in DOMAIN fr : Touched(fr[f], n) => more[f].lost
       /\ \A f \in DOMAIN fr : ~Touched(fr[f], n) =>
            /\ more[f].lost = fr[f].lost /\ more[f].come = fr[f].come
            /\ more[f].ahead = IF fr[f].ahead > n THEN fr[f].ahead - n ELSE 0
  BY <1>14, <1>15, <1>16
<1>18. AirOK(RowOf(mag_buf', stream'), more)
  <2>1. PICK air2 : air2 = [k \in Ordinals |-> IF k <= Overlap THEN air[k] ELSE air[k + n]]
    OBVIOUS
  <2>2. AirOK(air2, more)
    BY ONLY <1>1, <1>9, <1>17, <2>1, AirLosesSome
  <2> QED
    BY <1>10, <1>12, <2>1, <2>2 DEF Skipped
<1>19. InOrder(more)
  BY ONLY <1>1, <1>9, <1>17, OrderLosesSome
<1>20. ToldOK(cpr_cache', more)
  <2>1. \A f \in DOMAIN fr : /\ more[f].icao = fr[f].icao /\ more[f].parity = fr[f].parity
                             /\ more[f].told = fr[f].told /\ more[f].when = fr[f].when
                             /\ more[f].pos = fr[f].pos
    BY <1>14, <1>15
  <2>2. DOMAIN more \ DOMAIN fr = {} /\ Len(fr) <= Len(more)
    BY <1>13, <1>14, <1>16
  <2>3. ToldOK(cpr_cache, more)
    BY ONLY <1>9, <1>17, <2>1, <2>2, ToldStays
  <2> QED
    BY <1>12, <2>3
<1>21. \A f \in DOMAIN more : CountsOK(more[f])
  BY <1>15, <1>16
<1> QED
  BY <1>8, <1>10, <1>12, <1>16, <1>18, <1>19, <1>20, <1>21 DEF FramesInv

LEMMA FramesSend ==
  ASSUME FramesInv, NEW icao \in Aircraft, NEW parity \in Parities, NEW gap \in Gaps,
         AdsbSend(icao, parity, gap)
  PROVE  FramesInv'
<1>1. gap \in Nat /\ icao \in Nat
  BY AdsbAssumption
<1>4. PICK air : air = RowOf(mag_buf, stream)
  OBVIOUS
<1>5. PICK fr : fr = frames
  OBVIOUS
<1>8. PICK more : more = frames'
  OBVIOUS
<1>9. /\ fr \in Seq(FrameType) /\ AirOK(air, fr) /\ InOrder(fr) /\ ToldOK(cpr_cache, fr)
      /\ \A f \in DOMAIN fr : CountsOK(fr[f])
  BY <1>4, <1>5 DEF FramesInv
<1>10. PICK len \in Nat : len = Len(stream)
  BY DEF FramesInv
<1>11. PICK f \in Nat : f = Len(fr) + 1
  BY <1>9
<1>12. PICK g : g = [icao |-> icao, parity |-> parity, ahead |-> len + gap, come |-> 0, lost |-> FALSE,
                     told |-> 0, when |-> 0, pos |-> <<>>]
  OBVIOUS
<1>13. /\ g \in FrameType /\ g.come = 0 /\ g.ahead = len + gap /\ ~g.lost /\ g.told = 0 /\ g.pos = <<>>
  BY <1>1, <1>12 DEF FrameType
<1>14. /\ mag_buf' = mag_buf /\ cpr_cache' = cpr_cache /\ time' = time
       /\ more = Append(fr, g)
       /\ stream' = SentBehind(stream, gap, f)
  BY <1>5, <1>8, <1>10, <1>11, <1>12 DEF AdsbSend, SentBehind
<1>15. PICK end : end = Overlap + Len(stream) + gap
  OBVIOUS
<1>16. PICK air2 : air2 = Filled(air, end, f)
  OBVIOUS
<1>17. /\ stream' \in Seq(SampleType)
       /\ end \in Nat /\ end >= Overlap /\ \A k \in Ordinals : k > end => air[k] = Nothing
       /\ RowOf(mag_buf, stream') = air2
  <2>1. stream \in Seq(SampleType)
    BY DEF FramesInv
  <2>2. PICK next : next = stream'
    OBVIOUS
  <2>b. PICK base : base = mag_buf
    OBVIOUS
  <2>s. PICK s : s = stream
    OBVIOUS
  <2>g. PICK m \in Nat : m = gap
    BY <1>1
  <2>3. next = SentBehind(s, m, f)
    BY <1>14, <2>2, <2>s, <2>g
  <2>5. s \in Seq(SampleType) /\ air = RowOf(base, s) /\ end = Overlap + Len(s) + m
    BY <1>4, <1>15, <2>1, <2>b, <2>s, <2>g
  <2>4. /\ next \in Seq(SampleType)
        /\ end \in Nat /\ end >= Overlap /\ \A k \in Ordinals : k > end => air[k] = Nothing
        /\ RowOf(base, next) = Filled(air, end, f)
    <3>1. next \in Seq(SampleType)
      BY ONLY <2>3, <2>5, f \in Nat, m \in Nat, RowOfSent
    <3>2. end \in Nat /\ end >= Overlap
      BY ONLY <2>3, <2>5, f \in Nat, m \in Nat, RowOfSent
    <3>3. \A k \in Ordinals : k > end => air[k] = Nothing
      <4>1. PICK len2 \in Nat : len2 = Len(s)
        BY <2>5
      <4>2. PICK ov \in Nat : ov = Overlap
        BY AdsbAssumption
      <4>3. end = ov + len2 + m
        BY <2>5, <4>1, <4>2
      <4> SUFFICES ASSUME NEW k \in Ordinals, k > end PROVE air[k] = Nothing
        OBVIOUS
      <4>4. k \in Nat /\ ~(k <= ov) /\ ~(k - ov <= len2)
        BY ONLY <4>3, k \in Ordinals, k > end, ov \in Nat, len2 \in Nat, m \in Nat DEF Ordinals
      <4> QED
        BY <2>5, <4>1, <4>2, <4>4 DEF RowOf
    <3>4. RowOf(base, next) = Filled(air, end, f)
      BY ONLY <2>3, <2>5, f \in Nat, m \in Nat, RowOfSent
    <3> QED
      BY ONLY <3>1, <3>2, <3>3, <3>4
  <2> QED
    BY <1>16, <2>2, <2>4, <2>b
<1>18. g.ahead = end - Overlap
  <2>1. PICK ov \in Nat : ov = Overlap
    BY AdsbAssumption
  <2>2. end = ov + len + gap
    BY <1>10, <1>15, <2>1
  <2>3. (ov + len + gap) - ov = len + gap
    BY ONLY ov \in Nat, len \in Nat, <1>1
  <2> QED
    BY <1>13, <2>1, <2>2, <2>3
<1>19. AirOK(air2, more) /\ FirstOf(g) = end + 1 /\ Awaited(g)
  <2>1. AirOK(air2, Append(fr, g)) /\ FirstOf(g) = end + 1 /\ Awaited(g)
    <3>1. air2 = [k \in Ordinals |-> IF k > end /\ k <= end + FrameSize
                                     THEN [frame |-> f, place |-> k - end] ELSE air[k]]
      BY <1>16 DEF Filled
    <3> QED
      BY ONLY <1>9, <1>11, <1>13, <3>1, <1>17, <1>18, AirGetsMore
  <2> QED
    BY <1>14, <2>1
<1>20. InOrder(more)
  <2>1. InOrder(Append(fr, g))
    BY ONLY <1>9, <1>13, <1>17, <1>19, OrderGetsMore
  <2> QED
    BY <1>14, <2>1
<1>21. PICK num \in Nat : num = Len(fr)
  BY <1>9
<1>22. /\ more \in Seq(FrameType) /\ Len(more) = num + 1
       /\ DOMAIN fr = 1 .. num /\ DOMAIN more = 1 .. num + 1
       /\ \A h \in 1 .. num : more[h] = fr[h]
       /\ more[num + 1] = g
  BY <1>9, <1>13, <1>14, <1>21
<1>23. ToldOK(cpr_cache, more)
  <2>1. \A h \in DOMAIN fr : more[h] = fr[h]
    BY <1>22
  <2>2. \A h \in DOMAIN more \ DOMAIN fr : h = num + 1
    BY <1>22
  <2>3. \A h \in DOMAIN more \ DOMAIN fr : more[h].told = 0 /\ more[h].pos = <<>>
    BY <1>13, <1>22, <2>2
  <2>4. Len(fr) <= Len(more)
    BY <1>21, <1>22
  <2>5. \A h \in DOMAIN fr : /\ more[h].icao = fr[h].icao /\ more[h].parity = fr[h].parity
                             /\ more[h].told = fr[h].told /\ more[h].when = fr[h].when
                             /\ more[h].pos = fr[h].pos
    BY <2>1
  <2>6. more \in Seq(FrameType)
    BY <1>22
  <2> QED
    BY ONLY <1>9, <2>3, <2>4, <2>5, <2>6, ToldStays
<1>24. ASSUME NEW h \in DOMAIN more
       PROVE  CountsOK(more[h])
  <2>1. CASE h \in 1 .. num
    BY <1>9, <1>22, <2>1
  <2>2. CASE h = num + 1
    BY <1>13, <1>22, <2>2, AdsbAssumption DEF CountsOK
  <2> QED
    BY <1>22, <2>1, <2>2
<1> QED
  BY <1>8, <1>14, <1>17, <1>19, <1>20, <1>22, <1>23, <1>24 DEF FramesInv

LEMMA FramesStep ==
  ASSUME FramesInv, [AdsbNext]_adsbVars
  PROVE  FramesInv'
<1>1. CASE UNCHANGED adsbVars
  BY <1>1 DEF adsbVars, FramesInv
<1>2. CASE AdsbNext
  <2>1. CASE \E n \in BlockSizes, d \in Delays : AdsbBlock(n, d)
    BY <2>1, FramesBlock
  <2>2. CASE \E n \in BlockSizes : AdsbLost(n)
    BY <2>2, FramesLost
  <2>3. CASE \E icao \in Aircraft, parity \in Parities, gap \in Gaps : AdsbSend(icao, parity, gap)
    BY <2>3, FramesSend
  <2> QED
    BY <1>2, <2>1, <2>2, <2>3 DEF AdsbNext
<1> QED
  BY <1>1, <1>2

LEMMA InvTellsFrames ==
  ASSUME FramesInv
  PROVE  FramesTold
<1>1. EveryFrameOnce
  <2> SUFFICES ASSUME NEW f \in DOMAIN frames
               PROVE  /\ frames[f].told <= 1
                      /\ frames[f].lost => frames[f].told = 0
                      /\ ~frames[f].lost /\ frames[f].come > Overlap => frames[f].told = 1
    BY DEF EveryFrameOnce
  <2>1. frames[f].told = IF ~frames[f].lost /\ frames[f].come > Overlap THEN 1 ELSE 0
    BY DEF FramesInv, CountsOK
  <2> QED
    BY <2>1
<1>2. PositionOfOneAircraft
  BY DEF PositionOfOneAircraft, FramesInv, ToldOK, PositionOK
<1> QED
  BY <1>1, <1>2 DEF FramesTold

\* Of every frame that came whole one message is told and of no other, however
\* the samples are cut into blocks, and a position is only made of frames of one
\* aircraft (mr_plugin_process_iq and on_message, adsb_demod.c).
THEOREM FramesAreTold == AdsbSpec => []FramesTold
<1>1. AdsbInit => FramesInv
  BY FramesInit
<1>2. FramesInv /\ [AdsbNext]_adsbVars => FramesInv'
  BY FramesStep
<1>3. FramesInv => FramesTold
  BY InvTellsFrames
<1> QED
  BY <1>1, <1>2, <1>3, PTL DEF AdsbSpec
=============================================================================
