------------------------------ MODULE MCPlugins ------------------------------
(* What the plugins do, one focus at a time: the chain that is selected;     *)
(* AIS bursts on two branches of one kind, half as long as the bit buffer or *)
(* longer; DSC calls with and without a repeated format; ADS-B frames of two *)
(* aircraft that share a place of the cache, in blocks shorter and longer    *)
(* than what is carried over; VDES bursts with candidates of whole and       *)
(* broken bytes; AIS messages of every type the decoders know, around the    *)
(* length each of them needs; recordings of two receivers; and sync words in *)
(* blocks shorter and longer than what the search keeps.                     *)
EXTENDS PluginChain, BurstFraming, DscCalls, AdsbFrames, VdesBursts,
        AisMessages, IqRecording, SyncSearch

VARIABLE focus

DscConfig    == [fixed |-> "nfm", list |-> <<"nfm", "gmsk">>, decoder |-> "dsc_decoder",
                 postproc |-> "", invert |-> "0"]
AisConfig    == [fixed |-> "gmsk", list |-> <<"gmsk", "ais_dual">>, decoder |-> "nrzi_decoder",
                 postproc |-> "ais_decoder", invert |-> "1"]
SketchConfig == [fixed |-> "gmsk", list |-> <<>>, decoder |-> "vdes_asm_decoder",
                 postproc |-> "", invert |-> "0"]

MCConfigs == {DscConfig, AisConfig, SketchConfig}
MCSwitched == {"asm_decoder"}
MCModulations == {"nfm", "gmsk", "ais_dual", "vdes"}

MCKind == <<"ais", "ais", "hdlc">>
MCPayloads == {<<0, 0, 1>>, <<1, 1, 1>>}
MCTraining == <<0, 1>>
MCNoises == {<<>>, <<1, 1, 1>>}

MCCalls ==
  {[format |-> 112, repeated |-> TRUE, self_id |-> <<23, 45>>, nature |-> <<101>>,
    position |-> <<15, 56>>, utc |-> <<12>>, command |-> <<100>>, check |-> <<99, 117, 117, 117>>],
   [format |-> 120, repeated |-> FALSE, address |-> <<26, 50>>, category |-> <<108>>,
    self_id |-> <<24, 46>>, command |-> <<118>>, second |-> <<126>>, check |-> <<98, 117>>]}

MCTypes == {1, 4, 5, 6, 8, 9, 12, 14, 18, 19, 21, 24, 25}
MCSizes == 3 .. 12 \union {19, 20, 21, 22, 33, 34, 38, 39, 52, 53, 60}

MCReceivers == {1, 2}

MCBarker == <<1, 1, 1, 0, 1>>
MCSyncWord == <<1>> \o MCBarker \o <<0, 0, 0, 0, 1, 0>>
MCTuneWords == <<MCSyncWord, Reverse(MCSyncWord), MCBarker, Reverse(MCBarker), MCBarker \o MCBarker>>
MCTuneWeight == [e \in 0 .. 1 |-> IF e = 0 THEN 16 ELSE 8]
MCSyncNoises == {<<0, 0, 1, 1>>}
MCSyncData == {<<1, 1, 0, 0, 1, 0, 1>>, <<>>}
MCSyncParams == {<<"size", 6>>, <<"errors", 0>>, <<"tune", FALSE>>, <<"word_lock", TRUE>>,
                 <<"word", <<0, 0, 1, 0, 0, 1>> >>}

MCInit ==
  /\ focus \in {"chain", "burst", "dsc", "adsb", "vdes", "ais", "record", "sync"}
  /\ Init /\ mode = IF focus = "chain" THEN "list" ELSE "fixed"
  /\ BurstInit /\ (focus # "burst" => plugin = Dual)
  /\ DscInit /\ AdsbInit /\ VdesInit /\ AisInit /\ RecordInit /\ SyncInit

Chains == /\ focus = "chain"
          /\ UNCHANGED <<focus, burstVars, dscVars, adsbVars, vdesVars, aisVars, recordVars, syncVars>>

MCNext ==
  \/ Chains /\ Next
  \/ /\ focus = "burst" /\ BurstNext
     /\ UNCHANGED <<focus, vars, dscVars, adsbVars, vdesVars, aisVars, recordVars, syncVars>>
  \/ /\ focus = "dsc" /\ DscNext
     /\ UNCHANGED <<focus, vars, burstVars, adsbVars, vdesVars, aisVars, recordVars, syncVars>>
  \/ /\ focus = "adsb" /\ AdsbNext
     /\ UNCHANGED <<focus, vars, burstVars, dscVars, vdesVars, aisVars, recordVars, syncVars>>
  \/ /\ focus = "vdes" /\ VdesNext
     /\ UNCHANGED <<focus, vars, burstVars, dscVars, adsbVars, aisVars, recordVars, syncVars>>
  \/ /\ focus = "ais" /\ AisNext
     /\ UNCHANGED <<focus, vars, burstVars, dscVars, adsbVars, vdesVars, recordVars, syncVars>>
  \/ /\ focus = "record" /\ RecordNext
     /\ UNCHANGED <<focus, vars, burstVars, dscVars, adsbVars, vdesVars, aisVars, syncVars>>
  \/ /\ focus = "sync" /\ SyncNext
     /\ UNCHANGED <<focus, vars, burstVars, dscVars, adsbVars, vdesVars, aisVars, recordVars>>

\* The fairness of PluginChain.
MCSpec ==
  /\ MCInit
  /\ [][MCNext]_<<focus, vars, burstVars, dscVars, adsbVars, vdesVars, aisVars, recordVars, syncVars>>
  /\ WF_vars(Chains /\ Push) /\ WF_vars(Chains /\ Process)
=============================================================================
