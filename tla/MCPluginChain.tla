---------------------------- MODULE MCPluginChain ----------------------------
(* DSC over audio, a scan of AIS Dual and GMSK with the handoff, the VDES    *)
(* sketch.                                                                   *)
EXTENDS PluginChain

DscConfig    == [fixed |-> "nfm", list |-> <<"nfm", "gmsk">>, decoder |-> "dsc_decoder", postproc |-> "", invert |-> "0"]
AisConfig    == [fixed |-> "gmsk", list |-> <<"gmsk", "ais_dual">>, decoder |-> "nrzi_decoder",
                 postproc |-> "ais_decoder", invert |-> "1"]
SketchConfig == [fixed |-> "gmsk", list |-> <<>>, decoder |-> "vdes_asm_decoder", postproc |-> "", invert |-> "0"]

MCConfigs == {DscConfig, AisConfig, SketchConfig}
MCSwitched == {"asm_decoder"}
MCModulations == {"nfm", "gmsk", "ais_dual", "vdes"}
=============================================================================
