-------------------------------- MODULE MCDsc --------------------------------
(* One distress call and one to a station, each with three ends, filtered as *)
(* PushPluginConfig asks for.                                                *)
EXTENDS DscCalls

MCCalls ==
  {[format |-> 112, repeated |-> TRUE, self_id |-> <<23, 45>>, nature |-> <<101>>,
    position |-> <<15, 56>>, utc |-> <<12>>, command |-> <<100>>, check |-> <<99, 117, 117, 117>>],
   [format |-> 120, repeated |-> FALSE, address |-> <<26, 50>>, category |-> <<108>>,
    self_id |-> <<24, 46>>, command |-> <<118>>, second |-> <<126>>, check |-> <<98, 117>>]}
=============================================================================
