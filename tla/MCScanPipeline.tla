---------------------------- MODULE MCScanPipeline ----------------------------
(* Two channels, of which one is data; the same two in voice, in normal and   *)
(* in monitor mode.  Queue, ring and frames are short.                        *)
EXTENDS ScanPipeline

Mixed == [chans |-> <<"data", "voice">>, range |-> 2, monitor |-> FALSE, lock |-> 1]
Two   == [chans |-> <<"voice", "voice">>, range |-> 2, monitor |-> FALSE, lock |-> -1]
Heard == [Two EXCEPT !.monitor = TRUE]

MCMixed == {Mixed}
MCTwo   == {Two}
MCHeard == {Heard}
=============================================================================
