------------------------------- MODULE MCScanner -------------------------------
(* Lists of two and three channels: gated or not, measured or not, a lock, *)
(* monitor mode.                                                           *)
EXTENDS Scanner

Two   == [chans |-> <<"voice", "voice">>, range |-> 2, monitor |-> FALSE, lock |-> -1]
Mixed == [chans |-> <<"voice", "data", "packet">>, range |-> 3, monitor |-> FALSE, lock |-> -1]
Locks == [chans |-> <<"voice", "data">>, range |-> 1, monitor |-> FALSE, lock |-> 1]
Watch == [chans |-> <<"voice", "voice">>, range |-> 2, monitor |-> TRUE, lock |-> -1]

Digital == [chans |-> <<"packet", "data">>, range |-> 0, monitor |-> FALSE, lock |-> -1]

MCConfigs == {Two, Mixed, Locks, Watch}
MCDigital == {Digital}
=============================================================================
