------------------------------ MODULE MCTargets ------------------------------
(* A vessel and an aircraft; the database is new, or from an earlier life.   *)
EXTENDS Targets, TLC

CONSTANTS w1, w2, c1, c2, p1, p2

Message(id, key, signal) ==
  [id |-> id, key |-> key, signal |-> signal, name |-> "absent", callsign |-> "absent",
   place |-> NoPlace, sog |-> NoSpeed, ts |-> 0]

Vessel   == Message("vessel", "mmsi", "AIS")
Aircraft == Message("plane", "icao", "ADSB")

MCInputs ==
  {[Vessel EXCEPT !.name = "Name"],
   [Vessel EXCEPT !.callsign = "Call"],
   [Vessel EXCEPT !.place = p1, !.sog = 0],
   [Vessel EXCEPT !.place = p2, !.sog = 1],
   [Aircraft EXCEPT !.callsign = "Call"],
   [Aircraft EXCEPT !.place = p1]}

MCWorkers   == {w1, w2}
MCClients   == {c1, c2}
MCIds       == {"vessel", "plane"}
MCShipNames == {"Name"}
MCCallsigns == {"Call"}
MCPlaces    == {p1, p2}
MCSpeeds    == {0, 1}
MCSymmetry  == Permutations(MCWorkers) \union Permutations(MCClients)
MCTables    == {<<>>, [id \in {"vessel"} |-> [kind |-> "SEA", name |-> "Name", callsign |-> ""]]}
=============================================================================
