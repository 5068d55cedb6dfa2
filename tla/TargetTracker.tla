---------------------------- MODULE TargetTracker ----------------------------
(***************************************************************************)
(* The radar picture of backend/src/target_tracker.cpp: one entry per      *)
(* target, merged from its messages, removed when it was not heard for a   *)
(* while -- by the next snapshot that anybody takes, which is also the one *)
(* that reports it as removed.  What Update does under its mutex in the    *)
(* database is in Targets.                                                 *)
(***************************************************************************)
EXTENDS TrackDatabase

CONSTANTS AirStale,  \* air_stale_ms_
          SeaStale   \* sea_stale_ms_

ASSUME TrackerAssumption == AirStale \in Nat \ {0} /\ SeaStale \in Nat \ {0}

VARIABLE entries  \* entries_: one for each id in its domain

TrackerTypeOK ==
  /\ DOMAIN entries \subseteq Ids
  /\ \A id \in DOMAIN entries :
       entries[id] \in [kind : {"AIR", "SEA", "AIR-SAR"}, label : (Texts \ {""}) \union Ids,
                        place : Places \union {NoPlace}, sog : Speeds, seen : Nat]

-----------------------------------------------------------------------------
\* "" stands for a signal that is not tracked.
Kind(m) ==
  CASE m.signal = "ADSB"    -> "AIR"
    [] m.signal = "AIR-SAR" -> "AIR-SAR"
    [] m.signal = "AIS"     -> "SEA"
    [] OTHER                -> ""

\* The text of a field; an absent one reads as empty.
Text(field) == IF field = "absent" THEN "" ELSE field

Entry(id) ==
  IF id \in DOMAIN entries THEN entries[id]
  ELSE [kind |-> "", label |-> "", place |-> NoPlace, sog |-> 0, seen |-> 0]

\* The entry with m merged into it.  A speed of 0 does not replace the last one.
MergedEntry(m) ==
  LET e == Entry(m.id)
  IN  [kind  |-> Kind(m),
       label |-> Or(Text(m.name), Or(Text(m.callsign), Or(e.label, m.id))),
       place |-> IF m.place # NoPlace THEN m.place ELSE e.place,
       sog   |-> IF m.sog # NoSpeed /\ m.sog > 0 THEN m.sog ELSE e.sog,
       seen  |-> m.ts]

MergeEntry(m) == entries' = With(entries, m.id, MergedEntry(m))

LearnLabel(id, label) ==
  entries' = IF id \in DOMAIN entries THEN [entries EXCEPT ![id].label = label] ELSE entries

-----------------------------------------------------------------------------
Stale(e, now) == Age(now, e.seen) > (IF e.kind = "SEA" THEN SeaStale ELSE AirStale)

\* What a snapshot taken now removes, and what it shows.
Removed(now) == {id \in DOMAIN entries : Stale(entries[id], now)}
Shown(now)   == {id \in DOMAIN entries \ Removed(now) : entries[id].place # NoPlace}

EraseStale(now) == entries' = [id \in DOMAIN entries \ Removed(now) |-> entries[id]]

InitTracker == entries = <<>>
=============================================================================
