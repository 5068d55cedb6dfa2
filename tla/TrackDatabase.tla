---------------------------- MODULE TrackDatabase ----------------------------
(***************************************************************************)
(* The SQLite store of backend/src/track_database.cpp: one row per entity  *)
(* (an MMSI or ICAO address), delta-compressed track rows that refer to    *)
(* it, and two caches in memory.  Every call holds the store's mutex from  *)
(* end to end: one step.  A process that dies loses the caches, not the    *)
(* rows.                                                                   *)
(*                                                                         *)
(* A position is a place and a speed: two places are at least 100 m apart, *)
(* two speeds at least 2 knots.  Raw frames, which nothing reads back, and *)
(* the queries are left out; so is Prune, which nothing calls.             *)
(***************************************************************************)
EXTENDS Integers

CONSTANTS Ids,         \* MMSIs and ICAO addresses
          ShipNames,   \* what is sent as the name of a vessel
          Callsigns,   \* what is sent as a callsign
          Places,
          NoPlace,     \* no position
          Speeds,
          NoSpeed,     \* no speed
          MaxInterval, \* kMaxIntervalMs
          Tables       \* what the table of entities may hold at the start

ASSUME DatabaseAssumption ==
  /\ "" \notin ShipNames \union Callsigns
  /\ NoPlace \notin Places
  /\ NoSpeed \notin Speeds /\ 0 \in Speeds
  /\ MaxInterval \in Nat \ {0}

VARIABLES
  entities,    \* the table: a row for each id in its domain
  tracks,      \* the table
  name_cache,  \* name_cache_: a label for each id in its domain
  last_pos     \* last_pos_: where each id in its domain was recorded last

databaseVars == <<entities, tracks, name_cache, last_pos>>

Texts == ShipNames \union Callsigns \union {""}

DatabaseTypeOK ==
  /\ DOMAIN entities \subseteq Ids /\ DOMAIN name_cache \subseteq Ids /\ DOMAIN last_pos \subseteq Ids
  /\ \A id \in DOMAIN entities :
       entities[id] \in [kind : {"AIR", "SEA", "AIR-SAR"}, name : Texts, callsign : Texts]
  /\ tracks \subseteq [id : DOMAIN entities, ts : Nat, place : Places, sog : Speeds \union {NoSpeed}]
  /\ \A id \in DOMAIN name_cache : name_cache[id] \in Texts \ {""}
  /\ \A id \in DOMAIN last_pos : last_pos[id] \in [ts : Nat, place : Places, sog : Speeds]

-----------------------------------------------------------------------------
\* The map f with x bound to v.
With(f, x, v) == [y \in DOMAIN f \union {x} |-> IF y = x THEN v ELSE f[y]]

Or(text, other) == IF text # "" THEN text ELSE other

\* A vessel goes by its name, an aircraft by its callsign.
Label(kind, name, callsign) ==
  IF kind = "SEA" THEN Or(name, callsign) ELSE Or(callsign, name)

\* The row after the upsert: what was known stays where the message is silent.
Merged(id, kind, name, callsign) ==
  IF id \in DOMAIN entities
  THEN [kind     |-> kind,
        name     |-> Or(name, entities[id].name),
        callsign |-> Or(callsign, entities[id].callsign)]
  ELSE [kind |-> kind, name |-> name, callsign |-> callsign]

\* The cache takes the label of this message, the row is merged.
UpsertEntity(id, kind, name, callsign) ==
  LET label == Label(kind, name, callsign)
  IN  /\ name_cache' = IF label = "" THEN name_cache ELSE With(name_cache, id, label)
      /\ entities' = With(entities, id, Merged(id, kind, name, callsign))
      /\ UNCHANGED <<tracks, last_pos>>

LookupName(id) == IF id \in DOMAIN name_cache THEN name_cache[id] ELSE ""

-----------------------------------------------------------------------------
Age(now, ts) == IF now > ts THEN now - ts ELSE 0

\* Mutant: the time does not matter.
MutantShouldRecord(id, ts, place, sog) ==
  id \notin DOMAIN last_pos \/ place # last_pos[id].place \/ (sog # NoSpeed /\ sog # last_pos[id].sog)

\* The position is new enough, far enough or fast enough for a row.
ShouldRecord(id, ts, place, sog) ==
  \/ id \notin DOMAIN last_pos
  \/ Age(ts, last_pos[id].ts) >= MaxInterval
  \/ place # last_pos[id].place
  \/ sog # NoSpeed /\ sog # last_pos[id].sog

Recorded(id, ts, place, sog) ==
  [ts |-> ts, place |-> place,
   sog |-> IF sog # NoSpeed THEN sog
           ELSE IF id \in DOMAIN last_pos THEN last_pos[id].sog ELSE 0]

\* The position counts as recorded before it is inserted, and the insertion
\* fails, unnoticed, when the entity has no row.
RecordPosition(id, ts, place, sog) ==
  IF ~ShouldRecord(id, ts, place, sog) THEN UNCHANGED databaseVars
  ELSE /\ last_pos' = With(last_pos, id, Recorded(id, ts, place, sog))
       /\ tracks' = IF id \in DOMAIN entities
                    THEN tracks \union {[id |-> id, ts |-> ts, place |-> place, sog |-> sog]}
                    ELSE tracks
       /\ UNCHANGED <<entities, name_cache>>

-----------------------------------------------------------------------------
\* One row that a track refers to keeps the DELETE from removing any; the
\* cache is emptied all the same.
ClearEntities ==
  /\ entities' = IF tracks = {} THEN <<>> ELSE entities
  /\ name_cache' = <<>>
  /\ UNCHANGED <<tracks, last_pos>>

\* Mutant: only the preferred text is read.
MutantRowLabel(row) == IF row.kind = "SEA" THEN row.name ELSE row.callsign

RowLabel(row) == Label(row.kind, row.name, row.callsign)

Warm(table) == [id \in {i \in DOMAIN table : RowLabel(table[i]) # ""} |-> RowLabel(table[id])]

\* The constructor warms the cache from the rows.
OpenDatabase ==
  /\ name_cache' = Warm(entities)
  /\ last_pos' = <<>>
  /\ UNCHANGED <<entities, tracks>>

InitDatabase == entities \in Tables /\ tracks = {} /\ name_cache = Warm(entities) /\ last_pos = <<>>
=============================================================================
