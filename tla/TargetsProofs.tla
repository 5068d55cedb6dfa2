---------------------------- MODULE TargetsProofs ----------------------------
(***************************************************************************)
(* Proofs about Targets, for any number of receivers and clients, any      *)
(* messages and any bounds.                                                *)
(***************************************************************************)
EXTENDS Targets, TLAPS

-----------------------------------------------------------------------------
(* The inductive invariant *)

PerClient ==
  DOMAIN stream = Clients /\ DOMAIN snap = Clients /\ DOMAIN markers = Clients /\ DOMAIN missed = Clients

\* A snapshot exists while it is written.  What it shows, and what is on the
\* map, is still tracked or its removal went by this client.
MapOK(c) ==
  /\ stream[c] # "write" => snap[c] = NoSnap
  /\ snap[c].shown \subseteq DOMAIN entries \union missed[c]
  /\ markers[c] \subseteq DOMAIN entries \union missed[c] \union snap[c].removed

MapInv == PerClient /\ \A c \in Clients : MapOK(c)

(* Before the first message nothing is on a map. *)
LEMMA MapInit == Init => MapInv
BY DEF Init, MapInv, PerClient, MapOK, NoSnap

-----------------------------------------------------------------------------
(* Receivers *)

(* A message adds to the tracked ids and takes none away. *)
LEMMA MergeDomain ==
  ASSUME NEW m, MergeEntry(m)
  PROVE  DOMAIN entries' = DOMAIN entries \union {m.id}
BY DEF MergeEntry, With

(* A label changes no tracked id. *)
LEMMA LabelDomain ==
  ASSUME NEW id, NEW label, LearnLabel(id, label)
  PROVE  DOMAIN entries' = DOMAIN entries
BY DEF LearnLabel

(* No step of a receiver takes a target away or touches a stream. *)
LEMMA CallbackKeepsTargets ==
  ASSUME NEW w \in Workers, Callback(w)
  PROVE  UNCHANGED streamVars /\ DOMAIN entries \subseteq DOMAIN entries'
<1>1. CASE Learn(w)
  BY <1>1 DEF Learn
<1>2. CASE SetLabel(w)
  <2>1. DOMAIN entries' = DOMAIN entries
    BY <1>2, LabelDomain DEF SetLabel
  <2> QED BY <1>2, <2>1 DEF SetLabel
<1>3. CASE Record(w)
  BY <1>3 DEF Record
<1>4. CASE Inject(w)
  BY <1>4 DEF Inject
<1>5. CASE Update(w)
  <2>1. MergeEntry(msg[w]) => DOMAIN entries \subseteq DOMAIN entries'
    BY MergeDomain
  <2> QED BY <1>5, <2>1 DEF Update
<1>6. CASE UpdateNames(w)
  BY <1>6 DEF UpdateNames
<1>7. CASE UpdatePosition(w)
  BY <1>7 DEF UpdatePosition
<1> QED BY <1>1, <1>2, <1>3, <1>4, <1>5, <1>6, <1>7 DEF Callback

(* More targets and the same streams: the maps stay right. *)
LEMMA MoreTargets ==
  ASSUME MapInv, UNCHANGED streamVars, DOMAIN entries \subseteq DOMAIN entries'
  PROVE  MapInv'
BY DEF MapInv, PerClient, MapOK, streamVars

-----------------------------------------------------------------------------
(* Streams *)

(* The snapshot of c takes the removals from every other client. *)
LEMMA SnapshotStep ==
  ASSUME MapInv, NEW c \in Clients, TakeSnapshot(c)
  PROVE  MapInv'
<1> DEFINE gone == Removed(now)
           shown == Shown(now)
<1>1. DOMAIN entries' = DOMAIN entries \ gone
  BY DEF TakeSnapshot, EraseStale
<1>2. shown \subseteq DOMAIN entries \ gone
  BY DEF Shown
<1>3. /\ snap' = [snap EXCEPT ![c] = [shown |-> shown, removed |-> gone]]
      /\ missed' = [d \in Clients |-> IF d = c THEN missed[d] \ shown ELSE missed[d] \union gone]
      /\ stream[c] = "sleep" /\ stream' = [stream EXCEPT ![c] = "write"]
      /\ markers' = markers
  BY DEF TakeSnapshot
<1>4. PerClient'
  BY <1>3 DEF MapInv, PerClient
<1> HIDE DEF gone, shown
<1>5. MapOK(c)'
  <2>1. stream'[c] = "write" /\ snap'[c].shown = shown /\ snap'[c].removed = gone
        /\ missed'[c] = missed[c] \ shown
    BY <1>3 DEF MapInv, PerClient
  <2>2. markers[c] \subseteq DOMAIN entries \union missed[c]
    BY <1>3 DEF MapInv, MapOK, NoSnap
  <2> QED BY <1>1, <1>2, <1>3, <2>1, <2>2 DEF MapOK
<1>6. ASSUME NEW d \in Clients, d # c PROVE MapOK(d)'
  <2>1. stream'[d] = stream[d] /\ snap'[d] = snap[d] /\ missed'[d] = missed[d] \union gone
    BY <1>3, <1>6 DEF MapInv, PerClient
  <2> QED BY <1>1, <1>3, <2>1 DEF MapInv, MapOK
<1> QED BY <1>4, <1>5, <1>6 DEF MapInv

(* A snapshot that is written clears what it removes. *)
LEMMA WriteOkStep ==
  ASSUME MapInv, NEW c \in Clients, WriteOk(c)
  PROVE  MapInv'
<1>1. PerClient'
  BY DEF WriteOk, MapInv, PerClient
<1>2. MapOK(c)'
  <2>1. snap'[c] = NoSnap /\ missed' = missed /\ entries' = entries
        /\ markers'[c] = (markers[c] \ snap[c].removed) \union snap[c].shown
    BY DEF WriteOk, ApplySnapshot, MapInv, PerClient
  <2> QED BY <2>1 DEF MapInv, MapOK, NoSnap
<1>3. ASSUME NEW d \in Clients, d # c PROVE MapOK(d)'
  BY <1>3 DEF WriteOk, MapInv, PerClient, MapOK
<1> QED BY <1>1, <1>2, <1>3 DEF MapInv

(* One that is not written is missed. *)
LEMMA WriteFailsStep ==
  ASSUME MapInv, NEW c \in Clients, WriteFails(c)
  PROVE  MapInv'
<1>1. PerClient'
  BY DEF WriteFails, MapInv, PerClient
<1>2. MapOK(c)'
  <2>1. snap'[c] = NoSnap /\ missed'[c] = missed[c] \union snap[c].removed
        /\ entries' = entries /\ markers' = markers
    BY DEF WriteFails, MapInv, PerClient
  <2> QED BY <2>1 DEF MapInv, MapOK, NoSnap
<1>3. ASSUME NEW d \in Clients, d # c PROVE MapOK(d)'
  BY <1>3 DEF WriteFails, MapInv, PerClient, MapOK
<1> QED BY <1>1, <1>2, <1>3 DEF MapInv

(* Coming and going leaves snapshots and maps alone. *)
LEMMA ConnectionStep ==
  ASSUME MapInv, NEW c \in Clients, Subscribe(c) \/ Cancel(c)
  PROVE  MapInv'
<1>1. stream[c] # "write" /\ DOMAIN stream' = Clients /\ UNCHANGED <<entries, snap, markers, missed>>
      /\ \A d \in Clients : stream'[d] # "write" => stream[d] # "write" \/ d = c
  BY DEF Subscribe, Cancel, MapInv, PerClient
<1> QED BY <1>1 DEF MapInv, PerClient, MapOK

(* A restart forgets every target: each client misses what is on its map. *)
LEMMA RestartStep ==
  ASSUME MapInv, Restart
  PROVE  MapInv'
BY DEF Restart, MapInv, PerClient, MapOK, NoSnap

-----------------------------------------------------------------------------
(* MapInv is preserved. *)
LEMMA MapStep == MapInv /\ [Next]_vars => MapInv'
<1> SUFFICES ASSUME MapInv, [Next]_vars PROVE MapInv'
  OBVIOUS
<1>1. ASSUME NEW w \in Workers, Callback(w) PROVE MapInv'
  BY <1>1, CallbackKeepsTargets, MoreTargets
<1>2. ASSUME NEW w \in Workers, NEW i \in Inputs, Receive(w, i) PROVE MapInv'
  BY <1>2, MoreTargets DEF Receive
<1>3. ASSUME NEW c \in Clients, Subscribe(c) \/ Cancel(c) PROVE MapInv'
  BY <1>3, ConnectionStep
<1>4. ASSUME NEW c \in Clients, TakeSnapshot(c) PROVE MapInv'
  BY <1>4, SnapshotStep
<1>5. ASSUME NEW c \in Clients, WriteOk(c) PROVE MapInv'
  BY <1>5, WriteOkStep
<1>6. ASSUME NEW c \in Clients, WriteFails(c) PROVE MapInv'
  BY <1>6, WriteFailsStep
<1>7. CASE ClearNameDatabase
  BY <1>7, MoreTargets DEF ClearNameDatabase
<1>8. CASE Restart
  BY <1>8, RestartStep
<1>9. CASE Tick
  BY <1>9, MoreTargets DEF Tick
<1>10. CASE UNCHANGED vars
  BY <1>10, MoreTargets DEF vars, streamVars
<1> QED BY <1>1, <1>2, <1>3, <1>4, <1>5, <1>6, <1>7, <1>8, <1>9, <1>10 DEF Next

(***************************************************************************)
(* A marker whose target is gone was reported to somebody else, or in a    *)
(* snapshot that was lost, or is about to be cleared by the one on its way *)
(* (TargetTracker::TakeSnapshot, StreamRadarSnapshots, ApplySnapshot).     *)
(***************************************************************************)
THEOREM Ghosts == Spec => []GhostsWereLost
<1>1. MapInv => GhostsWereLost
  BY DEF MapInv, MapOK, GhostsWereLost
<1> QED BY <1>1, MapInit, MapStep, PTL DEF Spec

-----------------------------------------------------------------------------
(* Names *)

HasText(m) == Text(m.name) # "" \/ Text(m.callsign) # ""

\* Update reaches the upsert with a text only: without one, a cleared id would
\* count as learned although nothing is.
NamesInv ==
  /\ DOMAIN at = Workers /\ DOMAIN msg = Workers
  /\ \A w \in Workers : at[w] = "upsert" => HasText(msg[w])
  /\ LookupsMatchRows

(* The constructor reads a label from exactly the rows that have a text. *)
LEMMA WarmLookups ==
  ASSUME name_cache' = Warm(entities), entities' = entities
  PROVE  LookupsMatchRows'
BY DEF LookupsMatchRows, LookupName, Warm, RowLabel, Label, Or

LEMMA NamesInit == Init => NamesInv
<1> SUFFICES ASSUME Init PROVE NamesInv
  OBVIOUS
<1>1. LookupsMatchRows
  BY DEF Init, InitDatabase, LookupsMatchRows, LookupName, Warm, RowLabel, Label, Or
<1> QED BY <1>1 DEF Init, NamesInv

(* An upsert with a text puts the id in both places. *)
LEMMA UpsertMatches ==
  ASSUME LookupsMatchRows, NEW id, NEW kind, NEW name, NEW callsign,
         name # "" \/ callsign # "", Learned(id, kind, name, callsign)
  PROVE  LookupsMatchRows'
<1> DEFINE label == Label(kind, name, callsign)
           row == Merged(id, kind, name, callsign)
<1>1. label # ""
  BY DEF Label, Or
<1>2. row.name # "" \/ row.callsign # ""
  BY DEF Merged, Or
<1>3. /\ name_cache' = With(name_cache, id, label)
      /\ entities' = With(entities, id, row)
      /\ cleared' = cleared \ {id}
  BY <1>1 DEF Learned, UpsertEntity
<1> HIDE DEF label, row
<1>4. LookupName(id)' = label /\ id \in DOMAIN entities' /\ entities'[id] = row
  BY <1>3 DEF LookupName, With
<1>5. ASSUME NEW other \in Ids, other # id
      PROVE  /\ LookupName(other)' = LookupName(other)
             /\ other \in DOMAIN entities' <=> other \in DOMAIN entities
             /\ other \in DOMAIN entities => entities'[other] = entities[other]
  BY <1>3, <1>5 DEF LookupName, With
<1> QED BY <1>1, <1>2, <1>3, <1>4, <1>5 DEF LookupsMatchRows

(* What leaves the cache and the names alone leaves the lookups alone. *)
LEMMA LookupsKept ==
  ASSUME LookupsMatchRows, UNCHANGED <<name_cache, entities, cleared>>
  PROVE  LookupsMatchRows'
BY DEF LookupsMatchRows, LookupName

LEMMA PositionKeepsNames ==
  ASSUME NEW id, NEW ts, NEW place, NEW sog, RecordPosition(id, ts, place, sog)
  PROVE  UNCHANGED <<name_cache, entities>>
BY DEF RecordPosition, databaseVars

(* Only the message of w changes when w injects a label. *)
LEMMA InjectChanges ==
  ASSUME NEW w \in Workers, DOMAIN msg = Workers, Inject(w)
  PROVE  DOMAIN msg' = Workers /\ \A v \in Workers : v # w => msg'[v] = msg[v]
<1> DEFINE known == LookupName(msg[w].id)
<1>1. CASE msg' = msg
  BY <1>1
<1>2. CASE msg' = [msg EXCEPT ![w].callsign = known]
  BY <1>2
<1>3. CASE msg' = [msg EXCEPT ![w].name = known]
  BY <1>3
<1> QED BY <1>1, <1>2, <1>3 DEF Inject

(* No step of a receiver breaks NamesInv. *)
LEMMA CallbackNames ==
  ASSUME NamesInv, NEW w \in Workers, Callback(w)
  PROVE  NamesInv'
<1> USE DEF NamesInv
<1>1. CASE Learn(w)
  <2>1. LookupsMatchRows'
    <3>1. CASE UNCHANGED <<databaseVars, historyVars>>
      BY <3>1, LookupsKept DEF databaseVars, historyVars
    <3>2. CASE Text(msg[w].callsign) # "" /\ Learned(msg[w].id, "AIR", "", Text(msg[w].callsign))
      BY <3>2, UpsertMatches
    <3>3. CASE /\ Text(msg[w].name) # "" \/ Text(msg[w].callsign) # ""
               /\ Learned(msg[w].id, "SEA", Text(msg[w].name), Text(msg[w].callsign))
      BY <3>3, UpsertMatches
    <3> QED BY <1>1, <3>1, <3>2, <3>3 DEF Learn
  <2>2. msg' = msg /\ \E to \in {"label", "record"} : at' = [at EXCEPT ![w] = to]
    BY <1>1 DEF Learn, Go
  <2> QED BY <2>1, <2>2
<1>2. CASE SetLabel(w)
  BY <1>2, LookupsKept DEF SetLabel, Go, databaseVars, historyVars
<1>3. CASE Record(w)
  <2>1. UNCHANGED <<name_cache, entities>>
    BY <1>3, PositionKeepsNames DEF Record, databaseVars
  <2> QED BY <1>3, <2>1, LookupsKept DEF Record, Go, historyVars
<1>4. CASE Inject(w)
  <2>1. at' = [at EXCEPT ![w] = "update"] /\ LookupsMatchRows'
    BY <1>4, LookupsKept DEF Inject, Go, databaseVars, historyVars
  <2>2. DOMAIN msg' = Workers /\ \A v \in Workers : v # w => msg'[v] = msg[v]
    BY <1>4, InjectChanges
  <2> QED BY <2>1, <2>2
<1>5. CASE Update(w)
  <2>1. LookupsMatchRows' /\ at[w] = "update"
    BY <1>5, LookupsKept DEF Update, databaseVars, historyVars
  <2>2. CASE at' = [at EXCEPT ![w] = "idle"]
    <3>1. msg' = msg \/ msg' = [msg EXCEPT ![w] = NoMessage]
      BY <1>5 DEF Update, GoOrEnd
    <3> QED BY <2>1, <2>2, <3>1
  <2>3. CASE at' # [at EXCEPT ![w] = "idle"]
    <3>1. msg' = msg /\ \E to \in {"upsert", "position"} : at' = [at EXCEPT ![w] = to]
                                                       /\ (to = "upsert" => HasText(msg[w]))
      BY <1>5, <2>3 DEF Update, GoOrEnd, Go, HasText
    <3> QED BY <2>1, <3>1
  <2> QED BY <2>2, <2>3
<1>6. CASE UpdateNames(w)
  <2>1. at[w] = "upsert" /\ \E to \in {"position", "idle"} : at' = [at EXCEPT ![w] = to]
    BY <1>6 DEF UpdateNames, GoOrEnd, Go
  <2>2. LookupsMatchRows'
    BY <1>6, <2>1, UpsertMatches DEF UpdateNames, HasText
  <2>3. DOMAIN msg' = Workers /\ \A v \in Workers : v # w => msg'[v] = msg[v]
    BY <1>6 DEF UpdateNames, GoOrEnd
  <2> QED BY <2>1, <2>2, <2>3
<1>7. CASE UpdatePosition(w)
  <2>1. UNCHANGED <<name_cache, entities>>
    BY <1>7, PositionKeepsNames DEF UpdatePosition
  <2>2. LookupsMatchRows'
    BY <1>7, <2>1, LookupsKept DEF UpdatePosition, historyVars
  <2>3. /\ at' = [at EXCEPT ![w] = "idle"] /\ DOMAIN msg' = Workers
        /\ \A v \in Workers : v # w => msg'[v] = msg[v]
    BY <1>7 DEF UpdatePosition, GoOrEnd, Go
  <2> QED BY <2>2, <2>3
<1> QED BY <1>1, <1>2, <1>3, <1>4, <1>5, <1>6, <1>7 DEF Callback

LEMMA NamesStep == NamesInv /\ [Next]_vars => NamesInv'
<1> SUFFICES ASSUME NamesInv, [Next]_vars PROVE NamesInv'
  OBVIOUS
<1>1. ASSUME NEW w \in Workers, Callback(w) PROVE NamesInv'
  BY <1>1, CallbackNames
<1>2. ASSUME NEW w \in Workers, NEW i \in Inputs, Receive(w, i) PROVE NamesInv'
  BY <1>2, LookupsKept DEF NamesInv, Receive, Go, databaseVars, historyVars
<1>3. CASE UNCHANGED <<databaseVars, at, msg, historyVars>>
  BY <1>3, LookupsKept DEF NamesInv, databaseVars, historyVars
<1>4. CASE ClearNameDatabase
  BY <1>4 DEF NamesInv, ClearNameDatabase, LookupsMatchRows, workerVars
<1>5. CASE Restart
  <2>1. LookupsMatchRows'
    BY <1>5, WarmLookups DEF Restart, OpenDatabase
  <2> QED BY <1>5, <2>1 DEF NamesInv, Restart
<1>6. ASSUME NEW c \in Clients,
             Subscribe(c) \/ Cancel(c) \/ TakeSnapshot(c) \/ WriteOk(c) \/ WriteFails(c)
      PROVE  UNCHANGED <<databaseVars, at, msg, historyVars>>
  BY <1>6 DEF Subscribe, Cancel, TakeSnapshot, WriteOk, WriteFails, workerVars
<1>7. Tick \/ UNCHANGED vars => UNCHANGED <<databaseVars, at, msg, historyVars>>
  BY DEF Tick, vars, workerVars
<1> QED BY <1>1, <1>2, <1>3, <1>4, <1>5, <1>6, <1>7 DEF Next

(***************************************************************************)
(* The cache (TrackDatabase::LookupName) and the table of entities agree   *)
(* on which names are known, also after a restart, except for ids that     *)
(* were cleared and not learned since.                                     *)
(***************************************************************************)
THEOREM Lookups == Spec => []LookupsMatchRows
<1>1. NamesInv => LookupsMatchRows
  BY DEF NamesInv
<1> QED BY <1>1, NamesInit, NamesStep, PTL DEF Spec

-----------------------------------------------------------------------------
(* Tracks *)

MessageTimed(m) == "ts" \in DOMAIN m /\ m.ts \in 0 .. now

\* What counts as recorded is in the tracks, unless the entity had no row yet:
\* then it was recorded no later than the row was created.
RecordedOK(id) ==
  /\ last_pos[id].ts \in 0 .. now
  /\ id \in DOMAIN since /\ since[id] < last_pos[id].ts =>
       \E row \in tracks : row.id = id /\ row.place = last_pos[id].place /\ row.ts = last_pos[id].ts

TrackInv ==
  /\ now \in Nat /\ restarts \in Nat
  /\ DOMAIN at = Workers /\ DOMAIN msg = Workers
  /\ \A w \in Workers : at[w] # "idle" => MessageTimed(msg[w])
  /\ DOMAIN since = DOMAIN entities /\ \A id \in DOMAIN since : since[id] \in Nat
  /\ \A id \in DOMAIN last_pos : RecordedOK(id)

LEMMA TrackInit == Init => TrackInv
BY DEF Init, InitDatabase, TrackInv

(* A new row is created now, after everything that is recorded of its id. *)
LEMMA LearnedTracks ==
  ASSUME TrackInv, NEW id, NEW kind, NEW name, NEW callsign,
         Learned(id, kind, name, callsign), now' = now
  PROVE  /\ DOMAIN since' = DOMAIN entities' /\ \A i \in DOMAIN since' : since'[i] \in Nat
         /\ \A i \in DOMAIN last_pos' : RecordedOK(i)'
<1>1. /\ tracks' = tracks /\ last_pos' = last_pos
      /\ DOMAIN entities' = DOMAIN entities \union {id}
      /\ since' = IF id \in DOMAIN entities THEN since ELSE With(since, id, now)
  BY DEF Learned, UpsertEntity, With
<1>2. CASE id \in DOMAIN entities
  BY <1>1, <1>2 DEF TrackInv, RecordedOK
<1>3. CASE id \notin DOMAIN entities
  <2>1. /\ DOMAIN since' = DOMAIN since \union {id} /\ since'[id] = now
        /\ \A i \in DOMAIN since : since'[i] = since[i]
    BY <1>1, <1>3 DEF With, TrackInv
  <2> QED BY <1>1, <1>3, <2>1 DEF TrackInv, RecordedOK
<1> QED BY <1>2, <1>3

(* A position that counts as recorded gets its row if the entity has one. *)
LEMMA RecordTracks ==
  ASSUME TrackInv, NEW m, MessageTimed(m), NEW sog, RecordPosition(m.id, m.ts, m.place, sog),
         UNCHANGED <<now, since>>
  PROVE  entities' = entities /\ \A i \in DOMAIN last_pos' : RecordedOK(i)'
<1>1. CASE UNCHANGED databaseVars
  BY <1>1 DEF TrackInv, RecordedOK, databaseVars
<1>2. CASE ShouldRecord(m.id, m.ts, m.place, sog)
  <2>1. /\ last_pos' = With(last_pos, m.id, Recorded(m.id, m.ts, m.place, sog))
        /\ entities' = entities /\ tracks \subseteq tracks'
        /\ m.id \in DOMAIN entities => [id |-> m.id, ts |-> m.ts, place |-> m.place, sog |-> sog] \in tracks'
    BY <1>2 DEF RecordPosition
  <2>2. DOMAIN last_pos' = DOMAIN last_pos \union {m.id}
    BY <2>1 DEF With
  <2>3. RecordedOK(m.id)'
    <3>1. last_pos'[m.id].ts = m.ts /\ last_pos'[m.id].place = m.place
      BY <2>1 DEF With, Recorded
    <3>2. m.id \in DOMAIN since' =>
            \E row \in tracks' : row.id = m.id /\ row.place = m.place /\ row.ts = m.ts
      BY <2>1 DEF TrackInv
    <3> QED BY <3>1, <3>2 DEF RecordedOK, MessageTimed
  <2>4. ASSUME NEW i \in DOMAIN last_pos, i # m.id PROVE RecordedOK(i)'
    <3>1. last_pos'[i] = last_pos[i]
      BY <2>1, <2>4 DEF With
    <3> QED BY <2>1, <2>4, <3>1 DEF TrackInv, RecordedOK
  <2> QED BY <2>1, <2>2, <2>3, <2>4
<1> QED BY <1>1, <1>2 DEF RecordPosition

DatabaseOK ==
  /\ DOMAIN since = DOMAIN entities /\ \A id \in DOMAIN since : since[id] \in Nat
  /\ \A id \in DOMAIN last_pos : RecordedOK(id)

(* Time may pass; nothing else that RecordedOK reads changes. *)
LEMMA DatabaseKept ==
  ASSUME TrackInv, UNCHANGED <<databaseVars, since>>, now' \in Nat, now <= now'
  PROVE  DatabaseOK'
BY DEF TrackInv, DatabaseOK, RecordedOK, databaseVars

(* A label in place of a name leaves the time of the message alone. *)
LEMMA InjectTimed ==
  ASSUME TrackInv, NEW w \in Workers, Inject(w)
  PROVE  MessageTimed(msg'[w])
<1> DEFINE known == LookupName(msg[w].id)
<1>1. MessageTimed(msg[w])
  BY DEF Inject, Go, TrackInv
<1>2. CASE msg' = msg
  BY <1>1, <1>2
<1>3. CASE msg' = [msg EXCEPT ![w].callsign = known]
  <2>1. msg'[w] = [msg[w] EXCEPT !.callsign = known]
    BY <1>3 DEF TrackInv
  <2> QED BY <1>1, <2>1 DEF MessageTimed
<1>4. CASE msg' = [msg EXCEPT ![w].name = known]
  <2>1. msg'[w] = [msg[w] EXCEPT !.name = known]
    BY <1>4 DEF TrackInv
  <2> QED BY <1>1, <2>1 DEF MessageTimed
<1> QED BY <1>2, <1>3, <1>4 DEF Inject

\* What a step of the callback of w does to where the workers stand.
CallbackMoves(w) ==
  /\ at[w] # "idle" /\ DOMAIN at' = Workers /\ DOMAIN msg' = Workers
  /\ \A v \in Workers : v # w => at'[v] = at[v] /\ msg'[v] = msg[v]
  /\ at'[w] # "idle" => MessageTimed(msg'[w])
  /\ UNCHANGED <<now, restarts>>

LEMMA GoMoves ==
  ASSUME TrackInv, NEW w \in Workers, NEW from, NEW to, from # "idle", GoOrEnd(w, from, to),
         UNCHANGED <<now, restarts>>
  PROVE  CallbackMoves(w)
<1>1. at[w] = from /\ at' = [at EXCEPT ![w] = to] /\ MessageTimed(msg[w])
  BY DEF GoOrEnd, Go, TrackInv
<1>2. CASE to = "idle"
  BY <1>1, <1>2 DEF GoOrEnd, TrackInv, CallbackMoves
<1>3. CASE to # "idle"
  <2>1. msg' = msg
    BY <1>3 DEF GoOrEnd
  <2> QED BY <1>1, <1>3, <2>1 DEF TrackInv, CallbackMoves
<1> QED BY <1>2, <1>3

LEMMA CallbackTracks ==
  ASSUME TrackInv, NEW w \in Workers, Callback(w)
  PROVE  CallbackMoves(w) /\ DatabaseOK'
<1> USE DEF TrackInv
<1>1. CASE Learn(w)
  <2>1. UNCHANGED <<now, restarts, msg>> /\ \E to \in {"label", "record"} : Go(w, "learn", to)
    BY <1>1 DEF Learn
  <2>2. CallbackMoves(w)
    BY <2>1 DEF Go, CallbackMoves
  <2>3. CASE UNCHANGED <<databaseVars, historyVars>>
    BY <2>1, <2>2, <2>3, DatabaseKept DEF historyVars
  <2>4. CASE \E kind, name, callsign : Learned(msg[w].id, kind, name, callsign)
    BY <2>1, <2>2, <2>4, LearnedTracks DEF DatabaseOK
  <2> QED BY <1>1, <2>3, <2>4 DEF Learn
<1>2. CASE SetLabel(w)
  <2>1. CallbackMoves(w)
    BY <1>2 DEF SetLabel, Go, CallbackMoves
  <2> QED BY <1>2, <2>1, DatabaseKept DEF SetLabel, historyVars
<1>3. CASE Record(w)
  <2>1. CallbackMoves(w) /\ MessageTimed(msg[w]) /\ UNCHANGED <<now, since>>
    BY <1>3 DEF Record, Go, CallbackMoves, historyVars
  <2>2. CASE UNCHANGED databaseVars
    BY <2>1, <2>2, DatabaseKept
  <2>3. CASE RecordPosition(msg[w].id, msg[w].ts, msg[w].place, msg[w].sog)
    <3>1. entities' = entities /\ \A i \in DOMAIN last_pos' : RecordedOK(i)'
      BY <2>1, <2>3, RecordTracks
    <3> QED BY <2>1, <3>1 DEF DatabaseOK
  <2> QED BY <1>3, <2>2, <2>3 DEF Record
<1>4. CASE Inject(w)
  <2>1. MessageTimed(msg'[w])
    BY <1>4, InjectTimed
  <2>2. DOMAIN msg' = Workers /\ \A v \in Workers : v # w => msg'[v] = msg[v]
    BY <1>4, InjectChanges
  <2>3. CallbackMoves(w)
    BY <1>4, <2>1, <2>2 DEF Inject, Go, CallbackMoves
  <2>4. UNCHANGED <<databaseVars, since, now>>
    BY <1>4 DEF Inject, historyVars
  <2> QED BY <2>3, <2>4, DatabaseKept
<1>5. CASE Update(w)
  <2>1. \E to : GoOrEnd(w, "update", to)
    BY <1>5 DEF Update
  <2>2. UNCHANGED <<now, restarts, databaseVars, since>>
    BY <1>5 DEF Update, historyVars
  <2> QED BY <2>1, <2>2, GoMoves, DatabaseKept
<1>6. CASE UpdateNames(w)
  <2>1. \E to : GoOrEnd(w, "upsert", to)
    BY <1>6 DEF UpdateNames
  <2>2. UNCHANGED <<now, restarts>> /\ \E kind, name, callsign : Learned(msg[w].id, kind, name, callsign)
    BY <1>6 DEF UpdateNames
  <2>3. DatabaseOK'
    BY <2>2, LearnedTracks DEF DatabaseOK
  <2> QED BY <2>1, <2>2, <2>3, GoMoves
<1>7. CASE UpdatePosition(w)
  <2>1. GoOrEnd(w, "position", "idle") /\ UNCHANGED <<now, restarts, since>>
        /\ \E sog : RecordPosition(msg[w].id, msg[w].ts, msg[w].place, sog)
    BY <1>7 DEF UpdatePosition, historyVars
  <2>2. MessageTimed(msg[w])
    BY <2>1 DEF GoOrEnd, Go
  <2>3. entities' = entities /\ \A i \in DOMAIN last_pos' : RecordedOK(i)'
    BY <2>1, <2>2, RecordTracks
  <2> QED BY <2>1, <2>3, GoMoves DEF DatabaseOK
<1> QED BY <1>1, <1>2, <1>3, <1>4, <1>5, <1>6, <1>7 DEF Callback

(* Steps that leave the callbacks and the database alone. *)
LEMMA OtherTracks ==
  ASSUME TrackInv, UNCHANGED <<databaseVars, historyVars, at, msg, restarts>>, now' \in Nat, now <= now'
  PROVE  TrackInv'
<1>1. DatabaseOK'
  BY DatabaseKept DEF historyVars
<1>2. \A w \in Workers : at'[w] # "idle" => MessageTimed(msg[w])'
  BY DEF TrackInv, MessageTimed
<1> QED BY <1>1, <1>2 DEF TrackInv, DatabaseOK

LEMMA TrackStep == TrackInv /\ [Next]_vars => TrackInv'
<1> SUFFICES ASSUME TrackInv, [Next]_vars PROVE TrackInv'
  OBVIOUS
<1>1. ASSUME NEW w \in Workers, Callback(w) PROVE TrackInv'
  <2>1. CallbackMoves(w) /\ DatabaseOK'
    BY <1>1, CallbackTracks
  <2>2. \A v \in Workers : at'[v] # "idle" => MessageTimed(msg[v])'
    BY <2>1 DEF CallbackMoves, TrackInv, MessageTimed
  <2> QED BY <2>1, <2>2 DEF CallbackMoves, TrackInv, DatabaseOK
<1>2. ASSUME NEW w \in Workers, NEW i \in Inputs, Receive(w, i) PROVE TrackInv'
  <2>1. UNCHANGED <<databaseVars, since, now, restarts>> /\ at' = [at EXCEPT ![w] = "learn"]
        /\ msg' = [msg EXCEPT ![w] = [i EXCEPT !.ts = now]]
    BY <1>2 DEF Receive, Go, historyVars
  <2>2. DatabaseOK'
    BY <2>1, DatabaseKept DEF TrackInv
  <2>3. MessageTimed([i EXCEPT !.ts = now])
    BY TargetsAssumption DEF MessageTimed, TrackInv
  <2>4. \A v \in Workers : at'[v] # "idle" => MessageTimed(msg[v])'
    BY <2>1, <2>3 DEF TrackInv, MessageTimed
  <2> QED BY <2>1, <2>2, <2>4 DEF TrackInv, DatabaseOK
<1>3. ASSUME NEW c \in Clients,
             Subscribe(c) \/ Cancel(c) \/ TakeSnapshot(c) \/ WriteOk(c) \/ WriteFails(c)
      PROVE  TrackInv'
  <2>1. UNCHANGED <<databaseVars, historyVars, at, msg, restarts, now>>
    BY <1>3 DEF Subscribe, Cancel, TakeSnapshot, WriteOk, WriteFails, workerVars
  <2> QED BY <2>1, OtherTracks DEF TrackInv
<1>4. CASE ClearNameDatabase
  <2>1. /\ UNCHANGED <<tracks, last_pos, now, restarts, at, msg>>
        /\ entities' = IF tracks = {} THEN <<>> ELSE entities
        /\ since' = IF entities' = <<>> THEN <<>> ELSE since
    BY <1>4 DEF ClearNameDatabase, ClearEntities, workerVars
  <2>2. CASE entities' = <<>>
    <3>1. DOMAIN since' = DOMAIN entities' /\ DOMAIN since' = {}
      BY <2>1, <2>2
    <3> QED BY <2>1, <3>1 DEF TrackInv, RecordedOK, MessageTimed
  <2>3. CASE entities' # <<>>
    BY <2>1, <2>3 DEF TrackInv, RecordedOK, MessageTimed
  <2> QED BY <2>2, <2>3
<1>5. CASE Restart
  <2>1. /\ DOMAIN last_pos' = {} /\ UNCHANGED <<entities, since, now>> /\ restarts' \in Nat
        /\ at' = [w \in Workers |-> "idle"] /\ msg' = [w \in Workers |-> NoMessage]
    BY <1>5 DEF Restart, OpenDatabase, TrackInv
  <2> QED BY <2>1 DEF TrackInv
<1>6. CASE Tick
  BY <1>6, OtherTracks DEF Tick, workerVars, TrackInv
<1>7. CASE UNCHANGED vars
  BY <1>7, OtherTracks DEF vars, workerVars, TrackInv
<1> QED BY <1>1, <1>2, <1>3, <1>4, <1>5, <1>6, <1>7 DEF Next

(* When Update records the position, either a row is inserted or the last one is recent. *)
LEMMA NewsStep ==
  ASSUME TrackInv, NEW w \in Workers, UpdatePosition(w)
  PROVE  NewsKept(w)
<1> SUFFICES ASSUME msg[w].id \in DOMAIN since, since[msg[w].id] + MaxInterval <= msg[w].ts
             PROVE  \E row \in tracks' : /\ row.id = msg[w].id /\ row.place = msg[w].place
                                         /\ row.ts + MaxInterval > msg[w].ts
  BY DEF NewsKept
<1> DEFINE id == msg[w].id
           ts == msg[w].ts
           place == msg[w].place
<1>1. /\ ts \in 0 .. now /\ now \in Nat /\ MaxInterval \in Nat \ {0}
      /\ since[id] \in Nat /\ id \in DOMAIN entities
  BY DatabaseAssumption DEF UpdatePosition, GoOrEnd, Go, TrackInv, MessageTimed
<1>2. PICK sog : RecordPosition(id, ts, place, sog)
  BY DEF UpdatePosition
<1> HIDE DEF id, ts, place
<1>3. CASE ShouldRecord(id, ts, place, sog)
  <2>1. [id |-> id, ts |-> ts, place |-> place, sog |-> sog] \in tracks'
    BY <1>1, <1>2, <1>3 DEF RecordPosition
  <2> QED BY <1>1, <2>1 DEF id, ts, place
<1>4. CASE ~ShouldRecord(id, ts, place, sog)
  <2>1. tracks' = tracks /\ id \in DOMAIN last_pos /\ place = last_pos[id].place
        /\ ~(Age(ts, last_pos[id].ts) >= MaxInterval)
    BY <1>2, <1>4 DEF RecordPosition, ShouldRecord, databaseVars
  <2>2. last_pos[id].ts \in 0 .. now
    BY <2>1 DEF TrackInv, RecordedOK
  <2>3. last_pos[id].ts + MaxInterval > ts
    BY <1>1, <2>1, <2>2 DEF Age
  <2>4. since[id] < last_pos[id].ts
    BY <1>1, <2>2, <2>3 DEF id, ts
  <2>5. PICK row \in tracks : row.id = id /\ row.place = last_pos[id].place /\ row.ts = last_pos[id].ts
    BY <1>1, <2>1, <2>4 DEF TrackInv, RecordedOK
  <2> QED BY <2>1, <2>3, <2>5 DEF id, ts, place
<1> QED BY <1>3, <1>4

(* A callback ends with UpdatePosition when it ends at "position". *)
LEMMA NewsAction ==
  ASSUME TrackInv, [Next]_vars, NEW w \in Workers
  PROVE  NewsKept(w)
<1> SUFFICES ASSUME at[w] = "position", at'[w] = "idle", restarts' = restarts
             PROVE  NewsKept(w)
  BY DEF NewsKept
<1>1. ASSUME NEW v \in Workers, Callback(v) PROVE NewsKept(w)
  <2>1. v = w
    BY <1>1, CallbackTracks DEF CallbackMoves
  <2>2. UpdatePosition(w)
    BY <1>1, <2>1 DEF Callback, Learn, SetLabel, Record, Inject, Update, UpdateNames, GoOrEnd, Go
  <2> QED BY <2>2, NewsStep
<1>2. ASSUME NEW v \in Workers, NEW i \in Inputs, Receive(v, i) PROVE FALSE
  BY <1>2 DEF Receive, Go, TrackInv
<1>3. ~Restart
  BY DEF Restart, TrackInv
<1>4. at' # at
  OBVIOUS
<1>5. ASSUME NEW c \in Clients,
             Subscribe(c) \/ Cancel(c) \/ TakeSnapshot(c) \/ WriteOk(c) \/ WriteFails(c)
      PROVE  FALSE
  BY <1>4, <1>5 DEF Subscribe, Cancel, TakeSnapshot, WriteOk, WriteFails, workerVars
<1>6. ~ClearNameDatabase /\ ~Tick /\ ~(UNCHANGED vars)
  BY <1>4 DEF ClearNameDatabase, Tick, vars, workerVars
<1> QED BY <1>1, <1>2, <1>3, <1>5, <1>6 DEF Next

(***************************************************************************)
(* The delta compression of TrackDatabase::RecordPosition drops no news of *)
(* an entity that is known for kMaxIntervalMs or longer, although the      *)
(* position counts as recorded before its row is inserted.                 *)
(***************************************************************************)
THEOREM Tracks == Spec => TrackKept
<1>1. TrackInv /\ [Next]_vars => [\A w \in Workers : NewsKept(w)]_vars
  BY NewsAction
<1> QED BY <1>1, TrackInit, TrackStep, PTL DEF Spec, TrackKept
=============================================================================
