------------------------------- MODULE Targets -------------------------------
(***************************************************************************)
(* From a decoded message to the targets on a client's map: the callback   *)
(* that every receiver's ProcessLoop hands to its plugins (backend/src/    *)
(* receiver_worker.cpp 1451-1591) learns names, records positions, injects *)
(* the names it knows and updates the tracker; two streams (backend/src/   *)
(* grpc_services.cpp) poll the tracker, and their clients keep a map of    *)
(* markers (frontend/src/radar_map_widget.cpp).                            *)
(*                                                                         *)
(* The database and the tracker have a mutex each; a step is one critical  *)
(* section.  TargetTracker::Update calls the database with the tracker's   *)
(* mutex held: tracker_lock.  Publishing the message is EventBus.          *)
(***************************************************************************)
EXTENDS TargetTracker

CONSTANTS Workers,       \* threads that run the callback, one per receiver
          Clients,       \* subscribers of StreamRadarSnapshots, StreamPositions
          Inputs,        \* the messages the plugins emit; they get their time later
          Nobody,        \* holds the tracker's mutex when nobody does
          NoMessage,     \* the message of an idle callback
          ClockBound, MessageBound, RestartBound  \* bounds of the model

ASSUME TargetsAssumption ==
  /\ Nobody \notin Workers
  /\ ClockBound \in Nat /\ MessageBound \in Nat /\ RestartBound \in Nat
  /\ Inputs \subseteq [id : Ids, key : {"icao", "mmsi"}, signal : {"ADSB", "AIS", "AIR-SAR", "other"},
                       name : Texts \union {"absent"}, callsign : Texts \union {"absent"},
                       place : Places \union {NoPlace}, sog : Speeds \union {NoSpeed}, ts : {0}]

VARIABLES
  now,           \* the clock
  at,            \* at[w]: where the callback of w stands
  msg,           \* msg[w]: its message
  tracker_lock,  \* who holds the tracker's mutex over database calls
  stream,        \* stream[c]: where the stream handler of c stands
  snap,          \* snap[c]: the snapshot it writes
  markers,       \* markers[c]: the targets on the map of c
  received,      \* the messages so far
  restarts,      \* the restarts so far
  since,         \* history: when each row of entities was created
  cleared,       \* history: the ids not learned since the last ClearEntities
  missed         \* history: missed[c]: removals reported, but not to c

workerVars  == <<at, msg, tracker_lock, received>>
streamVars  == <<stream, snap, markers, missed>>
historyVars == <<since, cleared>>
vars == <<databaseVars, entries, now, workerVars, streamVars, restarts, historyVars>>

NoSnap == [shown |-> {}, removed |-> {}]

Init ==
  /\ InitDatabase /\ InitTracker
  /\ now = 0 /\ received = 0 /\ restarts = 0
  /\ at = [w \in Workers |-> "idle"]
  /\ msg = [w \in Workers |-> NoMessage]
  /\ tracker_lock = Nobody
  /\ stream = [c \in Clients |-> "off"]
  /\ snap = [c \in Clients |-> NoSnap]
  /\ markers = [c \in Clients |-> {}] /\ missed = [c \in Clients |-> {}]
  /\ since = [id \in DOMAIN entities |-> 0] /\ cleared = {}

-----------------------------------------------------------------------------
(* The callback *)

Go(w, from, to) == at[w] = from /\ at' = [at EXCEPT ![w] = to]

\* To the next step, or out of the callback.
GoOrEnd(w, from, to) ==
  /\ Go(w, from, to)
  /\ msg' = IF to = "idle" THEN [msg EXCEPT ![w] = NoMessage] ELSE msg

\* A message that allow_dsc_message lets through.
Receive(w, input) ==
  /\ received < MessageBound
  /\ received' = received + 1
  /\ Go(w, "idle", "learn")
  /\ msg' = [msg EXCEPT ![w] = [input EXCEPT !.ts = now]]
  /\ UNCHANGED <<databaseVars, entries, now, tracker_lock, streamVars, restarts, historyVars>>

\* An upsert of id, and its histories.
Learned(id, kind, name, callsign) ==
  /\ UpsertEntity(id, kind, name, callsign)
  /\ since' = IF id \in DOMAIN entities THEN since ELSE With(since, id, now)
  /\ cleared' = cleared \ {id}

\* Name learning.  An MMSI is taken for a vessel whatever the signal.
Learn(w) ==
  LET m == msg[w]
      name == Text(m.name)
      callsign == Text(m.callsign)
  IN  /\ at[w] = "learn"
      /\ IF m.key = "icao"
         THEN /\ Go(w, "learn", "record")
              /\ IF callsign # "" THEN Learned(m.id, "AIR", "", callsign)
                                  ELSE UNCHANGED <<databaseVars, historyVars>>
         ELSE IF name # "" \/ callsign # ""
         THEN Go(w, "learn", "label") /\ Learned(m.id, "SEA", name, callsign)
         ELSE Go(w, "learn", "record") /\ UNCHANGED <<databaseVars, historyVars>>
      /\ UNCHANGED <<entries, now, msg, tracker_lock, received, streamVars, restarts>>

\* target_tracker_->LearnLabel
SetLabel(w) ==
  /\ tracker_lock = Nobody
  /\ Go(w, "label", "record")
  /\ LearnLabel(msg[w].id, Or(Text(msg[w].name), Text(msg[w].callsign)))
  /\ UNCHANGED <<databaseVars, now, msg, tracker_lock, received, streamVars, restarts, historyVars>>

\* The position of an AIS or ADS-B message.
Record(w) ==
  LET m == msg[w]
  IN  /\ Go(w, "record", "inject")
      /\ IF Kind(m) # "" /\ m.place # NoPlace
         THEN RecordPosition(m.id, m.ts, m.place, m.sog)
         ELSE UNCHANGED databaseVars
      /\ UNCHANGED <<entries, now, msg, tracker_lock, received, streamVars, restarts, historyVars>>

\* The known label stands in for a callsign or a name that is not in the message.
Inject(w) ==
  LET m == msg[w]
      known == LookupName(m.id)
  IN  /\ Go(w, "inject", "update")
      /\ msg' = CASE known # "" /\ m.key = "icao" /\ m.callsign = "absent" ->
                       [msg EXCEPT ![w].callsign = known]
                  [] known # "" /\ m.key = "mmsi" /\ m.name = "absent" ->
                       [msg EXCEPT ![w].name = known]
                  [] OTHER -> msg
      /\ UNCHANGED <<databaseVars, entries, now, tracker_lock, received, streamVars, restarts, historyVars>>

\* TargetTracker::Update, up to its calls of the database.
Update(w) ==
  LET m == msg[w]
      next == IF Text(m.name) # "" \/ Text(m.callsign) # "" THEN "upsert"
              ELSE IF m.place # NoPlace THEN "position" ELSE "idle"
  IN  /\ at[w] = "update" /\ tracker_lock = Nobody
      /\ IF Kind(m) = "" THEN GoOrEnd(w, "update", "idle") /\ UNCHANGED <<entries, tracker_lock>>
         ELSE /\ GoOrEnd(w, "update", next)
              /\ MergeEntry(m)
              /\ tracker_lock' = IF next = "idle" THEN Nobody ELSE w
      /\ UNCHANGED <<databaseVars, now, received, streamVars, restarts, historyVars>>

\* Update upserts the names of the message, those injected included.
UpdateNames(w) ==
  LET m == msg[w]
      next == IF m.place # NoPlace THEN "position" ELSE "idle"
  IN  /\ GoOrEnd(w, "upsert", next)
      /\ Learned(m.id, Kind(m), Text(m.name), Text(m.callsign))
      /\ tracker_lock' = IF next = "idle" THEN Nobody ELSE w
      /\ UNCHANGED <<entries, now, received, streamVars, restarts>>

\* Update records the position a second time, with the speed of the entry.
UpdatePosition(w) ==
  LET m == msg[w]
      sog == entries[m.id].sog
  IN  /\ GoOrEnd(w, "position", "idle")
      /\ RecordPosition(m.id, m.ts, m.place, IF sog > 0 THEN sog ELSE NoSpeed)
      /\ tracker_lock' = Nobody
      /\ UNCHANGED <<entries, now, received, streamVars, restarts, historyVars>>

Callback(w) ==
  \/ Learn(w) \/ SetLabel(w) \/ Record(w) \/ Inject(w)
  \/ Update(w) \/ UpdateNames(w) \/ UpdatePosition(w)

-----------------------------------------------------------------------------
(* The streams *)

Subscribe(c) ==
  /\ stream[c] = "off" /\ stream' = [stream EXCEPT ![c] = "sleep"]
  /\ UNCHANGED <<databaseVars, entries, now, workerVars, snap, markers, missed, restarts, historyVars>>

Cancel(c) ==
  /\ stream[c] = "sleep" /\ stream' = [stream EXCEPT ![c] = "off"]
  /\ UNCHANGED <<databaseVars, entries, now, workerVars, snap, markers, missed, restarts, historyVars>>

\* TakeSnapshot: c is told what is removed, and nobody else.
TakeSnapshot(c) ==
  /\ stream[c] = "sleep" /\ tracker_lock = Nobody
  /\ EraseStale(now)
  /\ snap' = [snap EXCEPT ![c] = [shown |-> Shown(now), removed |-> Removed(now)]]
  /\ missed' = [d \in Clients |-> IF d = c THEN missed[d] \ Shown(now) ELSE missed[d] \union Removed(now)]
  /\ stream' = [stream EXCEPT ![c] = "write"]
  /\ UNCHANGED <<databaseVars, now, workerVars, markers, restarts, historyVars>>

\* Mutant: the client leaves the removed targets on its map.
MutantApplySnapshot(map, s) == map \union s.shown

\* What a snapshot does to the map.
ApplySnapshot(map, s) == (map \ s.removed) \union s.shown

WriteOk(c) ==
  /\ stream[c] = "write" /\ stream' = [stream EXCEPT ![c] = "sleep"]
  /\ markers' = [markers EXCEPT ![c] = ApplySnapshot(@, snap[c])]
  /\ snap' = [snap EXCEPT ![c] = NoSnap]
  /\ UNCHANGED <<databaseVars, entries, now, workerVars, missed, restarts, historyVars>>

\* The client is gone, and the snapshot with it.
WriteFails(c) ==
  /\ stream[c] = "write" /\ stream' = [stream EXCEPT ![c] = "off"]
  /\ missed' = [missed EXCEPT ![c] = @ \union snap[c].removed]
  /\ snap' = [snap EXCEPT ![c] = NoSnap]
  /\ UNCHANGED <<databaseVars, entries, now, workerVars, markers, restarts, historyVars>>

-----------------------------------------------------------------------------
\* ControlService.ClearNameDatabase
ClearNameDatabase ==
  /\ ClearEntities
  /\ cleared' = Ids
  /\ since' = IF entities' = <<>> THEN <<>> ELSE since
  /\ UNCHANGED <<entries, now, workerVars, streamVars, restarts>>

\* The server ends, anywhere, and is started again; its clients keep their maps.
Restart ==
  /\ restarts < RestartBound /\ restarts' = restarts + 1
  /\ OpenDatabase
  /\ entries' = <<>>
  /\ at' = [w \in Workers |-> "idle"] /\ msg' = [w \in Workers |-> NoMessage]
  /\ tracker_lock' = Nobody
  /\ stream' = [c \in Clients |-> "off"] /\ snap' = [c \in Clients |-> NoSnap]
  /\ missed' = [c \in Clients |-> missed[c] \union markers[c]]
  /\ cleared' = {}
  /\ UNCHANGED <<now, received, markers, since>>

Tick ==
  /\ now < ClockBound /\ now' = now + 1
  /\ UNCHANGED <<databaseVars, entries, workerVars, streamVars, restarts, historyVars>>

Next ==
  \/ \E w \in Workers : Callback(w) \/ \E i \in Inputs : Receive(w, i)
  \/ \E c \in Clients : Subscribe(c) \/ Cancel(c) \/ TakeSnapshot(c) \/ WriteOk(c) \/ WriteFails(c)
  \/ ClearNameDatabase \/ Restart \/ Tick

Spec == Init /\ [][Next]_vars

-----------------------------------------------------------------------------
At == {"idle", "learn", "label", "record", "inject", "update", "upsert", "position"}

TypeOK ==
  /\ DatabaseTypeOK /\ TrackerTypeOK
  /\ now \in 0 .. ClockBound
  /\ \A w \in Workers :
       /\ at[w] \in At
       /\ at[w] = "idle" <=> msg[w] = NoMessage
       /\ at[w] # "idle" => \E i \in Inputs : msg[w].id = i.id /\ msg[w].place = i.place
  /\ tracker_lock # Nobody => at[tracker_lock] \in {"upsert", "position"}
  /\ \A c \in Clients : stream[c] \in {"off", "sleep", "write"} /\ markers[c] \subseteq Ids
  /\ received \in 0 .. MessageBound /\ restarts \in 0 .. RestartBound
  /\ DOMAIN since = DOMAIN entities

\* A name or a callsign, once stored, is found by every lookup, before and
\* after a restart, and nothing else is: the cache and the table agree on what
\* is known, unless the names were cleared and not learned again.
LookupsMatchRows ==
  \A id \in Ids \ cleared :
    LookupName(id) # "" <=> id \in DOMAIN entities /\ (entities[id].name # "" \/ entities[id].callsign # "")

\* When the callback of w is done with a position of an entity that is known
\* for MaxInterval or longer, the tracks have a row of that place that is less
\* than MaxInterval older.
NewsKept(w) ==
  at[w] = "position" /\ at'[w] = "idle" /\ restarts' = restarts
    /\ msg[w].id \in DOMAIN since /\ since[msg[w].id] + MaxInterval <= msg[w].ts
  => \E row \in tracks' :
       row.id = msg[w].id /\ row.place = msg[w].place /\ row.ts + MaxInterval > msg[w].ts

\* The delta compression drops no news: when the callback is done with a
\* position of an entity that is known for MaxInterval or longer, the tracks
\* hold a row of that place that is less than MaxInterval older.  The time is
\* there because the first position of an entity without a row is rejected
\* by the foreign key and yet counts as recorded (track_database.cpp 272-300).
TrackKept == [][\A w \in Workers : NewsKept(w)]_vars

\* A marker on a client's map whose target is gone was reported as removed in
\* a snapshot that did not reach this client (another client took it, the
\* write failed, the server was restarted) or in the one on its way to it.
GhostsWereLost ==
  \A c \in Clients :
    markers[c] \ DOMAIN entries \subseteq missed[c] \union snap[c].removed

\* "AIS (SEA) prefers vessel name" (track_database.cpp 212): the name of a
\* vessel does not give way to its callsign.  It does not hold: the cached
\* label of a message that has the callsign only (type 24, part B) is that
\* callsign; it is injected as the name and stored as the name.
NameKept ==
  [][\A id \in DOMAIN entities \intersect DOMAIN entities' :
       entities[id].name \in ShipNames => entities'[id].name \in ShipNames]_vars
=============================================================================
