---------------------------- MODULE WeatherUpdates ----------------------------
(***************************************************************************)
(* The weather shown beside the map: a worker thread fetches an observation*)
(* and a forecast every hour and tells the window what it got              *)
(* (frontend/src/weather_worker.cpp, main_window.cpp).                     *)
(*                                                                         *)
(* Everything of the worker runs in its thread, one slot at a time: the    *)
(* timer, and for each reply `finished`, with `errorOccurred` before it if *)
(* the request failed.  A reply may come hours late (no transfer timeout is*)
(* set), so the timer can find requests on their way.  The signals to the  *)
(* window are queued in order, so what it shows follows them.              *)
(*                                                                         *)
(* A payload is the number of the fetch it answers.                        *)
(***************************************************************************)
EXTENDS Naturals

CONSTANTS HourBound   \* how often the timer fires

ASSUME WeatherAssumption == HourBound \in Nat

VARIABLES
  fetcher,   \* the members of WeatherWorker: flight, pending, payload; and fetches
  replies,   \* the replies on their way
  panel,     \* the table and the label of the window
  hours,     \* how often the timer fired
  answered,  \* history: the parts that came, with the fetch they belong to
  overlap    \* history: a fetch began between the two signals of a failed request

weatherVars == <<fetcher, replies, panel, hours, answered, overlap>>

Parts == {"observation", "forecast"}
Nothing == 0

\* `failed`: errorOccurred was emitted, finished was not.
Reply(part, fetch, failed) == [part |-> part, fetch |-> fetch, failed |-> failed]

WeatherInit ==
  /\ fetcher = [flight |-> {}, pending |-> FALSE,
                payload |-> [p \in Parts |-> Nothing], fetches |-> 0]
  /\ replies = {}
  /\ panel = [table |-> [p \in Parts |-> Nothing], label |-> "none"]
  /\ hours = 0 /\ answered = {} /\ overlap = FALSE

-----------------------------------------------------------------------------

\* Mutant: only the observation counts.
MutantBusy(f) == "observation" \in f.flight

Busy(f) == f.flight # {}

\* BeginFetch, with the replies that are on their way.
BeginFetch(f, rest) ==
  IF Busy(f)
  THEN /\ fetcher' = [f EXCEPT !.pending = TRUE]
       /\ replies' = rest /\ UNCHANGED overlap
  ELSE LET n == f.fetches + 1
       IN  /\ fetcher' = [f EXCEPT !.flight = Parts, !.fetches = n,
                                   !.payload = [p \in Parts |-> Nothing]]
           /\ replies' = rest \union {Reply(p, n, FALSE) : p \in Parts}
           /\ overlap' = (overlap \/ \E r \in rest : r.failed)

PopulateWeatherWidget(payload) ==
  [table |-> payload,
   label |-> IF payload["observation"] = Nothing THEN "weather" ELSE "time"]

\* FinishIfReady.  `label` is what an error put there.
FinishIfReady(f, rest, label) ==
  IF f.flight # {}
  THEN /\ fetcher' = f /\ replies' = rest /\ UNCHANGED overlap
       /\ panel' = [panel EXCEPT !.label = label]
  ELSE /\ panel' = PopulateWeatherWidget(f.payload)
       /\ IF f.pending THEN BeginFetch([f EXCEPT !.pending = FALSE], rest)
          ELSE fetcher' = f /\ replies' = rest /\ UNCHANGED overlap

\* The thread starts: the first fetch.
Started == fetcher.fetches > 0

StartHourlyUpdates ==
  /\ ~Started
  /\ BeginFetch(fetcher, replies)
  /\ UNCHANGED <<panel, hours, answered>>

HandleTimer ==
  /\ Started /\ hours < HourBound
  /\ hours' = hours + 1
  /\ BeginFetch(fetcher, replies)
  /\ UNCHANGED <<panel, answered>>

Landed(part) == [fetcher EXCEPT !.flight = @ \ {part}]

\* HandleObservationReply, HandleForecastReply, for an answer: it may hold no
\* series that can be read, which is shown like none.
ReplyComes(r) ==
  /\ ~r.failed
  /\ \E payload \in {r.fetch, Nothing} :
       /\ FinishIfReady([Landed(r.part) EXCEPT !.payload[r.part] = payload], replies \ {r}, panel.label)
       /\ answered' = IF payload = Nothing THEN answered ELSE answered \union {<<r.part, r.fetch>>}
  /\ UNCHANGED hours

\* errorOccurred, for a request that failed.
ErrorOccurred(r) ==
  /\ ~r.failed
  /\ FinishIfReady(Landed(r.part), (replies \ {r}) \union {Reply(r.part, r.fetch, TRUE)}, "unavailable")
  /\ UNCHANGED <<hours, answered>>

\* And the same slot as for an answer: it clears the flag once more.
FailedFinished(r) ==
  /\ r.failed
  /\ FinishIfReady(Landed(r.part), replies \ {r}, panel.label)
  /\ UNCHANGED <<hours, answered>>

WeatherNext ==
  \/ StartHourlyUpdates \/ HandleTimer
  \/ \E r \in replies : ReplyComes(r) \/ ErrorOccurred(r) \/ FailedFinished(r)

WeatherSpec == WeatherInit /\ [][WeatherNext]_weatherVars

-----------------------------------------------------------------------------

\* The table shows parts of one fetch; and when no reply is on its way, exactly
\* those the last fetch got, with no flag left that would stop the next.  (Not
\* once a fetch began between errorOccurred and finished of a request of the
\* one before, which clears a flag of the new one.)
WeatherShown ==
  overlap \/
  /\ \A p, q \in Parts : panel.table[p] # Nothing /\ panel.table[q] # Nothing
                           => panel.table[p] = panel.table[q]
  /\ Started /\ replies = {} =>
       /\ fetcher.flight = {} /\ ~fetcher.pending
       /\ \A p \in Parts : panel.table[p] =
            IF <<p, fetcher.fetches>> \in answered THEN fetcher.fetches ELSE Nothing
=============================================================================
