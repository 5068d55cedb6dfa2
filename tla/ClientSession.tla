---------------------------- MODULE ClientSession ----------------------------
(***************************************************************************)
(* The control panel of the graphical client and the server it steers:     *)
(* MainWindow's buttons, tabs and widgets (frontend/src/main_window.cpp),  *)
(* the unary calls of GrpcClient (frontend/src/grpc_client.cpp) and their  *)
(* handlers (backend/src/grpc_services.cpp, receiver_worker.cpp).          *)
(*                                                                         *)
(* A press of the user is a short program of unary calls, made one after   *)
(* the other by the user-interface thread.  A call has a deadline of two   *)
(* seconds.  When it passes, the client goes on, but the handler in the    *)
(* server does not know: it may still be waiting for a lock, and run after *)
(* calls the client made later.                                            *)
(*                                                                         *)
(* The settings are the tab they are made for and two values: `radio`, the *)
(* widgets a refresh loads from the server (demodulator, bandwidth, GMSK   *)
(* and VDES parameters), and the frequency correction in ppm.              *)
(***************************************************************************)
EXTENDS Naturals, Sequences, FiniteSets

CONSTANTS Receivers,      \* what ListReceivers returns
          FirstReceiver,  \* the first of the list, which the combo box selects
          NoReceiver,     \* nothing in the combo box
          Unknown,        \* the client cannot tell what the server holds
          Values,         \* values of a setting
          Default,        \* what a widget shows before a refresh
          VisitedTabs,    \* bound on the tabs the user opens
          PressBound      \* bound on what the user does

ModeTabs == {"fixed", "range", "list", "radar"}
Tabs     == ModeTabs \union {"global", "log"}
Steps    == {"mode", "config", "start", "stop", "list", "get_ppm", "set_ppm"}

ASSUME SessionAssumption ==
  /\ FirstReceiver \in Receivers
  /\ NoReceiver \notin Receivers
  /\ Default \in Values
  /\ VisitedTabs \subseteq Tabs
  /\ PressBound \in Nat

VARIABLES
  selected,    \* the receiver of receiver_combo_
  tab,         \* the tab in front
  last_mode_tab,
  radio,       \* the widgets a refresh loads
  spin,        \* ppm_correction_spin_
  program,     \* the calls the press under way has still to make
  pending,     \* the number of the call the client waits for, 0 for none
  presses,     \* the number of presses, the window's first refresh among them
  requests,       \* the calls in the server
  started, mode, conf,   \* the receivers: running_, mode_, mode_config_
  file_ppm,    \* hardware.conf
  cache_ppm,   \* HardwareConfigCache
  confirmed,   \* history: the settings the client was told a receiver holds
  overtaken,   \* history: receivers an abandoned call changed since the last apply
  hw_overlap   \* history: two SetHardwareConfig ran at the same time

panelVars  == <<selected, tab, last_mode_tab, radio, spin>>
clientVars == <<program, pending, presses>>
serverVars == <<started, mode, conf, file_ppm, cache_ppm>>
ghostVars  == <<confirmed, overtaken, hw_overlap>>
sessionVars == <<panelVars, clientVars, requests, serverVars, ghostVars>>

Settings == [tab : Tabs, radio : Values, ppm : Values]

\* What ModeFromTabIndex makes of a tab: the radar view is a scan list of its own.
ModeOf(t) == CASE t = "range" -> "range"
               [] t \in {"list", "radar"} -> "list"
               [] OTHER -> "fixed"

\* The global tab applies the mode tab seen last; the log tab applies itself.
AppliedTab == IF tab = "global" THEN last_mode_tab ELSE tab

\* The ModeConfig that ApplyModeAndConfigForReceiver builds from the panel.
Panel == [tab |-> AppliedTab, radio |-> radio, ppm |-> spin]

SessionTypeOK ==
  /\ selected \in Receivers \union {NoReceiver}
  /\ tab \in Tabs /\ last_mode_tab \in ModeTabs
  /\ radio \in Values /\ spin \in Values
  /\ program \in Seq(Steps)
  /\ \A c \in requests : /\ c.step \in Steps
                         /\ c.stage \in {"sent", "file", "cache", "done"}
                         /\ c.late <=> c.number # pending
  /\ pending # 0 => \E c \in requests : c.number = pending /\ ~c.late
  /\ started \in [Receivers -> BOOLEAN]
  /\ mode \in [Receivers -> {"fixed", "range", "list"}]
  /\ conf \in [Receivers -> Settings]
  /\ file_ppm \in Values /\ cache_ppm \in Values
  /\ confirmed \in [Receivers -> Settings \union {Unknown}]
  /\ overtaken \subseteq Receivers /\ hw_overlap \in BOOLEAN

SessionInit ==
  /\ selected = NoReceiver
  /\ tab = "fixed" /\ last_mode_tab = "fixed"
  /\ radio = Default /\ spin = Default
  /\ program = <<>> /\ pending = 0 /\ presses = 0
  /\ requests = {}
  /\ started = [r \in Receivers |-> FALSE]
  /\ mode = [r \in Receivers |-> "fixed"]
  /\ file_ppm \in Values /\ cache_ppm = file_ppm
  /\ \E v \in Values : conf = [r \in Receivers |-> [tab |-> "fixed", radio |-> v, ppm |-> file_ppm]]
  /\ confirmed = [r \in Receivers |-> Unknown]
  /\ overtaken = {} /\ hw_overlap = FALSE

-----------------------------------------------------------------------------
(* What the user does: each press is a program of calls *)

RefreshSteps == <<"get_ppm", "list">>
ApplySteps   == <<"mode", "config">>

\* Mutant: Start does not send the settings first.
MutantStartAlone == <<"start">> \o RefreshSteps

\* StartSelectedReceiver: the settings in front are sent before the start.
StartSteps == <<"mode", "config", "start", "get_ppm", "list">>
StopSteps  == <<"stop", "get_ppm", "list">>
TabSteps   == <<"stop", "get_ppm", "list", "mode", "config">>
SpinSteps  == <<"set_ppm", "mode", "config">>

\* The user acts when the thread is idle.
Press(steps) ==
  /\ program = <<>> /\ pending = 0 /\ presses \in 1 .. PressBound
  /\ presses' = presses + 1 /\ program' = steps
  /\ UNCHANGED <<pending, requests, serverVars, ghostVars>>

\* The refresh the constructor queues: nothing can be pressed before it.
OpenWindow ==
  /\ presses = 0 /\ presses' = 1
  /\ program' = RefreshSteps
  /\ UNCHANGED <<panelVars, pending, requests, serverVars, ghostVars>>

PressRefresh == Press(RefreshSteps) /\ UNCHANGED panelVars
PressApply   == selected # NoReceiver /\ Press(ApplySteps) /\ UNCHANGED panelVars
PressStart   == selected # NoReceiver /\ Press(StartSteps) /\ UNCHANGED panelVars
PressStop    == selected # NoReceiver /\ Press(StopSteps) /\ UNCHANGED panelVars

\* The demodulator combo box only changes the panel.
SelectModulation ==
  /\ \E v \in Values \ {radio} : radio' = v
  /\ Press(<<>>)
  /\ UNCHANGED <<selected, tab, last_mode_tab, spin>>

\* The other widgets apply what they show at once (apply_on_spin, apply_on_toggle).
EditSetting ==
  /\ \E v \in Values \ {radio} : radio' = v
  /\ selected # NoReceiver /\ Press(ApplySteps)
  /\ UNCHANGED <<selected, tab, last_mode_tab, spin>>

\* Without a receiver the correction is sent all the same, but nothing applied.
SpinPpm ==
  /\ \E v \in Values \ {spin} : spin' = v
  /\ Press(IF selected = NoReceiver THEN <<"set_ppm">> ELSE SpinSteps)
  /\ UNCHANGED <<selected, tab, last_mode_tab, radio>>

\* Another receiver is selected: nothing is sent, and nothing is loaded.
SelectReceiver ==
  /\ selected # NoReceiver
  /\ \E r \in Receivers \ {selected} : selected' = r
  /\ Press(<<>>)
  /\ UNCHANGED <<tab, last_mode_tab, radio, spin>>

\* currentChanged of the tabs: stop, refresh and apply, but not into the log.
ChangeTab(t) ==
  /\ t # tab
  /\ tab' = t
  /\ last_mode_tab' = IF t \in ModeTabs THEN t ELSE last_mode_tab
  /\ Press(IF t = "log" \/ selected = NoReceiver THEN <<>> ELSE TabSteps)
  /\ UNCHANGED <<selected, radio, spin>>

-----------------------------------------------------------------------------
(* The unary calls, seen from the client *)

Argument(step) == CASE step = "mode" -> ModeOf(AppliedTab)
                    [] step = "config" -> Panel
                    [] step = "set_ppm" -> spin
                    [] OTHER -> "none"

\* A number no call in the server has: it only tells the calls apart.
FreeNumber == CHOOSE n \in 1..(Cardinality(requests) + 1) : \A c \in requests : c.number # n

\* A new apply starts the account of its receiver afresh.
Send ==
  /\ program # <<>> /\ pending = 0
  /\ pending' = FreeNumber
  /\ program' = Tail(program)
  /\ requests' = requests \union
       {[number |-> FreeNumber, step |-> Head(program), on |-> selected, late |-> FALSE,
         arg |-> Argument(Head(program)), stage |-> "sent", ok |-> TRUE, answer |-> "none"]}
  /\ IF Head(program) = "mode"
     THEN /\ confirmed' = [confirmed EXCEPT ![selected] = Unknown]
          /\ overtaken' = overtaken \ {selected}
     ELSE UNCHANGED <<confirmed, overtaken>>
  /\ UNCHANGED <<panelVars, presses, serverVars, hw_overlap>>

\* Mutant: a failed SetMode or SetModeConfig does not end the press.
MutantGoOn(step) == program

\* What a call that failed leaves of the program: a refresh and the ppm box
\* only report it, the others return.
AfterFailure(step) == IF step \in {"get_ppm", "list", "set_ppm"} THEN program ELSE <<>>

\* The lists are filled again: the selection is kept, and the first receiver
\* of a list that was empty is selected.
Reselected == IF selected = NoReceiver THEN FirstReceiver ELSE selected

\* A refresh loads what the server holds into the widgets.
LoadPanel(answer) ==
  /\ selected' = Reselected
  /\ radio' = answer[selected'].radio
  /\ UNCHANGED <<tab, last_mode_tab, spin>>

Reply(c) ==
  /\ c.number = pending /\ c.stage = "done"
  /\ pending' = 0 /\ requests' = requests \ {c}
  /\ program' = IF c.ok THEN program ELSE AfterFailure(c.step)
  /\ CASE c.ok /\ c.step = "list" -> LoadPanel(c.answer)
       [] c.ok /\ c.step = "get_ppm" -> spin' = c.answer /\ UNCHANGED <<selected, tab, last_mode_tab, radio>>
       [] OTHER -> UNCHANGED panelVars
  /\ confirmed' = IF c.ok /\ c.step = "config"
                  THEN [confirmed EXCEPT ![c.on] = c.arg] ELSE confirmed
  /\ UNCHANGED <<presses, serverVars, overtaken, hw_overlap>>

\* Mutant: no deadline is set, the client waits for the server.
MutantNoDeadline(c) == FALSE /\ UNCHANGED sessionVars

\* kUnaryRpcTimeout passes, or the answer is lost: the handler is not told.
GiveUp(c) ==
  /\ c.number = pending
  /\ pending' = 0
  /\ requests' = (requests \ {c}) \union IF c.stage = "done" THEN {} ELSE {[c EXCEPT !.late = TRUE]}
  /\ program' = AfterFailure(c.step)
  /\ UNCHANGED <<panelVars, presses, serverVars, ghostVars>>

\* The server cannot be reached: the call fails and no handler sees it.
Unreachable(c) ==
  /\ c.number = pending /\ c.stage = "sent"
  /\ pending' = 0 /\ requests' = requests \ {c}
  /\ program' = AfterFailure(c.step)
  /\ UNCHANGED <<panelVars, presses, serverVars, ghostVars>>

-----------------------------------------------------------------------------
(* The handlers *)

\* A handler of the server has run: its answer waits for the client, unless
\* the client has gone on.
Answered(c, ok, answer) ==
  requests' = (requests \ {c}) \union
           IF c.late THEN {} ELSE {[c EXCEPT !.stage = "done", !.ok = ok, !.answer = answer]}

Overtakes(c, rs) == overtaken' = IF c.late THEN overtaken \union rs ELSE overtaken

Handle(c, step) == c.step = step /\ c.stage = "sent"

ServeMode(c) ==
  /\ Handle(c, "mode")
  /\ mode' = [mode EXCEPT ![c.on] = c.arg]
  /\ Answered(c, TRUE, "none") /\ Overtakes(c, {c.on})
  /\ UNCHANGED <<started, conf, file_ppm, cache_ppm, confirmed, hw_overlap>>

ServeConfig(c) ==
  /\ Handle(c, "config")
  /\ conf' = [conf EXCEPT ![c.on] = c.arg]
  /\ Answered(c, TRUE, "none") /\ Overtakes(c, {c.on})
  /\ UNCHANGED <<started, mode, file_ppm, cache_ppm, confirmed, hw_overlap>>

\* Start fails on a running receiver; a stop of a stopped one does nothing.
ServeStart(c) ==
  /\ Handle(c, "start")
  /\ started' = [started EXCEPT ![c.on] = TRUE]
  /\ Answered(c, ~started[c.on], "none")
  /\ UNCHANGED <<mode, conf, file_ppm, cache_ppm, ghostVars>>

ServeStop(c) ==
  /\ Handle(c, "stop")
  /\ started' = [started EXCEPT ![c.on] = FALSE]
  /\ Answered(c, TRUE, "none")
  /\ UNCHANGED <<mode, conf, file_ppm, cache_ppm, ghostVars>>

ServeList(c) ==
  /\ Handle(c, "list")
  /\ Answered(c, TRUE, conf)
  /\ UNCHANGED <<serverVars, ghostVars>>

ServeGetPpm(c) ==
  /\ Handle(c, "get_ppm")
  /\ Answered(c, TRUE, cache_ppm)
  /\ UNCHANGED <<serverVars, ghostVars>>

\* SetHardwareConfig: the file, then the cache, then the receivers, with no
\* lock over the three.  A file that cannot be written ends it.
WriteFile(c) ==
  /\ Handle(c, "set_ppm")
  /\ \/ /\ file_ppm' = c.arg
        /\ requests' = (requests \ {c}) \union {[c EXCEPT !.stage = "file"]}
        /\ hw_overlap' = (hw_overlap \/ \E d \in requests : d.stage \in {"file", "cache"})
     \/ Answered(c, FALSE, "none") /\ UNCHANGED <<file_ppm, hw_overlap>>
  /\ UNCHANGED <<started, mode, conf, cache_ppm, confirmed, overtaken>>

WriteCache(c) ==
  /\ c.stage = "file"
  /\ cache_ppm' = c.arg
  /\ requests' = (requests \ {c}) \union {[c EXCEPT !.stage = "cache"]}
  /\ UNCHANGED <<started, mode, conf, file_ppm, ghostVars>>

\* ApplyHardwarePpm rewrites the settings of every receiver under the manager's lock.
WithPpm(settings, v) == [r \in Receivers |-> [settings[r] EXCEPT !.ppm = v]]

ApplyPpm(c) ==
  /\ c.stage = "cache"
  /\ conf' = WithPpm(conf, c.arg)
  /\ Answered(c, TRUE, "none")
  /\ UNCHANGED <<started, mode, file_ppm, cache_ppm, ghostVars>>

-----------------------------------------------------------------------------

User ==
  \/ OpenWindow \/ PressRefresh \/ PressApply \/ PressStart \/ PressStop
  \/ SelectModulation \/ EditSetting \/ SpinPpm \/ SelectReceiver
  \/ \E t \in VisitedTabs : ChangeTab(t)

Client == Send \/ \E c \in requests : Reply(c) \/ GiveUp(c) \/ Unreachable(c)

Server ==
  /\ UNCHANGED <<panelVars, clientVars>>
  /\ \E c \in requests :
    \/ ServeMode(c) \/ ServeConfig(c) \/ ServeStart(c) \/ ServeStop(c)
    \/ ServeList(c) \/ ServeGetPpm(c)
    \/ WriteFile(c) \/ WriteCache(c) \/ ApplyPpm(c)

SessionNext == User \/ Client \/ Server

\* The client's thread runs and its deadlines pass; the server owes nothing.
SessionSpec ==
  /\ SessionInit /\ [][SessionNext]_sessionVars
  /\ WF_sessionVars(Send)
  /\ WF_sessionVars(\E c \in requests : Reply(c) \/ GiveUp(c))

-----------------------------------------------------------------------------
(* Properties *)

\* What the client was told a receiver holds is what the server holds, in the
\* mode and in the settings, until a call the client gave up on runs late.
ServerAsShown ==
  \A r \in Receivers \ overtaken :
    confirmed[r] # Unknown =>
      /\ mode[r] = ModeOf(confirmed[r].tab)
      /\ conf[r].tab = confirmed[r].tab
      /\ conf[r].radio = confirmed[r].radio

\* hardware.conf and the cache agree whenever no SetHardwareConfig is under
\* way, unless two of them have overlapped.
HardwareAgrees ==
  hw_overlap \/ (\E c \in requests : c.stage = "file") \/ file_ppm = cache_ppm

\* A setting is held in several places: what the client was told is what the
\* server holds, and the cache of the server is what its file says.
CopiesAgree == ServerAsShown /\ HardwareAgrees

\* A start the client still waits for starts the receiver with the mode and
\* the settings in front of the user.
StartsAsShown ==
  [][\A r \in Receivers \ overtaken :
       (~started[r] /\ started'[r]
           /\ \E c \in requests : c.number = pending /\ c.step = "start" /\ c.on = r)
         => mode[r] = ModeOf(AppliedTab) /\ conf[r].tab = AppliedTab /\ conf[r].radio = radio]_sessionVars

\* Every press comes to an end, whatever the server does.
PressEnds == program # <<>> ~> (program = <<>> /\ pending = 0)

=============================================================================
