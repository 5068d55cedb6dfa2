------------------------------ MODULE ScanPanel ------------------------------
(***************************************************************************)
(* The two scan lists of the graphical client, the one of the SCAN_LIST    *)
(* tab and the one of the radar view, the channel each is frozen on, the   *)
(* settings file that keeps them, and the automatic squelch calibration    *)
(* that listens to the status events of the server's scanner               *)
(* (frontend/src/main_window.cpp).                                         *)
(*                                                                         *)
(* A channel is what its dialog holds; Blank has no frequency yet.  Labels,*)
(* squelch thresholds, the colours and the layout of the cards are left    *)
(* out.  An apply either reaches the server or fails, at either call.      *)
(* Indices start at 1; 0 stands for the -1 of the code.                    *)
(***************************************************************************)
EXTENDS Naturals, Sequences, FiniteSets, SequencesExt

CONSTANTS Channels,      \* channels with a frequency
          Blank,         \* a channel without one
          Files,         \* what the lines of a CSV file give
          DefaultScan,   \* the list of a first run: five blanks in the code
          DefaultRadar,  \* AIS, DSC and ADS-B
          Loops,         \* auto_squelch_required_loops_, 4 in the code
          LengthBound,   \* bound on the length of a list
          WireBound,     \* bound on the status events under way
          EditBound      \* bound on what the user does

ASSUME PanelAssumption ==
  /\ Blank \notin Channels
  /\ Files \subseteq Seq(Channels) /\ <<>> \notin Files
  /\ DefaultScan \in Seq({Blank}) /\ DefaultRadar \in Seq(Channels)
  /\ {Loops, LengthBound, WireBound, EditBound} \subseteq Nat

Lists == {"scan", "radar"}

VARIABLES
  shown,     \* scan_list_channels_, radar_scan_list_channels_
  frozen,    \* frozen_scan_channel_index_ and its radar twin, which stays -1
  active,    \* the card drawn as the active one
  stored,    \* the lists in the settings file
  stored_monitor,
  front,     \* the list whose tab is in front
  monitor,   \* scan_list_monitor_checkbox_
  cal,       \* auto_squelch_*
  server,    \* the scanner: list, lock and monitor it was given, its place
  wire,      \* status events on their way to the client
  edits,     \* history: the number of things the user did
  frozen_on, \* history: the channel the user froze, per list
  may_leave  \* history: how a calibration may leave the monitor box

userVars  == <<shown, frozen, active, stored, stored_monitor, front, monitor, cal>>
ghosts    == <<frozen_on, may_leave>>
listVars == <<userVars, server, wire, edits, ghosts>>

None == "none"        \* nothing is frozen
Lost == "lost"        \* the list was replaced under the frozen index

NoCal == [on |-> FALSE, restore |-> FALSE, loops |-> 0, last |-> 0]

PanelTypeOK ==
  /\ shown \in [Lists -> Seq(Channels \union {Blank})]
  /\ stored \in [Lists -> Seq(Channels \union {Blank})]
  /\ frozen \in [Lists -> Nat] /\ active \in [Lists -> Nat]
  /\ front \in Lists /\ {monitor, stored_monitor} \subseteq BOOLEAN /\ may_leave \subseteq BOOLEAN
  /\ cal \in [on : BOOLEAN, restore : BOOLEAN, loops : Nat, last : Nat]
  /\ cal.restore => cal.on
  /\ server.list \in Seq(Channels \union {Blank}) /\ server.lock \in Nat
  /\ server.list # <<>> => server.at \in 1 .. Len(server.list)
  /\ \A i \in DOMAIN wire : wire[i].index # 0

\* LoadScanListConfigFromSettings and its radar twin: an empty list becomes
\* the default one, and so does a radar list without a frequency.
LoadScan(list)  == IF list = <<>> THEN DefaultScan ELSE list
LoadRadar(list) == IF \E i \in DOMAIN list : list[i] # Blank THEN list ELSE DefaultRadar

PanelInit ==
  /\ shown = [scan |-> DefaultScan, radar |-> DefaultRadar]
  /\ stored = [scan |-> <<>>, radar |-> DefaultRadar]
  /\ frozen = [l \in Lists |-> 0] /\ active = [l \in Lists |-> 0]
  /\ front = "scan" /\ monitor = FALSE /\ stored_monitor = FALSE
  /\ cal = NoCal
  /\ server = [list |-> <<>>, lock |-> 0, monitor |-> FALSE, at |-> 1, locked_on |-> None]
  /\ wire = <<>> /\ edits = 0
  /\ frozen_on = [l \in Lists |-> None] /\ may_leave = BOOLEAN

-----------------------------------------------------------------------------
(* Saving and applying *)

Edit == edits < EditBound /\ edits' = edits + 1

\* SaveScanListConfigToSettings, SaveRadarScanListConfigToSettings
SaveScan  == /\ stored' = [stored EXCEPT !.scan = shown'.scan]
             /\ stored_monitor' = monitor'
SaveRadar == stored' = [stored EXCEPT !.radar = shown'.radar] /\ UNCHANGED stored_monitor

\* What ApplyModeAndConfigForReceiver sends of the lists: the list of the tab
\* in front with the frozen channel as the lock, monitor mode for the first only.
Config == [list |-> shown'[front'], lock |-> frozen'[front'],
           monitor |-> front' = "scan" /\ monitor', at |-> 1,
           locked_on |-> frozen_on'[front']]

\* ApplyModeAndConfig: the server has all of it or nothing.
Apply == server' \in {server, Config} /\ UNCHANGED wire

NoApply == UNCHANGED <<server, wire>>

-----------------------------------------------------------------------------
(* The cards of a list *)

\* A new channel is not applied.
AddScanListChannel ==
  /\ Edit /\ Len(shown.scan) < LengthBound
  /\ shown' = [shown EXCEPT !.scan = Append(@, Blank)]
  /\ UNCHANGED <<frozen, active, front, monitor, cal, ghosts>>
  /\ SaveScan /\ NoApply

AddRadarScanListChannel ==
  /\ Edit /\ Len(shown.radar) < LengthBound
  /\ shown' = [shown EXCEPT !.radar = Append(@, Blank)]
  /\ UNCHANGED <<frozen, active, front, monitor, cal, ghosts>>
  /\ SaveRadar /\ NoApply

\* The dialog of a card, accepted: channel i becomes c.
Configure(l, i, c) ==
  /\ Edit /\ i \in DOMAIN shown[l]
  /\ shown' = [shown EXCEPT ![l][i] = c]
  /\ frozen_on' = IF frozen[l] = i /\ frozen_on[l] # Lost
                  THEN [frozen_on EXCEPT ![l] = c] ELSE frozen_on
  /\ UNCHANGED <<frozen, active, front, monitor, cal, may_leave>>

ConfigureScanListChannel(i, c)      == Configure("scan", i, c) /\ SaveScan /\ Apply
ConfigureRadarScanListChannel(i, c) == Configure("radar", i, c) /\ SaveRadar /\ Apply

\* Mutant: an index behind the removed channel stays.
MutantWithout(index, i) == IF index = i THEN 0 ELSE index

\* An index after channel i is removed.
Without(index, i) == IF index = i THEN 0 ELSE IF index > i THEN index - 1 ELSE index

RemoveChannel(l, i) ==
  /\ Edit /\ i \in DOMAIN shown[l]
  /\ shown' = [shown EXCEPT ![l] = RemoveAt(@, i)]
  /\ active' = [active EXCEPT ![l] = Without(@, i)]
  /\ frozen' = [frozen EXCEPT ![l] = Without(@, i)]
  /\ frozen_on' = IF frozen[l] = i THEN [frozen_on EXCEPT ![l] = None] ELSE frozen_on
  /\ UNCHANGED <<front, monitor, cal, may_leave>>

RemoveScanListChannel(i)      == RemoveChannel("scan", i) /\ SaveScan /\ Apply
RemoveRadarScanListChannel(i) == RemoveChannel("radar", i) /\ SaveRadar /\ Apply

\* The frozen index outlives the list it points into.
Replaced(l) == frozen_on' = IF frozen[l] = 0 THEN frozen_on ELSE [frozen_on EXCEPT ![l] = Lost]

\* A file is imported; its bad lines are skipped, and without a good one
\* nothing happens.
Import(l, file) ==
  /\ Edit
  /\ UNCHANGED <<frozen, active, front, monitor, cal, may_leave>>
  /\ \/ shown' = [shown EXCEPT ![l] = file] /\ Replaced(l)
     \/ /\ Len(shown[l]) + Len(file) <= LengthBound
        /\ shown' = [shown EXCEPT ![l] = @ \o file] /\ UNCHANGED frozen_on

ImportScanListCsv(file)      == Import("scan", file) /\ SaveScan /\ Apply
ImportRadarScanListCsv(file) == Import("radar", file) /\ SaveRadar /\ Apply

ClearList(l) ==
  /\ Edit /\ shown[l] # <<>>
  /\ shown' = [shown EXCEPT ![l] = <<>>]
  /\ active' = [active EXCEPT ![l] = 0]
  /\ Replaced(l)
  /\ UNCHANGED <<frozen, front, monitor, may_leave>>

\* Clearing the scan list also ends a calibration; the monitor box stays as it is.
ClearChannels      == ClearList("scan") /\ cal' = NoCal /\ SaveScan /\ Apply
ClearRadarChannels == ClearList("radar") /\ UNCHANGED cal /\ SaveRadar /\ Apply

\* The context menu of a card freezes the scanner on it or releases it.  Only
\* the scan list has cards: those of the radar list have no widget to stand in
\* (main_window.cpp 4285), and its channels are edited in a dialog (2085).
FreezeScanCard(i) ==
  /\ Edit /\ i \in DOMAIN shown.scan
  /\ frozen' = [frozen EXCEPT !.scan = IF @ = i THEN 0 ELSE i]
  /\ frozen_on' = [frozen_on EXCEPT !.scan = IF frozen.scan = i THEN None ELSE shown.scan[i]]
  /\ UNCHANGED <<shown, active, stored, stored_monitor, front, monitor, cal, may_leave>>
  /\ Apply

-----------------------------------------------------------------------------
(* The rest of the window *)

ToggleMonitor ==
  /\ Edit
  /\ monitor' = ~monitor /\ may_leave' = BOOLEAN
  /\ UNCHANGED <<shown, frozen, active, front, cal, frozen_on>>
  /\ SaveScan /\ Apply

\* receiver_combo_ changes, as it does in every RefreshReceivers: a
\* calibration ends where it is.
Refreshed == cal' = NoCal /\ active' = [active EXCEPT !.scan = 0]

RefreshReceivers ==
  /\ Edit /\ Refreshed
  /\ UNCHANGED <<shown, frozen, stored, stored_monitor, front, monitor, ghosts>>
  /\ NoApply

ChangeList ==
  /\ Edit /\ Refreshed
  /\ front' \in Lists \ {front}
  /\ UNCHANGED <<shown, frozen, stored, stored_monitor, monitor, ghosts>>
  /\ Apply

\* The window is closed and opened again: the lists come from the settings,
\* the frozen channels are forgotten.
Reopen ==
  /\ Edit
  /\ shown' = [scan |-> LoadScan(stored.scan), radar |-> LoadRadar(stored.radar)]
  /\ stored' = [stored EXCEPT !.radar = shown'.radar]
  /\ monitor' = stored_monitor /\ may_leave' = BOOLEAN
  /\ frozen' = [l \in Lists |-> 0] /\ frozen_on' = [l \in Lists |-> None]
  /\ active' = [l \in Lists |-> 0] /\ cal' = NoCal /\ front' = "scan"
  /\ wire' = <<>>
  /\ UNCHANGED <<stored_monitor, server>>

-----------------------------------------------------------------------------
(* Calibration *)

\* Whether the monitor box is to be unchecked again.
Restore == ~monitor

\* The button starts a calibration, or cancels the one under way; then the
\* monitor box stays checked.
StartAutoSquelch ==
  /\ Edit /\ front = "scan"
  /\ UNCHANGED <<shown, frozen, active, front, frozen_on>>
  /\ IF cal.on
     THEN cal' = NoCal /\ UNCHANGED <<monitor, stored, stored_monitor>> /\ NoApply
     ELSE /\ shown.scan # <<>>
          /\ cal' = [NoCal EXCEPT !.on = TRUE, !.restore = Restore]
          /\ monitor' = TRUE
          /\ SaveScan /\ Apply
  /\ may_leave' = {monitor}

\* Mutant: the index of the first sample stays the one to compare with.
MutantSampled(i) == [cal EXCEPT !.last = IF @ = 0 THEN i ELSE @,
                                !.loops = IF @ < Loops /\ i < cal.last THEN @ + 1 ELSE @]

\* The samples of a loop are over when the scanner is back at a lower index.
Sampled(i) == [cal EXCEPT !.last = i,
                          !.loops = IF i < cal.last THEN @ + 1 ELSE @]

\* CompleteAutoSquelchCalibration: the default squelch is set, the monitor
\* box unchecked if the calibration had checked it.
Complete ==
  /\ cal' = NoCal
  /\ monitor' = (monitor /\ ~cal.restore)
  /\ SaveScan
  /\ server' \in {server, Config}

\* ApplyScanListStatusEvent: an index outside the list in front is ignored.
StatusEvent ==
  /\ wire # <<>> /\ wire' = Tail(wire)
  /\ UNCHANGED <<shown, frozen, front, edits, ghosts>>
  /\ LET i == Head(wire).index
         sample == front = "scan" /\ cal.on /\ Head(wire).monitor
     IN  IF i \notin DOMAIN shown[front]
         THEN UNCHANGED <<active, cal, monitor, stored, stored_monitor, server>>
         ELSE /\ active' = [active EXCEPT ![front] = i]
              /\ IF sample /\ Sampled(i).loops >= Loops THEN Complete
                 ELSE /\ cal' = IF sample THEN Sampled(i) ELSE cal
                      /\ UNCHANGED <<monitor, stored, stored_monitor, server>>

\* The scanner of the server reports a channel and goes on: to the locked
\* one, or to the next unless it holds on a signal (module Scanner).
Scan ==
  /\ server.list # <<>> /\ Len(wire) < WireBound
  /\ wire' = Append(wire, [index |-> server.at, monitor |-> server.monitor])
  /\ LET next == IF server.lock \in DOMAIN server.list THEN server.lock
                 ELSE (server.at % Len(server.list)) + 1
     IN  server' \in {[server EXCEPT !.at = next]}
                     \union IF server.monitor THEN {} ELSE {server}
  /\ UNCHANGED <<userVars, edits, ghosts>>

-----------------------------------------------------------------------------

PanelUser ==
  \/ AddScanListChannel \/ AddRadarScanListChannel
  \/ \E i \in 1 .. LengthBound :
       \/ \E c \in Channels : ConfigureScanListChannel(i, c) \/ ConfigureRadarScanListChannel(i, c)
       \/ RemoveScanListChannel(i) \/ RemoveRadarScanListChannel(i)
       \/ FreezeScanCard(i)
  \/ \E f \in Files : ImportScanListCsv(f) \/ ImportRadarScanListCsv(f)
  \/ ClearChannels \/ ClearRadarChannels
  \/ ToggleMonitor \/ RefreshReceivers \/ ChangeList \/ Reopen
  \/ StartAutoSquelch

PanelNext == PanelUser \/ StatusEvent \/ Scan

PanelSpec == PanelInit /\ [][PanelNext]_listVars

-----------------------------------------------------------------------------
(* Properties *)

\* The scanner is locked on the channel the user froze, whatever was added,
\* removed or failed since; only a list replaced as a whole breaks the tie.
LockedOnFrozen ==
  server.locked_on \notin {None, Lost} =>
    /\ server.lock \in DOMAIN server.list
    /\ server.list[server.lock] = server.locked_on

\* A calibration that completes leaves the monitor box as the user had it, and
\* none goes on for ever while the scanner loops over two channels of the list
\* in monitor mode.
CalibrationEnds ==
  /\ [][cal.on /\ ~cal'.on /\ edits' = edits => monitor' \in may_leave]_listVars
  /\ []<>(~cal.on \/ ~(/\ front = "scan" /\ server.monitor
                       /\ Len(server.list) >= 2 /\ Len(shown.scan) >= 2
                       /\ server.lock \notin DOMAIN server.list))
=============================================================================
