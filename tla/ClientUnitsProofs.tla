------------------------- MODULE ClientUnitsProofs --------------------------
(***************************************************************************)
(* Proofs about the parts of the client that share no state with another:  *)
(* the scan lists, the audio output, the streams and the weather, for      *)
(* lists and queues of every length.                                       *)
(***************************************************************************)
EXTENDS ScanPanel, AudioPlayout, ClientStreams, WeatherUpdates,
        SequenceTheorems, TLAPS

-----------------------------------------------------------------------------
(* The scan lists                                                          *)
(*                                                                         *)
(* What the client was told to freeze is the channel its index points to   *)
(* (FrozenOK), through every edit of the list before and behind it; what   *)
(* it sends is taken from one state, so the lock of the server points to   *)
(* that channel in its list, and stays so when an apply fails.             *)

FrozenOK(l) ==
  /\ frozen_on[l] \notin {None, Lost} =>
       frozen[l] \in DOMAIN shown[l] /\ shown[l][frozen[l]] = frozen_on[l]
  /\ frozen[l] = 0 => frozen_on[l] \in {None, Lost}

Marks == {None, Lost, Blank} \union Channels

ListsOK ==
  /\ shown \in [Lists -> Seq(Channels \union {Blank})]
  /\ frozen \in [Lists -> Nat]
  /\ frozen_on \in [Lists -> Marks]
  /\ front \in Lists

StoredOK == stored \in [Lists -> Seq(Channels \union {Blank})]

ListInv == ListsOK /\ (\A l \in Lists : FrozenOK(l)) /\ LockedOnFrozen

ServerOK == {"list", "lock", "locked_on"} \subseteq DOMAIN server

PanelInv == ListInv /\ StoredOK /\ ServerOK

-----------------------------------------------------------------------------
(* A list after the removal of a channel: the others keep their order.     *)
LEMMA RemoveOne ==
  ASSUME NEW S, NEW s \in Seq(S), NEW i \in DOMAIN s
  PROVE  /\ RemoveAt(s, i) \in Seq(S) /\ Len(RemoveAt(s, i)) = Len(s) - 1
         /\ \A k \in 1 .. Len(s) : k < i => RemoveAt(s, i)[k] = s[k]
         /\ \A k \in 1 .. Len(s) : k > i => RemoveAt(s, i)[k - 1] = s[k]
<1>1. i \in 1 .. Len(s) /\ Len(s) \in Nat
  OBVIOUS
<1> DEFINE a == SubSeq(s, 1, i - 1)
           b == SubSeq(s, i + 1, Len(s))
<1>2. a \in Seq(S) /\ Len(a) = i - 1 /\ \A k \in 1 .. i - 1 : a[k] = s[k]
  BY <1>1, SubSeqProperties
<1>3. b \in Seq(S) /\ Len(b) = Len(s) - i /\ \A k \in 1 .. Len(s) - i : b[k] = s[i + k]
  BY <1>1, SubSeqProperties
<1> HIDE DEF a, b
<1>4. /\ a \o b \in Seq(S) /\ Len(a \o b) = Len(s) - 1
      /\ \A k \in 1 .. Len(s) - 1 : (a \o b)[k] = IF k <= i - 1 THEN a[k] ELSE b[k - (i - 1)]
  <2>1. /\ a \o b \in Seq(S) /\ Len(a \o b) = Len(a) + Len(b)
        /\ \A k \in 1 .. Len(a) + Len(b) : (a \o b)[k] = IF k <= Len(a) THEN a[k] ELSE b[k - Len(a)]
    BY <1>2, <1>3, ConcatProperties
  <2>2. Len(a) + Len(b) = Len(s) - 1 /\ Len(a) = i - 1
    BY <1>1, <1>2, <1>3
  <2> QED
    BY <2>1, <2>2
<1>5. ASSUME NEW k \in 1 .. Len(s), k < i
      PROVE  (a \o b)[k] = s[k]
  BY <1>1, <1>2, <1>4, <1>5
<1>6. ASSUME NEW k \in 1 .. Len(s), k > i
      PROVE  (a \o b)[k - 1] = s[k]
  <2>1. k - 1 \in 1 .. Len(s) - 1 /\ k - i \in 1 .. Len(s) - i /\ ~(k - 1 <= i - 1)
    BY <1>1, <1>6
  <2>2. (a \o b)[k - 1] = b[(k - 1) - (i - 1)]
    BY <1>4, <2>1
  <2>3. (k - 1) - (i - 1) = k - i /\ i + (k - i) = k
    BY <1>1
  <2> QED
    BY <1>3, <2>1, <2>2, <2>3
<1> QED
  BY <1>4, <1>5, <1>6 DEF RemoveAt, a, b

LEMMA PanelInitKeeps == PanelInit => ListInv
<1> SUFFICES ASSUME PanelInit PROVE ListInv
  OBVIOUS
<1>1. ListsOK
  <2>1. DefaultScan \in Seq(Channels \union {Blank}) /\ DefaultRadar \in Seq(Channels \union {Blank})
    BY PanelAssumption
  <2> QED
    BY <2>1 DEF PanelInit, ListsOK, Lists, Marks
<1>2. \A l \in Lists : FrozenOK(l)
  BY DEF PanelInit, FrozenOK
<1>3. LockedOnFrozen
  BY DEF PanelInit, LockedOnFrozen
<1> QED
  BY <1>1, <1>2, <1>3 DEF ListInv

-----------------------------------------------------------------------------
(* What is sent is taken from one state, so the lock points to the frozen  *)
(* channel in the list that goes with it.                                  *)
LEMMA SentTogether ==
  ASSUME ListInv, ListsOK', \A l \in Lists : FrozenOK(l)', server' \in {server, Config}
  PROVE  LockedOnFrozen'
<1>1. CASE server' = server
  BY <1>1 DEF ListInv, LockedOnFrozen
<1>2. CASE server' = Config
  BY <1>2 DEF ListsOK, FrozenOK, LockedOnFrozen, Config
<1> QED
  BY <1>1, <1>2

(* An edit of list l that keeps list and index of the other.               *)
LEMMA ListEdited ==
  ASSUME ListInv, NEW l \in Lists, front' = front,
         NEW list \in Seq(Channels \union {Blank}), shown' = [shown EXCEPT ![l] = list],
         NEW i \in Nat, frozen' = [frozen EXCEPT ![l] = i],
         NEW on \in Marks, frozen_on' = [frozen_on EXCEPT ![l] = on],
         on \notin {None, Lost} => i \in DOMAIN list /\ list[i] = on,
         i = 0 => on \in {None, Lost},
         server' \in {server, Config}
  PROVE  ListInv'
<1>1. ListsOK'
  BY DEF ListInv, ListsOK
<1>2. /\ shown'[l] = list /\ frozen'[l] = i /\ frozen_on'[l] = on
      /\ \A m \in Lists \ {l} : /\ shown'[m] = shown[m] /\ frozen'[m] = frozen[m]
                               /\ frozen_on'[m] = frozen_on[m]
  BY DEF ListInv, ListsOK
<1>3. \A m \in Lists : FrozenOK(m)'
  BY <1>2 DEF ListInv, FrozenOK
<1> QED
  BY <1>1, <1>3, SentTogether DEF ListInv

(* As it is before an edit.                                                *)
LEMMA ListBefore ==
  ASSUME ListInv, NEW l \in Lists
  PROVE  /\ shown[l] \in Seq(Channels \union {Blank}) /\ Len(shown[l]) \in Nat
         /\ DOMAIN shown[l] = 1 .. Len(shown[l])
         /\ frozen[l] \in Nat /\ FrozenOK(l) /\ frozen_on[l] \in Marks
         /\ frozen = [frozen EXCEPT ![l] = frozen[l]]
         /\ frozen_on = [frozen_on EXCEPT ![l] = frozen_on[l]]
BY DEF ListInv, ListsOK

LEMMA AddKeeps ==
  ASSUME ListInv, AddScanListChannel \/ AddRadarScanListChannel
  PROVE  ListInv'
<1>1. PICK l \in Lists : /\ shown' = [shown EXCEPT ![l] = Append(shown[l], Blank)]
                         /\ UNCHANGED <<frozen, frozen_on, front, server>>
  BY DEF AddScanListChannel, AddRadarScanListChannel, NoApply, ghosts, Lists
<1> DEFINE list == Append(shown[l], Blank)
<1>2. /\ list \in Seq(Channels \union {Blank})
      /\ \A k \in DOMAIN shown[l] : k \in DOMAIN list /\ list[k] = shown[l][k]
  BY <1>1, ListBefore
<1>3. /\ frozen[l] \in Nat /\ frozen_on[l] \in Marks
      /\ frozen' = [frozen EXCEPT ![l] = frozen[l]]
      /\ frozen_on' = [frozen_on EXCEPT ![l] = frozen_on[l]]
  BY <1>1, ListBefore
<1>4. /\ frozen_on[l] \notin {None, Lost} => frozen[l] \in DOMAIN list /\ list[frozen[l]] = frozen_on[l]
      /\ frozen[l] = 0 => frozen_on[l] \in {None, Lost}
  BY <1>2, ListBefore DEF FrozenOK
<1> HIDE DEF list
<1> QED
  BY <1>1, <1>2, <1>3, <1>4, ListEdited DEF list

LEMMA ConfigureKeeps ==
  ASSUME ListInv, NEW i \in 1 .. LengthBound, NEW c \in Channels,
         ConfigureScanListChannel(i, c) \/ ConfigureRadarScanListChannel(i, c)
  PROVE  ListInv'
<1>1. PICK l \in Lists :
        /\ i \in DOMAIN shown[l] /\ shown' = [shown EXCEPT ![l][i] = c]
        /\ frozen_on' = IF frozen[l] = i /\ frozen_on[l] # Lost
                        THEN [frozen_on EXCEPT ![l] = c] ELSE frozen_on
        /\ UNCHANGED <<frozen, front>> /\ server' \in {server, Config}
  BY DEF ConfigureScanListChannel, ConfigureRadarScanListChannel, Configure, Apply, Lists
<1> DEFINE list == [shown[l] EXCEPT ![i] = c]
           on == IF frozen[l] = i /\ frozen_on[l] # Lost THEN c ELSE frozen_on[l]
<1>2. /\ list \in Seq(Channels \union {Blank}) /\ DOMAIN list = DOMAIN shown[l]
      /\ list[i] = c /\ \A k \in DOMAIN shown[l] \ {i} : list[k] = shown[l][k]
  BY <1>1, ListBefore
<1>3. shown' = [shown EXCEPT ![l] = list]
  BY <1>1 DEF ListInv, ListsOK
<1>4. frozen_on' = [frozen_on EXCEPT ![l] = on] /\ frozen' = [frozen EXCEPT ![l] = frozen[l]]
  BY <1>1, ListBefore
<1>5. /\ on \notin {None, Lost} => frozen[l] \in DOMAIN list /\ list[frozen[l]] = on
      /\ frozen[l] = 0 => on \in {None, Lost}
  BY <1>1, <1>2, ListBefore DEF FrozenOK
<1>6. frozen[l] \in Nat /\ on \in Marks /\ front' = front /\ server' \in {server, Config}
  BY <1>1, ListBefore DEF Marks
<1> HIDE DEF list, on
<1> QED
  BY <1>2, <1>3, <1>4, <1>5, <1>6, ListEdited

LEMMA RemoveKeeps ==
  ASSUME ListInv, NEW i \in 1 .. LengthBound,
         RemoveScanListChannel(i) \/ RemoveRadarScanListChannel(i)
  PROVE  ListInv'
<1>1. PICK l \in Lists :
        /\ i \in DOMAIN shown[l] /\ shown' = [shown EXCEPT ![l] = RemoveAt(shown[l], i)]
        /\ frozen' = [frozen EXCEPT ![l] = Without(frozen[l], i)]
        /\ frozen_on' = IF frozen[l] = i THEN [frozen_on EXCEPT ![l] = None] ELSE frozen_on
        /\ front' = front /\ server' \in {server, Config}
  BY DEF RemoveScanListChannel, RemoveRadarScanListChannel, RemoveChannel, Apply, Lists, ListInv,
         ListsOK
<1> DEFINE list == RemoveAt(shown[l], i)
           at == Without(frozen[l], i)
           on == IF frozen[l] = i THEN None ELSE frozen_on[l]
<1>2. /\ list \in Seq(Channels \union {Blank}) /\ Len(list) = Len(shown[l]) - 1
      /\ \A k \in 1 .. Len(shown[l]) : k < i => list[k] = shown[l][k]
      /\ \A k \in 1 .. Len(shown[l]) : k > i => list[k - 1] = shown[l][k]
  <2>1. shown[l] \in Seq(Channels \union {Blank}) /\ i \in DOMAIN shown[l]
    BY <1>1, ListBefore
  <2> QED
    BY <2>1, RemoveOne
<1>3. i \in 1 .. Len(shown[l]) /\ Len(shown[l]) \in Nat /\ frozen[l] \in Nat /\ FrozenOK(l)
  BY <1>1, ListBefore
<1>4. frozen_on' = [frozen_on EXCEPT ![l] = on]
  BY <1>1, ListBefore
<1>5. DOMAIN list = 1 .. Len(shown[l]) - 1
  BY <1>2
<1> HIDE DEF list
<1>6. at \in Nat /\ on \in Marks
  BY <1>3, ListBefore DEF Without, Marks
<1>7. ASSUME on \notin {None, Lost}
      PROVE  at \in DOMAIN list /\ list[at] = on
  <2>1. frozen[l] # i /\ frozen[l] \in 1 .. Len(shown[l]) /\ shown[l][frozen[l]] = on
    BY <1>3, <1>7, ListBefore DEF FrozenOK
  <2>2. CASE frozen[l] < i
    BY <1>2, <1>3, <1>5, <2>1, <2>2 DEF Without
  <2>3. CASE frozen[l] > i
    BY <1>2, <1>3, <1>5, <2>1, <2>3 DEF Without
  <2> QED
    BY <1>3, <2>1, <2>2, <2>3
<1>8. at = 0 => on \in {None, Lost}
  BY <1>3 DEF Without, FrozenOK
<1> HIDE DEF at, on
<1> QED
  BY <1>1, <1>2, <1>4, <1>6, <1>7, <1>8, ListEdited DEF list, at

LEMMA ImportKeeps ==
  ASSUME ListInv, NEW file \in Files, ImportScanListCsv(file) \/ ImportRadarScanListCsv(file)
  PROVE  ListInv'
<1>1. PICK l \in Lists :
        /\ \/ shown' = [shown EXCEPT ![l] = file] /\ Replaced(l)
           \/ shown' = [shown EXCEPT ![l] = shown[l] \o file] /\ UNCHANGED frozen_on
        /\ UNCHANGED <<frozen, front>> /\ server' \in {server, Config}
  BY DEF ImportScanListCsv, ImportRadarScanListCsv, Import, Apply, Lists, ListInv, ListsOK
<1>2. file \in Seq(Channels \union {Blank})
  BY PanelAssumption
<1>3. /\ frozen[l] \in Nat /\ frozen_on[l] \in Marks /\ FrozenOK(l)
      /\ frozen' = [frozen EXCEPT ![l] = frozen[l]] /\ front' = front
  BY <1>1, ListBefore
<1>4. CASE shown' = [shown EXCEPT ![l] = file] /\ Replaced(l)
  <2> DEFINE on == IF frozen[l] = 0 THEN frozen_on[l] ELSE Lost
  <2>1. frozen_on' = [frozen_on EXCEPT ![l] = on]
    BY <1>4, ListBefore DEF Replaced
  <2>2. on \in {None, Lost} /\ on \in Marks
    BY <1>3 DEF FrozenOK, Marks
  <2> HIDE DEF on
  <2> QED
    BY <1>1, <1>2, <1>3, <1>4, <2>1, <2>2, ListEdited
<1>5. CASE shown' = [shown EXCEPT ![l] = shown[l] \o file] /\ UNCHANGED frozen_on
  <2> DEFINE list == shown[l] \o file
  <2>1. /\ list \in Seq(Channels \union {Blank})
        /\ \A k \in DOMAIN shown[l] : k \in DOMAIN list /\ list[k] = shown[l][k]
    <3>1. shown[l] \in Seq(Channels \union {Blank}) /\ DOMAIN shown[l] = 1 .. Len(shown[l])
      BY ListBefore
    <3> QED
      BY <1>2, <3>1, ConcatProperties
  <2>2. /\ frozen_on[l] \notin {None, Lost} => frozen[l] \in DOMAIN list /\ list[frozen[l]] = frozen_on[l]
        /\ frozen[l] = 0 => frozen_on[l] \in {None, Lost}
    BY <1>3, <2>1 DEF FrozenOK
  <2>3. frozen_on' = [frozen_on EXCEPT ![l] = frozen_on[l]] /\ shown' = [shown EXCEPT ![l] = list]
    BY <1>5, ListBefore
  <2> HIDE DEF list
  <2> QED
    BY <1>1, <1>3, <2>1, <2>2, <2>3, ListEdited
<1> QED
  BY <1>1, <1>4, <1>5

LEMMA ClearKeeps ==
  ASSUME ListInv, ClearChannels \/ ClearRadarChannels
  PROVE  ListInv'
<1>1. PICK l \in Lists : /\ shown' = [shown EXCEPT ![l] = <<>>] /\ Replaced(l)
                         /\ UNCHANGED <<frozen, front>> /\ server' \in {server, Config}
  BY DEF ClearChannels, ClearRadarChannels, ClearList, Apply, Lists
<1> DEFINE on == IF frozen[l] = 0 THEN frozen_on[l] ELSE Lost
<1>2. frozen_on' = [frozen_on EXCEPT ![l] = on]
  BY <1>1, ListBefore DEF Replaced
<1>3. /\ frozen[l] \in Nat /\ frozen' = [frozen EXCEPT ![l] = frozen[l]] /\ front' = front
      /\ on \in {None, Lost} /\ on \in Marks /\ <<>> \in Seq(Channels \union {Blank})
  BY <1>1, ListBefore, EmptySeq DEF FrozenOK, Marks
<1> HIDE DEF on
<1> QED
  BY <1>1, <1>2, <1>3, ListEdited

LEMMA FreezeKeeps ==
  ASSUME ListInv, NEW i \in 1 .. LengthBound, FreezeScanCard(i)
  PROVE  ListInv'
<1>1. PICK l \in Lists :
        /\ i \in DOMAIN shown[l]
        /\ frozen' = [frozen EXCEPT ![l] = IF frozen[l] = i THEN 0 ELSE i]
        /\ frozen_on' = [frozen_on EXCEPT ![l] = IF frozen[l] = i THEN None ELSE shown[l][i]]
        /\ UNCHANGED <<shown, front>> /\ server' \in {server, Config}
  BY DEF FreezeScanCard, Apply, Lists, ListInv, ListsOK
<1> DEFINE at == IF frozen[l] = i THEN 0 ELSE i
           on == IF frozen[l] = i THEN None ELSE shown[l][i]
<1>2. shown[l] \in Seq(Channels \union {Blank}) /\ i \in 1 .. Len(shown[l]) /\ frozen[l] \in Nat
  BY <1>1, ListBefore
<1>3. /\ at \in Nat /\ on \in Marks
      /\ on \notin {None, Lost} => at \in DOMAIN shown[l] /\ shown[l][at] = on
      /\ at = 0 => on \in {None, Lost}
  BY <1>1, <1>2 DEF Marks
<1>4. shown' = [shown EXCEPT ![l] = shown[l]] /\ front' = front
  BY <1>1 DEF ListInv, ListsOK
<1> HIDE DEF at, on
<1> QED
  BY <1>1, <1>2, <1>3, <1>4, ListEdited DEF at, on

-----------------------------------------------------------------------------
(* The rest of the window does not touch the lists and their indices.      *)
LEMMA OthersKeep ==
  ASSUME ListInv, ServerOK,
         \/ ToggleMonitor \/ RefreshReceivers \/ ChangeList \/ StartAutoSquelch
         \/ StatusEvent \/ Scan \/ UNCHANGED listVars
  PROVE  ListInv'
<1>1. /\ UNCHANGED <<shown, frozen, frozen_on>> /\ front' \in Lists
      /\ \/ server' \in {server, Config}
         \/ /\ server'.list = server.list /\ server'.lock = server.lock
            /\ server'.locked_on = server.locked_on
  <2>1. CASE ToggleMonitor \/ RefreshReceivers \/ ChangeList
    BY <2>1 DEF ToggleMonitor, RefreshReceivers, ChangeList, Apply, NoApply, ghosts, ListInv, ListsOK
  <2>2. CASE StartAutoSquelch
    BY <2>2 DEF StartAutoSquelch, Apply, NoApply, ListInv, ListsOK
  <2>3. CASE StatusEvent
    BY <2>3 DEF StatusEvent, Complete, ghosts, ListInv, ListsOK
  <2>4. CASE Scan
    <3>1. PICK next : server' \in {[server EXCEPT !.at = next], server}
      BY <2>4 DEF Scan
    <3>2. /\ server'.list = server.list /\ server'.lock = server.lock
          /\ server'.locked_on = server.locked_on
      BY <3>1 DEF ServerOK
    <3> QED
      BY <2>4, <3>2 DEF Scan, userVars, ghosts, ListInv, ListsOK
  <2>5. CASE UNCHANGED listVars
    BY <2>5 DEF listVars, userVars, ghosts, ListInv, ListsOK
  <2> QED
    BY <2>1, <2>2, <2>3, <2>4, <2>5
<1>2. ListsOK' /\ \A l \in Lists : FrozenOK(l)'
  BY <1>1 DEF ListInv, ListsOK, FrozenOK
<1>3. LockedOnFrozen'
  <2>1. CASE server' \in {server, Config}
    BY <1>2, <2>1, SentTogether
  <2>2. CASE /\ server'.list = server.list /\ server'.lock = server.lock
             /\ server'.locked_on = server.locked_on
    BY <2>2 DEF ListInv, LockedOnFrozen
  <2> QED
    BY <1>1, <2>1, <2>2
<1> QED
  BY <1>2, <1>3 DEF ListInv

LEMMA ReopenKeeps ==
  ASSUME PanelInv, Reopen
  PROVE  ListInv'
<1>1. /\ shown' = [scan |-> LoadScan(stored.scan), radar |-> LoadRadar(stored.radar)]
      /\ frozen' = [l \in Lists |-> 0] /\ frozen_on' = [l \in Lists |-> None]
      /\ front' = "scan" /\ server' = server
  BY DEF Reopen
<1>2. /\ LoadScan(stored.scan) \in Seq(Channels \union {Blank})
      /\ LoadRadar(stored.radar) \in Seq(Channels \union {Blank})
  <2>1. /\ DefaultScan \in Seq(Channels \union {Blank}) /\ DefaultRadar \in Seq(Channels \union {Blank})
        /\ stored.scan \in Seq(Channels \union {Blank}) /\ stored.radar \in Seq(Channels \union {Blank})
    BY PanelAssumption DEF PanelInv, StoredOK, Lists
  <2> QED
    BY <2>1 DEF LoadScan, LoadRadar
<1>3. ListsOK'
  BY <1>1, <1>2 DEF ListsOK, Lists, Marks
<1>4. \A l \in Lists : FrozenOK(l)'
  BY <1>1 DEF FrozenOK
<1> QED
  BY <1>1, <1>3, <1>4, SentTogether DEF PanelInv, ListInv

(* Only what is shown is stored.                                           *)
LEMMA StoredKeeps ==
  ASSUME PanelInv, ListInv', [PanelNext]_listVars
  PROVE  StoredOK'
<1>1. stored' \in {stored, [stored EXCEPT !.scan = shown'.scan], [stored EXCEPT !.radar = shown'.radar]}
  <2>1. CASE PanelUser
    BY <2>1 DEF PanelUser, AddScanListChannel, AddRadarScanListChannel, ConfigureScanListChannel,
         ConfigureRadarScanListChannel, RemoveScanListChannel, RemoveRadarScanListChannel,
         FreezeScanCard, ImportScanListCsv, ImportRadarScanListCsv,
         ClearChannels, ClearRadarChannels, ToggleMonitor, RefreshReceivers, ChangeList, Reopen,
         StartAutoSquelch, SaveScan, SaveRadar
  <2>2. CASE StatusEvent
    BY <2>2 DEF StatusEvent, Complete, SaveScan
  <2>3. CASE Scan \/ UNCHANGED listVars
    BY <2>3 DEF Scan, listVars, userVars
  <2> QED
    BY <2>1, <2>2, <2>3 DEF PanelNext
<1>2. shown'.scan \in Seq(Channels \union {Blank}) /\ shown'.radar \in Seq(Channels \union {Blank})
  BY DEF ListInv, ListsOK, Lists
<1> QED
  BY <1>1, <1>2 DEF PanelInv, StoredOK, Lists

LEMMA ServerKeeps ==
  ASSUME PanelInv, [PanelNext]_listVars
  PROVE  ServerOK'
<1>1. \E next : server' \in {server, Config, [server EXCEPT !.at = next]}
  <2>1. CASE PanelUser
    BY <2>1 DEF PanelUser, AddScanListChannel, AddRadarScanListChannel, ConfigureScanListChannel,
         ConfigureRadarScanListChannel, RemoveScanListChannel, RemoveRadarScanListChannel,
         FreezeScanCard, ImportScanListCsv, ImportRadarScanListCsv,
         ClearChannels, ClearRadarChannels, ToggleMonitor, RefreshReceivers, ChangeList, Reopen,
         StartAutoSquelch, Apply, NoApply
  <2>2. CASE StatusEvent
    BY <2>2 DEF StatusEvent, Complete
  <2>3. CASE Scan \/ UNCHANGED listVars
    BY <2>3 DEF Scan, listVars
  <2> QED
    BY <2>1, <2>2, <2>3 DEF PanelNext
<1> QED
  BY <1>1 DEF PanelInv, ServerOK, Config

LEMMA PanelStepKeeps ==
  ASSUME PanelInv, [PanelNext]_listVars
  PROVE  PanelInv'
<1>1. ListInv'
  BY AddKeeps, ConfigureKeeps, RemoveKeeps, ImportKeeps, ClearKeeps, FreezeKeeps, OthersKeep,
     ReopenKeeps DEF PanelInv, PanelNext, PanelUser
<1> QED
  BY <1>1, StoredKeeps, ServerKeeps DEF PanelInv

(* The scanner of the server is locked on the channel the user froze,      *)
(* whatever was added, removed or failed since, in lists of any length and *)
(* for any number of edits; only a list replaced as a whole breaks the tie *)
(* (RemoveScanListChannel and ApplyModeAndConfig in main_window.cpp).      *)
THEOREM LockFollows == PanelSpec => []LockedOnFrozen
<1>1. PanelInit => PanelInv
  <2> SUFFICES ASSUME PanelInit PROVE PanelInv
    OBVIOUS
  <2>1. DefaultRadar \in Seq(Channels \union {Blank}) /\ <<>> \in Seq(Channels \union {Blank})
    BY PanelAssumption, EmptySeq
  <2>2. stored = [scan |-> <<>>, radar |-> DefaultRadar]
    BY DEF PanelInit
  <2>3. StoredOK
    <3>1. stored = [l \in Lists |-> IF l = "scan" THEN <<>> ELSE DefaultRadar]
      BY <2>2 DEF Lists
    <3> QED
      BY <2>1, <3>1 DEF StoredOK
  <2>4. server = [list |-> <<>>, lock |-> 0, monitor |-> FALSE, at |-> 1, locked_on |-> None]
    BY DEF PanelInit
  <2>5. ServerOK
    BY <2>4 DEF ServerOK
  <2> QED
    BY <2>3, <2>5, PanelInitKeeps DEF PanelInv
<1>2. PanelInv => LockedOnFrozen
  BY DEF PanelInv, ListInv
<1> QED
  BY <1>1, <1>2, PanelStepKeeps, PTL DEF PanelSpec

-----------------------------------------------------------------------------
(* The audio output                                                        *)
(*                                                                         *)
(* What was heard and what is queued, one after the other, are in order and *)
(* before the unit that comes next.                                        *)

UnitType == [session : Nat, number : Nat]
OutType == [sink : Rates \union {NoDevice}, free : 0 .. SinkSize, pend : Seq(UnitType),
            done : BOOLEAN, wait : 0 .. PrefillWait, heard : Seq(UnitType)]

\* A queue and its sink: no longer than allowed, and nothing without a sink.
QueueOK(q) ==
  /\ q \in OutType /\ Len(q.pend) <= PendingMax
  /\ q.sink = NoDevice => q.pend = <<>> /\ ~q.done

Sounds(u) == u # Quiet

\* heard and pend, one after the other, are in order and before the unit next.
Queued(heard, pend, next) ==
  /\ \A i, j \in DOMAIN heard : i < j /\ Sounds(heard[i]) /\ Sounds(heard[j]) => Before(heard[i], heard[j])
  /\ \A i, j \in DOMAIN pend : i < j /\ Sounds(pend[i]) /\ Sounds(pend[j]) => Before(pend[i], pend[j])
  /\ \A i \in DOMAIN heard, j \in DOMAIN pend :
        Sounds(heard[i]) /\ Sounds(pend[j]) => Before(heard[i], pend[j])
  /\ \A i \in DOMAIN heard : Sounds(heard[i]) => Before(heard[i], next)
  /\ \A i \in DOMAIN pend : Sounds(pend[i]) => Before(pend[i], next)

\* What waits for the next frame of the session.
Waits(q, next) == QueueOK(q) /\ Queued(q.heard, q.pend, next)

NextUnit == [session |-> feed.session, number |-> feed.number]

FeedOK ==
  /\ feed \in [session : Nat, number : Nat]
  /\ device \in Rates \union {NoDevice}
  /\ track \in [seq_valid : BOOLEAN, last : Nat, index_valid : BOOLEAN, next : Nat]
  /\ track.index_valid => track.seq_valid /\ track.next = track.last + 1

PlayInv == FeedOK /\ Waits(out, NextUnit)

LEMMA Sizes ==
  /\ Prefill \in Nat \ {0} /\ PrefillWait \in Nat \ {0} /\ PendingMax \in Nat \ {0}
  /\ SinkSize \in Nat \ {0} /\ Prefill <= PendingMax
BY PlayAssumption

-----------------------------------------------------------------------------
(* Sequences *)

LEMMA ConcatTyped ==
  ASSUME NEW S, NEW s \in Seq(S), NEW t \in Seq(S), NEW c, c = s \o t
  PROVE  /\ c \in Seq(S) /\ Len(c) = Len(s) + Len(t) /\ DOMAIN c = 1 .. Len(s) + Len(t)
         /\ \A i \in 1 .. Len(s) + Len(t) : c[i] = IF i <= Len(s) THEN s[i] ELSE t[i - Len(s)]
BY ConcatProperties

LEMMA SuffixProperties ==
  ASSUME NEW S, NEW s \in Seq(S), NEW k \in 0 .. Len(s)
  PROVE  /\ SubSeq(s, k + 1, Len(s)) \in Seq(S) /\ Len(SubSeq(s, k + 1, Len(s))) = Len(s) - k
         /\ DOMAIN SubSeq(s, k + 1, Len(s)) = 1 .. Len(s) - k
         /\ \A i \in 1 .. Len(s) - k : SubSeq(s, k + 1, Len(s))[i] = s[k + i]
<1>1. Len(s) \in Nat
  OBVIOUS
<1>2. k + 1 \in 1 .. Len(s) + 1 /\ Len(s) \in k .. Len(s)
  BY <1>1
<1>3. /\ SubSeq(s, k + 1, Len(s)) \in Seq(S)
      /\ Len(SubSeq(s, k + 1, Len(s))) = IF k + 1 <= Len(s) THEN Len(s) - (k + 1) + 1 ELSE 0
      /\ \A i \in 1 .. Len(s) - (k + 1) + 1 : SubSeq(s, k + 1, Len(s))[i] = s[k + 1 + i - 1]
  BY <1>1, <1>2, SubSeqProperties
<1>4. Len(SubSeq(s, k + 1, Len(s))) = Len(s) - k
  BY <1>1, <1>3
<1>5. DOMAIN SubSeq(s, k + 1, Len(s)) = 1 .. Len(s) - k
  BY <1>3, <1>4
<1>6. ASSUME NEW i \in 1 .. Len(s) - k
      PROVE  SubSeq(s, k + 1, Len(s))[i] = s[k + i]
  <2>1. i \in 1 .. Len(s) - (k + 1) + 1 /\ k + 1 + i - 1 = k + i
    BY <1>1
  <2> QED
    BY <1>3, <2>1
<1> QED
  BY <1>3, <1>4, <1>5, <1>6

LEMMA PrefixProperties ==
  ASSUME NEW S, NEW s \in Seq(S), NEW k \in 0 .. Len(s)
  PROVE  /\ SubSeq(s, 1, k) \in Seq(S) /\ Len(SubSeq(s, 1, k)) = k
         /\ \A i \in 1 .. k : SubSeq(s, 1, k)[i] = s[i]
<1>1. Len(s) \in Nat
  OBVIOUS
<1> QED
  BY <1>1, SubSeqProperties

LEMMA LeastOfThree ==
  ASSUME NEW a \in Nat, NEW b \in Nat, NEW c \in Nat
  PROVE  /\ Least({a, b, c}) \in {a, b, c}
         /\ Least({a, b, c}) <= a /\ Least({a, b, c}) <= b /\ Least({a, b, c}) <= c
<1>1. \E x \in {a, b, c} : \A y \in {a, b, c} : x <= y
  <2>1. CASE a <= b /\ a <= c
    BY <2>1
  <2>2. CASE b <= a /\ b <= c
    BY <2>2
  <2>3. CASE c <= a /\ c <= b
    BY <2>3
  <2> QED
    BY <2>1, <2>2, <2>3
<1> QED
  BY <1>1 DEF Least

-----------------------------------------------------------------------------
(* The queue *)

LEMMA NewSinkFields ==
  ASSUME NEW q \in OutType, NEW a, NEW b, NEW c, NEW d, NEW e
  PROVE  [q EXCEPT !.sink = a, !.free = b, !.pend = c, !.done = d, !.wait = e]
           = [sink |-> a, free |-> b, pend |-> c, done |-> d, wait |-> e, heard |-> q.heard]
<1>1. q = [sink |-> q.sink, free |-> q.free, pend |-> q.pend,
            done |-> q.done, wait |-> q.wait, heard |-> q.heard]
  BY DEF OutType
<1> DEFINE f1 == [q EXCEPT !.sink = a]
           f2 == [f1 EXCEPT !.free = b]
           f3 == [f2 EXCEPT !.pend = c]
           f4 == [f3 EXCEPT !.done = d]
           f5 == [f4 EXCEPT !.wait = e]
<1>2. f1 = [sink |-> a, free |-> q.free, pend |-> q.pend,
            done |-> q.done, wait |-> q.wait, heard |-> q.heard]
  BY <1>1
<1> HIDE DEF f1
<1>3. f2 = [sink |-> a, free |-> b, pend |-> q.pend,
            done |-> q.done, wait |-> q.wait, heard |-> q.heard]
  BY <1>2
<1> HIDE DEF f2
<1>4. f3 = [sink |-> a, free |-> b, pend |-> c,
            done |-> q.done, wait |-> q.wait, heard |-> q.heard]
  BY <1>3
<1> HIDE DEF f3
<1>5. f4 = [sink |-> a, free |-> b, pend |-> c,
            done |-> d, wait |-> q.wait, heard |-> q.heard]
  BY <1>4
<1> HIDE DEF f4
<1>6. f5 = [sink |-> a, free |-> b, pend |-> c,
            done |-> d, wait |-> e, heard |-> q.heard]
  BY <1>5
<1> QED
  BY <1>6 DEF f1, f2, f3, f4

LEMMA NewSinkKeeps ==
  ASSUME NEW q, NEW next, Waits(q, next), NEW rate \in Rates \union {NoDevice}
  PROVE  Waits(NewSink(q, rate), next)
<1>1. <<>> \in Seq(UnitType) /\ Len(<<>>) = 0 /\ DOMAIN <<>> = {}
  BY EmptySeq
<1>2. q \in OutType /\ q.heard \in Seq(UnitType)
  BY DEF Waits, QueueOK, OutType
<1>3. NewSink(q, rate) = [sink |-> rate, free |-> SinkSize, pend |-> <<>>, done |-> FALSE,
                          wait |-> 0, heard |-> q.heard]
  <2>1. PICK none, no, zero : none = <<>> /\ no = FALSE /\ zero = 0
    OBVIOUS
  <2>2. NewSink(q, rate) = [q EXCEPT !.sink = rate, !.free = SinkSize, !.pend = none,
                                     !.done = no, !.wait = zero]
    BY <2>1 DEF NewSink
  <2>3. NewSink(q, rate) = [sink |-> rate, free |-> SinkSize, pend |-> none,
                            done |-> no, wait |-> zero, heard |-> q.heard]
    BY <1>2, <2>2, NewSinkFields
  <2> QED
    BY <2>1, <2>3
<1>4. NewSink(q, rate) \in OutType
  BY <1>1, <1>2, <1>3, Sizes DEF OutType
<1> QED
  BY <1>1, <1>3, <1>4, Sizes DEF Waits, QueueOK, Queued

LEMMA EnsureKeeps ==
  ASSUME NEW q, NEW next, Waits(q, next), NEW ok \in BOOLEAN, FeedOK
  PROVE  Waits(Ensure(q, ok), next)
<1>1. (IF ok THEN device ELSE NoDevice) \in Rates \union {NoDevice}
  BY DEF FeedOK
<1> QED
  BY <1>1, NewSinkKeeps DEF Ensure

\* Units that go to the sink are heard after those before them: every unit of
\* the new sequences is one of the old, in the same order.
LEMMA TakenInOrder ==
  ASSUME NEW h \in Seq(UnitType), NEW p \in Seq(UnitType), NEW next, Queued(h, p, next),
         NEW k \in 0 .. Len(p)
  PROVE  /\ h \o SubSeq(p, 1, k) \in Seq(UnitType)
         /\ SubSeq(p, k + 1, Len(p)) \in Seq(UnitType)
         /\ Len(SubSeq(p, k + 1, Len(p))) = Len(p) - k
         /\ Queued(h \o SubSeq(p, 1, k), SubSeq(p, k + 1, Len(p)), next)
<1>0. PICK c, left : c = h \o SubSeq(p, 1, k) /\ left = SubSeq(p, k + 1, Len(p))
  OBVIOUS
<1>1. Queued(h, p, next)
  OBVIOUS
<1>2. Len(h) \in Nat /\ Len(p) \in Nat /\ DOMAIN h = 1 .. Len(h) /\ DOMAIN p = 1 .. Len(p)
  OBVIOUS
<1>3. PICK taken : /\ taken = SubSeq(p, 1, k) /\ taken \in Seq(UnitType) /\ Len(taken) = k
                   /\ \A i \in 1 .. k : taken[i] = p[i]
  BY PrefixProperties
<1>4. /\ left \in Seq(UnitType) /\ Len(left) = Len(p) - k
      /\ DOMAIN left = 1 .. Len(p) - k /\ \A i \in 1 .. Len(p) - k : left[i] = p[k + i]
  BY <1>0, SuffixProperties
<1>5. c = h \o taken
  BY <1>0, <1>3
<1>6. /\ c \in Seq(UnitType) /\ DOMAIN c = 1 .. Len(h) + k
      /\ \A i \in 1 .. Len(h) + k : c[i] = IF i <= Len(h) THEN h[i] ELSE taken[i - Len(h)]
  BY <1>3, <1>5, ConcatTyped
<1>7. \A i \in 1 .. Len(h) : c[i] = h[i] /\ i \in DOMAIN h
  BY <1>2, <1>6
<1>8. ASSUME NEW i \in Len(h) + 1 .. Len(h) + k
      PROVE  c[i] = p[i - Len(h)] /\ i - Len(h) \in DOMAIN p
  <2>1. PICK j \in 1 .. k : j = i - Len(h)
    BY <1>2
  <2>2. i \in 1 .. Len(h) + k /\ ~(i <= Len(h)) /\ j \in 1 .. Len(p)
    BY <1>2
  <2>3. c[i] = taken[j]
    BY <1>6, <2>1, <2>2
  <2>4. taken[j] = p[j]
    BY <1>3
  <2> QED
    BY <1>2, <2>1, <2>2, <2>3, <2>4
<1>9. \A i \in 1 .. Len(h) + k : i \in 1 .. Len(h) \/ i \in Len(h) + 1 .. Len(h) + k
  BY <1>2
<1>10. Queued(c, left, next)
  <2>1. ASSUME NEW i \in 1 .. Len(h) + k, NEW j \in 1 .. Len(h) + k, i < j,
               Sounds(c[i]), Sounds(c[j])
        PROVE  Before(c[i], c[j])
    <3>1. CASE j <= Len(h)
      <4>1. i \in 1 .. Len(h) /\ j \in 1 .. Len(h)
        BY <1>2, <2>1, <3>1
      <4> QED
        BY <1>1, <1>7, <2>1, <4>1 DEF Queued
    <3>2. CASE i <= Len(h) /\ j > Len(h)
      <4>1. i \in 1 .. Len(h) /\ j \in Len(h) + 1 .. Len(h) + k
        BY <1>2, <3>2
      <4> QED
        BY <1>1, <1>7, <1>8, <2>1, <4>1 DEF Queued
    <3>3. CASE i > Len(h)
      <4>1. /\ i \in Len(h) + 1 .. Len(h) + k /\ j \in Len(h) + 1 .. Len(h) + k
            /\ i - Len(h) < j - Len(h)
        BY <1>2, <2>1, <3>3
      <4> QED
        BY <1>1, <1>8, <2>1, <4>1 DEF Queued
    <3> QED
      BY <1>2, <2>1, <3>1, <3>2, <3>3
  <2>2. ASSUME NEW i \in 1 .. Len(p) - k, NEW j \in 1 .. Len(p) - k, i < j,
               Sounds(left[i]), Sounds(left[j])
        PROVE  Before(left[i], left[j])
    <3>1. k + i \in DOMAIN p /\ k + j \in DOMAIN p /\ k + i < k + j
      BY <1>2, <2>2
    <3> QED
      BY <1>1, <1>4, <2>2, <3>1 DEF Queued
  <2>3. ASSUME NEW i \in 1 .. Len(h) + k, NEW j \in 1 .. Len(p) - k, Sounds(c[i]), Sounds(left[j])
        PROVE  Before(c[i], left[j])
    <3>1. k + j \in DOMAIN p /\ left[j] = p[k + j]
      <4>1. left[j] = p[k + j]
        BY <1>4
      <4> QED
        BY <1>2, <4>1
    <3>2. CASE i \in 1 .. Len(h)
      BY <1>1, <1>7, <2>3, <3>1, <3>2 DEF Queued
    <3>3. CASE i \in Len(h) + 1 .. Len(h) + k
      <4>1. i - Len(h) < k + j
        BY <1>2, <3>3
      <4> QED
        BY <1>1, <1>8, <2>3, <3>1, <3>3, <4>1 DEF Queued
    <3> QED
      BY <1>9, <3>2, <3>3
  <2>4. ASSUME NEW i \in 1 .. Len(h) + k, Sounds(c[i])
        PROVE  Before(c[i], next)
    <3>1. CASE i \in 1 .. Len(h)
      BY <1>1, <1>7, <2>4, <3>1 DEF Queued
    <3>2. CASE i \in Len(h) + 1 .. Len(h) + k
      BY <1>1, <1>8, <2>4, <3>2 DEF Queued
    <3> QED
      BY <1>9, <3>1, <3>2
  <2>5. ASSUME NEW i \in 1 .. Len(p) - k, Sounds(left[i])
        PROVE  Before(left[i], next)
    <3>1. k + i \in DOMAIN p /\ left[i] = p[k + i]
      BY <1>2, <1>4
    <3> QED
      BY <1>1, <2>5, <3>1 DEF Queued
  <2> QED
    BY <1>4, <1>6, <2>1, <2>2, <2>3, <2>4, <2>5 DEF Queued
<1> QED
  BY <1>0, <1>4, <1>6, <1>10

LEMMA TakenKeeps ==
  ASSUME NEW q, NEW next, Waits(q, next), NEW k \in 0 .. Len(q.pend), k <= q.free
  PROVE  Waits(Taken(q, k), next)
<1>1. /\ q \in OutType /\ q.heard \in Seq(UnitType) /\ q.pend \in Seq(UnitType)
      /\ Len(q.pend) <= PendingMax /\ q.free \in 0 .. SinkSize
      /\ (q.sink = NoDevice => q.pend = <<>> /\ ~q.done) /\ Queued(q.heard, q.pend, next)
  BY DEF Waits, QueueOK, OutType
<1>2. Len(q.pend) \in Nat /\ k \in Nat
  BY <1>1
<1>3. PICK c, left : c = q.heard \o SubSeq(q.pend, 1, k) /\ left = SubSeq(q.pend, k + 1, Len(q.pend))
  OBVIOUS
<1>4. /\ c \in Seq(UnitType) /\ left \in Seq(UnitType) /\ Len(left) = Len(q.pend) - k
      /\ Queued(c, left, next)
  <2>1. /\ q.heard \o SubSeq(q.pend, 1, k) \in Seq(UnitType)
        /\ SubSeq(q.pend, k + 1, Len(q.pend)) \in Seq(UnitType)
        /\ Len(SubSeq(q.pend, k + 1, Len(q.pend))) = Len(q.pend) - k
        /\ Queued(q.heard \o SubSeq(q.pend, 1, k), SubSeq(q.pend, k + 1, Len(q.pend)), next)
    BY <1>1, TakenInOrder
  <2> QED
    BY <1>3, <2>1
<1>5. Taken(q, k) = [q EXCEPT !.heard = c, !.free = q.free - k, !.pend = left]
  BY <1>3 DEF Taken
<1>6. Taken(q, k) = [sink |-> q.sink, free |-> q.free - k, pend |-> left, done |-> q.done,
                     wait |-> q.wait, heard |-> c]
  BY <1>1, <1>5 DEF OutType
<1>7. Taken(q, k) \in OutType
  BY <1>1, <1>2, <1>4, <1>6, Sizes DEF OutType
<1>8. Len(left) <= PendingMax /\ (q.pend = <<>> => left = <<>>)
  BY <1>1, <1>2, <1>4, Sizes, EmptySeq
<1> QED
  BY <1>1, <1>4, <1>6, <1>7, <1>8 DEF Waits, QueueOK

LEMMA DrainedKeeps ==
  ASSUME NEW q, NEW next, Waits(q, next), NEW accepts \in Nat
  PROVE  Waits(Drained(q, accepts), next)
<1> DEFINE k == Least({Len(q.pend), q.free, accepts})
<1>1. Len(q.pend) \in Nat /\ q.free \in Nat
  BY Sizes DEF Waits, QueueOK, OutType
<1>2. k \in Nat /\ k <= Len(q.pend) /\ k <= q.free
  BY <1>1, LeastOfThree
<1> HIDE DEF k
<1>3. Waits(Taken(q, k), next)
  BY <1>1, <1>2, TakenKeeps
<1> QED
  BY <1>3 DEF Drained, k

Later(next, after) == \A v \in UnitType : Before(v, next) => Before(v, after)

LEMMA LaterKeeps ==
  ASSUME NEW q, NEW next, NEW after, Waits(q, next), Later(next, after)
  PROVE  Waits(q, after)
<1>1. /\ q.heard \in Seq(UnitType) /\ q.pend \in Seq(UnitType)
      /\ Queued(q.heard, q.pend, next)
  BY DEF Waits, QueueOK, OutType
<1>2. \A i \in DOMAIN q.heard : q.heard[i] \in UnitType
  BY <1>1
<1>3. \A i \in DOMAIN q.pend : q.pend[i] \in UnitType
  BY <1>1
<1>4. Queued(q.heard, q.pend, after)
  BY <1>1, <1>2, <1>3 DEF Queued, Later
<1> QED
  BY <1>4 DEF Waits

\* The oldest units go: what is left is in the same order.
LEMMA CappedInOrder ==
  ASSUME NEW h \in Seq(UnitType), NEW p \in Seq(UnitType), NEW next, Queued(h, p, next)
  PROVE  Capped(p) \in Seq(UnitType) /\ Len(Capped(p)) <= PendingMax /\ Queued(h, Capped(p), next)
<1>1. Len(p) \in Nat /\ DOMAIN p = 1 .. Len(p) /\ PendingMax \in Nat
  BY Sizes
<1>2. CASE Len(p) <= PendingMax
  BY <1>1, <1>2 DEF Capped
<1>3. CASE Len(p) > PendingMax
  <2>1. PICK d \in 0 .. Len(p) : d = Len(p) - PendingMax
    <3>1. Len(p) - PendingMax \in 0 .. Len(p)
      BY <1>1, <1>3
    <3> QED
      BY <3>1
  <2>2. PICK left : left = SubSeq(p, d + 1, Len(p)) /\ left = Capped(p)
    BY <1>3, <2>1 DEF Capped
  <2>3. /\ left \in Seq(UnitType) /\ Len(left) = Len(p) - d /\ DOMAIN left = 1 .. Len(p) - d
        /\ \A i \in 1 .. Len(p) - d : left[i] = p[d + i]
    BY <2>2, SuffixProperties
  <2>4. \A i \in 1 .. Len(p) - d : d + i \in DOMAIN p
    BY <1>1, <2>1
  <2>5. \A i, j \in 1 .. Len(p) - d : i < j => d + i < d + j
    BY <1>1, <2>1
  <2>6. Queued(h, left, next)
    BY <2>3, <2>4, <2>5 DEF Queued
  <2>7. Len(left) <= PendingMax
    BY <1>1, <2>1, <2>3
  <2> QED
    BY <2>2, <2>3, <2>6, <2>7
<1> QED
  BY <1>1, <1>2, <1>3

LEMMA AppendedInOrder ==
  ASSUME NEW h \in Seq(UnitType), NEW p \in Seq(UnitType), NEW next, NEW after, Queued(h, p, next),
         NEW u \in UnitType, Sounds(u) => u = next /\ Before(u, after), Later(next, after)
  PROVE  Append(p, u) \in Seq(UnitType) /\ Queued(h, Append(p, u), after)
<1>1. PICK s, n : s = Append(p, u) /\ n = Len(p)
  OBVIOUS
<1>2. /\ n \in Nat /\ DOMAIN p = 1 .. n /\ s \in Seq(UnitType) /\ DOMAIN s = 1 .. n + 1
      /\ s[n + 1] = u /\ \A i \in 1 .. n : s[i] = p[i]
  BY <1>1, AppendProperties
<1>3. \A i \in 1 .. n + 1 : i = n + 1 \/ i \in 1 .. n
  BY <1>2
<1>4. (\A i \in DOMAIN h : h[i] \in UnitType) /\ (\A i \in 1 .. n : p[i] \in UnitType)
  BY <1>2
<1>5. ASSUME NEW i \in 1 .. n + 1, NEW j \in 1 .. n + 1, i < j, Sounds(s[i]), Sounds(s[j])
      PROVE  Before(s[i], s[j])
  <2>1. i \in 1 .. n
    BY <1>2, <1>5
  <2>2. CASE j \in 1 .. n
    BY <1>2, <1>5, <2>1, <2>2 DEF Queued
  <2>3. CASE j = n + 1
    BY <1>2, <1>5, <2>1, <2>3 DEF Queued
  <2> QED
    BY <1>3, <2>2, <2>3
<1>6. ASSUME NEW i \in DOMAIN h, NEW j \in 1 .. n + 1, Sounds(h[i]), Sounds(s[j])
      PROVE  Before(h[i], s[j])
  <2>1. CASE j \in 1 .. n
    BY <1>2, <1>6, <2>1 DEF Queued
  <2>2. CASE j = n + 1
    BY <1>2, <1>6, <2>2 DEF Queued
  <2> QED
    BY <1>3, <2>1, <2>2
<1>7. ASSUME NEW i \in 1 .. n + 1, Sounds(s[i])
      PROVE  Before(s[i], after)
  <2>1. CASE i \in 1 .. n
    BY <1>2, <1>4, <1>7, <2>1 DEF Queued, Later
  <2>2. CASE i = n + 1
    BY <1>2, <1>7, <2>2
  <2> QED
    BY <1>3, <2>1, <2>2
<1>8. \A i \in DOMAIN h : Sounds(h[i]) => Before(h[i], after)
  BY <1>4 DEF Queued, Later
<1>9. Queued(h, s, after)
  BY <1>2, <1>5, <1>6, <1>7, <1>8 DEF Queued
<1> QED
  BY <1>1, <1>2, <1>9

LEMMA AppendedKeeps ==
  ASSUME NEW q, NEW next, NEW after, Waits(q, next), q.sink # NoDevice,
         NEW u \in UnitType, Sounds(u) => u = next /\ Before(u, after), Later(next, after)
  PROVE  Waits(Appended(q, u), after) /\ Appended(q, u).sink = q.sink
<1>1. /\ q \in OutType /\ q.heard \in Seq(UnitType) /\ q.pend \in Seq(UnitType)
      /\ Queued(q.heard, q.pend, next)
  BY DEF Waits, QueueOK, OutType
<1>2. Append(q.pend, u) \in Seq(UnitType) /\ Queued(q.heard, Append(q.pend, u), after)
  BY <1>1, AppendedInOrder
<1>3. PICK c : c = Capped(Append(q.pend, u))
  OBVIOUS
<1>4. c \in Seq(UnitType) /\ Len(c) <= PendingMax /\ Queued(q.heard, c, after)
  BY <1>1, <1>2, <1>3, CappedInOrder
<1>5. PICK w \in 0 .. PrefillWait : w = IF q.pend = <<>> THEN 0 ELSE q.wait
  BY <1>1, Sizes DEF OutType
<1>6. Appended(q, u) = [q EXCEPT !.wait = w, !.pend = c]
  BY <1>3, <1>5 DEF Appended
<1>7. /\ Appended(q, u) \in OutType /\ Appended(q, u).heard = q.heard
      /\ Appended(q, u).pend = c /\ Appended(q, u).sink = q.sink
  BY <1>1, <1>4, <1>6 DEF OutType
<1> QED
  BY <1>4, <1>7 DEF Waits, QueueOK

LEMMA HandledKeeps ==
  ASSUME NEW q, NEW next, NEW after, Waits(q, next), FeedOK, NEW ok \in BOOLEAN, NEW accepts \in Nat,
         NEW u \in UnitType, Sounds(u) => u = next /\ Before(u, after), Later(next, after)
  PROVE  Waits(Handled(q, u, ok, accepts), after)
<1>1. PICK e : e = Ensure(q, ok)
  OBVIOUS
<1>2. Waits(e, next)
  BY <1>1, EnsureKeeps
<1>3. CASE e.sink = NoDevice
  <2>1. Handled(q, u, ok, accepts) = e
    BY <1>1, <1>3 DEF Handled
  <2> QED
    BY <1>2, <2>1, LaterKeeps
<1>4. CASE e.sink # NoDevice
  <2>1. PICK more : more = Appended(e, u)
    OBVIOUS
  <2>2. Waits(more, after) /\ more.sink # NoDevice
    BY <1>2, <1>4, <2>1, AppendedKeeps
  <2>3. PICK full : full = [more EXCEPT !.done = TRUE]
    OBVIOUS
  <2>4. more \in OutType
    BY <2>2 DEF Waits, QueueOK
  <2>5. /\ full \in OutType /\ full.sink = more.sink /\ full.pend = more.pend
        /\ full.heard = more.heard
    BY <2>3, <2>4 DEF OutType
  <2>6. Waits(full, after)
    BY <2>2, <2>5 DEF Waits, QueueOK
  <2>7. Handled(q, u, ok, accepts) = IF Prefilled(more) THEN Drained(full, accepts) ELSE more
    BY <1>1, <1>4, <2>1, <2>3 DEF Handled
  <2> QED
    BY <2>2, <2>6, <2>7, DrainedKeeps
<1> QED
  BY <1>3, <1>4

-----------------------------------------------------------------------------
(* The steps *)

LEMMA FrameKeeps ==
  ASSUME PlayInv, Frame
  PROVE  PlayInv'
<1> DEFINE next == NextUnit
           after == [session |-> feed.session, number |-> feed.number + 1]
<1>1. feed.session \in Nat /\ feed.number \in Nat /\ NextUnit = feed /\ next \in UnitType
  BY DEF PlayInv, FeedOK, NextUnit, UnitType
<1>2. feed' = after /\ NextUnit' = after /\ device' = device
  BY <1>1 DEF Frame, PlayInv, FeedOK, NextUnit
<1>3. Later(next, after) /\ Before(next, after)
  BY <1>1 DEF Later, Before, UnitType, NextUnit
<1>4. FeedOK'
  <2>1. feed' \in [session : Nat, number : Nat]
    BY <1>1, <1>2
  <2>2. CASE UNCHANGED track
    BY <1>2, <2>1, <2>2 DEF PlayInv, FeedOK
  <2>3. CASE track' = [seq_valid |-> TRUE, last |-> feed.number, index_valid |-> TRUE,
                       next |-> feed.number + 1]
    BY <1>1, <1>2, <2>1, <2>3 DEF PlayInv, FeedOK
  <2> QED
    BY <2>2, <2>3 DEF Frame, OnAudioFrame
<1>5. Waits(out, next) /\ FeedOK
  BY DEF PlayInv
<1>6. Later(next, next)
  BY DEF Later
<1>7. CASE OnAudioFrame(feed.number)
  <2>1. PICK ok \in BOOLEAN, accepts \in 0 .. SinkSize :
             LET filled == IF Gap(feed.number) THEN Handled(out, Quiet, ok, accepts) ELSE out
             IN  out' = Handled(filled, Unit(feed.number), ok, accepts)
    BY <1>7 DEF OnAudioFrame
  <2>2. PICK filled : /\ filled = IF Gap(feed.number) THEN Handled(out, Quiet, ok, accepts) ELSE out
                      /\ out' = Handled(filled, Unit(feed.number), ok, accepts)
    BY <2>1
  <2>3. accepts \in Nat /\ Quiet \in UnitType /\ ~Sounds(Quiet) /\ Unit(feed.number) = next
    BY Sizes DEF Quiet, UnitType, Sounds, Unit, NextUnit
  <2> HIDE DEF next, after
  <2>4. Waits(filled, next)
    BY <1>5, <1>6, <2>2, <2>3, HandledKeeps
  <2>5. Waits(out', after)
    BY <1>1, <1>3, <1>5, <2>2, <2>3, <2>4, HandledKeeps
  <2> QED
    BY <1>2, <1>4, <2>5 DEF PlayInv
<1>8. CASE UNCHANGED out
  <2> HIDE DEF next, after
  <2>1. Waits(out, after)
    BY <1>3, <1>5, LaterKeeps
  <2> QED
    BY <1>2, <1>4, <1>8, <2>1 DEF PlayInv
<1> QED
  BY <1>7, <1>8 DEF Frame

\* The sink and the clock do not touch the units.
LEMMA SinkKeeps ==
  ASSUME PlayInv, Play \/ Tick
  PROVE  PlayInv'
<1>1. out \in OutType
  BY DEF PlayInv, Waits, QueueOK
<1>2. /\ out' \in OutType /\ out'.sink = out.sink /\ out'.pend = out.pend
      /\ out'.heard = out.heard /\ out'.done = out.done
  <2>1. CASE Play
    <3>1. PICK n \in 0 .. SinkSize : n = out.free + 1
      BY <1>1, <2>1, Sizes DEF Play, OutType
    <3>2. out' = [out EXCEPT !.free = n]
      BY <2>1, <3>1 DEF Play
    <3> QED
      BY <1>1, <3>2 DEF OutType
  <2>2. CASE Tick
    <3>1. PICK n \in 0 .. PrefillWait : n = out.wait + 1
      BY <1>1, <2>2, Sizes DEF Tick, OutType
    <3>2. out' = [out EXCEPT !.wait = n]
      BY <2>2, <3>1 DEF Tick
    <3> QED
      BY <1>1, <3>2 DEF OutType
  <2> QED
    BY <2>1, <2>2
<1>3. FeedOK' /\ NextUnit' = NextUnit
  BY DEF PlayInv, FeedOK, Play, Tick, NextUnit
<1> QED
  BY <1>2, <1>3 DEF PlayInv, Waits, QueueOK

LEMMA PlayNextKeeps ==
  ASSUME PlayInv, [PlayNext]_playVars
  PROVE  PlayInv'
<1>1. CASE DrainTimer
  <2>1. PICK accepts \in 1 .. SinkSize : out' = Drained(out, accepts)
    BY <1>1 DEF DrainTimer
  <2>2. Waits(out', NextUnit)
    BY <2>1, Sizes, DrainedKeeps DEF PlayInv
  <2> QED
    BY <1>1, <2>2 DEF PlayInv, DrainTimer, FeedOK, NextUnit
<1>2. CASE SwitchSession
  <2>1. PICK n \in StartNumbers : feed' = [session |-> feed.session + 1, number |-> n]
    BY <1>2 DEF SwitchSession
  <2>2. n \in Nat /\ feed.session \in Nat /\ feed.number \in Nat
    BY PlayAssumption DEF PlayInv, FeedOK
  <2>3. Later(NextUnit, NextUnit') /\ out' = out
    BY <1>2, <2>1, <2>2 DEF Later, Before, UnitType, NextUnit, SwitchSession
  <2>4. FeedOK'
    BY <1>2, <2>1, <2>2 DEF PlayInv, FeedOK, SwitchSession
  <2>5. PICK after : after = NextUnit'
    OBVIOUS
  <2>6. Waits(out, after)
    BY <2>3, <2>5, LaterKeeps DEF PlayInv
  <2> QED
    BY <2>3, <2>4, <2>5, <2>6 DEF PlayInv
<1>3. CASE SwitchDevice
  BY <1>3 DEF PlayInv, FeedOK, SwitchDevice, NextUnit
<1>4. CASE UNCHANGED playVars
  BY <1>4 DEF PlayInv, FeedOK, playVars, NextUnit
<1> QED
  BY <1>1, <1>2, <1>3, <1>4, FrameKeeps, SinkKeeps DEF PlayNext

LEMMA PlayInitKeeps == PlayInit => PlayInv
<1> SUFFICES ASSUME PlayInit PROVE PlayInv
  OBVIOUS
<1>1. <<>> \in Seq(UnitType) /\ Len(<<>>) = 0 /\ DOMAIN <<>> = {}
  BY EmptySeq
<1>2. out \in OutType /\ out.pend = <<>> /\ out.heard = <<>> /\ out.done = FALSE
  BY <1>1, Sizes DEF PlayInit, OutType
<1>3. FeedOK
  BY DEF PlayInit, FeedOK, Untracked
<1> QED
  BY <1>1, <1>2, <1>3, Sizes DEF PlayInv, Waits, QueueOK, Queued

LEMMA QueuedIsInOrder ==
  ASSUME PlayInv
  PROVE  HeardInOrder
<1>1. PICK h, p, c : h = out.heard /\ p = out.pend /\ c = h \o p
  OBVIOUS
<1>2. h \in Seq(UnitType) /\ p \in Seq(UnitType) /\ Queued(h, p, NextUnit)
  BY <1>1 DEF PlayInv, Waits, QueueOK, OutType
<1>3. Len(h) \in Nat /\ Len(p) \in Nat /\ DOMAIN h = 1 .. Len(h) /\ DOMAIN p = 1 .. Len(p)
  BY <1>2
<1>4. /\ DOMAIN c = 1 .. Len(h) + Len(p)
      /\ \A i \in 1 .. Len(h) + Len(p) : c[i] = IF i <= Len(h) THEN h[i] ELSE p[i - Len(h)]
  <2>1. h \in Seq(UnitType) /\ p \in Seq(UnitType) /\ c = h \o p
    BY <1>1, <1>2
  <2> QED
    BY <2>1, ConcatTyped
<1>5. \A i \in 1 .. Len(h) : c[i] = h[i] /\ i \in DOMAIN h
  BY <1>3, <1>4
<1>6. \A i \in Len(h) + 1 .. Len(h) + Len(p) : c[i] = p[i - Len(h)] /\ i - Len(h) \in DOMAIN p
  BY <1>3, <1>4
<1>7. ASSUME NEW i \in DOMAIN c, NEW j \in DOMAIN c, i < j, Sounds(c[i]), Sounds(c[j])
      PROVE  Before(c[i], c[j])
  <2>1. CASE j <= Len(h)
    <3>1. i \in 1 .. Len(h) /\ j \in 1 .. Len(h)
      BY <1>3, <1>4, <1>7, <2>1
    <3> QED
      BY <1>2, <1>5, <1>7, <3>1 DEF Queued
  <2>2. CASE i <= Len(h) /\ j > Len(h)
    <3>1. i \in 1 .. Len(h) /\ j \in Len(h) + 1 .. Len(h) + Len(p)
      BY <1>3, <1>4, <2>2
    <3> QED
      BY <1>2, <1>5, <1>6, <1>7, <3>1 DEF Queued
  <2>3. CASE i > Len(h)
    <3>1. /\ i \in Len(h) + 1 .. Len(h) + Len(p) /\ j \in Len(h) + 1 .. Len(h) + Len(p)
          /\ i - Len(h) < j - Len(h)
      BY <1>3, <1>4, <1>7, <2>3
    <3> QED
      BY <1>2, <1>6, <1>7, <3>1 DEF Queued
  <2> QED
    BY <1>3, <1>4, <1>7, <2>1, <2>2, <2>3
<1> QED
  BY <1>1, <1>7 DEF HeardInOrder, InOrder, Sounds

\* The state of the audio is what it should be: the queue never longer than
\* allowed, and nothing in it without a sink; and what is heard and what is
\* queued is in the order it was sent in.
THEOREM AudioInOrder == PlaySpec => [](PlayTypeOK /\ HeardInOrder)
<1>1. PlayInv => PlayTypeOK
  BY DEF PlayInv, FeedOK, Waits, QueueOK, OutType, PlayTypeOK
<1> QED
  BY <1>1, PlayInitKeeps, PlayNextKeeps, QueuedIsInOrder, PTL DEF PlaySpec

-----------------------------------------------------------------------------
(* The streams                                                             *)
(*                                                                         *)
(* The cursor of the messages only passes what was received or lost.       *)

\* What the event bus still has of the messages up to the cursor was received.
NothingSkipped ==
  /\ {published, base, cursor} \subseteq Nat
  /\ base + 1 .. cursor \subseteq received

StreamInv == StreamTypeOK /\ NothingSkipped

\* No step but a read moves the messages under the cursor out of what was received.
LEMMA ReadMessageKeeps ==
  ASSUME StreamInv, ReadMessage
  PROVE  StreamInv'
<1> USE StreamsAssumption
<1>1. cursor' = (IF cursor < base THEN base + 1 ELSE cursor + 1) /\ cursor' <= published
      /\ received' = received \union {cursor'} /\ published' = published /\ base' = base
  BY DEF ReadMessage, serverSide
<1>2. published \in Nat /\ base \in Nat /\ cursor \in Nat /\ base + 1 .. cursor \subseteq received
      /\ received \subseteq 1 .. published
  BY DEF StreamInv, NothingSkipped, StreamTypeOK
<1>3. cursor' \in 1 .. published
  BY <1>1, <1>2
<1>4. NothingSkipped'
  BY <1>1, <1>2, <1>3 DEF NothingSkipped
<1>5. received' \subseteq 1 .. published'
  BY <1>1, <1>2, <1>3
<1>6. StreamTypeOK'
  BY <1>1, <1>2, <1>3, <1>5 DEF StreamInv, StreamTypeOK, ReadMessage, At, serverSide
<1> QED
  BY <1>4, <1>6 DEF StreamInv

LEMMA OpenKeeps ==
  ASSUME StreamInv, NEW s \in Streams, Open(s)
  PROVE  StreamInv'
<1>1. NothingSkipped' /\ cursor' <= published'
  BY DEF StreamInv, NothingSkipped, StreamTypeOK, Open, serverSide, FirstMessage
<1>2. StreamTypeOK'
  BY <1>1 DEF StreamInv, StreamTypeOK, Open, At, serverSide, GoesOn, streaming
<1> QED
  BY <1>1, <1>2 DEF StreamInv

\* The other steps of a loop: the cursor and what was received stay.
LEMMA LoopKeeps ==
  ASSUME StreamInv, NEW s \in Streams,
         \/ Leave(s) \/ CheckFlag(s) \/ ReadOther(s) \/ ReadEnds(s) \/ Finish(s) \/ PauseEnds(s)
  PROVE  StreamInv'
<1> USE StreamsAssumption
<1>1. NothingSkipped' /\ UNCHANGED <<serverSide, handler, cursor, stopper, received>>
  BY DEF StreamInv, NothingSkipped, Leave, CheckFlag, ReadOther, ReadEnds, Finish, PauseEnds,
         serverSide
<1>2. /\ link' \in [Streams -> {"top", "check", "reading", "finish", "pause", "exit"}]
      /\ \A t \in Streams : link[t] = "exit" => link'[t] = "exit"
  BY DEF StreamInv, StreamTypeOK, Leave, CheckFlag, ReadOther, ReadEnds, Finish, PauseEnds, At
<1>3. supported' \in [Streams -> BOOLEAN] /\ \A t \in Streams \ Optional : supported'[t]
  <2>1. CASE UNCHANGED supported
    BY <2>1 DEF StreamInv, StreamTypeOK
  <2>2. CASE supported' = [supported EXCEPT ![s] = @ /\ ~(streaming /\ GivenUp(s))]
    <3>1. supported' \in [Streams -> BOOLEAN]
      BY <2>2 DEF StreamInv, StreamTypeOK
    <3>2. ASSUME NEW t \in Streams \ Optional
          PROVE  supported'[t]
      <4>1. CASE t = s
        BY <2>2, <4>1 DEF StreamInv, StreamTypeOK, GivenUp
      <4>2. CASE t # s
        BY <2>2, <4>2 DEF StreamInv, StreamTypeOK
      <4> QED
        BY <4>1, <4>2
    <3> QED
      BY <3>1, <3>2
  <2> QED
    BY <2>1, <2>2 DEF Leave, CheckFlag, ReadOther, ReadEnds, Finish, PauseEnds
<1> QED
  BY <1>1, <1>2, <1>3 DEF StreamInv, StreamTypeOK, serverSide

LEMMA StopKeeps ==
  ASSUME StreamInv, StopStreaming \/ JoinThreads
  PROVE  StreamInv'
BY DEF StreamInv, NothingSkipped, StreamTypeOK, StopStreaming, JoinThreads, serverSide

LEMMA RemoteKeeps ==
  ASSUME StreamInv, Publish \/ ServerDown \/ ServerUp \/ \E s \in Streams : StreamBreaks(s)
  PROVE  StreamInv'
<1> USE StreamsAssumption
<1>1. NothingSkipped' /\ base' <= published' /\ published <= published' /\ UNCHANGED <<cursor, clientSide>>
  <2>1. CASE Publish
    BY <2>1 DEF StreamInv, NothingSkipped, StreamTypeOK, Publish, clientSide
  <2>2. CASE ServerDown
    BY <2>2 DEF StreamInv, NothingSkipped, StreamTypeOK, ServerDown, clientSide
  <2>3. CASE ServerUp
    BY <2>3 DEF StreamInv, NothingSkipped, StreamTypeOK, ServerUp, clientSide
  <2>4. CASE \E s \in Streams : StreamBreaks(s)
    BY <2>4 DEF StreamInv, NothingSkipped, StreamTypeOK, StreamBreaks, clientSide
  <2> QED
    BY <2>1, <2>2, <2>3, <2>4
<1>2. handler' \in [Streams -> {"none", "open", "lost", "refused"}] /\ lacks' \subseteq Optional
  BY DEF StreamInv, StreamTypeOK, Publish, ServerDown, ServerUp, StreamBreaks
<1>3. published \in Nat /\ published' \in Nat /\ cursor \in Nat
  BY <1>1 DEF StreamInv, NothingSkipped
<1>4. cursor' <= published' /\ received' \subseteq 1 .. published'
  BY <1>1, <1>3 DEF StreamInv, StreamTypeOK, clientSide
<1> QED
  BY <1>1, <1>2, <1>4 DEF StreamInv, StreamTypeOK, clientSide

\* The states of the streams are what they should be, and a message stream at
\* the end of what was published has missed nothing the event bus still has.
THEOREM StreamsMissNothing == StreamSpec => [](StreamTypeOK /\ NothingMissed)
<1>1. StreamInit => StreamInv
  BY StreamsAssumption DEF StreamInit, StreamInv, StreamTypeOK, NothingSkipped
<1>2. ASSUME StreamInv, [StreamNext]_streamVars
      PROVE  StreamInv'
  <2>1. CASE UNCHANGED streamVars
    BY <1>2, <2>1 DEF streamVars, serverSide, clientSide, StreamInv, StreamTypeOK, NothingSkipped
  <2> QED
    BY <1>2, <2>1, ReadMessageKeeps, OpenKeeps, LoopKeeps, StopKeeps, RemoteKeeps
       DEF StreamNext, Loop
<1>3. StreamInv => StreamTypeOK /\ NothingMissed
  BY DEF StreamInv, NothingSkipped, NothingMissed
<1> QED
  BY <1>1, <1>2, <1>3, PTL DEF StreamSpec

-----------------------------------------------------------------------------
(* The weather                                                             *)
(*                                                                         *)
(* The replies on their way are those of the last fetch, and what the panel *)
(* shows is what the last fetch got, or of the one before it.              *)

Labels == {"none", "weather", "time", "unavailable"}
FetcherType == [flight : SUBSET Parts, pending : BOOLEAN, payload : [Parts -> Nat], fetches : Nat]
PanelType == [table : [Parts -> Nat], label : Labels]
ReplyType == [part : Parts, fetch : Nat, failed : BOOLEAN]

\* The payload is what the last fetch got so far.
PayloadOK(f, got) ==
  /\ \A p \in f.flight : f.payload[p] = Nothing
  /\ \A p \in Parts : f.payload[p] = IF <<p, f.fetches>> \in got THEN f.fetches ELSE Nothing
  /\ \A p \in Parts, n \in Nat : <<p, n>> \in got => n # Nothing /\ n <= f.fetches

\* The replies on their way are of the last fetch: those that are awaited, and
\* the second signals of requests that failed.
RepliesOK(f, rest) ==
  /\ rest \subseteq ReplyType
  /\ \A r \in rest : r.fetch = f.fetches /\ (r.failed <=> r.part \notin f.flight)
  /\ \A p \in f.flight : Reply(p, f.fetches, FALSE) \in rest

OneFetch(cells) ==
  \A p, q \in Parts : cells[p] # Nothing /\ cells[q] # Nothing => cells[p] = cells[q]

Orderly(f, rest, cells, got) ==
  f \in FetcherType /\ PayloadOK(f, got) /\ RepliesOK(f, rest) /\ OneFetch(cells)

\* Between two slots nothing waits for a fetch that does not run, and the table
\* shows the payload that is whole.
Settled(f, cells) == f.flight = {} => ~f.pending /\ cells = f.payload

Calm ==
  /\ panel \in PanelType
  /\ Orderly(fetcher, replies, panel.table, answered) /\ Settled(fetcher, panel.table)

WeatherInv == overlap \in BOOLEAN /\ (overlap \/ Calm)

LEMMA BeginFetchKeeps ==
  ASSUME NEW f, NEW rest, NEW cells, NEW got,
         Orderly(f, rest, cells, got), f.flight = {} => ~f.pending,
         BeginFetch(f, rest), ~overlap, ~overlap'
  PROVE  Orderly(fetcher', replies', cells, got) /\ Settled(fetcher', cells)
<1>1. CASE Busy(f)
  <2>1. fetcher' = [f EXCEPT !.pending = TRUE] /\ replies' = rest
    BY <1>1 DEF BeginFetch
  <2>2. /\ fetcher' \in FetcherType /\ fetcher'.flight = f.flight /\ fetcher'.flight # {}
        /\ fetcher'.payload = f.payload /\ fetcher'.fetches = f.fetches
    BY <1>1, <2>1 DEF Orderly, FetcherType, Busy
  <2>3. PayloadOK(fetcher', got)
    BY <2>2 DEF Orderly, PayloadOK
  <2>4. RepliesOK(fetcher', replies')
    <3>1. RepliesOK(f, rest)
      BY DEF Orderly
    <3>2. \A r \in rest : r.fetch = fetcher'.fetches /\ (r.failed <=> r.part \notin fetcher'.flight)
      BY <2>2, <3>1 DEF RepliesOK
    <3>3. \A p \in fetcher'.flight : Reply(p, fetcher'.fetches, FALSE) \in rest
      BY <2>2, <3>1 DEF RepliesOK
    <3> QED
      BY <2>1, <3>1, <3>2, <3>3 DEF RepliesOK
  <2> QED
    BY <2>2, <2>3, <2>4 DEF Orderly, Settled
<1>2. CASE ~Busy(f)
  <2> DEFINE n == f.fetches + 1
  <2>1. /\ fetcher' = [f EXCEPT !.flight = Parts, !.fetches = n,
                                !.payload = [p \in Parts |-> Nothing]]
        /\ replies' = rest \union {Reply(p, n, FALSE) : p \in Parts}
        /\ \A r \in rest : ~r.failed
    BY <1>2 DEF BeginFetch
  <2>2. rest = {}
    BY <1>2, <2>1 DEF Orderly, RepliesOK, Busy
  <2>3. f.fetches \in Nat /\ n \in Nat
    BY DEF Orderly, FetcherType
  <2>4. fetcher' \in FetcherType
    BY <2>1, <2>3 DEF Orderly, FetcherType, Nothing
  <2>5. /\ fetcher'.flight = Parts /\ fetcher'.fetches = n
        /\ fetcher'.payload = [p \in Parts |-> Nothing]
    BY <2>1 DEF Orderly, FetcherType
  <2>6. PayloadOK(fetcher', got)
    <3>1. \A p \in Parts : <<p, n>> \notin got
      BY <2>3 DEF Orderly, PayloadOK
    <3>2. \A p \in Parts, m \in Nat : <<p, m>> \in got => m # Nothing /\ m <= n
      BY <2>3 DEF Orderly, PayloadOK
    <3> QED
      BY <2>5, <3>1, <3>2 DEF PayloadOK
  <2>7. RepliesOK(fetcher', replies')
    <3>1. \A p \in Parts : /\ Reply(p, n, FALSE) \in ReplyType /\ Reply(p, n, FALSE).fetch = n
                           /\ Reply(p, n, FALSE).part = p /\ Reply(p, n, FALSE).failed = FALSE
      BY <2>3 DEF Reply, ReplyType
    <3>2. replies' = {Reply(p, n, FALSE) : p \in Parts}
      BY <2>1, <2>2
    <3>3. ASSUME NEW r \in replies'
          PROVE  r \in ReplyType /\ r.fetch = n /\ r.failed = FALSE /\ r.part \in Parts
      <4>1. PICK p \in Parts : r = Reply(p, n, FALSE)
        BY <3>2
      <4> QED
        BY <3>1, <4>1
    <3>4. \A r \in replies' : r \in ReplyType /\ r.fetch = n /\ (r.failed <=> r.part \notin Parts)
      BY <3>3
    <3> HIDE DEF n
    <3> QED
      BY <2>5, <3>2, <3>4 DEF RepliesOK
  <2>8. fetcher'.flight # {}
    BY <2>5 DEF Parts
  <2> QED
    BY <2>4, <2>6, <2>7, <2>8 DEF Orderly, Settled
<1> QED
  BY <1>1, <1>2

LEMMA FinishKeeps ==
  ASSUME NEW f, NEW rest, NEW label, NEW got,
         panel \in PanelType, label \in Labels,
         Orderly(f, rest, panel.table, got),
         FinishIfReady(f, rest, label), ~overlap, ~overlap'
  PROVE  /\ panel' \in PanelType
         /\ Orderly(fetcher', replies', panel'.table, got) /\ Settled(fetcher', panel'.table)
<1>1. CASE f.flight # {}
  <2>1. /\ fetcher' = f /\ replies' = rest /\ panel'.table = panel.table
        /\ panel' \in PanelType
    BY <1>1 DEF FinishIfReady, PanelType
  <2> QED
    BY <1>1, <2>1 DEF Settled
<1>2. CASE f.flight = {}
  <2>1. panel'.table = f.payload /\ panel' \in PanelType
    BY <1>2 DEF FinishIfReady, PopulateWeatherWidget, Orderly, FetcherType, PanelType, Labels
  <2>2. Orderly(f, rest, panel'.table, got)
    BY <2>1 DEF Orderly, OneFetch, PayloadOK
  <2>3. CASE f.pending
    <3> DEFINE g == [f EXCEPT !.pending = FALSE]
    <3>1. BeginFetch(g, rest)
      BY <1>2, <2>3 DEF FinishIfReady
    <3>2. /\ g \in FetcherType /\ g.pending = FALSE /\ g.flight = f.flight
          /\ g.payload = f.payload /\ g.fetches = f.fetches
      BY <2>2 DEF Orderly, FetcherType
    <3> HIDE DEF g
    <3>3. Orderly(g, rest, panel'.table, got)
      BY <2>2, <3>2 DEF Orderly, PayloadOK, RepliesOK
    <3>4. PICK cells : cells = panel'.table
      OBVIOUS
    <3> QED
      BY <2>1, <3>1, <3>2, <3>3, <3>4, BeginFetchKeeps
  <2>4. CASE ~f.pending
    BY <1>2, <2>1, <2>2, <2>4 DEF FinishIfReady, Settled
  <2> QED
    BY <2>3, <2>4
<1> QED
  BY <1>1, <1>2

\* A reply lands: its part is awaited no more.
LEMMA ReplyLands ==
  ASSUME Calm, NEW r \in replies, ~r.failed
  PROVE  /\ r.part \in fetcher.flight /\ r.fetch = fetcher.fetches /\ r = Reply(r.part, r.fetch, FALSE)
         /\ r.part \in Parts
         /\ Landed(r.part) \in FetcherType /\ Landed(r.part).flight = fetcher.flight \ {r.part}
         /\ Landed(r.part).payload = fetcher.payload /\ Landed(r.part).fetches = fetcher.fetches
         /\ Landed(r.part).pending = fetcher.pending
         /\ \A s \in replies \ {r} : s.failed <=> s.part \notin fetcher.flight \ {r.part}
<1>1. /\ fetcher \in FetcherType /\ replies \subseteq ReplyType
      /\ \A s \in replies : s.fetch = fetcher.fetches /\ (s.failed <=> s.part \notin fetcher.flight)
  BY DEF Calm, Orderly, RepliesOK
<1>2. r.part \in fetcher.flight /\ r.fetch = fetcher.fetches /\ r.part \in Parts
  BY <1>1 DEF ReplyType
<1>3. \A s \in replies : ~s.failed => s = Reply(s.part, fetcher.fetches, FALSE)
  BY <1>1 DEF ReplyType, Reply
<1>4. /\ Landed(r.part) \in FetcherType /\ Landed(r.part).flight = fetcher.flight \ {r.part}
      /\ Landed(r.part).payload = fetcher.payload /\ Landed(r.part).fetches = fetcher.fetches
      /\ Landed(r.part).pending = fetcher.pending
  BY <1>1 DEF Landed, FetcherType
<1>5. ASSUME NEW s \in replies \ {r}
      PROVE  s.failed <=> s.part \notin fetcher.flight \ {r.part}
  <2>1. CASE s.failed
    BY <1>1, <2>1
  <2>2. CASE ~s.failed
    <3>1. s.part # r.part
      BY <1>3, <2>2
    <3> QED
      BY <1>1, <2>2, <3>1
  <2> QED
    BY <2>1, <2>2
<1> QED
  BY <1>2, <1>3, <1>4, <1>5

LEMMA ReplyComesKeeps ==
  ASSUME Calm, NEW r \in replies, ReplyComes(r), ~overlap, ~overlap'
  PROVE  Calm'
<1>1. PICK payload \in {r.fetch, Nothing} :
        /\ FinishIfReady([Landed(r.part) EXCEPT !.payload[r.part] = payload], replies \ {r}, panel.label)
        /\ answered' = IF payload = Nothing THEN answered ELSE answered \union {<<r.part, r.fetch>>}
  BY DEF ReplyComes
<1> DEFINE f == [Landed(r.part) EXCEPT !.payload[r.part] = payload]
<1>2. /\ r.part \in fetcher.flight /\ r.fetch = fetcher.fetches /\ r.part \in Parts
      /\ Landed(r.part) \in FetcherType /\ Landed(r.part).flight = fetcher.flight \ {r.part}
      /\ Landed(r.part).payload = fetcher.payload /\ Landed(r.part).fetches = fetcher.fetches
      /\ \A s \in replies \ {r} : s.failed <=> s.part \notin fetcher.flight \ {r.part}
  BY ReplyLands DEF ReplyComes
<1>3. /\ fetcher \in FetcherType /\ PayloadOK(fetcher, answered)
      /\ RepliesOK(fetcher, replies) /\ OneFetch(panel.table) /\ panel \in PanelType
  BY DEF Calm, Orderly
<1>4. /\ f \in FetcherType /\ f.flight = fetcher.flight \ {r.part} /\ f.fetches = fetcher.fetches
      /\ f.payload = [fetcher.payload EXCEPT ![r.part] = payload]
  BY <1>2, <1>3 DEF FetcherType, Nothing
<1> HIDE DEF f
<1>5. PayloadOK(f, answered')
  <2>1. fetcher.payload \in [Parts -> Nat] /\ fetcher.fetches \in Nat
    BY <1>3 DEF FetcherType
  <2>2. \A p \in f.flight : f.payload[p] = Nothing
    BY <1>3, <1>4, <2>1 DEF PayloadOK, FetcherType
  <2>3. <<r.part, fetcher.fetches>> \in answered => fetcher.fetches = Nothing
    BY <1>2, <1>3 DEF PayloadOK
  <2>4. ASSUME NEW p \in Parts
        PROVE  f.payload[p] = IF <<p, f.fetches>> \in answered' THEN f.fetches ELSE Nothing
    <3>1. CASE p = r.part
      BY <1>1, <1>2, <1>4, <2>1, <2>3, <3>1
    <3>2. CASE p # r.part
      <4>1. f.payload[p] = fetcher.payload[p]
        BY <1>4, <2>1, <3>2
      <4>2. <<p, f.fetches>> \in answered' <=> <<p, f.fetches>> \in answered
        BY <1>1, <3>2
      <4> QED
        BY <1>3, <1>4, <4>1, <4>2 DEF PayloadOK
    <3> QED
      BY <3>1, <3>2
  <2>5. ASSUME NEW p \in Parts, NEW n \in Nat, <<p, n>> \in answered'
        PROVE  n # Nothing /\ n <= f.fetches
    <3>1. CASE <<p, n>> \in answered
      BY <1>3, <1>4, <3>1 DEF PayloadOK
    <3>2. CASE <<p, n>> \notin answered
      <4>1. payload # Nothing /\ <<p, n>> = <<r.part, r.fetch>>
        BY <1>1, <2>5, <3>2
      <4> QED
        BY <1>2, <1>4, <2>1, <4>1
    <3> QED
      BY <3>1, <3>2
  <2> QED
    BY <2>2, <2>4, <2>5 DEF PayloadOK
<1>6. RepliesOK(f, replies \ {r})
  BY <1>2, <1>3, <1>4 DEF RepliesOK, Reply
<1>7. Orderly(f, replies \ {r}, panel.table, answered')
  BY <1>3, <1>4, <1>5, <1>6 DEF Orderly
<1>8. FinishIfReady(f, replies \ {r}, panel.label) /\ panel.label \in Labels
  BY <1>1, <1>3 DEF f, PanelType
<1>9. PICK got : got = answered'
  OBVIOUS
<1> QED
  BY <1>3, <1>7, <1>8, <1>9, FinishKeeps DEF Calm

LEMMA ErrorOccurredKeeps ==
  ASSUME Calm, NEW r \in replies, ErrorOccurred(r), ~overlap, ~overlap'
  PROVE  Calm'
<1> DEFINE f == Landed(r.part)
           late == Reply(r.part, r.fetch, TRUE)
           rest == (replies \ {r}) \union {late}
<1>1. FinishIfReady(f, rest, "unavailable") /\ answered' = answered
  BY DEF ErrorOccurred
<1>2. /\ r.part \in fetcher.flight /\ r.fetch = fetcher.fetches /\ r.part \in Parts
      /\ f \in FetcherType /\ f.flight = fetcher.flight \ {r.part}
      /\ f.payload = fetcher.payload /\ f.fetches = fetcher.fetches
      /\ \A s \in replies \ {r} : s.failed <=> s.part \notin fetcher.flight \ {r.part}
  BY ReplyLands DEF ErrorOccurred
<1>3. /\ fetcher \in FetcherType /\ PayloadOK(fetcher, answered)
      /\ RepliesOK(fetcher, replies) /\ OneFetch(panel.table) /\ panel \in PanelType
  BY DEF Calm, Orderly
<1>4. late \in ReplyType /\ late.fetch = r.fetch /\ late.part = r.part /\ late.failed = TRUE
  BY <1>2, <1>3 DEF Reply, ReplyType, FetcherType
<1> HIDE DEF f, late
<1>5. PayloadOK(f, answered)
  BY <1>2, <1>3 DEF PayloadOK
<1>6. RepliesOK(f, rest)
  BY <1>2, <1>3, <1>4 DEF RepliesOK, Reply
<1>7. Orderly(f, rest, panel.table, answered)
  BY <1>2, <1>3, <1>5, <1>6 DEF Orderly
<1> QED
  BY <1>1, <1>3, <1>7, FinishKeeps DEF Calm, Labels

\* The second signal of a failed request clears nothing more.
LEMMA FailedFinishedKeeps ==
  ASSUME Calm, NEW r \in replies, FailedFinished(r), ~overlap, ~overlap'
  PROVE  Calm'
<1> DEFINE f == Landed(r.part)
<1>1. FinishIfReady(f, replies \ {r}, panel.label) /\ answered' = answered /\ r.failed
  BY DEF FailedFinished
<1>2. /\ fetcher \in FetcherType /\ PayloadOK(fetcher, answered)
      /\ RepliesOK(fetcher, replies) /\ OneFetch(panel.table) /\ panel \in PanelType
  BY DEF Calm, Orderly
<1>3. r.part \notin fetcher.flight
  BY <1>1, <1>2 DEF RepliesOK
<1>4. f = fetcher
  BY <1>2, <1>3 DEF Landed, FetcherType
<1>5. RepliesOK(f, replies \ {r})
  BY <1>1, <1>2, <1>4 DEF RepliesOK, Reply
<1>6. Orderly(f, replies \ {r}, panel.table, answered) /\ panel.label \in Labels
  BY <1>2, <1>4, <1>5 DEF Orderly, PanelType
<1> HIDE DEF f
<1> QED
  BY <1>1, <1>2, <1>6, FinishKeeps DEF Calm

LEMMA TimerKeeps ==
  ASSUME Calm, StartHourlyUpdates \/ HandleTimer, ~overlap, ~overlap'
  PROVE  Calm'
<1>1. BeginFetch(fetcher, replies) /\ panel' = panel /\ answered' = answered
  BY DEF StartHourlyUpdates, HandleTimer
<1> QED
  BY <1>1, BeginFetchKeeps DEF Calm, Settled

LEMMA WeatherNextKeeps ==
  ASSUME WeatherInv, [WeatherNext]_weatherVars
  PROVE  WeatherInv'
<1>1. overlap' \in BOOLEAN /\ (overlap => overlap')
  <2>1. overlap \in BOOLEAN
    BY DEF WeatherInv
  <2>2. ASSUME NEW f, NEW rest, BeginFetch(f, rest)
        PROVE  overlap' \in BOOLEAN /\ (overlap => overlap')
    BY <2>1, <2>2 DEF BeginFetch
  <2>3. ASSUME NEW f, NEW rest, NEW label, FinishIfReady(f, rest, label)
        PROVE  overlap' \in BOOLEAN /\ (overlap => overlap')
    BY <2>1, <2>2, <2>3 DEF FinishIfReady
  <2>4. CASE UNCHANGED weatherVars
    BY <2>1, <2>4 DEF weatherVars
  <2>5. CASE StartHourlyUpdates \/ HandleTimer
    BY <2>2, <2>5 DEF StartHourlyUpdates, HandleTimer
  <2>6. ASSUME NEW r \in replies, ReplyComes(r) \/ ErrorOccurred(r) \/ FailedFinished(r)
        PROVE  overlap' \in BOOLEAN /\ (overlap => overlap')
    BY <2>3, <2>6 DEF ReplyComes, ErrorOccurred, FailedFinished
  <2> QED
    BY <2>4, <2>5, <2>6 DEF WeatherNext
<1> SUFFICES ASSUME ~overlap, ~overlap', Calm
             PROVE  Calm'
  BY <1>1 DEF WeatherInv
<1>2. CASE UNCHANGED weatherVars
  BY <1>2 DEF weatherVars, Calm, Orderly, Settled, PayloadOK, RepliesOK, OneFetch
<1> QED
  BY <1>2, TimerKeeps, ReplyComesKeeps, ErrorOccurredKeeps, FailedFinishedKeeps DEF WeatherNext

\* The table shows parts of one fetch, and all that the last one got once
\* nothing is on its way; but for a fetch that began between the two signals
\* of a failed request.
THEOREM WeatherIsShown == WeatherSpec => []WeatherShown
<1>1. ASSUME WeatherInit
      PROVE  WeatherInv
  <2> DEFINE none == [p \in Parts |-> Nothing]
  <2>1. /\ fetcher \in FetcherType /\ panel \in PanelType /\ fetcher.flight = {}
        /\ fetcher.payload = none /\ panel.table = none /\ fetcher.pending = FALSE
        /\ fetcher.fetches = 0 /\ replies = {} /\ answered = {} /\ overlap = FALSE
    BY <1>1 DEF WeatherInit, FetcherType, PanelType, Labels, Nothing
  <2>2. PayloadOK(fetcher, answered)
    BY <2>1 DEF PayloadOK
  <2>3. RepliesOK(fetcher, replies) /\ OneFetch(panel.table)
    BY <2>1 DEF RepliesOK, OneFetch
  <2> QED
    BY <2>1, <2>2, <2>3 DEF WeatherInv, Calm, Orderly, Settled
<1>2. ASSUME WeatherInv
      PROVE  WeatherShown
  <2>1. CASE overlap
    BY <2>1 DEF WeatherShown
  <2>2. CASE Calm
    <3>1. PayloadOK(fetcher, answered) /\ RepliesOK(fetcher, replies) /\ OneFetch(panel.table)
          /\ Settled(fetcher, panel.table) /\ fetcher \in FetcherType
      BY <2>2 DEF Calm, Orderly
    <3>2. replies = {} => fetcher.flight = {}
      BY <3>1 DEF RepliesOK
    <3>3. fetcher.flight = {} => ~fetcher.pending /\ panel.table = fetcher.payload
      BY <3>1 DEF Settled
    <3>4. \A p \in Parts :
             fetcher.payload[p] = IF <<p, fetcher.fetches>> \in answered THEN fetcher.fetches ELSE Nothing
      BY <3>1 DEF PayloadOK
    <3> QED
      BY <3>1, <3>2, <3>3, <3>4 DEF WeatherShown, OneFetch
  <2> QED
    BY <1>2, <2>1, <2>2 DEF WeatherInv
<1> QED
  BY <1>1, <1>2, WeatherNextKeeps, PTL DEF WeatherSpec
=============================================================================
