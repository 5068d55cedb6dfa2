----------------------------- MODULE IqRecording -----------------------------
(***************************************************************************)
(* Recordings of IQ samples: the plugin iq_recorder (plugins/iq_recorder.c)*)
(* with its files and their sidecars, and the calls that start, stop, feed *)
(* and deselect it (backend/src/receiver_worker.cpp, plugin_host.cpp).     *)
(*                                                                         *)
(* All receivers share one plugin: the parameters of any of them reach it, *)
(* and the blocks of all of them while it is the active demodulator.       *)
(* Client calls come one at a time (ReceiverManager holds its mutex), the  *)
(* host's mutex makes every call of the plugin one step, and Stop lets the *)
(* threads finish after it has ended the recording.  Of a file only the    *)
(* number of its blocks is kept; MaxBlocks stands for max_bytes.  The disk *)
(* may fail at any write, and the process be killed: a block is written    *)
(* through the buffer of stdio, whose rest is lost then.                   *)
(***************************************************************************)
EXTENDS Naturals, Sequences

CONSTANTS Receivers,
          Nobody,       \* no receiver is being stopped
          MaxBlocks,    \* max_bytes, 0 for no limit
          FileBound, BlockBound, ClientCalls

ASSUME RecordingAssumption ==
  /\ Nobody \notin Receivers
  /\ {MaxBlocks, FileBound, BlockBound, ClientCalls} \subseteq Nat

VARIABLES
  wanted,     \* the receivers whose modulation is VDES
  running,    \* running_
  stopping,   \* the receiver whose threads Stop waits for
  active,     \* the recorder is the active demodulator
  requested,  \* recording_requested
  failed,     \* write_failed
  now,        \* the number of the open file, 0 for none
  count,      \* block_count
  files,      \* the files on the disk, in the order they were started
  asked       \* history: the number of client calls

recordVars == <<wanted, running, stopping, active, requested, failed, now, count, files, asked>>

\* A sidecar; nothing can be read from one that was cut short.
Sidecar(complete, blocks) == [complete |-> complete, blocks |-> blocks]
Unreadable == Sidecar(FALSE, 0)

RecordInit ==
  /\ wanted = {} /\ running = {} /\ stopping = Nobody /\ active = FALSE
  /\ requested = FALSE /\ failed = FALSE /\ now = 0 /\ count = 0
  /\ files = <<>> /\ asked = 0

-----------------------------------------------------------------------------
(* The plugin *)

\* write_json rewrites the sidecar, or leaves the old one, or half of a new one.
Written(old, new) == {new, old, Unreadable}

\* Mutant: the counters are reset before the sidecar is written.
MutantReported(n) == 0

\* What the sidecar of a closed file says it holds.
Reported(n) == n

\* The end of the last block goes to the disk when the file is closed, or never.
CloseFile(lost) ==
  /\ lost => count > 0
  /\ \E s \in Written(files[now].sidecar, Sidecar(TRUE, Reported(count))) :
       files' = [files EXCEPT ![now].sidecar = s,
                              ![now].held = IF lost THEN @ - 1 ELSE @,
                              ![now].torn = lost]
  /\ now' = 0 /\ count' = 0

\* close_recording
Close ==
  IF now = 0 THEN UNCHANGED <<now, count, files>>
  ELSE \E lost \in BOOLEAN : CloseFile(lost)

\* mr_plugin_set_param: a file that is open stays open, and the request waits
\* until it is closed.
RecordingStart == requested' = TRUE /\ failed' = FALSE

RecordingStop == Close /\ requested' = FALSE /\ UNCHANGED failed

\* start_recording, with the block it is started for: no file, a file with the
\* block, or a file that is closed at once.
NewFile(held, sidecar) ==
  files' = Append(files, [held |-> held, torn |-> FALSE, sidecar |-> sidecar])

OpenFile ==
  /\ now = 0 /\ requested /\ Len(files) < FileBound
  /\ \/ failed' = TRUE /\ UNCHANGED <<requested, now, count, files>>
     \/ /\ \E s \in Written(Sidecar(FALSE, 0), Sidecar(FALSE, 1)) : NewFile(1, s)
        /\ now' = Len(files') /\ count' = 1
        /\ requested' = FALSE /\ UNCHANGED failed
     \/ /\ \E s \in Written(Sidecar(FALSE, 0), Sidecar(TRUE, Reported(0))) : NewFile(0, s)
        /\ requested' = FALSE /\ failed' = TRUE
        /\ UNCHANGED <<now, count>>

AtLimit == MaxBlocks > 0 /\ count >= MaxBlocks

\* A block that is not written whole ends the recording.
WriteBlock ==
  /\ now # 0 /\ ~AtLimit
  /\ \/ /\ \E s \in Written(files[now].sidecar, Sidecar(FALSE, count + 1)) :
             files' = [files EXCEPT ![now].held = @ + 1, ![now].sidecar = s]
        /\ count' = count + 1
        /\ UNCHANGED <<now, failed>>
     \/ Close /\ failed' = TRUE
  /\ UNCHANGED requested

\* The block that comes at the limit is lost.
EndFile == now # 0 /\ AtLimit /\ Close /\ UNCHANGED <<requested, failed>>

\* mr_plugin_process_iq, of any receiver whose threads run.
RecordBlock ==
  /\ running # {} \/ stopping # Nobody
  /\ active /\ ~failed
  /\ now # 0 /\ ~AtLimit => count < BlockBound
  /\ OpenFile \/ WriteBlock \/ EndFile
  /\ UNCHANGED <<wanted, running, stopping, active, asked>>

-----------------------------------------------------------------------------
(* The receivers *)

ClientCall == stopping = Nobody /\ asked < ClientCalls /\ asked' = asked + 1

\* PushPluginConfig: another modulation selects another demodulator and says
\* nothing to the recorder.
PushConfig(vdes) ==
  /\ active' = vdes
  /\ IF vdes THEN RecordingStart ELSE UNCHANGED <<requested, failed>>
  /\ UNCHANGED <<now, count, files>>

SetModulation(r, vdes) ==
  /\ ClientCall
  /\ wanted' = IF vdes THEN wanted \union {r} ELSE wanted \ {r}
  /\ PushConfig(vdes)
  /\ UNCHANGED <<running, stopping>>

StartReceiver(r) ==
  /\ ClientCall /\ r \notin running
  /\ running' = running \union {r}
  /\ PushConfig(r \in wanted)
  /\ UNCHANGED <<wanted, stopping>>

\* Stop ends the recording, whosever it is, before it waits for its threads.
StopReceiver(r) ==
  /\ ClientCall /\ r \in running
  /\ running' = running \ {r} /\ stopping' = r
  /\ RecordingStop
  /\ UNCHANGED <<wanted, active>>

ThreadsJoined ==
  /\ stopping # Nobody /\ stopping' = Nobody
  /\ UNCHANGED <<wanted, running, active, requested, failed, now, count, files, asked>>

\* ProcessLoop selects the demodulator of the block: the recorder on a VDES
\* channel of a scan list, another one on the next.
SwitchDemodulator ==
  /\ running # {} \/ stopping # Nobody
  /\ active' = ~active
  /\ UNCHANGED <<wanted, running, stopping, requested, failed, now, count, files, asked>>

\* The process is killed; the end of the last block may be lost.
KillServer ==
  /\ now # 0
  /\ \/ UNCHANGED files
     \/ count > 0 /\ files' = [files EXCEPT ![now].held = @ - 1, ![now].torn = TRUE]
  /\ wanted' = {} /\ running' = {} /\ stopping' = Nobody /\ active' = FALSE
  /\ requested' = FALSE /\ failed' = FALSE /\ now' = 0 /\ count' = 0
  /\ UNCHANGED asked

RecordNext ==
  \/ RecordBlock
  \/ \E r \in Receivers : StartReceiver(r) \/ StopReceiver(r)
  \/ \E r \in Receivers, vdes \in BOOLEAN : SetModulation(r, vdes)
  \/ ThreadsJoined \/ SwitchDemodulator \/ KillServer

RecordSpec == RecordInit /\ [][RecordNext]_recordVars

-----------------------------------------------------------------------------

\* A sidecar that says "recording_complete" is of a file that nobody writes
\* any more, and counts the whole blocks it holds, whatever failed -- but for
\* a last block that was counted before the disk refused its end; an open file
\* is never behind its sidecar; and when no receiver runs, no file is open.
RecordingsWhole ==
  /\ \A i \in DOMAIN files :
       LET f == files[i]
       IN  /\ f.sidecar.complete => i # now /\ f.sidecar.blocks = f.held + (IF f.torn THEN 1 ELSE 0)
           /\ i = now => f.sidecar.blocks <= f.held /\ f.held = count
  /\ running = {} /\ stopping = Nobody => now = 0
=============================================================================
