------------------------------- MODULE EventLog -------------------------------
(***************************************************************************)
(* The log of events and messages, JsonlLogger                             *)
(* (backend/src/jsonl_logger.cpp): lines are appended to the live file,    *)
(* which becomes the newest of MaxFiles + 1 old files when it is full.     *)
(*                                                                         *)
(* LogEvent and LogDecodedMessage hold the mutex from the first to the last*)
(* step, so no two of them interleave; but the process may be killed       *)
(* between any two calls of the file system, and starts again with the     *)
(* files it finds.  A line is its number.  MaxLines stands for max_bytes.  *)
(***************************************************************************)
EXTENDS Integers, Sequences

CONSTANTS MaxLines, MaxFiles,   \* max_bytes_, max_files_
          LogBound, KillBound

ASSUME LogAssumption ==
  /\ MaxLines \in Nat \ {0}
  /\ {MaxFiles, LogBound, KillBound} \subseteq Nat

VARIABLES
  live,    \* the lines of current_path_
  open,    \* stream_.is_open()
  old,     \* the lines of the files 0 (the newest) .. MaxFiles
  turn,    \* the rotation: "off", "shift" or "reopen"
  step,    \* i of the loop of RotateIfNeeded
  lines,   \* history: the number of lines logged
  kills    \* history: how often the process was killed

logVars == <<live, open, old, turn, step, lines, kills>>

NoFile == <<-1>>

LogInit ==
  /\ live = NoFile /\ open = FALSE /\ old = [i \in 0 .. MaxFiles |-> NoFile]
  /\ turn = "off" /\ step = 0 /\ lines = 0 /\ kills = 0

Content(f) == IF f = NoFile THEN <<>> ELSE f

-----------------------------------------------------------------------------

\* EnsureOpen appends to what is there.  A line that fills the file closes it.
Log ==
  /\ turn = "off" /\ lines < LogBound
  /\ lines' = lines + 1
  /\ live' = Append(Content(live), lines')
  /\ LET full == Len(live') >= MaxLines
     IN  /\ open' = ~full
         /\ turn' = IF full THEN "shift" ELSE "off"
  /\ step' = MaxFiles
  /\ UNCHANGED <<old, kills>>

\* Mutant: the loop leaves the newest file where it is.
MutantShifting(i) == i > 1

Shifting(i) == i > 0

RemoveOldest ==
  /\ turn = "shift" /\ Shifting(step) /\ step = MaxFiles /\ old[MaxFiles] # NoFile
  /\ old' = [old EXCEPT ![MaxFiles] = NoFile]
  /\ UNCHANGED <<live, open, turn, step, lines, kills>>

\* File i - 1 becomes file i, if there is one.
Shift ==
  /\ turn = "shift" /\ Shifting(step)
  /\ step = MaxFiles => old[MaxFiles] = NoFile
  /\ step' = step - 1
  /\ old' = IF old[step'] = NoFile THEN old
            ELSE [old EXCEPT ![step] = old[step'], ![step'] = NoFile]
  /\ UNCHANGED <<live, open, turn, lines, kills>>

\* Renaming replaces a file 0, which is still there if no old files are kept.
MoveLive ==
  /\ turn = "shift" /\ ~Shifting(step)
  /\ old' = [old EXCEPT ![0] = live] /\ live' = NoFile
  /\ turn' = "reopen"
  /\ UNCHANGED <<open, step, lines, kills>>

OpenLive ==
  /\ turn = "reopen"
  /\ live' = <<>> /\ open' = TRUE /\ turn' = "off"
  /\ UNCHANGED <<old, step, lines, kills>>

Kill ==
  /\ kills < KillBound /\ kills' = kills + 1
  /\ open' = FALSE /\ turn' = "off" /\ step' = 0
  /\ UNCHANGED <<live, old, lines>>

LogNext == Log \/ RemoveOldest \/ Shift \/ MoveLive \/ OpenLive \/ Kill

LogSpec == LogInit /\ [][LogNext]_logVars

-----------------------------------------------------------------------------

\* A file is newer than another: the live one, or one of a lower number.
Places == -1 .. MaxFiles
FileAt(i) == Content(IF i = -1 THEN live ELSE old[i])
LinesIn(f) == {f[k] : k \in DOMAIN f}

\* At any moment, with the process killed wherever it was, the files hold the
\* last lines that were logged, none missing, each file in order and the newer
\* lines in the newer file; and as long as anything was lost there are
\* MaxFiles + 1 full files of them, less one for each kill, which makes the
\* next rotation remove a file too early.
LogIsSuffix ==
  /\ \E lost \in 0 .. lines :
       /\ UNION {LinesIn(FileAt(i)) : i \in Places} = lost + 1 .. lines
       /\ lost > 0 => lines - lost >= (MaxFiles + 1 - kills) * MaxLines
  /\ \A i \in Places : \A k, l \in DOMAIN FileAt(i) : k < l => FileAt(i)[k] < FileAt(i)[l]
  /\ \A i, j \in Places : i < j =>
       \A m \in LinesIn(FileAt(i)), n \in LinesIn(FileAt(j)) : n < m
=============================================================================
