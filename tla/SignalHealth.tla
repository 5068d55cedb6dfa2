----------------------------- MODULE SignalHealth -----------------------------
(***************************************************************************)
(* The verdict on the signal of a receiver that IQ_STATS tells             *)
(* (backend/src/receiver_worker.cpp): the process thread adds every block  *)
(* to a window of iq_shared_, the run thread takes the window once a second*)
(* and judges it, and a hysteresis keeps the verdict from flickering.      *)
(*                                                                         *)
(* A block has a level and a signal-to-noise ratio, in units of the changes*)
(* that still count as stable, is clipped or not, and has the sample rate  *)
(* that is configured or another.  The level and the clipping of a window  *)
(* are means of its blocks; ratio and rate are those of the latest block,  *)
(* which stays when nothing comes any more.  Neither the window nor the    *)
(* latest block is reset when the receiver is started again; the run       *)
(* thread's counters are.                                                  *)
(***************************************************************************)
EXTENDS Integers, Sequences

CONSTANTS Blocks,          \* records of level, snr, clipped, rate_ok
          LevelMin, LevelMax, SnrMin,
          StableWindows,   \* stable_windows_required
          OnWindows,       \* hysteresis_on_windows
          OffWindows,      \* hysteresis_off_windows
          WindowBound, SessionBound

ASSUME HealthAssumption ==
  /\ Blocks \subseteq [level : Nat \ {0}, snr : Nat, clipped : BOOLEAN, rate_ok : BOOLEAN]
  /\ LevelMin \in Nat \ {0} /\ {LevelMax, SnrMin, WindowBound, SessionBound} \subseteq Nat
  /\ {StableWindows, OnWindows, OffWindows} \subseteq Nat \ {0}

VARIABLES
  window,    \* iq_shared_: the levels and the clippings since the last report
  latest,    \* iq_shared_.latest_block, or NoBlock
  judge,     \* the run thread's: prev, stable, good, bad, and signal_ok_latched
  judged,    \* history: the windows of this session
  sessions   \* history: how often the receiver was started again

healthVars == <<window, latest, judge, judged, sessions>>

NoBlock == [level |-> 0, snr |-> 0, clipped |-> FALSE, rate_ok |-> TRUE]
Empty == [levels |-> {}, clipped |-> {}]
NoPrev == [level |-> -1, snr |-> -1]
NewJudge == [prev |-> NoPrev, stable |-> 0, good |-> 0, bad |-> 0, ok |-> FALSE]

HealthInit ==
  /\ window = Empty /\ latest = NoBlock
  /\ judge = NewJudge /\ judged = <<>> /\ sessions = 0

-----------------------------------------------------------------------------

\* ProcessLoop
Accumulate ==
  /\ \E block \in Blocks :
       /\ latest' = block
       /\ window' = [levels |-> window.levels \union {block.level},
                     clipped |-> window.clipped \union {block.clipped}]
  /\ UNCHANGED <<judge, judged, sessions>>

\* The mean of a window without blocks is far below every limit.
Means(levels) ==
  IF levels = {} THEN {0}
  ELSE {x \in 1 .. LevelMax + 1 : \E lo, hi \in levels : lo <= x /\ x <= hi}

Close(prev, level, snr) ==
  prev # NoPrev => level - prev.level \in -1 .. 1 /\ snr - prev.snr \in -1 .. 1

\* The checks of one window but for its stability.
Sound(level, snr, clipping, rate_ok) ==
  rate_ok /\ level \in LevelMin .. LevelMax /\ ~clipping /\ snr >= SnrMin

\* The hysteresis.
Latch(ok, good, bad) == IF ok THEN bad < OffWindows ELSE good >= OnWindows

\* Mutant: a good window does not end a row of bad ones.
MutantVerdict(j, sound, stable) ==
  LET good == IF sound /\ stable >= StableWindows THEN j.good + 1 ELSE 0
      bad == IF good > 0 THEN j.bad ELSE j.bad + 1
  IN  [j EXCEPT !.stable = stable, !.good = good, !.bad = bad, !.ok = Latch(@, good, bad)]

Verdict(j, sound, stable) ==
  LET good == IF sound /\ stable >= StableWindows THEN j.good + 1 ELSE 0
      bad == IF good > 0 THEN 0 ELSE j.bad + 1
  IN  [j EXCEPT !.stable = stable, !.good = good, !.bad = bad, !.ok = Latch(@, good, bad)]

\* RunLoop, once a second.
Report ==
  /\ Len(judged) < WindowBound
  /\ window' = Empty
  /\ \E level \in Means(window.levels),
        clipping \in IF TRUE \in window.clipped THEN window.clipped ELSE {FALSE} :
       LET close == Close(judge.prev, level, latest.snr)
           sound == Sound(level, latest.snr, clipping, latest.rate_ok)
       IN  /\ judge' = [Verdict(judge, sound, IF close THEN judge.stable + 1 ELSE 0)
                          EXCEPT !.prev = [level |-> level, snr |-> latest.snr]]
           /\ judged' = Append(judged, [heard |-> window # Empty, close |-> close, sound |-> sound])
  /\ UNCHANGED <<latest, sessions>>

\* Stop, and another Start: a new run thread.
Restart ==
  /\ sessions < SessionBound /\ sessions' = sessions + 1
  /\ judge' = NewJudge /\ judged' = <<>>
  /\ UNCHANGED <<window, latest>>

HealthNext == Accumulate \/ Report \/ Restart

HealthSpec == HealthInit /\ [][HealthNext]_healthVars

-----------------------------------------------------------------------------

\* Window i and the ones before it that make it stable.
Good(i) ==
  /\ judged[i].sound
  /\ i >= StableWindows /\ \A k \in i - StableWindows + 1 .. i : judged[k].close

\* The last time the verdict was won, and lost.
Won(i)  == i >= OnWindows /\ \A k \in i - OnWindows + 1 .. i : Good(k)
Dropped(i) == i >= OffWindows /\ \A k \in i - OffWindows + 1 .. i : ~Good(k)

\* What IQ_STATS calls "signal_ok" follows from the windows of this session:
\* as many good ones in a row as it takes, and since then never as many bad
\* ones as it takes; so a device that goes silent is noticed in OffWindows
\* seconds, though its last block stays and looks good for ever, and so is a
\* session that begins with the blocks of the one before.
VerdictJustified ==
  /\ judge.ok <=> \E i \in DOMAIN judged : Won(i) /\ \A k \in i + 1 .. Len(judged) : ~Dropped(k)
  /\ judge.ok => \E i \in DOMAIN judged : i > Len(judged) - OffWindows /\ judged[i].heard
=============================================================================
