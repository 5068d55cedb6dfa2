----------------------------- MODULE AdsbFrames -----------------------------
(***************************************************************************)
(* adsb_demod (plugins/adsb_demod.c): Mode S frames from blocks of any     *)
(* size, with the end of the samples carried from block to block, and      *)
(* positions from an even and an odd frame, kept in a cache.               *)
(*                                                                         *)
(* A sample is the frame it belongs to and its place there.  demodulate2400*)
(* of libmodes is external: it finds the frames that begin at one of as    *)
(* many samples as the block has, and lie whole in the buffer.  The code's *)
(* sizes are constants: Overlap is 400, CacheSize 512, MaxAge 10000 ms, a  *)
(* long frame has 288 samples.                                             *)
(*                                                                         *)
(* Aircraft and the queue are external: frames at any distance, and blocks *)
(* that never come (the queue before ProcessLoop drops them, or their      *)
(* sample rate is refused).                                                *)
(***************************************************************************)
EXTENDS Integers, Sequences

CONSTANTS Aircraft,    \* the addresses, numbers
          FrameSize, Overlap, CacheSize, MaxAge,
          BlockSizes,  \* how many samples a block may have
          Gaps,        \* how many samples may lie between two frames
          Delays,      \* how much time may pass before a block
          AheadBound,  \* bound on the samples to come when a frame is sent
          FrameBound   \* bound on the number of frames

ASSUME AdsbAssumption ==
  /\ Aircraft \subseteq Nat
  /\ Overlap \in Nat /\ FrameSize \in 1 .. Overlap
  /\ CacheSize \in Nat \ {0} /\ MaxAge \in Nat
  /\ BlockSizes \subseteq Nat \ {0} /\ Gaps \subseteq Nat /\ Delays \subseteq Nat

VARIABLES
  stream,     \* the samples to come
  mag_buf,    \* the first Overlap samples of it
  cpr_cache,  \* cpr_cache
  time,       \* unix_ms of the last block
  frames      \* history, of every frame: what it says, how many samples lie
              \* ahead of it, how many of its own and of those behind it came,
              \* how often it was told, when and with which position

adsbVars == <<stream, mag_buf, cpr_cache, time, frames>>

Parities == {0, 1}

Nothing == [frame |-> 0, place |-> 0]

NoEntry == [icao |-> 0, ts |-> <<0, 0>>, pos |-> <<0, 0>>, valid |-> {}]

-----------------------------------------------------------------------------
(* The cache of positions *)

\* Mutant: the entry of another aircraft is taken as it is.
MutantCprGet(cache, icao) == [cache[icao % CacheSize] EXCEPT !.icao = icao]

\* cpr_get: another aircraft in this place is forgotten.
CprGet(cache, icao) ==
  LET e == cache[icao % CacheSize]
  IN  IF e.icao # icao THEN [NoEntry EXCEPT !.icao = icao] ELSE e

\* on_message: the entry with the frame in it; a position is the frame it came
\* with, so the even and the odd frame are kept by number.
Kept(e, f, parity, now) ==
  [icao |-> e.icao, ts |-> [e.ts EXCEPT ![parity + 1] = now],
   pos |-> [e.pos EXCEPT ![parity + 1] = f], valid |-> e.valid \union {parity}]

\* unix_ms - ts is unsigned: a time that lies ahead is no recent one.
Recent(ts, now) == ts <= now /\ now - ts <= MaxAge

\* The position that is told, from an even and an odd frame; <<>> if there is
\* none.
PositionOf(e, parity, now) ==
  LET other == 1 - parity
  IN  IF other \in e.valid /\ Recent(e.ts[other + 1], now) THEN e.pos ELSE <<>>

-----------------------------------------------------------------------------
(* Blocks *)

\* A frame begins at sample j, and lies whole in the buffer.
BeginsAt(buf, j) ==
  \A i \in 1 .. FrameSize :
    /\ buf[j + i - 1].frame > 0
    /\ buf[j + i - 1] = [frame |-> buf[j].frame, place |-> i]

\* Mutant: the end of the samples of the block, without what went before them.
MutantTailOf(buf, n) == SubSeq(buf, n, n + Overlap - 1)

\* The last Overlap samples, whether or not the block has as many.
TailOf(buf, n) == SubSeq(buf, n + 1, n + Overlap)

\* What the block brings; the air is quiet when nothing is sent.
Samples(n) == [i \in 1 .. n |-> IF i <= Len(stream) THEN stream[i] ELSE Nothing]

ToldNow(g, now, pos) == [g EXCEPT !.told = @ + 1, !.when = now, !.pos = pos]

\* on_message with frame f; what is told is the frame's own except for the position.
Tell(st, f, now) ==
  LET said == st.frames[f]
      e == Kept(CprGet(st.cache, said.icao), f, said.parity, now)
  IN  [cache  |-> [st.cache EXCEPT ![said.icao % CacheSize] = e],
       frames |-> [st.frames EXCEPT ![f] = ToldNow(said, now, PositionOf(e, said.parity, now))]]

\* demodulate2400: the frames that begin at the first n samples, one after another.
Demodulated(buf, n, now) ==
  LET Upto[j \in 0 .. n] ==
        IF j = 0 THEN [cache |-> cpr_cache, frames |-> frames]
        ELSE IF BeginsAt(buf, j) THEN Tell(Upto[j - 1], buf[j].frame, now)
        ELSE Upto[j - 1]
  IN  Upto[n]

\* A frame with n samples more.
Further(g, n) ==
  [g EXCEPT !.ahead = IF @ > n THEN @ - n ELSE 0,
            !.come = IF g.lost \/ @ > Overlap \/ n <= g.ahead THEN @ ELSE @ + n - g.ahead]

\* Blocks of quiet only let time pass; that is left to the delays.
AdsbBusy == stream # <<>> \/ \E f \in DOMAIN frames : ~frames[f].lost /\ frames[f].come <= Overlap

\* mr_plugin_process_iq with a block of n samples.
AdsbBlock(n, delay) ==
  LET buf == mag_buf \o Samples(n)
      now == time + delay
      after == Demodulated(buf, n, now)
  IN  /\ AdsbBusy
      /\ mag_buf' = TailOf(buf, n)
      /\ cpr_cache' = after.cache
      /\ time' = now
      /\ frames' = [f \in DOMAIN frames |-> Further(after.frames[f], n)]
      /\ stream' = SubSeq(stream, n + 1, Len(stream))

\* A block that does not come: the frames it touches are lost.
AdsbLost(n) ==
  /\ stream # <<>>
  /\ stream' = SubSeq(stream, n + 1, Len(stream))
  /\ frames' = [f \in DOMAIN frames |->
                 IF frames[f].come < FrameSize /\ frames[f].ahead < n
                 THEN [frames[f] EXCEPT !.lost = TRUE, !.ahead = 0, !.come = 0]
                 ELSE [frames[f] EXCEPT !.ahead = IF @ > n THEN @ - n ELSE 0]]
  /\ UNCHANGED <<mag_buf, cpr_cache, time>>

\* A frame with a position, behind what is still to come.
AdsbSend(icao, parity, gap) ==
  LET f == Len(frames) + 1
  IN  /\ f <= FrameBound /\ Len(stream) <= AheadBound
      /\ frames' = Append(frames, [icao |-> icao, parity |-> parity,
                                   ahead |-> Len(stream) + gap, come |-> 0, lost |-> FALSE,
                                   told |-> 0, when |-> 0, pos |-> <<>>])
      /\ stream' = stream \o [i \in 1 .. gap |-> Nothing]
                          \o [i \in 1 .. FrameSize |-> [frame |-> f, place |-> i]]
      /\ UNCHANGED <<mag_buf, cpr_cache, time>>

AdsbInit ==
  /\ stream = <<>>
  /\ mag_buf = [i \in 1 .. Overlap |-> Nothing]
  /\ cpr_cache = [i \in 0 .. CacheSize - 1 |-> NoEntry]
  /\ time = MaxAge + 1
  /\ frames = <<>>

AdsbNext ==
  \/ \E n \in BlockSizes, d \in Delays : AdsbBlock(n, d)
  \/ \E n \in BlockSizes : AdsbLost(n)
  \/ \E icao \in Aircraft, parity \in Parities, gap \in Gaps : AdsbSend(icao, parity, gap)

AdsbSpec == AdsbInit /\ [][AdsbNext]_adsbVars

-----------------------------------------------------------------------------

\* However the samples are cut into blocks, a frame that came whole is told
\* exactly once, as soon as more than Overlap samples of it and of what follows
\* have come, and one that did not is never told (adsb_demod.c:484).
EveryFrameOnce ==
  \A f \in DOMAIN frames :
    LET g == frames[f]
    IN  /\ g.told <= 1
        /\ g.lost => g.told = 0
        /\ ~g.lost /\ g.come > Overlap => g.told = 1

\* A position is made of the frame itself and of the last frame of the other
\* parity that was told of the same aircraft before it, within MaxAge; other
\* aircraft in the same place of the cache never mix in (adsb_demod.c:73).
PositionOfOneAircraft ==
  \A f \in DOMAIN frames :
    frames[f].pos # <<>> =>
      LET p == frames[f].parity
          other == frames[f].pos[2 - p]
      IN  /\ frames[f].pos[p + 1] = f
          /\ other \in 1 .. f - 1
          /\ frames[other].icao = frames[f].icao /\ frames[other].parity = 1 - p
          /\ frames[f].when - frames[other].when <= MaxAge
          /\ \A g \in other + 1 .. f - 1 :
               frames[g].told > 0 /\ frames[g].icao = frames[f].icao => frames[g].parity = p

\* Both: what the two caches of the demodulator, the samples that are carried
\* over and the positions, must not get wrong.
FramesTold == EveryFrameOnce /\ PositionOfOneAircraft
=============================================================================
