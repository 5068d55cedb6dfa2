----------------------------- MODULE SyncSearch -----------------------------
(***************************************************************************)
(* The search for a sync word in a stream of bits: vdes_asm_decoder        *)
(* (plugins/vdes_asm_decoder.c).  Every block is appended, the sync word   *)
(* may be tuned, the whole stream is searched from its start, and its end  *)
(* is kept for the next block, so that what is there is searched again.    *)
(*                                                                         *)
(* The code's words are kSync28, kBarker13 and what is made of them; its   *)
(* sizes are constants: StreamBits is 16384, KeepBits 512, LeastCand 96,   *)
(* DefaultCand 1056, TuneBits 4096, TuneLeast 128, TuneCap 4, TuneStride 2,*)
(* TuneEvery 32, TuneScore 8, and 320 offsets are one expected hit.        *)
(*                                                                         *)
(* The transmitter is external: noise, the sync word of the burst, either  *)
(* way up, and data.                                                       *)
(***************************************************************************)
EXTENDS Integers, Sequences, SequencesExt

CONSTANTS SyncWord,     \* kSync28, the one that is sent
          TuneWords,    \* patterns, in their order
          StreamBits, KeepBits, LeastCand, DefaultCand,
          TuneBits, TuneLeast, TuneCap, TuneStride, TuneEvery, TuneScore, OffsetsPerHit,
          TuneWeight,   \* of a hit with so many errors
          SyncBlocks,   \* the sizes of a block
          SyncNoises, SyncData,
          SyncParams,   \* <<key, value>>, as set_param accepts them
          SyncBound,    \* bound on the number of bursts
          SyncCalls     \* bound on the number of set_param calls

WordsUsed == {SyncWord} \union ToSet(TuneWords) \union {p[2] : p \in {q \in SyncParams : q[1] = "word"}}

\* A word is of bits, and what is set is what set_param accepts.
ASSUME SearchAssumption ==
  /\ {StreamBits, KeepBits, LeastCand, DefaultCand} \subseteq Nat /\ SyncBlocks \subseteq Nat \ {0}
  /\ \A n \in SyncBlocks : n + KeepBits <= StreamBits
  /\ \A w \in WordsUsed : w \in Seq({0, 1}) /\ Len(w) > 0 /\ Len(w) <= KeepBits
  /\ SyncNoises \subseteq Seq({0, 1}) \ {<<>>} /\ SyncData \subseteq Seq({0, 1})
  /\ LeastCand <= KeepBits - Len(SyncWord) /\ LeastCand <= DefaultCand
  /\ \A p \in SyncParams : /\ p[1] \in {"word", "errors", "size", "tune", "word_lock", "error_lock"}
                           /\ p[1] = "size" => p[2] \in Nat /\ p[2] >= LeastCand
  /\ TuneStride > 0 /\ TuneEvery > 0 /\ OffsetsPerHit > 0 /\ TuneScore > 0

VARIABLES
  search,    \* stream, word, errors, size, blocks and the flags of the tuning
  coming,    \* the bits that are still to come
  words,     \* history, of a word that was sent: where it is, from the start of the
             \* stream on, whether it was told and whether it was searched for
  sends, tunings

syncVars == <<search, coming, words, sends, tunings>>

-----------------------------------------------------------------------------
(* Words in the stream; positions are counted from 0 *)

Fits(bits, i, word) == i + Len(word) <= Len(bits)

\* sync_errors, of the word or of its inverse.
SyncErrors(bits, i, word) ==
  LET wrong == Cardinality({k \in DOMAIN word : bits[i + k] # word[k]})
  IN  Min({wrong, Len(word) - wrong})

-----------------------------------------------------------------------------
(* maybe_autotune_sync *)

\* The end of the stream, and where words are looked for in it.
Scanned(bits) == IF Len(bits) > TuneBits THEN SubSeq(bits, Len(bits) - TuneBits + 1, Len(bits)) ELSE bits

Offsets(bits, word) ==
  IF Len(bits) <= Len(word) THEN {}
  ELSE {i \in 0 .. Len(bits) - Len(word) : i % TuneStride = 0}

\* score_hits.
ScoreHits(bits, word) ==
  LET Weight(i) == LET e == SyncErrors(bits, i, word) IN IF e <= TuneCap THEN TuneWeight[e] ELSE 0
  IN  MapThenSumSet(Weight, Offsets(bits, word))

\* choose_error_limit: the least with as many hits as noise would give.
ChooseErrorLimit(bits, word) ==
  LET expected == Max({1, Cardinality(Offsets(bits, word)) \div OffsetsPerHit})
      Hits(e) == Cardinality({i \in Offsets(bits, word) : SyncErrors(bits, i, word) <= e})
  IN  Min({TuneCap} \union {e \in 0 .. TuneCap : Hits(e) >= expected})

\* The first of the words with the highest score, if that is enough.
BestWord(bits) ==
  LET scored == {[place |-> k, score |-> ScoreHits(bits, TuneWords[k])] : k \in DOMAIN TuneWords}
      First(w) == \A v \in scored : v.score < w.score \/ (v.score = w.score /\ w.place <= v.place)
  IN  {[word |-> TuneWords[w.place], score |-> w.score] : w \in {v \in scored : v.score >= TuneScore /\ First(v)}}

\* Another word is taken up if it scores a fifth more than the one in use, which
\* scores nothing if it is none of these.
Retuned(s, bits, best) ==
  LET current == IF Contains(TuneWords, s.word) THEN ScoreHits(bits, s.word) ELSE 0
  IN  IF s.word_lock \/ best.word = s.word \/ 100 * best.score < 120 * current THEN s
      ELSE [s EXCEPT !.word = best.word]

\* The limit goes one step towards that of the best word, or all the last one.
Limited(s, limit) ==
  CASE s.error_lock -> s
    [] ~s.error_lock /\ limit > s.errors + 1 -> [s EXCEPT !.errors = @ + 1]
    [] ~s.error_lock /\ s.errors > limit + 1 -> [s EXCEPT !.errors = @ - 1]
    [] OTHER -> [s EXCEPT !.errors = limit]

Autotuned(s) ==
  LET bits == Scanned(s.stream)
      best == CHOOSE w \in BestWord(bits) : TRUE
  IN  IF ~s.tune \/ Len(s.stream) < TuneLeast \/ s.blocks # 0 \/ BestWord(bits) = {} THEN s
      ELSE Limited(Retuned(s, bits, best), ChooseErrorLimit(bits, best.word))

-----------------------------------------------------------------------------
(* mr_plugin_process_bits *)

\* append_bits: all of them or nothing.
AppendBits(s, bits) ==
  IF Len(s.stream) + Len(bits) > StreamBits THEN s ELSE [s EXCEPT !.stream = @ \o bits]

\* emit_candidate: how many bits are told, from the word on.
CandidateBits(s, i) ==
  LET use == Min({Len(s.stream) - i, s.size})
  IN  IF use < LeastCand THEN 0 ELSE use

\* The candidates of the stream; the search goes on behind a word.
CandidatesOf(s) ==
  LET From[i \in Nat] ==
        IF ~Fits(s.stream, i, s.word) THEN {}
        ELSE IF SyncErrors(s.stream, i, s.word) <= s.errors
        THEN {[at |-> i, bits |-> CandidateBits(s, i)]} \union From[i + Len(s.word)]
        ELSE From[i + 1]
  IN  From[0]

\* Mutant: what is kept is the length of the word.
MutantTailKept(s) == Len(s.word)

TailKept(s) == Max({Len(s.word), KeepBits})

\* keep_stream_tail: how many bits are cut off.
Cut(s) == Max({0, Len(s.stream) - TailKept(s)})

\* A word that is not searched for: no part of it is one of the word in use.
Sought(s) == \E i \in 0 .. Len(SyncWord) - Len(s.word) : SyncErrors(SyncWord, i, s.word) <= s.errors

\* A candidate that starts in a word, or with a word that lies across its start,
\* and has all its bits, or as many as stay in the stream.
TellsWord(s, c, at) ==
  /\ c.at < at + Len(SyncWord) /\ at < c.at + Len(s.word)
  /\ c.bits >= Min({s.size, KeepBits - Len(SyncWord)})

ProcessBits(bits) ==
  LET next == AppendBits([search EXCEPT !.blocks = (@ + 1) % TuneEvery], bits)
      s == Autotuned(next)
      Seen(w) == IF ~Fits(s.stream, w.at, SyncWord) THEN [w EXCEPT !.at = @ - Cut(s)]
                 ELSE [w EXCEPT !.told = @ \/ \E c \in CandidatesOf(s) : TellsWord(s, c, w.at),
                                !.sought = @ /\ Sought(s), !.at = @ - Cut(s)]
  IN  /\ search' = [s EXCEPT !.stream = SubSeq(@, Cut(s) + 1, Len(@))]
      /\ words' = {Seen(w) : w \in {v \in words : v.at >= 0}}

\* A block of what comes, noise when nothing does; the sizes are as the
\* demodulator emits.
SyncBlock(n, noise) ==
  /\ coming # <<>> \/ words # {}
  /\ LET block == [i \in 1 .. n |-> IF i <= Len(coming) THEN coming[i] ELSE noise[1 + (i % Len(noise))]]
     IN  ProcessBits(block)
  /\ coming' = SubSeq(coming, n + 1, Len(coming))
  /\ UNCHANGED <<sends, tunings>>

\* A burst.
SyncSend(noise, inverted, data) ==
  /\ sends < SyncBound /\ sends' = sends + 1
  /\ coming' = coming \o noise
                 \o [i \in DOMAIN SyncWord |-> IF inverted THEN 1 - SyncWord[i] ELSE SyncWord[i]] \o data
  /\ words' = words \union
       {[at |-> Len(search.stream) + Len(coming) + Len(noise), told |-> FALSE, sought |-> TRUE]}
  /\ UNCHANGED <<search, tunings>>

\* mr_plugin_set_param: word, errors, size, tune, word_lock or error_lock.
SetSyncParam(key, value) ==
  /\ tunings < SyncCalls /\ tunings' = tunings + 1
  /\ search' = [search EXCEPT ![key] = value]
  /\ UNCHANGED <<coming, words, sends>>

SyncInit ==
  /\ search = [stream |-> <<>>, word |-> SyncWord, errors |-> 1, size |-> DefaultCand,
               blocks |-> 0, tune |-> TRUE, word_lock |-> FALSE, error_lock |-> FALSE]
  /\ coming = <<>> /\ words = {}
  /\ sends = 0 /\ tunings = 0

SyncNext ==
  \/ \E n \in SyncBlocks, noise \in SyncNoises : SyncBlock(n, noise)
  \/ \E noise \in SyncNoises, inverted \in BOOLEAN, data \in SyncData : SyncSend(noise, inverted, data)
  \/ \E p \in SyncParams : SetSyncParam(p[1], p[2])

SyncSpec == SyncInit /\ [][SyncNext]_syncVars

\* However the blocks cut a burst, and whatever the tuning makes of the word, by
\* the time the sync word leaves the stream a candidate was told from it on, or
\* from a chance hit across it, with all its bits or as many as the stream
\* keeps; unless another word was searched for (vdes_asm_decoder.c:308, 381,
\* 494).
SyncWordsTold == \A w \in words : w.at < 0 /\ w.sought => w.told
=============================================================================
