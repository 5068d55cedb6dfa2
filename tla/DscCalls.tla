------------------------------ MODULE DscCalls ------------------------------
(***************************************************************************)
(* DSC calls from the NFM audio to the client: the bits of dsc_afsk_demod  *)
(* (plugins/dsc_afsk_demod.c), which it emits in chunks, dsc_decoder       *)
(* (plugins/dsc_decoder.c), which takes every chunk for a call, and        *)
(* allow_dsc_message of ProcessLoop (backend/src/receiver_worker.cpp).     *)
(*                                                                         *)
(* A bit is the word it belongs to, its place there and the symbol of the  *)
(* word; a word is valid if it holds the bits of one word that was sent.   *)
(* Noise and what was damaged belong to no word.  The code's sizes are     *)
(* constants: WordBits 10, DscByteBits 8, ChunkBits 256, DscMinBits 80,    *)
(* MinWords 6, ValidRatio 60, Interval 400 ms, Window 2500 ms, Second      *)
(* 1000 ms, MaxPerSecond 3.  PushPluginConfig sets MinEosRepeats to 2, the *)
(* tests (tests/test_dsc.py) to 0.                                         *)
(*                                                                         *)
(* A call is what the ship enters; the transmitter is external: noise, the *)
(* words of one or two calls, noise.  An identity has IdLen 5 symbols, a   *)
(* position PosLen 5, a time UtcLen 2.                                     *)
(***************************************************************************)
EXTENDS Integers, Sequences, SequencesExt

CONSTANTS Calls,          \* what is sent: records of fields, and whether the format is repeated
          Distress,       \* the format of a distress call
          Alerting,       \* the formats that must be repeated
          IdLen, PosLen, UtcLen,
          EndSymbols,     \* 117, 122, 127
          WordBits, DscByteBits, ChunkBits, DscMinBits, MinWords, ValidRatio, MinEosRepeats,
          Interval, Window, Second, MaxPerSecond,
          CallBound,      \* bound on the number of transmissions
          Pauses          \* how much time may pass before a chunk

\* What a ship may enter: identities of two digits a symbol, formats above all
\* of these, and an end behind the fields.
Legal(c) ==
  /\ c.format \in Nat /\ c.format > 99 /\ c.repeated \in BOOLEAN
  /\ c.format \in Alerting => c.repeated
  /\ c.self_id \in [1 .. IdLen -> 0 .. 99]
  /\ c.command \in [1 .. 1 -> Nat]
  /\ c.check \in Seq(Nat) /\ \E i \in DOMAIN c.check : c.check[i] \in EndSymbols
  /\ IF c.format = Distress
     THEN /\ c.nature \in [1 .. 1 -> Nat] /\ c.position \in [1 .. PosLen -> Nat]
          /\ c.utc \in [1 .. UtcLen -> 0 .. 99]
          /\ DOMAIN c = {"format", "repeated", "self_id", "nature", "position", "utc",
                         "command", "check"}
     ELSE /\ c.address \in [1 .. IdLen -> 0 .. 99]
          /\ c.category \in [1 .. 1 -> Nat] /\ c.second \in [1 .. 1 -> Nat]
          /\ DOMAIN c = {"format", "repeated", "address", "category", "self_id",
                         "command", "second", "check"}

ASSUME DscAssumption ==
  /\ WordBits \in Nat /\ DscByteBits \in Nat \ {0} /\ DscByteBits < WordBits
  /\ ChunkBits \in Nat /\ DscMinBits \in Nat
  /\ ChunkBits % DscByteBits = 0 /\ DscMinBits <= ChunkBits
  /\ IdLen \in Nat \ {0} /\ PosLen \in Nat /\ UtcLen \in Nat
  /\ MinWords \in Nat /\ MinWords <= IdLen + 4     \* no call is shorter
  /\ ValidRatio \in 0 .. 100 /\ MinEosRepeats \in Nat
  /\ Interval \in Nat \ {0} /\ Second \in Nat /\ MaxPerSecond \in Nat \ {0}
  /\ Second <= Interval * MaxPerSecond              \* the limit per second is the wider one
  /\ Window \in Nat /\ Pauses \subseteq Nat
  /\ Distress \in Alerting
  /\ \A c \in Calls : Legal(c)

VARIABLES
  incoming,   \* the bits that are still to come while the gate is open
  clock,      \* unix_ms of the block
  last_call,  \* last_payload_hex, last_unix_ms of dsc_decoder
  rate,       \* dsc_rate_window_start_ms, dsc_rate_window_count
  told,       \* the fields the last chunk sent to the client, NoCall for none
  sent        \* the number of transmissions

dscVars == <<incoming, clock, last_call, rate, told, sent>>

-----------------------------------------------------------------------------
(* dsc_decoder *)

NoCall == [format |-> -1]

NoWord == [word |-> 0, place |-> 0, sym |-> -1]

WordAt(bits, from) == SubSeq(bits, from + 1, from + WordBits)

\* The check bits fit.
ValidWord(w) ==
  \A j \in 1 .. WordBits : w[j].word > 0 /\ w[j].place = j /\ w[j].word = w[1].word

\* The words at an offset.
Words(bits, off) ==
  [i \in 1 .. (Len(bits) - off) \div WordBits |-> WordAt(bits, off + (i - 1) * WordBits)]

\* What is invalid is left out, and what follows moves up.
Symbols(bits, off) ==
  LET words == Words(bits, off)
      Kept[n \in 0 .. Len(words)] ==
        IF n = 0 THEN <<>>
        ELSE IF ValidWord(words[n]) THEN Append(Kept[n - 1], words[n][1].sym) ELSE Kept[n - 1]
  IN  Kept[Len(words)]

\* The first of the offsets with the most valid words.
BestOffset(bits) ==
  LET scores == {[off |-> o, valid |-> Len(Symbols(bits, o)), total |-> Len(Words(bits, o))]
                   : o \in 0 .. WordBits - 1}
      Better(x, y) == \/ x.valid > y.valid
                      \/ x.valid = y.valid /\ x.total > y.total
                      \/ x.valid = y.valid /\ x.total = y.total /\ x.off < y.off
  IN  (CHOOSE x \in scores : \A y \in scores \ {x} : Better(x, y)).off

EnoughWords(bits, off) ==
  LET total == Len(Words(bits, off))
      valid == Len(Symbols(bits, off))
  IN  total >= MinWords /\ valid > 0 /\ valid * 100 >= ValidRatio * total

\* eos_idx: the last symbol that ends a call, 0 if there is none.
EosIdx(s) == SelectLastInSeq(s, LAMBDA v : v \in EndSymbols)

\* eos_tail_repeats: how often it stands there, from eos_idx on.
EosRepeats(s) ==
  LET e == EosIdx(s)
      Repeats(n) == \A i \in e .. e + n - 1 : s[i] = s[e]
  IN  IF e = 0 THEN 0 ELSE CHOOSE n \in 1 .. Len(s) - e + 1 :
                             Repeats(n) /\ (e + n <= Len(s) => s[e + n] # s[e])

\* The filters: an end, its repetitions, the repeated format of an alert.
WellFormed(s) ==
  /\ EosIdx(s) > 0
  /\ EosRepeats(s) >= MinEosRepeats
  /\ s[1] \in Alerting => Len(s) >= 2 /\ s[2] = s[1]

\* Mutant: the format is taken as sent once.
MutantAddrStart(s) == 2

\* addr_start: the first symbol behind the format.
AddrStart(s) == IF Len(s) >= 2 /\ s[1] = s[2] THEN 3 ELSE 2

\* n symbols from place i on, <<>> if the call is too short.
Field(s, i, n) == IF i + n - 1 <= Len(s) THEN SubSeq(s, i, i + n - 1) ELSE <<>>

\* mmsi_from_symbol_pairs, parse_utc_hhmm: two digits each, or nothing.
Digits(f) == IF \A i \in DOMAIN f : f[i] <= 99 THEN f ELSE <<>>

\* The symbols from the last telecommand to the end, with all that stands
\* between: the check symbol, and the first of several ends.
MessageFrom(s, i) == IF i <= Len(s) /\ EosIdx(s) > i THEN SubSeq(s, i, EosIdx(s) - 1) ELSE <<>>

DistressFields(s) ==
  LET a == AddrStart(s)
      behind == a + IdLen + 1 + PosLen + UtcLen
  IN  [format   |-> s[1],
       self_id  |-> Digits(Field(s, a, IdLen)),
       nature   |-> Field(s, a + IdLen, 1),
       position |-> Field(s, a + IdLen + 1, PosLen),
       utc      |-> Digits(Field(s, a + IdLen + 1 + PosLen, UtcLen)),
       command  |-> Field(s, behind, 1),
       message  |-> MessageFrom(s, behind + 1)]

\* Without a second telecommand the message starts where it would stand.
OtherFields(s) ==
  LET a == AddrStart(s)
      behind == a + 2 * IdLen + 1
      second == Field(s, behind + 1, 1)
  IN  [format   |-> s[1],
       address  |-> Digits(Field(s, a, IdLen)),
       category |-> Field(s, a + IdLen, 1),
       self_id  |-> Digits(Field(s, a + IdLen + 1, IdLen)),
       command  |-> Field(s, behind, 1),
       second   |-> second,
       message  |-> MessageFrom(s, behind + 1 + Len(second))]

Fields(s) == IF s[1] = Distress THEN DistressFields(s) ELSE OtherFields(s)

\* The same payload as the last one, or any too soon after it.
Repeated(s) == s = last_call.symbols /\ clock - last_call.time < Window
TooSoon     == last_call.symbols # <<>> /\ clock - last_call.time < Interval

\* mr_plugin_process_bits: the call a chunk is emitted as, <<>> if none.
CallIn(bits) ==
  LET off == BestOffset(bits)
      s == Symbols(bits, off)
  IN  IF EnoughWords(bits, off) /\ ~Repeated(s) /\ WellFormed(s) /\ ~TooSoon THEN s ELSE <<>>

-----------------------------------------------------------------------------
(* allow_dsc_message *)

\* A new window begins after a second.
RateWindow ==
  IF rate.start = 0 \/ clock - rate.start >= Second THEN [start |-> clock, count |-> 0] ELSE rate

\* parse_status and sequence_status are "weak" and "partial" only without an
\* end, so they never drop what the decoder lets through.
Allowed(window) == window.count < MaxPerSecond

-----------------------------------------------------------------------------
(* The demodulator and the air *)

\* The symbols of a call: its fields in their order, a check symbol, the ends.
Encoded(c) ==
  (IF c.repeated THEN <<c.format, c.format>> ELSE <<c.format>>)
  \o (IF c.format = Distress THEN c.self_id \o c.nature \o c.position \o c.utc \o c.command
                             ELSE c.address \o c.category \o c.self_id \o c.command \o c.second)
  \o c.check

\* The gate opens on a transmission: some noise, a call or two, some noise.
Bits(s) ==
  [k \in 1 .. WordBits * Len(s) |->
    [word |-> 1 + ((k - 1) \div WordBits), place |-> 1 + ((k - 1) % WordBits),
     sym |-> s[1 + ((k - 1) \div WordBits)]]]

Silence(n) == [i \in 1 .. n |-> NoWord]

Transmit(symbols, before, after) ==
  /\ incoming = <<>> /\ sent < CallBound /\ sent' = sent + 1
  /\ incoming' = Silence(before) \o Bits(symbols) \o Silence(after)
  /\ UNCHANGED <<clock, last_call, rate, told>>

\* What is emitted next: a full chunk, or what there is when the gate closes,
\* in whole bytes, or nothing if it is too short.
Chunk ==
  LET n == IF Len(incoming) < ChunkBits THEN Len(incoming) ELSE ChunkBits
  IN  IF n >= DscMinBits THEN SubSeq(incoming, 1, DscByteBits * (n \div DscByteBits)) ELSE <<>>

\* A chunk goes through the decoder and, if it is a call, to the client.
Receive(pause) ==
  /\ incoming # <<>>
  /\ incoming' = SubSeq(incoming, ChunkBits + 1, Len(incoming))
  /\ clock' = clock + pause
  /\ UNCHANGED sent
  /\ LET s == IF Chunk = <<>> THEN <<>> ELSE CallIn(Chunk)
         window == RateWindow
         passes == Allowed(window)
     IN  IF s = <<>> THEN told' = NoCall /\ UNCHANGED <<last_call, rate>>
         ELSE /\ last_call' = [symbols |-> s, time |-> clock]
              /\ rate' = IF passes THEN [window EXCEPT !.count = @ + 1] ELSE window
              /\ told' = IF passes THEN Fields(s) ELSE NoCall

DscInit ==
  /\ incoming = <<>> /\ clock = Window
  /\ last_call = [symbols |-> <<>>, time |-> 0]
  /\ rate = [start |-> 0, count |-> 0]
  /\ told = NoCall /\ sent = 0

DscNext ==
  \/ \E c, d \in Calls, before \in 0 .. WordBits - 1, after \in {0, DscByteBits} :
       \/ Transmit(Encoded(c), before, after)
       \/ Transmit(Encoded(c) \o Encoded(d), before, after)
  \/ \E p \in Pauses : Receive(p)

DscSpec == DscInit /\ [][DscNext]_dscVars

\* A chunk is one call, all of it, with less than a word of noise before it.
IsCall(chunk, s) ==
  \E off \in 0 .. WordBits - 1 :
    LET last == off + WordBits * Len(s)
        Holds(i) == /\ chunk[i].sym = s[(i - off - 1) \div WordBits + 1]
                    /\ chunk[i].place = 1 + ((i - off - 1) % WordBits)
    IN  /\ last <= Len(chunk)
        /\ \A i \in DOMAIN chunk : IF off < i /\ i <= last THEN Holds(i) ELSE chunk[i] = NoWord

\* A call that comes whole and alone in a chunk, at whatever offset, reaches
\* the client with every field as it was sent, unless it repeats the last one
\* or follows it too soon; the limit per second never stops it, as the
\* interval of the decoder is longer ("expected at least one DSC decoded
\* message", tests/test_dsc.py:132; the repetitions of the end are counted
\* from the last of them on, so with MinEosRepeats 2 no call passes,
\* dsc_decoder.c:377, 447).
WholeCallTold ==
  [][\A c \in Calls :
       /\ incoming # <<>> /\ incoming' # incoming
       /\ IsCall(Chunk, Encoded(c)) /\ ~Repeated(Encoded(c)) /\ ~TooSoon
       => \A f \in DOMAIN c \ {"repeated", "check"} : f \in DOMAIN told' /\ told'[f] = c[f]]_dscVars
=============================================================================
