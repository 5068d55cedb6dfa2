---------------------------- MODULE BurstFraming ----------------------------
(***************************************************************************)
(* From symbols to frames: the branches of ais_dual_demod, and gmsk_demod, *)
(* which is one branch of its own (plugins/ais_dual_demod.c, gmsk_demod.c, *)
(* include/mr_signal_gate.h, include/mr_bit_buf.h), then nrzi_decoder,     *)
(* whose last bit the branches of a kind share, and the same HDLC deframer *)
(* in ais_decoder, asm_decoder and hdlc_postproc, one for each kind.       *)
(*                                                                         *)
(* A call of process_iq is Block symbols of every branch; the branches are *)
(* worked off one after another, and what a branch emits is decoded before *)
(* its next symbol.  A symbol is whether the energy is above the gate's    *)
(* threshold, and its bit.  The code's sizes are constants: ByteBits is 8, *)
(* StuffAfter 5, MaxBits 1024, Hold 48, MinFrame 5 and MaxFrame 512 bytes  *)
(* (4 and 4096 in hdlc_postproc, whose statistics are left out).  The check*)
(* sequence of a frame is one byte that repeats the first.                 *)
(*                                                                         *)
(* The transmitter is external: training, flag, stuffed bytes, flag, in    *)
(* NRZI from any level, then noise.  The gate opens up to Attack late.     *)
(***************************************************************************)
EXTENDS Integers, Sequences, FiniteSets, SequencesExt

CONSTANTS Branches,    \* 1 .. the number of branches
          Dual,        \* those of ais_dual_demod, the others are demodulators of their own
          Kind,        \* of a branch: its signal type
          Payloads,    \* what is sent: a sequence of bits, whole bytes
          Training,    \* the bits before the first flag
          Silences,    \* how many symbols of a block pass before it
          Noises,      \* what may follow the last flag
          Attack, Hold, ByteBits, StuffAfter, MinFrame, MaxFrame, MaxBits, MinBits, Block,
          BurstBound,  \* bound on the number of bursts
          ResetBound   \* bound on the number of reconfigurations

Kinds == {Kind[b] : b \in Branches}

ASSUME FramingAssumption ==
  /\ Branches = 1 .. Cardinality(Branches) /\ Cardinality(Branches) \in Nat
  /\ Dual \subseteq Branches
  /\ \A b \in Branches \ Dual : \A c \in Branches \ {b} : Kind[c] # Kind[b]
  /\ ByteBits \in Nat \ {0} /\ StuffAfter \in Nat \ {0}
  /\ MaxBits \in Nat \ {0} /\ MaxBits % ByteBits = 0 /\ MinBits = ByteBits
  /\ MinFrame \in Nat \ {0} /\ MaxFrame \in Nat /\ Hold \in Nat /\ Attack \in Nat /\ Block \in Nat
  /\ StuffAfter + 1 < ByteBits \* what the deframer takes of a flag is less than a byte
  /\ Hold > ByteBits          \* the noise at the end outlasts the bits that are cut off
  /\ Training \in Seq({0, 1}) /\ Attack < Len(Training) \* a bit of the training is left
  /\ Silences \subseteq Nat /\ Noises \subseteq Seq({0, 1})
  /\ Payloads \subseteq Seq({0, 1})
  /\ \A p \in Payloads : \* whole bytes, as many as a frame may have
       /\ Len(p) >= ByteBits /\ Len(p) % ByteBits = 0
       /\ Len(p) \div ByteBits + 1 \in MinFrame .. MaxFrame

VARIABLES
  plugin,   \* the branches of the demodulator in use, which is not switched here
  air,      \* the symbols that are still to come on a branch
  gate,     \* of a branch: hold_syms, gate_open, bit_buf and history
  shared,   \* of a kind: last_bit or last_bit_asm, and the deframer
  bursts, resets

burstVars == <<plugin, air, gate, shared, bursts, resets>>

None == <<>>

-----------------------------------------------------------------------------
(* The transmitter *)

Ones(n) == [i \in 1 .. n |-> 1]

Flag == <<0>> \o Ones(StuffAfter + 1) \o <<0>>

\* After StuffAfter ones a zero is put in.
Put(t, v) ==
  IF v = 1 /\ t.ones + 1 = StuffAfter
  THEN [ones |-> 0, out |-> t.out \o <<1, 0>>]
  ELSE [ones |-> IF v = 1 THEN t.ones + 1 ELSE 0, out |-> Append(t.out, v)]

Stuffed(s) ==
  LET Run[n \in 0 .. Len(s)] ==
        IF n = 0 THEN [ones |-> 0, out |-> <<>>] ELSE Put(Run[n - 1], s[n])
  IN  Run[Len(s)].out

FirstByte(p) == SubSeq(p, 1, ByteBits)

Message(p) == Training \o Flag \o Stuffed(p \o FirstByte(p)) \o Flag

\* NRZI: the level changes with a zero.
Levels(s, level) ==
  LET Level[n \in 0 .. Len(s)] ==
        IF n = 0 THEN level ELSE IF s[n] = 0 THEN 1 - Level[n - 1] ELSE Level[n - 1]
  IN  [n \in 1 .. Len(s) |-> Level[n]]

Burst == [p \in Payloads |-> [level \in {0, 1} |-> Levels(Message(p), level)]]

-----------------------------------------------------------------------------
(* HDLC *)

NoFrame == [ones |-> 0, in |-> FALSE, cur |-> <<>>, bytes |-> <<>>, frames |-> <<>>]

\* A data bit; bytes that do not fit are dropped.
Data(h, v) ==
  IF ~h.in THEN h
  ELSE IF Len(h.cur) + 1 < ByteBits THEN [h EXCEPT !.cur = Append(@, v)]
  ELSE [h EXCEPT !.cur = <<>>,
                 !.bytes = IF Len(@) < MaxFrame THEN Append(@, Append(h.cur, v)) ELSE @]

\* The check sequence.
Valid(bytes) == Last(bytes) = Head(bytes)

Payload(bytes) ==
  [i \in 1 .. ByteBits * (Len(bytes) - 1) |->
     bytes[1 + ((i - 1) \div ByteBits)][1 + ((i - 1) % ByteBits)]]

\* The end of one frame and the start of the next.
AtFlag(h) ==
  [NoFrame EXCEPT !.in = TRUE,
     !.frames = IF h.in /\ Len(h.bytes) >= MinFrame /\ Valid(h.bytes)
                THEN Append(h.frames, Payload(h.bytes)) ELSE h.frames]

\* Mutant: the ones before a stuffed zero go on counting.
MutantZero(h) ==
  CASE h.ones = StuffAfter -> h
    [] h.ones = StuffAfter + 1 -> AtFlag(h)
    [] OTHER -> [Data(h, 0) EXCEPT !.ones = 0]

Zero(h) ==
  CASE h.ones = StuffAfter -> [h EXCEPT !.ones = 0]
    [] h.ones = StuffAfter + 1 -> AtFlag(h)
    [] OTHER -> [Data(h, 0) EXCEPT !.ones = 0]

\* More ones than a flag has abort the frame.
One(h) ==
  CASE h.ones + 1 <= StuffAfter -> [Data(h, 1) EXCEPT !.ones = h.ones + 1]
    [] h.ones + 1 = StuffAfter + 1 -> [h EXCEPT !.ones = @ + 1]
    [] OTHER -> [NoFrame EXCEPT !.ones = StuffAfter + 2, !.frames = h.frames]

OnBit(h, v) == IF v = 1 THEN One(h) ELSE Zero(h)

Deframed(h, s) ==
  LET Run[n \in 0 .. Len(s)] ==
        IF n = 0 THEN [h EXCEPT !.frames = <<>>] ELSE OnBit(Run[n - 1], s[n])
  IN  Run[Len(s)]

-----------------------------------------------------------------------------
(* What is emitted *)

\* Whole bytes only, and nothing when there are fewer than MinBits.
Emitted(s) == IF Len(s) >= MinBits THEN SubSeq(s, 1, ByteBits * (Len(s) \div ByteBits)) ELSE <<>>

\* nrzi_decoder, inverted: no transition is a one.
NrziDecoded(level, s) ==
  [i \in DOMAIN s |-> IF s[i] = (IF i = 1 THEN level ELSE s[i - 1]) THEN 1 ELSE 0]

\* A branch emits and starts anew with an empty buffer; st is the state of the
\* branches and of what they share.  History: a burst is due until its frame
\* comes out; one that is split need not come through if another branch of its
\* kind emits in between.
Emit(st, b) ==
  LET k == Kind[b]
      e == Emitted(st.gate[b].bits)
      h == Deframed(st.shared[k].hdlc, NrziDecoded(st.shared[k].last, e))
      Rest(c, g) == IF c = b THEN [g EXCEPT !.bits = <<>>, !.split = g.busy,
                                            !.due = IF Contains(h.frames, g.due) THEN None ELSE g.due]
                    ELSE IF g.split /\ Kind[c] = k /\ e # <<>> THEN [g EXCEPT !.due = None] ELSE g
  IN  [gate |-> [c \in Branches |-> Rest(c, st.gate[c])],
       shared |-> [st.shared EXCEPT ![k] =
                     [last |-> IF e = <<>> THEN @.last ELSE Last(e),
                      hdlc |-> [h EXCEPT !.frames = <<>>]]]]

-----------------------------------------------------------------------------
(* The symbols *)

Quiet == [above |-> FALSE, bit |-> 0, more |-> FALSE]

\* mr_signal_gate_update: what is left of the hold.
HoldAfter(g, above) == IF above THEN Hold ELSE IF g.hold > 0 THEN g.hold - 1 ELSE 0

\* mr_push_bit.
Pushed(s, v) == IF Len(s) < MaxBits THEN Append(s, v) ELSE s

\* process_symbol: the gate closes and the buffer is emitted; or it is closed
\* and the buffer cleared; or the bit is added, and a full buffer emitted.
Symbol(st, b, sym) ==
  LET g == [st.gate[b] EXCEPT !.hold = HoldAfter(st.gate[b], sym.above), !.busy = sym.more]
      isOpen == sym.above \/ g.hold > 0
      With(s) == [st EXCEPT !.gate[b] = [g EXCEPT !.open = isOpen, !.bits = s]]
  IN  CASE ~isOpen /\ g.open -> Emit(With(g.bits), b)
        [] ~isOpen /\ ~g.open -> With(<<>>)
        [] OTHER -> LET s == Pushed(g.bits, sym.bit)
                    IN  IF Len(s) >= MaxBits THEN Emit(With(s), b) ELSE With(s)

\* What a branch hears, long after the air is silent too.
Heard(b, i) == IF i <= Len(air[b]) THEN air[b][i] ELSE Quiet

\* A branch works off its symbols.
Worked(st, b) ==
  LET Run[i \in 0 .. Block] == IF i = 0 THEN st ELSE Symbol(Run[i - 1], b, Heard(b, i))
  IN  Run[Block]

\* process_iq: the branches, one after another.
ProcessIq ==
  LET Run[b \in 0 .. Cardinality(Branches)] ==
        IF b = 0 THEN [gate |-> gate, shared |-> shared]
        ELSE IF b \in plugin THEN Worked(Run[b - 1], b) ELSE Run[b - 1]
      after == Run[Cardinality(Branches)]
  IN  /\ gate' = after.gate
      /\ shared' = after.shared
      /\ air' = [b \in Branches |-> SubSeq(air[b], Block + 1, Len(air[b]))]
      /\ UNCHANGED <<plugin, bursts, resets>>

DualBlock == plugin = Dual /\ ProcessIq

GmskBlock == plugin # Dual /\ ProcessIq

\* A burst is on the way, after some silence; the gate misses its first symbols.
Send(b, p, level, missed, silence, noise) ==
  LET burst == Burst[p][level]
      Sym(i) == [above |-> i > missed, bit |-> burst[i], more |-> i < Len(burst)]
  IN  /\ bursts < BurstBound /\ bursts' = bursts + 1
      /\ air[b] = <<>> /\ gate[b].due = None
      /\ air' = [air EXCEPT ![b] = [i \in 1 .. silence |-> Quiet]
                                     \o [i \in 1 .. Len(burst) |-> Sym(i)]
                                     \o [i \in DOMAIN noise |-> [Quiet EXCEPT !.bit = noise[i]]]]
      /\ gate' = [gate EXCEPT ![b].due = p, ![b].split = FALSE]
      /\ UNCHANGED <<plugin, shared, resets>>

NewGate ==
  [hold |-> 0, open |-> FALSE, bits |-> <<>>, due |-> None, split |-> FALSE, busy |-> FALSE]

\* set_param of baud_rate or bt: the next block starts all branches anew.
Reconfigure ==
  /\ resets < ResetBound /\ resets' = resets + 1
  /\ gate' = [b \in Branches |-> NewGate]
  /\ UNCHANGED <<plugin, air, shared, bursts>>

DualReconfigure == plugin = Dual /\ Reconfigure

GmskConfigure == plugin # Dual /\ Reconfigure

BurstInit ==
  /\ plugin \in {Dual} \union {{b} : b \in Branches \ Dual}
  /\ air = [b \in Branches |-> <<>>]
  /\ gate = [b \in Branches |-> NewGate]
  /\ shared = [k \in Kinds |-> [last |-> 0, hdlc |-> NoFrame]]
  /\ bursts = 0 /\ resets = 0

BurstNext ==
  \/ DualBlock
  \/ GmskBlock
  \/ \E b \in plugin, p \in Payloads, level \in {0, 1}, missed \in 0 .. Attack,
        silence \in Silences, noise \in Noises : Send(b, p, level, missed, silence, noise)
  \/ DualReconfigure
  \/ GmskConfigure

BurstSpec == BurstInit /\ [][BurstNext]_burstVars

\* A burst that was received whole is decoded by the time its gate closes, in
\* whatever state other bursts left the last bit and the deframer it shares
\* with them; a split one too, if nothing of its kind came in between
\* (nrzi_decoder.c:86, ais_dual_demod.c:294, mr_bit_buf.h:62).
WholeBurstsDecoded ==
  \A b \in Branches : ~gate[b].open /\ air[b] = <<>> => gate[b].due = None
=============================================================================
