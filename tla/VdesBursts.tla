----------------------------- MODULE VdesBursts -----------------------------
(***************************************************************************)
(* VDES bursts from symbols to candidates: vdes_burst_demod (plugins/      *)
(* vdes_burst_demod.c), which looks for the training and then takes a fixed*)
(* number of bits, and vdes_burst_decoder (plugins/vdes_burst_decoder.c),  *)
(* which keeps the end of the bits it got and looks for the training again.*)
(*                                                                         *)
(* A symbol is the burst it belongs to and its place in it, 0 for noise; it*)
(* has two bits.  The filters are external: the training is recognised     *)
(* where it stands.  The code's sizes are constants: UwLen 27 symbols,     *)
(* Lockout 300, 8192 and 64 bits at most and at least, StreamMax 16384,    *)
(* TailKeep 2048, Backup 64, CandMin 128, CandDefault 480.                 *)
(*                                                                         *)
(* The transmitter is external: noise, then a burst.                       *)
(***************************************************************************)
EXTENDS Integers, Sequences

CONSTANTS UwLen, Lockout, VdesMaxBits, VdesMinBits, VdesByteBits,
          StreamMax, TailKeep, Backup, CandMin, CandDefault,
          Candidates,   \* the values of candidate_bits that are set
          Lengths,      \* of a burst, in symbols
          Quiets,       \* the symbols of noise before a burst
          VdesBound,    \* bound on the number of bursts
          ParamBound    \* bound on the number of set_param calls and new rates

SyncLen == 2 * UwLen

ASSUME VdesAssumption ==
  /\ UwLen \in Nat \ {0} /\ Lockout \in Nat /\ VdesByteBits \in Nat \ {0}
  /\ VdesMaxBits \in Nat /\ VdesMinBits \in Nat /\ StreamMax \in Nat
  /\ TailKeep \in Nat /\ Backup \in Nat /\ CandMin \in Nat
  /\ VdesMaxBits % VdesByteBits = 0 /\ VdesMaxBits % 2 = 0 /\ VdesMinBits > SyncLen
  /\ VdesMaxBits + TailKeep <= StreamMax
  /\ SyncLen <= Backup /\ Backup < TailKeep
  /\ VdesByteBits + 2 <= Backup               \* what a window may lack
  /\ CandMin >= VdesByteBits + 2 /\ VdesMinBits <= SyncLen + CandMin - VdesByteBits
  /\ SyncLen + CandMin <= VdesMaxBits         \* the least window fits
  /\ Backup <= SyncLen + CandMin - VdesByteBits \* no burst is as short as the way back
  /\ Candidates \subseteq Nat /\ CandDefault \in Nat
  /\ \A c \in Candidates \union {CandDefault} : c >= CandMin
  /\ Lengths \subseteq Nat /\ Quiets \subseteq Nat
  /\ \A n \in Lengths : n > UwLen

VARIABLES
  demod,      \* state, have_prev, diff_ring, lockout_syms, bit_buf, burst_bits
  decoder,    \* stream, scan_pos, candidate_bits
  heard,      \* history, of every burst: the bits that were emitted with it,
              \* where they start in all that was emitted, the size of the
              \* window, how often it was found, the candidate, and where the
              \* training and the window were
  total,      \* history: how many bits were emitted
  params      \* the number of calls so far

vdesVars == <<demod, decoder, heard, total, params>>

NoSymbol == [burst |-> 0, place |-> 0]

-----------------------------------------------------------------------------
(* The decoder *)

\* count_sync_errors: the sync word stands at position i, counted from 0.
SyncAt(bits, i) ==
  /\ i + SyncLen <= Len(bits)
  /\ bits[i + 1].burst > 0
  /\ \A k \in 1 .. SyncLen : bits[i + k] = [burst |-> bits[i + 1].burst, place |-> k]

\* emit_candidate_bits: what there is of the window, if that is enough.
CandidateAt(bits, from, size) ==
  LET use == IF Len(bits) - from < size THEN Len(bits) - from ELSE size
  IN  IF use < CandMin THEN <<>> ELSE SubSeq(bits, from + 1, from + use)

\* The burst of a hit, told with its candidate; the stream starts at base.
Told(g, bits, at, base, size) ==
  [g EXCEPT !.found = @ + 1, !.cand = CandidateAt(bits, at + SyncLen, size),
            !.at = base + at, !.until = base + at + SyncLen + size]

\* The scan goes on at position n; a hit is followed by its whole window.
ScanAt(s, bits, n, base, size) ==
  IF s.pos # n THEN s
  ELSE IF ~SyncAt(bits, n) THEN [s EXCEPT !.pos = n + 1]
  ELSE [pos |-> n + SyncLen + size,
        heard |-> [s.heard EXCEPT ![bits[n + 1].burst] = Told(@, bits, n, base, size)]]

\* The scan, from position i to the end of the stream.
ScanFrom(bits, i, base, size, all) ==
  LET Scan[n \in 0 .. Len(bits)] ==
        IF n = 0 THEN [pos |-> i, heard |-> all] ELSE ScanAt(Scan[n - 1], bits, n - 1, base, size)
  IN  Scan[Len(bits)]

\* append_bits: all of them or nothing.
Appended(bits, more) == IF Len(bits) + Len(more) > StreamMax THEN bits ELSE bits \o more

\* Mutant: the position stays where it was in the longer stream.
MutantCutBack(d) ==
  LET trim == Len(d.stream) - TailKeep
  IN  IF trim <= 0 THEN d ELSE [d EXCEPT !.stream = SubSeq(d.stream, trim + 1, Len(d.stream))]

\* keep_stream_tail, and the scan goes on a little before where it stood.
CutBack(d) ==
  LET trim == Len(d.stream) - TailKeep
  IN  IF trim <= 0 THEN d
      ELSE [d EXCEPT !.stream = SubSeq(d.stream, trim + 1, Len(d.stream)),
                     !.scan_pos = IF d.scan_pos >= trim + Backup THEN d.scan_pos - trim - Backup ELSE 0]

\* mr_plugin_process_bits, in the state st of all.
Decode(st, bits) ==
  LET kept == Appended(st.decoder.stream, bits)
      size == st.decoder.candidate_bits
      noted == [st.heard EXCEPT ![bits[1].burst] =
                  [@ EXCEPT !.bits = bits, !.start = st.total, !.size = size]]
      scan == ScanFrom(kept, st.decoder.scan_pos, st.total - Len(st.decoder.stream), size, noted)
  IN  [demod   |-> st.demod,
       decoder |-> CutBack([st.decoder EXCEPT !.stream = kept, !.scan_pos = scan.pos]),
       heard   |-> scan.heard,
       total   |-> st.total + Len(bits)]

-----------------------------------------------------------------------------
(* The demodulator *)

NewDemod(burst_bits) ==
  [state |-> "SEARCH", have_prev |-> FALSE, ring |-> <<>>, lockout |-> 0, bits |-> <<>>,
   burst_bits |-> burst_bits]

Pair(sym) == IF sym.burst = 0 THEN <<NoSymbol, NoSymbol>>
             ELSE <<[sym EXCEPT !.place = 2 * @ - 1], [sym EXCEPT !.place = 2 * @]>>

Gathered(bits, sym) == IF Len(bits) < VdesMaxBits THEN bits \o Pair(sym) ELSE bits

\* emit_training_bits: the training that was just heard.
TrainingOf(b) == [k \in 1 .. SyncLen |-> [burst |-> b, place |-> k]]

\* diff_ring holds the training, in order, of one burst.
IsTraining(ring) ==
  /\ Len(ring) = UwLen /\ ring[1].burst > 0
  /\ \A k \in 1 .. UwLen : ring[k] = [burst |-> ring[1].burst, place |-> k]

\* The last UwLen symbols since the demodulator was reset.
InRing(ring, sym) == IF Len(ring) < UwLen THEN Append(ring, sym) ELSE Append(Tail(ring), sym)

\* emit_bits: whole bytes, and nothing below VdesMinBits; then lockout and search.
EmitBurst(st) ==
  LET d == st.demod
      bits == SubSeq(d.bits, 1, VdesByteBits * (Len(d.bits) \div VdesByteBits))
      after == [st EXCEPT !.demod = [NewDemod(d.burst_bits) EXCEPT !.lockout = Lockout]]
  IN  IF Len(d.bits) < VdesMinBits THEN after ELSE Decode(after, bits)

\* process_sym.
ProcessSym(st, sym) ==
  LET d == st.demod
      ring == InRing(d.ring, sym)
      bits == Gathered(d.bits, sym)
      With(e) == [st EXCEPT !.demod = e]
  IN  CASE d.lockout > 0 -> With([d EXCEPT !.lockout = @ - 1])
        [] d.lockout = 0 /\ ~d.have_prev -> With([d EXCEPT !.have_prev = TRUE])
        [] d.lockout = 0 /\ d.have_prev /\ d.state = "SEARCH" ->
             IF IsTraining(ring)
             THEN With([d EXCEPT !.ring = ring, !.state = "BURST", !.bits = TrainingOf(sym.burst)])
             ELSE With([d EXCEPT !.ring = ring])
        [] OTHER ->
             LET full == With([d EXCEPT !.ring = ring, !.bits = bits])
             IN  IF Len(bits) >= d.burst_bits THEN EmitBurst(full) ELSE full

-----------------------------------------------------------------------------

\* The symbols go through the demodulator and the decoder, one after another.
Processed(st, syms) ==
  LET After[n \in 0 .. Len(syms)] ==
        IF n = 0 THEN st ELSE ProcessSym(After[n - 1], syms[n])
  IN  After[Len(syms)]

\* Noise and then a burst; blocks only say when.
VdesSend(quiet, length) ==
  LET b == Len(heard) + 1
      syms == [i \in 1 .. quiet + length |->
                 IF i <= quiet THEN NoSymbol ELSE [burst |-> b, place |-> i - quiet]]
      new == [bits |-> <<>>, start |-> 0, size |-> 0, found |-> 0, cand |-> <<>>,
              at |-> 0, until |-> 0]
      after == Processed([demod |-> demod, decoder |-> decoder, heard |-> Append(heard, new),
                          total |-> total], syms)
  IN  /\ b <= VdesBound
      /\ demod' = after.demod
      /\ decoder' = after.decoder
      /\ heard' = after.heard /\ total' = after.total
      /\ UNCHANGED params

\* set_param of candidate_bits, which both plugins get.
SetCandidateBits(v) ==
  /\ params < ParamBound /\ params' = params + 1
  /\ demod' = [demod EXCEPT !.burst_bits =
                           IF SyncLen + v < VdesMaxBits THEN SyncLen + v ELSE VdesMaxBits]
  /\ decoder' = [decoder EXCEPT !.candidate_bits = v]
  /\ UNCHANGED <<heard, total>>

\* configure, for a new rate: the filters start anew, the rest goes on.
NewRate ==
  /\ params < ParamBound /\ params' = params + 1
  /\ demod' = [demod EXCEPT !.ring = <<>>]
  /\ UNCHANGED <<decoder, heard, total>>

VdesInit ==
  /\ demod = NewDemod(VdesMaxBits)
  /\ decoder = [stream |-> <<>>, scan_pos |-> 0, candidate_bits |-> CandDefault]
  /\ heard = <<>> /\ total = 0 /\ params = 0

VdesNext ==
  \/ \E quiet \in Quiets, length \in Lengths : VdesSend(quiet, length)
  \/ \E v \in Candidates : SetCandidateBits(v)
  \/ NewRate

VdesSpec == VdesInit /\ [][VdesNext]_vdesVars

\* The bits of a burst that the demodulator emits are found by the decoder,
\* once, however often the stream is cut, and the candidate is what follows its
\* training, as much as there is, from CandMin on.  They may be missed only if
\* the window of a training found before reaches over their start: so the
\* second of two bursts goes missing with 54 + candidate_bits that are no whole
\* bytes (vdes_burst_decoder.c:450, 467, 500).
BurstsFoundOnce ==
  \A b \in DOMAIN heard :
    LET h == heard[b]
        use == IF Len(h.bits) - SyncLen < h.size THEN Len(h.bits) - SyncLen ELSE h.size
        covered == \E c \in DOMAIN heard \ {b} :
                     heard[c].at < h.start /\ h.start < heard[c].until
    IN  /\ h.found <= 1
        /\ h.bits # <<>> /\ ~covered => h.found = 1
        /\ h.bits # <<>> /\ h.found = 1 => h.cand = IF use < CandMin THEN <<>>
                                                   ELSE SubSeq(h.bits, SyncLen + 1, SyncLen + use)
=============================================================================
