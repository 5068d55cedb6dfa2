----------------------------- MODULE BurstProofs -----------------------------
(***************************************************************************)
(* Proofs about VdesBursts, DscCalls and BurstFraming, for any sizes that  *)
(* stand to each other as the code's do: every burst that the VDES         *)
(* demodulator emits is found by the decoder once, and its candidate is    *)
(* what followed its training; every DSC call that was received whole is   *)
(* told; every AIS or ASM burst that was received whole is decoded.        *)
(*                                                                         *)
(* A burst is found twice if its training comes to lie ahead of scan_pos   *)
(* again when the stream is cut, and never if scan_pos comes to lie ahead  *)
(* of it.  So the invariant says where every training lies that was seen   *)
(* (DecoderOK): the bits of the stream are in the order they were sent in, *)
(* so a training stands in it once, and what was emitted last is longer    *)
(* than the way back.  The demodulator's part (DemodOK) is that what it    *)
(* gathers begins behind all it has emitted.                               *)
(*                                                                         *)
(* A call is lost if its words are cut at the wrong bit, if its fields are *)
(* read from the wrong words, or if the rate limiter bites.  The invariant *)
(* of the second part (DscInv) says what stands in the air - noise, then   *)
(* the words of the call, then noise - and how the calls are spaced: then  *)
(* only the right offset has valid words (NoWordsBeside), the words found  *)
(* there are the call's, and the limiter has room.                         *)
(*                                                                         *)
(* A frame is lost if its burst is cut in mid-frame and the deframer, or   *)
(* the last bit that NRZI needs, is not where the first part left it.  The *)
(* invariant of the third part (BurstInv) says of every burst that is due  *)
(* which of its symbols are still to come, that the buffer holds those     *)
(* that were heard, and that the deframer has read what was emitted        *)
(* (Tracks): some bits of the flag, so many bits of the payload with those *)
(* that were stuffed in, or some bits of the closing flag.  Before its     *)
(* first flag the deframer may be in any state, which is why branches can  *)
(* share it.                                                               *)
(***************************************************************************)
EXTENDS VdesBursts, DscCalls, BurstFraming, SequenceTheorems, WellFoundedInduction, TLAPS

LEMMA LeastNat ==
  ASSUME NEW T, T \subseteq Nat, T # {}
  PROVE  \E x \in T : \A y \in T : x <= y
<1>1. PICK x \in T : \A y \in T : ~(<<y, x>> \in OpToRel(<, Nat))
  BY NatLessThanWellFounded, WFMin
<1>2. \A y \in T : <<y, x>> \in OpToRel(<, Nat) <=> y < x
  BY DEF OpToRel
<1>3. ASSUME NEW y \in T
      PROVE  x <= y
  <2>1. ~(y < x)
    BY <1>1, <1>2
  <2> QED
    BY <2>1
<1> QED
  BY <1>3

LEMMA Cutting ==
  ASSUME NEW S, NEW s \in Seq(S), NEW a \in Nat \ {0}, NEW b \in Nat, b <= Len(s), a <= b + 1,
         NEW e, e = SubSeq(s, a, b)
  PROVE  e \in Seq(S) /\ Len(e) = b - a + 1 /\ \A i \in 1 .. b - a + 1 : e[i] = s[a + i - 1]
<1>1. \A i \in a .. b : i \in 1 .. Len(s)
  OBVIOUS
<1>2. \A i \in a .. b : s[i] \in S
  BY <1>1
<1>3. a \in Int /\ b \in Int
  OBVIOUS
<1>4. /\ SubSeq(s, a, b) \in Seq(S) /\ Len(SubSeq(s, a, b)) = (IF a <= b THEN b - a + 1 ELSE 0)
      /\ \A i \in 1 .. b - a + 1 : SubSeq(s, a, b)[i] = s[a + i - 1]
  BY ONLY <1>2, <1>3, SubSeqProperties
<1> QED
  BY ONLY <1>3, <1>4, a <= b + 1, e = SubSeq(s, a, b)

-----------------------------------------------------------------------------
(* Bits in their order *)

BitType == [burst : Nat, place : Nat]

\* In the air x comes before y; noise is no part of the order.
Before(x, y) == x.burst < y.burst \/ (x.burst = y.burst /\ x.place < y.place)

Noise(x) == x.burst = 0

NotBehind(x, y) == Noise(x) \/ x = y \/ Before(x, y)

Rising(s) ==
  \A i, j \in DOMAIN s : i < j => Noise(s[i]) \/ Noise(s[j]) \/ Before(s[i], s[j])

\* The first bit of a burst, and the second bit of a symbol.
Start(b) == [burst |-> b, place |-> 1]

SecondOf(sym) == [burst |-> sym.burst, place |-> 2 * sym.place]

HeardType ==
  [bits : Seq(BitType), start : Nat, size : Nat, found : Nat, cand : Seq(BitType),
   at : Nat, until : Nat]

LEMMA BeforeTransitive ==
  ASSUME NEW x \in BitType, NEW y \in BitType, NEW z \in BitType
  PROVE  /\ Before(x, y) /\ Before(y, z) => Before(x, z)
         /\ ~Before(x, x)
         /\ ~Noise(x) /\ Before(x, y) => ~Noise(y)
         /\ NotBehind(x, y) /\ NotBehind(y, z) /\ ~Noise(y) => NotBehind(x, z)
         /\ NotBehind(x, y) /\ Before(y, z) => Noise(x) \/ Before(x, z)
         /\ Before(x, y) /\ NotBehind(y, z) /\ ~Noise(y) => Before(x, z)
<1>1. PICK a \in Nat, b \in Nat, c \in Nat, d \in Nat, e \in Nat, f \in Nat :
        /\ x.burst = a /\ x.place = b /\ y.burst = c /\ y.place = d /\ z.burst = e /\ z.place = f
  BY DEF BitType
<1> QED
  BY <1>1 DEF Before, Noise, NotBehind

\* The first bit of a burst stands in one place.
LEMMA StartOnce ==
  ASSUME NEW s \in Seq(BitType), Rising(s), NEW i \in DOMAIN s, NEW j \in DOMAIN s,
         s[i] = s[j], ~Noise(s[i])
  PROVE  i = j
<1>1. s[i] \in BitType /\ i \in Int /\ j \in Int
  OBVIOUS
<1>2. ~Before(s[i], s[i])
  BY <1>1, BeforeTransitive
<1> QED
  BY <1>1, <1>2 DEF Rising

\* What comes later is put behind.
LEMMA RisingTogether ==
  ASSUME NEW s \in Seq(BitType), NEW t \in Seq(BitType), Rising(s), Rising(t),
         NEW m \in BitType,
         \A i \in DOMAIN s : NotBehind(s[i], m),
         \A i \in DOMAIN t : Noise(t[i]) \/ Before(m, t[i])
  PROVE  Rising(s \o t)
<1>1. PICK a \in Nat, b \in Nat : a = Len(s) /\ b = Len(t)
  OBVIOUS
<1>2. PICK r : r = s \o t
  OBVIOUS
<1>3. DOMAIN r = 1 .. a + b /\ DOMAIN s = 1 .. a /\ DOMAIN t = 1 .. b
  BY <1>1, <1>2
<1>4. \A i \in 1 .. a + b : r[i] = IF i <= a THEN s[i] ELSE t[i - a]
  BY <1>1, <1>2
<1>5. ASSUME NEW i \in 1 .. a + b, NEW j \in 1 .. a + b, i < j, ~Noise(r[i]), ~Noise(r[j])
      PROVE  Before(r[i], r[j])
  <2>1. CASE j <= a
    <3>1. i \in 1 .. a /\ j \in 1 .. a /\ i <= a
      BY <1>5, <2>1
    <3> QED
      BY <1>3, <1>4, <1>5, <2>1, <3>1 DEF Rising
  <2>2. CASE ~(i <= a)
    <3>1. i - a \in 1 .. b /\ j - a \in 1 .. b /\ i - a < j - a /\ ~(j <= a)
      BY <1>5, <2>2
    <3> QED
      BY <1>3, <1>4, <1>5, <2>2, <3>1 DEF Rising
  <2>3. CASE i <= a /\ ~(j <= a)
    <3>1. i \in 1 .. a /\ j - a \in 1 .. b
      BY <2>3
    <3>2. r[i] = s[i] /\ r[j] = t[j - a]
      BY <1>4, <2>3
    <3>3. s[i] \in BitType /\ t[j - a] \in BitType /\ NotBehind(s[i], m) /\ Before(m, t[j - a])
      BY <1>3, <1>5, <3>1, <3>2
    <3> QED
      BY <1>5, <3>2, <3>3, BeforeTransitive
  <2> QED
    BY <2>1, <2>2, <2>3
<1> QED
  BY <1>2, <1>3, <1>5 DEF Rising

LEMMA RisingCut ==
  ASSUME NEW s \in Seq(BitType), Rising(s), NEW n \in 0 .. Len(s)
  PROVE  /\ SubSeq(s, n + 1, Len(s)) \in Seq(BitType) /\ Rising(SubSeq(s, n + 1, Len(s)))
         /\ Len(SubSeq(s, n + 1, Len(s))) = Len(s) - n
         /\ \A k \in 1 .. Len(s) - n : SubSeq(s, n + 1, Len(s))[k] = s[n + k]
<1>1. PICK l \in Nat : l = Len(s)
  OBVIOUS
<1>2. PICK r : r = SubSeq(s, n + 1, Len(s))
  OBVIOUS
<1>3. r \in Seq(BitType)
  BY <1>1, <1>2, SubSeqProperties
<1>4. Len(r) = l - n
  <2>1. Len(r) = IF n + 1 <= l THEN l - (n + 1) + 1 ELSE 0
    BY <1>1, <1>2, SubSeqProperties
  <2> QED
    BY <1>1, <2>1
<1>5. \A k \in 1 .. l - n : r[k] = s[n + k]
  <2>1. \A k \in 1 .. Len(r) : r[k] = s[n + 1 + k - 1]
    BY <1>1, <1>2, SubSeqProperties
  <2>2. \A k \in 1 .. l - n : n + 1 + k - 1 = n + k
    BY <1>1
  <2> QED
    BY <1>4, <2>1, <2>2
<1>6. Rising(r)
  <2>1. DOMAIN r = 1 .. l - n
    BY <1>1, <1>3, <1>4
  <2>2. \A k \in 1 .. l - n : n + k \in DOMAIN s
    BY <1>1
  <2>3. \A i, j \in 1 .. l - n : i < j => n + i < n + j
    BY <1>1
  <2> QED
    BY <1>5, <2>1, <2>2, <2>3 DEF Rising
<1> QED
  BY <1>1, <1>2, <1>3, <1>4, <1>5, <1>6

-----------------------------------------------------------------------------
(* The scan *)

Unfound(h) == h.found = 0 /\ h.at = 0 /\ h.until = 0

Covered(all, b, q) == \E c \in DOMAIN all \ {b} : all[c].at < q /\ q < all[c].until

\* What the scan starts from: a burst that was found does not lie ahead.
ScanBase(all, bits, i) ==
  /\ bits \in Seq(BitType) /\ Rising(bits) /\ all \in Seq(HeardType)
  /\ \A k \in DOMAIN bits : Noise(bits[k]) \/ bits[k].burst \in DOMAIN all
  /\ \A b \in DOMAIN all :
       \/ Unfound(all[b])
       \/ all[b].found > 0 /\ \A k \in DOMAIN bits : bits[k] = Start(b) => k <= i

FoundAt(all, bits, b, p, base, size, h) ==
  /\ all[b].found = 0 /\ SyncAt(bits, p) /\ bits[p + 1].burst = b
  /\ h = Told(all[b], bits, p, base, size)

\* What the scan has done before it looks at position n.
ScanUpto(all, bits, i, base, size, n, s) ==
  /\ s.pos \in Nat /\ s.pos >= n /\ s.pos >= i
  /\ s.heard \in Seq(HeardType) /\ DOMAIN s.heard = DOMAIN all
  /\ \A b \in DOMAIN all :
       \/ s.heard[b] = all[b]
       \/ \E p \in i .. n - 1 : /\ p + SyncLen + size <= s.pos
                                /\ FoundAt(all, bits, b, p, base, size, s.heard[b])
  /\ \A p \in i .. n - 1 :
       SyncAt(bits, p) => \/ s.heard[bits[p + 1].burst].found > 0
                          \/ Covered(s.heard, bits[p + 1].burst, base + p)
  /\ \/ s.pos = n
     \/ s.pos = i /\ i > n
     \/ \E c \in DOMAIN all : /\ s.heard[c].found > 0 /\ s.heard[c].at < base + n
                              /\ base + s.pos = s.heard[c].until

\* Where in all bits a position is, and where its window ends.
Absolute(base, at) == base + at

WindowEnd(base, at, size) == base + at + SyncLen + size

ToldAs(h, g, bits, at, base, size) ==
  /\ h \in HeardType
  /\ h.bits = g.bits /\ h.start = g.start /\ h.size = g.size
  /\ h.found = g.found + 1 /\ h.cand = CandidateAt(bits, at + SyncLen, size)
  /\ h.at = Absolute(base, at) /\ h.until = WindowEnd(base, at, size)

LEMMA ToldFields ==
  ASSUME NEW g \in HeardType, NEW bits \in Seq(BitType), NEW at \in Nat, NEW base \in Nat,
         NEW size \in Nat, NEW h, h = Told(g, bits, at, base, size)
  PROVE  ToldAs(h, g, bits, at, base, size)
<1>1. PICK len \in Nat \ {0} : len = SyncLen
  BY VdesAssumption DEF SyncLen
<1>2. PICK cand \in Seq(BitType) : cand = CandidateAt(bits, at + SyncLen, size)
  <2>1. CandidateAt(bits, at + SyncLen, size) \in Seq(BitType)
    <3>1. PICK use : use = IF Len(bits) - (at + SyncLen) < size THEN Len(bits) - (at + SyncLen) ELSE size
      OBVIOUS
    <3>2. CandidateAt(bits, at + SyncLen, size)
            = IF use < CandMin THEN <<>> ELSE SubSeq(bits, at + SyncLen + 1, at + SyncLen + use)
      BY <3>1 DEF CandidateAt
    <3>3. PICK l \in Nat : l = Len(bits)
      OBVIOUS
    <3>4. use \in Int /\ at + len + use <= l
      <4>1. use = IF l - (at + len) < size THEN l - (at + len) ELSE size
        BY ONLY <1>1, <3>1, <3>3
      <4> QED
        BY ONLY <4>1, l \in Nat, at \in Nat, len \in Nat \ {0}, size \in Nat
    <3>5. CASE use < CandMin
      <4>1. CandidateAt(bits, at + SyncLen, size) = <<>>
        BY <3>2, <3>5
      <4>2. <<>> \in Seq(BitType)
        OBVIOUS
      <4> QED
        BY ONLY <4>1, <4>2
    <3>6. CASE ~(use < CandMin)
      <4>1. SubSeq(bits, at + len + 1, at + len + use) \in Seq(BitType)
        <5>1. \A k \in at + len + 1 .. at + len + use : k \in 1 .. l
          BY <1>1, <3>4
        <5>2. at + len + 1 \in Int /\ at + len + use \in Int
          BY <1>1, <3>4
        <5> QED
          BY <3>3, <3>6, <5>1, <5>2, SubSeqProperties
      <4> QED
        BY <1>1, <3>2, <3>6, <4>1
    <3> QED
      BY <3>5, <3>6
  <2> QED
    BY <2>1
<1>3. PICK f \in Nat, u \in Nat, v \in Nat :
        f = g.found + 1 /\ u = base + at /\ v = base + at + SyncLen + size
  BY <1>1 DEF HeardType
<1>5. PICK g1 : g1 = [g EXCEPT !.found = f]
  OBVIOUS
<1>6. PICK g2 : g2 = [g1 EXCEPT !.cand = cand]
  OBVIOUS
<1>7. PICK g3 : g3 = [g2 EXCEPT !.at = u]
  OBVIOUS
<1>8. h = [g3 EXCEPT !.until = v]
  BY <1>2, <1>3, <1>5, <1>6, <1>7 DEF Told
<1>9. /\ g1 \in HeardType /\ g1.bits = g.bits /\ g1.start = g.start /\ g1.size = g.size /\ g1.found = f
  BY <1>5 DEF HeardType
<1>10. /\ g2 \in HeardType /\ g2.bits = g.bits /\ g2.start = g.start /\ g2.size = g.size /\ g2.found = f
       /\ g2.cand = cand
  BY <1>6, <1>9 DEF HeardType
<1>11. /\ g3 \in HeardType /\ g3.bits = g.bits /\ g3.start = g.start /\ g3.size = g.size /\ g3.found = f
       /\ g3.cand = cand /\ g3.at = u
  BY <1>7, <1>10 DEF HeardType
<1>12. /\ h \in HeardType /\ h.bits = g.bits /\ h.start = g.start /\ h.size = g.size /\ h.found = f
       /\ h.cand = cand /\ h.at = u /\ h.until = v
  BY <1>8, <1>11 DEF HeardType
<1> QED
  BY <1>2, <1>3, <1>12 DEF ToldAs, Absolute, WindowEnd

LEMMA SyncBegins ==
  ASSUME NEW bits \in Seq(BitType), NEW n \in Nat, SyncAt(bits, n)
  PROVE  /\ n + 1 \in DOMAIN bits /\ ~Noise(bits[n + 1]) /\ bits[n + 1] = Start(bits[n + 1].burst)
<1>1. PICK len \in Nat \ {0} : len = SyncLen
  BY VdesAssumption DEF SyncLen
<1>2. n + len <= Len(bits) /\ Len(bits) \in Nat
  BY <1>1 DEF SyncAt
<1>3. n + 1 \in 1 .. Len(bits) /\ 1 \in 1 .. len
  BY <1>2
<1> QED
  BY <1>1, <1>3 DEF SyncAt, Noise, Start

\* A training is found once.
LEMMA FoundOnce ==
  ASSUME NEW all, NEW bits, NEW i \in Nat, ScanBase(all, bits, i), NEW base \in Nat, NEW size \in Nat,
         NEW n \in Nat, NEW s, ScanUpto(all, bits, i, base, size, n, s), s.pos = n, SyncAt(bits, n),
         NEW b, b = bits[n + 1].burst
  PROVE  b \in DOMAIN all /\ s.heard[b] = all[b] /\ Unfound(all[b])
<1>1. bits \in Seq(BitType) /\ Rising(bits)
  BY DEF ScanBase
<1>2. n + 1 \in DOMAIN bits /\ ~Noise(bits[n + 1]) /\ bits[n + 1] = Start(b)
  BY <1>1, SyncBegins
<1>3. b \in DOMAIN all
  BY <1>2 DEF ScanBase
<1>4. i <= n
  BY DEF ScanUpto
<1>5. Unfound(all[b])
  <2>1. ~(n + 1 <= i)
    BY <1>4
  <2> QED
    BY <1>2, <1>3, <2>1 DEF ScanBase
<1>6. ASSUME NEW p \in i .. n - 1, SyncAt(bits, p), bits[p + 1].burst = b
      PROVE  FALSE
  <2>1. p \in Nat /\ p + 1 # n + 1
    OBVIOUS
  <2>2. p + 1 \in DOMAIN bits /\ bits[p + 1] = Start(b)
    BY <1>1, <1>6, <2>1, SyncBegins
  <2> QED
    BY <1>1, <1>2, <2>1, <2>2, StartOnce
<1>7. s.heard[b] = all[b]
  BY <1>3, <1>6 DEF ScanUpto, FoundAt
<1> QED
  BY <1>3, <1>5, <1>7

LEMMA ScanAtKeeps ==
  ASSUME NEW all, NEW bits, NEW i \in Nat, ScanBase(all, bits, i), NEW base \in Nat, NEW size \in Nat,
         NEW n \in Nat, NEW s, ScanUpto(all, bits, i, base, size, n, s)
  PROVE  ScanUpto(all, bits, i, base, size, n + 1, ScanAt(s, bits, n, base, size))
<1>1. PICK t : t = ScanAt(s, bits, n, base, size)
  OBVIOUS
<1>2. PICK len \in Nat \ {0} : len = SyncLen
  BY VdesAssumption DEF SyncLen
<1>3. /\ s.pos \in Nat /\ s.pos >= n /\ s.pos >= i
      /\ s.heard \in Seq(HeardType) /\ DOMAIN s.heard = DOMAIN all
  BY DEF ScanUpto
<1>4. CASE s.pos # n
  <2>1. t = s
    BY <1>1, <1>4 DEF ScanAt
  <2>2. s.pos >= n + 1
    BY <1>3, <1>4
  <2>3. ASSUME NEW b \in DOMAIN all
        PROVE  \/ s.heard[b] = all[b]
               \/ \E p \in i .. (n + 1) - 1 : /\ p + SyncLen + size <= s.pos
                                              /\ FoundAt(all, bits, b, p, base, size, s.heard[b])
    <3>1. \A p \in i .. n - 1 : p \in i .. (n + 1) - 1
      OBVIOUS
    <3> QED
      BY <3>1 DEF ScanUpto
  <2>4. ASSUME NEW p \in i .. (n + 1) - 1, SyncAt(bits, p)
        PROVE  \/ s.heard[bits[p + 1].burst].found > 0
               \/ Covered(s.heard, bits[p + 1].burst, base + p)
    <3>1. CASE p \in i .. n - 1
      BY <2>4, <3>1 DEF ScanUpto
    <3>2. CASE p = n
      <4>1. PICK c \in DOMAIN all : /\ s.heard[c].found > 0 /\ s.heard[c].at < base + n
                                    /\ base + s.pos = s.heard[c].until
        BY <1>4, <3>2 DEF ScanUpto
      <4>2. base + n < s.heard[c].until
        BY <1>3, <2>2, <4>1
      <4> QED
        BY <1>3, <3>2, <4>1, <4>2 DEF Covered
    <3> QED
      BY <3>1, <3>2
  <2>5. \/ s.pos = n + 1
        \/ s.pos = i /\ i > n + 1
        \/ \E c \in DOMAIN all : /\ s.heard[c].found > 0 /\ s.heard[c].at < base + (n + 1)
                                 /\ base + s.pos = s.heard[c].until
    <3>1. CASE s.pos = i /\ i > n
      BY <1>3, <3>1
    <3>2. CASE \E c \in DOMAIN all : /\ s.heard[c].found > 0 /\ s.heard[c].at < base + n
                                     /\ base + s.pos = s.heard[c].until
      <4>0. PICK r \in Seq(HeardType) : r = s.heard
        BY <1>3
      <4>3. \A c \in DOMAIN r : r[c] \in HeardType
        OBVIOUS
      <4>1. \A c \in DOMAIN all : s.heard[c].at \in Nat
        BY <1>3, <4>0, <4>3 DEF HeardType
      <4>2. \A c \in DOMAIN all : s.heard[c].at < base + n => s.heard[c].at < base + (n + 1)
        BY <4>1
      <4> QED
        BY <3>2, <4>2
    <3> QED
      BY <1>4, <3>1, <3>2 DEF ScanUpto
  <2> QED
    BY <1>1, <1>3, <2>1, <2>2, <2>3, <2>4, <2>5 DEF ScanUpto
<1>5. CASE s.pos = n /\ ~SyncAt(bits, n)
  <2>1. t = [s EXCEPT !.pos = n + 1]
    BY <1>1, <1>5 DEF ScanAt
  <2>2. t.heard = s.heard
    BY <2>1
  <2>3. t.pos = n + 1
    BY <2>1 DEF ScanUpto
  <2>4. ASSUME NEW b \in DOMAIN all
        PROVE  \/ t.heard[b] = all[b]
               \/ \E p \in i .. (n + 1) - 1 : /\ p + SyncLen + size <= t.pos
                                              /\ FoundAt(all, bits, b, p, base, size, t.heard[b])
    <3>1. \A p \in i .. n - 1 : p \in i .. (n + 1) - 1 /\ (p + len + size <= n => p + len + size <= n + 1)
      OBVIOUS
    <3> QED
      BY <1>2, <1>5, <2>2, <2>3, <3>1 DEF ScanUpto
  <2>5. ASSUME NEW p \in i .. (n + 1) - 1, SyncAt(bits, p)
        PROVE  \/ t.heard[bits[p + 1].burst].found > 0
               \/ Covered(t.heard, bits[p + 1].burst, base + p)
    <3>1. p \in i .. n - 1
      BY <1>5, <2>5
    <3> QED
      BY <2>2, <2>5, <3>1 DEF ScanUpto
  <2>6. t.pos \in Nat /\ t.pos >= n + 1 /\ t.pos >= i
    BY <1>3, <1>5, <2>3
  <2> QED
    BY <1>1, <1>3, <2>2, <2>3, <2>4, <2>5, <2>6 DEF ScanUpto
<1>6. CASE s.pos = n /\ SyncAt(bits, n)
  <2>1. PICK b : b = bits[n + 1].burst
    OBVIOUS
  <2>2. b \in DOMAIN all /\ s.heard[b] = all[b] /\ Unfound(all[b])
    BY <1>6, <2>1, FoundOnce
  <2>3. PICK h : h = Told(all[b], bits, n, base, size)
    OBVIOUS
  <2>4. t = [pos |-> n + SyncLen + size, heard |-> [s.heard EXCEPT ![b] = h]]
    BY <1>1, <1>6, <2>1, <2>2, <2>3 DEF ScanAt
  <2>5. t.pos = n + len + size
    BY <1>2, <2>4
  <2>6. t.heard = [s.heard EXCEPT ![b] = h]
    BY <2>4
  <2>7. /\ h \in HeardType /\ h.found = 1 /\ h.at = base + n /\ h.until = base + n + len + size
    <3>1. all[b] \in HeardType /\ bits \in Seq(BitType) /\ all[b].found = 0
      BY <2>2 DEF ScanBase, Unfound
    <3>2. PICK g \in HeardType : g = all[b]
      BY <3>1
    <3>3. h = Told(g, bits, n, base, size)
      BY <2>3, <3>2
    <3>4. ToldAs(h, g, bits, n, base, size)
      BY <3>1, <3>3, ToldFields
    <3> QED
      BY <1>2, <3>1, <3>2, <3>4 DEF ToldAs, Absolute, WindowEnd
  <2>8. /\ t.heard \in Seq(HeardType) /\ DOMAIN t.heard = DOMAIN all /\ t.heard[b] = h
        /\ \A c \in DOMAIN all : c # b => t.heard[c] = s.heard[c]
    BY <1>3, <2>2, <2>6, <2>7
  <2>9. i <= n
    BY <1>3, <1>6
  <2>10. ASSUME NEW c \in DOMAIN all
         PROVE  \/ t.heard[c] = all[c]
                \/ \E p \in i .. (n + 1) - 1 : /\ p + SyncLen + size <= t.pos
                                               /\ FoundAt(all, bits, c, p, base, size, t.heard[c])
    <3>1. CASE c = b
      <4>1. n \in i .. (n + 1) - 1 /\ n + len + size <= n + len + size
        BY <2>9
      <4>2. FoundAt(all, bits, c, n, base, size, t.heard[c])
        BY <1>6, <2>1, <2>2, <2>3, <2>8, <3>1 DEF FoundAt, Unfound
      <4> QED
        BY <1>2, <2>5, <4>1, <4>2
    <3>2. CASE c # b
      <4>1. \A p \in i .. n - 1 : /\ p \in i .. (n + 1) - 1
                                  /\ p + len + size <= n => p + len + size <= n + len + size
        OBVIOUS
      <4> QED
        BY <1>2, <1>6, <2>5, <2>8, <3>2, <4>1 DEF ScanUpto
    <3> QED
      BY <3>1, <3>2
  <2>11. ASSUME NEW p \in i .. (n + 1) - 1, SyncAt(bits, p)
         PROVE  \/ t.heard[bits[p + 1].burst].found > 0
                \/ Covered(t.heard, bits[p + 1].burst, base + p)
    <3>1. CASE p = n
      BY <2>1, <2>7, <2>8, <3>1
    <3>2. CASE p \in i .. n - 1
      <4>1. PICK d : d = bits[p + 1].burst
        OBVIOUS
      <4>2. s.heard[d].found > 0 \/ Covered(s.heard, d, base + p)
        BY <2>11, <3>2, <4>1 DEF ScanUpto
      <4>3. d \in DOMAIN all
        <5>1. bits \in Seq(BitType) /\ p \in Nat
          BY <3>2 DEF ScanBase
        <5> QED
          BY <2>11, <4>1, <5>1, SyncBegins DEF ScanBase
      <4>4. CASE s.heard[d].found > 0
        <5>1. t.heard[b].found > 0
          BY <2>7, <2>8
        <5>2. d # b => t.heard[d].found > 0
          BY <2>8, <4>3, <4>4
        <5>3. t.heard[d].found > 0
          BY ONLY <5>1, <5>2
        <5> QED
          BY <4>1, <5>3
      <4>5. CASE Covered(s.heard, d, base + p)
        <5>1. PICK c \in DOMAIN s.heard \ {d} : s.heard[c].at < base + p /\ base + p < s.heard[c].until
          BY <4>5 DEF Covered
        <5>2. c # b
          <6>1. ~(base + p < 0)
            BY <3>2
          <6> QED
            BY <2>2, <5>1, <6>1 DEF Unfound
        <5>3. c \in DOMAIN t.heard \ {d} /\ t.heard[c] = s.heard[c]
          BY <1>3, <2>8, <5>1, <5>2
        <5>4. Covered(t.heard, d, base + p)
          BY <5>1, <5>3 DEF Covered
        <5> QED
          BY <4>1, <5>4
      <4> QED
        BY <4>2, <4>4, <4>5
    <3> QED
      BY <3>1, <3>2
  <2>12. \E c \in DOMAIN all : /\ t.heard[c].found > 0 /\ t.heard[c].at < base + (n + 1)
                               /\ base + t.pos = t.heard[c].until
    <3>1. base + n < base + (n + 1) /\ base + (n + len + size) = base + n + len + size
      OBVIOUS
    <3> QED
      BY <2>2, <2>5, <2>7, <2>8, <3>1
  <2>13. t.pos \in Nat /\ t.pos >= n + 1 /\ t.pos >= i
    BY <2>5, <2>9
  <2> QED
    BY <1>1, <2>8, <2>10, <2>11, <2>12, <2>13 DEF ScanUpto
<1> QED
  BY <1>4, <1>5, <1>6

ScanSteps(g, n, bits, i, base, size, all) ==
  /\ DOMAIN g = 0 .. n
  /\ \A m \in 0 .. n :
       g[m] = IF m = 0 THEN [pos |-> i, heard |-> all] ELSE ScanAt(g[m - 1], bits, m - 1, base, size)

LEMMA ScanExists ==
  ASSUME NEW len \in Nat, NEW bits, NEW i, NEW base, NEW size, NEW all
  PROVE  \E g : ScanSteps(g, len, bits, i, base, size, all)
<1> DEFINE Bad == {n \in Nat : ~\E g : ScanSteps(g, n, bits, i, base, size, all)}
<1> SUFFICES ASSUME Bad # {} PROVE FALSE
  OBVIOUS
<1>1. PICK n \in Bad : \A m \in Bad : n <= m
  <2>1. Bad \subseteq Nat
    OBVIOUS
  <2> HIDE DEF Bad
  <2> QED
    BY <2>1, LeastNat
<1>2. n \in Nat /\ ~\E g : ScanSteps(g, n, bits, i, base, size, all)
  OBVIOUS
<1>3. CASE n = 0
  <2>1. ScanSteps([m \in 0 .. 0 |-> [pos |-> i, heard |-> all]], 0, bits, i, base, size, all)
    BY DEF ScanSteps
  <2> QED
    BY <1>2, <1>3, <2>1
<1>4. CASE n > 0
  <2>1. n - 1 \in Nat /\ n - 1 \notin Bad
    BY <1>1, <1>2, <1>4
  <2>2. PICK h : ScanSteps(h, n - 1, bits, i, base, size, all)
    BY <2>1
  <2>3. PICK last : last = ScanAt(h[n - 1], bits, n - 1, base, size)
    OBVIOUS
  <2> DEFINE g == [m \in 0 .. n |-> IF m = n THEN last ELSE h[m]]
  <2>4. \A m \in 0 .. n : m = n \/ m \in 0 .. n - 1
    BY <1>2
  <2>5. \A m \in 0 .. n - 1 : g[m] = h[m] /\ m \in 0 .. n
    BY <1>2
  <2>6. g[n] = last /\ n - 1 \in 0 .. n - 1
    BY <1>2, <1>4
  <2>7. DOMAIN g = 0 .. n
    OBVIOUS
  <2> HIDE DEF g
  <2>8. ASSUME NEW m \in 0 .. n
        PROVE  g[m] = IF m = 0 THEN [pos |-> i, heard |-> all]
                      ELSE ScanAt(g[m - 1], bits, m - 1, base, size)
    <3>1. CASE m = n
      BY <1>4, <2>3, <2>5, <2>6, <3>1
    <3>2. CASE m \in 0 .. n - 1 /\ m = 0
      BY <2>2, <2>5, <3>2 DEF ScanSteps
    <3>3. CASE m \in 0 .. n - 1 /\ m # 0
      <4>1. m - 1 \in 0 .. n - 1
        BY <1>2, <3>3
      <4> QED
        BY <2>2, <2>5, <3>3, <4>1 DEF ScanSteps
    <3> QED
      BY <2>4, <3>1, <3>2, <3>3
  <2>9. ScanSteps(g, n, bits, i, base, size, all)
    BY <2>7, <2>8 DEF ScanSteps
  <2> QED
    BY <1>2, <2>9
<1> QED
  BY <1>2, <1>3, <1>4

LEMMA ScanRuns ==
  ASSUME NEW bits, NEW i, NEW base, NEW size, NEW all, Len(bits) \in Nat
  PROVE  \E g : /\ ScanSteps(g, Len(bits), bits, i, base, size, all)
                /\ ScanFrom(bits, i, base, size, all) = g[Len(bits)]
<1>0. PICK n \in Nat : n = Len(bits)
  OBVIOUS
<1>1. PICK g : ScanSteps(g, n, bits, i, base, size, all)
  BY ScanExists
<1> DEFINE Unfolds(h) == h = [m \in 0 .. n |->
             IF m = 0 THEN [pos |-> i, heard |-> all] ELSE ScanAt(h[m - 1], bits, m - 1, base, size)]
           f == [m \in 0 .. n |-> g[m]]
           e == CHOOSE h : Unfolds(h)
<1>2. Unfolds(f)
  <2>1. \A m \in 0 .. n : m # 0 => m - 1 \in 0 .. n
    OBVIOUS
  <2>2. \A m \in 0 .. n : f[m] = IF m = 0 THEN [pos |-> i, heard |-> all]
                                 ELSE ScanAt(f[m - 1], bits, m - 1, base, size)
    BY <1>1, <2>1 DEF ScanSteps
  <2>3. f = [m \in 0 .. n |-> f[m]]
    OBVIOUS
  <2> HIDE DEF f
  <2> QED
    BY <2>2, <2>3
<1>3. Unfolds(e)
  BY <1>2
<1>4. ScanFrom(bits, i, base, size, all) = e[n]
  BY <1>0 DEF ScanFrom
<1> HIDE DEF e
<1>5. ScanSteps(e, n, bits, i, base, size, all)
  BY <1>3 DEF ScanSteps
<1> QED
  BY <1>0, <1>4, <1>5

\* The scan of all of it.
LEMMA ScanFinds ==
  ASSUME NEW all, NEW bits, NEW i \in Nat, ScanBase(all, bits, i), NEW base \in Nat, NEW size \in Nat
  PROVE  ScanUpto(all, bits, i, base, size, Len(bits), ScanFrom(bits, i, base, size, all))
<1>0. PICK len \in Nat : len = Len(bits)
  BY DEF ScanBase
<1>1. PICK g : /\ ScanSteps(g, len, bits, i, base, size, all)
               /\ ScanFrom(bits, i, base, size, all) = g[len]
  BY <1>0, ScanRuns
<1> DEFINE Bad == {n \in 0 .. len : ~ScanUpto(all, bits, i, base, size, n, g[n])}
<1> SUFFICES ASSUME Bad # {} PROVE FALSE
  BY <1>0, <1>1
<1>2. PICK n \in Bad : \A m \in Bad : n <= m
  <2>1. Bad \subseteq Nat
    OBVIOUS
  <2> HIDE DEF Bad
  <2> QED
    BY <2>1, LeastNat
<1>3. n \in 0 .. len /\ ~ScanUpto(all, bits, i, base, size, n, g[n])
  OBVIOUS
<1>4. CASE n = 0
  <2>1. g[0] = [pos |-> i, heard |-> all]
    BY <1>1, <1>3, <1>4 DEF ScanSteps
  <2>2. g[0].pos = i /\ g[0].heard = all /\ (i = 0 \/ i > 0) /\ i >= 0 /\ i >= i
    BY <2>1
  <2>3. \A p \in i .. 0 - 1 : FALSE
    OBVIOUS
  <2>4. all \in Seq(HeardType)
    BY DEF ScanBase
  <2>5. ScanUpto(all, bits, i, base, size, 0, g[0])
    BY <2>2, <2>3, <2>4 DEF ScanUpto
  <2> QED
    BY <1>3, <1>4, <2>5
<1>5. CASE n > 0
  <2>1. PICK m \in Nat : m = n - 1 /\ n = m + 1
    BY <1>3, <1>5
  <2>2. m \in 0 .. len /\ ~(n <= m)
    BY <1>3, <2>1
  <2>3. ScanUpto(all, bits, i, base, size, m, g[m])
    BY <1>2, <2>2
  <2>4. g[n] = ScanAt(g[m], bits, m, base, size)
    BY <1>1, <1>3, <1>5, <2>1 DEF ScanSteps
  <2>5. ScanUpto(all, bits, i, base, size, m + 1, ScanAt(g[m], bits, m, base, size))
    BY <2>3, ScanAtKeeps
  <2> QED
    BY <1>3, <2>1, <2>4, <2>5
<1> QED
  BY <1>3, <1>4, <1>5

-----------------------------------------------------------------------------
(* One call of the decoder *)

WindowOf(h) ==
  LET use == IF Len(h.bits) - SyncLen < h.size THEN Len(h.bits) - SyncLen ELSE h.size
  IN  IF use < CandMin THEN <<>> ELSE SubSeq(h.bits, SyncLen + 1, SyncLen + use)

\* BurstsFoundOnce of one burst.
FoundWell(all, b) ==
  /\ all[b].found <= 1
  /\ all[b].bits # <<>> /\ ~Covered(all, b, all[b].start) => all[b].found = 1
  /\ all[b].bits # <<>> /\ all[b].found = 1 => all[b].cand = WindowOf(all[b])

\* The decoder has seen the training.
Done(h) == h.found > 0 \/ h.bits # <<>>

DecoderType == [stream : Seq(BitType), scan_pos : Nat, candidate_bits : Nat]

\* The stream has its bits in their order, m is the last that came; what the
\* decoder has seen lies behind scan_pos, and scan_pos only lies ahead of all
\* bits within the window of a hit.
DecoderOK(dec, all, t, m) ==
  /\ dec \in DecoderType /\ Len(dec.stream) <= TailKeep /\ t \in Nat /\ Len(dec.stream) <= t
  /\ dec.candidate_bits >= CandMin
  /\ m \in BitType /\ Rising(dec.stream) /\ \A k \in DOMAIN dec.stream : NotBehind(dec.stream[k], m)
  /\ all \in Seq(HeardType) /\ m.burst <= Len(all)
  /\ \A b \in DOMAIN all : Unfound(all[b]) \/ all[b].found > 0
  /\ \A b \in DOMAIN all : Done(all[b]) =>
       /\ NotBehind(Start(b), m)
       /\ \A k \in DOMAIN dec.stream : dec.stream[k] = Start(b) => k <= dec.scan_pos
  /\ \A b \in DOMAIN all : FoundWell(all, b)
  /\ dec.scan_pos > Len(dec.stream) =>
       \E c \in DOMAIN all : /\ all[c].found > 0 /\ all[c].at < t
                             /\ (t - Len(dec.stream)) + dec.scan_pos <= all[c].until

\* What the demodulator emits: the training of burst a and what follows it, up
\* to bit last, all behind bit m.
EmissionOK(bits, a, m, last, all) ==
  /\ bits \in Seq(BitType) /\ Rising(bits)
  /\ Len(bits) > Backup /\ Len(bits) >= SyncLen /\ Len(bits) <= VdesMaxBits
  /\ a \in DOMAIN all
  /\ \A k \in 1 .. SyncLen : bits[k] = [burst |-> a, place |-> k]
  /\ Before(m, Start(a))
  /\ last \in BitType /\ last.burst <= Len(all)
  /\ \A k \in DOMAIN bits : NotBehind(bits[k], last)

LEMMA EmissionStarts ==
  ASSUME NEW all \in Seq(HeardType), NEW m \in BitType, NEW last, NEW a, NEW bits,
         EmissionOK(bits, a, m, last, all)
  PROVE  /\ a \in Nat \ {0} /\ Start(a) \in BitType /\ ~Noise(Start(a))
         /\ 1 \in DOMAIN bits /\ bits[1] = Start(a) /\ bits[1].burst = a
         /\ NotBehind(Start(a), last)
         /\ \A k \in DOMAIN bits : Noise(bits[k]) \/ Before(m, bits[k])
<1>1. PICK len \in Nat \ {0} : len = SyncLen
  BY VdesAssumption DEF SyncLen
<1>2. PICK n \in Nat : n = Len(bits) /\ n >= len /\ DOMAIN bits = 1 .. n
  BY <1>1 DEF EmissionOK
<1>3. a \in Nat \ {0}
  BY DEF EmissionOK
<1>4. Start(a) \in BitType /\ ~Noise(Start(a))
  BY <1>3 DEF Start, BitType, Noise
<1>5. 1 \in 1 .. n /\ 1 \in 1 .. len
  BY <1>2
<1>6. bits[1] = Start(a) /\ bits[1].burst = a
  BY <1>1, <1>5 DEF EmissionOK, Start
<1>7. NotBehind(Start(a), last)
  BY <1>2, <1>5, <1>6 DEF EmissionOK
<1>8. ASSUME NEW k \in 1 .. n
      PROVE  Noise(bits[k]) \/ Before(m, bits[k])
  <2>1. CASE k = 1
    BY <1>6, <2>1 DEF EmissionOK
  <2>2. CASE k # 1
    <3>1. 1 < k
      BY <2>2
    <3>2. Noise(bits[k]) \/ Before(Start(a), bits[k])
      BY <1>2, <1>4, <1>5, <1>6, <3>1 DEF EmissionOK, Rising
    <3>3. bits[k] \in BitType
      BY <1>2 DEF EmissionOK
    <3>4. Before(m, Start(a))
      BY DEF EmissionOK
    <3> QED
      BY <1>4, <3>2, <3>3, <3>4, BeforeTransitive
  <2> QED
    BY <2>1, <2>2
<1> QED
  BY <1>2, <1>3, <1>4, <1>5, <1>6, <1>7, <1>8

\* The stream with what was emitted.
KeptAs(kept, stream, bits, all, m, last) ==
  /\ kept \in Seq(BitType) /\ Rising(kept) /\ Len(kept) = Len(stream) + Len(bits)
  /\ \A k \in 1 .. Len(stream) : kept[k] = stream[k]
  /\ \A k \in 1 .. Len(bits) : kept[Len(stream) + k] = bits[k]
  /\ \A k \in DOMAIN kept : NotBehind(kept[k], last)
  /\ \A k \in DOMAIN kept : Noise(kept[k]) \/ kept[k].burst \in DOMAIN all
  /\ \A b \in DOMAIN all, k \in DOMAIN kept :
       NotBehind(Start(b), m) /\ kept[k] = Start(b) => k \in DOMAIN stream

LEMMA KeptRow ==
  ASSUME NEW dec, NEW all, NEW t, NEW m, DecoderOK(dec, all, t, m), NEW bits, NEW a, NEW last,
         EmissionOK(bits, a, m, last, all), NEW kept, kept = Appended(dec.stream, bits)
  PROVE  KeptAs(kept, dec.stream, bits, all, m, last)
<1>1. PICK s \in Seq(BitType) : s = dec.stream
  BY DEF DecoderOK, DecoderType
<1>2. PICK x \in Nat, y \in Nat : x = Len(s) /\ y = Len(bits)
  BY DEF EmissionOK
<1>3. bits \in Seq(BitType) /\ m \in BitType /\ last \in BitType /\ all \in Seq(HeardType)
  BY DEF EmissionOK, DecoderOK
<1>4. kept = s \o bits
  <2>1. x <= TailKeep /\ y <= VdesMaxBits
    BY <1>1, <1>2 DEF DecoderOK, EmissionOK
  <2>2. ~(x + y > StreamMax)
    BY <2>1, VdesAssumption
  <2> QED
    BY <1>1, <1>2, <2>2 DEF Appended
<1>5. /\ kept \in Seq(BitType) /\ DOMAIN kept = 1 .. x + y /\ Len(kept) = x + y
      /\ \A k \in 1 .. x : kept[k] = s[k]
  BY <1>2, <1>3, <1>4
<1>6. \A k \in 1 .. y : kept[x + k] = bits[k]
  BY <1>2, <1>3, <1>4
<1>7. \A k \in 1 .. x + y : k \in 1 .. x \/ (k - x \in 1 .. y /\ x + (k - x) = k)
  OBVIOUS
<1>8. /\ a \in Nat \ {0} /\ Start(a) \in BitType /\ ~Noise(Start(a))
      /\ NotBehind(Start(a), last)
      /\ \A k \in DOMAIN bits : Noise(bits[k]) \/ Before(m, bits[k])
  BY <1>3, EmissionStarts
<1>9. DOMAIN s = 1 .. x /\ DOMAIN bits = 1 .. y
  BY <1>2, <1>3
<1>10. Rising(kept)
  <2>1. Rising(s) /\ Rising(bits) /\ \A k \in DOMAIN s : NotBehind(s[k], m)
    BY <1>1 DEF DecoderOK, EmissionOK
  <2> QED
    BY <1>3, <1>4, <1>8, <2>1, RisingTogether
<1>11. ASSUME NEW k \in 1 .. x + y
       PROVE  NotBehind(kept[k], last)
  <2>1. CASE k \in 1 .. x
    <3>1. NotBehind(s[k], m) /\ s[k] \in BitType
      BY <1>1, <1>9, <2>1 DEF DecoderOK
    <3>2. Before(m, Start(a))
      BY DEF EmissionOK
    <3>3. Noise(s[k]) \/ Before(s[k], Start(a))
      BY <1>3, <1>8, <3>1, <3>2, BeforeTransitive
    <3>4. Noise(s[k]) \/ Before(s[k], last)
      BY <1>3, <1>8, <3>1, <3>3, BeforeTransitive
    <3>5. kept[k] = s[k]
      BY <1>5, <2>1
    <3>6. CASE Noise(s[k])
      BY <3>5, <3>6 DEF NotBehind
    <3>7. CASE Before(s[k], last)
      BY <3>5, <3>7 DEF NotBehind
    <3> QED
      BY <3>4, <3>6, <3>7
  <2>2. CASE k \notin 1 .. x
    <3>1. PICK j \in 1 .. y : x + j = k
      BY <1>7, <2>2
    <3> QED
      BY <1>6, <1>9, <3>1 DEF EmissionOK
  <2> QED
    BY <2>1, <2>2
<1>12. ASSUME NEW k \in 1 .. x + y, ~Noise(kept[k])
       PROVE  kept[k].burst \in DOMAIN all
  <2>1. kept[k] \in BitType /\ kept[k].burst # 0
    BY <1>5, <1>12 DEF Noise
  <2>2. kept[k].burst <= last.burst
    <3>1. PICK u \in Nat, v \in Nat : u = kept[k].burst /\ v = last.burst
      BY <1>3, <2>1 DEF BitType
    <3>2. kept[k] = last \/ Before(kept[k], last)
      BY <1>11, <1>12 DEF NotBehind
    <3>3. u = v \/ u < v
      BY <3>1, <3>2 DEF Before
    <3> QED
      BY <3>1, <3>3
  <2>3. last.burst <= Len(all) /\ last.burst \in Nat /\ kept[k].burst \in Nat
    BY <1>3, <2>1 DEF EmissionOK, BitType
  <2>4. PICK n \in Nat : n = Len(all) /\ DOMAIN all = 1 .. n
    BY <1>3
  <2> QED
    BY <2>1, <2>2, <2>3, <2>4
<1>13. ASSUME NEW b \in DOMAIN all, NEW k \in 1 .. x + y, NotBehind(Start(b), m), kept[k] = Start(b)
       PROVE  k \in 1 .. x
  <2>1. SUFFICES ASSUME k - x \in 1 .. y, x + (k - x) = k PROVE FALSE
    BY <1>7
  <2>2. b \in Nat \ {0}
    BY <1>3
  <2>3. Start(b) \in BitType /\ ~Noise(Start(b))
    BY <2>2 DEF Start, BitType, Noise
  <2>4. bits[k - x] = Start(b)
    BY <1>6, <1>13, <2>1
  <2>5. Before(m, Start(b))
    BY <1>8, <1>9, <2>1, <2>3, <2>4
  <2>6. Before(Start(b), Start(b))
    BY <1>3, <1>13, <2>3, <2>5, BeforeTransitive
  <2> QED
    BY <2>3, <2>6, BeforeTransitive
<1> QED
  BY <1>1, <1>2, <1>5, <1>6, <1>9, <1>10, <1>11, <1>12, <1>13 DEF KeptAs

\* What is known of a burst once its bits were handed to the decoder.
NotedAs(h, g, bits, t, size) ==
  /\ h \in HeardType
  /\ h.bits = bits /\ h.start = t /\ h.size = size
  /\ h.found = g.found /\ h.cand = g.cand /\ h.at = g.at /\ h.until = g.until

LEMMA NotedFields ==
  ASSUME NEW g \in HeardType, NEW bits \in Seq(BitType), NEW t \in Nat, NEW size \in Nat,
         NEW h, h = [g EXCEPT !.bits = bits, !.start = t, !.size = size]
  PROVE  NotedAs(h, g, bits, t, size)
<1>1. PICK g1 : g1 = [g EXCEPT !.bits = bits]
  OBVIOUS
<1>2. PICK g2 : g2 = [g1 EXCEPT !.start = t]
  OBVIOUS
<1>3. h = [g2 EXCEPT !.size = size]
  BY <1>1, <1>2
<1>4. /\ g1 \in HeardType /\ g1.bits = bits /\ g1.found = g.found /\ g1.cand = g.cand
      /\ g1.at = g.at /\ g1.until = g.until
  BY <1>1 DEF HeardType
<1>5. /\ g2 \in HeardType /\ g2.bits = bits /\ g2.start = t /\ g2.found = g.found /\ g2.cand = g.cand
      /\ g2.at = g.at /\ g2.until = g.until
  BY <1>2, <1>4 DEF HeardType
<1>6. /\ h \in HeardType /\ h.bits = bits /\ h.start = t /\ h.size = size /\ h.found = g.found
      /\ h.cand = g.cand /\ h.at = g.at /\ h.until = g.until
  BY <1>3, <1>5 DEF HeardType
<1> QED
  BY <1>6 DEF NotedAs

\* A burst that is emitted is new to the decoder.
NotedAll(noted, all, a, bits, t, size) ==
  /\ noted \in Seq(HeardType) /\ DOMAIN noted = DOMAIN all
  /\ Unfound(all[a]) /\ all[a].bits = <<>>
  /\ \A b \in DOMAIN all : b # a => noted[b] = all[b]
  /\ NotedAs(noted[a], all[a], bits, t, size)

LEMMA EmissionIsNew ==
  ASSUME NEW dec, NEW all, NEW t, NEW m, DecoderOK(dec, all, t, m), NEW bits, NEW a, NEW last,
         EmissionOK(bits, a, m, last, all)
  PROVE  Unfound(all[a]) /\ all[a].bits = <<>>
<1>1. a \in DOMAIN all /\ Before(m, Start(a)) /\ m \in BitType /\ all \in Seq(HeardType)
  BY DEF EmissionOK, DecoderOK
<1>2. Start(a) \in BitType /\ ~Noise(Start(a))
  BY <1>1, EmissionStarts
<1>3. ~Done(all[a])
  <2>1. SUFFICES ASSUME Done(all[a]) PROVE FALSE
    OBVIOUS
  <2>2. NotBehind(Start(a), m)
    BY <1>1, <2>1 DEF DecoderOK
  <2>3. Before(Start(a), Start(a))
    BY <1>1, <1>2, <2>2, BeforeTransitive
  <2> QED
    BY <1>2, <2>3, BeforeTransitive
<1> QED
  BY <1>1, <1>3 DEF DecoderOK, Done

LEMMA NotedBase ==
  ASSUME NEW dec, NEW all, NEW t, NEW m, DecoderOK(dec, all, t, m), NEW bits, NEW a, NEW last,
         EmissionOK(bits, a, m, last, all), NEW kept, kept = Appended(dec.stream, bits),
         NEW noted,
         noted = [all EXCEPT ![a] = [@ EXCEPT !.bits = bits, !.start = t, !.size = dec.candidate_bits]]
  PROVE  /\ NotedAll(noted, all, a, bits, t, dec.candidate_bits)
         /\ ScanBase(noted, kept, dec.scan_pos)
<1>1. /\ a \in DOMAIN all /\ all \in Seq(HeardType) /\ t \in Nat /\ bits \in Seq(BitType)
      /\ dec.candidate_bits \in Nat /\ dec.scan_pos \in Nat
  BY DEF EmissionOK, DecoderOK, DecoderType
<1>2. PICK size \in Nat : size = dec.candidate_bits
  BY <1>1
<1>3. PICK g \in HeardType : g = all[a]
  <2>1. all[a] \in HeardType
    BY <1>1
  <2> QED
    BY <2>1
<1>4. PICK h : h = [g EXCEPT !.bits = bits, !.start = t, !.size = size]
  OBVIOUS
<1>5. NotedAs(h, g, bits, t, size)
  BY <1>1, <1>4, NotedFields
<1>6. noted = [all EXCEPT ![a] = h]
  BY <1>2, <1>3, <1>4
<1>7. h \in HeardType
  BY <1>5 DEF NotedAs
<1>8. noted \in Seq(HeardType) /\ DOMAIN noted = DOMAIN all /\ noted[a] = h
  BY <1>1, <1>6, <1>7
<1>9. \A b \in DOMAIN all : b # a => noted[b] = all[b]
  BY <1>1, <1>6
<1>10. Unfound(all[a]) /\ all[a].bits = <<>>
  BY EmissionIsNew
<1>11. NotedAll(noted, all, a, bits, t, dec.candidate_bits)
  BY <1>2, <1>3, <1>5, <1>8, <1>9, <1>10 DEF NotedAll
<1>12. Unfound(noted[a])
  BY <1>3, <1>5, <1>8, <1>10 DEF Unfound, NotedAs
<1>13. /\ kept \in Seq(BitType) /\ Rising(kept)
       /\ \A k \in 1 .. Len(dec.stream) : kept[k] = dec.stream[k]
       /\ \A k \in DOMAIN kept : Noise(kept[k]) \/ kept[k].burst \in DOMAIN all
       /\ \A b \in DOMAIN all, k \in DOMAIN kept :
            NotBehind(Start(b), m) /\ kept[k] = Start(b) => k \in DOMAIN dec.stream
  <2>1. KeptAs(kept, dec.stream, bits, all, m, last)
    BY KeptRow
  <2> QED
    BY <2>1 DEF KeptAs
<1>14. DOMAIN dec.stream = 1 .. Len(dec.stream)
  BY DEF DecoderOK, DecoderType
<1>15. ASSUME NEW b \in DOMAIN noted
       PROVE  \/ Unfound(noted[b])
              \/ noted[b].found > 0 /\ \A k \in DOMAIN kept : kept[k] = Start(b) => k <= dec.scan_pos
  <2>1. CASE b = a
    BY <1>12, <2>1
  <2>2. CASE b # a /\ ~Unfound(all[b])
    <3>1. b \in DOMAIN all /\ all[b].found > 0 /\ noted[b] = all[b]
      BY <1>8, <1>9, <2>2 DEF DecoderOK
    <3>2. Done(all[b])
      BY <3>1 DEF Done
    <3>3. /\ NotBehind(Start(b), m)
          /\ \A k \in DOMAIN dec.stream : dec.stream[k] = Start(b) => k <= dec.scan_pos
      BY <3>1, <3>2 DEF DecoderOK
    <3>4. ASSUME NEW k \in DOMAIN kept, kept[k] = Start(b)
          PROVE  k <= dec.scan_pos
      <4>1. k \in DOMAIN dec.stream
        BY <1>13, <3>1, <3>3, <3>4
      <4>2. dec.stream[k] = Start(b)
        BY <1>13, <1>14, <3>4, <4>1
      <4> QED
        BY <3>3, <4>1, <4>2
    <3> QED
      BY <3>1, <3>4
  <2>3. CASE b # a /\ Unfound(all[b])
    BY <1>8, <1>9, <2>3
  <2> QED
    BY <2>1, <2>2, <2>3
<1>16. \A k \in DOMAIN kept : Noise(kept[k]) \/ kept[k].burst \in DOMAIN noted
  BY <1>8, <1>13
<1>17. ScanBase(noted, kept, dec.scan_pos)
  BY <1>8, <1>13, <1>15, <1>16 DEF ScanBase
<1> QED
  BY <1>11, <1>17

\* A call of the decoder, up to the end of the scan.
DecodeStep(dec, all, t, m, bits, a, last, kept, noted, s) ==
  /\ DecoderOK(dec, all, t, m) /\ EmissionOK(bits, a, m, last, all)
  /\ KeptAs(kept, dec.stream, bits, all, m, last)
  /\ NotedAll(noted, all, a, bits, t, dec.candidate_bits)
  /\ ScanBase(noted, kept, dec.scan_pos)
  /\ ScanUpto(noted, kept, dec.scan_pos, t - Len(dec.stream), dec.candidate_bits, Len(kept), s)

\* The training of what was emitted stands where the stream ended.
LEMMA TrainingStands ==
  ASSUME NEW dec, NEW all, NEW t, NEW m, NEW bits, NEW a, NEW last, NEW kept, NEW noted, NEW s,
         DecodeStep(dec, all, t, m, bits, a, last, kept, noted, s),
         NEW x, x = Len(dec.stream)
  PROVE  /\ SyncAt(kept, x) /\ x + 1 \in DOMAIN kept /\ kept[x + 1] = Start(a)
         /\ kept[x + 1].burst = a
<1>1. PICK len \in Nat \ {0} : len = SyncLen
  BY VdesAssumption DEF SyncLen
<1>2. PICK u \in Nat, y \in Nat, n \in Nat : u = x /\ y = Len(bits) /\ n = Len(kept) /\ n = u + y /\ y >= len
  BY <1>1 DEF DecodeStep, EmissionOK, KeptAs, DecoderOK, DecoderType
<1>3. kept \in Seq(BitType) /\ \A k \in 1 .. y : kept[u + k] = bits[k]
  BY <1>2 DEF DecodeStep, KeptAs
<1>4. /\ a \in Nat \ {0} /\ 1 \in DOMAIN bits /\ bits[1] = Start(a) /\ bits[1].burst = a
  <2>1. all \in Seq(HeardType) /\ m \in BitType /\ EmissionOK(bits, a, m, last, all)
    BY DEF DecodeStep, DecoderOK
  <2> QED
    BY <2>1, EmissionStarts
<1>5. 1 \in 1 .. y /\ \A k \in 1 .. len : k \in 1 .. y
  BY <1>2
<1>6. kept[u + 1] = Start(a) /\ kept[u + 1].burst = a /\ u + 1 \in DOMAIN kept
  <2>1. kept[u + 1] = bits[1]
    BY <1>3, <1>5
  <2>2. DOMAIN kept = 1 .. n
    <3>1. kept \in Seq(BitType)
      BY <1>3
    <3>2. DOMAIN kept = 1 .. Len(kept)
      BY <3>1
    <3> QED
      BY <1>2, <3>2
  <2>3. u + 1 \in 1 .. n
    BY <1>2
  <2> QED
    BY <1>4, <2>1, <2>2, <2>3
<1>7. \A k \in 1 .. len : kept[u + k] = [burst |-> a, place |-> k]
  BY <1>1, <1>3, <1>5 DEF DecodeStep, EmissionOK
<1>8. u + len <= n /\ a > 0
  BY <1>2, <1>4
<1>9. SyncAt(kept, u)
  BY <1>1, <1>2, <1>6, <1>7, <1>8 DEF SyncAt
<1> QED
  BY <1>2, <1>6, <1>9

\* The window behind it is the one of what was emitted.
LEMMA WindowStands ==
  ASSUME NEW dec, NEW all, NEW t, NEW m, NEW bits, NEW a, NEW last, NEW kept, NEW noted, NEW s,
         DecodeStep(dec, all, t, m, bits, a, last, kept, noted, s),
         NEW h, h.bits = bits, h.size = dec.candidate_bits
  PROVE  CandidateAt(kept, Len(dec.stream) + SyncLen, dec.candidate_bits) = WindowOf(h)
<1>1. PICK len \in Nat \ {0} : len = SyncLen
  BY VdesAssumption DEF SyncLen
<1>2. PICK x \in Nat, y \in Nat, n \in Nat :
        x = Len(dec.stream) /\ y = Len(bits) /\ n = Len(kept) /\ n = x + y /\ y >= len
  BY <1>1 DEF DecodeStep, EmissionOK, KeptAs, DecoderOK, DecoderType
<1>3. PICK size \in Nat : size = dec.candidate_bits
  BY DEF DecodeStep, DecoderOK, DecoderType
<1>4. PICK use \in Nat : use = (IF y - len < size THEN y - len ELSE size) /\ len + use <= y
  <2>1. PICK e \in Nat : e = y - len /\ len + e = y
    <3>1. y \in Nat /\ len \in Nat /\ y >= len
      BY <1>1, <1>2
    <3>2. y - len \in Nat /\ len + (y - len) = y
      BY ONLY <3>1
    <3> QED
      BY <3>2
  <2>2. CASE e < size
    <3>1. e = (IF y - len < size THEN y - len ELSE size) /\ len + e <= y
      BY <2>1, <2>2
    <3> QED
      BY <3>1
  <2>3. CASE ~(e < size)
    <3>1. size = (IF y - len < size THEN y - len ELSE size) /\ len + size <= y
      BY <2>1, <2>3
    <3> QED
      BY <3>1
  <2> QED
    BY <2>2, <2>3
<1>5. use = IF n - (x + len) < size THEN n - (x + len) ELSE size
  BY <1>2, <1>4
<1>6. CandidateAt(kept, x + len, size)
        = IF use < CandMin THEN <<>> ELSE SubSeq(kept, x + len + 1, x + len + use)
  BY <1>2, <1>5 DEF CandidateAt
<1>7. WindowOf(h) = IF use < CandMin THEN <<>> ELSE SubSeq(bits, len + 1, len + use)
  BY <1>1, <1>2, <1>3, <1>4 DEF WindowOf
<1>8. kept \in Seq(BitType) /\ bits \in Seq(BitType) /\ \A k \in 1 .. y : kept[x + k] = bits[k]
  BY <1>2 DEF DecodeStep, KeptAs, EmissionOK
<1>9. SubSeq(kept, x + len + 1, x + len + use) = SubSeq(bits, len + 1, len + use)
  <2>0. PICK e \in Nat : e = x + len /\ e + use <= n
    BY <1>2, <1>4
  <2>1. PICK v : v = SubSeq(kept, e + 1, e + use)
    OBVIOUS
  <2>2. PICK w : w = SubSeq(bits, len + 1, len + use)
    OBVIOUS
  <2>3. v \in Seq(BitType) /\ Len(v) = use /\ \A k \in 1 .. use : v[k] = kept[e + k]
    <3>1. \A k \in e + 1 .. e + use : k \in 1 .. n
      BY <2>0
    <3>2. v \in Seq(BitType)
      <4>1. ASSUME NEW k \in e + 1 .. e + use
            PROVE  kept[k] \in BitType
        <5>1. k \in 1 .. Len(kept)
          BY <1>2, <3>1
        <5>2. kept \in Seq(BitType)
          BY <1>8
        <5> QED
          BY ONLY <5>1, <5>2
      <4>2. e + 1 \in Int /\ e + use \in Int
        OBVIOUS
      <4> QED
        BY <2>1, <4>1, <4>2, SubSeqProperties
    <3>3. Len(v) = IF e + 1 <= e + use THEN (e + use) - (e + 1) + 1 ELSE 0
      BY <1>2, <1>8, <2>1, <3>1, SubSeqProperties
    <3>4. Len(v) = use
      BY <1>4, <3>3
    <3>5. \A k \in 1 .. Len(v) : v[k] = kept[e + 1 + k - 1]
      <4>1. PICK lo \in Nat \ {0}, hi \in Nat : lo = e + 1 /\ hi = e + use
        <5>1. e + 1 \in Nat \ {0} /\ e + use \in Nat
          BY <1>2, <2>0
        <5> QED
          BY <5>1
      <4>2. kept \in Seq(BitType) /\ hi <= Len(kept) /\ lo <= hi + 1 /\ v = SubSeq(kept, lo, hi)
        BY <1>2, <1>8, <2>0, <2>1, <4>1
      <4>3. Len(v) = hi - lo + 1 /\ \A k \in 1 .. hi - lo + 1 : v[k] = kept[lo + k - 1]
        BY ONLY <4>2, lo \in Nat \ {0}, hi \in Nat, Cutting
      <4> QED
        BY <4>1, <4>3
    <3>6. \A k \in 1 .. use : e + 1 + k - 1 = e + k
      OBVIOUS
    <3> QED
      BY <3>2, <3>4, <3>5, <3>6
  <2>4. w \in Seq(BitType) /\ Len(w) = use /\ \A k \in 1 .. use : w[k] = bits[len + k]
    <3>1. \A k \in len + 1 .. len + use : k \in 1 .. y
      BY <1>2, <1>4
    <3>2. w \in Seq(BitType)
      BY <1>2, <1>8, <2>2, <3>1, SubSeqProperties
    <3>3. Len(w) = IF len + 1 <= len + use THEN (len + use) - (len + 1) + 1 ELSE 0
      BY <1>2, <1>8, <2>2, <3>1, SubSeqProperties
    <3>4. Len(w) = use
      BY <1>4, <3>3
    <3>5. \A k \in 1 .. Len(w) : w[k] = bits[len + 1 + k - 1]
      BY <1>2, <1>8, <2>2, <3>1, SubSeqProperties
    <3>6. \A k \in 1 .. use : len + 1 + k - 1 = len + k
      OBVIOUS
    <3> QED
      BY <3>2, <3>4, <3>5, <3>6
  <2>5. ASSUME NEW k \in 1 .. use
        PROVE  v[k] = w[k]
    <3>1. len + k \in 1 .. y /\ e + k = x + (len + k)
      BY <1>4, <2>0
    <3>2. v[k] = kept[x + (len + k)]
      BY <2>3, <3>1
    <3>3. kept[x + (len + k)] = bits[len + k]
      BY ONLY <1>8, <3>1
    <3>4. w[k] = bits[len + k]
      BY <2>4
    <3> QED
      BY ONLY <3>2, <3>3, <3>4
  <2>6. v = w
    BY <2>3, <2>4, <2>5, SeqEqual
  <2> QED
    BY <2>0, <2>1, <2>2, <2>6
<1> QED
  BY <1>1, <1>2, <1>3, <1>6, <1>7, <1>9

\* A burst that the scan tells of.
ToldOf(all, kept, dec, t, b, p, h) ==
  ToldAs(h, all[b], kept, p, t - Len(dec.stream), dec.candidate_bits)

LEMMA HitIsTold ==
  ASSUME NEW dec, NEW all, NEW t, NEW m, NEW bits, NEW a, NEW last, NEW kept, NEW noted, NEW s,
         DecodeStep(dec, all, t, m, bits, a, last, kept, noted, s),
         NEW b \in DOMAIN noted, NEW p \in Nat, NEW h,
         FoundAt(noted, kept, b, p, t - Len(dec.stream), dec.candidate_bits, h)
  PROVE  /\ ToldOf(noted, kept, dec, t, b, p, h)
         /\ p + 1 \in DOMAIN kept /\ kept[p + 1] = Start(b) /\ ~Noise(Start(b))
<1>1. PICK base \in Nat : base = t - Len(dec.stream)
  BY DEF DecodeStep, DecoderOK, DecoderType
<1>2. PICK size \in Nat : size = dec.candidate_bits
  BY DEF DecodeStep, DecoderOK, DecoderType
<1>3. kept \in Seq(BitType) /\ noted \in Seq(HeardType)
  BY DEF DecodeStep, KeptAs, NotedAll
<1>4. PICK g \in HeardType : g = noted[b]
  <2>1. noted[b] \in HeardType
    BY <1>3
  <2> QED
    BY <2>1
<1>5. h = Told(g, kept, p, base, size) /\ SyncAt(kept, p) /\ kept[p + 1].burst = b
  BY <1>1, <1>2, <1>4 DEF FoundAt
<1>6. ToldAs(h, g, kept, p, base, size)
  BY <1>3, <1>5, ToldFields
<1>7. p + 1 \in DOMAIN kept /\ kept[p + 1] = Start(b) /\ ~Noise(kept[p + 1])
  BY <1>3, <1>5, SyncBegins
<1> QED
  BY <1>1, <1>2, <1>4, <1>6, <1>7 DEF ToldOf

\* What was emitted is found where it stands.
LEMMA ItsHit ==
  ASSUME NEW dec, NEW all, NEW t, NEW m, NEW bits, NEW a, NEW last, NEW kept, NEW noted, NEW s,
         DecodeStep(dec, all, t, m, bits, a, last, kept, noted, s),
         NEW p \in Nat, NEW h,
         FoundAt(noted, kept, a, p, t - Len(dec.stream), dec.candidate_bits, h)
  PROVE  /\ p = Len(dec.stream)
         /\ h.found = 1 /\ h.bits = bits /\ h.start = t /\ h.cand = WindowOf(h)
<1>1. a \in DOMAIN noted
  BY DEF DecodeStep, NotedAll, EmissionOK
<1>2. /\ ToldOf(noted, kept, dec, t, a, p, h)
      /\ p + 1 \in DOMAIN kept /\ kept[p + 1] = Start(a) /\ ~Noise(Start(a))
  BY <1>1, HitIsTold
<1>3. PICK x \in Nat : x = Len(dec.stream)
  BY DEF DecodeStep, DecoderOK, DecoderType
<1>4. x + 1 \in DOMAIN kept /\ kept[x + 1] = Start(a)
  BY <1>3, TrainingStands
<1>5. p = x
  <2>1. kept \in Seq(BitType) /\ Rising(kept)
    BY DEF DecodeStep, KeptAs
  <2>2. p + 1 = x + 1
    BY <1>2, <1>4, <2>1, StartOnce
  <2> QED
    BY <2>2
<1>6. /\ h.bits = noted[a].bits /\ h.start = noted[a].start /\ h.size = noted[a].size
      /\ h.found = noted[a].found + 1
      /\ h.cand = CandidateAt(kept, p + SyncLen, dec.candidate_bits)
  BY <1>2 DEF ToldOf, ToldAs
<1>7. /\ noted[a].bits = bits /\ noted[a].start = t /\ noted[a].size = dec.candidate_bits
      /\ noted[a].found = 0
  BY DEF DecodeStep, NotedAll, NotedAs, Unfound
<1>8. h.cand = WindowOf(h)
  BY <1>3, <1>5, <1>6, <1>7, WindowStands
<1> QED
  BY <1>3, <1>5, <1>6, <1>7, <1>8

\* Another burst that is found now was never emitted whole.
LEMMA OthersHit ==
  ASSUME NEW dec, NEW all, NEW t, NEW m, NEW bits, NEW a, NEW last, NEW kept, NEW noted, NEW s,
         DecodeStep(dec, all, t, m, bits, a, last, kept, noted, s),
         NEW b \in DOMAIN all, b # a, NEW p \in Nat, p >= dec.scan_pos, NEW h,
         FoundAt(noted, kept, b, p, t - Len(dec.stream), dec.candidate_bits, h)
  PROVE  ~Done(all[b]) /\ h.found = 1 /\ h.bits = <<>>
<1>1. noted[b] = all[b] /\ b \in DOMAIN noted
  BY DEF DecodeStep, NotedAll
<1>2. /\ ToldOf(noted, kept, dec, t, b, p, h)
      /\ p + 1 \in DOMAIN kept /\ kept[p + 1] = Start(b) /\ ~Noise(Start(b))
  BY <1>1, HitIsTold
<1>3. ~Done(all[b])
  <2>1. SUFFICES ASSUME Done(all[b]) PROVE FALSE
    OBVIOUS
  <2>2. /\ NotBehind(Start(b), m)
        /\ \A k \in DOMAIN dec.stream : dec.stream[k] = Start(b) => k <= dec.scan_pos
    BY <2>1 DEF DecodeStep, DecoderOK
  <2>3. p + 1 \in DOMAIN dec.stream
    BY <1>2, <2>2 DEF DecodeStep, KeptAs
  <2>4. DOMAIN dec.stream = 1 .. Len(dec.stream)
    BY DEF DecodeStep, DecoderOK, DecoderType
  <2>5. dec.stream[p + 1] = Start(b)
    BY <1>2, <2>3, <2>4 DEF DecodeStep, KeptAs
  <2>6. p + 1 <= dec.scan_pos /\ dec.scan_pos \in Nat
    BY <2>2, <2>3, <2>5 DEF DecodeStep, DecoderOK, DecoderType
  <2> QED
    BY <2>6
<1>4. all[b].bits = <<>> /\ all[b].found = 0
  <2>1. all[b].found = 0
    BY <1>1 DEF FoundAt
  <2> QED
    BY <1>3, <2>1 DEF Done
<1>5. h.found = 1 /\ h.bits = <<>>
  BY <1>1, <1>2, <1>4 DEF ToldOf, ToldAs
<1> QED
  BY <1>3, <1>5

\* What the scan did to each burst.
LEMMA ScanTold ==
  ASSUME NEW dec, NEW all, NEW t, NEW m, NEW bits, NEW a, NEW last, NEW kept, NEW noted, NEW s,
         DecodeStep(dec, all, t, m, bits, a, last, kept, noted, s), NEW b \in DOMAIN all
  PROVE  \/ s.heard[b] = noted[b]
         \/ \E p \in Nat : /\ p >= dec.scan_pos /\ p + SyncLen + dec.candidate_bits <= s.pos
                           /\ FoundAt(noted, kept, b, p, t - Len(dec.stream), dec.candidate_bits,
                                      s.heard[b])
<1>1. b \in DOMAIN noted /\ dec.scan_pos \in Nat
  BY DEF DecodeStep, NotedAll, DecoderOK, DecoderType
<1>2. \A p \in dec.scan_pos .. Len(kept) - 1 : p \in Nat /\ p >= dec.scan_pos
  BY <1>1
<1> QED
  BY <1>1, <1>2 DEF DecodeStep, ScanUpto

\* What was told before stays, and so does what it covers.
LEMMA CoversStay ==
  ASSUME NEW dec, NEW all, NEW t, NEW m, NEW bits, NEW a, NEW last, NEW kept, NEW noted, NEW s,
         DecodeStep(dec, all, t, m, bits, a, last, kept, noted, s)
  PROVE  /\ \A c \in DOMAIN all : all[c].found > 0 => s.heard[c] = all[c]
         /\ \A b, q \in Nat : Covered(all, b, q) => Covered(s.heard, b, q)
<1>1. ASSUME NEW c \in DOMAIN all, all[c].found > 0
      PROVE  s.heard[c] = all[c]
  <2>1. c # a /\ noted[c] = all[c]
    BY <1>1 DEF DecodeStep, NotedAll, Unfound
  <2>2. all[c].found # 0
    BY <1>1
  <2> QED
    BY <2>1, <2>2, ScanTold DEF FoundAt
<1>2. ASSUME NEW b \in Nat, NEW q \in Nat, Covered(all, b, q)
      PROVE  Covered(s.heard, b, q)
  <2>1. PICK c \in DOMAIN all \ {b} : all[c].at < q /\ q < all[c].until
    BY <1>2 DEF Covered
  <2>2. ~Unfound(all[c])
    <3>1. ~(q < 0)
      OBVIOUS
    <3> QED
      BY <2>1, <3>1 DEF Unfound
  <2>3. s.heard[c] = all[c]
    BY <1>1, <2>1, <2>2 DEF DecodeStep, DecoderOK
  <2>4. DOMAIN s.heard = DOMAIN all
    BY DEF DecodeStep, ScanUpto, NotedAll
  <2> QED
    BY <2>1, <2>3, <2>4 DEF Covered
<1> QED
  BY <1>1, <1>2

\* What was emitted is found, or lies within the window of another hit.
LEMMA FoundOrCovered ==
  ASSUME NEW dec, NEW all, NEW t, NEW m, NEW bits, NEW a, NEW last, NEW kept, NEW noted, NEW s,
         DecodeStep(dec, all, t, m, bits, a, last, kept, noted, s)
  PROVE  s.heard[a].found > 0 \/ Covered(s.heard, a, t)
<1>1. PICK x \in Nat, i \in Nat, base \in Nat, n \in Nat, tt \in Nat :
        x = Len(dec.stream) /\ i = dec.scan_pos /\ base = tt - x /\ n = Len(kept) /\ tt = t /\ x <= tt
  <2>1. PICK x \in Nat, i \in Nat, n \in Nat, tt \in Nat :
          x = Len(dec.stream) /\ i = dec.scan_pos /\ n = Len(kept) /\ tt = t /\ x <= tt
    BY DEF DecodeStep, DecoderOK, DecoderType, KeptAs
  <2>2. tt - x \in Nat
    BY <2>1
  <2> QED
    BY <2>1, <2>2
<1>2. SyncAt(kept, x) /\ x + 1 \in DOMAIN kept /\ kept[x + 1].burst = a
  BY <1>1, TrainingStands
<1>3. base + x = tt
  BY <1>1
<1>4. CASE i <= x
  <2>1. x \in i .. n - 1
    <3>1. DOMAIN kept = 1 .. n
      BY <1>1 DEF DecodeStep, KeptAs
    <3>2. x + 1 <= n
      BY <1>2, <3>1
    <3> QED
      BY <1>4, <3>2
  <2>2. s.heard[a].found > 0 \/ Covered(s.heard, a, base + x)
    BY <1>1, <1>2, <2>1 DEF DecodeStep, ScanUpto
  <2> QED
    BY <1>1, <1>3, <2>2
<1>5. CASE i > x
  <2>1. PICK c \in DOMAIN all : all[c].found > 0 /\ all[c].at < tt /\ base + i <= all[c].until
    BY <1>1, <1>5 DEF DecodeStep, DecoderOK
  <2>2. c # a
    BY <2>1 DEF DecodeStep, NotedAll, Unfound
  <2>3. all[c].until \in Nat
    <3>1. all \in Seq(HeardType)
      BY DEF DecodeStep, DecoderOK
    <3>2. all[c] \in HeardType
      BY <3>1
    <3> QED
      BY <3>2 DEF HeardType
  <2>4. tt < all[c].until
    BY <1>3, <1>5, <2>1, <2>3
  <2>5. s.heard[c] = all[c] /\ DOMAIN s.heard = DOMAIN all
    <3>1. s.heard[c] = all[c]
      BY <2>1, CoversStay
    <3> QED
      BY <3>1 DEF DecodeStep, ScanUpto, NotedAll
  <2>6. Covered(s.heard, a, tt)
    BY <2>1, <2>2, <2>4, <2>5 DEF Covered
  <2> QED
    BY <1>1, <2>6
<1> QED
  BY <1>4, <1>5

\* What holds of all bursts when the scan is over: what the decoder has seen
\* lies at least Backup behind the position.
ScanDone(all, tt, last, kept, s) ==
  /\ s.pos \in Nat /\ s.pos >= Len(kept)
  /\ s.heard \in Seq(HeardType) /\ DOMAIN s.heard = DOMAIN all
  /\ \A b \in DOMAIN all : Unfound(s.heard[b]) \/ s.heard[b].found > 0
  /\ \A b \in DOMAIN all : FoundWell(s.heard, b)
  /\ \A b \in DOMAIN all : Done(s.heard[b]) =>
       /\ NotBehind(Start(b), last)
       /\ \A k \in DOMAIN kept : kept[k] = Start(b) => k + Backup <= s.pos
  /\ s.pos > Len(kept) =>
       \E c \in DOMAIN all : /\ s.heard[c].found > 0 /\ s.heard[c].at < tt
                             /\ (tt - Len(kept)) + s.pos <= s.heard[c].until

LEMMA ScanFindsWell ==
  ASSUME NEW dec, NEW all, NEW t, NEW m, NEW bits, NEW a, NEW last, NEW kept, NEW noted, NEW s,
         DecodeStep(dec, all, t, m, bits, a, last, kept, noted, s), NEW b \in DOMAIN all
  PROVE  /\ Unfound(s.heard[b]) \/ s.heard[b].found > 0
         /\ FoundWell(s.heard, b)
<1>1. CASE s.heard[b] # noted[b]
  <2>1. PICK p \in Nat : /\ p >= dec.scan_pos
                         /\ FoundAt(noted, kept, b, p, t - Len(dec.stream), dec.candidate_bits,
                                    s.heard[b])
    BY <1>1, ScanTold
  <2>2. CASE b = a
    <3>1. /\ s.heard[b].found = 1 /\ s.heard[b].cand = WindowOf(s.heard[b])
      BY <2>1, <2>2, ItsHit
    <3>2. s.heard[b].found > 0 /\ s.heard[b].found <= 1
      BY <3>1
    <3> QED
      BY <3>1, <3>2 DEF FoundWell
  <2>3. CASE b # a
    <3>1. s.heard[b].found = 1 /\ s.heard[b].bits = <<>>
      BY <2>1, <2>3, OthersHit
    <3>2. s.heard[b].found > 0 /\ s.heard[b].found <= 1
      BY <3>1
    <3> QED
      BY <3>1, <3>2 DEF FoundWell
  <2> QED
    BY <2>2, <2>3
<1>2. CASE s.heard[b] = noted[b] /\ b = a
  <2>1. Unfound(s.heard[b]) /\ s.heard[b].start = t
    BY <1>2 DEF DecodeStep, NotedAll, NotedAs, Unfound
  <2>2. s.heard[b].found = 0 /\ ~(s.heard[b].found > 0) /\ s.heard[b].found <= 1
    BY <2>1 DEF Unfound
  <2>3. Covered(s.heard, b, s.heard[b].start)
    BY <1>2, <2>1, <2>2, FoundOrCovered
  <2>4. s.heard[b].found # 1
    BY <2>2
  <2> QED
    BY <2>1, <2>2, <2>3, <2>4 DEF FoundWell
<1>3. CASE s.heard[b] = noted[b] /\ b # a
  <2>1. s.heard[b] = all[b]
    BY <1>3 DEF DecodeStep, NotedAll
  <2>2. (Unfound(all[b]) \/ all[b].found > 0) /\ FoundWell(all, b)
    BY DEF DecodeStep, DecoderOK
  <2>3. b \in Nat /\ all[b].start \in Nat
    <3>1. all \in Seq(HeardType)
      BY DEF DecodeStep, DecoderOK
    <3>2. all[b] \in HeardType /\ b \in Nat
      BY <3>1
    <3> QED
      BY <3>2 DEF HeardType
  <2>4. Covered(all, b, all[b].start) => Covered(s.heard, b, all[b].start)
    BY <2>3, CoversStay
  <2> QED
    BY <2>1, <2>2, <2>4 DEF FoundWell
<1> QED
  BY <1>1, <1>2, <1>3

LEMMA ScanLeavesBehind ==
  ASSUME NEW dec, NEW all, NEW t, NEW m, NEW bits, NEW a, NEW last, NEW kept, NEW noted, NEW s,
         DecodeStep(dec, all, t, m, bits, a, last, kept, noted, s), NEW b \in DOMAIN all,
         Done(s.heard[b])
  PROVE  /\ NotBehind(Start(b), last)
         /\ \A k \in DOMAIN kept : kept[k] = Start(b) => k + Backup <= s.pos
<1>1. PICK len \in Nat \ {0} : len = SyncLen
  BY VdesAssumption DEF SyncLen
<1>2. PICK x \in Nat, y \in Nat, n \in Nat, q \in Nat :
        /\ x = Len(dec.stream) /\ y = Len(bits) /\ n = Len(kept) /\ n = x + y /\ y > Backup
        /\ q = s.pos /\ q >= n
  <2>1. Len(dec.stream) \in Nat /\ Len(bits) \in Nat /\ Len(kept) \in Nat
    BY DEF DecodeStep, DecoderOK, DecoderType, EmissionOK, KeptAs
  <2>2. Len(kept) = Len(dec.stream) + Len(bits) /\ Len(bits) > Backup
    BY DEF DecodeStep, EmissionOK, KeptAs
  <2>3. s.pos \in Nat /\ s.pos >= Len(kept)
    BY DEF DecodeStep, ScanUpto
  <2> QED
    BY <2>1, <2>2, <2>3
<1>3. PICK w \in Nat : w = Backup
  BY VdesAssumption
<1>4. kept \in Seq(BitType) /\ Rising(kept) /\ DOMAIN kept = 1 .. n
  BY <1>2 DEF DecodeStep, KeptAs
<1>5. /\ a \in Nat \ {0} /\ Start(a) \in BitType /\ ~Noise(Start(a)) /\ NotBehind(Start(a), last)
      /\ m \in BitType /\ last \in BitType /\ Before(m, Start(a))
  <2>1. all \in Seq(HeardType) /\ m \in BitType /\ EmissionOK(bits, a, m, last, all)
    BY DEF DecodeStep, DecoderOK
  <2> QED
    BY <2>1, EmissionStarts DEF EmissionOK
<1>6. b \in Nat \ {0} /\ Start(b) \in BitType /\ ~Noise(Start(b))
  <2>1. b \in Nat \ {0}
    BY DEF DecodeStep, DecoderOK
  <2> QED
    BY <2>1 DEF Start, BitType, Noise
<1>7. CASE Done(all[b])
  <2>1. NotBehind(Start(b), m)
    BY <1>7 DEF DecodeStep, DecoderOK
  <2>2. Before(Start(b), Start(a))
    BY <1>5, <1>6, <2>1, BeforeTransitive
  <2>3. Before(Start(b), last)
    BY <1>5, <1>6, <2>2, BeforeTransitive
  <2>4. ASSUME NEW k \in DOMAIN kept, kept[k] = Start(b)
        PROVE  k + Backup <= s.pos
    <3>1. k \in DOMAIN dec.stream
      BY <2>1, <2>4 DEF DecodeStep, KeptAs
    <3>2. k \in 1 .. x
      BY <1>2, <3>1 DEF DecodeStep, DecoderOK, DecoderType
    <3>3. k + w <= q
      BY <1>2, <1>3, <3>2
    <3> QED
      BY <1>2, <1>3, <3>3
  <2> QED
    BY <2>3, <2>4 DEF NotBehind
<1>8. CASE ~Done(all[b]) /\ b = a
  <2>1. x + 1 \in DOMAIN kept /\ kept[x + 1] = Start(b)
    BY <1>2, <1>8, TrainingStands
  <2>2. ASSUME NEW k \in DOMAIN kept, kept[k] = Start(b)
        PROVE  k + Backup <= s.pos
    <3>1. k = x + 1
      BY <1>4, <1>6, <2>1, <2>2, StartOnce
    <3>2. x + 1 + w <= q
      BY <1>2, <1>3
    <3> QED
      BY <1>2, <1>3, <3>1, <3>2
  <2> QED
    BY <1>5, <1>8, <2>2
<1>9. CASE ~Done(all[b]) /\ b # a
  <2>1. s.heard[b] # noted[b]
    BY <1>9 DEF DecodeStep, NotedAll
  <2>2. PICK p \in Nat : /\ p + SyncLen + dec.candidate_bits <= s.pos
                         /\ FoundAt(noted, kept, b, p, t - Len(dec.stream), dec.candidate_bits,
                                    s.heard[b])
    BY <2>1, ScanTold
  <2>3. p + 1 \in DOMAIN kept /\ kept[p + 1] = Start(b)
    <3>1. b \in DOMAIN noted
      BY DEF DecodeStep, NotedAll
    <3> QED
      BY <2>2, <3>1, HitIsTold
  <2>4. NotBehind(Start(b), last)
    BY <2>3 DEF DecodeStep, KeptAs
  <2>5. p + 1 + w <= q
    <3>1. PICK c \in Nat, g \in Nat, v \in Nat \ {0} :
            c = dec.candidate_bits /\ g = CandMin /\ v = VdesByteBits /\ c >= g /\ w <= len + g - v
      BY <1>1, <1>3, VdesAssumption DEF DecodeStep, DecoderOK, DecoderType
    <3>2. p + len + c <= q
      BY <1>1, <1>2, <2>2, <3>1
    <3> QED
      BY <3>1, <3>2
  <2>6. ASSUME NEW k \in DOMAIN kept, kept[k] = Start(b)
        PROVE  k + Backup <= s.pos
    <3>1. k = p + 1
      BY <1>4, <1>6, <2>3, <2>6, StartOnce
    <3> QED
      BY <1>2, <1>3, <2>5, <3>1
  <2> QED
    BY <2>4, <2>6
<1> QED
  BY <1>7, <1>8, <1>9

LEMMA ScanEnds ==
  ASSUME NEW dec, NEW all, NEW t, NEW m, NEW bits, NEW a, NEW last, NEW kept, NEW noted, NEW s,
         DecodeStep(dec, all, t, m, bits, a, last, kept, noted, s)
  PROVE  ScanDone(all, t + Len(bits), last, kept, s)
<1>1. /\ s.pos \in Nat /\ s.pos >= Len(kept)
      /\ s.heard \in Seq(HeardType) /\ DOMAIN s.heard = DOMAIN all
  BY DEF DecodeStep, ScanUpto, NotedAll
<1>2. PICK x \in Nat, y \in Nat, n \in Nat, q \in Nat, tt \in Nat, base \in Nat, i \in Nat :
        /\ x = Len(dec.stream) /\ y = Len(bits) /\ n = Len(kept) /\ n = x + y
        /\ q = s.pos /\ q >= n /\ tt = t /\ base = tt - x /\ i = dec.scan_pos
        /\ t - Len(dec.stream) = base /\ (t + Len(bits)) - Len(kept) = base /\ t + Len(bits) = tt + y
  <2>1. PICK x \in Nat, y \in Nat, n \in Nat :
          x = Len(dec.stream) /\ y = Len(bits) /\ n = Len(kept) /\ n = x + y
    BY DEF DecodeStep, DecoderOK, DecoderType, EmissionOK, KeptAs
  <2>2. PICK tt \in Nat, i \in Nat : tt = t /\ i = dec.scan_pos /\ x <= tt
    BY <2>1 DEF DecodeStep, DecoderOK, DecoderType
  <2>3. tt - x \in Nat /\ (tt + y) - n = tt - x
    BY <2>1, <2>2
  <2> QED
    BY <1>1, <2>1, <2>2, <2>3
<1>3. ASSUME s.pos > Len(kept)
      PROVE  \E c \in DOMAIN all : /\ s.heard[c].found > 0 /\ s.heard[c].at < tt + y
                                   /\ base + q <= s.heard[c].until
  <2>1. \/ q = i /\ i > n
        \/ \E c \in DOMAIN noted : /\ s.heard[c].found > 0 /\ s.heard[c].at < base + n
                                   /\ base + q = s.heard[c].until
    <3>1. q # n
      BY <1>2, <1>3
    <3> QED
      BY <1>2, <3>1 DEF DecodeStep, ScanUpto
  <2>2. base + n = tt + y
    <3>1. base = tt - x /\ n = x + y /\ tt \in Nat /\ x \in Nat /\ y \in Nat
      BY <1>2
    <3> QED
      BY ONLY <3>1
  <2>3. CASE q = i /\ i > n
    <3>1. i > x
      BY <1>2, <2>3
    <3>2. PICK c \in DOMAIN all : all[c].found > 0 /\ all[c].at < tt /\ base + i <= all[c].until
      BY <1>2, <3>1 DEF DecodeStep, DecoderOK
    <3>3. s.heard[c] = all[c]
      BY <3>2, CoversStay
    <3>4. all[c].at < tt + y
      <4>1. all \in Seq(HeardType)
        BY DEF DecodeStep, DecoderOK
      <4>2. all[c] \in HeardType
        BY <4>1
      <4>3. all[c].at \in Nat
        BY <4>2 DEF HeardType
      <4> QED
        BY <3>2, <4>3
    <3> QED
      BY <2>3, <3>2, <3>3, <3>4
  <2>4. CASE \E c \in DOMAIN noted : /\ s.heard[c].found > 0 /\ s.heard[c].at < base + n
                                     /\ base + q = s.heard[c].until
    <3>1. PICK c \in DOMAIN noted : /\ s.heard[c].found > 0 /\ s.heard[c].at < base + n
                                    /\ base + q = s.heard[c].until
      BY <2>4
    <3>2. base + q <= s.heard[c].until
      BY <3>1
    <3>3. c \in DOMAIN all
      BY DEF DecodeStep, NotedAll
    <3> QED
      BY <2>2, <3>1, <3>2, <3>3
  <2> QED
    BY <2>1, <2>3, <2>4
<1>4. \A b \in DOMAIN all : Unfound(s.heard[b]) \/ s.heard[b].found > 0
  BY ScanFindsWell
<1>5. \A b \in DOMAIN all : FoundWell(s.heard, b)
  BY ScanFindsWell
<1>6. \A b \in DOMAIN all : Done(s.heard[b]) =>
         /\ NotBehind(Start(b), last)
         /\ \A k \in DOMAIN kept : kept[k] = Start(b) => k + Backup <= s.pos
  BY ScanLeavesBehind
<1>7. s.pos > Len(kept) =>
       \E c \in DOMAIN all : /\ s.heard[c].found > 0 /\ s.heard[c].at < t + Len(bits)
                             /\ ((t + Len(bits)) - Len(kept)) + s.pos <= s.heard[c].until
  BY <1>2, <1>3
<1> QED
  BY <1>1, <1>4, <1>5, <1>6, <1>7 DEF ScanDone

\* The stream is cut back, and the position with it.
LEMMA CutBackKeeps ==
  ASSUME NEW d \in DecoderType, d.candidate_bits >= CandMin,
         NEW all, NEW tt \in Nat, NEW last \in BitType, NEW s,
         Rising(d.stream), Len(d.stream) <= tt, last.burst <= Len(all),
         \A k \in DOMAIN d.stream : NotBehind(d.stream[k], last),
         s.pos = d.scan_pos, ScanDone(all, tt, last, d.stream, s)
  PROVE  DecoderOK(CutBack(d), s.heard, tt, last)
<1>1. PICK n \in Nat, q \in Nat, w \in Nat, v \in Nat :
        /\ n = Len(d.stream) /\ q = d.scan_pos /\ w = Backup /\ v = TailKeep /\ w < v /\ q >= n /\ n <= tt
  BY VdesAssumption DEF DecoderType, ScanDone
<1>2. /\ s.heard \in Seq(HeardType) /\ DOMAIN s.heard = DOMAIN all /\ last.burst <= Len(s.heard)
  <2>1. s.heard \in Seq(HeardType) /\ DOMAIN s.heard = DOMAIN all
    BY DEF ScanDone
  <2>2. \A b \in DOMAIN all : b \in Nat
    BY <2>1
  <2>3. PICK h \in Nat, g \in Nat : h = last.burst /\ g = Len(s.heard)
    BY <2>1 DEF BitType
  <2>4. h <= g
    <3>1. Len(all) = g
      BY <2>1, <2>3, DOMAIN all = 1 .. Len(s.heard), LenProperties
    <3> QED
      BY <2>3, <3>1
  <2> QED
    BY <2>1, <2>3, <2>4
<1>3. CASE n - v <= 0
  <2>1. CutBack(d) = d
    BY <1>1, <1>3 DEF CutBack
  <2>2. n <= v
    BY <1>3
  <2>3. ASSUME NEW b \in DOMAIN all, Done(s.heard[b]), NEW k \in DOMAIN d.stream, d.stream[k] = Start(b)
        PROVE  k <= d.scan_pos
    <3>1. k + w <= q /\ k \in Nat
      BY <1>1, <2>3 DEF ScanDone, DecoderType
    <3>2. k <= q
      BY <3>1
    <3> QED
      BY <1>1, <3>2
  <2>4. \A b \in DOMAIN all : Done(s.heard[b]) => NotBehind(Start(b), last)
    BY DEF ScanDone
  <2>5. \A b \in DOMAIN all : Unfound(s.heard[b]) \/ s.heard[b].found > 0
    BY DEF ScanDone
  <2>6. \A b \in DOMAIN all : FoundWell(s.heard, b)
    BY DEF ScanDone
  <2>7. d.scan_pos > Len(d.stream) =>
       \E c \in DOMAIN all : /\ s.heard[c].found > 0 /\ s.heard[c].at < tt
                             /\ (tt - Len(d.stream)) + d.scan_pos <= s.heard[c].until
    BY DEF ScanDone
  <2> QED
    BY <1>1, <1>2, <2>1, <2>2, <2>3, <2>4, <2>5, <2>6, <2>7 DEF DecoderOK
<1>4. CASE n - v > 0
  <2>1. PICK x \in Nat : x = n - v /\ x + v = n
    BY <1>4
  <2>2. PICK p \in Nat : p = q - x - w /\ q >= x + w
    BY <1>1, <2>1
  <2>3. PICK r : r = SubSeq(d.stream, x + 1, n)
    OBVIOUS
  <2>4. CutBack(d) = [d EXCEPT !.stream = r, !.scan_pos = p]
    BY <1>1, <1>4, <2>1, <2>2, <2>3 DEF CutBack
  <2>5. /\ r \in Seq(BitType) /\ Rising(r) /\ Len(r) = n - x
        /\ \A k \in 1 .. n - x : r[k] = d.stream[x + k]
    <3>1. d.stream \in Seq(BitType) /\ x \in 0 .. Len(d.stream)
      BY <1>1, <2>1 DEF DecoderType
    <3> QED
      BY <1>1, <2>3, <3>1, RisingCut
  <2>6. n - x = v /\ DOMAIN r = 1 .. v /\ Len(r) = v
    BY <2>1, <2>5
  <2>7. \A k \in 1 .. v : x + k \in DOMAIN d.stream
    BY <1>1, <2>1 DEF DecoderType
  <2>8. PICK e : e = CutBack(d)
    OBVIOUS
  <2>9. e \in DecoderType /\ e.stream = r /\ e.scan_pos = p /\ e.candidate_bits = d.candidate_bits
    <3>1. PICK f : f = [d EXCEPT !.stream = r]
      OBVIOUS
    <3>2. f \in DecoderType /\ f.stream = r /\ f.candidate_bits = d.candidate_bits
      BY <2>5, <3>1 DEF DecoderType
    <3>3. e = [f EXCEPT !.scan_pos = p]
      BY <2>4, <2>8, <3>1
    <3> QED
      BY <3>2, <3>3 DEF DecoderType
  <2>10. \A k \in DOMAIN r : NotBehind(r[k], last)
    BY <2>5, <2>6, <2>7
  <2>11. ASSUME NEW b \in DOMAIN all, Done(s.heard[b]), NEW k \in DOMAIN r, r[k] = Start(b)
         PROVE  k <= p
    <3>1. k \in 1 .. v /\ x + k \in DOMAIN d.stream /\ d.stream[x + k] = Start(b)
      BY <2>5, <2>6, <2>7, <2>11
    <3>2. (x + k) + w <= q
      BY <1>1, <2>11, <3>1 DEF ScanDone
    <3> QED
      BY <2>2, <3>1, <3>2
  <2>12. ASSUME p > v
         PROVE  \E c \in DOMAIN all : /\ s.heard[c].found > 0 /\ s.heard[c].at < tt
                                      /\ (tt - v) + p <= s.heard[c].until
    <3>1. q > n
      BY <2>1, <2>2, <2>12
    <3>2. PICK c \in DOMAIN all : /\ s.heard[c].found > 0 /\ s.heard[c].at < tt
                                  /\ (tt - n) + q <= s.heard[c].until
      BY <1>1, <3>1 DEF ScanDone
    <3>3. s.heard[c].until \in Nat
      <4>1. s.heard[c] \in HeardType
        BY <1>2
      <4> QED
        BY <4>1 DEF HeardType
    <3>4. (tt - v) + p <= s.heard[c].until
      BY <2>1, <2>2, <3>2, <3>3
    <3> QED
      BY <3>2, <3>4
  <2>13. v <= tt /\ v <= v
    BY <1>1, <2>1
  <2>14. \A b \in DOMAIN all : Done(s.heard[b]) => NotBehind(Start(b), last)
    BY DEF ScanDone
  <2>15. \A b \in DOMAIN all : Unfound(s.heard[b]) \/ s.heard[b].found > 0
    BY DEF ScanDone
  <2>16. \A b \in DOMAIN all : FoundWell(s.heard, b)
    BY DEF ScanDone
  <2>17. DecoderOK(e, s.heard, tt, last)
    BY <1>1, <1>2, <2>5, <2>6, <2>9, <2>10, <2>11, <2>12, <2>13, <2>14, <2>15, <2>16 DEF DecoderOK
  <2> QED
    BY <2>8, <2>17
<1> QED
  BY <1>1, <1>3, <1>4

\* A call of the decoder.
Decoded(r, st, last) ==
  /\ DecoderOK(r.decoder, r.heard, r.total, last)
  /\ r.demod = st.demod /\ DOMAIN r.heard = DOMAIN st.heard

LEMMA DecodeKeeps ==
  ASSUME NEW st, NEW m, DecoderOK(st.decoder, st.heard, st.total, m), NEW bits, NEW a, NEW last,
         EmissionOK(bits, a, m, last, st.heard), NEW r, r = Decode(st, bits)
  PROVE  Decoded(r, st, last)
<1>1. PICK dec, all, t : dec = st.decoder /\ all = st.heard /\ t = st.total
  OBVIOUS
<1>2. PICK kept : kept = Appended(dec.stream, bits)
  OBVIOUS
<1>3. PICK noted :
  noted = [all EXCEPT ![a] = [@ EXCEPT !.bits = bits, !.start = t, !.size = dec.candidate_bits]]
  OBVIOUS
<1>4. PICK s : s = ScanFrom(kept, dec.scan_pos, t - Len(dec.stream), dec.candidate_bits, noted)
  OBVIOUS
<1>5. bits[1].burst = a /\ bits \in Seq(BitType) /\ last \in BitType /\ last.burst <= Len(all)
  <2>1. all \in Seq(HeardType) /\ m \in BitType
    BY <1>1 DEF DecoderOK
  <2>2. bits[1].burst = a
    BY <1>1, <2>1, EmissionStarts
  <2> QED
    BY <1>1, <2>2 DEF EmissionOK
<1>6. PICK d : d = [dec EXCEPT !.stream = kept, !.scan_pos = s.pos]
  OBVIOUS
<1>7. /\ r.demod = st.demod /\ r.decoder = CutBack(d) /\ r.heard = s.heard
      /\ r.total = t + Len(bits)
  BY <1>1, <1>2, <1>3, <1>4, <1>5, <1>6 DEF Decode
<1>8. KeptAs(kept, dec.stream, bits, all, m, last)
  BY <1>1, <1>2, KeptRow
<1>9. NotedAll(noted, all, a, bits, t, dec.candidate_bits) /\ ScanBase(noted, kept, dec.scan_pos)
  BY <1>1, <1>2, <1>3, NotedBase
<1>10. ScanUpto(noted, kept, dec.scan_pos, t - Len(dec.stream), dec.candidate_bits, Len(kept), s)
  <2>1. PICK base \in Nat : base = t - Len(dec.stream)
    BY <1>1 DEF DecoderOK, DecoderType
  <2>2. dec.scan_pos \in Nat /\ dec.candidate_bits \in Nat
    BY <1>1 DEF DecoderOK, DecoderType
  <2> QED
    BY <1>4, <1>9, <2>1, <2>2, ScanFinds
<1>11. DecodeStep(dec, all, t, m, bits, a, last, kept, noted, s)
  BY <1>1, <1>8, <1>9, <1>10 DEF DecodeStep
<1>12. ScanDone(all, t + Len(bits), last, kept, s)
  BY <1>11, ScanEnds
<1>13. kept \in Seq(BitType) /\ s.pos \in Nat
  BY <1>8, <1>12 DEF KeptAs, ScanDone
<1>14. d \in DecoderType /\ d.stream = kept /\ d.scan_pos = s.pos /\ d.candidate_bits = dec.candidate_bits
  <2>1. PICK f : f = [dec EXCEPT !.stream = kept]
    OBVIOUS
  <2>2. dec \in DecoderType
    BY <1>1 DEF DecoderOK
  <2>3. f \in DecoderType /\ f.stream = kept /\ f.candidate_bits = dec.candidate_bits
    BY <1>13, <2>1, <2>2 DEF DecoderType
  <2>4. d = [f EXCEPT !.scan_pos = s.pos]
    BY <1>6, <2>1
  <2> QED
    BY <1>13, <2>3, <2>4 DEF DecoderType
<1>15. t + Len(bits) \in Nat /\ Len(kept) <= t + Len(bits)
  <2>1. PICK x \in Nat, y \in Nat, tt \in Nat :
          x = Len(dec.stream) /\ y = Len(bits) /\ tt = t /\ x <= tt /\ Len(kept) = x + y
    BY <1>1, <1>5, <1>8 DEF KeptAs, DecoderOK, DecoderType
  <2>2. tt + y \in Nat /\ x + y <= tt + y
    BY <2>1
  <2> QED
    BY <2>1, <2>2
<1>16. \A k \in DOMAIN kept : NotBehind(kept[k], last)
  BY <1>8 DEF KeptAs
<1>17. Rising(kept)
  BY <1>8 DEF KeptAs
<1>18. dec.candidate_bits >= CandMin
  BY <1>1 DEF DecoderOK
<1>19. DecoderOK(CutBack(d), s.heard, t + Len(bits), last)
  BY <1>5, <1>12, <1>14, <1>15, <1>16, <1>17, <1>18, CutBackKeeps
<1>20. DOMAIN s.heard = DOMAIN all
  BY <1>12 DEF ScanDone
<1> QED
  BY <1>1, <1>7, <1>19, <1>20 DEF Decoded

-----------------------------------------------------------------------------
(* The demodulator *)

DemodType ==
  [state : {"SEARCH", "BURST"}, have_prev : BOOLEAN, ring : Seq(BitType), lockout : Nat,
   bits : Seq(BitType), burst_bits : Nat]

FirstOf(sym) == [burst |-> sym.burst, place |-> 2 * sym.place - 1]

\* A symbol that comes behind bit m.
Behind(sym, m, all) ==
  /\ sym \in BitType
  /\ Noise(sym) \/ (sym.place > 0 /\ sym.burst <= Len(all) /\ Before(m, FirstOf(sym)))

\* The bits that are gathered: the training of burst a and what follows it.
GatheredOK(bits, a, m, l, all) ==
  /\ bits \in Seq(BitType) /\ Rising(bits)
  /\ Len(bits) >= SyncLen /\ Len(bits) <= VdesMaxBits /\ Len(bits) % 2 = 0
  /\ a \in DOMAIN all
  /\ \A k \in 1 .. SyncLen : bits[k] = [burst |-> a, place |-> k]
  /\ Before(m, Start(a))
  /\ \A k \in DOMAIN bits : NotBehind(bits[k], l)

\* m is the last bit that the decoder got, l the last that was heard.
DemodOK(d, all, m, l) ==
  /\ d \in DemodType /\ d.burst_bits >= SyncLen + CandMin
  /\ m \in BitType /\ l \in BitType /\ NotBehind(m, l) /\ l.burst <= Len(all)
  /\ \A k \in DOMAIN d.ring : Behind(d.ring[k], m, all)
  /\ d.state = "BURST" => \E a \in DOMAIN all : GatheredOK(d.bits, a, m, l, all)

StateType == [demod : DemodType, decoder : DecoderType, heard : Seq(HeardType), total : Nat]

BothOK(st, m, l) ==
  /\ st \in StateType
  /\ DecoderOK(st.decoder, st.heard, st.total, m) /\ DemodOK(st.demod, st.heard, m, l)

\* The last bit that was heard, with symbol sym.
LastWith(sym, l) == IF Noise(sym) THEN l ELSE SecondOf(sym)

LEMMA SymbolBits ==
  ASSUME NEW sym \in BitType, NEW l \in BitType, NEW all \in Seq(HeardType), Behind(sym, l, all),
         l.burst <= Len(all)
  PROVE  /\ LastWith(sym, l) \in BitType /\ NotBehind(l, LastWith(sym, l))
         /\ LastWith(sym, l).burst <= Len(all)
         /\ \A x \in BitType : NotBehind(x, l) => NotBehind(x, LastWith(sym, l))
         /\ Noise(sym) => Pair(sym) = <<NoSymbol, NoSymbol>>
         /\ ~Noise(sym) => /\ Pair(sym) = <<FirstOf(sym), SecondOf(sym)>>
                           /\ FirstOf(sym) \in BitType /\ SecondOf(sym) \in BitType
                           /\ ~Noise(FirstOf(sym)) /\ ~Noise(SecondOf(sym))
                           /\ Before(FirstOf(sym), SecondOf(sym)) /\ Before(l, FirstOf(sym))
                           /\ Before(l, SecondOf(sym))
<1>1. CASE Noise(sym)
  <2>1. LastWith(sym, l) = l /\ NotBehind(l, l)
    BY <1>1 DEF LastWith, NotBehind
  <2>2. Pair(sym) = <<NoSymbol, NoSymbol>>
    BY <1>1 DEF Pair, Noise
  <2> QED
    BY <1>1, <2>1, <2>2
<1>2. CASE ~Noise(sym)
  <2>1. PICK b \in Nat, p \in Nat : b = sym.burst /\ p = sym.place /\ p > 0 /\ b # 0 /\ b <= Len(all)
                                    /\ sym = [burst |-> b, place |-> p]
    BY <1>2 DEF Noise, BitType, Behind
  <2>2. PICK f, s : f = FirstOf(sym) /\ s = SecondOf(sym)
    OBVIOUS
  <2>3. /\ f = [burst |-> b, place |-> 2 * p - 1] /\ s = [burst |-> b, place |-> 2 * p]
        /\ 2 * p - 1 \in Nat /\ 2 * p \in Nat /\ 2 * p - 1 < 2 * p
    BY <2>1, <2>2 DEF FirstOf, SecondOf
  <2>4. f \in BitType /\ s \in BitType /\ ~Noise(f) /\ ~Noise(s) /\ Before(f, s)
    BY <2>1, <2>3 DEF BitType, Noise, Before
  <2>5. Before(l, f)
    BY <1>2, <2>2 DEF Behind
  <2>6. Before(l, s)
    BY <2>4, <2>5, BeforeTransitive
  <2>7. LastWith(sym, l) = s
    BY <1>2, <2>2 DEF LastWith
  <2>8. \A x \in BitType : NotBehind(x, l) => NotBehind(x, s)
    <3>1. ASSUME NEW x \in BitType, NotBehind(x, l)
          PROVE  NotBehind(x, s)
      <4>1. Noise(x) \/ Before(x, s)
        BY <2>4, <2>6, <3>1, BeforeTransitive
      <4> QED
        BY <4>1 DEF NotBehind
    <3> QED
      BY <3>1
  <2>9. Pair(sym) = <<f, s>>
    <3>1. [sym EXCEPT !.place = 2 * @ - 1] = f
      BY <2>1, <2>3
    <3>2. [sym EXCEPT !.place = 2 * @] = s
      BY <2>1, <2>3
    <3> QED
      BY <2>1, <3>1, <3>2 DEF Pair
  <2>10. NotBehind(l, s)
    BY <2>6 DEF NotBehind
  <2>11. s.burst <= Len(all)
    BY <2>1, <2>3
  <2> QED
    BY <1>2, <2>2, <2>4, <2>5, <2>6, <2>7, <2>8, <2>9, <2>10, <2>11
<1> QED
  BY <1>1, <1>2

\* A symbol that comes behind what was heard comes behind what the decoder got.
LEMMA BehindBoth ==
  ASSUME NEW sym, NEW l \in BitType, NEW m \in BitType, NEW all, Behind(sym, l, all), NotBehind(m, l)
  PROVE  Behind(sym, m, all)
<1>1. CASE Noise(sym)
  BY <1>1 DEF Behind
<1>2. CASE ~Noise(sym)
  <2>1. PICK b \in Nat, p \in Nat : /\ b = sym.burst /\ p = sym.place /\ p > 0 /\ b # 0
                                    /\ sym = [burst |-> b, place |-> p]
    BY <1>2 DEF Noise, BitType, Behind
  <2>2. FirstOf(sym) = [burst |-> b, place |-> 2 * p - 1] /\ 2 * p - 1 \in Nat
    BY <2>1 DEF FirstOf
  <2>3. FirstOf(sym) \in BitType
    BY <2>2 DEF BitType
  <2>4. Before(l, FirstOf(sym))
    BY <1>2 DEF Behind
  <2>5. Noise(m) \/ Before(m, FirstOf(sym))
    BY <2>3, <2>4, BeforeTransitive
  <2>6. Noise(m) => Before(m, FirstOf(sym))
    BY <2>1, <2>2 DEF Noise, Before
  <2> QED
    BY <1>2, <2>5, <2>6 DEF Behind
<1> QED
  BY <1>1, <1>2

LEMMA RingKeeps ==
  ASSUME NEW ring \in Seq(BitType), NEW sym \in BitType, NEW m, NEW all,
         \A k \in DOMAIN ring : Behind(ring[k], m, all), Behind(sym, m, all)
  PROVE  /\ InRing(ring, sym) \in Seq(BitType)
         /\ \A k \in DOMAIN InRing(ring, sym) : Behind(InRing(ring, sym)[k], m, all)
         /\ Len(InRing(ring, sym)) = UwLen => InRing(ring, sym)[UwLen] = sym
<1>0. UwLen \in Nat \ {0}
  BY VdesAssumption
<1>1. PICK n \in Nat : n = Len(ring) /\ DOMAIN ring = 1 .. n
  OBVIOUS
<1>2. CASE n < UwLen
  <2>1. PICK r : r = Append(ring, sym)
    OBVIOUS
  <2>2. InRing(ring, sym) = r
    BY <1>1, <1>2, <2>1 DEF InRing
  <2>3. /\ r \in Seq(BitType) /\ Len(r) = n + 1 /\ DOMAIN r = 1 .. n + 1 /\ r[n + 1] = sym
        /\ \A k \in 1 .. n : r[k] = ring[k]
    BY <1>1, <2>1
  <2>4. \A k \in 1 .. n + 1 : k = n + 1 \/ k \in 1 .. n
    OBVIOUS
  <2> QED
    BY <1>1, <2>2, <2>3, <2>4
<1>3. CASE ~(n < UwLen)
  <2>0. n \in Nat \ {0} /\ ring # <<>>
    BY <1>0, <1>1, <1>3
  <2>1. PICK q : q = Tail(ring)
    OBVIOUS
  <2>2. q \in Seq(BitType) /\ Len(q) = n - 1 /\ DOMAIN q = 1 .. n - 1 /\ \A k \in 1 .. n - 1 : q[k] = ring[k + 1]
    BY <1>1, <2>0, <2>1
  <2>3. PICK r : r = Append(q, sym)
    OBVIOUS
  <2>4. InRing(ring, sym) = r
    BY <1>1, <1>3, <2>1, <2>3 DEF InRing
  <2>5. r \in Seq(BitType) /\ Len(r) = (n - 1) + 1 /\ DOMAIN r = 1 .. (n - 1) + 1 /\ r[(n - 1) + 1] = sym
        /\ \A k \in 1 .. n - 1 : r[k] = q[k]
    BY <2>0, <2>2, <2>3
  <2>6. (n - 1) + 1 = n /\ \A k \in 1 .. n : k = n \/ (k \in 1 .. n - 1 /\ k + 1 \in 1 .. n)
    BY <2>0
  <2>7. ASSUME NEW k \in 1 .. n
        PROVE  Behind(r[k], m, all)
    <3>1. CASE k = n
      BY <2>5, <2>6, <3>1
    <3>2. CASE k # n
      <4>1. k \in 1 .. n - 1 /\ k + 1 \in 1 .. n
        BY <2>6, <3>2
      <4>2. r[k] = ring[k + 1]
        BY <2>2, <2>5, <4>1
      <4> QED
        BY <1>1, <4>1, <4>2
    <3> QED
      BY <3>1, <3>2
  <2> QED
    BY <2>4, <2>5, <2>6, <2>7
<1> QED
  BY <1>2, <1>3

\* A training is heard: the bits of it are gathered.
LEMMA TrainingKeeps ==
  ASSUME NEW ring \in Seq(BitType), NEW sym \in BitType, NEW m \in BitType, NEW l \in BitType,
         NEW all \in Seq(HeardType), \A k \in DOMAIN ring : Behind(ring[k], m, all),
         Len(ring) = UwLen => ring[UwLen] = sym, IsTraining(ring)
  PROVE  sym.burst \in DOMAIN all /\ GatheredOK(TrainingOf(sym.burst), sym.burst, m, LastWith(sym, l), all)
<1>1. PICK u \in Nat \ {0} : u = UwLen
  BY VdesAssumption
<1>2. SyncLen = 2 * u
  BY <1>1 DEF SyncLen
<1>3. PICK b \in Nat \ {0} : b = ring[1].burst
  <2>1. 1 \in DOMAIN ring
    BY <1>1 DEF IsTraining
  <2>2. ring[1] \in BitType
    BY <2>1
  <2> QED
    BY <2>2 DEF BitType, IsTraining
<1>4. DOMAIN ring = 1 .. u /\ 1 \in 1 .. u /\ u \in 1 .. u
  BY <1>1 DEF IsTraining
<1>5. ring[1] = [burst |-> b, place |-> 1] /\ sym = [burst |-> b, place |-> u]
  BY <1>1, <1>3, <1>4 DEF IsTraining
<1>6. Behind(ring[1], m, all) /\ ~Noise(ring[1])
  BY <1>4, <1>3 DEF Noise
<1>7. FirstOf(ring[1]) = Start(b)
  <2>1. 2 * 1 - 1 = 1
    OBVIOUS
  <2> QED
    BY <1>5, <2>1 DEF FirstOf, Start
<1>8. Before(m, Start(b)) /\ b <= Len(all)
  BY <1>3, <1>6, <1>7 DEF Behind
<1>9. b \in DOMAIN all
  BY <1>8
<1>10. PICK last : last = LastWith(sym, l)
  OBVIOUS
<1>11. last = [burst |-> b, place |-> 2 * u]
  BY <1>5, <1>10 DEF LastWith, Noise, SecondOf
<1>12. PICK bits : bits = TrainingOf(b)
  OBVIOUS
<1>13. bits = [k \in 1 .. 2 * u |-> [burst |-> b, place |-> k]] /\ 2 * u \in Nat
  BY <1>2, <1>12 DEF TrainingOf
<1>14. bits \in Seq(BitType) /\ Len(bits) = 2 * u /\ DOMAIN bits = 1 .. 2 * u
  <2>1. \A k \in 1 .. 2 * u : [burst |-> b, place |-> k] \in BitType
    BY DEF BitType
  <2> QED
    BY <1>13, <2>1
<1>15. \A k \in 1 .. 2 * u : bits[k] = [burst |-> b, place |-> k]
  BY <1>13
<1>21. \A k \in 1 .. 2 * u : bits[k].burst = b /\ bits[k].place = k
  <2>1. ASSUME NEW k \in 1 .. 2 * u
        PROVE  bits[k].burst = b /\ bits[k].place = k
    <3>1. bits[k] = [burst |-> b, place |-> k]
      BY <1>15
    <3> QED
      BY ONLY <3>1
  <2> QED
    BY <2>1
<1>16. Rising(bits)
  <2>1. ASSUME NEW i \in 1 .. 2 * u, NEW j \in 1 .. 2 * u, i < j
        PROVE  Before(bits[i], bits[j])
    <3>1. bits[i].burst = b /\ bits[j].burst = b /\ bits[i].place = i /\ bits[j].place = j
      BY <1>21
    <3> QED
      BY <2>1, <3>1 DEF Before
  <2> QED
    BY <1>14, <2>1 DEF Rising
<1>17. ASSUME NEW k \in 1 .. 2 * u
       PROVE  NotBehind(bits[k], last)
  <2>1. CASE k = 2 * u
    BY <1>11, <1>15, <2>1 DEF NotBehind
  <2>2. CASE k < 2 * u
    <3>1. Before(bits[k], last)
      <4>1. bits[k].burst = b /\ last.burst = b /\ bits[k].place = k /\ last.place = 2 * u
        BY <1>11, <1>21
      <4> QED
        BY <2>2, <4>1 DEF Before
    <3> QED
      BY <3>1 DEF NotBehind
  <2> QED
    BY <2>1, <2>2
<1>18. 2 * u <= VdesMaxBits /\ (2 * u) % 2 = 0
  <2>1. PICK c \in Nat, v \in Nat : c = CandMin /\ v = VdesMaxBits /\ 2 * u + c <= v
    BY <1>2, VdesAssumption
  <2> QED
    BY <2>1
<1>19. sym.burst = b
  BY <1>5
<1>20. GatheredOK(bits, b, m, last, all)
  BY <1>2, <1>8, <1>9, <1>14, <1>15, <1>16, <1>17, <1>18 DEF GatheredOK
<1> QED
  BY <1>9, <1>10, <1>12, <1>19, <1>20

\* Two more bits.
LEMMA GatheredKeeps ==
  ASSUME NEW bits, NEW a, NEW m \in BitType, NEW l \in BitType, NEW all \in Seq(HeardType),
         GatheredOK(bits, a, m, l, all), NEW sym \in BitType, Behind(sym, l, all), l.burst <= Len(all)
  PROVE  GatheredOK(Gathered(bits, sym), a, m, LastWith(sym, l), all)
<1>1. PICK last : last = LastWith(sym, l)
  OBVIOUS
<1>2. /\ last \in BitType
      /\ \A x \in BitType : NotBehind(x, l) => NotBehind(x, last)
      /\ Noise(sym) => Pair(sym) = <<NoSymbol, NoSymbol>>
      /\ ~Noise(sym) => /\ Pair(sym) = <<FirstOf(sym), SecondOf(sym)>>
                        /\ FirstOf(sym) \in BitType /\ SecondOf(sym) \in BitType
                        /\ Before(FirstOf(sym), SecondOf(sym)) /\ Before(l, FirstOf(sym))
                        /\ Before(l, SecondOf(sym))
  BY <1>1, SymbolBits
<1>3. bits \in Seq(BitType) /\ Rising(bits)
  BY DEF GatheredOK
<1>4. \A k \in DOMAIN bits : NotBehind(bits[k], last)
  BY <1>2, <1>3 DEF GatheredOK
<1>5. CASE Len(bits) >= VdesMaxBits
  <2>1. Gathered(bits, sym) = bits
    <3>1. Len(bits) \in Nat /\ VdesMaxBits \in Nat
      BY <1>3, VdesAssumption
    <3>2. ~(Len(bits) < VdesMaxBits)
      BY <1>5, <3>1
    <3> QED
      BY <3>2 DEF Gathered
  <2> QED
    BY <1>1, <1>4, <2>1 DEF GatheredOK
<1>6. CASE ~(Len(bits) >= VdesMaxBits)
  <2>1. PICK n \in Nat, v \in Nat, len \in Nat \ {0} :
          /\ n = Len(bits) /\ v = VdesMaxBits /\ len = SyncLen
          /\ n % 2 = 0 /\ v % 2 = 0 /\ n < v /\ n >= len
    <3>1. Len(bits) \in Nat /\ VdesMaxBits \in Nat /\ SyncLen \in Nat \ {0}
      BY <1>3, VdesAssumption DEF SyncLen
    <3>2. VdesMaxBits % 2 = 0
      BY VdesAssumption
    <3>3. Len(bits) % 2 = 0 /\ Len(bits) >= SyncLen
      BY DEF GatheredOK
    <3> QED
      BY <1>6, <3>1, <3>2, <3>3
  <2>2. n + 2 <= v /\ (n + 2) % 2 = 0 /\ n + 2 >= len
    BY <2>1
  <2>3. PICK p : p = Pair(sym)
    OBVIOUS
  <2>4. PICK x \in BitType, y \in BitType :
          /\ p = <<x, y>>
          /\ Noise(x) \/ Before(l, x)
          /\ Noise(y) \/ Before(l, y)
          /\ Noise(x) \/ Noise(y) \/ Before(x, y)
          /\ NotBehind(x, last) /\ NotBehind(y, last)
    <3>1. CASE Noise(sym)
      <4>1. NoSymbol \in BitType /\ Noise(NoSymbol)
        BY DEF NoSymbol, BitType, Noise
      <4> QED
        BY <1>2, <2>3, <3>1, <4>1 DEF NotBehind
    <3>2. CASE ~Noise(sym)
      <4>1. last = SecondOf(sym)
        BY <1>1, <3>2 DEF LastWith
      <4>2. NotBehind(FirstOf(sym), last) /\ NotBehind(SecondOf(sym), last)
        BY <1>2, <3>2, <4>1 DEF NotBehind
      <4> QED
        BY <1>2, <2>3, <3>2, <4>2
    <3> QED
      BY <3>1, <3>2
  <2>5. p \in Seq(BitType) /\ Len(p) = 2 /\ DOMAIN p = {1, 2} /\ p[1] = x /\ p[2] = y
    BY <2>4
  <2>6. Rising(p)
    BY <2>4, <2>5 DEF Rising
  <2>7. PICK r : r = bits \o p
    OBVIOUS
  <2>8. Gathered(bits, sym) = r
    BY <1>6, <2>1, <2>3, <2>7 DEF Gathered
  <2>9. Rising(r)
    <3>1. \A k \in DOMAIN bits : NotBehind(bits[k], l)
      BY DEF GatheredOK
    <3>2. \A k \in DOMAIN p : Noise(p[k]) \/ Before(l, p[k])
      BY <2>4, <2>5
    <3> QED
      BY <1>3, <2>5, <2>6, <2>7, <3>1, <3>2, RisingTogether
  <2>10. /\ r \in Seq(BitType) /\ Len(r) = n + 2 /\ DOMAIN r = 1 .. n + 2
         /\ \A k \in 1 .. n : r[k] = bits[k]
         /\ r[n + 1] = x /\ r[n + 2] = y
    <3>1. r \in Seq(BitType)
      BY <1>3, <2>5, <2>7
    <3>2. Len(r) = n + 2
      <4>1. Len(r) = Len(bits) + Len(p)
        <5>1. bits \in Seq(BitType) /\ p \in Seq(BitType)
          BY <1>3, <2>5
        <5>2. Len(bits \o p) = Len(bits) + Len(p)
          BY ONLY <5>1, ConcatProperties
        <5> QED
          BY ONLY <2>7, <5>2
      <4> QED
        BY <2>1, <2>5, <4>1
    <3>3. DOMAIN r = 1 .. n + 2
      BY <3>1, <3>2
    <3>4. \A k \in 1 .. n + 2 : r[k] = IF k <= n THEN bits[k] ELSE p[k - n]
      <4>1. \A k \in 1 .. Len(bits) + Len(p) : r[k] = IF k <= Len(bits) THEN bits[k] ELSE p[k - Len(bits)]
        <5>1. bits \in Seq(BitType) /\ p \in Seq(BitType)
          BY <1>3, <2>5
        <5>2. \A k \in 1 .. Len(bits) + Len(p) :
                (bits \o p)[k] = IF k <= Len(bits) THEN bits[k] ELSE p[k - Len(bits)]
          BY ONLY <5>1, ConcatProperties
        <5> QED
          BY ONLY <2>7, <5>2
      <4> QED
        BY <2>1, <2>5, <4>1
    <3>5. \A k \in 1 .. n : r[k] = bits[k]
      BY <3>4
    <3>6. r[n + 1] = p[1]
      <4>1. n + 1 \in 1 .. n + 2 /\ ~(n + 1 <= n) /\ (n + 1) - n = 1
        OBVIOUS
      <4> QED
        BY <3>4, <4>1
    <3>7. r[n + 2] = p[2]
      <4>1. n + 2 \in 1 .. n + 2 /\ ~(n + 2 <= n) /\ (n + 2) - n = 2
        OBVIOUS
      <4> QED
        BY <3>4, <4>1
    <3> QED
      BY <2>5, <3>1, <3>2, <3>3, <3>5, <3>6, <3>7
  <2>11. ASSUME NEW k \in 1 .. n + 2
         PROVE  NotBehind(r[k], last)
    <3>1. CASE k \in 1 .. n
      BY <1>3, <1>4, <2>1, <2>10, <3>1
    <3>2. CASE k \notin 1 .. n
      <4>1. k = n + 1 \/ k = n + 2
        BY <3>2
      <4> QED
        BY <2>4, <2>10, <4>1
    <3> QED
      BY <3>1, <3>2
  <2>12. \A k \in 1 .. SyncLen : r[k] = [burst |-> a, place |-> k]
    <3>1. \A k \in 1 .. len : k \in 1 .. n
      BY <2>1
    <3> QED
      BY <2>1, <2>10, <3>1 DEF GatheredOK
  <2> QED
    BY <1>1, <2>1, <2>2, <2>8, <2>9, <2>10, <2>11, <2>12 DEF GatheredOK
<1> QED
  BY <1>5, <1>6

\* As many bits as fill whole bytes.
LEMMA WholeBytes ==
  ASSUME NEW n \in Nat, NEW b \in Nat \ {0}, NEW c, c = b * (n \div b)
  PROVE  c \in Nat /\ c <= n /\ n - b < c
<1>1. n = b * (n \div b) + (n % b)
  OBVIOUS
<1>2. n % b \in 0 .. b - 1 /\ n \div b \in Int
  OBVIOUS
<1>3. n \div b >= 0
  OBVIOUS
<1>4. c \in Int
  BY <1>2
<1>5. PICK r \in 0 .. b - 1 : r = n % b
  BY <1>2
<1>6. n = c + r
  BY <1>1, <1>5
<1> QED
  BY <1>3, <1>4, <1>5, <1>6

\* What is emitted of what was gathered.
LEMMA ChunkIsEmission ==
  ASSUME NEW bits, NEW a, NEW m, NEW l \in BitType, NEW all, GatheredOK(bits, a, m, l, all),
         l.burst <= Len(all), Len(bits) >= SyncLen + CandMin,
         NEW c, c = VdesByteBits * (Len(bits) \div VdesByteBits)
  PROVE  EmissionOK(SubSeq(bits, 1, c), a, m, l, all)
<1>1. bits \in Seq(BitType)
  BY DEF GatheredOK
<1>2. PICK n \in Nat, b \in Nat \ {0}, len \in Nat, g \in Nat, w \in Nat, v \in Nat :
        /\ n = Len(bits) /\ b = VdesByteBits /\ len = SyncLen /\ g = CandMin /\ w = Backup
        /\ v = VdesMaxBits /\ n >= len + g /\ w <= len + g - b /\ len <= w /\ n <= v
  <2>1. Len(bits) \in Nat /\ SyncLen \in Nat
    BY <1>1, VdesAssumption DEF SyncLen
  <2>2. Len(bits) <= VdesMaxBits
    BY DEF GatheredOK
  <2> QED
    BY <2>1, <2>2, VdesAssumption
<1>3. c \in Nat /\ c <= n /\ n - b < c
  <2>1. c = b * (n \div b)
    BY <1>2
  <2> QED
    BY <2>1, WholeBytes
<1>4. c > w /\ c >= len /\ c <= v
  BY <1>2, <1>3
<1>5. PICK r : r = SubSeq(bits, 1, c)
  OBVIOUS
<1>6. r \in Seq(BitType) /\ Len(r) = c /\ DOMAIN r = 1 .. c /\ \A k \in 1 .. c : r[k] = bits[k]
  <2>1. \A k \in 1 .. c : k \in 1 .. n
    BY <1>2, <1>3
  <2>2. r \in Seq(BitType)
    BY <1>1, <1>2, <1>3, <1>5, <2>1, SubSeqProperties
  <2>3. Len(r) = IF 1 <= c THEN c - 1 + 1 ELSE 0
    BY <1>1, <1>2, <1>3, <1>5, <2>1, SubSeqProperties
  <2>4. Len(r) = c
    BY <1>3, <2>3
  <2>5. \A k \in 1 .. Len(r) : r[k] = bits[1 + k - 1]
    BY <1>1, <1>2, <1>3, <1>5, <2>1, SubSeqProperties
  <2>6. \A k \in 1 .. c : 1 + k - 1 = k
    OBVIOUS
  <2> QED
    BY <1>3, <2>2, <2>4, <2>5, <2>6
<1>7. \A k \in 1 .. c : k \in DOMAIN bits
  BY <1>1, <1>2, <1>3
<1>8. Rising(r)
  BY <1>6, <1>7 DEF GatheredOK, Rising
<1>9. \A k \in 1 .. c : NotBehind(r[k], l)
  BY <1>6, <1>7 DEF GatheredOK
<1>10. \A k \in 1 .. SyncLen : r[k] = [burst |-> a, place |-> k]
  <2>1. \A k \in 1 .. len : k \in 1 .. c
    BY <1>2, <1>4
  <2> QED
    BY <1>2, <1>6, <2>1 DEF GatheredOK
<1>11. a \in DOMAIN all /\ Before(m, Start(a))
  BY DEF GatheredOK
<1> QED
  BY <1>2, <1>4, <1>5, <1>6, <1>8, <1>9, <1>10, <1>11 DEF EmissionOK

\* A full burst goes to the decoder, and the search begins anew.
LEMMA EmitKeeps ==
  ASSUME NEW st, NEW m, NEW l, BothOK(st, m, l), st.demod.state = "BURST",
         Len(st.demod.bits) >= st.demod.burst_bits, NEW r, r = EmitBurst(st)
  PROVE  BothOK(r, l, l) /\ DOMAIN r.heard = DOMAIN st.heard
<1>1. /\ st \in StateType /\ DecoderOK(st.decoder, st.heard, st.total, m)
      /\ DemodOK(st.demod, st.heard, m, l)
  BY DEF BothOK
<1>2. PICK d \in DemodType : d = st.demod
  BY <1>1 DEF StateType
<1>3. l \in BitType /\ l.burst <= Len(st.heard) /\ d.burst_bits >= SyncLen + CandMin
  BY <1>1, <1>2 DEF DemodOK
<1>4. PICK a \in DOMAIN st.heard : GatheredOK(d.bits, a, m, l, st.heard)
  BY <1>1, <1>2 DEF DemodOK
<1>5. PICK n \in Nat, u \in Nat, len \in Nat, g \in Nat, b \in Nat, v \in Nat :
        /\ n = Len(d.bits) /\ u = d.burst_bits /\ len = SyncLen /\ g = CandMin /\ b = VdesByteBits
        /\ v = VdesMinBits /\ n >= u /\ u >= len + g /\ v <= len + g - b
  <2>1. Len(d.bits) \in Nat /\ d.burst_bits \in Nat /\ SyncLen \in Nat
    BY <1>2, VdesAssumption DEF SyncLen, DemodType
  <2> QED
    BY <1>2, <1>3, <2>1, VdesAssumption
<1>6. n >= len + g /\ ~(n < v)
  BY <1>5
<1>7. PICK bits : bits = SubSeq(d.bits, 1, VdesByteBits * (Len(d.bits) \div VdesByteBits))
  OBVIOUS
<1>8. EmissionOK(bits, a, m, l, st.heard)
  <2>1. Len(d.bits) >= SyncLen + CandMin
    BY <1>5, <1>6
  <2> QED
    BY <1>3, <1>4, <1>7, <2>1, ChunkIsEmission
<1>9. PICK e : e = [NewDemod(d.burst_bits) EXCEPT !.lockout = Lockout]
  OBVIOUS
<1>10. PICK after : after = [st EXCEPT !.demod = e]
  OBVIOUS
<1>11. r = Decode(after, bits)
  BY <1>2, <1>5, <1>6, <1>7, <1>9, <1>10 DEF EmitBurst
<1>12. /\ e = [state |-> "SEARCH", have_prev |-> FALSE, ring |-> <<>>, lockout |-> Lockout,
               bits |-> <<>>, burst_bits |-> d.burst_bits]
  BY <1>9 DEF NewDemod
<1>13. e \in DemodType /\ e.ring = <<>> /\ e.state = "SEARCH" /\ e.burst_bits = d.burst_bits
  <2>1. <<>> \in Seq(BitType) /\ Lockout \in Nat /\ d.burst_bits \in Nat
    BY VdesAssumption DEF DemodType
  <2> QED
    BY <1>12, <2>1 DEF DemodType
<1>14. /\ after.demod = e /\ after.decoder = st.decoder /\ after.heard = st.heard
       /\ after.total = st.total
  BY <1>1, <1>10 DEF StateType
<1>15. /\ DecoderOK(r.decoder, r.heard, r.total, l)
       /\ r.demod = e /\ DOMAIN r.heard = DOMAIN st.heard
  <2>1. DecoderOK(after.decoder, after.heard, after.total, m)
    BY <1>1, <1>14
  <2>2. EmissionOK(bits, a, m, l, after.heard)
    BY <1>8, <1>14
  <2> QED
    <3>1. Decoded(r, after, l)
      BY <1>11, <2>1, <2>2, DecodeKeeps
    <3> QED
      BY <1>14, <3>1 DEF Decoded
<1>16. r \in StateType
  <2>1. r = [demod |-> r.demod, decoder |-> r.decoder, heard |-> r.heard, total |-> r.total]
    BY <1>11 DEF Decode
  <2>2. r.decoder \in DecoderType /\ r.heard \in Seq(HeardType) /\ r.total \in Nat
    BY <1>15 DEF DecoderOK
  <2> QED
    BY <1>13, <1>15, <2>1, <2>2 DEF StateType
<1>17. DemodOK(r.demod, r.heard, l, l)
  <2>1. NotBehind(l, l)
    BY DEF NotBehind
  <2>2. l.burst <= Len(r.heard)
    BY <1>15 DEF DecoderOK
  <2>3. \A k \in DOMAIN e.ring : Behind(e.ring[k], l, r.heard)
    BY <1>13
  <2>4. e.state # "BURST"
    BY <1>13
  <2> QED
    BY <1>3, <1>13, <1>15, <2>1, <2>2, <2>3, <2>4 DEF DemodOK
<1> QED
  BY <1>15, <1>16, <1>17 DEF BothOK

\* The demodulator as it is, when a symbol passed it.
LEMMA DemodLater ==
  ASSUME NEW d, NEW m, NEW l, NEW all \in Seq(HeardType), DemodOK(d, all, m, l), NEW sym \in BitType,
         Behind(sym, l, all)
  PROVE  DemodOK(d, all, m, LastWith(sym, l))
<1>1. PICK last : last = LastWith(sym, l)
  OBVIOUS
<1>2. m \in BitType /\ l \in BitType /\ NotBehind(m, l) /\ l.burst <= Len(all)
  BY DEF DemodOK
<1>3. /\ last \in BitType /\ last.burst <= Len(all)
      /\ \A x \in BitType : NotBehind(x, l) => NotBehind(x, last)
  BY <1>1, <1>2, SymbolBits
<1>4. ASSUME d.state = "BURST"
      PROVE  \E a \in DOMAIN all : GatheredOK(d.bits, a, m, last, all)
  <2>1. PICK a \in DOMAIN all : GatheredOK(d.bits, a, m, l, all)
    BY <1>4 DEF DemodOK
  <2>2. \A k \in DOMAIN d.bits : NotBehind(d.bits[k], last)
    BY <1>3, <2>1 DEF GatheredOK
  <2>3. GatheredOK(d.bits, a, m, last, all)
    BY <2>1, <2>2 DEF GatheredOK
  <2> QED
    BY <2>3
<1>5. NotBehind(m, last)
  BY <1>2, <1>3
<1>6. d \in DemodType /\ d.burst_bits >= SyncLen + CandMin /\ \A k \in DOMAIN d.ring : Behind(d.ring[k], m, all)
  BY DEF DemodOK
<1> QED
  BY <1>1, <1>2, <1>3, <1>4, <1>5, <1>6 DEF DemodOK

\* Another demodulator, the rest as it is.
DemodIs(r, st, e, m, l) == BothOK(r, m, l) /\ r.heard = st.heard /\ r.demod = e

LEMMA OtherDemod ==
  ASSUME NEW st, NEW m, NEW l, BothOK(st, m, l), NEW e, NEW last, DemodOK(e, st.heard, m, last),
         NEW r, r = [st EXCEPT !.demod = e]
  PROVE  DemodIs(r, st, e, m, last)
<1>1. st \in StateType /\ DecoderOK(st.decoder, st.heard, st.total, m)
  BY DEF BothOK
<1>2. e \in DemodType
  BY DEF DemodOK
<1>3. /\ r \in StateType /\ r.demod = e /\ r.decoder = st.decoder /\ r.heard = st.heard
      /\ r.total = st.total
  BY <1>1, <1>2 DEF StateType
<1> QED
  BY <1>1, <1>3 DEF BothOK, DemodIs

\* A new ring, and what may be gathered by it.
LEMMA OtherRing ==
  ASSUME NEW d, NEW m, NEW l, NEW all \in Seq(HeardType), DemodOK(d, all, m, l),
         NEW ring \in Seq(BitType), \A k \in DOMAIN ring : Behind(ring[k], m, all)
  PROVE  DemodOK([d EXCEPT !.ring = ring], all, m, l)
<1>1. PICK e : e = [d EXCEPT !.ring = ring]
  OBVIOUS
<1>2. d \in DemodType
  BY DEF DemodOK
<1>3. /\ e \in DemodType /\ e.ring = ring /\ e.bits = d.bits /\ e.state = d.state
      /\ e.burst_bits = d.burst_bits
  BY <1>1, <1>2 DEF DemodType
<1> QED
  BY <1>1, <1>3 DEF DemodOK

\* The bits of burst a, in state BURST.
GathersBits(e, d, bits, all, m, l) ==
  DemodOK(e, all, m, l) /\ e.state = "BURST" /\ e.bits = bits /\ e.burst_bits = d.burst_bits

LEMMA OtherBits ==
  ASSUME NEW d, NEW m, NEW l, NEW all \in Seq(HeardType), DemodOK(d, all, m, l),
         NEW bits, NEW a \in DOMAIN all, GatheredOK(bits, a, m, l, all),
         NEW e, e = [d EXCEPT !.state = "BURST", !.bits = bits]
  PROVE  GathersBits(e, d, bits, all, m, l)
<1>1. PICK f : f = [d EXCEPT !.state = "BURST"]
  OBVIOUS
<1>2. d \in DemodType /\ bits \in Seq(BitType)
  BY DEF DemodOK, GatheredOK
<1>3. f \in DemodType /\ f.ring = d.ring /\ f.state = "BURST" /\ f.burst_bits = d.burst_bits
  BY <1>1, <1>2 DEF DemodType
<1>4. e = [f EXCEPT !.bits = bits]
  BY <1>1
<1>5. /\ e \in DemodType /\ e.ring = d.ring /\ e.bits = bits /\ e.state = "BURST"
      /\ e.burst_bits = d.burst_bits
  BY <1>2, <1>3, <1>4 DEF DemodType
<1>6. DemodOK(e, all, m, l)
  BY <1>5 DEF DemodOK
<1> QED
  BY <1>5, <1>6 DEF GathersBits

\* A symbol.
LEMMA ProcessSymKeeps ==
  ASSUME NEW st, NEW m, NEW l, BothOK(st, m, l), NEW sym \in BitType, Behind(sym, l, st.heard),
         NEW r, r = ProcessSym(st, sym), NEW last, last = LastWith(sym, l)
  PROVE  \E q : BothOK(r, q, last) /\ DOMAIN r.heard = DOMAIN st.heard
<1>1. PICK all \in Seq(HeardType) : all = st.heard
  BY DEF BothOK, StateType
<1>2. PICK d \in DemodType : d = st.demod
  BY DEF BothOK, StateType
<1>3. DemodOK(d, all, m, l) /\ DemodOK(d, all, m, last)
  <2>1. DemodOK(d, all, m, l)
    BY <1>1, <1>2 DEF BothOK
  <2> QED
    BY <1>1, <2>1, DemodLater
<1>4. m \in BitType /\ l \in BitType /\ last \in BitType /\ NotBehind(m, l) /\ l.burst <= Len(all)
  BY <1>3 DEF DemodOK
<1>5. PICK ring : ring = InRing(d.ring, sym)
  OBVIOUS
<1>6. /\ ring \in Seq(BitType) /\ \A k \in DOMAIN ring : Behind(ring[k], m, all)
      /\ Len(ring) = UwLen => ring[UwLen] = sym
  <2>1. d.ring \in Seq(BitType) /\ \A k \in DOMAIN d.ring : Behind(d.ring[k], m, all)
    BY <1>3 DEF DemodOK, DemodType
  <2>2. Behind(sym, m, all)
    BY <1>1, <1>4, BehindBoth
  <2> QED
    BY <1>5, <2>1, <2>2, RingKeeps
<1>7. PICK e : e = [d EXCEPT !.ring = ring]
  OBVIOUS
<1>8. DemodOK(e, all, m, last) /\ DemodOK(e, all, m, l)
  BY <1>3, <1>6, <1>7, OtherRing
<1>9. d.lockout \in Nat /\ d.have_prev \in BOOLEAN /\ d.state \in {"SEARCH", "BURST"}
  BY DEF DemodType
<1>10. CASE d.lockout > 0
  <2>1. PICK c \in Nat : c = d.lockout - 1
    BY <1>9, <1>10
  <2>2. PICK f : f = [d EXCEPT !.lockout = c]
    OBVIOUS
  <2>3. r = [st EXCEPT !.demod = f]
    BY <1>2, <1>10, <2>1, <2>2 DEF ProcessSym
  <2>4. /\ f \in DemodType /\ f.ring = d.ring /\ f.bits = d.bits /\ f.state = d.state
        /\ f.burst_bits = d.burst_bits
    BY <2>2 DEF DemodType
  <2>5. DemodOK(f, all, m, last)
    BY <1>3, <2>4 DEF DemodOK
  <2> QED
    <3>1. DemodIs(r, st, f, m, last)
      BY <1>1, <2>3, <2>5, OtherDemod
    <3> QED
      BY <3>1 DEF DemodIs
<1>11. CASE d.lockout = 0 /\ ~d.have_prev
  <2>1. PICK f : f = [d EXCEPT !.have_prev = TRUE]
    OBVIOUS
  <2>2. r = [st EXCEPT !.demod = f]
    BY <1>2, <1>11, <2>1 DEF ProcessSym
  <2>3. /\ f \in DemodType /\ f.ring = d.ring /\ f.bits = d.bits /\ f.state = d.state
        /\ f.burst_bits = d.burst_bits
    BY <2>1 DEF DemodType
  <2>4. DemodOK(f, all, m, last)
    BY <1>3, <2>3 DEF DemodOK
  <2> QED
    <3>1. DemodIs(r, st, f, m, last)
      BY <1>1, <2>2, <2>4, OtherDemod
    <3> QED
      BY <3>1 DEF DemodIs
<1>12. CASE d.lockout = 0 /\ d.have_prev /\ d.state = "SEARCH" /\ ~IsTraining(ring)
  <2>1. r = [st EXCEPT !.demod = e]
    BY <1>2, <1>5, <1>7, <1>12 DEF ProcessSym
  <2> QED
    <3>1. DemodIs(r, st, e, m, last)
      BY <1>1, <1>8, <2>1, OtherDemod
    <3> QED
      BY <3>1 DEF DemodIs
<1>13. CASE d.lockout = 0 /\ d.have_prev /\ d.state = "SEARCH" /\ IsTraining(ring)
  <2>1. PICK f : f = [e EXCEPT !.state = "BURST", !.bits = TrainingOf(sym.burst)]
    OBVIOUS
  <2>2. r = [st EXCEPT !.demod = f]
    BY <1>2, <1>5, <1>7, <1>13, <2>1 DEF ProcessSym
  <2>3. sym.burst \in DOMAIN all /\ GatheredOK(TrainingOf(sym.burst), sym.burst, m, last, all)
    BY <1>4, <1>6, <1>13, TrainingKeeps
  <2>4. DemodOK(f, all, m, last)
    <3>1. GathersBits(f, e, TrainingOf(sym.burst), all, m, last)
      BY <1>8, <2>1, <2>3, OtherBits
    <3> QED
      BY <3>1 DEF GathersBits
  <2> QED
    <3>1. DemodIs(r, st, f, m, last)
      BY <1>1, <2>2, <2>4, OtherDemod
    <3> QED
      BY <3>1 DEF DemodIs
<1>14. CASE d.lockout = 0 /\ d.have_prev /\ d.state = "BURST"
  <2>1. PICK bits : bits = Gathered(d.bits, sym)
    OBVIOUS
  <2>2. PICK f : f = [e EXCEPT !.state = "BURST", !.bits = bits]
    OBVIOUS
  <2>3. [d EXCEPT !.ring = ring, !.bits = bits] = f
    BY <1>7, <1>14, <2>2 DEF DemodType
  <2>4. PICK full : full = [st EXCEPT !.demod = f]
    OBVIOUS
  <2>5. r = IF Len(bits) >= d.burst_bits THEN EmitBurst(full) ELSE full
    BY <1>2, <1>5, <1>14, <2>1, <2>3, <2>4 DEF ProcessSym
  <2>6. PICK a \in DOMAIN all : GatheredOK(d.bits, a, m, l, all)
    BY <1>3, <1>14 DEF DemodOK
  <2>7. GatheredOK(bits, a, m, last, all)
    BY <1>1, <1>4, <2>1, <2>6, GatheredKeeps
  <2>8. DemodOK(f, all, m, last) /\ f.state = "BURST" /\ f.bits = bits /\ f.burst_bits = e.burst_bits
    <3>1. DemodOK(e, all, m, last)
      BY <1>8
    <3>2. GathersBits(f, e, bits, all, m, last)
      BY <2>2, <2>7, <3>1, OtherBits
    <3> QED
      BY <3>2 DEF GathersBits
  <2>9. BothOK(full, m, last) /\ full.heard = all /\ full.demod = f
    <3>1. DemodIs(full, st, f, m, last)
      BY <1>1, <2>4, <2>8, OtherDemod
    <3> QED
      BY <1>1, <3>1 DEF DemodIs
  <2>10. CASE Len(bits) >= d.burst_bits
    <3>1. e.burst_bits = d.burst_bits
      BY <1>7 DEF DemodType
    <3>2. BothOK(r, last, last) /\ DOMAIN r.heard = DOMAIN full.heard
      BY <2>5, <2>8, <2>9, <2>10, <3>1, EmitKeeps
    <3> QED
      BY <1>1, <2>9, <3>2
  <2>11. CASE ~(Len(bits) >= d.burst_bits)
    BY <1>1, <2>5, <2>9, <2>11
  <2> QED
    BY <2>10, <2>11
<1> QED
  BY <1>9, <1>10, <1>11, <1>12, <1>13, <1>14

-----------------------------------------------------------------------------
(* One symbol after another *)

AfterSteps(g, n, st, syms) ==
  /\ DOMAIN g = 0 .. n
  /\ \A m \in 0 .. n : g[m] = IF m = 0 THEN st ELSE ProcessSym(g[m - 1], syms[m])

LEMMA AfterExists ==
  ASSUME NEW len \in Nat, NEW st, NEW syms
  PROVE  \E g : AfterSteps(g, len, st, syms)
<1> DEFINE Bad == {n \in Nat : ~\E g : AfterSteps(g, n, st, syms)}
<1> SUFFICES ASSUME Bad # {} PROVE FALSE
  OBVIOUS
<1>1. PICK n \in Bad : \A m \in Bad : n <= m
  <2>1. Bad \subseteq Nat
    OBVIOUS
  <2> HIDE DEF Bad
  <2> QED
    BY <2>1, LeastNat
<1>2. n \in Nat /\ ~\E g : AfterSteps(g, n, st, syms)
  OBVIOUS
<1>3. CASE n = 0
  <2>1. AfterSteps([m \in 0 .. 0 |-> st], 0, st, syms)
    BY DEF AfterSteps
  <2> QED
    BY <1>2, <1>3, <2>1
<1>4. CASE n > 0
  <2>1. n - 1 \in Nat /\ n - 1 \notin Bad
    BY <1>1, <1>2, <1>4
  <2>2. PICK h : AfterSteps(h, n - 1, st, syms)
    BY <2>1
  <2>3. PICK last : last = ProcessSym(h[n - 1], syms[n])
    OBVIOUS
  <2> DEFINE g == [m \in 0 .. n |-> IF m = n THEN last ELSE h[m]]
  <2>4. \A m \in 0 .. n : m = n \/ m \in 0 .. n - 1
    BY <1>2
  <2>5. \A m \in 0 .. n - 1 : g[m] = h[m] /\ m \in 0 .. n
    BY <1>2
  <2>6. g[n] = last /\ n - 1 \in 0 .. n - 1
    BY <1>2, <1>4
  <2>7. DOMAIN g = 0 .. n
    OBVIOUS
  <2> HIDE DEF g
  <2>8. ASSUME NEW m \in 0 .. n
        PROVE  g[m] = IF m = 0 THEN st ELSE ProcessSym(g[m - 1], syms[m])
    <3>1. CASE m = n
      BY <1>4, <2>3, <2>5, <2>6, <3>1
    <3>2. CASE m \in 0 .. n - 1 /\ m = 0
      BY <2>2, <2>5, <3>2 DEF AfterSteps
    <3>3. CASE m \in 0 .. n - 1 /\ m # 0
      <4>1. m - 1 \in 0 .. n - 1
        BY <1>2, <3>3
      <4> QED
        BY <2>2, <2>5, <3>3, <4>1 DEF AfterSteps
    <3> QED
      BY <2>4, <3>1, <3>2, <3>3
  <2>9. AfterSteps(g, n, st, syms)
    BY <2>7, <2>8 DEF AfterSteps
  <2> QED
    BY <1>2, <2>9
<1> QED
  BY <1>2, <1>3, <1>4

LEMMA ProcessedRuns ==
  ASSUME NEW st, NEW syms, Len(syms) \in Nat
  PROVE  \E g : AfterSteps(g, Len(syms), st, syms) /\ Processed(st, syms) = g[Len(syms)]
<1>0. PICK n \in Nat : n = Len(syms)
  OBVIOUS
<1>1. PICK g : AfterSteps(g, n, st, syms)
  BY AfterExists
<1> DEFINE Unfolds(h) ==
             h = [m \in 0 .. n |-> IF m = 0 THEN st ELSE ProcessSym(h[m - 1], syms[m])]
           f == [m \in 0 .. n |-> g[m]]
           e == CHOOSE h : Unfolds(h)
<1>2. Unfolds(f)
  <2>1. \A m \in 0 .. n : m # 0 => m - 1 \in 0 .. n
    OBVIOUS
  <2>2. \A m \in 0 .. n : f[m] = IF m = 0 THEN st ELSE ProcessSym(f[m - 1], syms[m])
    BY <1>1, <2>1 DEF AfterSteps
  <2>3. f = [m \in 0 .. n |-> f[m]]
    OBVIOUS
  <2> HIDE DEF f
  <2> QED
    BY <2>2, <2>3
<1>3. Unfolds(e)
  BY <1>2
<1>4. Processed(st, syms) = e[n]
  BY <1>0 DEF Processed
<1> HIDE DEF e
<1>5. AfterSteps(e, n, st, syms)
  BY <1>3 DEF AfterSteps
<1> QED
  BY <1>0, <1>4, <1>5

-----------------------------------------------------------------------------
(* A burst is sent *)

\* The last bit that was heard after n symbols of burst b.
LastSent(b, quiet, n, l) ==
  IF n <= quiet THEN l ELSE [burst |-> b, place |-> 2 * (n - quiet)]

LEMMA NextSent ==
  ASSUME NEW b \in Nat \ {0}, NEW quiet \in Nat, NEW n \in Nat, NEW l \in BitType, l.burst < b,
         NEW all, Len(all) = b,
         NEW sym, sym = IF n + 1 <= quiet THEN NoSymbol ELSE [burst |-> b, place |-> n + 1 - quiet]
  PROVE  /\ sym \in BitType /\ Behind(sym, LastSent(b, quiet, n, l), all)
         /\ LastWith(sym, LastSent(b, quiet, n, l)) = LastSent(b, quiet, n + 1, l)
<1>1. CASE n + 1 <= quiet
  <2>1. sym \in BitType /\ Noise(sym)
    BY <1>1 DEF NoSymbol, BitType, Noise
  <2>2. n <= quiet
    BY <1>1
  <2> QED
    BY <1>1, <2>1, <2>2 DEF Behind, LastWith, LastSent
<1>2. CASE ~(n + 1 <= quiet)
  <2>1. PICK p \in Nat : p = n - quiet /\ n = p + quiet /\ n + 1 - quiet = p + 1
    BY <1>2
  <2>2. sym = [burst |-> b, place |-> p + 1]
    BY <1>2, <2>1
  <2>3. sym \in BitType /\ ~Noise(sym) /\ sym.place > 0 /\ sym.burst <= Len(all)
    BY <2>2 DEF BitType, Noise
  <2>4. FirstOf(sym) = [burst |-> b, place |-> 2 * p + 1]
    <3>1. 2 * (p + 1) - 1 = 2 * p + 1
      OBVIOUS
    <3> QED
      BY <2>2, <3>1 DEF FirstOf
  <2>5. Before(LastSent(b, quiet, n, l), FirstOf(sym))
    <3>1. CASE n <= quiet
      <4>1. LastSent(b, quiet, n, l) = l
        BY <3>1 DEF LastSent
      <4> QED
        BY <2>4, <4>1 DEF Before
    <3>2. CASE ~(n <= quiet)
      <4>1. LastSent(b, quiet, n, l) = [burst |-> b, place |-> 2 * p]
        BY <2>1, <3>2 DEF LastSent
      <4> QED
        BY <2>4, <4>1 DEF Before
    <3> QED
      BY <3>1, <3>2
  <2>6. LastWith(sym, LastSent(b, quiet, n, l)) = [burst |-> b, place |-> 2 * (p + 1)]
    BY <2>2, <2>3 DEF LastWith, SecondOf
  <2>7. LastSent(b, quiet, n + 1, l) = [burst |-> b, place |-> 2 * (p + 1)]
    BY <1>2, <2>1 DEF LastSent
  <2> QED
    BY <2>3, <2>5, <2>6, <2>7 DEF Behind
<1> QED
  BY <1>1, <1>2

\* A burst begins.
LEMMA NewBurstKeeps ==
  ASSUME NEW st, NEW m, NEW l, BothOK(st, m, l), NEW new \in HeardType, Unfound(new), new.bits = <<>>,
         NEW r, r = [demod |-> st.demod, decoder |-> st.decoder, heard |-> Append(st.heard, new),
                     total |-> st.total]
  PROVE  BothOK(r, m, l) /\ Len(r.heard) = Len(st.heard) + 1
<1>1. /\ st \in StateType /\ DecoderOK(st.decoder, st.heard, st.total, m)
      /\ DemodOK(st.demod, st.heard, m, l)
  BY DEF BothOK
<1>2. PICK all \in Seq(HeardType), d \in DemodType, dec \in DecoderType, t \in Nat :
        all = st.heard /\ d = st.demod /\ dec = st.decoder /\ t = st.total
  BY <1>1 DEF StateType
<1>3. PICK now : now = Append(all, new)
  OBVIOUS
<1>4. PICK n \in Nat : n = Len(all)
  OBVIOUS
<1>5. /\ now \in Seq(HeardType) /\ Len(now) = n + 1 /\ DOMAIN all = 1 .. n /\ DOMAIN now = 1 .. n + 1
      /\ \A b \in 1 .. n : now[b] = all[b]
      /\ now[n + 1] = new
  BY <1>3, <1>4
<1>6. \A b \in 1 .. n + 1 : b \in 1 .. n \/ b = n + 1
  OBVIOUS
<1>7. \A b \in 1 .. n : b \in 1 .. n + 1
  OBVIOUS
<1>8. \A x \in BitType : x.burst <= Len(all) => x.burst <= Len(now)
  <2>1. ASSUME NEW x \in BitType, x.burst <= Len(all)
        PROVE  x.burst <= Len(now)
    <3>1. PICK h \in Nat : h = x.burst /\ h <= n
      BY <1>4, <2>1 DEF BitType
    <3>2. h <= n + 1
      BY <3>1
    <3> QED
      BY <1>5, <3>1, <3>2
  <2> QED
    BY <2>1
<1>9. DecoderOK(dec, now, t, m)
  <2>1. \A b, q : Covered(all, b, q) => Covered(now, b, q)
    BY <1>5, <1>7 DEF Covered
  <2>2. ~Done(new)
    <3>1. ~(new.found > 0)
      BY DEF Unfound
    <3> QED
      BY <3>1 DEF Done
  <2>3. \A b \in 1 .. n + 1 : Unfound(now[b]) \/ now[b].found > 0
    BY <1>1, <1>2, <1>5, <1>6 DEF DecoderOK
  <2>4. ASSUME NEW b \in 1 .. n + 1, Done(now[b])
        PROVE  /\ NotBehind(Start(b), m)
               /\ \A k \in DOMAIN dec.stream : dec.stream[k] = Start(b) => k <= dec.scan_pos
    <3>1. b \in 1 .. n /\ Done(all[b])
      BY <1>5, <1>6, <2>2, <2>4
    <3> QED
      BY <1>1, <1>2, <1>5, <3>1 DEF DecoderOK
  <2>5. ASSUME NEW b \in 1 .. n + 1
        PROVE  FoundWell(now, b)
    <3>1. CASE b \in 1 .. n
      <4>1. FoundWell(all, b) /\ now[b] = all[b]
        BY <1>1, <1>2, <1>5, <3>1 DEF DecoderOK
      <4> QED
        BY <2>1, <4>1 DEF FoundWell
    <3>2. CASE b = n + 1
      <4>1. now[b].found = 0 /\ now[b].bits = <<>>
        BY <1>5, <3>2 DEF Unfound
      <4>2. now[b].found <= 1
        BY <4>1
      <4> QED
        BY <4>1, <4>2 DEF FoundWell
    <3> QED
      BY <1>6, <3>1, <3>2
  <2>6. dec.scan_pos > Len(dec.stream) =>
       \E c \in DOMAIN now : /\ now[c].found > 0 /\ now[c].at < t
                             /\ (t - Len(dec.stream)) + dec.scan_pos <= now[c].until
    <3>1. SUFFICES ASSUME dec.scan_pos > Len(dec.stream)
                   PROVE  \E c \in DOMAIN now : /\ now[c].found > 0 /\ now[c].at < t
                             /\ (t - Len(dec.stream)) + dec.scan_pos <= now[c].until
      OBVIOUS
    <3>2. PICK c \in DOMAIN all : /\ all[c].found > 0 /\ all[c].at < t
                                  /\ (t - Len(dec.stream)) + dec.scan_pos <= all[c].until
      BY <1>1, <1>2, <3>1 DEF DecoderOK
    <3>3. c \in DOMAIN now /\ now[c] = all[c]
      BY <1>5, <1>7
    <3> QED
      BY <3>2, <3>3
  <2>7. m \in BitType /\ m.burst <= Len(now)
    BY <1>1, <1>2, <1>8 DEF DecoderOK
  <2> QED
    BY <1>1, <1>2, <1>5, <2>3, <2>4, <2>5, <2>6, <2>7 DEF DecoderOK
<1>10. DemodOK(d, now, m, l)
  <2>1. l \in BitType /\ l.burst <= Len(now)
    BY <1>1, <1>2, <1>8 DEF DemodOK
  <2>2. ASSUME NEW k \in DOMAIN d.ring
        PROVE  Behind(d.ring[k], m, now)
    <3>1. Behind(d.ring[k], m, all)
      BY <1>1, <1>2 DEF DemodOK
    <3> QED
      BY <1>8, <3>1 DEF Behind
  <2>3. ASSUME d.state = "BURST"
        PROVE  \E a \in DOMAIN now : GatheredOK(d.bits, a, m, l, now)
    <3>1. PICK a \in DOMAIN all : GatheredOK(d.bits, a, m, l, all)
      BY <1>1, <1>2, <2>3 DEF DemodOK
    <3>2. a \in DOMAIN now
      BY <1>5, <1>7
    <3>3. GatheredOK(d.bits, a, m, l, now)
      BY <3>1, <3>2 DEF GatheredOK
    <3> QED
      BY <3>2, <3>3
  <2> QED
    BY <1>1, <1>2, <2>1, <2>2, <2>3 DEF DemodOK
<1>11. r = [demod |-> d, decoder |-> dec, heard |-> now, total |-> t]
  BY <1>2, <1>3
<1>12. r \in StateType
  BY <1>2, <1>5, <1>11 DEF StateType
<1>13. r.demod = d /\ r.decoder = dec /\ r.heard = now /\ r.total = t
  BY <1>11
<1>14. BothOK(r, m, l)
  BY <1>9, <1>10, <1>12, <1>13 DEF BothOK
<1> QED
  BY <1>2, <1>4, <1>5, <1>13, <1>14

\* Noise and then a burst.
LEMMA ProcessedKeeps ==
  ASSUME NEW st, NEW m, NEW l, BothOK(st, m, l), NEW b \in Nat \ {0}, Len(st.heard) = b, l.burst < b,
         NEW quiet \in Nat, NEW length \in Nat, NEW syms,
         syms = [i \in 1 .. quiet + length |->
                   IF i <= quiet THEN NoSymbol ELSE [burst |-> b, place |-> i - quiet]]
  PROVE  \E q, last : BothOK(Processed(st, syms), q, last)
<1>1. PICK len \in Nat : len = quiet + length
  OBVIOUS
<1>2. l \in BitType
  BY DEF BothOK, DemodOK
<1>3. ASSUME NEW n \in Nat, n + 1 <= len
      PROVE  syms[n + 1] = IF n + 1 <= quiet THEN NoSymbol ELSE [burst |-> b, place |-> n + 1 - quiet]
  <2>1. n + 1 \in 1 .. len
    BY <1>3
  <2> QED
    BY <1>1, <2>1
<1>4. Len(syms) = len
  <2>1. syms \in Seq(BitType)
    <3>1. ASSUME NEW i \in 1 .. len
          PROVE  (IF i <= quiet THEN NoSymbol ELSE [burst |-> b, place |-> i - quiet]) \in BitType
      <4>1. CASE i <= quiet
        BY <4>1 DEF NoSymbol, BitType
      <4>2. CASE ~(i <= quiet)
        <5>1. i - quiet \in Nat
          BY <4>2
        <5> QED
          BY <4>2, <5>1 DEF BitType
      <4> QED
        BY <4>1, <4>2
    <3>2. syms \in [1 .. len -> BitType]
      BY <1>1, <3>1
    <3> QED
      BY <3>2, SeqDef
  <2>2. DOMAIN syms = 1 .. len
    BY <1>1
  <2> QED
    BY <2>1, <2>2, LenProperties
<1>5. PICK g : AfterSteps(g, len, st, syms) /\ Processed(st, syms) = g[len]
  BY <1>4, ProcessedRuns
<1> DEFINE Fine(n) == \E q : BothOK(g[n], q, LastSent(b, quiet, n, l)) /\ DOMAIN g[n].heard = DOMAIN st.heard
           Bad == {n \in 0 .. len : ~Fine(n)}
<1>6. Fine(0)
  <2>1. g[0] = st
    <3>1. 0 \in 0 .. len
      BY <1>1
    <3> QED
      BY <1>5, <3>1 DEF AfterSteps
  <2>2. LastSent(b, quiet, 0, l) = l
    BY DEF LastSent
  <2> QED
    BY <2>1, <2>2
<1>7. ASSUME NEW n \in Nat, n + 1 <= len, Fine(n)
      PROVE  Fine(n + 1)
  <2>1. PICK q : BothOK(g[n], q, LastSent(b, quiet, n, l)) /\ DOMAIN g[n].heard = DOMAIN st.heard
    BY <1>7
  <2>2. g[n + 1] = ProcessSym(g[n], syms[n + 1])
    <3>1. n + 1 \in 0 .. len /\ n + 1 # 0 /\ (n + 1) - 1 = n
      BY <1>7
    <3> QED
      BY <1>5, <3>1 DEF AfterSteps
  <2>3. Len(g[n].heard) = b
    <3>1. g[n].heard \in Seq(HeardType) /\ st.heard \in Seq(HeardType)
      BY <2>1 DEF BothOK, StateType
    <3>2. DOMAIN g[n].heard = 1 .. b
      BY <2>1, <3>1
    <3> QED
      BY <3>1, <3>2, LenProperties
  <2>4. PICK sym : sym = syms[n + 1]
    OBVIOUS
  <2>5. /\ sym \in BitType /\ Behind(sym, LastSent(b, quiet, n, l), g[n].heard)
        /\ LastWith(sym, LastSent(b, quiet, n, l)) = LastSent(b, quiet, n + 1, l)
    <3>1. sym = IF n + 1 <= quiet THEN NoSymbol ELSE [burst |-> b, place |-> n + 1 - quiet]
      BY <1>3, <1>7, <2>4
    <3> QED
      BY <1>2, <2>3, <3>1, NextSent
  <2>6. PICK q2 : BothOK(g[n + 1], q2, LastSent(b, quiet, n + 1, l)) /\ DOMAIN g[n + 1].heard = DOMAIN g[n].heard
    <3>1. PICK x, y, z, w :
            x = g[n] /\ y = g[n + 1] /\ z = LastSent(b, quiet, n, l) /\ w = LastSent(b, quiet, n + 1, l)
      OBVIOUS
    <3>2. BothOK(x, q, z) /\ Behind(sym, z, x.heard) /\ sym \in BitType /\ y = ProcessSym(x, sym)
          /\ w = LastWith(sym, z)
      BY <2>1, <2>2, <2>4, <2>5, <3>1
    <3>3. \E q2 : BothOK(y, q2, w) /\ DOMAIN y.heard = DOMAIN x.heard
      BY ONLY <3>2, ProcessSymKeeps
    <3> QED
      BY <3>1, <3>3
  <2> QED
    BY <2>1, <2>6
<1>8. Bad = {}
  <2>1. SUFFICES ASSUME Bad # {} PROVE FALSE
    OBVIOUS
  <2>2. PICK n \in Bad : \A k \in Bad : n <= k
    <3>1. Bad \subseteq Nat
      OBVIOUS
    <3> HIDE DEF Bad
    <3> QED
      BY <2>1, <3>1, LeastNat
  <2>3. n \in 0 .. len /\ ~Fine(n)
    OBVIOUS
  <2> HIDE DEF Fine
  <2>4. PICK k \in Nat : n = k + 1
    <3>1. n # 0
      BY <1>6, <2>3
    <3>2. n - 1 \in Nat /\ n = (n - 1) + 1
      BY <2>3, <3>1
    <3> QED
      BY <3>2
  <2>5. k \in 0 .. len /\ ~(n <= k)
    BY <2>3, <2>4
  <2>6. Fine(k)
    BY <2>2, <2>5
  <2>7. k + 1 <= len
    BY <2>3, <2>4
  <2> QED
    BY <1>7, <2>3, <2>4, <2>6, <2>7
<1>9. Fine(len)
  <2>1. len \in 0 .. len
    OBVIOUS
  <2> HIDE DEF Fine
  <2> QED
    BY <1>8, <2>1
<1> QED
  BY <1>5, <1>9

-----------------------------------------------------------------------------
(* The invariant *)

\* Of what the demodulator gathers and the decoder keeps, some bit was emitted
\* last and some bit was heard last.
VdesInv ==
  \E m, l : BothOK([demod |-> demod, decoder |-> decoder, heard |-> heard, total |-> total], m, l)

LEMMA VdesStateFields ==
  ASSUME NEW d, NEW e, NEW h, NEW t, NEW m, NEW l
  PROVE  BothOK([demod |-> d, decoder |-> e, heard |-> h, total |-> t], m, l)
           <=> /\ d \in DemodType /\ e \in DecoderType /\ h \in Seq(HeardType) /\ t \in Nat
               /\ DecoderOK(e, h, t, m) /\ DemodOK(d, h, m, l)
<1>1. PICK st : st = [demod |-> d, decoder |-> e, heard |-> h, total |-> t]
  OBVIOUS
<1>2. st.demod = d /\ st.decoder = e /\ st.heard = h /\ st.total = t
  BY <1>1
<1>3. st \in StateType <=> d \in DemodType /\ e \in DecoderType /\ h \in Seq(HeardType) /\ t \in Nat
  BY <1>1 DEF StateType
<1> QED
  BY <1>1, <1>2, <1>3 DEF BothOK

LEMMA VdesInitOK == VdesInit => VdesInv
<1> SUFFICES ASSUME VdesInit PROVE VdesInv
  OBVIOUS
<1>1. /\ demod = NewDemod(VdesMaxBits)
      /\ decoder = [stream |-> <<>>, scan_pos |-> 0, candidate_bits |-> CandDefault]
      /\ heard = <<>> /\ total = 0
  BY DEF VdesInit
<1>2. NoSymbol \in BitType /\ NoSymbol.burst = 0
  BY DEF NoSymbol, BitType
<1>3. heard \in Seq(HeardType) /\ Len(heard) = 0 /\ DOMAIN heard = {} /\ total \in Nat
  BY <1>1
<1>4. CandDefault \in Nat /\ CandDefault >= CandMin /\ TailKeep \in Nat
  BY VdesAssumption
<1>5. /\ decoder \in DecoderType /\ decoder.stream = <<>> /\ decoder.scan_pos = 0
      /\ decoder.candidate_bits = CandDefault
  <2>1. <<>> \in Seq(BitType)
    OBVIOUS
  <2> QED
    BY <1>1, <1>4, <2>1 DEF DecoderType
<1>6. Len(decoder.stream) = 0 /\ DOMAIN decoder.stream = {} /\ Rising(decoder.stream)
  BY <1>5 DEF Rising
<1>7. DecoderOK(decoder, heard, total, NoSymbol)
  BY <1>1, <1>2, <1>3, <1>4, <1>5, <1>6 DEF DecoderOK
<1>8. /\ demod \in DemodType /\ demod.state = "SEARCH" /\ demod.ring = <<>>
      /\ demod.burst_bits = VdesMaxBits
  <2>1. VdesMaxBits \in Nat /\ <<>> \in Seq(BitType)
    BY VdesAssumption
  <2> QED
    BY <1>1, <2>1 DEF NewDemod, DemodType
<1>9. VdesMaxBits >= SyncLen + CandMin
  <2>1. VdesMaxBits \in Nat /\ CandMin \in Nat /\ SyncLen \in Nat /\ SyncLen + CandMin <= VdesMaxBits
    BY VdesAssumption DEF SyncLen
  <2> QED
    BY <2>1
<1>10. DemodOK(demod, heard, NoSymbol, NoSymbol)
  BY <1>2, <1>3, <1>8, <1>9 DEF DemodOK, NotBehind
<1> QED
  BY <1>3, <1>5, <1>7, <1>8, <1>10, VdesStateFields DEF VdesInv

LEMMA VdesSendKeeps ==
  ASSUME VdesInv, NEW quiet \in Quiets, NEW length \in Lengths, VdesSend(quiet, length)
  PROVE  VdesInv'
<1>1. PICK m, l :
        BothOK([demod |-> demod, decoder |-> decoder, heard |-> heard, total |-> total], m, l)
  BY DEF VdesInv
<1>2. quiet \in Nat /\ length \in Nat
  BY VdesAssumption
<1>3. heard \in Seq(HeardType) /\ l \in BitType /\ l.burst <= Len(heard)
  BY <1>1, VdesStateFields DEF DemodOK
<1>4. PICK b \in Nat \ {0} : b = Len(heard) + 1
  BY <1>3
<1>5. PICK new : new = [bits |-> <<>>, start |-> 0, size |-> 0, found |-> 0, cand |-> <<>>,
                        at |-> 0, until |-> 0]
  OBVIOUS
<1>6. new \in HeardType /\ Unfound(new) /\ new.bits = <<>>
  <2>1. <<>> \in Seq(BitType)
    OBVIOUS
  <2> QED
    BY <1>5, <2>1 DEF HeardType, Unfound
<1>7. PICK st : st = [demod |-> demod, decoder |-> decoder, heard |-> Append(heard, new), total |-> total]
  OBVIOUS
<1>8. BothOK(st, m, l) /\ Len(st.heard) = b
  <2>1. PICK old : old = [demod |-> demod, decoder |-> decoder, heard |-> heard, total |-> total]
    OBVIOUS
  <2>2. st = [demod |-> old.demod, decoder |-> old.decoder, heard |-> Append(old.heard, new),
              total |-> old.total]
    BY <1>7, <2>1
  <2>3. BothOK(old, m, l)
    BY <1>1, <2>1
  <2>4. BothOK(st, m, l) /\ Len(st.heard) = Len(old.heard) + 1
    BY <1>6, <2>2, <2>3, NewBurstKeeps
  <2> QED
    BY <1>4, <2>1, <2>4
<1>9. PICK syms : syms = [i \in 1 .. quiet + length |->
                            IF i <= quiet THEN NoSymbol ELSE [burst |-> b, place |-> i - quiet]]
  OBVIOUS
<1>10. PICK after : after = Processed(st, syms)
  OBVIOUS
<1>11. PICK q, last : BothOK(after, q, last)
  <2>1. l.burst < b
    <3>1. l.burst \in Nat /\ Len(heard) \in Nat
      BY <1>3 DEF BitType
    <3> QED
      BY <1>3, <1>4, <3>1
  <2> QED
    BY <1>2, <1>8, <1>9, <1>10, <2>1, ProcessedKeeps
<1>12. demod' = after.demod /\ decoder' = after.decoder /\ heard' = after.heard /\ total' = after.total
  BY <1>4, <1>5, <1>7, <1>9, <1>10 DEF VdesSend
<1>13. /\ demod' \in DemodType /\ decoder' \in DecoderType /\ heard' \in Seq(HeardType)
       /\ total' \in Nat /\ DecoderOK(decoder', heard', total', q) /\ DemodOK(demod', heard', q, last)
  BY <1>11, <1>12 DEF BothOK, StateType
<1>14. BothOK([demod |-> demod', decoder |-> decoder', heard |-> heard', total |-> total'], q, last)
  BY <1>13, VdesStateFields
<1> QED
  BY <1>14 DEF VdesInv

LEMMA SetCandidateBitsKeeps ==
  ASSUME VdesInv, NEW v \in Candidates, SetCandidateBits(v)
  PROVE  VdesInv'
<1>1. PICK m, l :
        BothOK([demod |-> demod, decoder |-> decoder, heard |-> heard, total |-> total], m, l)
  BY DEF VdesInv
<1>2. /\ demod \in DemodType /\ decoder \in DecoderType /\ heard \in Seq(HeardType) /\ total \in Nat
      /\ DecoderOK(decoder, heard, total, m) /\ DemodOK(demod, heard, m, l)
  BY <1>1, VdesStateFields
<1>3. v \in Nat /\ v >= CandMin
  BY VdesAssumption
<1>4. PICK u \in Nat : /\ u = (IF SyncLen + v < VdesMaxBits THEN SyncLen + v ELSE VdesMaxBits)
                       /\ u >= SyncLen + CandMin
  <2>1. PICK len \in Nat, x \in Nat, g \in Nat :
          len = SyncLen /\ x = VdesMaxBits /\ g = CandMin /\ len + g <= x /\ v >= g
    BY <1>3, VdesAssumption DEF SyncLen
  <2>2. len + v \in Nat /\ len + v >= len + g
    BY <1>3, <2>1
  <2> QED
    BY <2>1, <2>2
<1>5. demod' = [demod EXCEPT !.burst_bits = u]
  BY <1>4 DEF SetCandidateBits
<1>6. /\ demod' \in DemodType /\ demod'.burst_bits = u /\ demod'.ring = demod.ring
      /\ demod'.state = demod.state /\ demod'.bits = demod.bits
  BY <1>2, <1>5 DEF DemodType
<1>7. DemodOK(demod', heard, m, l)
  BY <1>2, <1>4, <1>6 DEF DemodOK
<1>8. decoder' = [decoder EXCEPT !.candidate_bits = v] /\ heard' = heard /\ total' = total
  BY DEF SetCandidateBits
<1>9. /\ decoder' \in DecoderType /\ decoder'.stream = decoder.stream
      /\ decoder'.scan_pos = decoder.scan_pos /\ decoder'.candidate_bits = v
  BY <1>2, <1>3, <1>8 DEF DecoderType
<1>10. DecoderOK(decoder', heard, total, m)
  BY <1>2, <1>3, <1>9 DEF DecoderOK
<1>11. BothOK([demod |-> demod', decoder |-> decoder', heard |-> heard', total |-> total'], m, l)
  BY <1>2, <1>6, <1>7, <1>8, <1>9, <1>10, VdesStateFields
<1> QED
  BY <1>11 DEF VdesInv

LEMMA NewRateKeeps ==
  ASSUME VdesInv, NewRate
  PROVE  VdesInv'
<1>1. PICK m, l :
        BothOK([demod |-> demod, decoder |-> decoder, heard |-> heard, total |-> total], m, l)
  BY DEF VdesInv
<1>2. /\ demod \in DemodType /\ decoder \in DecoderType /\ heard \in Seq(HeardType) /\ total \in Nat
      /\ DecoderOK(decoder, heard, total, m) /\ DemodOK(demod, heard, m, l)
  BY <1>1, VdesStateFields
<1>3. demod' = [demod EXCEPT !.ring = <<>>] /\ decoder' = decoder /\ heard' = heard /\ total' = total
  BY DEF NewRate
<1>4. DemodOK(demod', heard, m, l)
  <2>1. <<>> \in Seq(BitType) /\ \A k \in DOMAIN <<>> : Behind(<<>>[k], m, heard)
    OBVIOUS
  <2> QED
    BY <1>2, <1>3, <2>1, OtherRing
<1>5. demod' \in DemodType
  BY <1>4 DEF DemodOK
<1>6. BothOK([demod |-> demod', decoder |-> decoder', heard |-> heard', total |-> total'], m, l)
  BY <1>2, <1>3, <1>4, <1>5, VdesStateFields
<1> QED
  BY <1>6 DEF VdesInv

LEMMA VdesInvFinds == VdesInv => BurstsFoundOnce
<1> SUFFICES ASSUME VdesInv PROVE BurstsFoundOnce
  OBVIOUS
<1>1. \A b \in DOMAIN heard : FoundWell(heard, b)
  BY VdesStateFields DEF VdesInv, DecoderOK
<1>2. ASSUME NEW b \in DOMAIN heard
      PROVE  LET h == heard[b]
                 use == IF Len(h.bits) - SyncLen < h.size THEN Len(h.bits) - SyncLen ELSE h.size
                 covered == \E c \in DOMAIN heard \ {b} :
                              heard[c].at < h.start /\ h.start < heard[c].until
             IN  /\ h.found <= 1
                 /\ h.bits # <<>> /\ ~covered => h.found = 1
                 /\ h.bits # <<>> /\ h.found = 1 => h.cand = IF use < CandMin THEN <<>>
                                                   ELSE SubSeq(h.bits, SyncLen + 1, SyncLen + use)
  BY <1>1 DEF FoundWell, Covered, WindowOf
<1> QED
  BY <1>2 DEF BurstsFoundOnce

\* Every burst that the demodulator emits is found by the decoder once, whole.
THEOREM BurstsAreFoundOnce == VdesSpec => []BurstsFoundOnce
<1>1. VdesInit => VdesInv
  BY VdesInitOK
<1>2. VdesInv /\ [VdesNext]_vdesVars => VdesInv'
  <2> SUFFICES ASSUME VdesInv, [VdesNext]_vdesVars PROVE VdesInv'
    OBVIOUS
  <2>1. ASSUME NEW quiet \in Quiets, NEW length \in Lengths, VdesSend(quiet, length)
        PROVE  VdesInv'
    BY <2>1, VdesSendKeeps
  <2>2. ASSUME NEW v \in Candidates, SetCandidateBits(v)
        PROVE  VdesInv'
    BY <2>2, SetCandidateBitsKeeps
  <2>3. CASE NewRate
    BY <2>3, NewRateKeeps
  <2>4. CASE UNCHANGED vdesVars
    BY <2>4 DEF VdesInv, vdesVars
  <2> QED
    BY <2>1, <2>2, <2>3, <2>4 DEF VdesNext
<1> QED
  BY <1>1, <1>2, VdesInvFinds, PTL DEF VdesSpec


-----------------------------------------------------------------------------
(* Division by the length of a word *)

LEMMA Dividing ==
  ASSUME NEW w \in Nat, w > 0, NEW n \in Nat
  PROVE  /\ n \div w \in Nat /\ n % w \in 0 .. w - 1
         /\ n = w * (n \div w) + (n % w)
OBVIOUS

LEMMA AtLeast ==
  ASSUME NEW w \in Nat, NEW p \in Nat, NEW q \in Nat, p <= q
  PROVE  w * p <= w * q
<1>1. PICK d \in Nat : q = p + d
  <2>1. q - p \in Nat /\ q = p + (q - p)
    OBVIOUS
  <2> QED
    BY <2>1
<1>2. w * d >= 0 /\ w * q = w * p + w * d
  BY <1>1
<1> QED
  BY <1>2

LEMMA Divided ==
  ASSUME NEW w \in Nat, NEW q \in Nat, NEW j \in Nat, j < w
  PROVE  (w * q + j) \div w = q /\ (w * q + j) % w = j
<1>1. PICK n \in Nat : n = w * q + j
  OBVIOUS
<1>2. PICK p \in Nat, r \in 0 .. w - 1 : p = n \div w /\ r = n % w /\ n = w * p + r
  BY Dividing
<1>3. ~(p + 1 <= q)
  <2> SUFFICES ASSUME p + 1 <= q PROVE FALSE
    OBVIOUS
  <2>1. w * (p + 1) <= w * q
    BY AtLeast
  <2>2. w * (p + 1) = w * p + w
    OBVIOUS
  <2> QED
    BY <1>1, <1>2, <2>1, <2>2
<1>4. ~(q + 1 <= p)
  <2> SUFFICES ASSUME q + 1 <= p PROVE FALSE
    OBVIOUS
  <2>1. w * (q + 1) <= w * p
    BY AtLeast
  <2>2. w * (q + 1) = w * q + w
    OBVIOUS
  <2> QED
    BY <1>1, <1>2, <2>1, <2>2
<1>5. p = q
  BY <1>3, <1>4
<1>6. r = j
  BY <1>1, <1>2, <1>5
<1> QED
  BY <1>1, <1>2, <1>5, <1>6

-----------------------------------------------------------------------------
(* The bits in the air *)

CallBit == [word : Nat, place : Nat, sym : Int]

\* Noise stands before everything else, or it is one of the last few bits; and
\* a word that begins goes on.
AirOK(x) ==
  /\ x \in Seq(CallBit)
  /\ \A i \in 1 .. Len(x) : x[i].place > 0 => x[i].word > 0
  /\ \A i \in 1 .. Len(x), j \in 0 .. WordBits - 1 :
       x[i].place = 1 /\ i + j <= Len(x) => x[i + j].word = x[i].word
  /\ \A i, j \in 1 .. Len(x) : j < i /\ i <= Len(x) - DscByteBits /\ x[i] = NoWord => x[j] = NoWord

LEMMA BitOf ==
  ASSUME NEW s \in Seq(Nat), NEW q \in Nat, q < Len(s), NEW j \in 0 .. WordBits - 1
  PROVE  /\ WordBits * q + j + 1 \in 1 .. WordBits * Len(s)
         /\ Bits(s)[WordBits * q + j + 1] = [word |-> 1 + q, place |-> 1 + j, sym |-> s[1 + q]]
         /\ s[1 + q] \in Nat
<1>1. PICK w \in Nat : w = WordBits
  BY DscAssumption
<1>2. PICK k \in Nat : k = w * q + j + 1 /\ k - 1 = w * q + j /\ k >= 1
  BY <1>1
<1>3. (k - 1) \div w = q /\ (k - 1) % w = j
  <2>1. j \in Nat /\ j < w
    BY <1>1
  <2>2. (w * q + j) \div w = q /\ (w * q + j) % w = j
    BY <2>1, Divided
  <2> QED
    BY <1>2, <2>2
<1>4. k <= w * Len(s)
  <2>1. w * (q + 1) <= w * Len(s)
    BY AtLeast
  <2>2. w * (q + 1) = w * q + w
    OBVIOUS
  <2> QED
    BY <1>1, <1>2, <2>1, <2>2
<1>5. k \in 1 .. w * Len(s)
  BY <1>2, <1>4
<1> QED
  BY <1>1, <1>2, <1>3, <1>5 DEF Bits

\* Every bit is one of them.
LEMMA BitHas ==
  ASSUME NEW s \in Seq(Nat), NEW k \in 1 .. WordBits * Len(s)
  PROVE  \E q \in Nat, j \in 0 .. WordBits - 1 : q < Len(s) /\ k = WordBits * q + j + 1
<1>1. PICK w \in Nat : w = WordBits /\ w > 0
  BY DscAssumption
<1>2. k - 1 \in Nat
  OBVIOUS
<1>3. PICK q \in Nat, j \in 0 .. w - 1 : k - 1 = w * q + j
  <2>1. PICK n \in Nat : n = k - 1
    BY <1>2
  <2>2. n \div w \in Nat /\ n % w \in 0 .. w - 1 /\ n = w * (n \div w) + (n % w)
    BY <1>1, Dividing
  <2> QED
    BY <2>1, <2>2
<1>4. q < Len(s)
  <2> SUFFICES ASSUME Len(s) <= q PROVE FALSE
    OBVIOUS
  <2>1. w * Len(s) <= w * q
    BY AtLeast
  <2> QED
    BY <1>1, <1>3, <2>1
<1> QED
  BY <1>1, <1>3, <1>4

AirIs(x, b, s, a) ==
  /\ x \in Seq(CallBit) /\ Len(x) = b + WordBits * Len(s) + a
  /\ \A i \in 1 .. Len(x) : i <= b => x[i] = NoWord
  /\ \A k \in 1 .. WordBits * Len(s) : x[b + k] = Bits(s)[k]
  /\ \A i \in 1 .. Len(x) : i > b + WordBits * Len(s) => x[i] = NoWord

LEMMA AirBuilt ==
  ASSUME NEW s \in Seq(Nat), NEW b \in Nat, NEW a \in Nat
  PROVE  AirIs(Silence(b) \o Bits(s) \o Silence(a), b, s, a)
<1>1. PICK m \in Nat : m = WordBits * Len(s)
  BY DscAssumption
<1>2. NoWord \in CallBit
  BY DEF NoWord, CallBit
<1>3. \A n \in Nat : /\ Silence(n) \in Seq(CallBit) /\ Len(Silence(n)) = n
                     /\ \A i \in 1 .. n : Silence(n)[i] = NoWord
  BY <1>2 DEF Silence
<1>4. \A k \in 1 .. m : Bits(s)[k] \in CallBit
  <2>1. SUFFICES ASSUME NEW k \in 1 .. m PROVE Bits(s)[k] \in CallBit
    OBVIOUS
  <2>2. PICK q \in Nat, j \in 0 .. WordBits - 1 : q < Len(s) /\ k = WordBits * q + j + 1
    BY <1>1, BitHas
  <2>3. Bits(s)[k] = [word |-> 1 + q, place |-> 1 + j, sym |-> s[1 + q]] /\ s[1 + q] \in Nat
    BY <2>2, BitOf
  <2>4. 1 + q \in Nat /\ 1 + j \in Nat /\ s[1 + q] \in Int
    BY <2>3, DscAssumption
  <2> QED
    BY <2>3, <2>4 DEF CallBit
<1>5. Bits(s) \in Seq(CallBit) /\ Len(Bits(s)) = m
  <2>1. DOMAIN Bits(s) = 1 .. m /\ Bits(s) = [k \in 1 .. m |-> Bits(s)[k]]
    BY <1>1 DEF Bits
  <2>2. Bits(s) \in [1 .. m -> CallBit]
    BY <1>4, <2>1
  <2> QED
    BY <2>1, <2>2
<1>6. PICK u \in Seq(CallBit), v \in Seq(CallBit), t \in Seq(CallBit) :
        u = Silence(b) /\ v = Bits(s) /\ t = Silence(a)
  BY <1>3, <1>5
<1>7. /\ Len(u) = b /\ Len(v) = m /\ Len(t) = a
      /\ \A i \in 1 .. b : u[i] = NoWord
      /\ \A i \in 1 .. a : t[i] = NoWord
  BY <1>3, <1>5, <1>6
<1>8. PICK uv \in Seq(CallBit) : uv = u \o v /\ Len(uv) = b + m
  <2>1. u \o v \in Seq(CallBit) /\ Len(u \o v) = Len(u) + Len(v)
    BY ONLY u \in Seq(CallBit), v \in Seq(CallBit), ConcatProperties
  <2> QED
    BY <1>7, <2>1
<1>9. /\ \A i \in 1 .. b + m : uv[i] = IF i <= b THEN u[i] ELSE v[i - b]
  BY ONLY <1>7, <1>8, u \in Seq(CallBit), v \in Seq(CallBit)
<1>10. PICK x \in Seq(CallBit) : x = uv \o t /\ Len(x) = b + m + a
  <2>1. uv \o t \in Seq(CallBit) /\ Len(uv \o t) = Len(uv) + Len(t)
    BY ONLY uv \in Seq(CallBit), t \in Seq(CallBit), ConcatProperties
  <2> QED
    BY <1>7, <1>8, <2>1
<1>11. \A i \in 1 .. b + m + a : x[i] = IF i <= b + m THEN uv[i] ELSE t[i - (b + m)]
  BY ONLY <1>7, <1>8, <1>10, uv \in Seq(CallBit), t \in Seq(CallBit), a \in Nat, b \in Nat, m \in Nat
<1>12. x = Silence(b) \o Bits(s) \o Silence(a)
  BY <1>6, <1>8, <1>10
<1>13. \A i \in 1 .. Len(x) : i <= b => x[i] = NoWord
  BY <1>7, <1>9, <1>10, <1>11
<1>14. \A k \in 1 .. m : x[b + k] = Bits(s)[k]
  <2>1. SUFFICES ASSUME NEW k \in 1 .. m PROVE x[b + k] = Bits(s)[k]
    OBVIOUS
  <2>2. b + k \in 1 .. b + m + a /\ b + k <= b + m /\ b + k \in 1 .. b + m /\ ~(b + k <= b)
        /\ b + k - b = k
    OBVIOUS
  <2>3. x[b + k] = v[k]
    BY <1>9, <1>11, <2>2
  <2> QED
    BY <1>6, <2>3
<1>15. \A i \in 1 .. Len(x) : i > b + m => x[i] = NoWord
  <2>1. SUFFICES ASSUME NEW i \in 1 .. Len(x), i > b + m PROVE x[i] = NoWord
    OBVIOUS
  <2>2. i \in 1 .. b + m + a /\ ~(i <= b + m) /\ i - (b + m) \in 1 .. a
    BY <1>10, <2>1
  <2> QED
    BY <1>7, <1>11, <2>2
<1> QED
  BY <1>1, <1>10, <1>12, <1>13, <1>14, <1>15 DEF AirIs

LEMMA AirStarts ==
  ASSUME NEW s \in Seq(Nat), NEW b \in Nat, NEW a \in Nat, a <= DscByteBits, NEW x,
         AirIs(x, b, s, a)
  PROVE  AirOK(x)
<1>0. PICK w \in Nat : w = WordBits
  BY DscAssumption
<1>1. PICK m \in Nat, n \in Nat : w = WordBits /\ m = w * Len(s) /\ n = Len(x)
  <2>1. w * Len(s) \in Nat /\ Len(x) \in Nat
    BY DEF AirIs
  <2> QED
    BY <1>0, <2>1
<1>2. /\ x \in Seq(CallBit) /\ n = b + m + a
      /\ \A i \in 1 .. n : i <= b => x[i] = NoWord
      /\ \A k \in 1 .. m : x[b + k] = Bits(s)[k]
      /\ \A i \in 1 .. n : i > b + m => x[i] = NoWord
  BY <1>1 DEF AirIs
<1>3. ASSUME NEW i \in 1 .. n, x[i] # NoWord
      PROVE  \E q \in Nat, j \in 0 .. w - 1 :
               /\ i = b + (w * q + j + 1) /\ q < Len(s)
               /\ x[i] = [word |-> 1 + q, place |-> 1 + j, sym |-> s[1 + q]]
  <2>1. PICK k \in 1 .. m : i = b + k
    <3>1. i > b /\ i <= b + m
      BY <1>2, <1>3
    <3>2. i - b \in 1 .. m /\ i = b + (i - b)
      BY <3>1
    <3> QED
      BY <3>2
  <2>2. PICK q \in Nat, j \in 0 .. w - 1 : q < Len(s) /\ k = w * q + j + 1
    BY <1>1, BitHas
  <2>3. x[i] = [word |-> 1 + q, place |-> 1 + j, sym |-> s[1 + q]]
    <3>1. x[i] = Bits(s)[k]
      BY <1>2, <2>1
    <3>2. Bits(s)[WordBits * q + j + 1] = [word |-> 1 + q, place |-> 1 + j, sym |-> s[1 + q]]
      BY <1>1, <2>2, BitOf
    <3>3. k = WordBits * q + j + 1
      BY <1>1, <2>2
    <3> QED
      BY <3>1, <3>2, <3>3
  <2> QED
    BY <2>1, <2>2, <2>3
<1>4. NoWord.place = 0 /\ NoWord.word = 0
  BY DEF NoWord
<1>5. \A i \in 1 .. n : x[i].place > 0 => x[i].word > 0
  <2>1. SUFFICES ASSUME NEW i \in 1 .. n, x[i].place > 0 PROVE x[i].word > 0
    OBVIOUS
  <2>2. x[i] # NoWord
    BY <1>4, <2>1
  <2>3. PICK q \in Nat, j \in 0 .. w - 1 : x[i] = [word |-> 1 + q, place |-> 1 + j, sym |-> s[1 + q]]
    BY <1>3, <2>2
  <2>4. x[i].word = 1 + q
    BY <2>3
  <2> QED
    BY <2>4
<1>6. \A i \in 1 .. n, j \in 0 .. w - 1 :
        x[i].place = 1 /\ i + j <= n => x[i + j].word = x[i].word
  <2>1. SUFFICES ASSUME NEW i \in 1 .. n, NEW j \in 0 .. w - 1, x[i].place = 1, i + j <= n
                 PROVE  x[i + j].word = x[i].word
    OBVIOUS
  <2>2. x[i] # NoWord
    BY <1>4, <2>1
  <2>3. PICK q \in Nat, l \in 0 .. w - 1 :
          /\ i = b + (w * q + l + 1) /\ q < Len(s)
          /\ x[i] = [word |-> 1 + q, place |-> 1 + l, sym |-> s[1 + q]]
    BY <1>3, <2>2
  <2>4. l = 0 /\ x[i].word = 1 + q
    BY <1>1, <2>1, <2>3
  <2>5. PICK k \in 1 .. m : k = w * q + j + 1
    BY <1>1, <2>3, BitOf
  <2>6. i + j = b + k
    <3>1. PICK p : p = w * q
      OBVIOUS
    <3>2. i = b + (p + 0 + 1) /\ k = p + j + 1
      BY <2>3, <2>4, <2>5, <3>1
    <3>3. p \in Int /\ b \in Int /\ j \in Int
      BY <1>1, <3>1
    <3> QED
      BY ONLY <3>2, <3>3
  <2>7. x[i + j] = [word |-> 1 + q, place |-> 1 + j, sym |-> s[1 + q]]
    <3>1. x[i + j] = Bits(s)[k]
      BY <1>2, <2>5, <2>6
    <3>2. Bits(s)[WordBits * q + j + 1] = [word |-> 1 + q, place |-> 1 + j, sym |-> s[1 + q]]
      BY <1>1, <2>3, BitOf
    <3>3. k = WordBits * q + j + 1
      BY <1>1, <2>5
    <3> QED
      BY <3>1, <3>2, <3>3
  <2> QED
    BY <2>4, <2>7
<1>7. \A i, j \in 1 .. n : j < i /\ i <= n - DscByteBits /\ x[i] = NoWord => x[j] = NoWord
  <2>1. SUFFICES ASSUME NEW i \in 1 .. n, NEW j \in 1 .. n, j < i, i <= n - DscByteBits,
                        x[i] = NoWord
                 PROVE  x[j] = NoWord
    OBVIOUS
  <2>2. i <= b + m
    BY <1>2, <2>1, DscAssumption
  <2>3. i <= b
    <3> SUFFICES ASSUME i > b PROVE FALSE
      OBVIOUS
    <3>1. PICK k \in 1 .. m : i = b + k
      <4>1. i - b \in 1 .. m /\ i = b + (i - b)
        BY <2>2
      <4> QED
        BY <4>1
    <3>2. PICK q \in Nat, l \in 0 .. w - 1 : q < Len(s) /\ k = w * q + l + 1
      BY <1>1, BitHas
    <3>3. x[i] = [word |-> 1 + q, place |-> 1 + l, sym |-> s[1 + q]]
      <4>1. x[i] = Bits(s)[k]
        BY <1>2, <3>1
      <4>2. Bits(s)[WordBits * q + l + 1] = [word |-> 1 + q, place |-> 1 + l, sym |-> s[1 + q]]
        BY <1>1, <3>2, BitOf
      <4>3. k = WordBits * q + l + 1
        BY <1>1, <3>2
      <4> QED
        BY <4>1, <4>2, <4>3
    <3>4. x[i].word = 1 + q
      BY <3>3
    <3> QED
      BY <1>4, <2>1, <3>4
  <2> QED
    BY <1>2, <2>1, <2>3
<1> QED
  BY <1>1, <1>2, <1>5, <1>6, <1>7 DEF AirOK

LEMMA AirGoesOn ==
  ASSUME NEW x, AirOK(x), NEW n \in Nat
  PROVE  AirOK(SubSeq(x, n + 1, Len(x)))
<1>0. PICK y : y = SubSeq(x, n + 1, Len(x))
  OBVIOUS
<1>1. PICK l \in Nat : y = SubSeq(x, n + 1, l) /\ l = Len(x) /\ y = SubSeq(x, n + 1, Len(x))
  BY <1>0 DEF AirOK
<1>2. x \in Seq(CallBit)
  BY DEF AirOK
<1>3. CASE n >= l
  <2>1. y = <<>>
    BY <1>1, <1>2, <1>3
  <2>2. AirOK(<<>>)
    BY DEF AirOK
  <2> QED
    BY <1>1, <2>1, <2>2
<1>4. CASE n < l
  <2>1. y \in Seq(CallBit) /\ Len(y) = l - n /\ \A i \in 1 .. l - n : y[i] = x[n + i]
    <3>1. /\ SubSeq(x, n + 1, l) \in Seq(CallBit) /\ Len(SubSeq(x, n + 1, l)) = l - n
      BY <1>1, <1>2, <1>4
    <3>2. \A i \in 1 .. l - n : SubSeq(x, n + 1, l)[i] = x[n + i]
      BY <1>1, <1>2, <1>4
    <3> QED
      BY <1>1, <3>1, <3>2
  <2>2. \A i \in 1 .. l - n : n + i \in 1 .. l
    BY <1>4
  <2>3. \A i \in 1 .. l - n : y[i].place > 0 => y[i].word > 0
    BY <1>1, <2>1, <2>2 DEF AirOK
  <2>4. \A i \in 1 .. l - n, j \in 0 .. WordBits - 1 :
          y[i].place = 1 /\ i + j <= l - n => y[i + j].word = y[i].word
    <3>1. SUFFICES ASSUME NEW i \in 1 .. l - n, NEW j \in 0 .. WordBits - 1,
                          y[i].place = 1, i + j <= l - n
                   PROVE  y[i + j].word = y[i].word
      OBVIOUS
    <3>2. i + j \in 1 .. l - n /\ n + (i + j) = (n + i) + j /\ (n + i) + j <= l
      BY <1>4, <3>1, DscAssumption
    <3>3. x[(n + i) + j].word = x[n + i].word
      BY <1>1, <2>1, <2>2, <3>1, <3>2 DEF AirOK
    <3> QED
      BY <2>1, <3>2, <3>3
  <2>5. \A i, j \in 1 .. l - n : j < i /\ i <= l - n - DscByteBits /\ y[i] = NoWord => y[j] = NoWord
    <3>1. SUFFICES ASSUME NEW i \in 1 .. l - n, NEW j \in 1 .. l - n, j < i,
                          i <= l - n - DscByteBits, y[i] = NoWord
                   PROVE  y[j] = NoWord
      OBVIOUS
    <3>2. n + j < n + i /\ n + i <= l - DscByteBits
      BY <1>4, <3>1, DscAssumption
    <3>3. x[n + j] = NoWord
      BY <1>1, <2>1, <2>2, <3>1, <3>2 DEF AirOK
    <3> QED
      BY <2>1, <3>3
  <2>6. AirOK(y)
    BY <2>1, <2>3, <2>4, <2>5 DEF AirOK
  <2> QED
    BY <1>1, <2>6
<1> QED
  BY <1>1, <1>3, <1>4

\* What is emitted are the first bits of those to come.
LEMMA ChunkIs ==
  ASSUME AirOK(incoming), Chunk # <<>>
  PROVE  /\ Chunk \in Seq(CallBit) /\ Len(Chunk) <= Len(incoming)
         /\ \A i \in 1 .. Len(Chunk) : Chunk[i] = incoming[i]
<1>1. PICK l \in Nat : l = Len(incoming) /\ incoming \in Seq(CallBit)
  BY DEF AirOK
<1>2. PICK n \in Nat : /\ n = IF l < ChunkBits THEN l ELSE ChunkBits
                       /\ n <= l
  BY <1>1, DscAssumption
<1>3. PICK m \in Nat : m = DscByteBits * (n \div DscByteBits) /\ m <= n
  <2>1. PICK b \in Nat : b = DscByteBits /\ b > 0
    BY DscAssumption
  <2>2. n \div b \in Nat /\ n % b \in 0 .. b - 1 /\ n = b * (n \div b) + (n % b)
    BY <2>1, Dividing
  <2>3. PICK p \in Nat : p = b * (n \div b)
    BY <2>1, <2>2
  <2>4. n = p + (n % b)
    BY <2>2, <2>3
  <2>5. p <= n
    BY <2>1, <2>2, <2>4
  <2> QED
    BY <2>1, <2>3, <2>5
<1>4. Chunk = SubSeq(incoming, 1, m)
  BY <1>1, <1>2, <1>3 DEF Chunk
<1>5. SubSeq(incoming, 1, m) \in Seq(CallBit) /\ Len(SubSeq(incoming, 1, m)) = m
      /\ \A i \in 1 .. m : SubSeq(incoming, 1, m)[i] = incoming[i]
  BY <1>1, <1>2, <1>3
<1> QED
  BY <1>1, <1>2, <1>3, <1>4, <1>5

-----------------------------------------------------------------------------
(* The words of a call *)

\* The word bits agree on their word.
WordsGoOn(x) ==
  /\ x \in Seq(CallBit)
  /\ \A i \in 1 .. Len(x) : x[i].place > 0 => x[i].word > 0
  /\ \A i \in 1 .. Len(x), j \in 0 .. WordBits - 1 :
       x[i].place = 1 /\ i + j <= Len(x) => x[i + j].word = x[i].word

CallAt(x, s, off) ==
  /\ off \in 0 .. WordBits - 1 /\ off + WordBits * Len(s) <= Len(x)
  /\ \A i \in 1 .. Len(x) :
       off < i /\ i <= off + WordBits * Len(s) =>
         x[i].sym = s[(i - off - 1) \div WordBits + 1] /\ x[i].place = 1 + ((i - off - 1) % WordBits)
  /\ \A i \in 1 .. Len(x) : i <= off \/ i > off + WordBits * Len(s) => x[i] = NoWord

LEMMA CallIsAt ==
  ASSUME NEW x \in Seq(CallBit), NEW s \in Seq(Nat), IsCall(x, s)
  PROVE  \E off \in 0 .. WordBits - 1 : CallAt(x, s, off)
<1>1. PICK off \in 0 .. WordBits - 1 :
        /\ off + WordBits * Len(s) <= Len(x)
        /\ \A i \in DOMAIN x :
             IF off < i /\ i <= off + WordBits * Len(s)
             THEN /\ x[i].sym = s[(i - off - 1) \div WordBits + 1]
                  /\ x[i].place = 1 + ((i - off - 1) % WordBits)
             ELSE x[i] = NoWord
  BY DEF IsCall
<1>2. PICK m \in Nat : m = WordBits * Len(s)
  BY DscAssumption
<1>3. \A i \in 1 .. Len(x) : off < i /\ i <= off + m =>
         x[i].sym = s[(i - off - 1) \div WordBits + 1] /\ x[i].place = 1 + ((i - off - 1) % WordBits)
  BY <1>1, <1>2
<1>4. \A i \in 1 .. Len(x) : i <= off \/ i > off + m => x[i] = NoWord
  <2>1. \A i \in 1 .. Len(x) : i <= off \/ i > off + m => ~(off < i /\ i <= off + m)
    BY DscAssumption
  <2> QED
    BY <1>1, <1>2, <2>1
<1> QED
  BY <1>1, <1>2, <1>3, <1>4 DEF CallAt

\* The bits of the call, word by word.
LEMMA CallBits ==
  ASSUME NEW x \in Seq(CallBit), NEW s \in Seq(Nat), NEW off \in Nat, CallAt(x, s, off),
         NEW q \in Nat, q < Len(s), NEW j \in Nat, j < WordBits
  PROVE  /\ off + WordBits * q + j + 1 \in 1 .. Len(x)
         /\ x[off + WordBits * q + j + 1].sym = s[q + 1]
         /\ x[off + WordBits * q + j + 1].place = j + 1
<1>0. PICK w \in Nat : w = WordBits
  BY DscAssumption
<1>1. PICK l \in Nat : w = WordBits /\ l = Len(x)
  BY <1>0
<1>2. PICK p \in Nat : p = w * q
  OBVIOUS
<1>3. PICK m \in Nat : m = w * Len(s)
  OBVIOUS
<1>4. p + w <= m
  <2>1. w * (q + 1) <= w * Len(s)
    BY AtLeast
  <2>2. w * (q + 1) = w * q + w
    OBVIOUS
  <2> QED
    BY <1>2, <1>3, <2>1, <2>2
<1>5. PICK k \in Nat : k = off + p + j + 1
  BY <1>2
<1>6. k \in 1 .. l /\ off < k /\ k <= off + m /\ k - off - 1 = w * q + j
  <2>1. off + m <= l
    BY <1>1, <1>3 DEF CallAt
  <2>2. off + p + j + 1 <= off + m
    BY <1>1, <1>4
  <2> QED
    BY <1>2, <1>5, <2>1, <2>2
<1>7. (w * q + j) \div w = q /\ (w * q + j) % w = j
  BY <1>1, Divided
<1>8. x[k].sym = s[(k - off - 1) \div WordBits + 1] /\ x[k].place = 1 + ((k - off - 1) % WordBits)
  BY <1>1, <1>3, <1>6 DEF CallAt
<1>9. x[k].sym = s[q + 1] /\ x[k].place = 1 + j
  BY <1>1, <1>6, <1>7, <1>8
<1> QED
  BY <1>1, <1>2, <1>5, <1>6, <1>9

\* The words at an offset.
LEMMA WordsAre ==
  ASSUME NEW x \in Seq(CallBit), NEW off \in Nat, off < WordBits, off <= Len(x)
  PROVE  \E n \in Nat :
           /\ Len(Words(x, off)) = n /\ DOMAIN Words(x, off) = 1 .. n
           /\ off + WordBits * n <= Len(x) /\ Len(x) < off + WordBits * n + WordBits
           /\ \A q \in 0 .. n - 1 : \A j \in 1 .. WordBits :
                /\ off + WordBits * q + j \in 1 .. Len(x)
                /\ Words(x, off)[q + 1][j] = x[off + WordBits * q + j]
<1>1. PICK w \in Nat, l \in Nat : w = WordBits /\ l = Len(x) /\ w > 0
  BY DscAssumption
<1>2. PICK d \in Nat : d = l - off
  <2>1. l - off \in Nat
    BY <1>1
  <2> QED
    BY <2>1
<1>3. d \div w \in Nat /\ d % w \in 0 .. w - 1 /\ d = w * (d \div w) + (d % w)
  BY <1>1, Dividing
<1>4. PICK n \in Nat, r \in 0 .. w - 1 : n = d \div w /\ r = d % w
  BY <1>3
<1>5. d = w * n + r
  BY <1>3, <1>4
<1>6. Words(x, off) = [i \in 1 .. n |-> WordAt(x, off + (i - 1) * w)]
  BY <1>1, <1>2, <1>4 DEF Words
<1>7. Len(Words(x, off)) = n /\ DOMAIN Words(x, off) = 1 .. n
  <2>1. \A v : v = [i \in 1 .. n |-> WordAt(x, off + (i - 1) * w)] => Len(v) = n /\ DOMAIN v = 1 .. n
    OBVIOUS
  <2> QED
    BY <1>6, <2>1
<1>8. PICK m \in Nat : m = w * n
  OBVIOUS
<1>9. off + m <= l /\ l < off + m + w
  BY <1>1, <1>2, <1>5, <1>8
<1>10. ASSUME NEW q \in 0 .. n - 1, NEW j \in 1 .. w
       PROVE  /\ off + w * q + j \in 1 .. l
              /\ Words(x, off)[q + 1][j] = x[off + w * q + j]
  <2>1. PICK p \in Nat : p = w * q
    OBVIOUS
  <2>2. p + w <= m
    <3>1. w * (q + 1) <= w * n
      BY <1>4, AtLeast
    <3>2. w * (q + 1) = w * q + w
      OBVIOUS
    <3> QED
      BY <1>8, <2>1, <3>1, <3>2
  <2>3. q + 1 \in 1 .. n /\ off + (q + 1 - 1) * w = off + p
    <3>1. q + 1 - 1 = q /\ q * w = w * q
      OBVIOUS
    <3> QED
      BY <2>1, <3>1
  <2>4. Words(x, off)[q + 1] = WordAt(x, off + p)
    <3>1. Words(x, off)[q + 1] = WordAt(x, off + (q + 1 - 1) * w)
      BY <1>6, <2>3
    <3> QED
      BY <2>3, <3>1
  <2>5. off + p + w <= l
    BY <1>9, <2>2
  <2>6. WordAt(x, off + p) = SubSeq(x, off + p + 1, off + p + w)
    BY <1>1 DEF WordAt
  <2>7. SubSeq(x, off + p + 1, off + p + w)[j] = x[off + p + j]
    <3>1. PICK a \in Nat : a = off + p
      BY <2>1
    <3>2. a + w <= l
      BY <2>5, <3>1
    <3>3. SubSeq(x, a + 1, a + w)[j] = x[a + j]
      BY ONLY <1>1, <3>1, <3>2, x \in Seq(CallBit), j \in 1 .. w
    <3> QED
      BY <3>1, <3>3
  <2>8. off + p + j \in 1 .. l
    BY <2>5
  <2> QED
    BY <2>1, <2>4, <2>6, <2>7, <2>8
<1> QED
  BY <1>1, <1>7, <1>8, <1>9, <1>10

LEMMA WordsOfCall ==
  ASSUME NEW x, WordsGoOn(x), NEW s \in Seq(Nat), NEW off \in Nat, CallAt(x, s, off),
         NEW n \in Nat, off + WordBits * n <= Len(x), Len(x) < off + WordBits * n + WordBits,
         \A q \in 0 .. n - 1 : \A j \in 1 .. WordBits :
           /\ off + WordBits * q + j \in 1 .. Len(x)
           /\ Words(x, off)[q + 1][j] = x[off + WordBits * q + j]
  PROVE  /\ Len(s) <= n
         /\ \A q \in 0 .. n - 1 :
              IF q < Len(s)
              THEN ValidWord(Words(x, off)[q + 1]) /\ Words(x, off)[q + 1][1].sym = s[q + 1]
              ELSE ~ValidWord(Words(x, off)[q + 1])
<1>0. PICK w \in Nat : w = WordBits /\ w > 0
  BY DscAssumption
<1>1. x \in Seq(CallBit)
  BY DEF WordsGoOn
<1>2. PICK l \in Nat : l = Len(x)
  BY <1>1
<1>3. Len(s) <= n
  <2> SUFFICES ASSUME n + 1 <= Len(s) PROVE FALSE
    OBVIOUS
  <2>1. w * (n + 1) <= w * Len(s)
    <3>1. Len(s) \in Nat /\ n + 1 \in Nat
      OBVIOUS
    <3> QED
      BY ONLY <3>1, n + 1 <= Len(s), w \in Nat, AtLeast
  <2>2. PICK p \in Nat, r \in Nat : p = w * n /\ r = w * Len(s) /\ w * (n + 1) = p + w
    OBVIOUS
  <2>3. off + r <= l
    BY <1>0, <1>2, <2>2 DEF CallAt
  <2> QED
    BY <1>0, <1>2, <2>1, <2>2, <2>3
<1>4. ASSUME NEW q \in 0 .. n - 1, q < Len(s)
      PROVE  ValidWord(Words(x, off)[q + 1]) /\ Words(x, off)[q + 1][1].sym = s[q + 1]
  <2>1. PICK v : v = Words(x, off)[q + 1]
    OBVIOUS
  <2>2. PICK p \in Nat : p = off + w * q /\ p = off + WordBits * q
    BY <1>0
  <2>3. \A j \in 1 .. w : p + j \in 1 .. l /\ v[j] = x[p + j]
    BY <1>0, <1>2, <2>1, <2>2
  <2>4. ASSUME NEW j \in 1 .. w
        PROVE  v[j].sym = s[q + 1] /\ v[j].place = j
    <3>1. j - 1 \in Nat /\ j - 1 < WordBits
      BY <1>0
    <3>2. /\ x[off + WordBits * q + (j - 1) + 1].sym = s[q + 1]
          /\ x[off + WordBits * q + (j - 1) + 1].place = (j - 1) + 1
      BY <1>1, <1>4, <3>1, CallBits
    <3>3. off + WordBits * q + (j - 1) + 1 = p + j /\ (j - 1) + 1 = j
      <4>1. p + (j - 1) + 1 = p + j /\ (j - 1) + 1 = j
        BY ONLY p \in Nat, w \in Nat, j \in 1 .. w
      <4>2. p = off + WordBits * q
        BY <2>2
      <4> QED
        BY ONLY <4>1, <4>2
    <3> QED
      BY <2>3, <3>2, <3>3
  <2>5. 1 \in 1 .. w
    BY <1>0
  <2>6. x[p + 1].place = 1 /\ p + 1 \in 1 .. l
    BY <2>3, <2>4, <2>5
  <2>7. x[p + 1].word > 0
    BY <1>2, <2>6 DEF WordsGoOn
  <2>8. ASSUME NEW j \in 1 .. w
        PROVE  v[j].word = v[1].word /\ v[j].word > 0
    <3>1. j - 1 \in 0 .. WordBits - 1 /\ (p + 1) + (j - 1) = p + j
      BY <1>0
    <3>4. (p + 1) + (j - 1) <= Len(x) /\ p + 1 \in 1 .. Len(x)
      <4>1. p + j \in 1 .. l /\ p + 1 \in 1 .. l
        BY <2>3, <2>6
      <4> QED
        BY ONLY <1>2, <3>1, <4>1, p \in Nat, l \in Nat, w \in Nat, j \in 1 .. w
    <3>5. \A i \in 1 .. Len(x), k \in 0 .. WordBits - 1 :
            x[i].place = 1 /\ i + k <= Len(x) => x[i + k].word = x[i].word
      BY DEF WordsGoOn
    <3>2. x[(p + 1) + (j - 1)].word = x[p + 1].word
      BY ONLY <2>6, <3>1, <3>4, <3>5
    <3> QED
      BY <2>3, <2>5, <2>7, <3>1, <3>2
  <2>9. ValidWord(v)
    BY <1>0, <2>4, <2>8 DEF ValidWord
  <2> QED
    BY <2>1, <2>4, <2>5, <2>9
<1>5. ASSUME NEW q \in 0 .. n - 1, ~(q < Len(s))
      PROVE  ~ValidWord(Words(x, off)[q + 1])
  <2>1. PICK v : v = Words(x, off)[q + 1]
    OBVIOUS
  <2>2. PICK p \in Nat : p = off + w * q /\ p = off + WordBits * q
    BY <1>0
  <2>3. 1 \in 1 .. WordBits
    BY <1>0
  <2>4. p + 1 \in 1 .. l /\ v[1] = x[p + 1]
    BY <1>2, <2>1, <2>2, <2>3
  <2>5. w * Len(s) <= w * q
    <3>1. Len(s) \in Nat /\ q \in Nat /\ Len(s) <= q
      BY <1>5
    <3> QED
      BY ONLY <3>1, w \in Nat, AtLeast
  <2>6. p + 1 > off + WordBits * Len(s)
    <3>1. PICK a \in Nat, b \in Nat : a = w * q /\ b = w * Len(s)
      OBVIOUS
    <3> QED
      BY <1>0, <2>2, <2>5, <3>1
  <2>7. v[1] = NoWord
    BY <1>2, <2>4, <2>6 DEF CallAt
  <2>8. v[1].place # 1
    BY <2>7 DEF NoWord
  <2> QED
    BY <2>1, <2>3, <2>8 DEF ValidWord
<1> QED
  BY <1>3, <1>4, <1>5

LEMMA NoWordsBeside ==
  ASSUME NEW x \in Seq(CallBit), NEW s \in Seq(Nat), NEW off \in 0 .. WordBits - 1, CallAt(x, s, off),
         NEW o \in 0 .. WordBits - 1, o # off, NEW q \in Nat, o + WordBits * q + 1 \in 1 .. Len(x)
  PROVE  x[o + WordBits * q + 1].place # 1
<1>0. PICK w \in Nat : w = WordBits /\ w > 0
  BY DscAssumption
<1>1. PICK l \in Nat : l = Len(x)
  OBVIOUS
<1>2. PICK p \in Nat : p = w * q
  OBVIOUS
<1>3. PICK m \in Nat : m = w * Len(s)
  OBVIOUS
<1>4. PICK i \in 1 .. l : i = o + p + 1 /\ i = o + WordBits * q + 1
  BY <1>0, <1>1, <1>2
<1>5. CASE i <= off \/ i > off + m
  <2>1. x[i] = NoWord
    BY <1>0, <1>1, <1>3, <1>5 DEF CallAt
  <2> QED
    BY <1>4, <2>1 DEF NoWord
<1>6. CASE off < i /\ i <= off + m
  <2>1. x[i].place = 1 + ((i - off - 1) % w)
    BY <1>0, <1>1, <1>3, <1>6 DEF CallAt
  <2>2. CASE off < o
    <3>1. PICK j \in Nat : j = o - off /\ j < w /\ j > 0
      <4>1. o - off \in Nat
        BY <1>0, <2>2
      <4> QED
        BY <1>0, <2>2, <4>1
    <3>2. i - off - 1 = w * q + j
      BY <1>0, <1>2, <1>4, <3>1
    <3>3. (w * q + j) % w = j
      BY <3>1, Divided
    <3>4. (i - off - 1) % w = j
      BY <3>2, <3>3
    <3>5. x[i].place # 1
      BY <2>1, <3>1, <3>4
    <3> QED
      BY <1>4, <3>5
  <2>3. CASE o < off
    <3>1. q > 0
      <4> SUFFICES ASSUME q = 0 PROVE FALSE
        OBVIOUS
      <4>1. p = 0
        BY <1>2
      <4> QED
        BY <1>0, <1>4, <1>6, <2>3, <4>1
    <3>2. PICK r \in Nat : q = r + 1
      <4>1. q - 1 \in Nat /\ q = (q - 1) + 1
        BY <3>1
      <4> QED
        BY <4>1
    <3>3. w * q = w * r + w
      BY <3>2
    <3>4. PICK j \in Nat : j = w + o - off /\ j < w /\ j > 0
      <4>1. w + o - off \in Nat
        BY <1>0, <2>3
      <4> QED
        BY <1>0, <2>3, <4>1
    <3>5. PICK u \in Nat : u = w * r
      OBVIOUS
    <3>6. i - off - 1 = u + j
      BY <1>0, <1>2, <1>4, <3>3, <3>4, <3>5
    <3>7. (w * r + j) % w = j
      BY <3>4, Divided
    <3>8. (i - off - 1) % w = j
      BY <3>5, <3>6, <3>7
    <3>9. x[i].place # 1
      BY <2>1, <3>4, <3>8
    <3> QED
      BY <1>4, <3>9
  <2> QED
    BY <1>0, <2>2, <2>3
<1> QED
  BY <1>0, <1>1, <1>3, <1>4, <1>5, <1>6

-----------------------------------------------------------------------------
(* The symbols of the words *)

Keep(t, v) == IF ValidWord(v) THEN Append(t, v[1].sym) ELSE t

KeptSteps(g, n, words) ==
  /\ DOMAIN g = 0 .. n
  /\ \A m \in 0 .. n : g[m] = IF m = 0 THEN <<>> ELSE Keep(g[m - 1], words[m])

LEMMA KeptExists ==
  ASSUME NEW len \in Nat, NEW words
  PROVE  \E g : KeptSteps(g, len, words)
<1> DEFINE Bad == {n \in Nat : ~\E g : KeptSteps(g, n, words)}
<1> SUFFICES ASSUME Bad # {} PROVE FALSE
  OBVIOUS
<1>1. PICK n \in Bad : \A m \in Bad : n <= m
  <2>1. Bad \subseteq Nat
    OBVIOUS
  <2> HIDE DEF Bad
  <2> QED
    BY <2>1, LeastNat
<1>2. n \in Nat /\ ~\E g : KeptSteps(g, n, words)
  OBVIOUS
<1>3. CASE n = 0
  <2>1. KeptSteps([m \in 0 .. 0 |-> <<>>], 0, words)
    BY DEF KeptSteps
  <2> QED
    BY <1>2, <1>3, <2>1
<1>4. CASE n > 0
  <2>1. n - 1 \in Nat /\ n - 1 \notin Bad
    BY <1>1, <1>2, <1>4
  <2>2. PICK h : KeptSteps(h, n - 1, words)
    BY <2>1
  <2>3. PICK last : last = Keep(h[n - 1], words[n])
    OBVIOUS
  <2> DEFINE g == [m \in 0 .. n |-> IF m = n THEN last ELSE h[m]]
  <2>4. \A m \in 0 .. n : m = n \/ m \in 0 .. n - 1
    BY <1>2
  <2>5. \A m \in 0 .. n - 1 : g[m] = h[m] /\ m \in 0 .. n
    BY <1>2
  <2>6. g[n] = last /\ n - 1 \in 0 .. n - 1
    BY <1>2, <1>4
  <2>7. DOMAIN g = 0 .. n
    OBVIOUS
  <2> HIDE DEF g
  <2>8. ASSUME NEW m \in 0 .. n
        PROVE  g[m] = IF m = 0 THEN <<>> ELSE Keep(g[m - 1], words[m])
    <3>1. CASE m = n
      BY <1>4, <2>3, <2>5, <2>6, <3>1
    <3>2. CASE m \in 0 .. n - 1 /\ m = 0
      BY <2>2, <2>5, <3>2 DEF KeptSteps
    <3>3. CASE m \in 0 .. n - 1 /\ m # 0
      <4>1. m - 1 \in 0 .. n - 1
        BY <1>2, <3>3
      <4> QED
        BY <2>2, <2>5, <3>3, <4>1 DEF KeptSteps
    <3> QED
      BY <2>4, <3>1, <3>2, <3>3
  <2>9. KeptSteps(g, n, words)
    BY <2>7, <2>8 DEF KeptSteps
  <2> QED
    BY <1>2, <2>9
<1> QED
  BY <1>2, <1>3, <1>4

LEMMA KeptRuns ==
  ASSUME NEW x, NEW off, Len(Words(x, off)) \in Nat
  PROVE  \E g : /\ KeptSteps(g, Len(Words(x, off)), Words(x, off))
                /\ Symbols(x, off) = g[Len(Words(x, off))]
<1>0. PICK words : words = Words(x, off)
  OBVIOUS
<1>00. PICK n \in Nat : n = Len(words)
  BY <1>0
<1>1. PICK g : KeptSteps(g, n, words)
  BY KeptExists
<1> DEFINE Unfolds(h) == h = [m \in 0 .. n |->
             IF m = 0 THEN <<>>
             ELSE IF ValidWord(words[m]) THEN Append(h[m - 1], words[m][1].sym) ELSE h[m - 1]]
           f == [m \in 0 .. n |-> g[m]]
           e == CHOOSE h : Unfolds(h)
<1>2. Unfolds(f)
  <2>1. \A m \in 0 .. n : m # 0 => m - 1 \in 0 .. n
    OBVIOUS
  <2>2. \A m \in 0 .. n : f[m] = IF m = 0 THEN <<>>
             ELSE IF ValidWord(words[m]) THEN Append(f[m - 1], words[m][1].sym) ELSE f[m - 1]
    BY <1>1, <2>1 DEF KeptSteps, Keep
  <2>3. f = [m \in 0 .. n |-> f[m]]
    OBVIOUS
  <2> HIDE DEF f
  <2> QED
    BY <2>2, <2>3
<1>3. Unfolds(e)
  BY <1>2
<1>4. Symbols(x, off) = e[n]
  BY <1>0, <1>00 DEF Symbols
<1> HIDE DEF e
<1>5. KeptSteps(e, n, words)
  BY <1>3 DEF KeptSteps, Keep
<1> QED
  BY <1>0, <1>00, <1>4, <1>5

\* If the valid words stand in front, their symbols are what is kept.
KeptIs(t, m, s) ==
  /\ t \in Seq(Nat) /\ Len(t) = IF m < Len(s) THEN m ELSE Len(s)
  /\ \A i \in 1 .. Len(t) : t[i] = s[i]

LEMMA KeptInFront ==
  ASSUME NEW s \in Seq(Nat), NEW words, NEW n \in Nat, Len(s) <= n,
         \A q \in 0 .. n - 1 : IF q < Len(s) THEN ValidWord(words[q + 1]) /\ words[q + 1][1].sym = s[q + 1]
                               ELSE ~ValidWord(words[q + 1]),
         NEW g, KeptSteps(g, n, words)
  PROVE  g[n] = s
<1> DEFINE Bad == {m \in 0 .. n : ~KeptIs(g[m], m, s)}
<1>1. Bad = {}
  <2> SUFFICES ASSUME Bad # {} PROVE FALSE
    OBVIOUS
  <2>1. PICK m \in Bad : \A k \in Bad : m <= k
    <3>1. Bad \subseteq Nat
      OBVIOUS
    <3> HIDE DEF Bad
    <3> QED
      BY <3>1, LeastNat
  <2>2. m \in 0 .. n /\ ~KeptIs(g[m], m, s)
    OBVIOUS
  <2>3. CASE m = 0
    <3>1. g[0] = <<>>
      BY <2>2, <2>3 DEF KeptSteps
    <3>2. KeptIs(<<>>, 0, s)
      BY DEF KeptIs
    <3> QED
      BY <2>2, <2>3, <3>1, <3>2
  <2>4. CASE m > 0
    <3>1. PICK k \in Nat : k = m - 1 /\ m = k + 1
      <4>1. m - 1 \in Nat /\ m = (m - 1) + 1
        BY <2>2, <2>4
      <4> QED
        BY <4>1
    <3>2. k \in 0 .. n - 1 /\ k \in 0 .. n /\ ~(m <= k)
      BY <2>2, <3>1
    <3>3. KeptIs(g[k], k, s)
      BY <2>1, <3>2
    <3>4. g[m] = Keep(g[k], words[m])
      BY <2>2, <2>4, <3>1 DEF KeptSteps
    <3>5. CASE k < Len(s)
      <4>1. ValidWord(words[k + 1]) /\ words[k + 1][1].sym = s[k + 1]
        BY <3>2, <3>5
      <4>2. g[m] = Append(g[k], s[m])
        BY <3>1, <3>4, <4>1 DEF Keep
      <4>3. g[k] \in Seq(Nat) /\ Len(g[k]) = k /\ \A i \in 1 .. k : g[k][i] = s[i]
        BY <3>3, <3>5 DEF KeptIs
      <4>4. s[m] \in Nat /\ m <= Len(s)
        BY <2>2, <2>4, <3>1, <3>5
      <4>5. g[m] \in Seq(Nat) /\ Len(g[m]) = m
        BY <3>1, <4>2, <4>3, <4>4
      <4>6. ASSUME NEW i \in 1 .. m PROVE g[m][i] = s[i]
        <5>1. PICK x \in Seq(Nat), v \in Nat : x = g[k] /\ v = s[m] /\ Len(x) = k
          BY <4>3, <4>4
        <5>2. Append(x, v)[k + 1] = v /\ \A j \in 1 .. k : Append(x, v)[j] = x[j]
          BY <5>1, AppendProperties
        <5>3. g[m] = Append(x, v) /\ \A j \in 1 .. k : x[j] = s[j]
          BY <4>2, <4>3, <5>1
        <5>4. CASE i = k + 1
          BY <3>1, <5>1, <5>2, <5>3, <5>4
        <5>5. CASE i \in 1 .. k
          BY <5>2, <5>3, <5>5
        <5>6. i \in 1 .. k \/ i = k + 1
          BY <3>1
        <5> QED
          BY <5>4, <5>5, <5>6
      <4> QED
        BY <2>2, <4>4, <4>5, <4>6 DEF KeptIs
    <3>6. CASE ~(k < Len(s))
      <4>1. ~ValidWord(words[k + 1])
        BY <3>2, <3>6
      <4>2. g[m] = g[k]
        BY <3>1, <3>4, <4>1 DEF Keep
      <4>3. ~(m < Len(s))
        BY <3>1, <3>6
      <4> QED
        BY <2>2, <3>3, <3>6, <4>2, <4>3 DEF KeptIs
    <3> QED
      BY <3>5, <3>6
  <2> QED
    BY <2>2, <2>3, <2>4
<1>2. KeptIs(g[n], n, s)
  <2>1. n \in 0 .. n
    OBVIOUS
  <2> QED
    BY <1>1, <2>1
<1>3. g[n] \in Seq(Nat) /\ Len(g[n]) = Len(s) /\ \A i \in 1 .. Len(s) : g[n][i] = s[i]
  BY <1>2 DEF KeptIs
<1> QED
  BY <1>3, SeqEqual

LEMMA CallRead ==
  ASSUME NEW x, WordsGoOn(x), NEW s \in Seq(Nat), Len(s) > 0,
         NEW off \in 0 .. WordBits - 1, CallAt(x, s, off)
  PROVE  /\ Symbols(x, off) = s
         /\ \E n \in Nat : /\ Len(Words(x, off)) = n /\ Len(s) <= n
                           /\ off + WordBits * n <= Len(x)
         /\ \A o \in 0 .. WordBits - 1 : o # off => Symbols(x, o) = <<>>
<1>1. PICK w \in Nat : w = WordBits /\ w > 0
  BY DscAssumption
<1>2. x \in Seq(CallBit) /\ off \in Nat
  BY <1>1 DEF WordsGoOn
<1>3. PICK l \in Nat : l = Len(x)
  BY <1>2
<1>4. w <= l
  <2>1. w * 1 <= w * Len(s)
    <3>1. 1 <= Len(s) /\ Len(s) \in Nat
      OBVIOUS
    <3> QED
      BY ONLY <3>1, w \in Nat, AtLeast
  <2>2. PICK m \in Nat : m = w * Len(s) /\ w * 1 = w
    OBVIOUS
  <2>3. off + m <= l
    BY <1>1, <1>3, <2>2 DEF CallAt
  <2> QED
    BY <1>2, <2>1, <2>2, <2>3
<1>5. Symbols(x, off) = s /\ \E n \in Nat : /\ Len(Words(x, off)) = n /\ Len(s) <= n
                                            /\ off + WordBits * n <= Len(x)
  <2>1. off < WordBits /\ off <= Len(x)
    BY <1>1, <1>2, <1>3, <1>4
  <2>2. PICK n \in Nat :
           /\ Len(Words(x, off)) = n /\ DOMAIN Words(x, off) = 1 .. n
           /\ off + WordBits * n <= Len(x) /\ Len(x) < off + WordBits * n + WordBits
           /\ \A q \in 0 .. n - 1 : \A j \in 1 .. WordBits :
                /\ off + WordBits * q + j \in 1 .. Len(x)
                /\ Words(x, off)[q + 1][j] = x[off + WordBits * q + j]
    BY <1>2, <2>1, WordsAre
  <2>3. /\ Len(s) <= n
        /\ \A q \in 0 .. n - 1 :
             IF q < Len(s)
             THEN ValidWord(Words(x, off)[q + 1]) /\ Words(x, off)[q + 1][1].sym = s[q + 1]
             ELSE ~ValidWord(Words(x, off)[q + 1])
    BY <1>2, <2>2, WordsOfCall
  <2>4. PICK words : words = Words(x, off)
    OBVIOUS
  <2>5. PICK g : KeptSteps(g, n, words) /\ Symbols(x, off) = g[n]
    BY <2>2, <2>4, KeptRuns
  <2>6. \A q \in 0 .. n - 1 : IF q < Len(s) THEN ValidWord(words[q + 1]) /\ words[q + 1][1].sym = s[q + 1]
                              ELSE ~ValidWord(words[q + 1])
    BY <2>3, <2>4
  <2>7. g[n] = s
    BY <2>3, <2>5, <2>6, KeptInFront
  <2> QED
    BY <2>2, <2>3, <2>5, <2>7
<1>6. ASSUME NEW o \in 0 .. WordBits - 1, o # off
      PROVE  Symbols(x, o) = <<>>
  <2>1. o \in Nat /\ o < WordBits /\ o <= Len(x)
    BY <1>1, <1>3, <1>4
  <2>2. PICK n \in Nat :
           /\ Len(Words(x, o)) = n /\ DOMAIN Words(x, o) = 1 .. n
           /\ o + WordBits * n <= Len(x) /\ Len(x) < o + WordBits * n + WordBits
           /\ \A q \in 0 .. n - 1 : \A j \in 1 .. WordBits :
                /\ o + WordBits * q + j \in 1 .. Len(x)
                /\ Words(x, o)[q + 1][j] = x[o + WordBits * q + j]
    BY <1>2, <2>1, WordsAre
  <2>3. ASSUME NEW q \in 0 .. n - 1
        PROVE  ~ValidWord(Words(x, o)[q + 1])
    <3>1. 1 \in 1 .. WordBits /\ q \in Nat
      BY <1>1
    <3>2. /\ o + WordBits * q + 1 \in 1 .. Len(x)
          /\ Words(x, o)[q + 1][1] = x[o + WordBits * q + 1]
      BY <2>2, <3>1
    <3>3. x[o + WordBits * q + 1].place # 1
      BY <1>2, <1>6, <3>1, <3>2, NoWordsBeside
    <3> QED
      BY <3>1, <3>2, <3>3 DEF ValidWord
  <2>4. PICK words : words = Words(x, o)
    OBVIOUS
  <2>5. PICK g : KeptSteps(g, n, words) /\ Symbols(x, o) = g[n]
    BY <2>2, <2>4, KeptRuns
  <2>6. PICK e \in Seq(Nat) : e = <<>> /\ Len(e) = 0
    <3>1. <<>> \in Seq(Nat) /\ Len(<<>>) = 0
      OBVIOUS
    <3> QED
      BY ONLY <3>1
  <2>7. \A q \in 0 .. n - 1 : IF q < Len(e) THEN ValidWord(words[q + 1]) /\ words[q + 1][1].sym = e[q + 1]
                              ELSE ~ValidWord(words[q + 1])
    <3>1. \A q \in 0 .. n - 1 : ~(q < Len(e))
      BY <2>6
    <3>2. \A q \in 0 .. n - 1 : ~ValidWord(words[q + 1])
      BY <2>3, <2>4
    <3> QED
      BY ONLY <3>1, <3>2
  <2>8. g[n] = e
    <3>1. Len(e) <= n
      BY <2>6
    <3> QED
      BY <2>5, <2>7, <3>1, KeptInFront
  <2> QED
    BY <2>5, <2>6, <2>8
<1> QED
  BY <1>5, <1>6

\* What holds at a and goes on to the next holds as far as it goes on.
LEMMA Upwards ==
  ASSUME NEW a \in Nat, NEW b \in Nat, NEW T, a \in T,
         \A n \in a .. b : n < b /\ n \in T => n + 1 \in T
  PROVE  \A n \in a .. b : n \in T
<1> DEFINE Bad == {n \in a .. b : n \notin T}
<1> SUFFICES ASSUME Bad # {} PROVE FALSE
  OBVIOUS
<1>1. PICK m \in Bad : \A n \in Bad : m <= n
  <2>1. Bad \subseteq Nat
    OBVIOUS
  <2> HIDE DEF Bad
  <2> QED
    BY <2>1, LeastNat
<1>2. m \in a .. b /\ m \notin T /\ m # a
  OBVIOUS
<1>3. PICK k \in a .. b : m = k + 1 /\ k < b
  <2>1. m - 1 \in a .. b /\ m = (m - 1) + 1 /\ m - 1 < b
    BY <1>2
  <2> QED
    BY <2>1
<1>4. k \in T
  <2>1. ~(m <= k)
    BY <1>3
  <2> QED
    BY <1>1, <1>3, <2>1
<1> QED
  BY <1>2, <1>3, <1>4

LEMMA SymbolsAre ==
  ASSUME NEW x, Len(x) \in Nat, NEW off \in Int
  PROVE  Len(Words(x, off)) \in Nat /\ \E S : Symbols(x, off) \in Seq(S)
<1>1. PICK k \in Int : k = (Len(x) - off) \div WordBits
  <2>1. PICK d \in Int, w \in Nat \ {0} : d = Len(x) - off /\ w = WordBits
    BY DscAssumption
  <2>2. d \div w \in Int
    OBVIOUS
  <2> QED
    BY <2>1, <2>2
<1>2. PICK n \in Nat : 1 .. n = 1 .. k
  <2>1. CASE k \in Nat
    BY <2>1
  <2>2. CASE k \notin Nat
    <3>1. 1 .. 0 = 1 .. k
      BY <2>2
    <3> QED
      BY <3>1
  <2> QED
    BY <2>1, <2>2
<1>3. Words(x, off) = [i \in 1 .. n |-> WordAt(x, off + (i - 1) * WordBits)]
  BY <1>1, <1>2 DEF Words
<1>4. Len(Words(x, off)) = n
  <2>1. \A v : v = [i \in 1 .. n |-> WordAt(x, off + (i - 1) * WordBits)] => Len(v) = n
    OBVIOUS
  <2> QED
    BY <1>3, <2>1
<1>5. PICK words, g : /\ words = Words(x, off) /\ KeptSteps(g, n, words)
                      /\ Symbols(x, off) = g[n]
  BY <1>4, KeptRuns
<1> DEFINE S == {words[m][1].sym : m \in 1 .. n}
           T == {m \in 0 .. n : g[m] \in Seq(S)}
<1>6. 0 \in T
  <2>1. 0 \in 0 .. n
    OBVIOUS
  <2>2. g[0] = <<>>
    BY <1>5, <2>1 DEF KeptSteps
  <2> HIDE DEF S
  <2>3. <<>> \in Seq(S)
    OBVIOUS
  <2> QED
    BY <2>1, <2>2, <2>3
<1>7. ASSUME NEW m \in 0 .. n, m < n, m \in T
      PROVE  m + 1 \in T
  <2>1. m + 1 \in 1 .. n /\ m + 1 \in 0 .. n /\ m + 1 # 0 /\ (m + 1) - 1 = m
    BY <1>7
  <2>2. g[m + 1] = Keep(g[m], words[m + 1])
    BY <1>5, <2>1 DEF KeptSteps
  <2>3. words[m + 1][1].sym \in S /\ g[m] \in Seq(S)
    BY <1>7, <2>1
  <2> HIDE DEF S
  <2>4. g[m + 1] \in Seq(S)
    BY <2>2, <2>3 DEF Keep
  <2> QED
    BY <2>1, <2>4
<1> HIDE DEF S
<1>8. n \in T
  <2> HIDE DEF T
  <2>1. 0 \in Nat /\ n \in 0 .. n
    OBVIOUS
  <2> QED
    BY ONLY <1>6, <1>7, <2>1, n \in Nat, Upwards
<1> QED
  BY <1>4, <1>5, <1>8

\* Whatever the bits are, one of the offsets is the best.
LEMMA BestIsThere ==
  ASSUME NEW x, Len(x) \in Nat
  PROVE  BestOffset(x) \in 0 .. WordBits - 1
<1> DEFINE score(o) == [off |-> o, valid |-> Len(Symbols(x, o)), total |-> Len(Words(x, o))]
           Upto(m) == {score(o) : o \in 0 .. m}
           Better(y, z) == \/ y.valid > z.valid
                           \/ y.valid = z.valid /\ y.total > z.total
                           \/ y.valid = z.valid /\ y.total = z.total /\ y.off < z.off
           Best(m) == \E y \in Upto(m) : \A z \in Upto(m) \ {y} : Better(y, z)
<1>1. PICK w \in Nat : w = WordBits - 1
  BY DscAssumption
<1>2. ASSUME NEW o \in Nat
      PROVE  score(o).off = o /\ score(o).valid \in Nat /\ score(o).total \in Nat
  <2>1. Len(Words(x, o)) \in Nat /\ \E S : Symbols(x, o) \in Seq(S)
    BY SymbolsAre
  <2>2. Len(Symbols(x, o)) \in Nat
    BY <2>1
  <2> QED
    BY <2>1, <2>2
<1> HIDE DEF score
<1> DEFINE T == {m \in 0 .. w : Best(m)}
<1>3. 0 \in T
  <2>1. \A o \in 0 .. 0 : o = 0
    OBVIOUS
  <2>2. score(0) \in Upto(0) /\ \A z \in Upto(0) : z = score(0)
    <3>1. 0 \in 0 .. 0
      OBVIOUS
    <3> QED
      BY <2>1, <3>1
  <2>3. Best(0)
    <3> HIDE DEF Upto, Better
    <3>1. \A z \in Upto(0) \ {score(0)} : Better(score(0), z)
      BY <2>2
    <3> QED
      BY <2>2, <3>1
  <2>4. 0 \in 0 .. w
    BY <1>1
  <2> HIDE DEF Best
  <2> QED
    BY <2>3, <2>4
<1>4. ASSUME NEW m \in 0 .. w, m < w, m \in T
      PROVE  m + 1 \in T
  <2>1. PICK y \in Upto(m) : \A z \in Upto(m) \ {y} : Better(y, z)
    BY <1>4
  <2>2. PICK o \in 0 .. m : y = score(o)
    BY <2>1
  <2>3. m + 1 \in 0 .. w /\ m + 1 \in Nat /\ o \in Nat /\ o \in 0 .. m + 1 /\ o < m + 1
    BY <1>4
  <2>4. PICK c : c = score(m + 1)
    OBVIOUS
  <2>5. /\ y.off \in Nat /\ y.valid \in Nat /\ y.total \in Nat
        /\ c.off \in Nat /\ c.valid \in Nat /\ c.total \in Nat /\ y.off < c.off
    BY <1>2, <2>2, <2>3, <2>4
  <2>6. \A z \in Upto(m + 1) : z = c \/ z \in Upto(m)
    <3>1. \A q \in 0 .. m + 1 : q = m + 1 \/ q \in 0 .. m
      BY <2>3
    <3> QED
      BY <2>4, <3>1
  <2>7. c \in Upto(m + 1) /\ y \in Upto(m + 1)
    <3>1. m + 1 \in 0 .. m + 1
      BY <2>3
    <3> QED
      BY <2>2, <2>3, <2>4, <3>1
  <2>8. \A z \in Upto(m) : z.off \in Nat /\ z.valid \in Nat /\ z.total \in Nat
    BY <1>2
  <2> HIDE DEF Upto
  <2>9. Better(y, c) \/ Better(c, y)
    BY <2>5
  <2>10. CASE Better(y, c)
    <3>1. \A z \in Upto(m + 1) \ {y} : Better(y, z)
      BY <2>1, <2>6, <2>10
    <3>2. Best(m + 1)
      BY <2>7, <3>1
    <3> QED
      BY <2>3, <3>2
  <2>11. CASE Better(c, y)
    <3>1. \A z \in Upto(m) : z = y \/ Better(y, z)
      BY <2>1
    <3>2. \A z \in Upto(m) : Better(c, z)
      BY <2>5, <2>8, <2>11, <3>1
    <3>3. \A z \in Upto(m + 1) \ {c} : Better(c, z)
      BY <2>6, <3>2
    <3>4. Best(m + 1)
      BY <2>7, <3>3
    <3> QED
      BY <2>3, <3>4
  <2> QED
    BY <2>9, <2>10, <2>11
<1>5. Best(w)
  <2> HIDE DEF Best
  <2>1. 0 \in Nat /\ w \in 0 .. w
    OBVIOUS
  <2>2. w \in T
    <3> HIDE DEF T
    <3> QED
      BY ONLY <1>3, <1>4, <2>1, w \in Nat, Upwards
  <2> QED
    BY <2>2
<1>6. BestOffset(x) = (CHOOSE y \in Upto(w) : \A z \in Upto(w) \ {y} : Better(y, z)).off
  BY <1>1 DEF BestOffset, score
<1>7. (CHOOSE y \in Upto(w) : \A z \in Upto(w) \ {y} : Better(y, z)) \in Upto(w)
  <2> HIDE DEF Upto, Better
  <2> QED
    BY <1>5
<1>8. ASSUME NEW y \in Upto(w)
      PROVE  y.off \in 0 .. w
  <2>1. PICK o \in 0 .. w : y = score(o)
    OBVIOUS
  <2>2. score(o).off = o
    BY <1>2
  <2> QED
    BY <2>1, <2>2
<1>9. PICK y \in Upto(w) : BestOffset(x) = y.off
  <2> HIDE DEF Upto, Better
  <2> QED
    BY <1>6, <1>7
<1>10. y.off \in 0 .. w
  BY <1>8
<1> QED
  BY <1>1, <1>9, <1>10

LEMMA OffsetFound ==
  ASSUME NEW x, WordsGoOn(x), NEW s \in Seq(Nat), Len(s) > 0,
         NEW off \in 0 .. WordBits - 1, CallAt(x, s, off)
  PROVE  BestOffset(x) = off
<1> DEFINE score(o) == [off |-> o, valid |-> Len(Symbols(x, o)), total |-> Len(Words(x, o))]
           scores == {score(o) : o \in 0 .. WordBits - 1}
           Better(y, z) == \/ y.valid > z.valid
                           \/ y.valid = z.valid /\ y.total > z.total
                           \/ y.valid = z.valid /\ y.total = z.total /\ y.off < z.off
<1>1. BestOffset(x) = (CHOOSE y \in scores : \A z \in scores \ {y} : Better(y, z)).off
  BY DEF BestOffset
<1>2. score(off) \in scores /\ score(off).valid = Len(s) /\ score(off).off = off
  BY CallRead
<1>3. \A z \in scores : z # score(off) => z.valid = 0
  BY CallRead
<1>4. \A z \in scores : z.off # off \/ z = score(off)
  OBVIOUS
<1>5. Len(s) \in Nat
  OBVIOUS
<1> HIDE DEF scores, score
<1>6. \A z \in scores \ {score(off)} : Better(score(off), z)
  BY <1>2, <1>3, <1>5
<1>7. \A y \in scores : (\A z \in scores \ {y} : Better(y, z)) => y = score(off)
  <2>1. SUFFICES ASSUME NEW y \in scores, \A z \in scores \ {y} : Better(y, z), y # score(off)
                 PROVE  FALSE
    OBVIOUS
  <2>2. Better(y, score(off))
    BY <1>2, <2>1
  <2>3. y.valid = 0
    BY <1>3, <2>1
  <2> QED
    BY <1>2, <1>5, <2>2, <2>3
<1>8. (CHOOSE y \in scores : \A z \in scores \ {y} : Better(y, z)) = score(off)
  BY <1>2, <1>6, <1>7
<1> QED
  BY <1>1, <1>2, <1>8

-----------------------------------------------------------------------------
(* The end of a call *)

LEMMA Greatest ==
  ASSUME NEW n \in Nat, NEW T, T \subseteq 1 .. n, T # {}
  PROVE  Max(T) \in T /\ \A i \in T : i <= Max(T)
<1> DEFINE D == {n - i : i \in T}
<1>1. D \subseteq Nat /\ D # {}
  <2>1. \A i \in T : n - i \in Nat
    <3>1. \A i \in 1 .. n : n - i \in Nat
      OBVIOUS
    <3> QED
      BY <3>1
  <2> QED
    BY <2>1
<1>2. PICK d \in D : \A y \in D : d <= y
  <2> HIDE DEF D
  <2> QED
    BY <1>1, LeastNat
<1>3. PICK i \in T : d = n - i
  OBVIOUS
<1>4. ASSUME NEW j \in T PROVE i >= j
  <2>1. n - i <= n - j
    BY <1>2, <1>3
  <2> QED
    BY <2>1
<1>5. \E x \in T : \A y \in T : x >= y
  BY <1>4
<1>6. Max(T) \in T /\ \A y \in T : Max(T) >= y
  BY <1>5 DEF Max
<1> QED
  BY <1>6

LEMMA EndFound ==
  ASSUME NEW S, NEW s \in Seq(S), \E i \in 1 .. Len(s) : s[i] \in EndSymbols
  PROVE  /\ EosIdx(s) \in 1 .. Len(s) /\ s[EosIdx(s)] \in EndSymbols
         /\ \A i \in 1 .. Len(s) : i > EosIdx(s) => s[i] \notin EndSymbols
<1> DEFINE T == {i \in 1 .. Len(s) : s[i] \in EndSymbols}
<1>1. EosIdx(s) = Max(T)
  BY DEF EosIdx, SelectLastInSeq
<1>2. T # {} /\ T \subseteq 1 .. Len(s) /\ Len(s) \in Nat
  OBVIOUS
<1>3. Max(T) \in T /\ \A i \in T : i <= Max(T)
  <2> HIDE DEF T
  <2> QED
    BY <1>2, Greatest
<1>4. \A i \in 1 .. Len(s) : i > Max(T) => i \notin T
  <2> HIDE DEF T
  <2>1. Max(T) \in 1 .. Len(s)
    BY <1>2, <1>3
  <2> QED
    BY <1>2, <1>3, <2>1
<1> QED
  BY <1>1, <1>3, <1>4

\* Counted from the last end on, it always stands there once.
LEMMA EndStands ==
  ASSUME NEW S, NEW s \in Seq(S), \E i \in 1 .. Len(s) : s[i] \in EndSymbols
  PROVE  EosRepeats(s) = 1
<1> DEFINE e == EosIdx(s)
<1>1. e \in 1 .. Len(s) /\ s[e] \in EndSymbols
      /\ \A i \in 1 .. Len(s) : i > e => s[i] \notin EndSymbols
  BY EndFound
<1> DEFINE Right(n) == (\A i \in e .. e + n - 1 : s[i] = s[e]) /\ (e + n <= Len(s) => s[e + n] # s[e])
           N == 1 .. Len(s) - e + 1
<1>2. EosRepeats(s) = CHOOSE n \in N : Right(n)
  <2>1. e # 0
    BY <1>1
  <2> QED
    BY <2>1, Zenon DEF EosRepeats
<1> HIDE DEF e
<1>3. e \in Nat \ {0} /\ Len(s) \in Nat /\ e <= Len(s)
  BY <1>1
<1>4. 1 \in N /\ Right(1)
  <2>1. 1 \in N
    BY <1>3
  <2>2. \A i \in e .. e + 1 - 1 : i = e
    BY <1>3
  <2>3. e + 1 <= Len(s) => s[e + 1] # s[e]
    BY <1>1, <1>3
  <2> QED
    BY <2>1, <2>2, <2>3
<1>5. ASSUME NEW n \in N, Right(n), n # 1
      PROVE  FALSE
  <2>1. e + 1 \in e .. e + n - 1 /\ e + 1 \in 1 .. Len(s) /\ e + 1 > e
    BY <1>3, <1>5
  <2>2. s[e + 1] = s[e]
    BY <1>5, <2>1
  <2> QED
    BY <1>1, <2>1, <2>2
<1>6. (CHOOSE n \in N : Right(n)) = 1
  <2> HIDE DEF Right, N
  <2> QED
    BY <1>4, <1>5
<1> QED
  BY <1>2, <1>6

-----------------------------------------------------------------------------
(* The fields of a call *)

\* f stands in s from place i on.
Piece(s, i, f) ==
  /\ s \in Seq(Nat) /\ f \in Seq(Nat) /\ i \in Nat \ {0} /\ i + Len(f) - 1 <= Len(s)
  /\ \A j \in 1 .. Len(f) : s[i + j - 1] = f[j]

LEMMA PieceWhole ==
  ASSUME NEW f \in Seq(Nat)
  PROVE  Piece(f, 1, f)
BY DEF Piece

LEMMA Joined ==
  ASSUME NEW u \in Seq(Nat), NEW v \in Seq(Nat)
  PROVE  /\ u \o v \in Seq(Nat) /\ Len(u \o v) = Len(u) + Len(v)
         /\ \A i \in 1 .. Len(u) : (u \o v)[i] = u[i]
         /\ \A i \in 1 .. Len(v) : (u \o v)[Len(u) + i] = v[i]
<1>1. u \o v \in Seq(Nat) /\ Len(u \o v) = Len(u) + Len(v)
  BY ConcatProperties
<1>2. \A i \in 1 .. Len(u) + Len(v) : (u \o v)[i] = IF i <= Len(u) THEN u[i] ELSE v[i - Len(u)]
  BY ConcatProperties
<1>3. ASSUME NEW i \in 1 .. Len(v)
      PROVE  (u \o v)[Len(u) + i] = v[i]
  <2>1. PICK n \in Nat, m \in Nat : n = Len(u) /\ m = Len(v)
    OBVIOUS
  <2>2. n + i \in 1 .. n + m /\ ~(n + i <= n) /\ (n + i) - n = i
    BY <2>1
  <2> QED
    BY <1>2, <2>1, <2>2
<1>4. ASSUME NEW i \in 1 .. Len(u)
      PROVE  (u \o v)[i] = u[i]
  <2>1. i \in 1 .. Len(u) + Len(v)
    OBVIOUS
  <2> QED
    BY <1>2, <2>1
<1> QED
  BY <1>1, <1>3, <1>4

LEMMA PieceLeft ==
  ASSUME NEW s \in Seq(Nat), NEW i, NEW f, Piece(s, i, f), NEW t \in Seq(Nat)
  PROVE  Piece(s \o t, i, f)
<1>1. PICK n \in Nat, m \in Nat, l \in Nat : n = Len(s) /\ m = Len(f) /\ l = Len(t)
  BY DEF Piece
<1>2. s \o t \in Seq(Nat) /\ Len(s \o t) = n + l /\ \A k \in 1 .. n : (s \o t)[k] = s[k]
  BY <1>1, Joined
<1>3. i \in Nat \ {0} /\ i + m - 1 <= n /\ f \in Seq(Nat) /\ \A j \in 1 .. m : s[i + j - 1] = f[j]
  BY <1>1 DEF Piece
<1>4. \A j \in 1 .. m : i + j - 1 \in 1 .. n
  BY <1>3
<1>5. i + m - 1 <= n + l
  BY <1>3
<1> QED
  BY <1>1, <1>2, <1>3, <1>4, <1>5 DEF Piece

LEMMA PieceRight ==
  ASSUME NEW s \in Seq(Nat), NEW i, NEW f, Piece(s, i, f), NEW t \in Seq(Nat)
  PROVE  Piece(t \o s, Len(t) + i, f)
<1>1. PICK n \in Nat, m \in Nat, l \in Nat : n = Len(s) /\ m = Len(f) /\ l = Len(t)
  BY DEF Piece
<1>2. t \o s \in Seq(Nat) /\ Len(t \o s) = l + n /\ \A k \in 1 .. n : (t \o s)[l + k] = s[k]
  BY <1>1, Joined
<1>3. i \in Nat \ {0} /\ i + m - 1 <= n /\ f \in Seq(Nat) /\ \A j \in 1 .. m : s[i + j - 1] = f[j]
  BY <1>1 DEF Piece
<1>4. \A j \in 1 .. m : i + j - 1 \in 1 .. n /\ (l + i) + j - 1 = l + (i + j - 1)
  <2>1. i \in Nat \ {0} /\ i + m - 1 <= n
    BY <1>3
  <2> QED
    BY ONLY <2>1, n \in Nat, m \in Nat, l \in Nat
<1>5. (l + i) + m - 1 <= l + n /\ l + i \in Nat \ {0}
  BY <1>3
<1>6. \A j \in 1 .. m : (t \o s)[(l + i) + j - 1] = f[j]
  BY <1>2, <1>3, <1>4
<1> QED
  BY <1>1, <1>2, <1>3, <1>5, <1>6 DEF Piece

LEMMA FieldIs ==
  ASSUME NEW s, NEW i, NEW f, Piece(s, i, f)
  PROVE  Field(s, i, Len(f)) = f
<1>1. PICK n \in Nat, m \in Nat : n = Len(s) /\ m = Len(f)
  BY DEF Piece
<1>2. s \in Seq(Nat) /\ f \in Seq(Nat) /\ i \in Nat \ {0} /\ i + m - 1 <= n
      /\ \A j \in 1 .. m : s[i + j - 1] = f[j]
  BY <1>1 DEF Piece
<1>3. Field(s, i, Len(f)) = SubSeq(s, i, i + m - 1)
  BY <1>1, <1>2 DEF Field
<1>4. /\ SubSeq(s, i, i + m - 1) \in Seq(Nat) /\ Len(SubSeq(s, i, i + m - 1)) = m
      /\ \A j \in 1 .. m : SubSeq(s, i, i + m - 1)[j] = s[i + j - 1]
  <2>1. PICK k \in Int : k = i + m - 1
    BY <1>2
  <2>2. \A j \in i .. k : s[j] \in Nat
    <3>1. \A j \in i .. k : j \in 1 .. n
      BY <1>2, <2>1
    <3> QED
      BY <1>1, <1>2, <3>1
  <2>3. /\ SubSeq(s, i, k) \in Seq(Nat)
        /\ Len(SubSeq(s, i, k)) = IF i <= k THEN k - i + 1 ELSE 0
        /\ \A j \in 1 .. k - i + 1 : SubSeq(s, i, k)[j] = s[i + j - 1]
    <3>1. i \in Int
      BY <1>2
    <3> QED
      BY <2>2, <3>1, SubSeqProperties
  <2>4. k - i + 1 = m /\ (i <= k <=> m > 0)
    BY <1>2, <2>1
  <2> QED
    BY <2>1, <2>3, <2>4
<1>5. SubSeq(s, i, i + m - 1) = f
  BY <1>1, <1>2, <1>4, SeqEqual
<1> QED
  BY <1>3, <1>5

LEMMA BothIn ==
  ASSUME NEW s, NEW i, NEW f, Piece(s, i, f), NEW h \in Seq(Nat), NEW t \in Seq(Nat)
  PROVE  Piece((h \o s) \o t, Len(h) + i, f)
<1>1. Piece(h \o s, Len(h) + i, f)
  <2>1. s \in Seq(Nat)
    BY DEF Piece
  <2> QED
    BY <2>1, PieceRight
<1>2. h \o s \in Seq(Nat)
  BY <1>1 DEF Piece
<1> QED
  BY <1>1, <1>2, PieceLeft

\* One more piece at the end.
LEMMA OneMore ==
  ASSUME NEW s \in Seq(Nat), NEW f \in Seq(Nat)
  PROVE  /\ s \o f \in Seq(Nat) /\ Len(s \o f) = Len(s) + Len(f) /\ Piece(s \o f, Len(s) + 1, f)
         /\ \A i, g : Piece(s, i, g) => Piece(s \o f, i, g)
<1>1. Piece(f, 1, f)
  BY PieceWhole
<1>2. Piece(s \o f, Len(s) + 1, f)
  BY <1>1, PieceRight
<1>3. \A i, g : Piece(s, i, g) => Piece(s \o f, i, g)
  BY PieceLeft
<1> QED
  BY <1>2, <1>3, Joined

\* A head, five fields and a tail.
InRow(s, h, p, q, r, u, v, t) ==
  /\ s \in Seq(Nat)
  /\ Len(s) = Len(h) + Len(p) + Len(q) + Len(r) + Len(u) + Len(v) + Len(t)
  /\ Piece(s, 1, h)
  /\ Piece(s, Len(h) + 1, p)
  /\ Piece(s, Len(h) + (Len(p) + 1), q)
  /\ Piece(s, Len(h) + (Len(p) + Len(q) + 1), r)
  /\ Piece(s, Len(h) + (Len(p) + Len(q) + Len(r) + 1), u)
  /\ Piece(s, Len(h) + (Len(p) + Len(q) + Len(r) + Len(u) + 1), v)
  /\ \E i \in Nat : Piece(s, i, t)

LEMMA Row ==
  ASSUME NEW h \in Seq(Nat), NEW p \in Seq(Nat), NEW q \in Seq(Nat), NEW r \in Seq(Nat),
         NEW u \in Seq(Nat), NEW v \in Seq(Nat), NEW t \in Seq(Nat)
  PROVE  InRow(h \o (p \o q \o r \o u \o v) \o t, h, p, q, r, u, v, t)
<1>1. PICK f1 \in Seq(Nat) : f1 = p \o q
  BY OneMore
<1>2. PICK f2 \in Seq(Nat) : f2 = f1 \o r
  BY OneMore
<1>3. PICK f3 \in Seq(Nat) : f3 = f2 \o u
  BY OneMore
<1>4. PICK f4 \in Seq(Nat) : f4 = f3 \o v
  BY OneMore
<1>5. /\ Len(f1) = Len(p) + Len(q) /\ Len(f2) = Len(p) + Len(q) + Len(r)
      /\ Len(f3) = Len(p) + Len(q) + Len(r) + Len(u)
      /\ Len(f4) = Len(p) + Len(q) + Len(r) + Len(u) + Len(v)
  BY <1>1, <1>2, <1>3, <1>4, OneMore
<1>6. Piece(f1, 1, p) /\ Piece(f1, Len(p) + 1, q)
  BY <1>1, OneMore, PieceWhole
<1>7. Piece(f2, 1, p) /\ Piece(f2, Len(p) + 1, q) /\ Piece(f2, Len(f1) + 1, r)
  BY <1>2, <1>6, OneMore
<1>8. Piece(f3, 1, p) /\ Piece(f3, Len(p) + 1, q) /\ Piece(f3, Len(f1) + 1, r)
      /\ Piece(f3, Len(f2) + 1, u)
  BY <1>3, <1>7, OneMore
<1>9. Piece(f4, 1, p) /\ Piece(f4, Len(p) + 1, q) /\ Piece(f4, Len(f1) + 1, r)
      /\ Piece(f4, Len(f2) + 1, u) /\ Piece(f4, Len(f3) + 1, v)
  BY <1>4, <1>8, OneMore
<1>10. PICK s \in Seq(Nat) : s = (h \o f4) \o t /\ Len(s) = Len(h) + Len(f4) + Len(t)
                             /\ Piece(s, 1, h) /\ Piece(s, Len(h \o f4) + 1, t)
  <2>1. h \o f4 \in Seq(Nat) /\ Len(h \o f4) = Len(h) + Len(f4) /\ Piece(h \o f4, 1, h)
    BY OneMore, PieceWhole
  <2>2. /\ (h \o f4) \o t \in Seq(Nat) /\ Len((h \o f4) \o t) = Len(h \o f4) + Len(t)
        /\ Piece((h \o f4) \o t, 1, h) /\ Piece((h \o f4) \o t, Len(h \o f4) + 1, t)
    BY <2>1, OneMore
  <2> QED
    BY <2>1, <2>2
<1>11. /\ Piece(s, Len(h) + 1, p) /\ Piece(s, Len(h) + (Len(p) + 1), q)
       /\ Piece(s, Len(h) + (Len(f1) + 1), r) /\ Piece(s, Len(h) + (Len(f2) + 1), u)
       /\ Piece(s, Len(h) + (Len(f3) + 1), v)
  BY <1>9, <1>10, BothIn
<1>12. s = h \o (p \o q \o r \o u \o v) \o t
  BY <1>1, <1>2, <1>3, <1>4, <1>10
<1>13. \E i \in Nat : Piece(s, i, t)
  BY <1>10 DEF Piece
<1>14. Len(s) = Len(h) + Len(p) + Len(q) + Len(r) + Len(u) + Len(v) + Len(t)
  BY <1>5, <1>10
<1> QED
  BY <1>5, <1>10, <1>11, <1>12, <1>13, <1>14 DEF InRow

LEMMA TextOf ==
  ASSUME NEW n \in Nat, NEW S, S \subseteq Nat, NEW f \in [1 .. n -> S]
  PROVE  f \in Seq(Nat) /\ Len(f) = n
<1>1. f \in [1 .. n -> Nat]
  OBVIOUS
<1> QED
  BY <1>1

LEMMA DigitsAre ==
  ASSUME NEW n \in Nat, NEW f \in [1 .. n -> 0 .. 99]
  PROVE  Digits(f) = f
<1>1. \A i \in DOMAIN f : f[i] \in 0 .. 99
  OBVIOUS
<1>2. \A v \in 0 .. 99 : v <= 99
  OBVIOUS
<1>3. \A i \in DOMAIN f : f[i] <= 99
  BY <1>1, <1>2
<1> QED
  BY <1>3 DEF Digits

HeadOf(c) == IF c.repeated THEN <<c.format, c.format>> ELSE <<c.format>>

LEMMA HeadIs ==
  ASSUME NEW c, c.format \in Nat, c.repeated \in BOOLEAN
  PROVE  /\ HeadOf(c) \in Seq(Nat) /\ Len(HeadOf(c)) = IF c.repeated THEN 2 ELSE 1
         /\ HeadOf(c)[1] = c.format /\ (c.repeated => HeadOf(c)[2] = c.format)
<1>1. CASE c.repeated
  BY <1>1 DEF HeadOf
<1>2. CASE ~c.repeated
  BY <1>2 DEF HeadOf
<1> QED
  BY <1>1, <1>2

\* The format is read as it was sent, and the fields begin behind it.
LEMMA HeadRead ==
  ASSUME NEW c, c.format \in Nat, c.format > 99, c.repeated \in BOOLEAN,
         NEW p \in [1 .. IdLen -> 0 .. 99], NEW s, Piece(s, 1, HeadOf(c)),
         Piece(s, Len(HeadOf(c)) + 1, p)
  PROVE  /\ s[1] = c.format /\ AddrStart(s) = Len(HeadOf(c)) + 1
         /\ c.repeated => Len(s) >= 2 /\ s[2] = s[1]
<1>1. /\ HeadOf(c) \in Seq(Nat) /\ Len(HeadOf(c)) = IF c.repeated THEN 2 ELSE 1
      /\ HeadOf(c)[1] = c.format /\ (c.repeated => HeadOf(c)[2] = c.format)
  BY HeadIs
<1>2. PICK n \in Nat : n = Len(s)
  BY DEF Piece
<1>3. IdLen \in Nat /\ IdLen > 0
  BY DscAssumption
<1>4. Len(p) = IdLen /\ 1 \in 1 .. IdLen /\ p[1] \in 0 .. 99
  BY <1>3
<1>5. CASE c.repeated
  <2>1. Len(HeadOf(c)) = 2
    BY <1>1, <1>5
  <2>2. 1 \in 1 .. Len(HeadOf(c)) /\ 2 \in 1 .. Len(HeadOf(c)) /\ 1 + 1 - 1 = 1 /\ 1 + 2 - 1 = 2
        /\ 1 + 2 - 1 <= Len(s)
    BY <2>1 DEF Piece
  <2>3. s[1] = c.format /\ s[2] = c.format
    <3>1. \A j \in 1 .. Len(HeadOf(c)) : s[1 + j - 1] = HeadOf(c)[j]
      BY DEF Piece
    <3>2. s[1 + 1 - 1] = HeadOf(c)[1] /\ s[1 + 2 - 1] = HeadOf(c)[2]
      BY <2>2, <3>1
    <3> QED
      BY <1>1, <1>5, <2>2, <3>2
  <2>4. Len(s) >= 2
    BY <1>2, <2>2
  <2> QED
    BY <2>1, <2>3, <2>4 DEF AddrStart
<1>6. CASE ~c.repeated
  <2>1. Len(HeadOf(c)) = 1
    BY <1>1, <1>6
  <2>2. 1 \in 1 .. Len(HeadOf(c)) /\ 1 + 1 - 1 = 1 /\ 1 \in 1 .. Len(p) /\ Len(HeadOf(c)) + 1 + 1 - 1 = 2
    BY <1>4, <2>1
  <2>3. s[1] = c.format
    <3>1. \A j \in 1 .. Len(HeadOf(c)) : s[1 + j - 1] = HeadOf(c)[j]
      BY DEF Piece
    <3>2. s[1 + 1 - 1] = HeadOf(c)[1]
      BY <2>2, <3>1
    <3> QED
      BY <1>1, <2>2, <3>2
  <2>4. s[2] = p[1]
    <3>1. \A j \in 1 .. Len(p) : s[Len(HeadOf(c)) + 1 + j - 1] = p[j]
      BY DEF Piece
    <3>2. s[Len(HeadOf(c)) + 1 + 1 - 1] = p[1]
      BY <2>2, <3>1
    <3> QED
      BY <2>2, <3>2
  <2>5. s[1] # s[2]
    <3>1. PICK v \in 0 .. 99 : v = p[1]
      BY <1>4
    <3>2. v < c.format
      BY ONLY v \in 0 .. 99, c.format \in Nat, c.format > 99
    <3>3. v # c.format
      BY ONLY v \in 0 .. 99, c.format \in Nat, <3>2
    <3> QED
      BY <2>3, <2>4, <3>1, <3>3
  <2> QED
    BY <1>6, <2>1, <2>3, <2>5 DEF AddrStart
<1> QED
  BY <1>5, <1>6

\* What the filters and the field readers make of a call.
ReadRight(s, c) ==
  /\ s \in Seq(Nat) /\ Len(s) >= MinWords /\ Len(s) > 0
  /\ WellFormed(s)
  /\ \A f \in DOMAIN c \ {"repeated", "check"} : f \in DOMAIN Fields(s) /\ Fields(s)[f] = c[f]

LEMMA FiltersPass ==
  ASSUME NEW c \in Calls, MinEosRepeats <= 1, NEW p \in [1 .. IdLen -> 0 .. 99],
         NEW s, Piece(s, 1, HeadOf(c)), Piece(s, Len(HeadOf(c)) + 1, p),
         NEW i \in Nat, Piece(s, i, c.check)
  PROVE  WellFormed(s)
<1>1. /\ c.format \in Nat /\ c.format > 99 /\ c.repeated \in BOOLEAN
      /\ c.format \in Alerting => c.repeated
      /\ c.check \in Seq(Nat) /\ \E k \in DOMAIN c.check : c.check[k] \in EndSymbols
  BY DscAssumption DEF Legal
<1>2. s[1] = c.format /\ (c.repeated => Len(s) >= 2 /\ s[2] = s[1])
  BY <1>1, HeadRead
<1>3. \E k \in 1 .. Len(s) : s[k] \in EndSymbols
  <2>1. PICK k \in 1 .. Len(c.check) : c.check[k] \in EndSymbols
    BY <1>1
  <2>2. PICK n \in Nat, m \in Nat : n = Len(s) /\ m = Len(c.check)
    BY DEF Piece
  <2>3. i + m - 1 <= n /\ i \in Nat \ {0} /\ s[i + k - 1] = c.check[k]
    BY <2>2 DEF Piece
  <2>4. i + k - 1 \in 1 .. n
    BY <2>2, <2>3
  <2> QED
    BY <2>1, <2>2, <2>3, <2>4
<1>4. s \in Seq(Nat)
  BY DEF Piece
<1>5. EosIdx(s) \in 1 .. Len(s)
  BY <1>3, <1>4, EndFound
<1>6. EosRepeats(s) \in Nat /\ EosRepeats(s) >= 1
  BY <1>3, <1>4, EndStands
<1>7. EosIdx(s) > 0
  BY <1>4, <1>5
<1>8. EosRepeats(s) >= MinEosRepeats
  <2>1. MinEosRepeats \in Nat
    BY DscAssumption
  <2> QED
    BY <1>6, <2>1
<1> QED
  BY <1>1, <1>2, <1>7, <1>8 DEF WellFormed

LEMMA LongEnough ==
  ASSUME NEW n \in Nat, n >= 1, NEW m \in Nat, m >= 1, NEW i \in Nat, NEW p \in Nat, NEW u \in Nat
  PROVE  /\ n + i + 1 + p + u + 1 + m >= i + 4 /\ n + i + 1 + p + u + 1 + m \in Nat
         /\ n + i + 1 + i + 1 + 1 + m >= i + 4 /\ n + i + 1 + i + 1 + 1 + m \in Nat
OBVIOUS

LEMMA DistressRead ==
  ASSUME NEW c \in Calls, MinEosRepeats <= 1, c.format = Distress
  PROVE  ReadRight(Encoded(c), c)
<1>1. /\ c.format \in Nat /\ c.format > 99 /\ c.repeated \in BOOLEAN
      /\ c.self_id \in [1 .. IdLen -> 0 .. 99] /\ c.nature \in [1 .. 1 -> Nat]
      /\ c.position \in [1 .. PosLen -> Nat] /\ c.utc \in [1 .. UtcLen -> 0 .. 99]
      /\ c.command \in [1 .. 1 -> Nat]
      /\ c.check \in Seq(Nat) /\ \E k \in DOMAIN c.check : c.check[k] \in EndSymbols
      /\ DOMAIN c = {"format", "repeated", "self_id", "nature", "position", "utc", "command", "check"}
  <2>1. Legal(c)
    BY DscAssumption
  <2> QED
    BY <2>1 DEF Legal
<1>2. IdLen \in Nat /\ PosLen \in Nat /\ UtcLen \in Nat /\ 1 \in Nat /\ 0 .. 99 \subseteq Nat
  BY DscAssumption
<1>3. /\ c.self_id \in Seq(Nat) /\ Len(c.self_id) = IdLen
      /\ c.nature \in Seq(Nat) /\ Len(c.nature) = 1
      /\ c.position \in Seq(Nat) /\ Len(c.position) = PosLen
      /\ c.utc \in Seq(Nat) /\ Len(c.utc) = UtcLen
      /\ c.command \in Seq(Nat) /\ Len(c.command) = 1
  <2>1. c.self_id \in Seq(Nat) /\ Len(c.self_id) = IdLen
    BY <1>1, <1>2, TextOf
  <2>2. c.nature \in Seq(Nat) /\ Len(c.nature) = 1
    BY <1>1, <1>2, TextOf
  <2>3. c.position \in Seq(Nat) /\ Len(c.position) = PosLen
    BY <1>1, <1>2, TextOf
  <2>4. c.utc \in Seq(Nat) /\ Len(c.utc) = UtcLen
    BY <1>1, <1>2, TextOf
  <2>5. c.command \in Seq(Nat) /\ Len(c.command) = 1
    BY <1>1, <1>2, TextOf
  <2> QED
    BY <2>1, <2>2, <2>3, <2>4, <2>5
<1>4. PICK h \in Seq(Nat), a \in Nat : h = HeadOf(c) /\ a = Len(h) + 1 /\ Len(h) >= 1
  <2>1. HeadOf(c) \in Seq(Nat) /\ Len(HeadOf(c)) \in {1, 2}
    BY <1>1, HeadIs
  <2>3. \A v \in {1, 2} : v + 1 \in Nat /\ v >= 1
    OBVIOUS
  <2>2. Len(HeadOf(c)) + 1 \in Nat /\ Len(HeadOf(c)) >= 1
    BY <2>1, <2>3
  <2> QED
    BY <2>1, <2>2
<1>5. PICK s : s = h \o (c.self_id \o c.nature \o c.position \o c.utc \o c.command) \o c.check
  OBVIOUS
<1>6. s = Encoded(c)
  BY <1>4, <1>5 DEF Encoded, HeadOf
<1>7. InRow(s, h, c.self_id, c.nature, c.position, c.utc, c.command, c.check)
  BY <1>1, <1>3, <1>4, <1>5, Row
<1>8. /\ Piece(s, a, c.self_id) /\ Piece(s, a + IdLen, c.nature)
      /\ Piece(s, a + IdLen + 1, c.position) /\ Piece(s, a + IdLen + 1 + PosLen, c.utc)
      /\ Piece(s, a + IdLen + 1 + PosLen + UtcLen, c.command)
  <2>1. PICK n \in Nat : n = Len(h)
    BY <1>4
  <2>2. /\ Len(h) + 1 = a /\ Len(h) + (IdLen + 1) = a + IdLen
        /\ Len(h) + (IdLen + 1 + 1) = a + IdLen + 1
        /\ Len(h) + (IdLen + 1 + PosLen + 1) = a + IdLen + 1 + PosLen
        /\ Len(h) + (IdLen + 1 + PosLen + UtcLen + 1) = a + IdLen + 1 + PosLen + UtcLen
    BY <1>2, <1>4, <2>1
  <2> QED
    BY <1>3, <1>7, <2>2 DEF InRow
<1>9. s[1] = c.format /\ AddrStart(s) = a
  BY <1>1, <1>4, <1>7, HeadRead DEF InRow
<1>10. Fields(s) = DistressFields(s)
  BY <1>9 DEF Fields
<1>11. /\ Digits(Field(s, a, IdLen)) = c.self_id /\ Field(s, a + IdLen, 1) = c.nature
       /\ Field(s, a + IdLen + 1, PosLen) = c.position
       /\ Digits(Field(s, a + IdLen + 1 + PosLen, UtcLen)) = c.utc
       /\ Field(s, a + IdLen + 1 + PosLen + UtcLen, 1) = c.command
  <2>1. Field(s, a, IdLen) = c.self_id
    BY <1>3, <1>8, FieldIs
  <2>2. Field(s, a + IdLen, 1) = c.nature
    BY <1>3, <1>8, FieldIs
  <2>3. Field(s, a + IdLen + 1, PosLen) = c.position
    BY <1>3, <1>8, FieldIs
  <2>4. Field(s, a + IdLen + 1 + PosLen, UtcLen) = c.utc
    BY <1>3, <1>8, FieldIs
  <2>5. Field(s, a + IdLen + 1 + PosLen + UtcLen, 1) = c.command
    BY <1>3, <1>8, FieldIs
  <2>6. Digits(c.self_id) = c.self_id /\ Digits(c.utc) = c.utc
    BY <1>1, <1>2, DigitsAre
  <2> QED
    BY <2>1, <2>2, <2>3, <2>4, <2>5, <2>6
<1>12. /\ Fields(s).format = c.format /\ Fields(s).self_id = c.self_id /\ Fields(s).nature = c.nature
       /\ Fields(s).position = c.position /\ Fields(s).utc = c.utc /\ Fields(s).command = c.command
       /\ {"format", "self_id", "nature", "position", "utc", "command"} \subseteq DOMAIN Fields(s)
  BY <1>9, <1>10, <1>11 DEF DistressFields
<1>13. \A f \in DOMAIN c \ {"repeated", "check"} : f \in DOMAIN Fields(s) /\ Fields(s)[f] = c[f]
  BY <1>1, <1>12
<1>14. Len(s) >= MinWords /\ Len(s) > 0 /\ s \in Seq(Nat)
  <2>1. PICK n \in Nat, m \in Nat : n = Len(h) /\ m = Len(c.check) /\ m >= 1
    BY <1>1, <1>4
  <2>0. IdLen \in Nat /\ PosLen \in Nat /\ UtcLen \in Nat
    BY <1>2
  <2>2. Len(s) = n + IdLen + 1 + PosLen + UtcLen + 1 + m
    BY <1>3, <1>7, <2>1 DEF InRow
  <2>3. MinWords \in Nat /\ MinWords <= IdLen + 4 /\ n >= 1
    BY <1>4, <2>1, DscAssumption
  <2>4. n + IdLen + 1 + PosLen + UtcLen + 1 + m >= IdLen + 4 /\ n + IdLen + 1 + PosLen + UtcLen + 1 + m \in Nat
    BY <2>0, <2>1, <2>3, LongEnough
  <2>5. PICK l \in Nat : l = Len(s) /\ l >= IdLen + 4
    BY ONLY <2>2, <2>4
  <2>6. l >= MinWords /\ l > 0
    BY ONLY <2>0, <2>3, <2>5, l \in Nat
  <2>7. s \in Seq(Nat)
    BY <1>7 DEF InRow
  <2> QED
    BY <2>5, <2>6, <2>7
<1>15. WellFormed(s)
  <2>1. PICK i \in Nat : Piece(s, i, c.check)
    BY <1>7 DEF InRow
  <2>2. Piece(s, 1, HeadOf(c)) /\ Piece(s, Len(HeadOf(c)) + 1, c.self_id)
    BY <1>4, <1>8, <1>7 DEF InRow
  <2> QED
    BY <1>1, <2>1, <2>2, FiltersPass
<1> QED
  BY <1>6, <1>13, <1>14, <1>15 DEF ReadRight

LEMMA OtherRead ==
  ASSUME NEW c \in Calls, MinEosRepeats <= 1, c.format # Distress
  PROVE  ReadRight(Encoded(c), c)
<1>1. /\ c.format \in Nat /\ c.format > 99 /\ c.repeated \in BOOLEAN
      /\ c.address \in [1 .. IdLen -> 0 .. 99] /\ c.category \in [1 .. 1 -> Nat]
      /\ c.self_id \in [1 .. IdLen -> 0 .. 99] /\ c.command \in [1 .. 1 -> Nat]
      /\ c.second \in [1 .. 1 -> Nat]
      /\ c.check \in Seq(Nat) /\ \E k \in DOMAIN c.check : c.check[k] \in EndSymbols
      /\ DOMAIN c = {"format", "repeated", "address", "category", "self_id", "command", "second", "check"}
  <2>1. Legal(c)
    BY DscAssumption
  <2> QED
    BY <2>1 DEF Legal
<1>2. IdLen \in Nat /\ 1 \in Nat /\ 0 .. 99 \subseteq Nat
  BY DscAssumption
<1>3. /\ c.address \in Seq(Nat) /\ Len(c.address) = IdLen
      /\ c.category \in Seq(Nat) /\ Len(c.category) = 1
      /\ c.self_id \in Seq(Nat) /\ Len(c.self_id) = IdLen
      /\ c.command \in Seq(Nat) /\ Len(c.command) = 1
      /\ c.second \in Seq(Nat) /\ Len(c.second) = 1
  <2>1. c.address \in Seq(Nat) /\ Len(c.address) = IdLen
    BY <1>1, <1>2, TextOf
  <2>2. c.category \in Seq(Nat) /\ Len(c.category) = 1
    BY <1>1, <1>2, TextOf
  <2>3. c.self_id \in Seq(Nat) /\ Len(c.self_id) = IdLen
    BY <1>1, <1>2, TextOf
  <2>4. c.command \in Seq(Nat) /\ Len(c.command) = 1
    BY <1>1, <1>2, TextOf
  <2>5. c.second \in Seq(Nat) /\ Len(c.second) = 1
    BY <1>1, <1>2, TextOf
  <2> QED
    BY <2>1, <2>2, <2>3, <2>4, <2>5
<1>4. PICK h \in Seq(Nat), a \in Nat : h = HeadOf(c) /\ a = Len(h) + 1 /\ Len(h) >= 1
  <2>1. HeadOf(c) \in Seq(Nat) /\ Len(HeadOf(c)) \in {1, 2}
    BY <1>1, HeadIs
  <2>3. \A v \in {1, 2} : v + 1 \in Nat /\ v >= 1
    OBVIOUS
  <2>2. Len(HeadOf(c)) + 1 \in Nat /\ Len(HeadOf(c)) >= 1
    BY <2>1, <2>3
  <2> QED
    BY <2>1, <2>2
<1>5. PICK s : s = h \o (c.address \o c.category \o c.self_id \o c.command \o c.second) \o c.check
  OBVIOUS
<1>6. s = Encoded(c)
  BY <1>4, <1>5 DEF Encoded, HeadOf
<1>7. InRow(s, h, c.address, c.category, c.self_id, c.command, c.second, c.check)
  BY <1>1, <1>3, <1>4, <1>5, Row
<1>8. /\ Piece(s, a, c.address) /\ Piece(s, a + IdLen, c.category)
      /\ Piece(s, a + IdLen + 1, c.self_id) /\ Piece(s, a + 2 * IdLen + 1, c.command)
      /\ Piece(s, a + 2 * IdLen + 1 + 1, c.second)
  <2>1. PICK n \in Nat : n = Len(h)
    BY <1>4
  <2>2. /\ Len(h) + 1 = a /\ Len(h) + (IdLen + 1) = a + IdLen
        /\ Len(h) + (IdLen + 1 + 1) = a + IdLen + 1
        /\ Len(h) + (IdLen + 1 + IdLen + 1) = a + 2 * IdLen + 1
        /\ Len(h) + (IdLen + 1 + IdLen + 1 + 1) = a + 2 * IdLen + 1 + 1
    BY <1>2, <1>4, <2>1
  <2> QED
    BY <1>3, <1>7, <2>2 DEF InRow
<1>9. s[1] = c.format /\ AddrStart(s) = a
  BY <1>1, <1>4, <1>7, HeadRead DEF InRow
<1>10. Fields(s) = OtherFields(s)
  BY <1>9 DEF Fields
<1>11. /\ Digits(Field(s, a, IdLen)) = c.address /\ Field(s, a + IdLen, 1) = c.category
       /\ Digits(Field(s, a + IdLen + 1, IdLen)) = c.self_id
       /\ Field(s, a + 2 * IdLen + 1, 1) = c.command
       /\ Field(s, a + 2 * IdLen + 1 + 1, 1) = c.second
  <2>1. Field(s, a, IdLen) = c.address
    BY <1>3, <1>8, FieldIs
  <2>2. Field(s, a + IdLen, 1) = c.category
    BY <1>3, <1>8, FieldIs
  <2>3. Field(s, a + IdLen + 1, IdLen) = c.self_id
    BY <1>3, <1>8, FieldIs
  <2>4. Field(s, a + 2 * IdLen + 1, 1) = c.command
    BY <1>3, <1>8, FieldIs
  <2>5. Field(s, a + 2 * IdLen + 1 + 1, 1) = c.second
    BY <1>3, <1>8, FieldIs
  <2>6. Digits(c.address) = c.address /\ Digits(c.self_id) = c.self_id
    BY <1>1, <1>2, DigitsAre
  <2> QED
    BY <2>1, <2>2, <2>3, <2>4, <2>5, <2>6
<1>12. /\ Fields(s).format = c.format /\ Fields(s).address = c.address
       /\ Fields(s).category = c.category /\ Fields(s).self_id = c.self_id
       /\ Fields(s).command = c.command /\ Fields(s).second = c.second
       /\ {"format", "address", "category", "self_id", "command", "second"} \subseteq DOMAIN Fields(s)
  BY <1>9, <1>10, <1>11 DEF OtherFields
<1>13. \A f \in DOMAIN c \ {"repeated", "check"} : f \in DOMAIN Fields(s) /\ Fields(s)[f] = c[f]
  BY <1>1, <1>12
<1>14. Len(s) >= MinWords /\ Len(s) > 0 /\ s \in Seq(Nat)
  <2>1. PICK n \in Nat, m \in Nat : n = Len(h) /\ m = Len(c.check) /\ m >= 1
    BY <1>1, <1>4
  <2>0. IdLen \in Nat
    BY <1>2
  <2>2. Len(s) = n + IdLen + 1 + IdLen + 1 + 1 + m
    BY <1>3, <1>7, <2>1 DEF InRow
  <2>3. MinWords \in Nat /\ MinWords <= IdLen + 4 /\ n >= 1
    BY <1>4, <2>1, DscAssumption
  <2>4. n + IdLen + 1 + IdLen + 1 + 1 + m >= IdLen + 4 /\ n + IdLen + 1 + IdLen + 1 + 1 + m \in Nat
    BY <2>0, <2>1, <2>3, LongEnough
  <2>5. PICK l \in Nat : l = Len(s) /\ l >= IdLen + 4
    BY ONLY <2>2, <2>4
  <2>6. l >= MinWords /\ l > 0
    BY ONLY <2>0, <2>3, <2>5, l \in Nat
  <2>7. s \in Seq(Nat)
    BY <1>7 DEF InRow
  <2> QED
    BY <2>5, <2>6, <2>7
<1>15. WellFormed(s)
  <2>1. PICK i \in Nat : Piece(s, i, c.check)
    BY <1>7 DEF InRow
  <2>2. Piece(s, 1, HeadOf(c)) /\ Piece(s, Len(HeadOf(c)) + 1, c.address)
    BY <1>4, <1>8, <1>7 DEF InRow
  <2> QED
    BY <1>1, <2>1, <2>2, FiltersPass
<1> QED
  BY <1>6, <1>13, <1>14, <1>15 DEF ReadRight

-----------------------------------------------------------------------------
(* The whole call *)

LEMMA EnoughAre ==
  ASSUME AirOK(incoming), Chunk # <<>>, NEW s \in Seq(Nat), Len(s) > 0, Len(s) >= MinWords,
         NEW off \in 0 .. WordBits - 1, CallAt(Chunk, s, off),
         Symbols(Chunk, off) = s,
         NEW n \in Nat, Len(Words(Chunk, off)) = n, Len(s) <= n, off + WordBits * n <= Len(Chunk)
  PROVE  EnoughWords(Chunk, off)
<1>1. PICK x : x = Chunk
  OBVIOUS
<1>2. x \in Seq(CallBit) /\ Len(x) <= Len(incoming) /\ \A i \in 1 .. Len(x) : x[i] = incoming[i]
  BY <1>1, ChunkIs
<1>3. PICK w \in Nat, b \in Nat : w = WordBits /\ b = DscByteBits /\ b < w
  BY DscAssumption
<1>4. PICK l \in Nat : l = Len(x)
  BY <1>2
<1>5. PICK i \in Nat : i = Len(incoming) /\ l <= i
  BY <1>2, <1>4 DEF AirOK
<1>6. PICK k \in Nat : k = Len(s) /\ k > 0
  OBVIOUS
<1>7. PICK m \in Nat : m = w * k
  OBVIOUS
<1>8. off \in Nat /\ off + m <= l
  BY <1>1, <1>3, <1>4, <1>6, <1>7 DEF CallAt
<1>9. l <= off + m + b
  <2> SUFFICES ASSUME l > off + m + b PROVE FALSE
    OBVIOUS
  <2>1. m >= w
    <3>1. w * 1 <= w * k
      <4>1. 1 <= k
        BY <1>6
      <4> QED
        BY ONLY <4>1, w \in Nat, k \in Nat, AtLeast
    <3> QED
      BY <1>7, <3>1
  <2>2. PICK e \in Nat : e = off + m /\ e >= 1 /\ e + 1 <= l
    BY <1>3, <1>8, <2>1
  <2>3. e + 1 \in 1 .. i /\ e \in 1 .. i /\ e < e + 1 /\ e + 1 <= i - b /\ e + 1 \in 1 .. l /\ e \in 1 .. l
    BY <1>5, <2>2
  <2>4. incoming[e + 1] = NoWord
    <3>1. e + 1 > off + WordBits * Len(s)
      BY <1>3, <1>6, <1>7, <2>2
    <3>2. x[e + 1] = NoWord
      BY <1>1, <1>4, <2>3, <3>1 DEF CallAt
    <3> QED
      BY <1>2, <1>4, <2>3, <3>2
  <2>5. incoming[e] = NoWord
    BY <1>3, <1>5, <2>3, <2>4 DEF AirOK
  <2>6. x[e].place # 0
    <3>1. off < e /\ e <= off + WordBits * Len(s)
      BY <1>3, <1>6, <1>7, <1>8, <2>1, <2>2
    <3>2. x[e].place = 1 + ((e - off - 1) % WordBits)
      BY <1>1, <1>4, <2>3, <3>1 DEF CallAt
    <3>3. (e - off - 1) % w \in 0 .. w - 1
      <4>1. e - off - 1 \in Nat /\ w > 0
        BY <1>3, <1>8, <2>2, <3>1
      <4> QED
        BY <4>1, Dividing
    <3> QED
      BY <1>3, <3>2, <3>3
  <2>7. x[e] = NoWord
    BY <1>2, <1>4, <2>3, <2>5
  <2> QED
    BY <2>6, <2>7 DEF NoWord
<1>10. n <= k
  <2> SUFFICES ASSUME k + 1 <= n PROVE FALSE
    BY <1>6
  <2>1. w * (k + 1) <= w * n
    <3>1. k + 1 \in Nat
      OBVIOUS
    <3> QED
      BY ONLY <3>1, k + 1 <= n, w \in Nat, n \in Nat, AtLeast
  <2>2. PICK u \in Nat : u = w * n /\ w * (k + 1) = m + w
    BY <1>7
  <2>3. off + u <= l
    BY <1>1, <1>3, <1>4, <2>2
  <2> QED
    BY <1>3, <1>8, <1>9, <2>1, <2>2, <2>3
<1>11. n = k
  BY <1>6, <1>10
<1>12. k * 100 >= ValidRatio * k
  <2>1. ValidRatio \in Nat /\ ValidRatio <= 100 /\ 100 \in Nat
    BY DscAssumption
  <2>2. k * ValidRatio <= k * 100
    BY ONLY <2>1, k \in Nat, AtLeast
  <2>3. k * ValidRatio = ValidRatio * k
    BY <2>1
  <2> QED
    BY <2>1, <2>2, <2>3
<1> QED
  BY <1>6, <1>11, <1>12 DEF EnoughWords

RateType == [start : Nat, count : Nat]

TimeOK ==
  /\ clock \in Nat /\ last_call.time \in Nat /\ last_call.time <= clock
  /\ rate \in RateType /\ rate.start <= clock

\* The calls of a window lie an interval apart.
SpacedOut ==
  rate.count > 0 => /\ last_call.symbols # <<>> /\ rate.start <= last_call.time
                    /\ Interval * rate.count <= last_call.time - rate.start + Interval

DscInv == AirOK(incoming) /\ TimeOK /\ SpacedOut

LEMMA RateAllows ==
  ASSUME TimeOK, SpacedOut, ~TooSoon
  PROVE  /\ Allowed(RateWindow) /\ RateWindow \in RateType /\ RateWindow.start <= clock
         /\ Interval * (RateWindow.count + 1) <= clock - RateWindow.start + Interval
<1>1. PICK i \in Nat, n \in Nat, m \in Nat : i = Interval /\ n = Second /\ m = MaxPerSecond
                                             /\ i > 0 /\ m > 0 /\ n <= i * m
  BY DscAssumption
<1>2. PICK t \in Nat, l \in Nat : t = clock /\ l = last_call.time /\ l <= t
  BY DEF TimeOK
<1>3. PICK b \in Nat, c \in Nat : b = rate.start /\ c = rate.count /\ b <= t
  BY <1>2 DEF TimeOK, RateType
<1>4. CASE b = 0 \/ t - b >= n
  <2>1. RateWindow = [start |-> t, count |-> 0]
    BY <1>1, <1>2, <1>3, <1>4 DEF RateWindow
  <2>2. [start |-> t, count |-> 0] \in RateType
    BY DEF RateType
  <2>3. i * (0 + 1) = i /\ i <= t - t + i
    OBVIOUS
  <2> QED
    BY <1>1, <1>2, <2>1, <2>2, <2>3 DEF Allowed
<1>5. CASE ~(b = 0 \/ t - b >= n)
  <2>1. RateWindow = rate
    BY <1>1, <1>2, <1>3, <1>5 DEF RateWindow
  <2>2. PICK u \in Nat : u = i * c /\ i * (c + 1) = u + i
    OBVIOUS
  <2>3. u <= t - b
    <3>1. CASE c = 0
      BY <1>3, <2>2, <3>1
    <3>2. CASE c > 0
      <4>1. last_call.symbols # <<>> /\ b <= l /\ u <= l - b + i
        BY <1>1, <1>2, <1>3, <2>2, <3>2 DEF SpacedOut
      <4>2. ~(t - l < i)
        BY <1>1, <1>2, <4>1 DEF TooSoon
      <4> QED
        BY <1>2, <1>3, <4>1, <4>2
    <3> QED
      BY <3>1, <3>2
  <2>4. c < m
    <3> SUFFICES ASSUME m <= c PROVE FALSE
      OBVIOUS
    <3>1. i * m <= i * c
      BY AtLeast
    <3>2. PICK v \in Nat : v = i * m
      OBVIOUS
    <3> QED
      BY <1>1, <1>3, <1>5, <2>2, <2>3, <3>1, <3>2
  <2>5. rate \in RateType
    BY DEF TimeOK
  <2>6. i * (c + 1) <= t - b + i
    BY <1>3, <2>2, <2>3
  <2> QED
    BY <1>1, <1>2, <1>3, <2>1, <2>4, <2>5, <2>6 DEF Allowed
<1> QED
  BY <1>4, <1>5

LEMMA CallPasses ==
  ASSUME DscInv, MinEosRepeats <= 1, NEW c \in Calls,
         IsCall(Chunk, Encoded(c)), ~Repeated(Encoded(c)), ~TooSoon
  PROVE  /\ Chunk # <<>> /\ CallIn(Chunk) = Encoded(c) /\ Encoded(c) # <<>>
         /\ Allowed(RateWindow)
         /\ \A f \in DOMAIN c \ {"repeated", "check"} :
              f \in DOMAIN Fields(Encoded(c)) /\ Fields(Encoded(c))[f] = c[f]
<1>1. PICK s : s = Encoded(c)
  OBVIOUS
<1>2. ReadRight(s, c)
  BY <1>1, DistressRead, OtherRead
<1>3. s \in Seq(Nat) /\ Len(s) >= MinWords /\ Len(s) > 0 /\ WellFormed(s)
  BY <1>2 DEF ReadRight
<1>4. PICK w \in Nat : w = WordBits /\ w > 0
  BY DscAssumption
<1>5. Chunk # <<>>
  <2> SUFFICES ASSUME Chunk = <<>> PROVE FALSE
    OBVIOUS
  <2>1. <<>> \in Seq(CallBit) /\ Len(<<>>) = 0
    OBVIOUS
  <2>2. PICK off \in 0 .. WordBits - 1 : CallAt(<<>>, s, off)
    BY <1>1, <1>3, <2>1, CallIsAt
  <2>3. off + w * Len(s) <= 0
    BY <1>4, <2>1, <2>2 DEF CallAt
  <2>4. w * 1 <= w * Len(s)
    <3>1. 1 <= Len(s) /\ Len(s) \in Nat
      BY <1>3
    <3> QED
      BY ONLY <3>1, w \in Nat, AtLeast
  <2>5. PICK m \in Nat : m = w * Len(s) /\ w * 1 = w
    BY <1>3
  <2> QED
    BY <1>4, <2>2, <2>3, <2>4, <2>5
<1>6. AirOK(incoming) /\ TimeOK /\ SpacedOut
  BY DEF DscInv
<1>7. Chunk \in Seq(CallBit) /\ Len(Chunk) <= Len(incoming)
      /\ \A i \in 1 .. Len(Chunk) : Chunk[i] = incoming[i]
  BY <1>5, <1>6, ChunkIs
<1>8. WordsGoOn(Chunk)
  <2>1. PICK x : x = Chunk
    OBVIOUS
  <2>2. PICK l \in Nat, i \in Nat : l = Len(x) /\ i = Len(incoming) /\ l <= i
    BY <1>6, <1>7, <2>1 DEF AirOK
  <2>3. \A j \in 1 .. l : x[j] = incoming[j] /\ j \in 1 .. i
    BY <1>7, <2>1, <2>2
  <2>4. \A j \in 1 .. l : x[j].place > 0 => x[j].word > 0
    BY <1>6, <2>2, <2>3 DEF AirOK
  <2>5. \A j \in 1 .. l, k \in 0 .. WordBits - 1 : x[j].place = 1 /\ j + k <= l => x[j + k].word = x[j].word
    <3>1. SUFFICES ASSUME NEW j \in 1 .. l, NEW k \in 0 .. w - 1, x[j].place = 1, j + k <= l
                   PROVE  x[j + k].word = x[j].word
      BY <1>4
    <3>2. j + k \in 1 .. l /\ j + k <= i
      BY <2>2, <3>1
    <3>3. incoming[j + k].word = incoming[j].word
      BY <1>4, <1>6, <2>2, <2>3, <3>1, <3>2 DEF AirOK
    <3> QED
      BY <2>3, <3>1, <3>2, <3>3
  <2> QED
    BY <1>7, <2>1, <2>2, <2>4, <2>5 DEF WordsGoOn
<1>9. PICK off \in 0 .. WordBits - 1 : CallAt(Chunk, s, off)
  BY <1>1, <1>3, <1>7, CallIsAt
<1>10. Symbols(Chunk, off) = s /\ BestOffset(Chunk) = off
  BY <1>3, <1>8, <1>9, CallRead, OffsetFound
<1>11. EnoughWords(Chunk, off)
  <2>1. PICK n \in Nat : /\ Len(Words(Chunk, off)) = n /\ Len(s) <= n
                         /\ off + WordBits * n <= Len(Chunk)
    BY <1>3, <1>8, <1>9, CallRead
  <2> QED
    BY <1>3, <1>5, <1>6, <1>9, <1>10, <2>1, EnoughAre
<1>12. CallIn(Chunk) = s
  BY <1>1, <1>3, <1>10, <1>11 DEF CallIn
<1>13. s # <<>>
  BY <1>3
<1>14. Allowed(RateWindow)
  BY <1>6, RateAllows
<1> QED
  BY <1>1, <1>2, <1>5, <1>12, <1>13, <1>14 DEF ReadRight

-----------------------------------------------------------------------------
(* The steps *)

LEMMA DscStarts ==
  ASSUME DscInit
  PROVE  DscInv
<1>1. AirOK(<<>>)
  BY DEF AirOK
<1>2. AirOK(incoming)
  BY <1>1 DEF DscInit
<1>3. TimeOK /\ SpacedOut
  BY DscAssumption DEF DscInit, TimeOK, SpacedOut, RateType
<1> QED
  BY <1>2, <1>3 DEF DscInv

LEMMA PairsOf ==
  ASSUME NEW n \in Nat, NEW f \in [1 .. n -> 0 .. 99]
  PROVE  f \in Seq(Nat)
<1>1. 0 .. 99 \subseteq Nat
  OBVIOUS
<1> QED
  BY <1>1, TextOf

LEMMA SymbolsLegal ==
  ASSUME NEW c \in Calls
  PROVE  Encoded(c) \in Seq(Nat)
<1>0. Legal(c)
  BY DscAssumption
<1>1. /\ c.format \in Nat /\ c.repeated \in BOOLEAN /\ c.check \in Seq(Nat)
      /\ c.self_id \in [1 .. IdLen -> 0 .. 99] /\ c.command \in [1 .. 1 -> Nat]
  BY <1>0 DEF Legal
<1>2. HeadOf(c) \in Seq(Nat)
  BY <1>1, HeadIs
<1>3. IdLen \in Nat /\ PosLen \in Nat /\ UtcLen \in Nat /\ 1 \in Nat /\ 0 .. 99 \subseteq Nat
  BY DscAssumption
<1>4. c.self_id \in Seq(Nat) /\ c.command \in Seq(Nat)
  <2>1. c.self_id \in Seq(Nat)
    BY ONLY <1>1, <1>3, PairsOf
  <2>2. c.command \in Seq(Nat)
    BY ONLY <1>1, <1>3, TextOf
  <2> QED
    BY <2>1, <2>2
<1>5. CASE c.format = Distress
  <2>1. c.nature \in [1 .. 1 -> Nat] /\ c.position \in [1 .. PosLen -> Nat] /\ c.utc \in [1 .. UtcLen -> 0 .. 99]
    BY <1>0, <1>5 DEF Legal
  <2>2. c.nature \in Seq(Nat) /\ c.position \in Seq(Nat) /\ c.utc \in Seq(Nat)
    <3>1. c.nature \in Seq(Nat)
      BY ONLY <1>3, <2>1, TextOf
    <3>2. c.position \in Seq(Nat)
      BY ONLY <1>3, <2>1, TextOf
    <3>3. c.utc \in Seq(Nat)
      BY ONLY <1>3, <2>1, PairsOf
    <3> QED
      BY <3>1, <3>2, <3>3
  <2>3. Encoded(c) = HeadOf(c) \o (c.self_id \o c.nature \o c.position \o c.utc \o c.command) \o c.check
    BY <1>5 DEF Encoded, HeadOf
  <2>4. InRow(HeadOf(c) \o (c.self_id \o c.nature \o c.position \o c.utc \o c.command) \o c.check,
            HeadOf(c), c.self_id, c.nature, c.position, c.utc, c.command, c.check)
    BY <1>1, <1>2, <1>4, <2>2, Row
  <2> QED
    BY <2>3, <2>4 DEF InRow
<1>6. CASE c.format # Distress
  <2>1. c.address \in [1 .. IdLen -> 0 .. 99] /\ c.category \in [1 .. 1 -> Nat] /\ c.second \in [1 .. 1 -> Nat]
    BY <1>0, <1>6 DEF Legal
  <2>2. c.address \in Seq(Nat) /\ c.category \in Seq(Nat) /\ c.second \in Seq(Nat)
    <3>1. c.address \in Seq(Nat)
      BY ONLY <1>3, <2>1, PairsOf
    <3>2. c.category \in Seq(Nat)
      BY ONLY <1>3, <2>1, TextOf
    <3>3. c.second \in Seq(Nat)
      BY ONLY <1>3, <2>1, TextOf
    <3> QED
      BY <3>1, <3>2, <3>3
  <2>3. Encoded(c) = HeadOf(c) \o (c.address \o c.category \o c.self_id \o c.command \o c.second) \o c.check
    BY <1>6 DEF Encoded, HeadOf
  <2>4. InRow(HeadOf(c) \o (c.address \o c.category \o c.self_id \o c.command \o c.second) \o c.check,
            HeadOf(c), c.address, c.category, c.self_id, c.command, c.second, c.check)
    BY <1>1, <1>2, <1>4, <2>2, Row
  <2> QED
    BY <2>3, <2>4 DEF InRow
<1> QED
  BY <1>5, <1>6

LEMMA TransmitKeeps ==
  ASSUME DscInv, NEW s \in Seq(Nat), NEW b \in Nat, NEW a \in Nat, a <= DscByteBits, Transmit(s, b, a)
  PROVE  DscInv'
<1>1. incoming' = Silence(b) \o Bits(s) \o Silence(a) /\ UNCHANGED <<clock, last_call, rate, told>>
  BY DEF Transmit
<1>2. PICK x : x = Silence(b) \o Bits(s) \o Silence(a) /\ AirIs(x, b, s, a)
  BY AirBuilt
<1>3. AirOK(x)
  BY <1>2, AirStarts
<1>4. AirOK(incoming')
  BY <1>1, <1>2, <1>3
<1>5. AirOK(incoming)'
  BY <1>4 DEF AirOK
<1> QED
  BY <1>1, <1>5 DEF DscInv, TimeOK, SpacedOut

\* Nothing told, or a call that passed the filters.
LEMMA ReceiveCases ==
  ASSUME NEW p \in Pauses, Receive(p)
  PROVE  /\ incoming' = SubSeq(incoming, ChunkBits + 1, Len(incoming)) /\ clock' = clock + p
         /\ \/ told' = NoCall /\ UNCHANGED <<last_call, rate>> /\ (Chunk = <<>> \/ CallIn(Chunk) = <<>>)
            \/ /\ Chunk # <<>> /\ CallIn(Chunk) # <<>>
               /\ last_call' = [symbols |-> CallIn(Chunk), time |-> clock]
               /\ rate' = IF Allowed(RateWindow) THEN [RateWindow EXCEPT !.count = @ + 1] ELSE RateWindow
               /\ told' = IF Allowed(RateWindow) THEN Fields(CallIn(Chunk)) ELSE NoCall
<1>1. CASE Chunk = <<>>
  BY <1>1 DEF Receive
<1>2. CASE Chunk # <<>> /\ CallIn(Chunk) = <<>>
  BY <1>2 DEF Receive
<1>3. CASE Chunk # <<>> /\ CallIn(Chunk) # <<>>
  BY <1>3 DEF Receive
<1> QED
  BY <1>1, <1>2, <1>3

LEMMA ReceiveKeeps ==
  ASSUME DscInv, NEW p \in Pauses, Receive(p)
  PROVE  DscInv'
<1>1. AirOK(incoming) /\ TimeOK /\ SpacedOut
  BY DEF DscInv
<1>2. AirOK(incoming')
  <2>1. ChunkBits \in Nat
    BY DscAssumption
  <2>2. AirOK(SubSeq(incoming, ChunkBits + 1, Len(incoming)))
    BY <1>1, <2>1, AirGoesOn
  <2> QED
    BY <2>2, ReceiveCases
<1>3. AirOK(incoming)'
  BY <1>2 DEF AirOK
<1>4. PICK t \in Nat, q \in Nat : t = clock /\ q = p /\ clock' = t + q
  BY <1>1, ReceiveCases, DscAssumption DEF TimeOK
<1>5. CASE UNCHANGED <<last_call, rate>>
  <2>1. TimeOK' /\ SpacedOut'
    BY <1>1, <1>4, <1>5 DEF TimeOK, SpacedOut, RateType
  <2> QED
    BY <1>3, <2>1 DEF DscInv
<1>6. CASE Chunk # <<>> /\ CallIn(Chunk) # <<>>
  <2>1. PICK s : s = CallIn(Chunk) /\ s # <<>>
    BY <1>6
  <2>2. ~TooSoon
    BY <1>6 DEF CallIn
  <2>3. /\ Allowed(RateWindow) /\ RateWindow \in RateType /\ RateWindow.start <= clock
        /\ Interval * (RateWindow.count + 1) <= clock - RateWindow.start + Interval
    BY <1>1, <2>2, RateAllows
  <2>4. PICK b \in Nat, n \in Nat : b = RateWindow.start /\ n = RateWindow.count
                                    /\ RateWindow = [start |-> b, count |-> n]
    BY <2>3 DEF RateType
  <2>5. rate' = [start |-> b, count |-> n + 1] /\ last_call' = [symbols |-> s, time |-> t]
    BY <1>4, <1>6, <2>1, <2>3, <2>4, ReceiveCases
  <2>6. rate' \in RateType /\ rate'.start = b /\ rate'.count = n + 1 /\ last_call'.time = t
        /\ last_call'.symbols = s
    BY <2>5 DEF RateType
  <2>7. b <= t /\ t <= t + q
    BY <1>4, <2>3, <2>4
  <2>8. TimeOK'
    BY <1>4, <2>6, <2>7 DEF TimeOK, RateType
  <2>9. Interval * (n + 1) <= t - b + Interval
    BY <1>4, <2>3, <2>4
  <2>10. SpacedOut'
    BY <2>1, <2>6, <2>7, <2>9 DEF SpacedOut
  <2> QED
    BY <1>3, <2>8, <2>10 DEF DscInv
<1> QED
  BY <1>5, <1>6, ReceiveCases

LEMMA DscKeeps ==
  ASSUME DscInv, [DscNext]_dscVars
  PROVE  DscInv'
<1>1. CASE UNCHANGED dscVars
  BY <1>1 DEF dscVars, DscInv, AirOK, TimeOK, SpacedOut
<1>2. CASE \E p \in Pauses : Receive(p)
  BY <1>2, ReceiveKeeps
<1>3. CASE \E c, d \in Calls, b \in 0 .. WordBits - 1, a \in {0, DscByteBits} :
             Transmit(Encoded(c), b, a) \/ Transmit(Encoded(c) \o Encoded(d), b, a)
  <2>1. PICK c \in Calls, d \in Calls, b \in 0 .. WordBits - 1, a \in {0, DscByteBits} :
             Transmit(Encoded(c), b, a) \/ Transmit(Encoded(c) \o Encoded(d), b, a)
    BY <1>3
  <2>2. Encoded(c) \in Seq(Nat) /\ Encoded(d) \in Seq(Nat)
    BY SymbolsLegal
  <2>3. Encoded(c) \o Encoded(d) \in Seq(Nat)
    BY <2>2, Joined
  <2>4. b \in Nat /\ a \in Nat /\ a <= DscByteBits
    <3>1. DscByteBits \in Nat /\ WordBits \in Nat
      BY DscAssumption
    <3> QED
      BY <3>1
  <2> QED
    BY <2>1, <2>2, <2>3, <2>4, TransmitKeeps
<1> QED
  BY <1>1, <1>2, <1>3 DEF DscNext

\* With two repetitions asked for, no symbols are a call.
LEMMA NothingPasses ==
  ASSUME MinEosRepeats >= 2, NEW x, Len(x) \in Nat
  PROVE  CallIn(x) = <<>>
<1>0. PICK off \in 0 .. WordBits - 1 : off = BestOffset(x)
  BY BestIsThere
<1>1. PICK s : s = Symbols(x, off)
  OBVIOUS
<1>2. PICK S : s \in Seq(S)
  <2>1. off \in Int
    BY DscAssumption
  <2> QED
    BY <1>1, <2>1, SymbolsAre
<1>3. ~WellFormed(s)
  <2>1. CASE \E i \in 1 .. Len(s) : s[i] \in EndSymbols
    <3>1. EosRepeats(s) = 1 /\ MinEosRepeats \in Nat
      BY <1>2, <2>1, EndStands, DscAssumption
    <3>2. ~(EosRepeats(s) >= MinEosRepeats)
      BY <3>1
    <3> QED
      BY <3>2 DEF WellFormed
  <2>2. CASE ~\E i \in 1 .. Len(s) : s[i] \in EndSymbols
    <3>1. EosIdx(s) = 0
      BY <2>2 DEF EosIdx, SelectLastInSeq
    <3> QED
      BY <3>1 DEF WellFormed
  <2> QED
    BY <2>1, <2>2
<1> QED
  BY <1>0, <1>1, <1>3 DEF CallIn

LEMMA NothingReceived ==
  ASSUME DscInv, MinEosRepeats >= 2, NEW p \in Pauses, Receive(p)
  PROVE  told' = NoCall
<1>1. CASE Chunk = <<>>
  BY <1>1, ReceiveCases
<1>2. CASE Chunk # <<>>
  <2>1. incoming \in Seq(CallBit) /\ ChunkBits \in Nat /\ DscByteBits \in Nat \ {0}
    BY DscAssumption DEF DscInv, AirOK
  <2>2. PICK l \in Nat : l = IF Len(incoming) < ChunkBits THEN Len(incoming) ELSE ChunkBits
    BY <2>1
  <2>3. Chunk = SubSeq(incoming, 1, DscByteBits * (l \div DscByteBits))
    BY <1>2, <2>2 DEF Chunk
  <2>4. PICK m \in Nat : m = DscByteBits * (l \div DscByteBits) /\ m <= l
    <3>1. PICK b \in Nat \ {0} : b = DscByteBits
      BY <2>1
    <3>2. l \div b \in Nat /\ l % b \in 0 .. b - 1 /\ l = b * (l \div b) + (l % b)
      BY <3>1, Dividing
    <3>3. PICK q \in Nat : q = l \div b
      BY <3>2
    <3>4. PICK m \in Nat : m = b * q
      OBVIOUS
    <3> QED
      BY <3>1, <3>2, <3>3, <3>4
  <2>5. Len(Chunk) \in Nat
    <3>1. m <= Len(incoming)
      <4>1. PICK a \in Nat, b \in Nat : a = Len(incoming) /\ b = ChunkBits
        BY <2>1
      <4>2. l <= a
        BY <2>2, <4>1
      <4> QED
        BY <2>4, <4>1, <4>2
    <3>2. Chunk = SubSeq(incoming, 1, m)
      BY <2>3, <2>4
    <3>3. Chunk \in Seq(CallBit)
      BY <2>1, <2>4, <3>1, <3>2
    <3> QED
      BY <3>3
  <2>6. CallIn(Chunk) = <<>>
    BY <2>5, NothingPasses
  <2> QED
    BY <2>6, ReceiveCases
<1> QED
  BY <1>1, <1>2

LEMMA WholeCallPasses ==
  ASSUME MinEosRepeats <= 1, DscInv, [DscNext]_dscVars
  PROVE  [\A c \in Calls :
           /\ incoming # <<>> /\ incoming' # incoming
           /\ IsCall(Chunk, Encoded(c)) /\ ~Repeated(Encoded(c)) /\ ~TooSoon
           => \A f \in DOMAIN c \ {"repeated", "check"} : f \in DOMAIN told' /\ told'[f] = c[f]]_dscVars
<1>1. SUFFICES ASSUME DscInv, DscNext, NEW c \in Calls, incoming # <<>>, incoming' # incoming,
                      IsCall(Chunk, Encoded(c)), ~Repeated(Encoded(c)), ~TooSoon,
                      NEW f \in DOMAIN c \ {"repeated", "check"}
               PROVE  f \in DOMAIN told' /\ told'[f] = c[f]
  BY DEF dscVars
<1>2. PICK p \in Pauses : Receive(p)
  BY <1>1 DEF DscNext, Transmit
<1>3. /\ Chunk # <<>> /\ CallIn(Chunk) = Encoded(c) /\ Encoded(c) # <<>> /\ Allowed(RateWindow)
      /\ f \in DOMAIN Fields(Encoded(c)) /\ Fields(Encoded(c))[f] = c[f]
  BY <1>1, CallPasses
<1>4. told' = Fields(Encoded(c))
  BY <1>2, <1>3, ReceiveCases
<1> QED
  BY <1>3, <1>4

\* What the repetitions asked for decide (min_eos_repeats): with none or one, a
\* call that comes whole and alone in a chunk reaches the client with every
\* field as it was sent, and allow_dsc_message never stops it; with two or
\* more, as PushPluginConfig asks for, no call ever reaches the client.
THEOREM WholeCallsAreTold ==
  DscSpec => /\ (MinEosRepeats <= 1 => WholeCallTold)
             /\ (MinEosRepeats >= 2 => [](told = NoCall))
<1>1. DscInit => DscInv /\ told = NoCall
  BY DscStarts DEF DscInit
<1>2. DscInv /\ [DscNext]_dscVars => DscInv'
  BY DscKeeps
<1>3. ASSUME MinEosRepeats <= 1
      PROVE  DscSpec => WholeCallTold
  <2>1. DscInv /\ [DscNext]_dscVars =>
          [\A c \in Calls :
             /\ incoming # <<>> /\ incoming' # incoming
             /\ IsCall(Chunk, Encoded(c)) /\ ~Repeated(Encoded(c)) /\ ~TooSoon
             => \A f \in DOMAIN c \ {"repeated", "check"} : f \in DOMAIN told' /\ told'[f] = c[f]]_dscVars
    BY <1>3, WholeCallPasses
  <2> QED
    BY <1>1, <1>2, <2>1, PTL DEF DscSpec, WholeCallTold
<1>4. ASSUME MinEosRepeats >= 2
      PROVE  DscSpec => [](told = NoCall)
  <2>1. DscInv /\ told = NoCall /\ [DscNext]_dscVars => (told = NoCall)'
    BY <1>4, NothingReceived DEF DscNext, Transmit, dscVars, NoCall
  <2> QED
    BY <1>1, <1>2, <2>1, PTL DEF DscSpec
<1> QED
  BY <1>3, <1>4

-----------------------------------------------------------------------------
(* Going through a sequence *)

\* A recursive function that goes step by step through 1 .. len.
Runs(g, len, base, step) ==
  g = [n \in 0 .. len |-> IF n = 0 THEN base ELSE step[n][g[n - 1]]]

LEMMA RunExists ==
  ASSUME NEW len \in Nat, NEW X, NEW base \in X, NEW step \in [1 .. len -> [X -> X]]
  PROVE  \E g \in [0 .. len -> X] : Runs(g, len, base, step)
<1> DEFINE T == {n \in 0 .. len : \E g \in [0 .. n -> X] : Runs(g, n, base, step)}
<1>1. 0 \in T
  <2> DEFINE g == [n \in 0 .. 0 |-> base]
  <2>1. g \in [0 .. 0 -> X] /\ Runs(g, 0, base, step)
    BY DEF Runs
  <2> QED
    BY <2>1
<1>2. ASSUME NEW n \in 0 .. len, n < len, n \in T
      PROVE  n + 1 \in T
  <2>1. PICK h \in [0 .. n -> X] : Runs(h, n, base, step)
    BY <1>2
  <2>2. n \in 0 .. n /\ n + 1 \in 1 .. len
    BY <1>2
  <2>3. PICK last \in X : last = step[n + 1][h[n]]
    <3>1. h[n] \in X /\ step[n + 1] \in [X -> X]
      BY <2>2
    <3> QED
      BY <3>1
  <2> DEFINE g == [m \in 0 .. n + 1 |-> IF m = n + 1 THEN last ELSE h[m]]
  <2>4. \A m \in 0 .. n + 1 : m = n + 1 \/ m \in 0 .. n
    OBVIOUS
  <2>5. \A m \in 0 .. n : g[m] = h[m] /\ m \in 0 .. n + 1
    OBVIOUS
  <2>6. g \in [0 .. n + 1 -> X]
    BY <2>4
  <2>7. g[n + 1] = last /\ n + 1 # 0 /\ (n + 1) - 1 = n
    OBVIOUS
  <2> HIDE DEF g
  <2>8. ASSUME NEW m \in 0 .. n + 1
        PROVE  g[m] = IF m = 0 THEN base ELSE step[m][g[m - 1]]
    <3>1. CASE m = n + 1
      BY <2>2, <2>3, <2>5, <2>7, <3>1
    <3>2. CASE m \in 0 .. n
      <4>1. h[m] = IF m = 0 THEN base ELSE step[m][h[m - 1]]
        BY <2>1, <3>2 DEF Runs
      <4>2. m # 0 => m - 1 \in 0 .. n
        BY <3>2
      <4> QED
        BY <2>5, <3>2, <4>1, <4>2
    <3> QED
      BY <2>4, <3>1, <3>2
  <2>9. Runs(g, n + 1, base, step)
    BY <2>6, <2>8 DEF Runs
  <2>10. n + 1 \in 0 .. len
    BY <2>2
  <2> QED
    BY <2>6, <2>9, <2>10
<1>3. \A n \in 0 .. len : n \in T
  <2> HIDE DEF T
  <2> QED
    BY <1>1, <1>2, Upwards
<1>4. len \in 0 .. len
  OBVIOUS
<1> QED
  BY <1>3, <1>4

-----------------------------------------------------------------------------
(* The transmitter *)

Binary == {0, 1}

StuffType == [ones : 0 .. StuffAfter - 1, out : Seq(Binary)]

StuffBase == [ones |-> 0, out |-> <<>>]

LEMMA PutKeeps ==
  ASSUME NEW t \in StuffType, NEW v \in Binary
  PROVE  Put(t, v) \in StuffType
<1>1. StuffAfter \in Nat \ {0}
  BY FramingAssumption
<1>2. t.out \o <<1, 0>> \in Seq(Binary) /\ Append(t.out, v) \in Seq(Binary)
  <2>1. <<1, 0>> \in Seq(Binary)
    BY DEF Binary
  <2> QED
    BY <2>1 DEF StuffType
<1>3. CASE v = 1 /\ t.ones + 1 = StuffAfter
  BY <1>1, <1>2, <1>3 DEF StuffType, Put
<1>4. CASE ~(v = 1 /\ t.ones + 1 = StuffAfter)
  <2>1. (IF v = 1 THEN t.ones + 1 ELSE 0) \in 0 .. StuffAfter - 1
    BY <1>1, <1>4 DEF StuffType
  <2> QED
    BY <1>2, <1>4, <2>1 DEF StuffType, Put
<1> QED
  BY <1>3, <1>4

\* The steps of stuffing s.
StuffSteps(g, s) ==
  /\ \A n \in 0 .. Len(s) : g[n] \in StuffType
  /\ g[0] = StuffBase
  /\ \A n \in 1 .. Len(s) : g[n] = Put(g[n - 1], s[n])
  /\ Stuffed(s) = g[Len(s)].out

StuffRun(s) == CHOOSE g : StuffSteps(g, s)

LEMMA StuffRuns ==
  ASSUME NEW s \in Seq(Binary)
  PROVE  StuffSteps(StuffRun(s), s)
<1>0. PICK len \in Nat : len = Len(s)
  OBVIOUS
<1> DEFINE step == [n \in 1 .. len |-> [t \in StuffType |-> Put(t, s[n])]]
<1>1. StuffBase \in StuffType
  BY FramingAssumption DEF StuffType, StuffBase
<1>2. step \in [1 .. len -> [StuffType -> StuffType]]
  <2>1. \A n \in 1 .. len : s[n] \in Binary
    BY <1>0
  <2> QED
    BY <2>1, PutKeeps
<1>3. PICK f \in [0 .. len -> StuffType] : Runs(f, len, StuffBase, step)
  <2> HIDE DEF step
  <2> QED
    BY <1>1, <1>2, RunExists
<1> DEFINE Unfolds(h) == h = [n \in 0 .. len |->
             IF n = 0 THEN [ones |-> 0, out |-> <<>>] ELSE Put(h[n - 1], s[n])]
           e == CHOOSE h : Unfolds(h)
<1>4. Unfolds(f)
  <2>1. \A n \in 0 .. len : n # 0 => n - 1 \in 0 .. len /\ n \in 1 .. len
    OBVIOUS
  <2>2. \A n \in 0 .. len : f[n] = IF n = 0 THEN StuffBase ELSE Put(f[n - 1], s[n])
    BY <1>3, <2>1 DEF Runs
  <2> QED
    BY <1>3, <2>2 DEF StuffBase
<1>5. Unfolds(e)
  BY <1>4
<1>6. Stuffed(s) = e[len].out
  BY <1>0 DEF Stuffed
<1> HIDE DEF e
<1>7. /\ e[0] = StuffBase
      /\ \A n \in 1 .. len : n \in 0 .. len /\ n - 1 \in 0 .. len /\ e[n] = Put(e[n - 1], s[n])
  BY <1>5 DEF StuffBase
<1>8. \A n \in 0 .. len : e[n] \in StuffType
  <2> DEFINE T == {n \in 0 .. len : e[n] \in StuffType}
  <2>1. 0 \in T
    BY <1>1, <1>7
  <2>2. ASSUME NEW n \in 0 .. len, n < len, n \in T
        PROVE  n + 1 \in T
    <3>1. n + 1 \in 1 .. len /\ (n + 1) - 1 = n
      BY <2>2
    <3>2. s[n + 1] \in Binary
      BY <1>0, <3>1
    <3> QED
      BY <1>7, <2>2, <3>1, <3>2, PutKeeps
  <2>3. \A n \in 0 .. len : n \in T
    <3> HIDE DEF T
    <3> QED
      BY <2>1, <2>2, Upwards
  <2> QED
    BY <2>3
<1>9. StuffSteps(e, s)
  BY <1>0, <1>6, <1>7, <1>8 DEF StuffSteps
<1> QED
  BY <1>9 DEF StuffRun

\* What was put out stays in front.
LEMMA StuffedGrows ==
  ASSUME NEW s \in Seq(Binary), NEW g, StuffSteps(g, s), NEW n \in 0 .. Len(s)
  PROVE  /\ Stuffed(s) \in Seq(Binary) /\ Len(g[n].out) <= Len(Stuffed(s))
         /\ \A q \in 1 .. Len(g[n].out) : Stuffed(s)[q] = g[n].out[q]
<1>0. PICK len \in Nat : len = Len(s)
  OBVIOUS
<1>1. PICK x \in Seq(Binary) : x = g[n].out
  BY DEF StuffSteps, StuffType
<1> DEFINE T == {m \in n .. len : Len(x) <= Len(g[m].out) /\ \A q \in 1 .. Len(x) : g[m].out[q] = x[q]}
<1>2. n \in T
  BY <1>0, <1>1
<1>3. ASSUME NEW m \in n .. len, m < len, m \in T
      PROVE  m + 1 \in T
  <2>1. m \in 0 .. len /\ m + 1 \in 1 .. len /\ m + 1 \in n .. len /\ (m + 1) - 1 = m
    BY <1>0, <1>3
  <2>2. PICK y \in Seq(Binary) : y = g[m].out
    BY <1>0, <2>1 DEF StuffSteps, StuffType
  <2>3. PICK v \in Binary : v = s[m + 1]
    BY <1>0, <2>1
  <2>4. g[m + 1] = Put(g[m], v)
    BY <1>0, <2>1, <2>3 DEF StuffSteps
  <2>5. g[m + 1].out = y \o <<1, 0>> \/ g[m + 1].out = Append(y, v)
    <3>1. CASE v = 1 /\ g[m].ones + 1 = StuffAfter
      BY <2>2, <2>4, <3>1 DEF Put
    <3>2. CASE ~(v = 1 /\ g[m].ones + 1 = StuffAfter)
      BY <2>2, <2>4, <3>2 DEF Put
    <3> QED
      BY <3>1, <3>2
  <2>6. Len(x) <= Len(y) /\ \A q \in 1 .. Len(x) : y[q] = x[q]
    BY <1>3, <2>2
  <2>7. <<1, 0>> \in Seq(Binary)
    BY DEF Binary
  <2>8. /\ Len(y) <= Len(g[m + 1].out)
        /\ \A q \in 1 .. Len(y) : g[m + 1].out[q] = y[q]
    <3>1. PICK z : z = g[m + 1].out
      OBVIOUS
    <3>2. CASE z = y \o <<1, 0>>
      <4>1. Len(z) = Len(y) + 2 /\ \A q \in 1 .. Len(y) : z[q] = y[q]
        BY ONLY <2>2, <2>7, <3>2, ConcatProperties
      <4> QED
        BY ONLY <2>2, <3>1, <4>1
    <3>3. CASE z = Append(y, v)
      <4>1. Len(z) = Len(y) + 1 /\ \A q \in 1 .. Len(y) : z[q] = y[q]
        BY ONLY <2>2, <2>3, <3>3
      <4> QED
        BY ONLY <2>2, <3>1, <4>1
    <3> QED
      BY <2>5, <3>1, <3>2, <3>3
  <2>9. /\ Len(x) <= Len(g[m + 1].out)
        /\ \A q \in 1 .. Len(x) : g[m + 1].out[q] = x[q]
    <3>1. Len(g[m + 1].out) \in Nat
      BY <2>2, <2>3, <2>5, <2>7
    <3>2. \A q \in 1 .. Len(x) : q \in 1 .. Len(y)
      BY <2>6
    <3> QED
      BY <2>6, <2>8, <3>1, <3>2
  <2> QED
    BY <2>1, <2>9
<1>4. \A m \in n .. len : m \in T
  <2>1. n \in Nat
    OBVIOUS
  <2> HIDE DEF T
  <2> QED
    BY <1>2, <1>3, <2>1, Upwards
<1>5. len \in n .. len /\ len \in 0 .. len
  BY <1>0
<1> QED
  BY <1>0, <1>1, <1>4, <1>5 DEF StuffSteps, StuffType
\* A payload with its check sequence, in bytes.
Body(p) == p \o FirstByte(p)

\* Where the frame begins, where it ends, and where the burst does.
Ahead     == Len(Training) + StuffAfter + 3
FrameEnd(p) == Ahead + Len(Stuffed(Body(p)))
Total(p)  == FrameEnd(p) + StuffAfter + 3

FlagBit(i) == IF i = 1 \/ i = StuffAfter + 3 THEN 0 ELSE 1

\* The second of two sequences begins where the first ends.
Follows(x, s, t) ==
  /\ x \in Seq(Binary) /\ Len(x) = Len(s) + Len(t)
  /\ \A i \in 1 .. Len(s) : x[i] = s[i]
  /\ \A i \in 1 .. Len(t) : x[Len(s) + i] = t[i]

LEMMA Beginning ==
  ASSUME NEW s \in Seq(Binary), NEW t \in Seq(Binary), NEW x, x = s \o t
  PROVE  Follows(x, s, t)
<1>1. PICK n \in Nat, l \in Nat : n = Len(s) /\ l = Len(t)
  OBVIOUS
<1>2. /\ x \in Seq(Binary) /\ Len(x) = Len(s) + Len(t)
      /\ \A i \in 1 .. Len(s) + Len(t) : x[i] = IF i <= Len(s) THEN s[i] ELSE t[i - Len(s)]
  BY ConcatProperties
<1>3. Len(x) = n + l /\ \A i \in 1 .. n + l : x[i] = IF i <= n THEN s[i] ELSE t[i - n]
  BY <1>1, <1>2
<1>4. \A i \in 1 .. n : x[i] = s[i]
  BY ONLY <1>3
<1>5. \A i \in 1 .. l : n + i \in 1 .. n + l /\ ~(n + i <= n) /\ (n + i) - n = i
  OBVIOUS
<1>6. \A i \in 1 .. l : x[n + i] = t[i]
  BY <1>3, <1>5
<1> QED
  BY <1>1, <1>2, <1>4, <1>6 DEF Follows

LEMMA BodyIs ==
  ASSUME NEW p \in Payloads
  PROVE  /\ p \in Seq(Binary) /\ Body(p) \in Seq(Binary)
         /\ ByteBits <= Len(p) /\ Len(Body(p)) = Len(p) + ByteBits
         /\ \A i \in 1 .. Len(p) : Body(p)[i] = p[i]
         /\ \A i \in 1 .. ByteBits : Body(p)[Len(p) + i] = p[i]
<1>1. p \in Seq(Binary) /\ Len(p) >= ByteBits /\ ByteBits \in Nat \ {0}
  BY FramingAssumption DEF Binary
<1>2. PICK n \in Nat, b \in Nat : n = Len(p) /\ b = ByteBits /\ b <= n /\ b > 0
  BY <1>1
<1>3. \A i \in 1 .. b : i \in 1 .. n /\ p[i] \in Binary
  BY <1>1, <1>2
<1>4. 1 \in Int /\ b \in Int
  OBVIOUS
<1>5. PICK f : f = SubSeq(p, 1, b)
  OBVIOUS
<1>6. /\ f \in Seq(Binary) /\ Len(f) = IF 1 <= b THEN b - 1 + 1 ELSE 0
      /\ \A i \in 1 .. b - 1 + 1 : f[i] = p[1 + i - 1]
  BY ONLY <1>3, <1>4, <1>5, SubSeqProperties
<1>7. Len(f) = b /\ \A i \in 1 .. b : f[i] = p[i]
  BY ONLY <1>2, <1>6
<1>8. PICK s : s = p \o f
  OBVIOUS
<1>9. Follows(s, p, f)
  BY <1>1, <1>6, <1>8, Beginning
<1>10. s \in Seq(Binary) /\ Len(s) = n + b /\ \A i \in 1 .. n : s[i] = p[i]
  BY <1>2, <1>7, <1>9 DEF Follows
<1>11. \A i \in 1 .. b : s[n + i] = p[i]
  BY <1>2, <1>7, <1>9 DEF Follows
<1>12. s = Body(p)
  BY <1>2, <1>5, <1>8 DEF Body, FirstByte
<1> QED
  BY <1>1, <1>2, <1>9, <1>10, <1>11, <1>12

LEMMA FlagIs ==
  /\ Flag \in Seq(Binary) /\ Len(Flag) = StuffAfter + 3
  /\ \A i \in 1 .. StuffAfter + 3 : Flag[i] = FlagBit(i)
<1>1. PICK n \in Nat : n = StuffAfter + 1
  BY FramingAssumption
<1>2. PICK o : o = [i \in 1 .. n |-> 1]
  OBVIOUS
<1>3. o \in Seq(Binary) /\ Len(o) = n /\ \A i \in 1 .. n : o[i] = 1
  BY <1>2 DEF Binary
<1>4. <<0>> \in Seq(Binary) /\ Len(<<0>>) = 1 /\ <<0>>[1] = 0
  BY DEF Binary
<1>5. PICK x : x = <<0>> \o o
  OBVIOUS
<1>6. /\ x \in Seq(Binary) /\ Len(x) = 1 + n
      /\ \A i \in 1 .. 1 + n : x[i] = IF i <= 1 THEN <<0>>[i] ELSE o[i - 1]
  BY ONLY <1>3, <1>4, <1>5, ConcatProperties
<1>7. PICK y : y = x \o <<0>>
  OBVIOUS
<1>8. /\ y \in Seq(Binary) /\ Len(y) = 1 + n + 1
      /\ \A i \in 1 .. 1 + n + 1 : y[i] = IF i <= 1 + n THEN x[i] ELSE <<0>>[i - (1 + n)]
  BY ONLY <1>4, <1>6, <1>7, ConcatProperties
<1>9. ASSUME NEW i \in 1 .. n + 2
      PROVE  y[i] = IF i = 1 \/ i = n + 2 THEN 0 ELSE 1
  <2>1. CASE i = 1
    BY <1>4, <1>6, <1>8, <2>1
  <2>2. CASE i = n + 2
    <3>1. ~(i <= 1 + n) /\ i - (1 + n) = 1 /\ i \in 1 .. 1 + n + 1
      BY <2>2
    <3> QED
      BY <1>4, <1>8, <2>2, <3>1
  <2>3. CASE i # 1 /\ i # n + 2
    <3>1. i <= 1 + n /\ ~(i <= 1) /\ i - 1 \in 1 .. n /\ i \in 1 .. 1 + n /\ i \in 1 .. 1 + n + 1
      BY <2>3
    <3> QED
      BY <1>3, <1>6, <1>8, <2>3, <3>1
  <2> QED
    BY <2>1, <2>2, <2>3
<1>10. y = Flag
  BY <1>1, <1>2, <1>5, <1>7 DEF Flag, Ones
<1>11. n + 2 = StuffAfter + 3 /\ 1 + n + 1 = StuffAfter + 3
  BY <1>1, FramingAssumption
<1> QED
  BY <1>8, <1>9, <1>10, <1>11 DEF FlagBit

MessageOf(m, p) ==
  /\ m \in Seq(Binary) /\ Len(m) = Total(p)
  /\ \A i \in 1 .. StuffAfter + 3 : m[Len(Training) + i] = FlagBit(i)
  /\ \A i \in 1 .. Len(Stuffed(Body(p))) : m[Ahead + i] = Stuffed(Body(p))[i]
  /\ \A i \in 1 .. StuffAfter + 3 : m[FrameEnd(p) + i] = FlagBit(i)

LEMMA MessageIs ==
  ASSUME NEW p \in Payloads
  PROVE  MessageOf(Message(p), p)
<1>1. PICK t \in Nat : t = Len(Training) /\ Training \in Seq(Binary)
  BY FramingAssumption DEF Binary
<1>2. PICK f \in Nat : f = StuffAfter + 3
  BY FramingAssumption
<1>3. Flag \in Seq(Binary) /\ Len(Flag) = f /\ \A i \in 1 .. f : Flag[i] = FlagBit(i)
  BY <1>2, FlagIs
<1>4. PICK w \in Seq(Binary) : w = Stuffed(Body(p))
  <2>1. Body(p) \in Seq(Binary)
    BY BodyIs
  <2>2. 0 \in 0 .. Len(Body(p))
    BY <2>1
  <2> QED
    BY <2>1, <2>2, StuffRuns, StuffedGrows
<1>5. PICK l \in Nat : l = Len(w)
  OBVIOUS
<1>6. PICK x : x = Training \o Flag
  OBVIOUS
<1>7. /\ x \in Seq(Binary) /\ Len(x) = t + f
      /\ \A i \in 1 .. f : x[t + i] = Flag[i]
  <2>1. Follows(x, Training, Flag)
    BY <1>1, <1>3, <1>6, Beginning
  <2> QED
    BY <1>1, <1>3, <2>1 DEF Follows
<1>8. PICK y : y = x \o w
  OBVIOUS
<1>10. /\ y \in Seq(Binary) /\ Len(y) = t + f + l
       /\ \A i \in 1 .. t + f : y[i] = x[i]
       /\ \A i \in 1 .. l : y[t + f + i] = w[i]
  <2>1. Follows(y, x, w)
    BY <1>7, <1>8, Beginning
  <2> QED
    BY <1>5, <1>7, <2>1 DEF Follows
<1>11. PICK z : z = y \o Flag
  OBVIOUS
<1>12. /\ z \in Seq(Binary) /\ Len(z) = t + f + l + f
       /\ \A i \in 1 .. t + f + l : z[i] = y[i]
       /\ \A i \in 1 .. f : z[t + f + l + i] = Flag[i]
  <2>1. Follows(z, y, Flag)
    BY <1>3, <1>10, <1>11, Beginning
  <2> QED
    BY <1>3, <1>10, <2>1 DEF Follows
<1>13. ASSUME NEW i \in 1 .. f
       PROVE  z[t + i] = FlagBit(i)
  <2>1. t + i \in 1 .. t + f /\ t + i \in 1 .. t + f + l
    OBVIOUS
  <2> QED
    BY <1>3, <1>7, <1>10, <1>12, <2>1
<1>14. ASSUME NEW i \in 1 .. l
       PROVE  z[t + f + i] = w[i]
  <2>1. t + f + i \in 1 .. t + f + l
    OBVIOUS
  <2> QED
    BY <1>10, <1>12, <2>1
<1>15. z = Message(p)
  BY <1>4, <1>6, <1>8, <1>11 DEF Message, Body
<1>16. Ahead = t + f /\ FrameEnd(p) = t + f + l /\ Total(p) = t + f + l + f
  <2>1. StuffAfter \in Nat
    BY FramingAssumption
  <2> QED
    BY <1>1, <1>2, <1>4, <1>5, <2>1 DEF Ahead, FrameEnd, Total
<1> QED
  <2>1. z \in Seq(Binary) /\ Len(z) = Total(p)
    BY <1>12, <1>16
  <2>2. \A i \in 1 .. f : z[Len(Training) + i] = FlagBit(i)
    BY <1>1, <1>13
  <2>3. \A i \in 1 .. l : z[Ahead + i] = Stuffed(Body(p))[i]
    BY <1>4, <1>14, <1>16
  <2>4. \A i \in 1 .. f : z[FrameEnd(p) + i] = FlagBit(i)
    BY <1>3, <1>12, <1>16
  <2>5. f = StuffAfter + 3 /\ l = Len(Stuffed(Body(p)))
    BY <1>2, <1>4, <1>5
  <2> QED
    BY <1>15, <2>1, <2>2, <2>3, <2>4, <2>5 DEF MessageOf

\* The levels of s.
LEMMA LevelsAre ==
  ASSUME NEW s \in Seq(Binary), NEW level \in Binary
  PROVE  /\ Levels(s, level) \in Seq(Binary) /\ Len(Levels(s, level)) = Len(s)
         /\ \A n \in 2 .. Len(s) :
              s[n] = IF Levels(s, level)[n] = Levels(s, level)[n - 1] THEN 1 ELSE 0
<1>0. PICK len \in Nat : len = Len(s)
  OBVIOUS
<1> DEFINE step == [n \in 1 .. len |-> [l \in Binary |-> IF s[n] = 0 THEN 1 - l ELSE l]]
<1>1. step \in [1 .. len -> [Binary -> Binary]]
  BY DEF Binary
<1>2. PICK f \in [0 .. len -> Binary] : Runs(f, len, level, step)
  <2> HIDE DEF step
  <2> QED
    BY <1>1, RunExists
<1> DEFINE Unfolds(h) == h = [n \in 0 .. len |->
             IF n = 0 THEN level ELSE IF s[n] = 0 THEN 1 - h[n - 1] ELSE h[n - 1]]
           e == CHOOSE h : Unfolds(h)
<1>3. Unfolds(f)
  <2>1. \A n \in 0 .. len : n # 0 => n - 1 \in 0 .. len /\ n \in 1 .. len
    OBVIOUS
  <2>2. \A n \in 0 .. len : f[n] = IF n = 0 THEN level ELSE IF s[n] = 0 THEN 1 - f[n - 1] ELSE f[n - 1]
    BY <1>2, <2>1 DEF Runs
  <2> QED
    BY <1>2, <2>2
<1>4. Unfolds(e)
  BY <1>3
<1>5. Levels(s, level) = [n \in 1 .. len |-> e[n]]
  BY <1>0 DEF Levels
<1> HIDE DEF e
<1>6. e[0] = level /\ \A n \in 1 .. len : /\ n \in 0 .. len /\ n - 1 \in 0 .. len
                                          /\ e[n] = IF s[n] = 0 THEN 1 - e[n - 1] ELSE e[n - 1]
  BY <1>4
<1>7. \A n \in 0 .. len : e[n] \in Binary
  <2> DEFINE T == {n \in 0 .. len : e[n] \in Binary}
  <2>1. 0 \in T
    BY <1>6
  <2>2. ASSUME NEW n \in 0 .. len, n < len, n \in T
        PROVE  n + 1 \in T
    <3>1. n + 1 \in 1 .. len /\ (n + 1) - 1 = n
      BY <2>2
    <3>2. e[n + 1] = 1 - e[n] \/ e[n + 1] = e[n]
      BY <1>6, <3>1
    <3> QED
      BY <1>6, <2>2, <3>1, <3>2 DEF Binary
  <2>3. \A n \in 0 .. len : n \in T
    <3> HIDE DEF T
    <3> QED
      BY <2>1, <2>2, Upwards
  <2> QED
    BY <2>3
<1>8. PICK x : x = Levels(s, level)
  OBVIOUS
<1>9. x \in Seq(Binary) /\ Len(x) = len /\ \A n \in 1 .. len : x[n] = e[n]
  BY <1>5, <1>7, <1>8
<1>10. ASSUME NEW n \in 2 .. len
       PROVE  s[n] = IF x[n] = x[n - 1] THEN 1 ELSE 0
  <2>1. n \in 1 .. len /\ n - 1 \in 1 .. len /\ n - 1 \in 0 .. len
    OBVIOUS
  <2>2. x[n] = e[n] /\ x[n - 1] = e[n - 1] /\ e[n - 1] \in Binary /\ s[n] \in Binary
    BY <1>0, <1>7, <1>9, <2>1
  <2>3. e[n] = IF s[n] = 0 THEN 1 - e[n - 1] ELSE e[n - 1]
    BY <1>6, <2>1
  <2> QED
    BY <2>2, <2>3 DEF Binary
<1> QED
  BY <1>0, <1>8, <1>9, <1>10

LEMMA BurstIs ==
  ASSUME NEW p \in Payloads, NEW level \in Binary
  PROVE  /\ Burst[p][level] \in Seq(Binary) /\ Len(Burst[p][level]) = Total(p)
         /\ \A n \in 2 .. Total(p) :
              Message(p)[n] = IF Burst[p][level][n] = Burst[p][level][n - 1] THEN 1 ELSE 0
<1>1. Message(p) \in Seq(Binary) /\ Len(Message(p)) = Total(p)
  BY MessageIs DEF MessageOf
<1>2. PICK x : x = Levels(Message(p), level)
  OBVIOUS
<1>3. x = Burst[p][level]
  BY <1>2 DEF Burst, Binary
<1>4. /\ x \in Seq(Binary) /\ Len(x) = Len(Message(p))
      /\ \A n \in 2 .. Len(Message(p)) : Message(p)[n] = IF x[n] = x[n - 1] THEN 1 ELSE 0
  BY <1>1, <1>2, LevelsAre
<1> QED
  BY <1>1, <1>3, <1>4
-----------------------------------------------------------------------------
(* The deframer *)

AnyFrame == {Payload(b) : b \in Seq(Seq(Binary))}

HdlcType == [ones : Int, in : BOOLEAN, cur : Seq(Binary), bytes : Seq(Seq(Binary)), frames : Seq(AnyFrame)]

DataKept(g, h) == g \in HdlcType /\ g.ones = h.ones /\ g.in = h.in /\ g.frames = h.frames

LEMMA DataKeeps ==
  ASSUME NEW h \in HdlcType, NEW v \in Binary
  PROVE  DataKept(Data(h, v), h)
<1>1. CASE ~h.in
  BY <1>1 DEF Data, DataKept
<1>2. Append(h.cur, v) \in Seq(Binary) /\ <<>> \in Seq(Binary)
  BY DEF HdlcType
<1>3. CASE h.in /\ Len(h.cur) + 1 < ByteBits
  BY <1>2, <1>3 DEF Data, DataKept, HdlcType
<1>4. CASE h.in /\ ~(Len(h.cur) + 1 < ByteBits)
  <2>1. PICK b : b = IF Len(h.bytes) < MaxFrame THEN Append(h.bytes, Append(h.cur, v)) ELSE h.bytes
    OBVIOUS
  <2>2. b \in Seq(Seq(Binary))
    BY <1>2, <2>1 DEF HdlcType
  <2>3. Data(h, v) = [h EXCEPT !.cur = <<>>, !.bytes = b]
    BY <1>4, <2>1 DEF Data
  <2> QED
    BY <1>2, <2>2, <2>3 DEF DataKept, HdlcType
<1> QED
  BY <1>1, <1>3, <1>4

\* No frame is lost.
FramesKept(g, h) == g \in HdlcType /\ \A x : Contains(h.frames, x) => Contains(g.frames, x)

LEMMA FlagKeeps ==
  ASSUME NEW h \in HdlcType
  PROVE  /\ FramesKept(AtFlag(h), h)
         /\ AtFlag(h).ones = 0 /\ AtFlag(h).in /\ AtFlag(h).cur = <<>> /\ AtFlag(h).bytes = <<>>
         /\ h.in /\ Len(h.bytes) >= MinFrame /\ Valid(h.bytes)
            => Contains(AtFlag(h).frames, Payload(h.bytes))
<1>1. PICK x : x = Payload(h.bytes)
  OBVIOUS
<1>2. x \in AnyFrame /\ h.frames \in Seq(AnyFrame)
  BY <1>1 DEF AnyFrame, HdlcType
<1>3. PICK f : f = IF h.in /\ Len(h.bytes) >= MinFrame /\ Valid(h.bytes) THEN Append(h.frames, x) ELSE h.frames
  OBVIOUS
<1>4. f \in Seq(AnyFrame) /\ \A y : Contains(h.frames, y) => Contains(f, y)
  <2>1. CASE f = h.frames
    BY <1>2, <2>1
  <2>2. CASE f = Append(h.frames, x)
    <3>1. Len(f) = Len(h.frames) + 1 /\ \A i \in 1 .. Len(h.frames) : f[i] = h.frames[i]
      BY <1>2, <2>2
    <3>2. \A i \in 1 .. Len(h.frames) : i \in 1 .. Len(f)
      BY <1>2, <3>1
    <3> QED
      BY <1>2, <2>2, <3>1, <3>2 DEF Contains
  <2> QED
    BY <1>3, <2>1, <2>2
<1>5. AtFlag(h) = [ones |-> 0, in |-> TRUE, cur |-> <<>>, bytes |-> <<>>, frames |-> f]
  <2>1. AtFlag(h) = [NoFrame EXCEPT !.in = TRUE, !.frames = f]
    BY <1>1, <1>3 DEF AtFlag
  <2> QED
    BY <2>1 DEF NoFrame
<1>6. AtFlag(h) \in HdlcType
  BY <1>4, <1>5 DEF HdlcType
<1>7. ASSUME h.in /\ Len(h.bytes) >= MinFrame /\ Valid(h.bytes)
      PROVE  Contains(f, x)
  <2>1. f = Append(h.frames, x)
    BY <1>3, <1>7
  <2>2. f[Len(h.frames) + 1] = x /\ Len(h.frames) + 1 \in 1 .. Len(f)
    BY <1>2, <2>1
  <2> QED
    BY <2>2 DEF Contains
<1> QED
  BY <1>1, <1>4, <1>5, <1>6, <1>7 DEF FramesKept

LEMMA OnBitKeeps ==
  ASSUME NEW h \in HdlcType, NEW v \in Binary
  PROVE  FramesKept(OnBit(h, v), h)
<1>1. PICK d : d = Data(h, v) /\ d \in HdlcType /\ d.frames = h.frames
  BY DataKeeps DEF DataKept
<1>2. StuffAfter \in Nat
  BY FramingAssumption
<1>3. \A n \in Int : [d EXCEPT !.ones = n] \in HdlcType /\ [d EXCEPT !.ones = n].frames = h.frames
  BY <1>1 DEF HdlcType
<1>4. \A n \in Int : [h EXCEPT !.ones = n] \in HdlcType /\ [h EXCEPT !.ones = n].frames = h.frames
  BY DEF HdlcType
<1>5. CASE v = 1
  <2>0. h.ones \in Int
    BY DEF HdlcType
  <2>1. CASE h.ones + 1 <= StuffAfter
    <3>1. OnBit(h, v) = [d EXCEPT !.ones = h.ones + 1] /\ h.ones + 1 \in Int
      BY <1>1, <1>2, <1>5, <2>0, <2>1 DEF OnBit, One
    <3> QED
      BY <1>3, <3>1 DEF FramesKept
  <2>2. CASE ~(h.ones + 1 <= StuffAfter) /\ h.ones + 1 = StuffAfter + 1
    <3>1. OnBit(h, v) = [h EXCEPT !.ones = h.ones + 1] /\ h.ones + 1 \in Int
      BY <1>5, <2>2 DEF OnBit, One, HdlcType
    <3> QED
      BY <1>4, <3>1 DEF FramesKept
  <2>3. CASE ~(h.ones + 1 <= StuffAfter) /\ h.ones + 1 # StuffAfter + 1
    <3>1. OnBit(h, v) = [NoFrame EXCEPT !.ones = StuffAfter + 2, !.frames = h.frames]
      BY <1>5, <2>3 DEF OnBit, One
    <3>2. OnBit(h, v) = [ones |-> StuffAfter + 2, in |-> FALSE, cur |-> <<>>, bytes |-> <<>>, frames |-> h.frames]
      BY <3>1 DEF NoFrame
    <3> QED
      BY <1>2, <3>2 DEF FramesKept, HdlcType
  <2> QED
    BY <2>1, <2>2, <2>3
<1>6. CASE v # 1
  <2>0. v = 0
    BY <1>6 DEF Binary
  <2>1. CASE h.ones = StuffAfter
    <3>1. OnBit(h, v) = [h EXCEPT !.ones = 0]
      BY <1>2, <1>6, <2>1 DEF OnBit, Zero
    <3> QED
      BY <1>4, <3>1 DEF FramesKept
  <2>2. CASE h.ones # StuffAfter /\ h.ones = StuffAfter + 1
    <3>1. OnBit(h, v) = AtFlag(h)
      BY <1>6, <2>2 DEF OnBit, Zero
    <3> QED
      BY <3>1, FlagKeeps
  <2>3. CASE h.ones # StuffAfter /\ h.ones # StuffAfter + 1
    <3>1. OnBit(h, v) = [d EXCEPT !.ones = 0]
      BY <1>1, <1>6, <2>0, <2>3 DEF OnBit, Zero
    <3> QED
      BY <1>3, <3>1 DEF FramesKept
  <2> QED
    BY <2>1, <2>2, <2>3
<1> QED
  BY <1>5, <1>6

\* What is read of s after r bits.
FirstBytes(s, r) == [b \in 1 .. r \div ByteBits |-> [i \in 1 .. ByteBits |-> s[ByteBits * (b - 1) + i]]]

LastBits(s, r) == [i \in 1 .. r % ByteBits |-> s[ByteBits * (r \div ByteBits) + i]]

ReadOK(h, s, r) == h.in = TRUE /\ h.bytes = FirstBytes(s, r) /\ h.cur = LastBits(s, r)

LEMMA LenIs ==
  ASSUME NEW S, NEW x \in Seq(S), NEW n \in Nat, DOMAIN x = 1 .. n
  PROVE  Len(x) = n
OBVIOUS

LEMMA DataReads ==
  ASSUME NEW h \in HdlcType, NEW s \in Seq(Binary), NEW r \in Nat, r < Len(s),
         ReadOK(h, s, r), r \div ByteBits < MaxFrame
  PROVE  ReadOK(Data(h, s[r + 1]), s, r + 1)
<1>1. PICK w \in Nat : w = ByteBits /\ w > 1
  BY FramingAssumption
<1>2. PICK a \in Nat, c \in 0 .. w - 1 : a = r \div w /\ c = r % w /\ r = w * a + c
  BY <1>1, Dividing
<1>3. PICK v \in Binary : v = s[r + 1]
  <2>1. r + 1 \in 1 .. Len(s)
    OBVIOUS
  <2> QED
    BY <2>1
<1>4. /\ h.in = TRUE /\ h.cur = [i \in 1 .. c |-> s[w * a + i]]
      /\ h.bytes = [b \in 1 .. a |-> [i \in 1 .. w |-> s[w * (b - 1) + i]]]
  BY <1>1, <1>2 DEF ReadOK, FirstBytes, LastBits
<1>5. h.cur \in Seq(Binary) /\ Len(h.cur) = c
  <2>1. h.cur \in Seq(Binary) /\ DOMAIN h.cur = 1 .. c
    BY <1>4 DEF HdlcType
  <2> QED
    BY <2>1, LenIs
<1>6. h.bytes \in Seq(Seq(Binary)) /\ Len(h.bytes) = a
  <2>1. h.bytes \in Seq(Seq(Binary)) /\ DOMAIN h.bytes = 1 .. a
    BY <1>4 DEF HdlcType
  <2> QED
    BY <2>1, LenIs
<1>7. w * a + (c + 1) = r + 1
  <2>1. PICK x \in Nat : x = w * a
    OBVIOUS
  <2> QED
    BY <1>2, <2>1
<1>8. PICK d : d = Data(h, v)
  OBVIOUS
<1>9. Append(h.cur, v) = [i \in 1 .. c + 1 |-> s[w * a + i]]
  <2>1. PICK t : t = Append(h.cur, v)
    OBVIOUS
  <2>2. PICK u : u = [i \in 1 .. c + 1 |-> s[w * a + i]]
    OBVIOUS
  <2>3. t \in Seq(Binary) /\ Len(t) = c + 1 /\ t[c + 1] = v /\ \A i \in 1 .. c : t[i] = h.cur[i]
    BY <1>5, <2>1
  <2>4. \A i \in 1 .. c + 1 : t[i] = u[i]
    <3>1. \A i \in 1 .. c + 1 : i \in 1 .. c \/ i = c + 1
      OBVIOUS
    <3>2. u[c + 1] = s[w * a + (c + 1)] /\ \A i \in 1 .. c : i \in 1 .. c + 1
      BY <2>2
    <3>3. \A i \in 1 .. c : h.cur[i] = s[w * a + i] /\ u[i] = s[w * a + i]
      BY <1>4, <2>2, <3>2
    <3> QED
      BY <1>3, <1>7, <2>3, <3>1, <3>2, <3>3
  <2>5. DOMAIN t = 1 .. c + 1 /\ DOMAIN u = 1 .. c + 1 /\ u = [i \in DOMAIN u |-> u[i]] /\ t = [i \in DOMAIN t |-> t[i]]
    BY <2>2, <2>3
  <2> QED
    BY <2>1, <2>2, <2>4, <2>5
<1>10. CASE c + 1 < w
  <2>1. d.in = TRUE /\ d.bytes = h.bytes /\ d.cur = Append(h.cur, v)
    BY <1>1, <1>4, <1>5, <1>8, <1>10 DEF Data, HdlcType
  <2>2. (r + 1) \div w = a /\ (r + 1) % w = c + 1
    <3>1. (w * a + (c + 1)) \div w = a /\ (w * a + (c + 1)) % w = c + 1
      <4>1. c + 1 \in Nat
        OBVIOUS
      <4> QED
        BY <1>10, <4>1, Divided
    <3> QED
      BY <1>7, <3>1
  <2> QED
    BY <1>1, <1>3, <1>4, <1>8, <1>9, <2>1, <2>2 DEF ReadOK, FirstBytes, LastBits
<1>11. CASE c + 1 = w
  <2>1. Len(h.bytes) < MaxFrame
    BY <1>1, <1>2, <1>6
  <2>2. d.in = TRUE /\ d.bytes = Append(h.bytes, Append(h.cur, v)) /\ d.cur = <<>>
    BY <1>1, <1>4, <1>5, <1>8, <1>11, <2>1 DEF Data, HdlcType
  <2>3. (r + 1) \div w = a + 1 /\ (r + 1) % w = 0
    <3>1. w * (a + 1) = w * a + w
      OBVIOUS
    <3>2. PICK x \in Nat : x = w * a
      OBVIOUS
    <3>3. r + 1 = w * (a + 1) + 0
      BY <1>7, <1>11, <3>1, <3>2
    <3>4. (w * (a + 1) + 0) \div w = a + 1 /\ (w * (a + 1) + 0) % w = 0
      BY <1>1, Divided
    <3> QED
      BY <3>3, <3>4
  <2>4. Append(h.bytes, Append(h.cur, v)) = [b \in 1 .. a + 1 |-> [i \in 1 .. w |-> s[w * (b - 1) + i]]]
    <3>1. PICK t : t = Append(h.bytes, Append(h.cur, v))
      OBVIOUS
    <3>2. PICK u : u = [b \in 1 .. a + 1 |-> [i \in 1 .. w |-> s[w * (b - 1) + i]]]
      OBVIOUS
    <3>3. Append(h.cur, v) \in Seq(Binary)
      BY <1>5
    <3>4. t \in Seq(Seq(Binary)) /\ Len(t) = a + 1 /\ t[a + 1] = Append(h.cur, v) /\ \A b \in 1 .. a : t[b] = h.bytes[b]
      BY <1>6, <3>1, <3>3
    <3>5. u[a + 1] = [i \in 1 .. w |-> s[w * a + i]] /\ \A b \in 1 .. a : u[b] = h.bytes[b]
      <4>1. a + 1 \in 1 .. a + 1 /\ (a + 1) - 1 = a /\ \A b \in 1 .. a : b \in 1 .. a + 1
        OBVIOUS
      <4> QED
        BY <1>4, <3>2, <4>1
    <3>6. \A b \in 1 .. a + 1 : t[b] = u[b]
      <4>1. \A b \in 1 .. a + 1 : b \in 1 .. a \/ b = a + 1
        OBVIOUS
      <4> QED
        BY <1>9, <1>11, <3>4, <3>5, <4>1
    <3>7. DOMAIN t = 1 .. a + 1 /\ DOMAIN u = 1 .. a + 1 /\ u = [i \in DOMAIN u |-> u[i]] /\ t = [i \in DOMAIN t |-> t[i]]
      BY <3>2, <3>4
    <3> QED
      BY <3>1, <3>2, <3>6, <3>7
  <2>5. <<>> = [i \in 1 .. 0 |-> s[w * (a + 1) + i]]
    OBVIOUS
  <2> QED
    BY <1>1, <1>3, <1>8, <2>2, <2>3, <2>4, <2>5 DEF ReadOK, FirstBytes, LastBits
<1> QED
  BY <1>10, <1>11
\* Where the deframer stands when q bits of the stuffed s were read: behind a
\* bit of s, or between the last of StuffAfter ones and its zero.
BodyOK(h, s, q) ==
  \E r \in 0 .. Len(s) :
    LET t == StuffRun(s)[r]
    IN  /\ ReadOK(h, s, r)
        /\ \/ q = Len(t.out) /\ h.ones = t.ones
           \/ q + 1 = Len(t.out) /\ h.ones = StuffAfter /\ t.ones = 0 /\ t.out[q + 1] = 0

LEMMA OnesRead ==
  ASSUME NEW h \in HdlcType, NEW g, NEW n, NEW s, NEW r, ReadOK(h, s, r), g = [h EXCEPT !.ones = n]
  PROVE  ReadOK(g, s, r) /\ g.ones = n
BY DEF ReadOK, HdlcType

LEMMA BodyStep ==
  ASSUME NEW h \in HdlcType, NEW s \in Seq(Binary), NEW q \in Nat, q < Len(Stuffed(s)),
         BodyOK(h, s, q), Len(s) \div ByteBits <= MaxFrame, Len(s) % ByteBits = 0
  PROVE  BodyOK(OnBit(h, Stuffed(s)[q + 1]), s, q + 1)
<1>1. PICK n \in Nat, k \in Nat \ {0} : n = Len(s) /\ k = StuffAfter
  BY FramingAssumption
<1>2. PICK g : g = StuffRun(s) /\ StuffSteps(g, s)
  BY StuffRuns
<1>3. PICK r \in 0 .. n :
        /\ ReadOK(h, s, r)
        /\ \/ q = Len(g[r].out) /\ h.ones = g[r].ones
           \/ q + 1 = Len(g[r].out) /\ h.ones = k /\ g[r].ones = 0 /\ g[r].out[q + 1] = 0
  BY <1>1, <1>2 DEF BodyOK
<1>4. \A m \in 0 .. n : /\ g[m].ones \in 0 .. k - 1 /\ g[m].out \in Seq(Binary)
                        /\ Len(g[m].out) <= Len(Stuffed(s))
                        /\ \A i \in 1 .. Len(g[m].out) : Stuffed(s)[i] = g[m].out[i]
  <2>1. SUFFICES ASSUME NEW m \in 0 .. n
                 PROVE  /\ g[m].ones \in 0 .. k - 1 /\ g[m].out \in Seq(Binary)
                        /\ Len(g[m].out) <= Len(Stuffed(s))
                        /\ \A i \in 1 .. Len(g[m].out) : Stuffed(s)[i] = g[m].out[i]
    OBVIOUS
  <2>2. m \in 0 .. Len(s)
    BY <1>1
  <2>3. g[m] \in StuffType
    BY <1>2, <2>2 DEF StuffSteps
  <2>4. /\ Len(g[m].out) <= Len(Stuffed(s))
        /\ \A i \in 1 .. Len(g[m].out) : Stuffed(s)[i] = g[m].out[i]
    BY <1>2, <2>2, StuffedGrows
  <2> QED
    BY <1>1, <2>3, <2>4 DEF StuffType
<1>5. PICK v : v = Stuffed(s)[q + 1]
  OBVIOUS
<1>6. CASE q + 1 = Len(g[r].out) /\ h.ones = k /\ g[r].ones = 0 /\ g[r].out[q + 1] = 0
  <2>1. q + 1 \in 1 .. Len(g[r].out)
    BY <1>6
  <2>2. v = 0
    BY <1>4, <1>5, <1>6, <2>1
  <2>3. OnBit(h, v) = [h EXCEPT !.ones = 0]
    BY <1>1, <1>6, <2>2 DEF OnBit, Zero
  <2>4. ReadOK(OnBit(h, v), s, r) /\ OnBit(h, v).ones = 0
    <3>1. PICK o : o = [h EXCEPT !.ones = 0]
      OBVIOUS
    <3>2. ReadOK(h, s, r)
      BY <1>3
    <3>3. ReadOK(o, s, r) /\ o.ones = 0
      BY ONLY <3>1, <3>2, h \in HdlcType, OnesRead
    <3> QED
      BY ONLY <2>3, <3>1, <3>3
  <2> QED
    BY <1>1, <1>2, <1>5, <1>6, <2>4 DEF BodyOK
<1>7. CASE q = Len(g[r].out) /\ h.ones = g[r].ones
  <2>1. r < n
    <3>1. g[n].out = Stuffed(s)
      BY <1>1, <1>2 DEF StuffSteps
    <3>2. r # n
      BY <1>7, <3>1
    <3> QED
      BY <3>2
  <2>2. r + 1 \in 1 .. n /\ r + 1 \in 0 .. n /\ (r + 1) - 1 = r
    BY <2>1
  <2>3. PICK c \in Binary : c = s[r + 1]
    BY <1>1, <2>2
  <2>4. g[r + 1] = Put(g[r], c)
    BY <1>1, <1>2, <2>2, <2>3 DEF StuffSteps
  <2>5. PICK x \in Seq(Binary), o \in 0 .. k - 1 : x = g[r].out /\ o = g[r].ones
    BY <1>4
  <2>6. PICK d : d = Data(h, c) /\ d \in HdlcType
    BY DataKeeps DEF DataKept
  <2>7. ReadOK(d, s, r + 1)
    <3>1. r \div ByteBits < MaxFrame
      <4>1. PICK w \in Nat, m \in Nat : w = ByteBits /\ w > 0 /\ m = MaxFrame
        BY FramingAssumption
      <4>2. PICK a \in Nat, e \in 0 .. w - 1 : a = r \div w /\ r = w * a + e
        BY <4>1, Dividing
      <4>3. PICK b \in Nat : b = n \div w /\ n = w * b
        <5>1. n % w = 0
          BY <1>1, <4>1
        <5>2. n = w * (n \div w) + (n % w) /\ n \div w \in Nat
          BY <4>1, Dividing
        <5>3. n = w * (n \div w)
          BY <5>1, <5>2
        <5> QED
          BY <5>2, <5>3
      <4>4. ~(b <= a)
        <5> SUFFICES ASSUME b <= a PROVE FALSE
          OBVIOUS
        <5>1. w * b <= w * a
          BY <4>2, <4>3, AtLeast
        <5>2. PICK y \in Nat, z \in Nat : y = w * b /\ z = w * a
          OBVIOUS
        <5> QED
          BY <2>1, <4>2, <4>3, <5>1, <5>2
      <4>5. b <= m
        BY <1>1, <4>1, <4>3
      <4> QED
        BY <4>1, <4>2, <4>4, <4>5
    <3> QED
      BY <1>1, <1>3, <2>1, <2>3, <2>6, <3>1, DataReads
  <2>8. CASE c = 1 /\ o + 1 = k
    <3>1. PICK y : y = g[r + 1].out /\ y = x \o <<1, 0>> /\ g[r + 1].ones = 0
      <4>1. c = 1 /\ g[r].ones + 1 = StuffAfter
        BY <1>1, <2>5, <2>8
      <4>2. g[r + 1] = [ones |-> 0, out |-> g[r].out \o <<1, 0>>]
        BY <2>4, <4>1 DEF Put
      <4>3. g[r + 1].out = g[r].out \o <<1, 0>> /\ g[r + 1].ones = 0
        BY <4>2
      <4>4. g[r + 1].out = x \o <<1, 0>>
        BY <2>5, <4>3
      <4> QED
        BY <4>3, <4>4
    <3>2. Len(y) = q + 2 /\ y[q + 1] = 1 /\ y[q + 2] = 0
      BY <1>7, <2>5, <3>1
    <3>3. v = 1
      <4>1. q + 1 \in 1 .. Len(y)
        BY <3>2
      <4>2. \A i \in 1 .. Len(g[r + 1].out) : Stuffed(s)[i] = g[r + 1].out[i]
        BY <1>4, <2>2
      <4> QED
        BY <1>5, <3>1, <3>2, <4>1, <4>2
    <3>4. OnBit(h, v) = [d EXCEPT !.ones = k]
      <4>1. h.ones + 1 <= StuffAfter /\ h.ones + 1 = k
        BY <1>1, <1>7, <2>5, <2>8
      <4>2. h.ones + 1 # StuffAfter + 1
        BY <1>1, <1>7, <2>5, <2>8
      <4> QED
        BY <2>6, <2>8, <3>3, <4>1, <4>2 DEF OnBit, One
    <3>5. ReadOK(OnBit(h, v), s, r + 1) /\ OnBit(h, v).ones = k
      BY <2>6, <2>7, <3>4, OnesRead
    <3>6. (q + 1) + 1 = q + 2
      OBVIOUS
    <3> QED
      BY <1>1, <1>2, <1>5, <2>2, <3>1, <3>2, <3>5, <3>6 DEF BodyOK
  <2>9. CASE ~(c = 1 /\ o + 1 = k)
    <3>1. PICK y : y = g[r + 1].out /\ y = Append(x, c) /\ g[r + 1].ones = IF c = 1 THEN o + 1 ELSE 0
      <4>1. ~(c = 1 /\ g[r].ones + 1 = StuffAfter)
        BY <1>1, <2>5, <2>9
      <4>2. g[r + 1] = [ones |-> IF c = 1 THEN g[r].ones + 1 ELSE 0, out |-> Append(g[r].out, c)]
        BY <2>4, <4>1 DEF Put
      <4> QED
        BY <2>5, <4>2
    <3>2. Len(y) = q + 1 /\ y[q + 1] = c
      BY <1>7, <2>5, <3>1
    <3>3. v = c
      <4>1. q + 1 \in 1 .. Len(y)
        BY <3>2
      <4>2. \A i \in 1 .. Len(g[r + 1].out) : Stuffed(s)[i] = g[r + 1].out[i]
        BY <1>4, <2>2
      <4> QED
        BY <1>5, <3>1, <3>2, <4>1, <4>2
    <3>4. OnBit(h, v) = [d EXCEPT !.ones = g[r + 1].ones]
      <4>1. CASE c = 1
        <5>1. h.ones + 1 <= StuffAfter /\ h.ones + 1 = g[r + 1].ones /\ h.ones + 1 # StuffAfter + 1
          BY <1>1, <1>7, <2>5, <2>9, <3>1, <4>1
        <5> QED
          BY <2>6, <3>3, <4>1, <5>1 DEF OnBit, One
      <4>2. CASE c = 0
        <5>1. h.ones # StuffAfter /\ h.ones # StuffAfter + 1
          BY <1>1, <1>7, <2>5
        <5> QED
          BY <2>6, <3>1, <3>3, <4>2, <5>1 DEF OnBit, Zero
      <4> QED
        BY <4>1, <4>2 DEF Binary
    <3>5. ReadOK(OnBit(h, v), s, r + 1) /\ OnBit(h, v).ones = g[r + 1].ones
      <4>1. PICK m : m = g[r + 1].ones
        OBVIOUS
      <4>2. PICK f : f = OnBit(h, v)
        OBVIOUS
      <4>3. f = [d EXCEPT !.ones = m]
        BY <3>4, <4>1, <4>2
      <4>4. ReadOK(f, s, r + 1) /\ f.ones = m
        BY <2>6, <2>7, <4>3, OnesRead
      <4> QED
        BY <4>1, <4>2, <4>4
    <3> QED
      BY <1>1, <1>2, <1>5, <2>2, <3>1, <3>2, <3>5 DEF BodyOK
  <2> QED
    BY <2>8, <2>9
<1> QED
  BY <1>3, <1>6, <1>7

\* What was read of a whole body, without its check sequence.
LEMMA PayloadRead ==
  ASSUME NEW p \in Payloads
  PROVE  LET bytes == FirstBytes(Body(p), Len(Body(p)))
         IN  /\ bytes \in Seq(Seq(Binary)) /\ Len(bytes) \in MinFrame .. MaxFrame
             /\ Valid(bytes) /\ Payload(bytes) = p
             /\ LastBits(Body(p), Len(Body(p))) = <<>>
             /\ Len(Body(p)) \div ByteBits <= MaxFrame /\ Len(Body(p)) % ByteBits = 0
<1>1. PICK w \in Nat : w = ByteBits /\ w > 0
  BY FramingAssumption
<1>2. PICK s \in Seq(Binary), n \in Nat :
        /\ s = Body(p) /\ p \in Seq(Binary) /\ n = Len(p) /\ w <= n
        /\ Len(s) = n + w
        /\ \A i \in 1 .. n : s[i] = p[i]
        /\ \A i \in 1 .. w : s[n + i] = p[i]
  <2>1. PICK s \in Seq(Binary) : s = Body(p)
    BY BodyIs
  <2>2. p \in Seq(Binary) /\ w <= Len(p) /\ Len(s) = Len(p) + w
    BY <1>1, <2>1, BodyIs
  <2>3. PICK n \in Nat : n = Len(p)
    BY <2>2
  <2>4. (\A i \in 1 .. n : s[i] = p[i]) /\ \A i \in 1 .. w : s[n + i] = p[i]
    BY <1>1, <2>1, <2>3, BodyIs
  <2> QED
    BY <2>1, <2>2, <2>3, <2>4
<1>3. PICK a \in Nat : a = n \div w /\ n = w * a /\ a + 1 \in MinFrame .. MaxFrame
  <2>1. Len(p) % ByteBits = 0 /\ Len(p) \div ByteBits + 1 \in MinFrame .. MaxFrame
    BY FramingAssumption
  <2>2. n = w * (n \div w) + (n % w) /\ n \div w \in Nat
    BY <1>1, Dividing
  <2>3. n % w = 0 /\ n \div w + 1 \in MinFrame .. MaxFrame
    BY <1>1, <1>2, <2>1
  <2>4. n = w * (n \div w)
    BY <2>2, <2>3
  <2> QED
    BY <2>2, <2>3, <2>4
<1>4. w * (a + 1) = n + w
  <2>1. w * (a + 1) = w * a + w
    OBVIOUS
  <2> QED
    BY <1>3, <2>1
<1>5. (n + w) \div w = a + 1 /\ (n + w) % w = 0
  <2>1. (w * (a + 1) + 0) \div w = a + 1 /\ (w * (a + 1) + 0) % w = 0
    BY <1>1, Divided
  <2>2. w * (a + 1) + 0 = n + w
    BY <1>4
  <2> QED
    BY <2>1, <2>2
<1>6. PICK b : b = FirstBytes(s, n + w)
  OBVIOUS
<1>7. b = [j \in 1 .. a + 1 |-> [i \in 1 .. w |-> s[w * (j - 1) + i]]]
  BY <1>1, <1>5, <1>6 DEF FirstBytes
<1>8. ASSUME NEW j \in 0 .. a, NEW i \in 1 .. w
      PROVE  w * j + i \in 1 .. n + w
  <2>1. w * j <= w * a
    BY AtLeast
  <2>2. PICK y \in Nat : y = w * j
    OBVIOUS
  <2> QED
    BY <1>3, <2>1, <2>2
<1>9. \A j \in 1 .. a + 1 : b[j] \in Seq(Binary) /\ b[j] = [i \in 1 .. w |-> s[w * (j - 1) + i]]
  <2>1. \A j \in 1 .. a + 1 : j - 1 \in 0 .. a
    OBVIOUS
  <2>2. \A i \in 1 .. n + w : s[i] \in Binary
    BY <1>2
  <2>3. ASSUME NEW j \in 1 .. a + 1
        PROVE  b[j] \in Seq(Binary) /\ b[j] = [i \in 1 .. w |-> s[w * (j - 1) + i]]
    <3>1. \A i \in 1 .. w : s[w * (j - 1) + i] \in Binary
      BY <1>8, <2>1, <2>2
    <3> QED
      BY <1>7, <3>1
  <2> QED
    BY <2>3
<1>10. b \in Seq(Seq(Binary)) /\ Len(b) = a + 1
  <2>1. a + 1 \in Nat
    OBVIOUS
  <2> QED
    BY <1>7, <1>9, <2>1
<1>11. Valid(b)
  <2>1. b[1] = [i \in 1 .. w |-> s[w * 0 + i]] /\ b[a + 1] = [i \in 1 .. w |-> s[w * a + i]]
    <3>1. 1 \in 1 .. a + 1 /\ a + 1 \in 1 .. a + 1 /\ 1 - 1 = 0 /\ (a + 1) - 1 = a
      OBVIOUS
    <3> QED
      BY <1>7, <3>1
  <2>2. \A i \in 1 .. w : s[w * 0 + i] = p[i] /\ s[w * a + i] = p[i]
    <3>1. \A i \in 1 .. w : w * 0 + i = i /\ i \in 1 .. n
      BY <1>2
    <3> QED
      BY <1>2, <1>3, <3>1
  <2>3. b[1] = b[a + 1]
    BY <2>1, <2>2
  <2> QED
    BY <1>10, <2>3 DEF Valid, Last
<1>12. Payload(b) = p
  <2>1. PICK u : u = Payload(b)
    OBVIOUS
  <2>2. u = [i \in 1 .. n |-> b[1 + ((i - 1) \div w)][1 + ((i - 1) % w)]]
    <3>1. w * (Len(b) - 1) = n
      <4>1. Len(b) - 1 = a
        BY <1>10
      <4> QED
        BY <1>3, <4>1
    <3> QED
      BY <1>1, <2>1, <3>1 DEF Payload
  <2>3. ASSUME NEW i \in 1 .. n
        PROVE  u[i] = p[i]
    <3>1. PICK m \in Nat : m = i - 1 /\ m < n
      <4>1. i - 1 \in Nat /\ i - 1 < n
        OBVIOUS
      <4> QED
        BY <4>1
    <3>2. PICK x \in Nat, c \in 0 .. w - 1 : x = m \div w /\ c = m % w /\ m = w * x + c
      BY <1>1, Dividing
    <3>3. x + 1 \in 1 .. a + 1
      <4> SUFFICES ASSUME a <= x PROVE FALSE
        OBVIOUS
      <4>1. w * a <= w * x
        BY AtLeast
      <4>2. PICK y \in Nat : y = w * x
        OBVIOUS
      <4> QED
        BY <1>3, <3>1, <3>2, <4>1, <4>2
    <3>4. u[i] = b[1 + x][1 + c]
      BY <2>2, <3>1, <3>2
    <3>5. b[x + 1] = [l \in 1 .. w |-> s[w * x + l]]
      <4>1. (x + 1) - 1 = x
        OBVIOUS
      <4> QED
        BY <1>9, <3>3, <4>1
    <3>6. b[x + 1][1 + c] = s[w * x + (1 + c)]
      <4>1. 1 + c \in 1 .. w
        OBVIOUS
      <4> QED
        BY <3>5, <4>1
    <3>7. w * x + (1 + c) = i
      <4>1. PICK y \in Nat : y = w * x
        OBVIOUS
      <4> QED
        BY <3>1, <3>2, <4>1
    <3>8. 1 + x = x + 1
      OBVIOUS
    <3> QED
      BY <1>2, <3>4, <3>6, <3>7, <3>8
  <2>4. p = [i \in 1 .. n |-> p[i]] /\ u = [i \in 1 .. n |-> u[i]]
    BY <1>2, <2>2
  <2> QED
    BY <2>1, <2>3, <2>4
<1>13. LastBits(s, n + w) = <<>>
  BY <1>1, <1>5 DEF LastBits
<1>14. Len(Body(p)) = n + w
  BY <1>2
<1>15. a + 1 <= MaxFrame
  BY <1>3, FramingAssumption
<1> QED
  BY <1>1, <1>2, <1>3, <1>5, <1>6, <1>10, <1>11, <1>12, <1>13, <1>14, <1>15
\* What the deframer has of the burst of p after its first j bits.  Before the
\* first flag it may be in any state.
FlagTracked(h, i) == h.ones = i - 1

EndTracked(h, p, i) ==
  /\ h.in = TRUE /\ h.bytes = FirstBytes(Body(p), Len(Body(p))) /\ h.ones = i - 1
  /\ Len(h.cur) = IF i <= StuffAfter + 1 THEN i ELSE StuffAfter + 1

Tracks(h, p, j) ==
  /\ \A i \in 1 .. StuffAfter + 2 : j = Len(Training) + i => FlagTracked(h, i)
  /\ \A q \in 0 .. Len(Stuffed(Body(p))) : j = Ahead + q => BodyOK(h, Body(p), q)
  /\ \A i \in 1 .. StuffAfter + 2 : j = FrameEnd(p) + i => EndTracked(h, p, i)
  /\ j = Total(p) => Contains(h.frames, p)

\* A flag is recognised in whatever state it begins.
LEMMA FlagStep ==
  ASSUME NEW h \in HdlcType, NEW i \in 1 .. StuffAfter + 2, i > 1 => FlagTracked(h, i - 1)
  PROVE  FlagTracked(OnBit(h, FlagBit(i)), i)
<1>1. PICK k \in Nat \ {0} : k = StuffAfter
  BY FramingAssumption
<1>2. PICK d : d = Data(h, FlagBit(i)) /\ d \in HdlcType
  <2>1. FlagBit(i) \in Binary
    BY DEF FlagBit, Binary
  <2> QED
    BY <2>1, DataKeeps DEF DataKept
<1>3. CASE i = 1
  <2>1. FlagBit(i) = 0
    BY <1>3 DEF FlagBit
  <2>2. OnBit(h, FlagBit(i)).ones = 0
    <3>1. CASE h.ones = k
      <4>1. OnBit(h, 0) = [h EXCEPT !.ones = 0]
        BY <1>1, <3>1 DEF OnBit, Zero
      <4> QED
        BY <2>1, <4>1 DEF HdlcType
    <3>2. CASE h.ones = k + 1
      <4>1. OnBit(h, 0) = AtFlag(h)
        BY <1>1, <3>2 DEF OnBit, Zero
      <4> QED
        BY <2>1, <4>1, FlagKeeps
    <3>3. CASE h.ones # k /\ h.ones # k + 1
      <4>1. OnBit(h, 0) = [d EXCEPT !.ones = 0]
        BY <1>1, <1>2, <2>1, <3>3 DEF OnBit, Zero
      <4> QED
        BY <1>2, <2>1, <4>1 DEF HdlcType
    <3> QED
      BY <3>1, <3>2, <3>3
  <2> QED
    BY <1>3, <2>2 DEF FlagTracked
<1>4. CASE i > 1
  <2>1. FlagBit(i) = 1
    BY <1>1, <1>4 DEF FlagBit
  <2>2. h.ones = i - 2
    BY <1>4 DEF FlagTracked
  <2>3. CASE i - 1 <= k
    <3>1. h.ones + 1 <= StuffAfter /\ h.ones + 1 # StuffAfter + 1 /\ h.ones + 1 = i - 1
      BY <1>1, <2>2, <2>3
    <3>2. OnBit(h, FlagBit(i)) = [d EXCEPT !.ones = h.ones + 1]
      BY <1>2, <2>1, <3>1 DEF OnBit, One
    <3> QED
      BY <1>2, <3>1, <3>2 DEF FlagTracked, HdlcType
  <2>4. CASE i - 1 = k + 1
    <3>1. ~(h.ones + 1 <= StuffAfter) /\ h.ones + 1 = StuffAfter + 1 /\ h.ones + 1 = i - 1
      BY <1>1, <2>2, <2>4
    <3>2. OnBit(h, FlagBit(i)) = [h EXCEPT !.ones = h.ones + 1]
      BY <2>1, <3>1 DEF OnBit, One
    <3> QED
      BY <3>1, <3>2 DEF FlagTracked, HdlcType
  <2> QED
    BY <1>1, <2>3, <2>4
<1> QED
  BY <1>3, <1>4

\* The flag behind the body is less than a byte of data.
LEMMA EndStep ==
  ASSUME NEW h \in HdlcType, NEW p \in Payloads, NEW i \in 1 .. StuffAfter + 2,
         IF i > 1 THEN EndTracked(h, p, i - 1)
         ELSE BodyOK(h, Body(p), Len(Stuffed(Body(p))))
  PROVE  EndTracked(OnBit(h, FlagBit(i)), p, i)
<1>1. PICK k \in Nat \ {0}, w \in Nat : k = StuffAfter /\ w = ByteBits /\ k + 1 < w
  BY FramingAssumption
<1>2. PICK v \in Binary : v = FlagBit(i)
  BY DEF FlagBit, Binary
<1>3. PICK s \in Seq(Binary), n \in Nat : s = Body(p) /\ n = Len(s)
  BY BodyIs
<1>4. PICK b : b = FirstBytes(s, n)
  OBVIOUS
<1>5. PICK d : d = Data(h, v) /\ d \in HdlcType
  BY DataKeeps DEF DataKept
<1>6. CASE i = 1
  <2>1. PICK g : g = StuffRun(s) /\ StuffSteps(g, s)
    BY StuffRuns
  <2>2. PICK l \in Nat : l = Len(Stuffed(s)) /\ Stuffed(s) = g[n].out
    <3>1. n \in 0 .. Len(s)
      BY <1>3
    <3>2. Stuffed(s) \in Seq(Binary)
      BY <2>1, <3>1, StuffedGrows
    <3> QED
      BY <1>3, <2>1, <3>2 DEF StuffSteps
  <2>3. PICK r \in 0 .. n :
          /\ ReadOK(h, s, r)
          /\ \/ l = Len(g[r].out) /\ h.ones = g[r].ones
             \/ l + 1 = Len(g[r].out)
    BY <1>3, <1>6, <2>1, <2>2 DEF BodyOK
  <2>4. \A m \in 0 .. n : g[m].out \in Seq(Binary) /\ Len(g[m].out) <= l /\ g[m].ones \in 0 .. k - 1
    <3>1. ASSUME NEW m \in 0 .. n
          PROVE  g[m].out \in Seq(Binary) /\ Len(g[m].out) <= l /\ g[m].ones \in 0 .. k - 1
      <4>1. m \in 0 .. Len(s)
        BY <1>3
      <4>2. g[m] \in StuffType
        BY <2>1, <4>1 DEF StuffSteps
      <4>3. Len(g[m].out) <= l
        BY <2>1, <2>2, <4>1, StuffedGrows
      <4> QED
        BY <1>1, <4>2, <4>3 DEF StuffType
    <3> QED
      BY <3>1
  <2>5. l = Len(g[r].out) /\ h.ones = g[r].ones
    <3>1. Len(g[r].out) <= l /\ Len(g[r].out) \in Nat
      BY <2>4
    <3>2. l + 1 # Len(g[r].out)
      BY <3>1
    <3> QED
      BY <2>3, <3>2
  <2>6. r = n
    <3> SUFFICES ASSUME r < n PROVE FALSE
      OBVIOUS
    <3>1. r + 1 \in 0 .. n /\ r + 1 \in 1 .. Len(s) /\ (r + 1) - 1 = r
      BY <1>3
    <3>2. PICK c \in Binary : c = s[r + 1]
      BY <3>1
    <3>3. g[r + 1] = Put(g[r], c)
      BY <2>1, <3>1, <3>2 DEF StuffSteps
    <3>4. PICK x \in Seq(Binary) : x = g[r].out
      BY <2>4
    <3>5. g[r + 1].out = x \o <<1, 0>> \/ g[r + 1].out = Append(x, c)
      <4>1. CASE c = 1 /\ g[r].ones + 1 = StuffAfter
        <5>1. Put(g[r], c) = [ones |-> 0, out |-> g[r].out \o <<1, 0>>]
          BY <4>1 DEF Put
        <5> QED
          BY <3>3, <3>4, <5>1
      <4>2. CASE ~(c = 1 /\ g[r].ones + 1 = StuffAfter)
        <5>1. Put(g[r], c) = [ones |-> IF c = 1 THEN g[r].ones + 1 ELSE 0, out |-> Append(g[r].out, c)]
          BY <4>2 DEF Put
        <5> QED
          BY <3>3, <3>4, <5>1
      <4> QED
        BY <4>1, <4>2
    <3>6. Len(x \o <<1, 0>>) = Len(x) + 2 /\ Len(Append(x, c)) = Len(x) + 1
      OBVIOUS
    <3>7. Len(g[r + 1].out) > l
      <4>1. Len(x) = l
        BY <2>5, <3>4
      <4>2. Len(g[r + 1].out) = l + 2 \/ Len(g[r + 1].out) = l + 1
        BY ONLY <3>5, <3>6, <4>1
      <4> QED
        BY ONLY <4>2, l \in Nat
    <3>8. Len(g[r + 1].out) <= l /\ Len(g[r + 1].out) \in Nat
      BY <2>4, <3>1
    <3> QED
      BY <3>7, <3>8
  <2>7. h.in = TRUE /\ h.bytes = b /\ h.cur = <<>> /\ h.ones \in 0 .. k - 1
    <3>1. LastBits(s, n) = <<>>
      BY <1>3, PayloadRead
    <3> QED
      BY <1>4, <2>3, <2>4, <2>5, <2>6, <3>1 DEF ReadOK
  <2>8. v = 0
    BY <1>2, <1>6 DEF FlagBit
  <2>9. d.in = TRUE /\ d.bytes = b /\ Len(d.cur) = 1
    <3>1. Len(h.cur) = 0 /\ Len(Append(h.cur, v)) = 1
      BY <2>7
    <3>2. Len(h.cur) + 1 < ByteBits
      BY <1>1, <3>1
    <3>3. d = [h EXCEPT !.cur = Append(h.cur, v)]
      BY <1>5, <2>7, <3>2 DEF Data
    <3> QED
      BY <2>7, <3>1, <3>3 DEF HdlcType
  <2>10. OnBit(h, v) = [d EXCEPT !.ones = 0]
    <3>1. h.ones # StuffAfter /\ h.ones # StuffAfter + 1
      BY <1>1, <2>7
    <3> QED
      BY <1>5, <2>8, <3>1 DEF OnBit, Zero
  <2>11. OnBit(h, v).in = TRUE /\ OnBit(h, v).bytes = b /\ OnBit(h, v).ones = 0 /\ Len(OnBit(h, v).cur) = 1
    BY <1>5, <2>9, <2>10 DEF HdlcType
  <2>12. PICK y : y = OnBit(h, v) /\ y = OnBit(h, FlagBit(i))
    BY <1>2
  <2>13. y.in = TRUE /\ y.bytes = FirstBytes(Body(p), Len(Body(p))) /\ y.ones = i - 1
    BY <1>3, <1>4, <1>6, <2>11, <2>12
  <2>14. Len(y.cur) = IF i <= StuffAfter + 1 THEN i ELSE StuffAfter + 1
    <3>1. i <= StuffAfter + 1
      BY <1>1, <1>6
    <3> QED
      BY <1>6, <2>11, <2>12, <3>1
  <2>15. EndTracked(y, p, i)
    BY <2>13, <2>14 DEF EndTracked
  <2> QED
    BY <2>12, <2>15
<1>7. CASE i > 1
  <2>1. h.in = TRUE /\ h.bytes = b /\ h.ones = i - 2 /\ Len(h.cur) = i - 1
    <3>1. i - 1 <= k + 1 /\ (i - 1) - 1 = i - 2
      BY <1>1
    <3> QED
      BY <1>1, <1>3, <1>4, <1>7, <3>1 DEF EndTracked
  <2>2. v = 1
    BY <1>1, <1>2, <1>7 DEF FlagBit
  <2>3. CASE i - 1 <= k
    <3>1. Len(h.cur) + 1 < ByteBits
      BY <1>1, <2>1, <2>3
    <3>2. d = [h EXCEPT !.cur = Append(h.cur, v)]
      BY <1>5, <2>1, <3>1 DEF Data
    <3>3. Len(Append(h.cur, v)) = i
      <4>1. h.cur \in Seq(Binary)
        BY DEF HdlcType
      <4>2. Len(Append(h.cur, v)) = Len(h.cur) + 1
        BY <4>1
      <4> QED
        BY <2>1, <4>2
    <3>4. d.in = TRUE /\ d.bytes = b /\ Len(d.cur) = i
      BY <2>1, <3>2, <3>3 DEF HdlcType
    <3>5. h.ones + 1 <= StuffAfter /\ h.ones + 1 # StuffAfter + 1 /\ h.ones + 1 = i - 1
      BY <1>1, <2>1, <2>3
    <3>6. OnBit(h, v) = [d EXCEPT !.ones = i - 1]
      BY <1>5, <2>2, <3>5 DEF OnBit, One
    <3>7. OnBit(h, v).in = TRUE /\ OnBit(h, v).bytes = b /\ OnBit(h, v).ones = i - 1 /\ Len(OnBit(h, v).cur) = i
      BY <1>5, <3>4, <3>6 DEF HdlcType
    <3>8. i <= StuffAfter + 1
      BY <1>1, <2>3
    <3> QED
      BY <1>2, <1>3, <1>4, <3>7, <3>8 DEF EndTracked
  <2>4. CASE i - 1 = k + 1
    <3>1. ~(h.ones + 1 <= StuffAfter) /\ h.ones + 1 = StuffAfter + 1 /\ h.ones + 1 = i - 1
      BY <1>1, <2>1, <2>4
    <3>2. OnBit(h, v) = [h EXCEPT !.ones = i - 1]
      BY <2>2, <3>1 DEF OnBit, One
    <3>3. OnBit(h, v).in = TRUE /\ OnBit(h, v).bytes = b /\ OnBit(h, v).ones = i - 1 /\ Len(OnBit(h, v).cur) = i - 1
      BY <2>1, <3>2 DEF HdlcType
    <3>4. ~(i <= StuffAfter + 1) /\ StuffAfter + 1 = i - 1
      BY <1>1, <2>4
    <3> QED
      BY <1>2, <1>3, <1>4, <3>3, <3>4 DEF EndTracked
  <2>5. i - 1 <= k \/ i - 1 = k + 1
    BY <1>1
  <2> QED
    BY <2>3, <2>4, <2>5
<1> QED
  BY <1>6, <1>7
Spots(t, k, l, a, b, e, p) ==
  /\ t = Len(Training) /\ k = StuffAfter /\ l = Len(Stuffed(Body(p)))
  /\ a = Ahead /\ b = FrameEnd(p) /\ e = Total(p)
  /\ a = t + k + 3 /\ b = a + l /\ e = b + k + 3

LEMMA SpotsAre ==
  ASSUME NEW p \in Payloads
  PROVE  \E t, l, a, b, e \in Nat, k \in Nat \ {0} : Spots(t, k, l, a, b, e, p)
<1>1. PICK t \in Nat : t = Len(Training)
  BY FramingAssumption
<1>2. PICK k \in Nat \ {0} : k = StuffAfter
  BY FramingAssumption
<1>3. PICK l \in Nat : l = Len(Stuffed(Body(p)))
  <2>1. Body(p) \in Seq(Binary)
    BY BodyIs
  <2>2. 0 \in 0 .. Len(Body(p))
    BY <2>1
  <2>3. Stuffed(Body(p)) \in Seq(Binary)
    BY <2>1, <2>2, StuffRuns, StuffedGrows
  <2> QED
    BY <2>3
<1>4. Spots(t, k, l, t + k + 3, t + k + 3 + l, t + k + 3 + l + k + 3, p)
  BY <1>1, <1>2, <1>3 DEF Spots, Ahead, FrameEnd, Total
<1>5. t + k + 3 \in Nat /\ t + k + 3 + l \in Nat /\ t + k + 3 + l + k + 3 \in Nat
  BY ONLY t \in Nat, k \in Nat, l \in Nat
<1> QED
  BY <1>4, <1>5

\* Every bit of the burst brings the deframer on.
LEMMA TracksStep ==
  ASSUME NEW h \in HdlcType, NEW p \in Payloads, NEW j \in Nat, j >= Len(Training), j < Total(p),
         Tracks(h, p, j)
  PROVE  Tracks(OnBit(h, Message(p)[j + 1]), p, j + 1)
<1>1. PICK t, l, a, b, e \in Nat, k \in Nat \ {0} : Spots(t, k, l, a, b, e, p)
  BY SpotsAre
<1>2. PICK v \in Binary : v = Message(p)[j + 1]
  <2>1. Message(p) \in Seq(Binary) /\ Len(Message(p)) = e
    BY <1>1, MessageIs DEF MessageOf, Spots
  <2>2. j + 1 \in 1 .. e
    BY <1>1 DEF Spots
  <2> QED
    BY <2>1, <2>2
<1>3. PICK g \in HdlcType : g = OnBit(h, v)
  BY OnBitKeeps DEF FramesKept
<1>4. ASSUME NEW i \in 1 .. k + 2, j + 1 = t + i
      PROVE  FlagTracked(g, i)
  <2>1. v = FlagBit(i)
    <3>1. i \in 1 .. StuffAfter + 3 /\ j + 1 = Len(Training) + i
      BY <1>1, <1>4 DEF Spots
    <3> QED
      BY <1>2, <3>1, MessageIs DEF MessageOf
  <2>2. i > 1 => FlagTracked(h, i - 1)
    <3>1. i > 1 => i - 1 \in 1 .. StuffAfter + 2 /\ j = Len(Training) + (i - 1)
      BY <1>1, <1>4 DEF Spots
    <3> QED
      BY <3>1 DEF Tracks
  <2>3. i \in 1 .. StuffAfter + 2
    BY <1>1, <1>4 DEF Spots
  <2> QED
    BY <1>3, <2>1, <2>2, <2>3, FlagStep
<1>5. ASSUME NEW q \in 0 .. l, j + 1 = a + q
      PROVE  BodyOK(g, Body(p), q)
  <2>0. PICK s \in Seq(Binary) : s = Body(p)
    BY BodyIs
  <2>1. CASE q = 0
    <3>1. v = 0
      <4>1. k + 3 \in 1 .. StuffAfter + 3 /\ j + 1 = Len(Training) + (k + 3) /\ k + 3 = StuffAfter + 3
        BY <1>1, <1>5, <2>1 DEF Spots
      <4>2. v = FlagBit(k + 3)
        BY <1>2, <4>1, MessageIs DEF MessageOf
      <4> QED
        BY <4>1, <4>2 DEF FlagBit
    <3>2. h.ones = k + 1
      <4>1. k + 2 \in 1 .. StuffAfter + 2 /\ j = Len(Training) + (k + 2) /\ (k + 2) - 1 = k + 1
        BY <1>1, <1>5, <2>1 DEF Spots
      <4> QED
        BY <4>1 DEF Tracks, FlagTracked
    <3>3. g = AtFlag(h)
      <4>1. h.ones # StuffAfter /\ h.ones = StuffAfter + 1
        BY <1>1, <3>2 DEF Spots
      <4> QED
        BY <1>3, <3>1, <4>1 DEF OnBit, Zero
    <3>4. g.in = TRUE /\ g.cur = <<>> /\ g.bytes = <<>> /\ g.ones = 0
      <4>1. g.in \in BOOLEAN
        BY DEF HdlcType
      <4> QED
        BY <3>3, <4>1, FlagKeeps
    <3>5. ReadOK(g, s, 0)
      <4>1. PICK w \in Nat : w = ByteBits /\ w > 0
        BY FramingAssumption
      <4>2. 0 \div w = 0 /\ 0 % w = 0
        <5>1. w * 0 + 0 = 0
          OBVIOUS
        <5> QED
          BY <4>1, <5>1, Divided
      <4>3. FirstBytes(s, 0) = <<>> /\ LastBits(s, 0) = <<>>
        BY <4>1, <4>2 DEF FirstBytes, LastBits
      <4> QED
        BY <3>4, <4>3 DEF ReadOK
    <3>6. StuffRun(s)[0] = StuffBase
      BY StuffRuns DEF StuffSteps
    <3>7. 0 \in 0 .. Len(s)
      OBVIOUS
    <3>8. 0 = Len(StuffRun(s)[0].out) /\ g.ones = StuffRun(s)[0].ones
      BY <3>4, <3>6 DEF StuffBase
    <3> QED
      BY <2>0, <2>1, <3>5, <3>7, <3>8 DEF BodyOK
  <2>2. CASE q > 0
    <3>1. PICK m \in 0 .. l : m + 1 = q /\ m < l
      <4>1. q - 1 \in 0 .. l /\ (q - 1) + 1 = q /\ q - 1 < l
        BY <2>2
      <4> QED
        BY <4>1
    <3>2. j = Ahead + m /\ m \in 0 .. Len(Stuffed(s)) /\ m < Len(Stuffed(s)) /\ m \in Nat
      BY <1>1, <1>5, <2>0, <3>1 DEF Spots
    <3>3. BodyOK(h, s, m)
      BY <2>0, <3>2 DEF Tracks
    <3>4. v = Stuffed(s)[m + 1]
      <4>1. m + 1 \in 1 .. Len(Stuffed(Body(p))) /\ j + 1 = Ahead + (m + 1)
        BY <1>1, <1>5, <3>1 DEF Spots
      <4> QED
        BY <1>2, <2>0, <4>1, MessageIs DEF MessageOf
    <3>5. Len(s) \div ByteBits <= MaxFrame /\ Len(s) % ByteBits = 0
      BY <2>0, PayloadRead
    <3>6. BodyOK(OnBit(h, Stuffed(s)[m + 1]), s, m + 1)
      BY <3>2, <3>3, <3>5, BodyStep
    <3> QED
      BY <1>3, <2>0, <3>1, <3>4, <3>6
  <2> QED
    BY <2>1, <2>2
<1>6. ASSUME NEW i \in 1 .. k + 2, j + 1 = b + i
      PROVE  EndTracked(g, p, i)
  <2>1. v = FlagBit(i)
    <3>1. i \in 1 .. StuffAfter + 3 /\ j + 1 = FrameEnd(p) + i
      BY <1>1, <1>6 DEF Spots
    <3> QED
      BY <1>2, <3>1, MessageIs DEF MessageOf
  <2>2. i > 1 => EndTracked(h, p, i - 1)
    <3>1. i > 1 => i - 1 \in 1 .. StuffAfter + 2 /\ j = FrameEnd(p) + (i - 1)
      BY <1>1, <1>6 DEF Spots
    <3> QED
      BY <3>1 DEF Tracks
  <2>3. i = 1 => BodyOK(h, Body(p), Len(Stuffed(Body(p))))
    <3>1. i = 1 => j = Ahead + l /\ l \in 0 .. Len(Stuffed(Body(p))) /\ l = Len(Stuffed(Body(p)))
      BY <1>1, <1>6 DEF Spots
    <3> QED
      BY <3>1 DEF Tracks
  <2>4. i \in 1 .. StuffAfter + 2 /\ (i > 1 \/ i = 1)
    BY <1>1, <1>6 DEF Spots
  <2> QED
    BY <1>3, <2>1, <2>2, <2>3, <2>4, EndStep
<1>7. ASSUME j + 1 = e
      PROVE  Contains(g.frames, p)
  <2>1. v = 0
    <3>1. k + 3 \in 1 .. StuffAfter + 3 /\ j + 1 = FrameEnd(p) + (k + 3) /\ k + 3 = StuffAfter + 3
      BY <1>1, <1>7 DEF Spots
    <3>2. v = FlagBit(k + 3)
      BY <1>2, <3>1, MessageIs DEF MessageOf
    <3> QED
      BY <3>1, <3>2 DEF FlagBit
  <2>2. h.ones = k + 1 /\ h.in = TRUE /\ h.bytes = FirstBytes(Body(p), Len(Body(p)))
    <3>1. k + 2 \in 1 .. StuffAfter + 2 /\ j = FrameEnd(p) + (k + 2) /\ (k + 2) - 1 = k + 1
      BY <1>1, <1>7 DEF Spots
    <3> QED
      BY <3>1 DEF Tracks, EndTracked
  <2>3. g = AtFlag(h)
    <3>1. h.ones # StuffAfter /\ h.ones = StuffAfter + 1
      BY <1>1, <2>2 DEF Spots
    <3> QED
      BY <1>3, <2>1, <3>1 DEF OnBit, Zero
  <2>4. Len(h.bytes) >= MinFrame /\ Valid(h.bytes) /\ Payload(h.bytes) = p
    <3>1. MinFrame \in Nat /\ MaxFrame \in Nat
      BY FramingAssumption
    <3> QED
      BY <2>2, <3>1, PayloadRead
  <2> QED
    BY <2>2, <2>3, <2>4, FlagKeeps
<1> QED
  BY <1>1, <1>2, <1>3, <1>4, <1>5, <1>6, <1>7 DEF Tracks, Spots
-----------------------------------------------------------------------------
(* What a branch emits *)

DeframeSteps(g, h, s) ==
  /\ \A n \in 0 .. Len(s) : g[n] \in HdlcType
  /\ g[0] = [h EXCEPT !.frames = <<>>]
  /\ \A n \in 1 .. Len(s) : g[n] = OnBit(g[n - 1], s[n])
  /\ Deframed(h, s) = g[Len(s)]

LEMMA Deframes ==
  ASSUME NEW h \in HdlcType, NEW s \in Seq(Binary)
  PROVE  \E g : DeframeSteps(g, h, s)
<1>0. PICK len \in Nat : len = Len(s)
  OBVIOUS
<1>1. PICK base \in HdlcType : base = [h EXCEPT !.frames = <<>>]
  <2>1. <<>> \in Seq(AnyFrame)
    OBVIOUS
  <2> QED
    BY <2>1 DEF HdlcType
<1> DEFINE step == [n \in 1 .. len |-> [t \in HdlcType |-> OnBit(t, s[n])]]
<1>2. step \in [1 .. len -> [HdlcType -> HdlcType]]
  <2>1. \A n \in 1 .. len : s[n] \in Binary
    BY <1>0
  <2> QED
    BY <2>1, OnBitKeeps DEF FramesKept
<1>3. PICK f \in [0 .. len -> HdlcType] : Runs(f, len, base, step)
  <2> HIDE DEF step
  <2> QED
    BY <1>1, <1>2, RunExists
<1> DEFINE Unfolds(x) == x = [n \in 0 .. len |->
             IF n = 0 THEN [h EXCEPT !.frames = <<>>] ELSE OnBit(x[n - 1], s[n])]
           e == CHOOSE x : Unfolds(x)
<1>4. Unfolds(f)
  <2>1. \A n \in 0 .. len : n # 0 => n - 1 \in 0 .. len /\ n \in 1 .. len
    OBVIOUS
  <2>2. \A n \in 0 .. len : f[n] = IF n = 0 THEN base ELSE OnBit(f[n - 1], s[n])
    BY <1>3, <2>1 DEF Runs
  <2> QED
    BY <1>1, <1>3, <2>2
<1>5. Unfolds(e)
  BY <1>4
<1>6. Deframed(h, s) = e[len]
  BY <1>0 DEF Deframed
<1> HIDE DEF e
<1>7. /\ e[0] = base
      /\ \A n \in 1 .. len : n \in 0 .. len /\ n - 1 \in 0 .. len /\ e[n] = OnBit(e[n - 1], s[n])
  <2>1. \A n \in 1 .. len : n \in 0 .. len /\ n # 0 /\ n - 1 \in 0 .. len
    OBVIOUS
  <2>2. 0 \in 0 .. len
    OBVIOUS
  <2>3. \A n \in 0 .. len : e[n] = IF n = 0 THEN [h EXCEPT !.frames = <<>>] ELSE OnBit(e[n - 1], s[n])
    BY <1>5
  <2>4. e[0] = base
    BY <1>1, <2>2, <2>3
  <2> QED
    BY <2>1, <2>3, <2>4
<1>8. \A n \in 0 .. len : e[n] \in HdlcType
  <2> DEFINE T == {n \in 0 .. len : e[n] \in HdlcType}
  <2>1. 0 \in T
    BY <1>1, <1>7
  <2>2. ASSUME NEW n \in 0 .. len, n < len, n \in T
        PROVE  n + 1 \in T
    <3>1. n + 1 \in 1 .. len /\ (n + 1) - 1 = n
      BY <2>2
    <3>2. s[n + 1] \in Binary
      BY <1>0, <3>1
    <3> QED
      BY <1>7, <2>2, <3>1, <3>2, OnBitKeeps DEF FramesKept
  <2>3. \A n \in 0 .. len : n \in T
    <3> HIDE DEF T
    <3> QED
      BY <2>1, <2>2, Upwards
  <2> QED
    BY <2>3
<1>9. DeframeSteps(e, h, s)
  BY <1>0, <1>1, <1>6, <1>7, <1>8 DEF DeframeSteps
<1> QED
  BY <1>9

LEMMA FramesStay ==
  ASSUME NEW h \in HdlcType, NEW s \in Seq(Binary), NEW g, DeframeSteps(g, h, s),
         NEW n \in 0 .. Len(s), NEW x, Contains(g[n].frames, x)
  PROVE  Contains(Deframed(h, s).frames, x)
<1>0. PICK len \in Nat : len = Len(s)
  OBVIOUS
<1> DEFINE T == {m \in n .. len : Contains(g[m].frames, x)}
<1>1. n \in T
  BY <1>0
<1>2. ASSUME NEW m \in n .. len, m < len, m \in T
      PROVE  m + 1 \in T
  <2>1. m \in 0 .. len /\ m + 1 \in 1 .. len /\ m + 1 \in n .. len /\ (m + 1) - 1 = m
    BY <1>0, <1>2
  <2>2. s[m + 1] \in Binary /\ g[m] \in HdlcType
    BY <1>0, <2>1 DEF DeframeSteps
  <2>3. g[m + 1] = OnBit(g[m], s[m + 1])
    BY <1>0, <2>1 DEF DeframeSteps
  <2> QED
    BY <1>2, <2>1, <2>2, <2>3, OnBitKeeps DEF FramesKept
<1>3. \A m \in n .. len : m \in T
  <2>1. n \in Nat
    OBVIOUS
  <2> HIDE DEF T
  <2> QED
    BY <1>1, <1>2, <2>1, Upwards
<1>4. len \in n .. len
  BY <1>0
<1> QED
  BY <1>0, <1>3, <1>4 DEF DeframeSteps

\* Before the first flag nothing is known, and the frames that came out do not
\* count before the end.
LEMMA TracksAny ==
  ASSUME NEW h, NEW p \in Payloads
  PROVE  Tracks(h, p, Len(Training))
<1>1. PICK t, l, a, b, e \in Nat, k \in Nat \ {0} : Spots(t, k, l, a, b, e, p)
  BY SpotsAre
<1>2. /\ \A i \in 1 .. k + 2 : t # t + i /\ t # b + i
      /\ \A q \in 0 .. l : t # a + q
      /\ t # e
  BY <1>1 DEF Spots
<1> QED
  BY <1>1, <1>2 DEF Tracks, Spots

LEMMA TracksFrames ==
  ASSUME NEW h \in HdlcType, NEW p \in Payloads, NEW j \in Nat, j < Total(p), Tracks(h, p, j), NEW f
  PROVE  Tracks([h EXCEPT !.frames = f], p, j)
<1>1. PICK g : g = [h EXCEPT !.frames = f]
  OBVIOUS
<1>2. g.ones = h.ones /\ g.in = h.in /\ g.cur = h.cur /\ g.bytes = h.bytes
  BY <1>1 DEF HdlcType
<1>3. \A i : FlagTracked(h, i) => FlagTracked(g, i)
  BY <1>2 DEF FlagTracked
<1>4. \A i : EndTracked(h, p, i) => EndTracked(g, p, i)
  BY <1>2 DEF EndTracked
<1>5. \A s, r : ReadOK(h, s, r) => ReadOK(g, s, r)
  BY <1>2 DEF ReadOK
<1>6. \A q : BodyOK(h, Body(p), q) => BodyOK(g, Body(p), q)
  <2>1. SUFFICES ASSUME NEW q, BodyOK(h, Body(p), q) PROVE BodyOK(g, Body(p), q)
    OBVIOUS
  <2>2. PICK s : s = Body(p)
    OBVIOUS
  <2>3. PICK r \in 0 .. Len(s) :
          /\ ReadOK(h, s, r)
          /\ \/ q = Len(StuffRun(s)[r].out) /\ h.ones = StuffRun(s)[r].ones
             \/ /\ q + 1 = Len(StuffRun(s)[r].out) /\ h.ones = StuffAfter
                /\ StuffRun(s)[r].ones = 0 /\ StuffRun(s)[r].out[q + 1] = 0
    BY <2>1, <2>2 DEF BodyOK
  <2> QED
    BY <1>2, <1>5, <2>2, <2>3 DEF BodyOK
<1>7. j # Total(p)
  <2>1. Total(p) \in Nat
    BY SpotsAre DEF Spots
  <2> QED
    BY <2>1
<1> QED
  BY <1>1, <1>3, <1>4, <1>6, <1>7 DEF Tracks

LEMMA NrziIs ==
  ASSUME NEW last \in Binary, NEW e \in Seq(Binary)
  PROVE  /\ NrziDecoded(last, e) \in Seq(Binary) /\ Len(NrziDecoded(last, e)) = Len(e)
         /\ \A i \in 1 .. Len(e) :
              NrziDecoded(last, e)[i] = IF e[i] = (IF i = 1 THEN last ELSE e[i - 1]) THEN 1 ELSE 0
<1>1. PICK n \in Nat : n = Len(e)
  OBVIOUS
<1>2. PICK d : d = NrziDecoded(last, e)
  OBVIOUS
<1>3. d = [i \in 1 .. n |-> IF e[i] = (IF i = 1 THEN last ELSE e[i - 1]) THEN 1 ELSE 0]
  <2>1. DOMAIN e = 1 .. n
    BY <1>1
  <2> QED
    BY <1>2, <2>1 DEF NrziDecoded
<1>4. d \in Seq(Binary) /\ Len(d) = n
  BY <1>3 DEF Binary
<1> QED
  BY <1>1, <1>2, <1>3, <1>4

\* Bits of a burst from place off + 1 on, where those before place k + 1 may be
\* anything: either they begin in the training, or the decoder and the
\* deframer have the first k bits.
PartOf(e, p, level, off, k) ==
  \A i \in 1 .. Len(e) : k < off + i /\ off + i <= Total(p) => e[i] = Burst[p][level][off + i]

Continues(h, last, p, level, off, k) ==
  off = k /\ k < Total(p) /\ last = Burst[p][level][k] /\ Tracks(h, p, k)

LEMMA PartRead ==
  ASSUME NEW h \in HdlcType, NEW last \in Binary, NEW e \in Seq(Binary),
         NEW p \in Payloads, NEW level \in Binary, NEW off \in Int, NEW k \in Nat, off <= k,
         PartOf(e, p, level, off, k),
         k < Len(Training) \/ Continues(h, last, p, level, off, k),
         NEW x, x = Deframed(h, NrziDecoded(last, e))
  PROVE  /\ x \in HdlcType
         /\ off + Len(e) >= Total(p) => Contains(x.frames, p)
         /\ Len(Training) <= off + Len(e) /\ off + Len(e) < Total(p) => Tracks(x, p, off + Len(e))
<1>1. PICK t \in Nat, z \in Nat : t = Len(Training) /\ z = Total(p) /\ t < z
  BY SpotsAre DEF Spots
<1>2. PICK n \in Nat : n = Len(e)
  OBVIOUS
<1>3. PICK m : m = Message(p) /\ m \in Seq(Binary) /\ Len(m) = z
  BY <1>1, MessageIs DEF MessageOf
<1>4. PICK u : u = Burst[p][level] /\ u \in Seq(Binary) /\ Len(u) = z
  BY <1>1, BurstIs
<1>5. \A j \in 2 .. z : m[j] = IF u[j] = u[j - 1] THEN 1 ELSE 0
  BY <1>1, <1>3, <1>4, BurstIs
<1>6. PICK d \in Seq(Binary) :
        /\ d = NrziDecoded(last, e) /\ Len(d) = n
        /\ \A i \in 1 .. n : d[i] = IF e[i] = (IF i = 1 THEN last ELSE e[i - 1]) THEN 1 ELSE 0
  BY <1>2, NrziIs
<1>7. PICK g : DeframeSteps(g, h, d)
  BY <1>6, Deframes
<1>8. /\ \A i \in 0 .. n : g[i] \in HdlcType
      /\ g[0] = [h EXCEPT !.frames = <<>>]
      /\ \A i \in 1 .. n : g[i] = OnBit(g[i - 1], d[i])
      /\ x = g[n]
  BY <1>6, <1>7 DEF DeframeSteps
<1>9. \A i \in 1 .. n : k < off + i /\ off + i <= z => e[i] = u[off + i]
  BY <1>1, <1>2, <1>4 DEF PartOf
<1>10. ASSUME t <= off + n
       PROVE  \E o \in 0 .. n : /\ off + o >= t /\ off + o < z /\ Tracks(g[o], p, off + o)
                                /\ \A i \in 1 .. n : i > o => k < off + i
                                /\ IF o = 0 THEN last = u[off] ELSE e[o] = u[off + o]
  <2>1. CASE k < t
    <3>1. PICK o \in 1 .. n : off + o = t
      <4>1. t - off \in 1 .. n /\ off + (t - off) = t
        BY <1>10, <2>1
      <4> QED
        BY <4>1
    <3>2. Tracks(g[o], p, off + o)
      BY <1>1, <3>1, TracksAny
    <3>3. e[o] = u[off + o]
      BY <1>1, <1>9, <2>1, <3>1
    <3>4. \A i \in 1 .. n : i > o => k < off + i
      BY <2>1, <3>1
    <3>5. o \in 0 .. n /\ o # 0 /\ off + o >= t /\ off + o < z
      BY <1>1, <3>1
    <3>6. /\ off + o >= t /\ off + o < z /\ Tracks(g[o], p, off + o)
          /\ \A i \in 1 .. n : i > o => k < off + i
          /\ IF o = 0 THEN last = u[off] ELSE e[o] = u[off + o]
      BY <3>2, <3>3, <3>4, <3>5
    <3> QED
      BY <3>5, <3>6
  <2>2. CASE ~(k < t)
    <3>1. off = k /\ k < z /\ last = u[k] /\ Tracks(h, p, k)
      BY <1>1, <1>4, <2>2 DEF Continues
    <3>2. Tracks(g[0], p, k)
      <4>1. k < Total(p) /\ Tracks(h, p, k)
        BY <1>1, <3>1
      <4>2. Tracks([h EXCEPT !.frames = <<>>], p, k)
        BY <4>1, TracksFrames
      <4> QED
        BY <1>8, <4>2
    <3>3. off + 0 = k /\ 0 \in 0 .. n /\ k >= t /\ \A i \in 1 .. n : k < off + i
      BY <1>1, <2>2, <3>1
    <3> QED
      BY <3>1, <3>2, <3>3
  <2> QED
    BY <2>1, <2>2
<1>11. ASSUME t <= off + n
       PROVE  \E o \in 0 .. n : /\ off + o < z
                                /\ \A i \in o .. n : off + i <= z => Tracks(g[i], p, off + i)
  <2>1. PICK o \in 0 .. n : /\ off + o >= t /\ off + o < z /\ Tracks(g[o], p, off + o)
                            /\ \A i \in 1 .. n : i > o => k < off + i
                            /\ IF o = 0 THEN last = u[off] ELSE e[o] = u[off + o]
    BY <1>10, <1>11
  <2> DEFINE T == {i \in o .. n : off + i <= z => Tracks(g[i], p, off + i)}
  <2>2. o \in T
    BY <2>1
  <2>3. ASSUME NEW i \in o .. n, i < n, i \in T
        PROVE  i + 1 \in T
    <3>1. i + 1 \in o .. n /\ i + 1 \in 1 .. n /\ i \in 0 .. n /\ (i + 1) - 1 = i
      BY <2>3
    <3>2. SUFFICES ASSUME off + (i + 1) <= z
                   PROVE  Tracks(g[i + 1], p, off + (i + 1))
      BY <3>1
    <3>3. PICK j \in Nat : j = off + i /\ j >= t /\ j < z /\ off + (i + 1) = j + 1 /\ j + 1 <= z
      <4>1. off + i >= t /\ off + i < z /\ off + (i + 1) = (off + i) + 1 /\ off + i \in Nat
        BY <1>1, <2>1, <3>1, <3>2
      <4> QED
        BY <3>2, <4>1
    <3>4. Tracks(g[i], p, j)
      BY <2>3, <3>3
    <3>5. e[i + 1] = u[j + 1]
      <4>1. k < off + (i + 1)
        <5>1. i + 1 \in 1 .. n /\ i + 1 > o
          BY <3>1
        <5>2. \A q \in 1 .. n : q > o => k < off + q
          BY <2>1
        <5> QED
          BY ONLY <5>1, <5>2
      <4> QED
        BY <1>9, <3>1, <3>2, <3>3, <4>1
    <3>6. (IF i + 1 = 1 THEN last ELSE e[(i + 1) - 1]) = u[j]
      <4>1. CASE i = o
        <5>1. CASE o = 0
          <6>1. i + 1 = 1 /\ j = off /\ last = u[off]
            BY <2>1, <3>3, <4>1, <5>1
          <6> QED
            BY <6>1
        <5>2. CASE o # 0
          <6>1. i + 1 # 1 /\ (i + 1) - 1 = o /\ e[o] = u[off + o] /\ j = off + o
            BY <2>1, <3>1, <3>3, <4>1, <5>2
          <6> QED
            BY <6>1
        <5> QED
          BY <5>1, <5>2
      <4>2. CASE i # o
        <5>1. i \in 1 .. n /\ i > o /\ i + 1 # 1 /\ (i + 1) - 1 = i
          BY <3>1, <4>2
        <5>2. e[i] = u[off + i]
          <6>1. k < off + i
            <7>1. \A q \in 1 .. n : q > o => k < off + q
              BY <2>1
            <7> QED
              BY ONLY <5>1, <7>1
          <6>2. off + i <= z
            BY ONLY <3>3, j \in Nat, z \in Nat
          <6> QED
            BY <1>9, <5>1, <6>1, <6>2
        <5> QED
          BY <3>3, <5>1, <5>2
      <4> QED
        BY <4>1, <4>2
    <3>7. d[i + 1] = m[j + 1]
      <4>1. j + 1 \in 2 .. z /\ (j + 1) - 1 = j
        <5>1. t >= 1
          BY <1>1, FramingAssumption
        <5> QED
          BY <3>3, <5>1
      <4>2. m[j + 1] = IF u[j + 1] = u[j] THEN 1 ELSE 0
        BY <1>5, <4>1
      <4>3. d[i + 1] = IF e[i + 1] = (IF i + 1 = 1 THEN last ELSE e[(i + 1) - 1]) THEN 1 ELSE 0
        BY <1>6, <3>1
      <4> QED
        BY <3>5, <3>6, <4>2, <4>3
    <3>8. g[i + 1] = OnBit(g[i], m[j + 1])
      BY <1>8, <3>1, <3>7
    <3>9. g[i] \in HdlcType
      BY <1>8, <3>1
    <3> QED
      BY <1>1, <1>3, <3>3, <3>4, <3>8, <3>9, TracksStep
  <2>4. \A i \in o .. n : i \in T
    <3>1. o \in Nat
      OBVIOUS
    <3> HIDE DEF T
    <3> QED
      BY <2>2, <2>3, <3>1, Upwards
  <2> QED
    BY <2>1, <2>4
<1>12. ASSUME off + n >= z
       PROVE  Contains(x.frames, p)
  <2>1. t <= off + n
    BY <1>1, <1>12
  <2>2. PICK o \in 0 .. n : off + o < z /\ \A i \in o .. n : off + i <= z => Tracks(g[i], p, off + i)
    BY <1>11, <2>1
  <2>3. PICK i \in o .. n : off + i = z
    <3>1. z - off \in o .. n /\ off + (z - off) = z
      BY <1>12, <2>2
    <3> QED
      BY <3>1
  <2>4. Contains(g[i].frames, p)
    <3>1. Tracks(g[i], p, z)
      BY <1>1, <2>2, <2>3
    <3> QED
      BY <1>1, <3>1 DEF Tracks
  <2>5. i \in 0 .. Len(d)
    BY <1>6
  <2> QED
    BY <1>6, <1>7, <2>4, <2>5, FramesStay
<1>13. ASSUME t <= off + n, off + n < z
       PROVE  Tracks(x, p, off + n)
  <2>1. PICK o \in 0 .. n : off + o < z /\ \A i \in o .. n : off + i <= z => Tracks(g[i], p, off + i)
    BY <1>11, <1>13
  <2>2. n \in o .. n /\ off + n <= z
    BY <1>13
  <2> QED
    BY <1>8, <2>1, <2>2
<1>14. x \in HdlcType
  BY <1>8
<1> QED
  BY <1>1, <1>2, <1>12, <1>13, <1>14
GateType == [hold : 0 .. Hold, open : BOOLEAN, bits : Seq(Binary), due : Payloads \union {None},
             split : BOOLEAN, busy : BOOLEAN]

SharedType == [last : Binary, hdlc : HdlcType]

SymType == [above : BOOLEAN, bit : Binary, more : BOOLEAN]

EmittedOK(e, s) ==
  /\ e \in Seq(Binary) /\ Len(e) <= Len(s) /\ \A i \in 1 .. Len(e) : e[i] = s[i]
  /\ Len(s) >= ByteBits => Len(e) > 0 /\ Len(e) + ByteBits > Len(s)
  /\ Len(s) = MaxBits => Len(e) = Len(s)

LEMMA EmittedIs ==
  ASSUME NEW s \in Seq(Binary)
  PROVE  EmittedOK(Emitted(s), s)
<1>1. PICK w \in Nat : w = ByteBits /\ w > 0 /\ MinBits = w /\ MaxBits \in Nat /\ MaxBits >= 1 /\ MaxBits % w = 0
  BY FramingAssumption
<1>2. PICK n \in Nat : n = Len(s)
  OBVIOUS
<1>3. PICK e : e = Emitted(s)
  OBVIOUS
<1>4. CASE ~(n >= w)
  <2>1. e = <<>>
    BY <1>1, <1>2, <1>3, <1>4 DEF Emitted
  <2>2. n # MaxBits
    <3>1. PICK a \in Nat, c \in 0 .. w - 1 : c = MaxBits % w /\ MaxBits = w * a + c
      BY <1>1, Dividing
    <3>2. a # 0
      <4> SUFFICES ASSUME a = 0 PROVE FALSE
        OBVIOUS
      <4>1. MaxBits = c /\ c = 0
        BY <1>1, <3>1
      <4> QED
        BY <1>1, <4>1
    <3>3. w * 1 <= w * a
      BY <3>2, AtLeast
    <3>4. PICK y \in Nat : y = w * a
      OBVIOUS
    <3>5. w * 1 = w
      OBVIOUS
    <3> QED
      BY <1>1, <1>4, <3>1, <3>3, <3>4, <3>5
  <2>3. <<>> \in Seq(Binary) /\ Len(<<>>) = 0
    OBVIOUS
  <2> QED
    BY <1>1, <1>2, <1>3, <1>4, <2>1, <2>2, <2>3 DEF EmittedOK
<1>5. CASE n >= w
  <2>1. PICK a \in Nat, c \in 0 .. w - 1 : a = n \div w /\ c = n % w /\ n = w * a + c
    BY <1>1, Dividing
  <2>2. PICK y \in Nat : y = w * a
    OBVIOUS
  <2>3. e = SubSeq(s, 1, y)
    BY <1>1, <1>2, <1>3, <1>5, <2>1, <2>2 DEF Emitted
  <2>4. y <= n /\ y + w > n /\ y >= 1
    BY <1>1, <1>5, <2>1, <2>2
  <2>6. 1 \in Nat \ {0} /\ y <= Len(s) /\ 1 <= y + 1
    BY <1>2, <2>4
  <2>7. e \in Seq(Binary) /\ Len(e) = y - 1 + 1 /\ \A i \in 1 .. y - 1 + 1 : e[i] = s[1 + i - 1]
    BY <2>3, <2>6, Cutting
  <2>8. Len(e) = y /\ \A i \in 1 .. y : e[i] = s[i]
    BY ONLY <2>4, <2>7, y \in Nat
  <2>9. n = MaxBits => y = n
    <3>1. n = MaxBits => c = 0
      BY <1>1, <2>1
    <3> QED
      BY <2>1, <2>2, <3>1
  <2> QED
    BY <1>1, <1>2, <1>3, <2>4, <2>7, <2>8, <2>9 DEF EmittedOK
<1> QED
  BY <1>4, <1>5

\* A symbol as the j-th of a burst, or before or behind it.
FitsAt(sym, p, level, missed, j) ==
  /\ sym \in SymType
  /\ IF 1 <= j /\ j <= Total(p)
     THEN sym.bit = Burst[p][level][j] /\ sym.more = (j < Total(p)) /\ sym.above = (j > missed)
     ELSE ~sym.above /\ ~sym.more

\* m symbols of the burst were heard: the gate is open until its end, and what
\* is in the buffer goes on where the deframer stands, or begins in the training.
Waits(g, sh, p, level, missed, m, k) ==
  /\ missed < m /\ m < Total(p) + Hold /\ k <= m /\ k < Total(p) + 1
  /\ g.open /\ g.hold = IF m <= Total(p) THEN Hold ELSE Hold - (m - Total(p))
  /\ m - Len(g.bits) <= k /\ PartOf(g.bits, p, level, m - Len(g.bits), k)
  /\ \/ k < Len(Training)
     \/ g.split /\ Continues(sh.hdlc, sh.last, p, level, m - Len(g.bits), k)

Deframing(sh, e) == Deframed(sh.hdlc, NrziDecoded(sh.last, e))

\* A branch and what it shares once it has emitted e.
Anew(g, x) ==
  [g EXCEPT !.bits = <<>>, !.split = g.busy, !.due = IF Contains(x.frames, g.due) THEN None ELSE g.due]

SharedNow(sh, e, x) ==
  [last |-> IF e = <<>> THEN sh.last ELSE Last(e), hdlc |-> [x EXCEPT !.frames = <<>>]]

\* What Waits says, put together.
LEMMA WaitsOf ==
  ASSUME NEW f \in GateType, NEW sh, NEW p, NEW level, NEW missed, NEW m \in Int, NEW k \in Nat,
         f.open, missed < m /\ m < Total(p) + Hold /\ k <= m /\ k < Total(p) + 1,
         f.hold = IF m <= Total(p) THEN Hold ELSE Hold - (m - Total(p)),
         m - Len(f.bits) <= k /\ PartOf(f.bits, p, level, m - Len(f.bits), k),
         \/ k < Len(Training)
         \/ f.split /\ Continues(sh.hdlc, sh.last, p, level, m - Len(f.bits), k)
  PROVE  Waits(f, sh, p, level, missed, m, k)
<1>1. missed < m /\ m < Total(p) + Hold /\ k <= m /\ k < Total(p) + 1
  OBVIOUS
<1>2. f.open /\ f.hold = (IF m <= Total(p) THEN Hold ELSE Hold - (m - Total(p)))
  OBVIOUS
<1>3. m - Len(f.bits) <= k /\ PartOf(f.bits, p, level, m - Len(f.bits), k)
  OBVIOUS
<1>4. \/ k < Len(Training)
      \/ f.split /\ Continues(sh.hdlc, sh.last, p, level, m - Len(f.bits), k)
  OBVIOUS
<1> QED
  BY ONLY <1>1, <1>2, <1>3, <1>4 DEF Waits

\* The next symbol comes into the buffer.
LEMMA PushWaits ==
  ASSUME NEW g \in GateType, NEW sh \in SharedType, NEW p \in Payloads, NEW level \in Binary,
         NEW missed \in 0 .. Attack, NEW m \in Int, NEW k \in Nat, NEW sym,
         m <= missed \/ Waits(g, sh, p, level, missed, m, k),
         FitsAt(sym, p, level, missed, m + 1), missed < m + 1,
         sym.above \/ HoldAfter(g, sym.above) > 0,
         NEW f \in GateType, f.open, f.hold = HoldAfter(g, sym.above), f.split = g.split,
         f.bits = Append(g.bits, sym.bit)
  PROVE  \E l \in Nat : Waits(f, sh, p, level, missed, m + 1, l)
<1>1. PICK t \in Nat, z \in Nat : t = Len(Training) /\ z = Total(p) /\ t < z
  BY SpotsAre DEF Spots
<1>2. Attack \in Nat /\ Attack < t /\ Hold \in Nat /\ Hold > 0
  BY <1>1, FramingAssumption
<1>3. g.bits \in Seq(Binary) /\ sym.bit \in Binary /\ sym.above \in BOOLEAN /\ g.hold \in 0 .. Hold
  BY DEF FitsAt, SymType, GateType
<1>4. PICK n \in Nat : n = Len(g.bits)
  BY <1>3
<1>5. Len(f.bits) = n + 1 /\ f.bits[n + 1] = sym.bit /\ \A i \in 1 .. n : f.bits[i] = g.bits[i]
  BY <1>3, <1>4
<1>6. PICK off \in Int : off = m - n /\ off = (m + 1) - (n + 1)
  OBVIOUS
<1>7. m + 1 >= 1
  OBVIOUS
<1>8. /\ m + 1 < z + Hold
      /\ f.hold = IF m + 1 <= z THEN Hold ELSE Hold - (m + 1 - z)
  <2>1. CASE m + 1 <= z
    <3>1. sym.above
      BY <1>1, <1>7, <2>1 DEF FitsAt
    <3>2. f.hold = Hold
      BY <3>1 DEF HoldAfter
    <3> QED
      BY <1>2, <2>1, <3>2
  <2>2. CASE m + 1 > z
    <3>1. ~sym.above
      BY <1>1, <2>2 DEF FitsAt
    <3>2. f.hold = (IF g.hold > 0 THEN g.hold - 1 ELSE 0) /\ f.hold > 0
      BY <3>1 DEF HoldAfter
    <3>3. m >= z /\ m > missed
      BY <1>1, <1>2, <2>2
    <3>4. g.hold = IF m <= z THEN Hold ELSE Hold - (m - z)
      BY <1>1, <3>3 DEF Waits
    <3>5. g.hold = Hold - (m - z)
      <4>1. m = z => Hold = Hold - (m - z)
        BY <1>2
      <4> QED
        BY <3>3, <3>4, <4>1
    <3> QED
      BY <1>2, <1>3, <2>2, <3>2, <3>5
  <2> QED
    BY <1>1, <2>1, <2>2
<1>9. m + 1 <= z => f.bits[n + 1] = Burst[p][level][m + 1]
  BY <1>1, <1>5, <1>7 DEF FitsAt
<1>10. CASE m <= missed
  <2>1. PICK l \in Nat : l = m /\ l < t /\ l <= m + 1 /\ off <= l /\ l < z
    <3>1. m = missed
      BY <1>10
    <3> QED
      BY <1>1, <1>2, <1>4, <1>6, <3>1
  <2>2. ASSUME NEW i \in 1 .. Len(f.bits), l < off + i, off + i <= z
        PROVE  f.bits[i] = Burst[p][level][off + i]
    <3>1. i = n + 1 /\ off + i = m + 1
      BY <1>5, <1>6, <2>1, <2>2
    <3> QED
      BY <1>9, <2>2, <3>1
  <2>3. PartOf(f.bits, p, level, off, l)
    BY <1>1, <2>2 DEF PartOf
  <2>4. m + 1 - Len(f.bits) = off
    BY <1>5, <1>6
  <2>5. missed < m + 1
    OBVIOUS
  <2>6. Waits(f, sh, p, level, missed, m + 1, l)
    <3>1. PICK j \in Int : j = m + 1
      OBVIOUS
    <3>2. missed < j /\ j < Total(p) + Hold /\ l <= j /\ l < Total(p) + 1
      BY <1>1, <1>2, <1>8, <2>1, <3>1
    <3>3. f.hold = IF j <= Total(p) THEN Hold ELSE Hold - (j - Total(p))
      BY <1>1, <1>8, <3>1
    <3>4. j - Len(f.bits) = off
      BY <1>4, <1>5, <1>6, <3>1
    <3>5. j - Len(f.bits) <= l /\ PartOf(f.bits, p, level, j - Len(f.bits), l)
      BY <2>1, <2>3, <3>4
    <3>6. \/ l < Len(Training)
          \/ f.split /\ Continues(sh.hdlc, sh.last, p, level, j - Len(f.bits), l)
      BY <1>1, <2>1, <3>4
    <3>7. Waits(f, sh, p, level, missed, j, l)
      BY <3>2, <3>3, <3>5, <3>6, WaitsOf
    <3> QED
      BY <3>1, <3>7
  <2> QED
    BY <2>6
<1>11. CASE ~(m <= missed)
  <2>1. Waits(g, sh, p, level, missed, m, k)
    BY <1>11
  <2>2. ASSUME NEW i \in 1 .. Len(f.bits), k < off + i, off + i <= z
        PROVE  f.bits[i] = Burst[p][level][off + i]
    <3>1. CASE i = n + 1
      <4>1. off + i = m + 1
        BY <1>6, <3>1
      <4> QED
        BY <1>9, <2>2, <3>1, <4>1
    <3>2. CASE i \in 1 .. n
      <4>1. g.bits[i] = Burst[p][level][off + i]
        BY <1>1, <1>4, <1>6, <2>1, <2>2, <3>2 DEF Waits, PartOf
      <4> QED
        BY <1>5, <3>2, <4>1
    <3> QED
      BY <1>5, <3>1, <3>2
  <2>3. PartOf(f.bits, p, level, off, k)
    BY <1>1, <2>2 DEF PartOf
  <2>4. m + 1 - Len(f.bits) = off /\ m - Len(g.bits) = off
    BY <1>4, <1>5, <1>6
  <2>5. k <= m /\ k < z + 1 /\ off <= k
        /\ (k < Len(Training) \/ (g.split /\ Continues(sh.hdlc, sh.last, p, level, off, k)))
    BY <1>1, <2>1, <2>4 DEF Waits
  <2>6. k <= m + 1
    BY <2>5
  <2>7. missed < m + 1
    OBVIOUS
  <2>8. Waits(f, sh, p, level, missed, m + 1, k)
    <3>1. PICK j \in Int : j = m + 1
      OBVIOUS
    <3>2. missed < j /\ j < Total(p) + Hold /\ k <= j /\ k < Total(p) + 1
      BY <1>1, <1>2, <1>8, <2>5, <2>6, <3>1
    <3>3. f.hold = IF j <= Total(p) THEN Hold ELSE Hold - (j - Total(p))
      BY <1>1, <1>8, <3>1
    <3>4. j - Len(f.bits) = off
      BY <1>4, <1>5, <1>6, <3>1
    <3>5. j - Len(f.bits) <= k /\ PartOf(f.bits, p, level, j - Len(f.bits), k)
      BY <2>5, <2>3, <3>4
    <3>6. \/ k < Len(Training)
          \/ f.split /\ Continues(sh.hdlc, sh.last, p, level, j - Len(f.bits), k)
      BY <1>1, <2>5, <2>6, <3>4
    <3>7. Waits(f, sh, p, level, missed, j, k)
      BY <3>2, <3>3, <3>5, <3>6, WaitsOf
    <3> QED
      BY <3>1, <3>7
  <2> QED
    BY <2>8
<1> QED
  BY <1>10, <1>11

\* A full buffer is emitted.
LEMMA FullWaits ==
  ASSUME NEW g \in GateType, NEW sh \in SharedType, NEW p \in Payloads, NEW level \in Binary,
         NEW missed \in 0 .. Attack, NEW m \in Int, NEW k \in Nat,
         Waits(g, sh, p, level, missed, m, k), Len(g.bits) = MaxBits, m < Total(p) => g.busy,
         NEW x, x = Deframing(sh, Emitted(g.bits)), ~Contains(x.frames, p),
         NEW f \in GateType, f.open, f.hold = g.hold, f.split = g.busy, f.bits = <<>>
  PROVE  \E l \in Nat : Waits(f, SharedNow(sh, Emitted(g.bits), x), p, level, missed, m, l)
<1>1. PICK t \in Nat, z \in Nat : t = Len(Training) /\ z = Total(p) /\ t < z
  BY SpotsAre DEF Spots
<1>2. PICK e \in Seq(Binary), n \in Nat :
        /\ e = Emitted(g.bits) /\ n = Len(g.bits) /\ Len(e) = n /\ n > 0
        /\ \A i \in 1 .. n : e[i] = g.bits[i]
  <2>1. g.bits \in Seq(Binary) /\ MaxBits \in Nat \ {0}
    BY FramingAssumption DEF GateType
  <2> QED
    BY <2>1, EmittedIs DEF EmittedOK
<1>3. PICK off \in Int : off = m - n /\ off + n = m
  <2>1. m - n \in Int /\ (m - n) + n = m
    OBVIOUS
  <2> QED
    BY <2>1
<1>4. /\ missed < m /\ m < z + Hold /\ k <= m /\ off <= k
      /\ g.hold = IF m <= z THEN Hold ELSE Hold - (m - z)
      /\ PartOf(g.bits, p, level, off, k)
      /\ k < Len(Training) \/ (g.split /\ Continues(sh.hdlc, sh.last, p, level, off, k))
  BY <1>1, <1>2, <1>3 DEF Waits
<1>5. PartOf(e, p, level, off, k)
  BY <1>2, <1>4 DEF PartOf
<1>6. /\ x \in HdlcType
      /\ off + Len(e) >= Total(p) => Contains(x.frames, p)
      /\ Len(Training) <= off + Len(e) /\ off + Len(e) < Total(p) => Tracks(x, p, off + Len(e))
  <2>1. sh.hdlc \in HdlcType /\ sh.last \in Binary
    BY DEF SharedType
  <2>2. x = Deframed(sh.hdlc, NrziDecoded(sh.last, e))
    BY <1>2 DEF Deframing
  <2> QED
    BY <1>4, <1>5, <2>1, <2>2, PartRead
<1>7. off + Len(e) = m
  BY <1>2, <1>3
<1>8. m < z /\ g.busy /\ m \in Nat
  BY <1>1, <1>4, <1>6, <1>7
<1>9. PICK y : y = SharedNow(sh, e, x)
  OBVIOUS
<1>10. y.last = e[n] /\ y.hdlc = [x EXCEPT !.frames = <<>>]
  <2>1. e # <<>>
    BY <1>2
  <2> QED
    BY <1>2, <1>9, <2>1 DEF SharedNow, Last
<1>11. ~(m < t) => Continues(y.hdlc, y.last, p, level, m, m)
  <2> SUFFICES ASSUME ~(m < t) PROVE Continues(y.hdlc, y.last, p, level, m, m)
    OBVIOUS
  <2>1. Tracks(x, p, m)
    BY <1>1, <1>6, <1>7, <1>8
  <2>2. Tracks(y.hdlc, p, m)
    <3>1. m < Total(p) /\ x \in HdlcType
      BY <1>1, <1>6, <1>8
    <3>2. Tracks([x EXCEPT !.frames = <<>>], p, m)
      BY <1>8, <2>1, <3>1, TracksFrames
    <3> QED
      BY <1>10, <3>2
  <2>3. k < m
    <3>1. CASE k < Len(Training)
      BY <1>1, <3>1
    <3>2. CASE Continues(sh.hdlc, sh.last, p, level, off, k)
      <4>1. off = k
        BY <3>2 DEF Continues
      <4> QED
        BY <1>2, <1>3, <4>1
    <3> QED
      BY <1>4, <3>1, <3>2
  <2>4. e[n] = Burst[p][level][m]
    <3>1. n \in 1 .. Len(e) /\ k < off + n /\ off + n <= Total(p)
      BY <1>1, <1>2, <1>3, <1>8, <2>3
    <3> QED
      BY <1>3, <1>5, <3>1 DEF PartOf
  <2> QED
    BY <1>1, <1>8, <1>10, <2>2, <2>4 DEF Continues
<1>12. Len(f.bits) = 0 /\ m - Len(f.bits) = m
  OBVIOUS
<1>13. PartOf(f.bits, p, level, m, m)
  <2>1. 1 .. Len(f.bits) = {}
    BY <1>12
  <2> QED
    BY <2>1 DEF PartOf
<1>14. Waits(f, y, p, level, missed, m, m)
  BY <1>1, <1>4, <1>8, <1>11, <1>12, <1>13 DEF Waits
<1> QED
  BY <1>2, <1>8, <1>9, <1>14

\* When the gate closes the whole burst is emitted.
LEMMA CloseDecodes ==
  ASSUME NEW g \in GateType, NEW sh \in SharedType, NEW p \in Payloads, NEW level \in Binary,
         NEW missed \in 0 .. Attack, NEW m \in Int, NEW k \in Nat,
         Waits(g, sh, p, level, missed, m, k), m + 1 = Total(p) + Hold
  PROVE  Contains(Deframing(sh, Emitted(g.bits)).frames, p)
<1>1. PICK t \in Nat, z \in Nat : t = Len(Training) /\ z = Total(p) /\ t < z
  BY SpotsAre DEF Spots
<1>2. PICK w \in Nat : w = ByteBits /\ w > 0 /\ Hold \in Nat /\ w + 1 <= Hold
  BY FramingAssumption
<1>3. PICK n \in Nat : n = Len(g.bits)
  BY DEF GateType
<1>4. PICK off \in Int : off = m - n /\ off + n = m
  <2>1. m - n \in Int /\ (m - n) + n = m
    OBVIOUS
  <2> QED
    BY <2>1
<1>5. /\ off <= k /\ PartOf(g.bits, p, level, off, k)
      /\ k < Len(Training) \/ (g.split /\ Continues(sh.hdlc, sh.last, p, level, off, k))
  BY <1>3, <1>4 DEF Waits
<1>6. k < z
  BY <1>1, <1>5 DEF Continues
<1>7. n >= w
  BY <1>1, <1>2, <1>4, <1>5, <1>6
<1>8. PICK e \in Seq(Binary), j \in Nat :
        /\ e = Emitted(g.bits) /\ j = Len(e) /\ j <= n /\ j + w > n
        /\ \A i \in 1 .. j : e[i] = g.bits[i]
  <2>1. g.bits \in Seq(Binary)
    BY DEF GateType
  <2>2. EmittedOK(Emitted(g.bits), g.bits)
    BY <2>1, EmittedIs
  <2>3. PICK e \in Seq(Binary) : e = Emitted(g.bits)
    BY <2>2 DEF EmittedOK
  <2>4. Len(e) <= n /\ Len(e) + w > n /\ \A i \in 1 .. Len(e) : e[i] = g.bits[i]
    BY <1>2, <1>3, <1>7, <2>2, <2>3 DEF EmittedOK
  <2>5. Len(e) \in Nat
    OBVIOUS
  <2> QED
    BY <2>3, <2>4, <2>5
<1>9. off + j >= z
  <2>1. m + 1 = z + Hold /\ j + w > n /\ w + 1 <= Hold /\ Hold \in Nat
    BY <1>1, <1>2, <1>8
  <2> QED
    BY ONLY <1>4, <2>1, m \in Int, n \in Nat, j \in Nat, w \in Nat, z \in Nat, off \in Int
<1>10. PartOf(e, p, level, off, k)
  BY <1>3, <1>5, <1>8 DEF PartOf
<1>11. sh.hdlc \in HdlcType /\ sh.last \in Binary
  BY DEF SharedType
<1>12. PICK x : x = Deframed(sh.hdlc, NrziDecoded(sh.last, e))
  OBVIOUS
<1>13. off + Len(e) >= Total(p) => Contains(x.frames, p)
  BY <1>5, <1>10, <1>11, <1>12, PartRead
<1> QED
  BY <1>1, <1>8, <1>9, <1>12, <1>13 DEF Deframing

-----------------------------------------------------------------------------
(* A symbol of a branch *)

StType == [gate : [Branches -> GateType], shared : [Kinds -> SharedType]]

AnewOf(a, g, x) ==
  /\ a \in GateType /\ a.open = g.open /\ a.hold = g.hold /\ a.split = g.busy /\ a.bits = <<>>
  /\ a.due = IF Contains(x.frames, g.due) THEN None ELSE g.due

LEMMA AnewIs ==
  ASSUME NEW g \in GateType, NEW x
  PROVE  AnewOf(Anew(g, x), g, x)
<1>1. PICK d \in Payloads \union {None} : d = IF Contains(x.frames, g.due) THEN None ELSE g.due
  BY DEF GateType
<1>2. Anew(g, x) = [g EXCEPT !.bits = <<>>, !.split = g.busy, !.due = d]
  BY <1>1 DEF Anew
<1>3. <<>> \in Seq(Binary) /\ g.busy \in BOOLEAN
  BY DEF GateType
<1> QED
  BY <1>1, <1>2, <1>3 DEF AnewOf, GateType

\* What Emit does to the branch, to what it shares, and to the others.
EmitOf(r, st, b, e, x) ==
  /\ r \in StType
  /\ r.gate[b] = Anew(st.gate[b], x)
  /\ r.shared[Kind[b]] = SharedNow(st.shared[Kind[b]], e, x)
  /\ \A k \in Kinds \ {Kind[b]} : r.shared[k] = st.shared[k]
  /\ \A c \in Branches \ {b} :
       r.gate[c] = IF st.gate[c].split /\ Kind[c] = Kind[b] /\ e # <<>>
                   THEN [st.gate[c] EXCEPT !.due = None] ELSE st.gate[c]

LEMMA EmitIs ==
  ASSUME NEW st \in StType, NEW b \in Branches,
         NEW e, e = Emitted(st.gate[b].bits), NEW x, x = Deframing(st.shared[Kind[b]], e)
  PROVE  EmitOf(Emit(st, b), st, b, e, x) /\ x \in HdlcType /\ e \in Seq(Binary)
<1>1. PICK k \in Kinds : k = Kind[b]
  BY DEF Kinds
<1>2. PICK gs \in [Branches -> GateType], ss \in [Kinds -> SharedType] : gs = st.gate /\ ss = st.shared
  BY DEF StType
<1>3. e \in Seq(Binary)
  <2>1. gs[b].bits \in Seq(Binary)
    BY <1>2 DEF GateType
  <2> QED
    BY <1>2, <2>1, EmittedIs DEF EmittedOK
<1>4. ss[k].last \in Binary /\ ss[k].hdlc \in HdlcType
  BY <1>2 DEF SharedType
<1>5. x \in HdlcType
  <2>1. NrziDecoded(ss[k].last, e) \in Seq(Binary)
    BY <1>3, <1>4, NrziIs
  <2>2. x = Deframed(ss[k].hdlc, NrziDecoded(ss[k].last, e))
    BY <1>1, <1>2 DEF Deframing
  <2>3. PICK n : n = NrziDecoded(ss[k].last, e)
    OBVIOUS
  <2>4. PICK g : DeframeSteps(g, ss[k].hdlc, n)
    BY <1>4, <2>1, <2>3, Deframes
  <2>5. Len(n) \in 0 .. Len(n)
    BY <2>1, <2>3
  <2> QED
    BY <2>2, <2>3, <2>4, <2>5 DEF DeframeSteps
<1>6. PICK s : s = SharedNow(ss[k], e, x)
  OBVIOUS
<1>7. s \in SharedType
  <2>1. PICK l \in Binary : l = IF e = <<>> THEN ss[k].last ELSE Last(e)
    BY <1>3, <1>4 DEF Last
  <2>2. PICK h \in HdlcType : h = [x EXCEPT !.frames = <<>>]
    <3>1. <<>> \in Seq(AnyFrame)
      OBVIOUS
    <3> QED
      BY <1>5, <3>1 DEF HdlcType
  <2>3. s = [last |-> l, hdlc |-> h]
    BY <1>6, <2>1, <2>2 DEF SharedNow
  <2> QED
    BY <2>3 DEF SharedType
<1> DEFINE F(c) == IF c = b THEN Anew(gs[b], x)
                   ELSE IF gs[c].split /\ Kind[c] = k /\ e # <<>> THEN [gs[c] EXCEPT !.due = None] ELSE gs[c]
<1>8. PICK fs : fs = [c \in Branches |-> F(c)]
  OBVIOUS
<1>9. fs \in [Branches -> GateType]
  <2>1. \A c \in Branches : F(c) \in GateType
    <3>1. Anew(gs[b], x) \in GateType
      BY AnewIs DEF AnewOf
    <3>2. \A c \in Branches : [gs[c] EXCEPT !.due = None] \in GateType
      BY DEF GateType
    <3> QED
      BY <3>1, <3>2
  <2> HIDE DEF F
  <2> QED
    BY <1>8, <2>1
<1>10. PICK r : r = Emit(st, b)
  OBVIOUS
<1>11. r = [gate |-> fs, shared |-> [ss EXCEPT ![k] = s]]
  <2>1. ss[k] = st.shared[Kind[b]] /\ gs[b] = st.gate[b]
    BY <1>1, <1>2
  <2>2. Deframed(st.shared[Kind[b]].hdlc, NrziDecoded(st.shared[Kind[b]].last, Emitted(st.gate[b].bits))) = x
    BY DEF Deframing
  <2>3. r.gate = fs
    BY <1>1, <1>2, <1>8, <1>10, <2>1, <2>2 DEF Emit, Anew
  <2>4. r.shared = [ss EXCEPT ![k] = s]
    BY <1>1, <1>2, <1>6, <1>10, <2>1, <2>2 DEF Emit, SharedNow
  <2>5. r = [gate |-> r.gate, shared |-> r.shared]
    BY <1>10 DEF Emit
  <2> QED
    BY <2>3, <2>4, <2>5
<1>12. [ss EXCEPT ![k] = s] \in [Kinds -> SharedType]
  BY <1>7
<1>13. r \in StType
  BY <1>9, <1>11, <1>12 DEF StType
<1>14. fs[b] = Anew(gs[b], x)
  BY <1>8
<1>15. \A c \in Branches \ {b} :
         fs[c] = IF gs[c].split /\ Kind[c] = k /\ e # <<>> THEN [gs[c] EXCEPT !.due = None] ELSE gs[c]
  BY <1>8
<1>16. r.gate = fs /\ r.shared = [ss EXCEPT ![k] = s]
  BY <1>11
<1> HIDE DEF F
<1>17. r.shared[k] = s /\ \A j \in Kinds \ {k} : r.shared[j] = ss[j]
  BY <1>2, <1>16
<1> QED
  BY <1>1, <1>2, <1>3, <1>5, <1>6, <1>10, <1>13, <1>14, <1>15, <1>16, <1>17 DEF EmitOf

\* A branch after a symbol, before it emits, with the bits s.
Opened(g, sym) == sym.above \/ HoldAfter(g, sym.above) > 0

Filled(g, sym, s) ==
  [[g EXCEPT !.hold = HoldAfter(g, sym.above), !.busy = sym.more]
     EXCEPT !.open = Opened(g, sym), !.bits = s]

FilledOf(f, g, sym, s) ==
  /\ f \in GateType /\ f.hold = HoldAfter(g, sym.above) /\ f.busy = sym.more
  /\ f.open = Opened(g, sym) /\ f.bits = s /\ f.due = g.due /\ f.split = g.split

LEMMA FilledIs ==
  ASSUME NEW g \in GateType, NEW sym \in SymType, NEW s \in Seq(Binary)
  PROVE  FilledOf(Filled(g, sym, s), g, sym, s)
<1>1. PICK h \in 0 .. Hold : h = HoldAfter(g, sym.above)
  <2>1. g.hold \in 0 .. Hold /\ Hold \in Nat
    BY FramingAssumption DEF GateType
  <2> QED
    BY <2>1 DEF HoldAfter
<1>2. PICK o \in BOOLEAN : o = Opened(g, sym)
  BY <1>1 DEF Opened, SymType
<1>3. PICK m \in BOOLEAN : m = sym.more
  BY DEF SymType
<1>4. PICK f : f = Filled(g, sym, s)
  OBVIOUS
<1>5. f = [[g EXCEPT !.hold = h, !.busy = m] EXCEPT !.open = o, !.bits = s]
  BY <1>1, <1>2, <1>3, <1>4 DEF Filled
<1>6. /\ f \in GateType /\ f.hold = h /\ f.busy = m /\ f.open = o /\ f.bits = s
      /\ f.due = g.due /\ f.split = g.split
  BY <1>5 DEF GateType
<1> QED
  BY <1>1, <1>2, <1>3, <1>4, <1>6 DEF FilledOf

WithOf(w, st, b, f) ==
  /\ w \in StType /\ w.gate[b] = f /\ w.shared = st.shared
  /\ \A c \in Branches \ {b} : w.gate[c] = st.gate[c]

LEMMA WithIs ==
  ASSUME NEW st \in StType, NEW b \in Branches, NEW f \in GateType
  PROVE  WithOf([st EXCEPT !.gate[b] = f], st, b, f)
<1>1. PICK gs \in [Branches -> GateType], ss \in [Kinds -> SharedType] : gs = st.gate /\ ss = st.shared
  BY DEF StType
<1>2. PICK w : w = [st EXCEPT !.gate[b] = f]
  OBVIOUS
<1>3. w.gate = [gs EXCEPT ![b] = f] /\ w.shared = ss
  BY <1>1, <1>2 DEF StType
<1>4. w \in StType
  <2>1. [gs EXCEPT ![b] = f] \in [Branches -> GateType]
    OBVIOUS
  <2>2. w = [gate |-> [gs EXCEPT ![b] = f], shared |-> ss]
    BY <1>1, <1>2 DEF StType
  <2> QED
    BY <2>1, <2>2 DEF StType
<1> QED
  BY <1>1, <1>2, <1>3, <1>4 DEF WithOf

\* The buffer a symbol leaves in the branch before it emits.
Buffer(g, sym) ==
  IF Opened(g, sym) THEN Append(g.bits, sym.bit) ELSE IF g.open THEN g.bits ELSE <<>>

Emits(g, sym) ==
  IF Opened(g, sym) THEN Len(g.bits) + 1 = MaxBits ELSE g.open

LEMMA SymbolIs ==
  ASSUME NEW st \in StType, NEW b \in Branches, Len(st.gate[b].bits) < MaxBits, NEW sym \in SymType
  PROVE  \E w : /\ WithOf(w, st, b, Filled(st.gate[b], sym, Buffer(st.gate[b], sym)))
                /\ Symbol(st, b, sym) = IF Emits(st.gate[b], sym) THEN Emit(w, b) ELSE w
                /\ Buffer(st.gate[b], sym) \in Seq(Binary)
<1>1. PICK g \in GateType : g = st.gate[b]
  BY DEF StType
<1>2. g.bits \in Seq(Binary) /\ sym.bit \in Binary /\ <<>> \in Seq(Binary)
  BY DEF GateType, SymType
<1>3. PICK a \in Seq(Binary) : a = Append(g.bits, sym.bit) /\ Len(a) = Len(g.bits) + 1
  <2>1. Append(g.bits, sym.bit) \in Seq(Binary) /\ Len(Append(g.bits, sym.bit)) = Len(g.bits) + 1
    BY <1>2
  <2> QED
    BY <2>1
<1>4. PICK s \in Seq(Binary) : s = Buffer(g, sym)
  BY <1>2, <1>3 DEF Buffer
<1>5. PICK w : w = [st EXCEPT !.gate[b] = Filled(g, sym, s)]
  OBVIOUS
<1>6. WithOf(w, st, b, Filled(g, sym, s))
  <2>1. Filled(g, sym, s) \in GateType
    BY FilledIs DEF FilledOf
  <2> QED
    BY <1>5, <2>1, WithIs
<1>7. HoldAfter(st.gate[b], sym.above) = HoldAfter(g, sym.above) /\ MaxBits \in Nat
  BY <1>1, FramingAssumption
<1>8. Symbol(st, b, sym) = IF Emits(g, sym) THEN Emit(w, b) ELSE w
  <2>1. CASE ~Opened(g, sym) /\ g.open
    <3>1. s = g.bits
      BY <1>4, <2>1 DEF Buffer
    <3>2. w = [st EXCEPT !.gate[b] = [[g EXCEPT !.hold = HoldAfter(g, sym.above), !.busy = sym.more]
                 EXCEPT !.open = Opened(g, sym), !.bits = g.bits]]
      BY <1>5, <3>1 DEF Filled
    <3> QED
      BY <1>1, <2>1, <3>2 DEF Symbol, Opened, Emits, GateType
  <2>2. CASE ~Opened(g, sym) /\ ~g.open
    <3>1. s = <<>>
      BY <1>4, <2>2 DEF Buffer
    <3> QED
      BY <1>1, <1>5, <2>2, <3>1 DEF Symbol, Opened, Emits, Filled, GateType
  <2>3. CASE Opened(g, sym)
    <3>1. s = a /\ Pushed(g.bits, sym.bit) = a
      BY <1>1, <1>3, <1>4, <2>3 DEF Buffer, Pushed
    <3>2. Len(a) >= MaxBits <=> Emits(g, sym)
      BY <1>1, <1>3, <1>7, <2>3 DEF Emits
    <3> QED
      BY <1>1, <1>5, <2>3, <3>1, <3>2 DEF Symbol, Opened, Filled, GateType
  <2> QED
    BY <2>1, <2>2, <2>3
<1> QED
  BY <1>1, <1>4, <1>6, <1>8

\* A burst that is due: m of its symbols were heard.
Heeded(g, sh, p, level, missed, m) ==
  m <= missed \/ \E k \in Nat : Waits(g, sh, p, level, missed, m, k)

\* What a symbol does to its own branch.
LEMMA OwnKeeps ==
  ASSUME NEW st \in StType, NEW b \in Branches, Len(st.gate[b].bits) < MaxBits,
         NEW p \in Payloads, st.gate[b].due = p, NEW level \in Binary, NEW missed \in 0 .. Attack,
         NEW m \in Int, Heeded(st.gate[b], st.shared[Kind[b]], p, level, missed, m),
         NEW sym, FitsAt(sym, p, level, missed, m + 1),
         NEW r, r = Symbol(st, b, sym)
  PROVE  \/ r.gate[b].due = None
         \/ r.gate[b].due = p /\ Heeded(r.gate[b], r.shared[Kind[b]], p, level, missed, m + 1)
<1>1. PICK g \in GateType, sh \in SharedType : g = st.gate[b] /\ sh = st.shared[Kind[b]]
  BY DEF StType, Kinds
<1>2. sym \in SymType
  BY DEF FitsAt
<1>3. PICK w : /\ Buffer(g, sym) \in Seq(Binary) /\ WithOf(w, st, b, Filled(g, sym, Buffer(g, sym)))
               /\ r = IF Emits(g, sym) THEN Emit(w, b) ELSE w
  BY <1>1, <1>2, SymbolIs
<1>0. PICK s \in Seq(Binary) : s = Buffer(g, sym)
  BY <1>3
<1>4. PICK f \in GateType : f = w.gate[b] /\ FilledOf(f, g, sym, s)
  BY <1>0, <1>2, <1>3, FilledIs DEF WithOf, FilledOf
<1>5. w \in StType /\ w.shared[Kind[b]] = sh /\ f.due = p /\ f.bits = s
  BY <1>0, <1>1, <1>3, <1>4 DEF WithOf, FilledOf
<1>6. PICK e, x : e = Emitted(f.bits) /\ x = Deframing(sh, e)
  OBVIOUS
<1>7. PICK a : a = Anew(f, x) /\ AnewOf(a, f, x)
  BY AnewIs
<1>8. Emits(g, sym) => r.gate[b] = a /\ r.shared[Kind[b]] = SharedNow(sh, e, x)
  <2> SUFFICES ASSUME Emits(g, sym) PROVE r.gate[b] = a /\ r.shared[Kind[b]] = SharedNow(sh, e, x)
    OBVIOUS
  <2>1. e = Emitted(w.gate[b].bits) /\ x = Deframing(w.shared[Kind[b]], e)
    BY <1>4, <1>5, <1>6
  <2>2. EmitOf(Emit(w, b), w, b, e, x)
    BY <1>5, <2>1, EmitIs
  <2> QED
    BY <1>3, <1>4, <1>5, <1>7, <2>2 DEF EmitOf
<1>9. a.due = p \/ a.due = None
  BY <1>5, <1>7 DEF AnewOf
<1>10. CASE m + 1 <= missed
  <2>1. \A y, z : Heeded(y, z, p, level, missed, m + 1)
    BY <1>10 DEF Heeded
  <2> QED
    BY <1>3, <1>4, <1>5, <1>8, <1>9, <2>1
<1>11. CASE missed < m + 1 /\ Opened(g, sym)
  <2>1. s = Append(g.bits, sym.bit) /\ f.open /\ f.hold = HoldAfter(g, sym.above) /\ f.split = g.split
    BY <1>0, <1>4, <1>11 DEF Buffer, FilledOf
  <2>2. PICK k \in Nat : Waits(f, sh, p, level, missed, m + 1, k)
    <3>1. PICK j \in Nat : m <= missed \/ Waits(g, sh, p, level, missed, m, j)
      BY <1>1 DEF Heeded
    <3>2. f.bits = Append(g.bits, sym.bit)
      BY <1>5, <2>1
    <3>3. sym.above \/ HoldAfter(g, sym.above) > 0
      BY <1>11 DEF Opened
    <3> QED
      BY <1>11, <2>1, <3>1, <3>2, <3>3, PushWaits
  <2>3. CASE ~Emits(g, sym)
    <3>1. r = w
      BY <1>3, <2>3
    <3> QED
      BY <1>4, <1>5, <2>2, <3>1 DEF Heeded
  <2>4. CASE Emits(g, sym)
    <3>1. Len(f.bits) = MaxBits
      <4>1. g.bits \in Seq(Binary) /\ sym.bit \in Binary
        BY <1>2 DEF GateType, SymType
      <4>2. Len(Append(g.bits, sym.bit)) = Len(g.bits) + 1
        BY <4>1
      <4> QED
        BY <1>5, <1>11, <2>1, <2>4, <4>2 DEF Emits
    <3>2. m + 1 < Total(p) => f.busy
      <4>1. 1 <= m + 1 /\ Total(p) \in Nat
        BY <1>11, SpotsAre DEF Spots
      <4>2. 1 <= m + 1 /\ m + 1 <= Total(p) => sym.more = (m + 1 < Total(p))
        BY DEF FitsAt
      <4>3. f.busy = sym.more
        BY <1>4 DEF FilledOf
      <4>4. m + 1 < Total(p) => m + 1 <= Total(p)
        BY <4>1
      <4> QED
        BY <4>1, <4>2, <4>3, <4>4
    <3>3. CASE Contains(x.frames, p)
      BY <1>5, <1>7, <1>8, <2>4, <3>3 DEF AnewOf
    <3>4. CASE ~Contains(x.frames, p)
      <4>1. a \in GateType /\ a.open /\ a.hold = f.hold /\ a.split = f.busy /\ a.bits = <<>> /\ a.due = p
        BY <1>5, <1>7, <2>1, <3>4 DEF AnewOf
      <4>2. PICK j \in Int : j = m + 1
        OBVIOUS
      <4>3. x = Deframing(sh, Emitted(f.bits)) /\ Waits(f, sh, p, level, missed, j, k) /\ (j < Total(p) => f.busy)
        BY <1>6, <2>2, <3>2, <4>2
      <4>4. \E l \in Nat : Waits(a, SharedNow(sh, Emitted(f.bits), x), p, level, missed, j, l)
        BY <3>1, <3>4, <4>1, <4>3, FullWaits
      <4>5. Heeded(a, SharedNow(sh, e, x), p, level, missed, m + 1)
        BY <1>6, <4>2, <4>4 DEF Heeded
      <4> QED
        BY <1>8, <2>4, <4>1, <4>5
    <3> QED
      BY <3>3, <3>4
  <2> QED
    BY <2>3, <2>4
<1>12. CASE missed < m + 1 /\ ~Opened(g, sym)
  <2>1. PICK z \in Nat : z = Total(p) /\ Attack \in Nat /\ Hold \in Nat /\ Hold > 0 /\ Attack < z
    <3>1. PICK t \in Nat, z \in Nat : t = Len(Training) /\ z = Total(p) /\ t < z
      <4>1. PICK u \in Nat, l \in Nat, i \in Nat, j \in Nat, y \in Nat, k \in Nat \ {0} :
              Spots(u, k, l, i, j, y, p)
        BY SpotsAre
      <4>2. u = Len(Training) /\ y = Total(p) /\ u < y
        BY <4>1 DEF Spots
      <4> QED
        BY <4>2
    <3>2. Attack \in Nat /\ Hold \in Nat /\ Attack < t /\ ByteBits \in Nat /\ Hold > ByteBits
      BY <3>1, FramingAssumption
    <3>3. Hold > 0 /\ Attack < z
      BY ONLY <3>1, <3>2, t \in Nat, z \in Nat
    <3> QED
      BY <3>1, <3>2, <3>3
  <2>2. ~sym.above /\ g.hold \in 0 .. Hold /\ (g.hold > 0 => g.hold - 1 <= 0)
    <3>1. ~sym.above /\ ~(HoldAfter(g, sym.above) > 0)
      BY <1>12 DEF Opened
    <3>2. g.hold \in 0 .. Hold
      BY DEF GateType
    <3>3. HoldAfter(g, sym.above) = IF g.hold > 0 THEN g.hold - 1 ELSE 0
      BY <3>1 DEF HoldAfter
    <3> QED
      BY <3>1, <3>2, <3>3
  <2>3. m >= z
    <3>1. ~(1 <= m + 1 /\ m + 1 <= z)
      BY <1>12, <2>1, <2>2 DEF FitsAt
    <3> QED
      BY <1>12, <3>1
  <2>4. PICK k \in Nat : Waits(g, sh, p, level, missed, m, k)
    <3>1. ~(m <= missed)
      BY <2>1, <2>3
    <3> QED
      BY <1>1, <3>1 DEF Heeded
  <2>5. m < z + Hold /\ g.open /\ g.hold = Hold - (m - z)
    <3>1. m < z + Hold /\ g.open /\ g.hold = IF m <= z THEN Hold ELSE Hold - (m - z)
      BY <2>1, <2>4 DEF Waits
    <3>2. m <= z => Hold = Hold - (m - z)
      BY <2>1, <2>3
    <3> QED
      BY <3>1, <3>2
  <2>6. m + 1 = Total(p) + Hold
    <3>1. PICK d \in Nat, y \in Nat : d = Hold /\ y = g.hold
      BY <2>1, <2>2
    <3>2. m >= z /\ m < z + d /\ y = d - (m - z) /\ (y > 0 => y - 1 <= 0)
      BY <2>2, <2>3, <2>5, <3>1
    <3>3. m + 1 = z + d
      BY ONLY <3>2, m \in Nat, z \in Nat, d \in Nat, y \in Nat
    <3> QED
      BY ONLY <2>1, <3>1, <3>3
  <2>7. Contains(Deframing(sh, Emitted(g.bits)).frames, p)
    BY <2>4, <2>6, CloseDecodes
  <2>8. f.bits = g.bits /\ Emits(g, sym)
    BY <1>0, <1>5, <1>12, <2>5 DEF Buffer, Emits
  <2>9. a.due = None
    BY <1>5, <1>6, <1>7, <2>7, <2>8 DEF AnewOf
  <2> QED
    BY <1>8, <2>8, <2>9
<1>13. m + 1 <= missed \/ missed < m + 1
  OBVIOUS
<1> QED
  BY <1>10, <1>11, <1>12, <1>13

\* What a symbol does to another branch.
LEMMA OtherKeeps ==
  ASSUME NEW st \in StType, NEW b \in Branches, Len(st.gate[b].bits) < MaxBits, NEW sym \in SymType,
         NEW c \in Branches \ {b}, NEW p \in Payloads, st.gate[c].due = p,
         NEW level \in Binary, NEW missed \in 0 .. Attack,
         NEW m \in Int, Heeded(st.gate[c], st.shared[Kind[c]], p, level, missed, m),
         NEW r, r = Symbol(st, b, sym)
  PROVE  \/ r.gate[c].due = None
         \/ r.gate[c].due = p /\ Heeded(r.gate[c], r.shared[Kind[c]], p, level, missed, m)
<1>1. PICK g \in GateType, sh \in SharedType : g = st.gate[c] /\ sh = st.shared[Kind[c]]
  BY DEF StType, Kinds
<1>2. PICK w : /\ WithOf(w, st, b, Filled(st.gate[b], sym, Buffer(st.gate[b], sym)))
               /\ r = IF Emits(st.gate[b], sym) THEN Emit(w, b) ELSE w
  BY SymbolIs
<1>3. w \in StType /\ w.gate[c] = g /\ w.shared[Kind[c]] = sh
  BY <1>1, <1>2 DEF WithOf
<1>4. CASE r = w
  BY <1>1, <1>3, <1>4
<1>5. CASE r = Emit(w, b)
  <2>1. PICK e, x : e = Emitted(w.gate[b].bits) /\ x = Deframing(w.shared[Kind[b]], e)
    OBVIOUS
  <2>2. EmitOf(r, w, b, e, x) /\ x \in HdlcType /\ e \in Seq(Binary)
    BY <1>3, <1>5, <2>1, EmitIs
  <2>3. CASE g.split /\ Kind[c] = Kind[b] /\ e # <<>>
    <3>1. r.gate[c] = [g EXCEPT !.due = None]
      BY <1>3, <2>2, <2>3 DEF EmitOf
    <3> QED
      BY <3>1 DEF GateType
  <2>4. CASE ~(g.split /\ Kind[c] = Kind[b] /\ e # <<>>)
    <3>1. r.gate[c] = g
      BY <1>3, <2>2, <2>4 DEF EmitOf
    <3>2. CASE Kind[c] # Kind[b]
      <4>1. Kind[c] \in Kinds \ {Kind[b]}
        BY <3>2 DEF Kinds
      <4>2. r.shared[Kind[c]] = sh
        BY <1>3, <2>2, <4>1 DEF EmitOf
      <4> QED
        BY <1>1, <3>1, <4>2
    <3>3. CASE ~g.split
      <4>1. \A k : Waits(g, sh, p, level, missed, m, k) =>
              Waits(g, r.shared[Kind[c]], p, level, missed, m, k)
        BY <3>3 DEF Waits
      <4> QED
        BY <1>1, <3>1, <4>1 DEF Heeded
    <3>4. CASE Kind[c] = Kind[b] /\ e = <<>>
      <4>1. PICK y : y = r.shared[Kind[c]]
        OBVIOUS
      <4>2. y = SharedNow(sh, e, x) /\ x = Deframing(sh, e)
        BY <1>3, <2>1, <2>2, <3>4, <4>1 DEF EmitOf
      <4>3. y.last = sh.last /\ y.hdlc = [x EXCEPT !.frames = <<>>]
        BY <3>4, <4>2 DEF SharedNow
      <4>4. sh.hdlc \in HdlcType /\ sh.last \in Binary
        BY DEF SharedType
      <4>5. x = [sh.hdlc EXCEPT !.frames = <<>>]
        <5>1. PICK n \in Seq(Binary) : n = NrziDecoded(sh.last, e) /\ Len(n) = 0
          <6>1. NrziDecoded(sh.last, e) \in Seq(Binary) /\ Len(NrziDecoded(sh.last, e)) = Len(e) /\ Len(e) = 0
            BY <2>2, <3>4, <4>4, NrziIs
          <6> QED
            BY <6>1
        <5>2. PICK u : DeframeSteps(u, sh.hdlc, n)
          BY <4>4, Deframes
        <5> QED
          BY <4>2, <5>1, <5>2 DEF Deframing, DeframeSteps
      <4>6. y.hdlc = [sh.hdlc EXCEPT !.frames = <<>>]
        BY <4>3, <4>4, <4>5 DEF HdlcType
      <4>7. ASSUME NEW k \in Nat, NEW off, Continues(sh.hdlc, sh.last, p, level, off, k)
            PROVE  Continues(y.hdlc, y.last, p, level, off, k)
        <5>1. Tracks([sh.hdlc EXCEPT !.frames = <<>>], p, k)
          BY <4>4, <4>7, TracksFrames DEF Continues
        <5> QED
          BY <4>3, <4>6, <4>7, <5>1 DEF Continues
      <4>8. \A k \in Nat : Waits(g, sh, p, level, missed, m, k) => Waits(g, y, p, level, missed, m, k)
        BY <4>7 DEF Waits
      <4> QED
        BY <1>1, <3>1, <4>1, <4>8 DEF Heeded
    <3> QED
      BY <2>4, <3>2, <3>3, <3>4
  <2> QED
    BY <2>3, <2>4
<1> QED
  BY <1>2, <1>4, <1>5

\* A branch that is due nothing stays so, and a symbol keeps the types.
StOK(st) == st \in StType /\ \A c \in Branches : Len(st.gate[c].bits) < MaxBits

LEMMA SymbolKeeps ==
  ASSUME NEW st, StOK(st), NEW b \in Branches, NEW sym \in SymType
  PROVE  /\ StOK(Symbol(st, b, sym))
         /\ \A c \in Branches : st.gate[c].due = None => Symbol(st, b, sym).gate[c].due = None
<1>1. PICK r : r = Symbol(st, b, sym)
  OBVIOUS
<1>2. st \in StType /\ \A c \in Branches : st.gate[c] \in GateType /\ Len(st.gate[c].bits) < MaxBits
  BY DEF StOK, StType
<1>3. PICK g \in GateType : g = st.gate[b]
  BY <1>2
<1>4. PICK w : /\ WithOf(w, st, b, Filled(g, sym, Buffer(g, sym)))
               /\ r = IF Emits(g, sym) THEN Emit(w, b) ELSE w
               /\ Buffer(g, sym) \in Seq(Binary)
  BY <1>1, <1>2, <1>3, SymbolIs
<1>5. PICK s \in Seq(Binary) : s = Buffer(g, sym)
  BY <1>4
<1>6. PICK f \in GateType : f = w.gate[b] /\ FilledOf(f, g, sym, s)
  BY <1>4, <1>5, FilledIs DEF WithOf, FilledOf
<1>7. w \in StType /\ f.due = g.due /\ f.bits = s /\ \A c \in Branches \ {b} : w.gate[c] = st.gate[c]
  BY <1>4, <1>6 DEF WithOf, FilledOf
<1>8. CASE Emits(g, sym)
  <2>1. PICK e, x : e = Emitted(w.gate[b].bits) /\ x = Deframing(w.shared[Kind[b]], e)
    OBVIOUS
  <2>2. EmitOf(r, w, b, e, x)
    BY <1>4, <1>7, <1>8, <2>1, EmitIs
  <2>3. AnewOf(r.gate[b], f, x)
    BY <1>6, <2>2, AnewIs DEF EmitOf
  <2>4. Len(r.gate[b].bits) < MaxBits
    <3>1. Len(<<>>) = 0 /\ MaxBits \in Nat \ {0}
      BY FramingAssumption
    <3> QED
      BY <2>3, <3>1 DEF AnewOf
  <2>5. ASSUME NEW c \in Branches \ {b}
        PROVE  r.gate[c].bits = st.gate[c].bits /\ (r.gate[c].due = st.gate[c].due \/ r.gate[c].due = None)
    <3>1. r.gate[c] = st.gate[c] \/ r.gate[c] = [st.gate[c] EXCEPT !.due = None]
      BY <1>7, <2>2 DEF EmitOf
    <3> QED
      BY <1>2, <3>1 DEF GateType
  <2>6. g.due = None => r.gate[b].due = None
    BY <1>7, <2>3 DEF AnewOf
  <2>7. r \in StType
    BY <2>2 DEF EmitOf
  <2> QED
    BY <1>1, <1>2, <1>3, <2>4, <2>5, <2>6, <2>7 DEF StOK
<1>9. CASE ~Emits(g, sym)
  <2>1. r = w
    BY <1>4, <1>9
  <2>2. Len(s) < MaxBits
    <3>1. g.bits \in Seq(Binary) /\ sym.bit \in Binary /\ MaxBits \in Nat \ {0}
      BY FramingAssumption DEF GateType, SymType
    <3>2. Len(Append(g.bits, sym.bit)) = Len(g.bits) + 1 /\ Len(g.bits) \in Nat /\ Len(<<>>) = 0
      BY <3>1
    <3>3. CASE Opened(g, sym)
      <4>1. s = Append(g.bits, sym.bit) /\ Len(g.bits) + 1 # MaxBits
        BY <1>5, <1>9, <3>3 DEF Buffer, Emits
      <4> QED
        BY <1>2, <1>3, <3>1, <3>2, <4>1
    <3>4. CASE ~Opened(g, sym)
      <4>1. s = <<>>
        BY <1>5, <1>9, <3>4 DEF Buffer, Emits
      <4> QED
        BY <3>1, <3>2, <4>1
    <3> QED
      BY <3>3, <3>4
  <2> QED
    BY <1>1, <1>2, <1>3, <1>6, <1>7, <2>1, <2>2 DEF StOK
<1> QED
  BY <1>8, <1>9

-----------------------------------------------------------------------------
(* A block *)

\* The symbols x of a branch, of which n are worked off, are those of a burst
\* of which m were heard, and quiet or noise before and behind it.
Nth(x, i) == IF i <= Len(x) THEN x[i] ELSE Quiet

Sends(x, n, p, level, missed, m) ==
  \A i \in Nat \ {0} : FitsAt(Nth(x, n + i), p, level, missed, m + i)

DueOK(g, sh, x, n) ==
  g.due # None =>
    \E level \in Binary, missed \in 0 .. Attack, m \in Int :
      Sends(x, n, g.due, level, missed, m) /\ Heeded(g, sh, g.due, level, missed, m)

AllOK(st, pl, x, n) ==
  /\ StOK(st)
  /\ \A c \in Branches : c \in pl \/ st.gate[c].due = None
  /\ \A c \in Branches : DueOK(st.gate[c], st.shared[Kind[c]], x[c], n[c])

LEMMA SendsOn ==
  ASSUME NEW x, NEW n \in Nat, NEW p, NEW level, NEW missed, NEW m \in Int,
         Sends(x, n, p, level, missed, m)
  PROVE  FitsAt(Nth(x, n + 1), p, level, missed, m + 1) /\ Sends(x, n + 1, p, level, missed, m + 1)
<1>1. FitsAt(Nth(x, n + 1), p, level, missed, m + 1)
  <2>1. 1 \in Nat \ {0}
    OBVIOUS
  <2> QED
    BY <2>1 DEF Sends
<1>2. ASSUME NEW i \in Nat \ {0}
      PROVE  FitsAt(Nth(x, (n + 1) + i), p, level, missed, (m + 1) + i)
  <2>1. PICK j \in Nat \ {0} : j = i + 1 /\ (n + 1) + i = n + j /\ (m + 1) + i = m + j
    <3>1. i + 1 \in Nat \ {0} /\ (n + 1) + i = n + (i + 1) /\ (m + 1) + i = m + (i + 1)
      OBVIOUS
    <3> QED
      BY <3>1
  <2>2. FitsAt(Nth(x, n + j), p, level, missed, m + j)
    BY DEF Sends
  <2> QED
    BY <2>1, <2>2
<1> QED
  BY <1>1, <1>2 DEF Sends

LEMMA SymbolStep ==
  ASSUME NEW st, NEW pl, NEW x, NEW n \in [Branches -> Nat], AllOK(st, pl, x, n), NEW b \in Branches,
         NEW sym \in SymType, sym = Nth(x[b], n[b] + 1)
  PROVE  AllOK(Symbol(st, b, sym), pl, x, [n EXCEPT ![b] = n[b] + 1])
<1>1. PICK r : r = Symbol(st, b, sym)
  OBVIOUS
<1>2. PICK q \in [Branches -> Nat] : q = [n EXCEPT ![b] = n[b] + 1]
  <2>1. n[b] + 1 \in Nat
    OBVIOUS
  <2>2. [n EXCEPT ![b] = n[b] + 1] \in [Branches -> Nat]
    BY <2>1
  <2> QED
    BY <2>2
<1>3. StOK(st) /\ st \in StType /\ \A c \in Branches : st.gate[c] \in GateType /\ Len(st.gate[c].bits) < MaxBits
  BY DEF AllOK, StOK, StType
<1>4. StOK(r) /\ \A c \in Branches : st.gate[c].due = None => r.gate[c].due = None
  BY <1>1, <1>3, SymbolKeeps
<1>5. \A c \in Branches : c \in pl \/ r.gate[c].due = None
  BY <1>4 DEF AllOK
<1>6. ASSUME NEW c \in Branches, r.gate[c].due # None
      PROVE  \E level \in Binary, missed \in 0 .. Attack, m \in Int :
               /\ Sends(x[c], q[c], r.gate[c].due, level, missed, m)
               /\ Heeded(r.gate[c], r.shared[Kind[c]], r.gate[c].due, level, missed, m)
  <2>1. PICK p \in Payloads : p = st.gate[c].due
    BY <1>3, <1>4, <1>6 DEF GateType
  <2>2. p # None /\ DueOK(st.gate[c], st.shared[Kind[c]], x[c], n[c])
    BY <1>4, <1>6, <2>1 DEF AllOK
  <2>3. PICK level \in Binary, missed \in 0 .. Attack, m \in Int :
          /\ Sends(x[c], n[c], p, level, missed, m)
          /\ Heeded(st.gate[c], st.shared[Kind[c]], p, level, missed, m)
    BY <2>1, <2>2 DEF DueOK
  <2>4. CASE c = b
    <3>1. FitsAt(sym, p, level, missed, m + 1) /\ Sends(x[b], n[b] + 1, p, level, missed, m + 1)
      BY <2>3, <2>4, SendsOn
    <3>2. r.gate[b].due = p /\ Heeded(r.gate[b], r.shared[Kind[b]], p, level, missed, m + 1)
      BY <1>1, <1>3, <1>6, <2>1, <2>3, <2>4, <3>1, OwnKeeps
    <3>3. q[b] = n[b] + 1 /\ m + 1 \in Int
      BY <1>2
    <3> QED
      BY <2>4, <3>1, <3>2, <3>3
  <2>5. CASE c # b
    <3>1. c \in Branches \ {b} /\ q[c] = n[c]
      BY <1>2, <2>5
    <3>2. st.gate[c].due = p /\ Len(st.gate[b].bits) < MaxBits /\ st \in StType
      BY <1>3, <2>1
    <3>3. \/ r.gate[c].due = None
          \/ r.gate[c].due = p /\ Heeded(r.gate[c], r.shared[Kind[c]], p, level, missed, m)
      BY <1>1, <2>3, <3>1, <3>2, OtherKeeps
    <3> QED
      BY <1>6, <2>3, <3>1, <3>3
  <2> QED
    BY <2>4, <2>5
<1>7. \A c \in Branches : DueOK(r.gate[c], r.shared[Kind[c]], x[c], q[c])
  BY <1>6 DEF DueOK
<1> QED
  BY <1>1, <1>2, <1>4, <1>5, <1>7 DEF AllOK

AirType == [Branches -> Seq(SymType)]

LEMMA NthIs ==
  ASSUME NEW x \in Seq(SymType), NEW i \in Nat \ {0}
  PROVE  Nth(x, i) \in SymType
<1>1. CASE i <= Len(x)
  <2>1. i \in 1 .. Len(x)
    BY <1>1
  <2> QED
    BY <1>1, <2>1 DEF Nth
<1>2. CASE ~(i <= Len(x))
  BY <1>2 DEF Nth, Quiet, SymType, Binary
<1> QED
  BY <1>1, <1>2

\* A branch works off a block.
WorkSteps(g, st, b) ==
  /\ g[0] = st
  /\ \A i \in 1 .. Block : g[i] = Symbol(g[i - 1], b, Heard(b, i))
  /\ \A i \in 0 .. Block : StOK(g[i])
  /\ Worked(st, b) = g[Block]

LEMMA Works ==
  ASSUME NEW st, StOK(st), air \in AirType, NEW b \in Branches
  PROVE  \E g : WorkSteps(g, st, b)
<1>0. PICK len \in Nat : len = Block
  BY FramingAssumption
<1>1. PICK X : X = {s \in StType : StOK(s)}
  OBVIOUS
<1>2. st \in X
  BY <1>1 DEF StOK
<1>3. \A i \in 1 .. len : Heard(b, i) \in SymType
  <2>1. air[b] \in Seq(SymType)
    BY DEF AirType
  <2>2. \A i \in 1 .. len : i \in Nat \ {0}
    OBVIOUS
  <2>3. \A i : Heard(b, i) = Nth(air[b], i)
    BY DEF Heard, Nth
  <2> QED
    BY <2>1, <2>2, <2>3, NthIs
<1> DEFINE step == [i \in 1 .. len |-> [s \in X |-> Symbol(s, b, Heard(b, i))]]
<1>4. step \in [1 .. len -> [X -> X]]
  <2>1. \A i \in 1 .. len, s \in X : Symbol(s, b, Heard(b, i)) \in X
    BY <1>1, <1>3, SymbolKeeps DEF StOK
  <2> QED
    BY <2>1
<1>5. PICK f \in [0 .. len -> X] : Runs(f, len, st, step)
  <2> HIDE DEF step
  <2> QED
    BY <1>2, <1>4, RunExists
<1> DEFINE Unfolds(y) == y = [i \in 0 .. len |-> IF i = 0 THEN st ELSE Symbol(y[i - 1], b, Heard(b, i))]
           e == CHOOSE y : Unfolds(y)
<1>6. Unfolds(f)
  <2>1. \A i \in 0 .. len : i # 0 => i - 1 \in 0 .. len /\ i \in 1 .. len
    OBVIOUS
  <2>2. \A i \in 0 .. len : f[i] = IF i = 0 THEN st ELSE Symbol(f[i - 1], b, Heard(b, i))
    BY <1>5, <2>1 DEF Runs
  <2> QED
    BY <1>5, <2>2
<1>7. Unfolds(e)
  BY <1>6
<1>8. Worked(st, b) = e[len]
  BY <1>0 DEF Worked
<1> HIDE DEF e
<1>9. /\ e[0] = st
      /\ \A i \in 1 .. len : e[i] = Symbol(e[i - 1], b, Heard(b, i))
  <2>1. \A i \in 1 .. len : i \in 0 .. len /\ i # 0
    OBVIOUS
  <2>2. 0 \in 0 .. len
    OBVIOUS
  <2>3. \A i \in 0 .. len : e[i] = IF i = 0 THEN st ELSE Symbol(e[i - 1], b, Heard(b, i))
    BY <1>7
  <2> QED
    BY <2>1, <2>2, <2>3
<1> DEFINE T == {i \in 0 .. len : StOK(e[i])}
<1>10. 0 \in T
  BY <1>9
<1>11. ASSUME NEW i \in 0 .. len, i < len, i \in T
       PROVE  i + 1 \in T
  <2>1. i + 1 \in 1 .. len /\ i + 1 \in 0 .. len /\ (i + 1) - 1 = i
    BY <1>11
  <2>2. e[i + 1] = Symbol(e[i], b, Heard(b, i + 1)) /\ Heard(b, i + 1) \in SymType
    BY <1>3, <1>9, <2>1
  <2> QED
    BY <1>11, <2>1, <2>2, SymbolKeeps
<1>12. \A i \in 0 .. len : i \in T
  <2> HIDE DEF T
  <2> QED
    BY <1>10, <1>11, Upwards
<1>13. WorkSteps(e, st, b)
  BY <1>0, <1>8, <1>9, <1>12 DEF WorkSteps
<1> QED
  BY <1>13

LEMMA WorkedKeeps ==
  ASSUME NEW st, NEW pl, air \in AirType, NEW n \in [Branches -> Nat], AllOK(st, pl, air, n),
         NEW b \in Branches, n[b] = 0
  PROVE  AllOK(Worked(st, b), pl, air, [n EXCEPT ![b] = Block])
<1>1. PICK len \in Nat : len = Block
  BY FramingAssumption
<1>2. \A i \in 1 .. len : Heard(b, i) \in SymType /\ Heard(b, i) = Nth(air[b], i)
  <2>1. air[b] \in Seq(SymType)
    BY DEF AirType
  <2>2. \A i \in 1 .. len : i \in Nat \ {0}
    OBVIOUS
  <2>3. \A i : Heard(b, i) = Nth(air[b], i)
    BY DEF Heard, Nth
  <2> QED
    BY <2>1, <2>2, <2>3, NthIs
<1>3. PICK e : WorkSteps(e, st, b)
  BY Works DEF AllOK
<1>4. Worked(st, b) = e[len]
  BY <1>1, <1>3 DEF WorkSteps
<1>5. /\ e[0] = st
      /\ \A i \in 1 .. len : e[i] = Symbol(e[i - 1], b, Heard(b, i))
  BY <1>1, <1>3 DEF WorkSteps
<1> DEFINE T == {i \in 0 .. len : AllOK(e[i], pl, air, [n EXCEPT ![b] = i])}
<1>6. 0 \in T
  <2>1. [n EXCEPT ![b] = 0] = n
    OBVIOUS
  <2>2. AllOK(e[0], pl, air, [n EXCEPT ![b] = 0])
    BY <1>5, <2>1
  <2> QED
    BY <2>2
<1>7. ASSUME NEW i \in 0 .. len, i < len, i \in T
       PROVE  i + 1 \in T
  <2>1. i + 1 \in 1 .. len /\ i + 1 \in 0 .. len /\ (i + 1) - 1 = i /\ i \in Nat
    BY <1>7
  <2>2. PICK q \in [Branches -> Nat] : q = [n EXCEPT ![b] = i] /\ q[b] = i
    <3>1. [n EXCEPT ![b] = i] \in [Branches -> Nat] /\ [n EXCEPT ![b] = i][b] = i
      BY <2>1
    <3> QED
      BY <3>1
  <2>3. AllOK(e[i], pl, air, q)
    BY <1>7, <2>2
  <2>4. e[i + 1] = Symbol(e[i], b, Heard(b, i + 1))
    BY <1>5, <2>1
  <2>5. PICK sym \in SymType : sym = Heard(b, i + 1) /\ sym = Nth(air[b], q[b] + 1)
    BY <1>2, <2>1, <2>2
  <2>6. AllOK(Symbol(e[i], b, sym), pl, air, [q EXCEPT ![b] = q[b] + 1])
    BY <2>3, <2>5, SymbolStep
  <2>7. [q EXCEPT ![b] = q[b] + 1] = [n EXCEPT ![b] = i + 1]
    BY <2>2
  <2> QED
    BY <2>1, <2>4, <2>5, <2>6, <2>7
<1>8. \A i \in 0 .. len : i \in T
  <2> HIDE DEF T
  <2> QED
    BY <1>6, <1>7, Upwards
<1>9. len \in 0 .. len
  OBVIOUS
<1> QED
  BY <1>1, <1>4, <1>8, <1>9

\* After a block the next symbols are the first.
LEMMA Shifted ==
  ASSUME NEW x \in Seq(SymType), NEW y, y = SubSeq(x, Block + 1, Len(x))
  PROVE  y \in Seq(SymType) /\ \A i \in Nat \ {0} : Nth(y, 0 + i) = Nth(x, Block + i)
<1>1. PICK k \in Nat, l \in Nat : k = Block /\ l = Len(x)
  <2>1. Block \in Nat /\ Len(x) \in Nat
    BY FramingAssumption
  <2> QED
    BY <2>1
<1>2. y = SubSeq(x, k + 1, l)
  BY <1>1
<1>3. \A i \in (k + 1) .. l : x[i] \in SymType
  BY <1>1
<1>4. k + 1 \in Int /\ l \in Int
  OBVIOUS
<1>5. /\ y \in Seq(SymType) /\ Len(y) = (IF k + 1 <= l THEN l - (k + 1) + 1 ELSE 0)
      /\ \A i \in 1 .. l - (k + 1) + 1 : y[i] = x[(k + 1) + i - 1]
  BY ONLY <1>2, <1>3, <1>4, SubSeqProperties
<1>6. ASSUME NEW i \in Nat \ {0}
      PROVE  Nth(y, 0 + i) = Nth(x, Block + i)
  <2>1. PICK m \in Nat : m = Len(y)
    BY <1>5
  <2>2. 0 + i = i /\ (i <= m <=> k + i <= l)
    BY <1>5, <2>1
  <2>3. CASE i <= m
    <3>1. i \in 1 .. l - (k + 1) + 1 /\ (k + 1) + i - 1 = k + i
      BY <2>2, <2>3
    <3>2. y[i] = x[k + i]
      BY <1>5, <3>1
    <3> QED
      BY <1>1, <2>1, <2>2, <2>3, <3>2 DEF Nth
  <2>4. CASE ~(i <= m)
    BY <1>1, <2>1, <2>2, <2>4 DEF Nth
  <2> QED
    BY <2>3, <2>4
<1> QED
  BY <1>5, <1>6

\* The inductive invariant: the types, room in every buffer, and of every burst
\* that is due the symbols that are still to come fit what is in the buffer and
\* in the deframer.
BurstInv ==
  /\ plugin \subseteq Branches /\ air \in AirType
  /\ AllOK([gate |-> gate, shared |-> shared], plugin, air, [c \in Branches |-> 0])

LEMMA Blocks ==
  ASSUME BurstInv, ProcessIq
  PROVE  BurstInv'
<1>0. PICK len \in Nat, k \in Nat : len = Cardinality(Branches) /\ Branches = 1 .. len /\ k = Block
  BY FramingAssumption
<1>1. PICK st : st = [gate |-> gate, shared |-> shared]
  OBVIOUS
<1>2. air \in AirType /\ AllOK(st, plugin, air, [c \in Branches |-> 0])
  BY <1>1 DEF BurstInv
<1>3. PICK X : X = {s \in StType : StOK(s)}
  OBVIOUS
<1>4. st \in X
  BY <1>2, <1>3 DEF AllOK, StOK
<1> DEFINE step == [b \in 1 .. len |-> [s \in X |-> IF b \in plugin THEN Worked(s, b) ELSE s]]
<1>5. step \in [1 .. len -> [X -> X]]
  <2>1. ASSUME NEW b \in 1 .. len, NEW s \in X
        PROVE  Worked(s, b) \in X
    <3>1. b \in Branches /\ StOK(s)
      BY <1>0, <1>3
    <3>2. PICK g : WorkSteps(g, s, b)
      BY <1>2, <3>1, Works
    <3>3. k \in 0 .. k
      OBVIOUS
    <3> QED
      BY <1>0, <1>3, <3>2, <3>3 DEF WorkSteps, StOK
  <2> QED
    BY <2>1
<1>6. PICK f \in [0 .. len -> X] : Runs(f, len, st, step)
  <2> HIDE DEF step
  <2> QED
    BY <1>4, <1>5, RunExists
<1> DEFINE Unfolds(y) == y = [b \in 0 .. len |-> IF b = 0 THEN [gate |-> gate, shared |-> shared]
                                              ELSE IF b \in plugin THEN Worked(y[b - 1], b) ELSE y[b - 1]]
           e == CHOOSE y : Unfolds(y)
<1>7. Unfolds(f)
  <2>1. \A b \in 0 .. len : b # 0 => b - 1 \in 0 .. len /\ b \in 1 .. len
    OBVIOUS
  <2>2. \A b \in 0 .. len : f[b] = IF b = 0 THEN st ELSE IF b \in plugin THEN Worked(f[b - 1], b) ELSE f[b - 1]
    BY <1>6, <2>1 DEF Runs
  <2> QED
    BY <1>1, <1>6, <2>2
<1>8. Unfolds(e)
  BY <1>7
<1>9. gate' = e[len].gate /\ shared' = e[len].shared
  BY <1>0 DEF ProcessIq
<1>10. air' = [b \in Branches |-> SubSeq(air[b], Block + 1, Len(air[b]))] /\ plugin' = plugin
  BY DEF ProcessIq
<1> HIDE DEF e
<1>11. /\ e[0] = st
       /\ \A b \in 1 .. len : e[b] = IF b \in plugin THEN Worked(e[b - 1], b) ELSE e[b - 1]
  <2>1. \A b \in 1 .. len : b \in 0 .. len /\ b # 0
    OBVIOUS
  <2>2. 0 \in 0 .. len
    OBVIOUS
  <2>3. \A b \in 0 .. len : e[b] = IF b = 0 THEN st ELSE IF b \in plugin THEN Worked(e[b - 1], b) ELSE e[b - 1]
    BY <1>1, <1>8
  <2> QED
    BY <2>1, <2>2, <2>3
<1> DEFINE WorkedOff(b) == [c \in Branches |-> IF c <= b THEN k ELSE 0]
           T == {b \in 0 .. len : AllOK(e[b], plugin, air, WorkedOff(b))}
<1>12. 0 \in T
  <2>1. WorkedOff(0) = [c \in Branches |-> 0]
    <3>1. \A c \in Branches : ~(c <= 0)
      BY <1>0
    <3> QED
      BY <3>1
  <2>2. AllOK(e[0], plugin, air, WorkedOff(0))
    BY <1>2, <1>11, <2>1
  <2> QED
    BY <2>2
<1>13. ASSUME NEW b \in 0 .. len, b < len, b \in T
       PROVE  b + 1 \in T
  <2>1. PICK d \in Branches : d = b + 1 /\ d \in 1 .. len /\ d - 1 = b
    <3>1. b + 1 \in 1 .. len /\ (b + 1) - 1 = b
      BY <1>13
    <3> QED
      BY <1>0, <3>1
  <2>2. PICK q \in [Branches -> Nat] : q = WorkedOff(b)
    OBVIOUS
  <2>3. AllOK(e[b], plugin, air, q)
    BY <1>13, <2>2
  <2>4. q[d] = 0 /\ WorkedOff(d) = [q EXCEPT ![d] = k]
    <3>1. ~(d <= b)
      BY <2>1
    <3>2. q[d] = 0
      BY <2>2, <3>1
    <3>3. \A c \in Branches : c <= d <=> (c <= b \/ c = d)
      BY <1>0, <2>1
    <3>4. [q EXCEPT ![d] = k] = [c \in Branches |-> IF c = d THEN k ELSE q[c]]
      OBVIOUS
    <3>5. \A c \in Branches : (IF c = d THEN k ELSE q[c]) = IF c <= d THEN k ELSE 0
      BY <2>2, <3>3
    <3> QED
      BY <3>2, <3>4, <3>5
  <2>5. CASE d \in plugin
    <3>1. AllOK(Worked(e[b], d), plugin, air, [q EXCEPT ![d] = k])
      BY <1>0, <1>2, <2>3, <2>4, WorkedKeeps
    <3>2. e[d] = Worked(e[b], d)
      BY <1>11, <2>1, <2>5
    <3> QED
      BY <2>1, <2>4, <3>1, <3>2
  <2>6. CASE d \notin plugin
    <3>1. e[d] = e[b]
      BY <1>11, <2>1, <2>6
    <3>2. e[b].gate[d].due = None
      BY <2>3, <2>6 DEF AllOK
    <3>3. \A c \in Branches \ {d} : [q EXCEPT ![d] = k][c] = q[c]
      OBVIOUS
    <3>4. AllOK(e[b], plugin, air, [q EXCEPT ![d] = k])
      BY <2>3, <3>2, <3>3 DEF AllOK, DueOK
    <3> QED
      BY <2>1, <2>4, <3>1, <3>4
  <2> QED
    BY <2>5, <2>6
<1>14. \A b \in 0 .. len : b \in T
  <2> HIDE DEF T
  <2> QED
    BY <1>12, <1>13, Upwards
<1>15. PICK r : r = e[len]
  OBVIOUS
<1>16. AllOK(r, plugin, air, WorkedOff(len))
  <2>1. len \in 0 .. len
    OBVIOUS
  <2> QED
    BY <1>14, <1>15, <2>1
<1>17. r = [gate |-> gate', shared |-> shared']
  <2>1. r \in StType
    BY <1>16 DEF AllOK, StOK
  <2> QED
    BY <1>9, <1>15, <2>1 DEF StType
<1>18. air' \in AirType /\ \A c \in Branches : \A i \in Nat \ {0} : Nth(air'[c], 0 + i) = Nth(air[c], Block + i)
  <2>1. ASSUME NEW c \in Branches
        PROVE  air'[c] \in Seq(SymType) /\ \A i \in Nat \ {0} : Nth(air'[c], 0 + i) = Nth(air[c], Block + i)
    <3>1. air[c] \in Seq(SymType) /\ air'[c] = SubSeq(air[c], Block + 1, Len(air[c]))
      BY <1>2, <1>10 DEF AirType
    <3> QED
      BY <3>1, Shifted
  <2> QED
    BY <1>10, <2>1 DEF AirType
<1>19. ASSUME NEW c \in Branches
       PROVE  DueOK(r.gate[c], r.shared[Kind[c]], air'[c], 0)
  <2>1. WorkedOff(len)[c] = Block
    <3>1. c <= len
      <4>1. c \in 1 .. len
        BY <1>0
      <4> QED
        BY ONLY <4>1, len \in Nat
    <3> QED
      BY <1>0, <3>1
  <2>2. DueOK(r.gate[c], r.shared[Kind[c]], air[c], Block)
    BY <1>16, <2>1 DEF AllOK
  <2>3. ASSUME NEW p, NEW level, NEW missed, NEW m, Sends(air[c], Block, p, level, missed, m)
        PROVE  Sends(air'[c], 0, p, level, missed, m)
    BY <1>18, <2>3 DEF Sends
  <2> QED
    BY <2>2, <2>3 DEF DueOK
<1>20. \A c \in Branches : [d \in Branches |-> 0][c] = 0
  OBVIOUS
<1>21. AllOK(r, plugin, air', [c \in Branches |-> 0])
  BY <1>16, <1>19, <1>20 DEF AllOK
<1> QED
  BY <1>10, <1>17, <1>18, <1>21 DEF BurstInv, AirType

-----------------------------------------------------------------------------
(* The other steps *)

\* The symbols of a burst, with silence before it and noise behind.
Sent(x, p, level, missed, silence) == x \in Seq(SymType) /\ Sends(x, 0, p, level, missed, -silence)

LEMMA SendFits ==
  ASSUME NEW p \in Payloads, NEW level \in Binary, NEW missed \in 0 .. Attack, NEW silence \in Nat,
         NEW u \in Seq(SymType), Len(u) = silence, \A i \in 1 .. Len(u) : u[i] = Quiet,
         NEW v \in Seq(SymType), Len(v) = Total(p),
         \A i \in 1 .. Len(v) :
           v[i] = [above |-> i > missed, bit |-> Burst[p][level][i], more |-> i < Total(p)],
         NEW w \in Seq(SymType), \A i \in 1 .. Len(w) : ~w[i].above /\ ~w[i].more,
         NEW x, x = (u \o v) \o w
  PROVE  Sent(x, p, level, missed, silence)
<1>1. PICK z \in Nat, l \in Nat : z = Total(p) /\ z = Len(v) /\ l = Len(w)
  <2>1. Len(v) \in Nat /\ Len(w) \in Nat
    OBVIOUS
  <2> QED
    BY <2>1
<1>2. PICK y \in Seq(SymType) : y = u \o v /\ Len(y) = silence + z
        /\ \A i \in 1 .. silence + z : y[i] = IF i <= silence THEN u[i] ELSE v[i - silence]
  <2>1. /\ u \o v \in Seq(SymType) /\ Len(u \o v) = Len(u) + Len(v)
        /\ \A i \in 1 .. Len(u) + Len(v) : (u \o v)[i] = IF i <= Len(u) THEN u[i] ELSE v[i - Len(u)]
    BY ConcatProperties
  <2> QED
    BY <1>1, <2>1
<1>3. /\ x \in Seq(SymType) /\ Len(x) = silence + z + l
      /\ \A i \in 1 .. silence + z + l : x[i] = IF i <= silence + z THEN y[i] ELSE w[i - (silence + z)]
  <2>1. /\ y \o w \in Seq(SymType) /\ Len(y \o w) = Len(y) + Len(w)
        /\ \A i \in 1 .. Len(y) + Len(w) : (y \o w)[i] = IF i <= Len(y) THEN y[i] ELSE w[i - Len(y)]
    BY ConcatProperties
  <2> QED
    BY <1>1, <1>2, <2>1
<1>4. ASSUME NEW i \in Nat \ {0}
      PROVE  FitsAt(Nth(x, 0 + i), p, level, missed, (-silence) + i)
  <2>1. PICK j \in Int : j = (-silence) + i /\ j = i - silence
    <3>1. (-silence) + i \in Int /\ (-silence) + i = i - silence
      OBVIOUS
    <3> QED
      BY <3>1
  <2>2. PICK sym \in SymType : sym = Nth(x, 0 + i) /\ sym = Nth(x, i)
    <3>1. 0 + i = i /\ Nth(x, i) \in SymType
      <4>1. x \in Seq(SymType)
        BY <1>3
      <4>2. Nth(x, i) \in SymType
        BY <4>1, NthIs
      <4> QED
        BY <4>2
    <3> QED
      BY <3>1
  <2>3. CASE i <= silence
    <3>1. i \in 1 .. Len(u) /\ i \in 1 .. silence + z /\ i \in 1 .. silence + z + l /\ i <= silence + z
          /\ i <= silence + z + l
      BY <1>1, <2>3
    <3>2. sym = Quiet
      BY <1>2, <1>3, <2>2, <2>3, <3>1 DEF Nth
    <3>3. ~(1 <= j /\ j <= Total(p))
      BY <2>1, <2>3
    <3> QED
      BY <2>1, <2>2, <3>2, <3>3 DEF FitsAt, Quiet
  <2>4. CASE ~(i <= silence) /\ i <= silence + z
    <3>1. j \in 1 .. Len(v) /\ i \in 1 .. silence + z /\ i \in 1 .. silence + z + l /\ i <= silence + z + l
      BY <1>1, <2>1, <2>4
    <3>2. sym = v[j]
      BY <1>2, <1>3, <2>1, <2>2, <2>4, <3>1 DEF Nth
    <3>3. sym = [above |-> j > missed, bit |-> Burst[p][level][j], more |-> j < Total(p)]
      BY <3>1, <3>2
    <3>4. 1 <= j /\ j <= Total(p)
      BY <1>1, <3>1
    <3> QED
      BY <2>1, <2>2, <3>3, <3>4 DEF FitsAt
  <2>5. CASE ~(i <= silence + z) /\ i <= silence + z + l
    <3>1. PICK k \in 1 .. Len(w) : k = i - (silence + z)
      <4>1. i - (silence + z) \in 1 .. l
        BY <2>5
      <4> QED
        BY <1>1, <4>1
    <3>2. i \in 1 .. silence + z + l
      BY <2>5
    <3>3. sym = w[k]
      BY <1>3, <2>2, <2>5, <3>1, <3>2 DEF Nth
    <3>4. ~(1 <= j /\ j <= Total(p))
      BY <1>1, <2>1, <2>5
    <3> QED
      BY <2>1, <2>2, <3>3, <3>4 DEF FitsAt
  <2>6. CASE ~(i <= silence + z + l)
    <3>1. sym = Quiet
      BY <1>3, <2>2, <2>6 DEF Nth
    <3>2. ~(1 <= j /\ j <= Total(p))
      BY <1>1, <2>1, <2>6
    <3> QED
      BY <2>1, <2>2, <3>1, <3>2 DEF FitsAt, Quiet
  <2>7. i <= silence => i <= silence + z
    OBVIOUS
  <2>8. i <= silence + z => i <= silence + z + l
    OBVIOUS
  <2> QED
    BY <2>3, <2>4, <2>5, <2>6
<1> QED
  BY <1>3, <1>4 DEF Sent, Sends

LEMMA Sending ==
  ASSUME BurstInv, NEW b \in plugin, NEW p \in Payloads, NEW level \in {0, 1}, NEW missed \in 0 .. Attack,
         NEW silence \in Silences, NEW noise \in Noises, Send(b, p, level, missed, silence, noise)
  PROVE  BurstInv'
<1>1. level \in Binary /\ silence \in Nat /\ noise \in Seq(Binary) /\ b \in Branches
  BY FramingAssumption DEF Binary, BurstInv
<1>2. PICK s : s = Burst[p][level]
  OBVIOUS
<1>3. PICK z \in Nat : s \in Seq(Binary) /\ Len(s) = z /\ z = Total(p)
  <2>1. s \in Seq(Binary) /\ Len(s) = Total(p)
    BY <1>1, <1>2, BurstIs
  <2>2. Len(s) \in Nat
    BY <2>1
  <2> QED
    BY <2>1, <2>2
<1>4. PICK st : st = [gate |-> gate, shared |-> shared]
  OBVIOUS
<1>5. air \in AirType /\ AllOK(st, plugin, air, [c \in Branches |-> 0])
  BY <1>4 DEF BurstInv
<1>6. st \in StType /\ st.gate = gate /\ st.shared = shared
  BY <1>4, <1>5 DEF AllOK, StOK
<1>7. gate \in [Branches -> GateType] /\ \A c \in Branches : Len(gate[c].bits) < MaxBits
  BY <1>5, <1>6 DEF StType, AllOK, StOK
<1>8. PICK u \in Seq(SymType) : /\ u = [i \in 1 .. silence |-> Quiet] /\ Len(u) = silence
                                /\ \A i \in 1 .. Len(u) : u[i] = Quiet
  <2>1. Quiet \in SymType
    BY DEF Quiet, SymType, Binary
  <2>2. [i \in 1 .. silence |-> Quiet] \in Seq(SymType) /\ Len([i \in 1 .. silence |-> Quiet]) = silence
    BY <1>1, <2>1
  <2> QED
    BY <2>2
<1> DEFINE Sym(i) == [above |-> i > missed, bit |-> s[i], more |-> i < z]
<1>9. PICK v \in Seq(SymType) : v = [i \in 1 .. z |-> Sym(i)] /\ Len(v) = z /\ \A i \in 1 .. Len(v) : v[i] = Sym(i)
  <2>1. \A i \in 1 .. z : Sym(i) \in SymType
    BY <1>3 DEF SymType
  <2> HIDE DEF Sym
  <2>2. [i \in 1 .. z |-> Sym(i)] \in Seq(SymType) /\ Len([i \in 1 .. z |-> Sym(i)]) = z
    BY <2>1
  <2> QED
    BY <2>2
<1>10. PICK w \in Seq(SymType) : /\ w = [i \in DOMAIN noise |-> [Quiet EXCEPT !.bit = noise[i]]]
                                 /\ \A i \in 1 .. Len(w) : ~w[i].above /\ ~w[i].more
  <2>1. PICK n \in Nat : DOMAIN noise = 1 .. n
    BY <1>1
  <2>2. \A i \in 1 .. n : noise[i] \in Binary
    BY <1>1, <2>1
  <2>3. \A i \in 1 .. n : [Quiet EXCEPT !.bit = noise[i]] = [above |-> FALSE, bit |-> noise[i], more |-> FALSE]
    <3>1. ASSUME NEW y
          PROVE  [Quiet EXCEPT !.bit = y] = [above |-> FALSE, bit |-> y, more |-> FALSE]
      <4>1. PICK q : q = [Quiet EXCEPT !.bit = y]
        OBVIOUS
      <4>2. q = [above |-> FALSE, bit |-> y, more |-> FALSE]
        BY <4>1 DEF Quiet
      <4> QED
        BY <4>1, <4>2
    <3> QED
      BY <3>1
  <2>4. PICK w : w = [i \in 1 .. n |-> [above |-> FALSE, bit |-> noise[i], more |-> FALSE]]
    OBVIOUS
  <2>5. w = [i \in DOMAIN noise |-> [Quiet EXCEPT !.bit = noise[i]]]
    BY <2>1, <2>3, <2>4
  <2>6. \A i \in 1 .. n : [above |-> FALSE, bit |-> noise[i], more |-> FALSE] \in SymType
    BY <2>2 DEF SymType
  <2>7. w \in Seq(SymType) /\ Len(w) = n
    BY <2>4, <2>6
  <2>8. \A i \in 1 .. Len(w) : ~w[i].above /\ ~w[i].more
    BY <2>4, <2>7
  <2> QED
    BY <2>5, <2>7, <2>8
<1>11. PICK x : x = (u \o v) \o w
  OBVIOUS
<1>12. x \in Seq(SymType) /\ Sends(x, 0, p, level, missed, -silence)
  <2>1. \A i \in 1 .. Len(v) : v[i] = [above |-> i > missed, bit |-> Burst[p][level][i], more |-> i < Total(p)]
    BY <1>2, <1>3, <1>9
  <2>2. Len(v) = Total(p)
    BY <1>3, <1>9
  <2>3. Sent(x, p, level, missed, silence)
    BY <1>1, <1>8, <1>10, <1>11, <2>1, <2>2, SendFits
  <2> QED
    BY <2>3 DEF Sent
<1>13. /\ air' = [air EXCEPT ![b] = x] /\ gate' = [gate EXCEPT ![b].due = p, ![b].split = FALSE]
       /\ plugin' = plugin /\ shared' = shared
  BY <1>2, <1>3, <1>8, <1>9, <1>10, <1>11 DEF Send
<1>14. PICK g \in GateType : g = [[gate[b] EXCEPT !.due = p] EXCEPT !.split = FALSE] /\ g.bits = gate[b].bits /\ g.due = p
  <2>1. gate[b] \in GateType
    BY <1>1, <1>7
  <2>2. PICK g : g = [[gate[b] EXCEPT !.due = p] EXCEPT !.split = FALSE]
    OBVIOUS
  <2>3. g \in GateType /\ g.bits = gate[b].bits /\ g.due = p
    BY <2>1, <2>2 DEF GateType
  <2> QED
    BY <2>2, <2>3
<1>15. gate' = [gate EXCEPT ![b] = g]
  BY <1>7, <1>13, <1>14
<1>16. PICK r : r = [gate |-> gate', shared |-> shared']
  OBVIOUS
<1>17. r \in StType
  <2>1. shared \in [Kinds -> SharedType]
    BY <1>6 DEF StType
  <2>2. gate' \in [Branches -> GateType]
    BY <1>7, <1>15
  <2> QED
    BY <1>13, <1>16, <2>1, <2>2 DEF StType
<1>18. r.gate[b] = g /\ r.shared = shared /\ \A c \in Branches \ {b} : r.gate[c] = gate[c]
  BY <1>1, <1>7, <1>13, <1>15, <1>16
<1>19. StOK(r)
  BY <1>1, <1>7, <1>14, <1>17, <1>18 DEF StOK
<1>20. \A c \in Branches : c \in plugin' \/ r.gate[c].due = None
  BY <1>5, <1>6, <1>13, <1>18 DEF AllOK
<1>21. air' \in AirType /\ air'[b] = x /\ \A c \in Branches \ {b} : air'[c] = air[c]
  BY <1>1, <1>5, <1>12, <1>13 DEF AirType
<1>22. ASSUME NEW c \in Branches
       PROVE  DueOK(r.gate[c], r.shared[Kind[c]], air'[c], 0)
  <2>1. CASE c = b
    <3>1. -silence \in Int /\ -silence <= missed
      BY <1>1
    <3>2. Heeded(r.gate[b], r.shared[Kind[b]], p, level, missed, -silence)
      BY <3>1 DEF Heeded
    <3> QED
      BY <1>1, <1>12, <1>14, <1>18, <1>21, <2>1, <3>1, <3>2 DEF DueOK
  <2>2. CASE c # b
    <3>1. [d \in Branches |-> 0][c] = 0
      OBVIOUS
    <3>2. DueOK(gate[c], shared[Kind[c]], air[c], 0)
      BY <1>5, <1>6, <3>1 DEF AllOK
    <3> QED
      BY <1>18, <1>21, <2>2, <3>2
  <2> QED
    BY <2>1, <2>2
<1>23. \A c \in Branches : [d \in Branches |-> 0][c] = 0
  OBVIOUS
<1>24. AllOK(r, plugin', air', [c \in Branches |-> 0])
  BY <1>19, <1>20, <1>22, <1>23 DEF AllOK
<1> QED
  BY <1>13, <1>16, <1>21, <1>24 DEF BurstInv, AirType

LEMMA NewGateIs ==
  NewGate \in GateType /\ NewGate.due = None /\ NewGate.bits = <<>>
<1>1. 0 \in 0 .. Hold /\ <<>> \in Seq(Binary)
  BY FramingAssumption
<1>2. PICK g : g = NewGate
  OBVIOUS
<1>3. g = [hold |-> 0, open |-> FALSE, bits |-> <<>>, due |-> None, split |-> FALSE, busy |-> FALSE]
  BY <1>2 DEF NewGate
<1> QED
  BY <1>1, <1>2, <1>3 DEF GateType

\* All branches anew: nothing is due.
LEMMA Renewed ==
  ASSUME gate' = [b \in Branches |-> NewGate], shared' \in [Kinds -> SharedType],
         plugin' \subseteq Branches, air' \in AirType
  PROVE  BurstInv'
<1>1. PICK r : r = [gate |-> gate', shared |-> shared']
  OBVIOUS
<1>2. r \in StType /\ \A c \in Branches : r.gate[c].due = None /\ r.gate[c].bits = <<>>
  BY <1>1, NewGateIs DEF StType
<1>3. StOK(r)
  <2>1. Len(<<>>) = 0 /\ MaxBits \in Nat \ {0}
    BY FramingAssumption
  <2> QED
    BY <1>2, <2>1 DEF StOK
<1>4. AllOK(r, plugin', air', [c \in Branches |-> 0])
  BY <1>2, <1>3 DEF AllOK, DueOK
<1> QED
  BY <1>1, <1>4 DEF BurstInv, AirType

LEMMA BurstStart ==
  ASSUME BurstInit
  PROVE  BurstInv
<1>1. PICK r : r = [gate |-> gate, shared |-> shared]
  OBVIOUS
<1>2. gate = [b \in Branches |-> NewGate]
  BY DEF BurstInit
<1>3. shared \in [Kinds -> SharedType]
  <2>1. NoFrame \in HdlcType
    <3>1. PICK g : g = NoFrame
      OBVIOUS
    <3>2. g = [ones |-> 0, in |-> FALSE, cur |-> <<>>, bytes |-> <<>>, frames |-> <<>>]
      BY <3>1 DEF NoFrame
    <3>3. <<>> \in Seq(Binary) /\ <<>> \in Seq(Seq(Binary)) /\ <<>> \in Seq(AnyFrame)
      OBVIOUS
    <3> QED
      BY <3>1, <3>2, <3>3 DEF HdlcType
  <2>2. [last |-> 0, hdlc |-> NoFrame] \in SharedType
    BY <2>1 DEF SharedType, Binary
  <2> QED
    BY <2>2 DEF BurstInit
<1>4. r \in StType /\ \A c \in Branches : r.gate[c].due = None /\ r.gate[c].bits = <<>>
  BY <1>1, <1>2, <1>3, NewGateIs DEF StType
<1>5. StOK(r)
  <2>1. Len(<<>>) = 0 /\ MaxBits \in Nat \ {0}
    BY FramingAssumption
  <2> QED
    BY <1>4, <2>1 DEF StOK
<1>6. AllOK(r, plugin, air, [c \in Branches |-> 0])
  BY <1>4, <1>5 DEF AllOK, DueOK
<1>7. air \in AirType
  <2>1. <<>> \in Seq(SymType)
    OBVIOUS
  <2> QED
    BY <2>1 DEF BurstInit, AirType
<1>8. plugin \subseteq Branches
  BY FramingAssumption DEF BurstInit
<1> QED
  BY <1>1, <1>6, <1>7, <1>8 DEF BurstInv

\* A branch whose gate is closed waits for nothing: of a burst that is due there
\* are symbols to come.
LEMMA ClosedOwesNothing ==
  ASSUME BurstInv
  PROVE  WholeBurstsDecoded
<1> SUFFICES ASSUME NEW b \in Branches, ~gate[b].open, air[b] = <<>>, gate[b].due # None PROVE FALSE
  BY DEF WholeBurstsDecoded
<1>1. PICK st : st = [gate |-> gate, shared |-> shared]
  OBVIOUS
<1>2. st.gate = gate /\ st.shared = shared /\ [c \in Branches |-> 0][b] = 0 /\ st \in StType
  BY <1>1 DEF BurstInv, AllOK, StOK
<1>3. DueOK(gate[b], shared[Kind[b]], air[b], 0)
  <2>1. AllOK(st, plugin, air, [c \in Branches |-> 0])
    BY <1>1 DEF BurstInv
  <2> QED
    BY <1>2, <2>1 DEF AllOK
<1>4. PICK p \in Payloads : p = gate[b].due
  <2>1. gate[b] \in GateType
    BY <1>2 DEF StType
  <2> QED
    BY <2>1 DEF GateType
<1>5. PICK level \in Binary, missed \in 0 .. Attack, m \in Int :
        Sends(air[b], 0, p, level, missed, m) /\ Heeded(gate[b], shared[Kind[b]], p, level, missed, m)
  BY <1>3, <1>4 DEF DueOK
<1>6. m <= missed
  BY <1>5 DEF Heeded, Waits
<1>7. PICK t \in Nat, z \in Nat : t = Len(Training) /\ z = Total(p) /\ t < z /\ Attack < t
  <2>1. PICK t \in Nat, z \in Nat : t = Len(Training) /\ z = Total(p) /\ t < z
    BY SpotsAre DEF Spots
  <2> QED
    BY <2>1, FramingAssumption
<1>8. Attack \in Nat
  BY FramingAssumption
<1>9. PICK i \in Nat \ {0} : m + i = z
  <2>1. z - m \in Nat \ {0} /\ m + (z - m) = z
    BY <1>6, <1>7, <1>8
  <2> QED
    BY <2>1
<1>10. FitsAt(Nth(air[b], 0 + i), p, level, missed, z)
  BY <1>5, <1>9 DEF Sends
<1>11. Nth(air[b], 0 + i) = Quiet
  <2>1. Len(<<>>) = 0 /\ ~(0 + i <= 0)
    OBVIOUS
  <2> QED
    BY <2>1 DEF Nth
<1>12. Quiet.above = (z > missed) /\ z > missed
  <2>1. 1 <= z /\ z <= Total(p) /\ z > missed
    BY <1>7, <1>8
  <2> QED
    BY <1>10, <1>11, <2>1 DEF FitsAt
<1> QED
  BY <1>12 DEF Quiet

\* Whatever bursts overlap on the branches that share a last bit and a deframer,
\* however the symbols fall into blocks and the buffers fill up in mid-burst, a
\* burst that came whole is decoded when its gate closes.
THEOREM WholeBurstsAreDecoded ==
  BurstSpec => []WholeBurstsDecoded
<1>1. BurstInit => BurstInv
  BY BurstStart
<1>2. BurstInv /\ [BurstNext]_burstVars => BurstInv'
  <2> SUFFICES ASSUME BurstInv, [BurstNext]_burstVars PROVE BurstInv'
    OBVIOUS
  <2>1. CASE DualBlock
    BY <2>1, Blocks DEF DualBlock
  <2>2. CASE GmskBlock
    BY <2>2, Blocks DEF GmskBlock
  <2>3. ASSUME NEW b \in plugin, NEW p \in Payloads, NEW level \in {0, 1}, NEW missed \in 0 .. Attack,
               NEW silence \in Silences, NEW noise \in Noises, Send(b, p, level, missed, silence, noise)
        PROVE  BurstInv'
    BY <2>3, Sending
  <2>4. ASSUME Reconfigure
        PROVE  BurstInv'
    <3>1. shared \in [Kinds -> SharedType] /\ plugin \subseteq Branches /\ air \in AirType
      BY DEF BurstInv, AllOK, StOK, StType
    <3>2. /\ gate' = [b \in Branches |-> NewGate] /\ shared' \in [Kinds -> SharedType]
          /\ plugin' \subseteq Branches /\ air' \in AirType
      BY <2>4, <3>1 DEF Reconfigure, AirType
    <3> QED
      BY <3>2, Renewed
  <2>5. CASE DualReconfigure
    BY <2>4, <2>5 DEF DualReconfigure
  <2>6. CASE GmskConfigure
    BY <2>4, <2>6 DEF GmskConfigure
  <2>7. CASE UNCHANGED burstVars
    BY <2>7 DEF burstVars, BurstInv, AirType
  <2> QED
    BY <2>1, <2>2, <2>3, <2>5, <2>6, <2>7 DEF BurstNext
<1>3. BurstInv => WholeBurstsDecoded
  BY ClosedOwesNothing
<1> QED
  BY <1>1, <1>2, <1>3, PTL DEF BurstSpec
=============================================================================
