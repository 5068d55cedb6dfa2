----------------------------- MODULE AisMessages -----------------------------
(***************************************************************************)
(* What ais_decoder (plugins/ais_decoder.c) and asm_decoder (plugins/      *)
(* asm_decoder.c) tell of a frame: which bits of it are taken for which    *)
(* field, and how many bytes it must have for that.                        *)
(*                                                                         *)
(* A frame is its type and its data bytes, without the check sequence, and *)
(* what it holds where the decoders look: the part of type 24, DAC and FI  *)
(* of a binary message, the number of waypoints.  A field is its first bit *)
(* and its width; bits behind the frame read as 0.  The decoders remember  *)
(* nothing from one frame to the next.                                     *)
(*                                                                         *)
(* The transmitter is external: any type in any length.                    *)
(***************************************************************************)
EXTENDS Integers, Sequences

CONSTANTS Types,       \* the message types that are sent
          Sizes,       \* the numbers of data bytes
          Functions,   \* the FI values of DAC 1 that are sent
          FrameLimit   \* bound on the number of frames

ASSUME AisAssumption == Types \subseteq 0 .. 63 /\ Sizes \subseteq Nat

VARIABLES
  aisTold,     \* what was told of the last frame
  aisReceived  \* the number of frames

aisVars == <<aisTold, aisReceived>>

Letters(first, n) == <<first, 6 * n>>

Mmsi == <<8, 30>>

Position(lon, lat) == {<<lon, 28>>, <<lat, 27>>}

Shifted(fields, off) == {<<off + p[1], p[2]>> : p \in fields}

\* Where fields of the given widths end that stand side by side.
Ends(first, widths) ==
  LET Sum[j \in 0 .. Len(widths)] == IF j = 0 THEN first ELSE Sum[j - 1] + widths[j]
  IN  Sum

InRow(first, widths) == {<<Ends(first, widths)[i - 1], widths[i]>> : i \in DOMAIN widths}

-----------------------------------------------------------------------------
(* The messages that both decoders know *)

\* decode_position: the fields of class A stand 4 bits behind those of class B.
PositionReport(t) ==
  LET b == IF t <= 3 THEN 4 ELSE 0
  IN  Shifted({<<46, 10>>, <<56, 1>>, <<112, 12>>, <<124, 9>>} \union Position(57, 85), b)
        \union IF t <= 3 THEN {<<38, 4>>} ELSE {}

BaseStation == InRow(38, <<14, 4, 5, 5, 6, 6>>) \union Position(79, 107)

Voyage == {Letters(70, 7), Letters(112, 20), <<232, 8>>, <<294, 8>>, Letters(302, 20)}

AidToNavigation == {<<38, 5>>, Letters(43, 20)} \union Position(164, 192)

Static24(part) ==
  {<<38, 2>>} \union IF part = 0 THEN {Letters(40, 20)}
                     ELSE {<<40, 8>>, Letters(48, 7), Letters(90, 7)}

-----------------------------------------------------------------------------
(* ais_decoder *)

SarPosition == InRow(38, <<12, 10>>) \union Position(61, 89) \union {<<116, 12>>}

ExtendedPosition ==
  {<<42, 10>>, <<108, 12>>, <<120, 9>>, Letters(143, 20), <<263, 8>>} \union Position(53, 81)

Binary == {6, 8, 12, 14}

\* The data bytes that a type needs.
AisMinBytes(t) ==
  CASE t \in {1, 2, 3, 4, 9, 18} -> 21
    [] t = 5 -> 53
    [] t = 6 -> 11
    [] t = 8 -> 7
    [] t = 12 -> 9
    [] t = 14 -> 5
    [] t = 19 -> 39
    [] t = 21 -> 34
    [] t = 24 -> 20
    [] OTHER -> 3

\* decode_and_emit: what is told of the other types is the type, and the MMSI
\* if there is one.  The binary types are among them: emit_msg_raw_for_asm
\* tells the same and adds the frame as it is.
AisFields(f) ==
  CASE f.type \in {1, 2, 3, 18} -> {Mmsi} \union PositionReport(f.type)
    [] f.type = 4 -> {Mmsi} \union BaseStation
    [] f.type = 5 -> {Mmsi} \union Voyage
    [] f.type = 9 -> {Mmsi} \union SarPosition
    [] f.type = 19 -> {Mmsi} \union ExtendedPosition
    [] f.type = 21 -> {Mmsi} \union AidToNavigation
    [] f.type = 24 -> {Mmsi} \union Static24(f.part)
    [] OTHER -> IF f.bytes >= 5 THEN {Mmsi} ELSE {}

\* Mutant: the check sequence counts as data.
MutantAisTakes(f) == f.bytes + 2 >= AisMinBytes(f.type)

AisTakes(f) == f.bytes >= 3 /\ f.bytes >= AisMinBytes(f.type)

-----------------------------------------------------------------------------
(* asm_decoder *)

\* The functions of DAC 1, from where the application data begin.
MetHydro      == InRow(0, <<7, 7, 9, 9, 11, 7, 10, 9, 4, 8, 3, 9, 2>>)
FairwayClosed == InRow(0, <<120, 5, 5, 6, 5, 5, 6>>)
AreaNotice    == InRow(0, <<10, 7, 4, 5, 5, 6, 18>>)
Route(n)      == InRow(0, <<10, 2, 4, 4, 5, 5, 6, 18, 5>>)
                   \union IF n > 0 THEN InRow(59, <<28, 27>>) ELSE {}
TrafficSignal == InRow(0, <<10, 84, 28, 27, 2, 5, 5, 6>>)
MetHydroLong  == InRow(0, <<25, 24, 1, 5, 5, 6, 7, 7, 9, 9, 11, 7, 10, 9, 4, 8, 9, 8, 6, 9, 10, 3, 9, 2>>)
TidalWindow   == InRow(0, <<4, 5, 27, 28, 5, 6, 5, 6, 9, 8>>)

\* Texts take what is left of the frame, at most 63 letters.
LettersLeft(f, from) ==
  LET n == (8 * f.bytes - from) \div 6
  IN  IF n < 0 THEN {} ELSE {Letters(from, IF n > 63 THEN 63 ELSE n)}

Function(f, off) ==
  CASE f.fi \in {11, 21} -> Shifted(MetHydro, off)
    [] f.fi = 13 -> Shifted(FairwayClosed, off)
    [] f.fi = 16 -> {<<off, 13>>}
    [] f.fi = 17 -> {<<off, 10>>} \union LettersLeft(f, off + 10)
    [] f.fi = 22 -> Shifted(AreaNotice, off)
    [] f.fi = 26 -> {<<off, 4>>}
    [] f.fi = 27 -> Shifted(Route(f.waypoints), off)
    [] f.fi = 28 -> {<<off, 2>>, <<off + 2, 1>>} \union LettersLeft(f, off + 6)
    [] f.fi = 29 -> Shifted(TrafficSignal, off)
    [] f.fi = 31 -> Shifted(MetHydroLong, off)
    [] f.fi = 32 -> Shifted(TidalWindow, off)
    [] OTHER -> IF off \div 8 < f.bytes
                THEN {<<off, 8 * (IF f.bytes - off \div 8 < 60 THEN f.bytes - off \div 8 ELSE 60)>>}
                ELSE {}

\* The header of a binary message.
Header(t) ==
  CASE t = 6 -> {Mmsi, <<40, 30>>, <<72, 10>>, <<82, 6>>}
    [] t = 8 -> {Mmsi, <<40, 10>>, <<50, 6>>}
    [] t = 12 -> {Mmsi, <<40, 30>>}
    [] OTHER -> {Mmsi}

Body(f) ==
  CASE f.type = 6 -> Function(f, 88)
    [] f.type = 8 -> Function(f, 56)
    [] f.type = 12 -> LettersLeft(f, 72)
    [] OTHER -> LettersLeft(f, 40)

\* dispatch_frame.  The four binary types count the check sequence.
AsmTakes(f) ==
  CASE f.type = 6 -> f.bytes + 2 >= 12
    [] f.type = 8 -> f.bytes + 2 >= 7
    [] f.type = 12 -> f.bytes + 2 >= 10
    [] f.type = 14 -> f.bytes + 2 >= 6
    [] f.type \in {1, 2, 3, 4, 18} -> f.bytes >= 21
    [] f.type = 5 -> f.bytes >= 53
    [] f.type = 21 -> f.bytes >= 34
    [] f.type = 24 -> f.bytes >= 20
    [] OTHER -> f.bytes >= 3

\* Some of the fields of ais_decoder; types 9 and 19 are not known.
AsmFields(f) ==
  CASE f.type \in Binary -> Header(f.type) \union Body(f)
    [] f.type \in {1, 2, 3, 18} ->
         {Mmsi} \union (PositionReport(f.type) \ {<<38, 4>>, <<56, 1>>, <<60, 1>>})
    [] f.type = 4 -> {Mmsi} \union (BaseStation \ {<<72, 6>>})
    [] f.type = 5 -> {Mmsi} \union (Voyage \ {<<232, 8>>, <<294, 8>>})
    [] f.type = 21 -> {Mmsi} \union AidToNavigation
    [] f.type = 24 -> {Mmsi} \union Static24(f.part)
    [] OTHER -> IF f.bytes >= 5 THEN {Mmsi} ELSE {}

-----------------------------------------------------------------------------

Untold == [by |-> "none", type |-> 0, bytes |-> 0, fields |-> {}]

Tells(who, f, fields) == [by |-> who, type |-> f.type, bytes |-> f.bytes, fields |-> fields]

\* ais_decoder.  Its raw binary messages are meant for asm_decoder, but the
\* host delivers them to the client (PluginChain, Msg8HandedOver).
AisReceives(f) == aisTold' = IF AisTakes(f) THEN Tells("ais", f, AisFields(f)) ELSE Untold

\* asm_decoder, behind a deframer of its own: the only way to it.
AsmReceives(f) == aisTold' = IF AsmTakes(f) THEN Tells("asm", f, AsmFields(f)) ELSE Untold

AisReceive(f) ==
  /\ aisReceived < FrameLimit /\ aisReceived' = aisReceived + 1
  /\ AisReceives(f) \/ AsmReceives(f)

AisInit == aisTold = Untold /\ aisReceived = 0

AisNext ==
  \E t \in Types, n \in Sizes, part \in {0, 1}, fi \in Functions, w \in {0, 1} :
    /\ t # 24 => part = 0
    /\ t \notin {6, 8} => fi = CHOOSE x \in Functions : TRUE
    /\ fi # 27 => w = 0
    /\ AisReceive([type |-> t, bytes |-> n, part |-> part, fi |-> fi, waypoints |-> w])

AisSpec == AisInit /\ [][AisNext]_aisVars

Overlap2(p, q) == p[1] < q[1] + q[2] /\ q[1] < p[1] + p[2]

InFrame(p) == p[1] + p[2] <= 8 * aisTold.bytes

\* A frame that is cut short is never told as a whole one: every field of a
\* message lies within it, in ais_decoder and in the types that asm_decoder
\* decodes like it, though one counts bytes and the other bits.  asm_decoder
\* counts the check sequence when it measures a binary message, so that up to
\* 16 bits of the header may be missing, and no more.  No bit is told twice
\* in any message (ais_decoder.c:471, asm_decoder.c:641 and 871).
FieldsSound ==
  /\ \A p, q \in aisTold.fields : p # q => ~Overlap2(p, q)
  /\ aisTold.by = "ais" \/ aisTold.type \notin Binary => \A p \in aisTold.fields : InFrame(p)
  /\ aisTold.by = "asm" /\ aisTold.type \in Binary =>
       \A p \in Header(aisTold.type) : p[1] + p[2] <= 8 * aisTold.bytes + 16
=============================================================================
