----------------------------- MODULE ArithDecoder -----------------------------
(***************************************************************************)
(* The arithmetic decoder (jdarith.c), sequential and progressive.  It     *)
(* keeps in c how far the data are into the interval of size a, with ct    *)
(* bits to spare, and asks for each decision with the bin the encoder has  *)
(* used.  After the data of an interval it goes on with zeroes; ct = -1    *)
(* after a code that cannot be, when it leaves all MCUs as they are up to  *)
(* the next marker.  It cannot wait for data in the middle of an MCU.      *)
(*                                                                         *)
(* While an MCU is decoded the record has its blocks, the decision made    *)
(* last (bit), and the bin (st), the leading bit (m) and the value (v) of  *)
(* the magnitude being read.                                               *)
(***************************************************************************)
EXTENDS ArithCodes

DecoderAreas(sc) ==
  {<<"dc", sc.tbl[c]>> : c \in {d \in Range(sc.comps) :
                                  ~ sc.progressive \/ (sc.Ss = 0 /\ sc.Ah = 0)}}
    \cup {<<"ac", sc.tbl[c]>> : c \in {d \in Range(sc.comps) :
                                  IF sc.progressive THEN sc.Ss > 0 ELSE sc.block_size > 1}}
\* start_pass and process_restart; interval: which part of the data it reads.
ArithDecoderOf(sc, interval, bytes) ==
  [interval |-> interval, bytes |-> DataBytes(bytes), at |-> 0, c |-> 0, a |-> 0, ct |-> -16,
   stats |-> Cleared(DecoderAreas(sc)), last_dc_val |-> [c \in Range(sc.comps) |-> 0],
   dc_context |-> [c \in Range(sc.comps) |-> 0], restarts_to_go |-> sc.interval,
   blocks |-> <<>>, bit |-> 0, st |-> 0, m |-> 0, v |-> 0]

-----------------------------------------------------------------------------
\* A byte of data into c: two of them at first, then one for every eight bits.
ByteIn(w) ==
  [w EXCEPT !.c = 256 * @ + (IF w.at < Len(w.bytes) THEN w.bytes[w.at + 1] ELSE 0),
            !.at = @ + 1, !.ct = @ + 8]
Initial(w) ==
  CASE w.ct >= 0 -> w
    [] w.ct = -1 -> [w EXCEPT !.ct = 0, !.a = 32768]
    [] OTHER -> [w EXCEPT !.ct = @ + 1]
ShiftedOut(w) == [w EXCEPT !.ct = @ - 1]
NextBit(w) == IF w.ct < 0 THEN Initial(ByteIn(w)) ELSE w
RECURSIVE RenormalizedIn(_)
RenormalizedIn(w) ==
  IF w.a >= 32768 THEN w
  ELSE RenormalizedIn([NextBit(ShiftedOut(w)) EXCEPT !.a = 2 * @])

\* arith_decode: below a the more probable symbol is, unless its part is smaller.
Decided(w, area, bin, sv, likely) ==
  [w EXCEPT !.stats[area][bin] = IF likely THEN AfterMPS(sv) ELSE AfterLPS(sv),
            !.bit = IF likely THEN MPS(sv) ELSE 1 - MPS(sv)]
DecideIn(w, area, bin, sv, a) ==
  CASE w.c >= a * 2^w.ct ->
       Decided([w EXCEPT !.c = @ - a * 2^w.ct, !.a = Qe(sv)], area, bin, sv, a < Qe(sv))
    [] w.c < a * 2^w.ct /\ a < 32768 ->
       Decided([w EXCEPT !.a = a], area, bin, sv, a >= Qe(sv))
    [] OTHER -> [w EXCEPT !.a = a, !.bit = MPS(sv)]
DecodeFrom(w, area, bin) ==
  DecideIn(w, area, bin, w.stats[area][bin], w.a - Qe(w.stats[area][bin]))
arith_decode(w, area, bin) == DecodeFrom(RenormalizedIn(w), area, bin)

-----------------------------------------------------------------------------
JCOEF(x) == ((x + 32768) % 65536) - 32768
Bad(w) == w.ct = -1
BadCode(w) == [w EXCEPT !.ct = -1]   \* JWRN_ARITH_BAD_CODE

\* The leading bit of a magnitude, from bin st on; then the bits below it.
RECURSIVE LeadingBitIn(_, _, _, _), LeadingBitOf(_, _, _, _)
LeadingBitIn(w, area, st, m) == LeadingBitOf(arith_decode(w, area, st), area, st, m)
LeadingBitOf(d, area, st, m) ==
  CASE d.bit = 0 -> [d EXCEPT !.st = st, !.m = m]
    [] d.bit = 1 /\ 2 * m = 32768 -> BadCode(d)
    [] OTHER -> LeadingBitIn(d, area, st + 1, 2 * m)
RECURSIVE PatternIn(_, _, _, _), PatternBit(_, _, _, _)
PatternIn(w, area, m, v) ==
  IF m = 0 THEN [w EXCEPT !.v = v]
  ELSE PatternBit(arith_decode(w, area, w.st + 14), area, m, v)
PatternBit(d, area, m, v) == PatternIn(d, area, m \div 2, v + d.bit * m)
ValueIn(w, area) == IF Bad(w) THEN w ELSE PatternIn(w, area, w.m \div 2, w.m)
SignedValue(w, sign) == IF sign = 1 THEN -(w.v + 1) ELSE w.v + 1

\* A DC difference: is it zero, its sign, its magnitude.
AboveOne(d, area, bin) ==
  IF d.bit = 0 THEN [d EXCEPT !.st = bin, !.m = 0] ELSE LeadingBitIn(d, area, X1, 1)
DcLeadingBit(w, area, bin) == AboveOne(arith_decode(w, area, bin), area, bin)
Categorized(w, cond, c, sign) ==
  IF Bad(w) THEN w ELSE [w EXCEPT !.dc_context[c] = dc_category(cond, w.m, sign)]
Added(d, c, sign) ==
  IF Bad(d) THEN d ELSE [d EXCEPT !.last_dc_val[c] = @ + SignedValue(d, sign)]
NonzeroDc(s, sc, c, area, context) ==
  Added(ValueIn(Categorized(DcLeadingBit(s, area, context + 2 + s.bit), sc.cond[sc.tbl[c]],
                            c, s.bit), area), c, s.bit)
DcSign(d, sc, c, area, context) ==
  IF d.bit = 0 THEN [d EXCEPT !.dc_context[c] = 0]
  ELSE NonzeroDc(arith_decode(d, area, context + 1), sc, c, area, context)
DcDifferenceIn(w, sc, c, area, context) ==
  DcSign(arith_decode(w, area, context), sc, c, area, context)
DcStored(d, c, shift) ==
  IF Bad(d) THEN d ELSE [d EXCEPT !.blocks[c][0] = JCOEF(d.last_dc_val[c] * 2^shift)]
ArithDc(w, sc, c, shift) ==
  DcStored(DcDifferenceIn(w, sc, c, <<"dc", sc.tbl[c]>>, w.dc_context[c]), c, shift)

\* An AC value that is not zero, at k.
AboveTwo(f, area, bin, x1) ==
  IF f.bit = 0 THEN [f EXCEPT !.st = bin, !.m = 1] ELSE LeadingBitIn(f, area, x1, 2)
AcAboveOne(d, area, bin, x1) ==
  IF d.bit = 0 THEN [d EXCEPT !.st = bin, !.m = 0]
  ELSE AboveTwo(arith_decode(d, area, bin), area, bin, x1)
AcLeadingBit(w, area, bin, x1) == AcAboveOne(arith_decode(w, area, bin), area, bin, x1)
SetValue(w, sc, c, k, x) == [w EXCEPT !.blocks[c][natural_order(sc.block_size, k)] = x]
AcStored(d, sc, c, k, sign) ==
  IF Bad(d) THEN d ELSE SetValue(d, sc, c, k, JCOEF(SignedValue(d, sign) * 2^sc.Al))
AcMagnitudeIn(s, sc, c, area, k) ==
  AcStored(ValueIn(AcLeadingBit(s, area, 3 * (k - 1) + 2, MagnitudeBins(sc.cond[sc.tbl[c]], k)),
                   area), sc, c, k, s.bit)
NonzeroAc(w, sc, c, area, k) == AcMagnitudeIn(arith_decode(w, Fixed, 0), sc, c, area, k)

\* The values of a block from k on: is it at its end, then zeroes and a value.
RECURSIVE ValuesIn(_, _, _, _, _, _), ZeroesIn(_, _, _, _, _, _), ZeroOrValue(_, _, _, _, _, _)
ValuesIn(w, sc, c, area, k, last) ==
  IF Bad(w) \/ k > last THEN w
  ELSE ZeroesIn(arith_decode(w, area, 3 * (k - 1)), sc, c, area, k, last)
ZeroesIn(d, sc, c, area, k, last) ==
  IF d.bit = 1 THEN d
  ELSE ZeroOrValue(arith_decode(d, area, 3 * (k - 1) + 1), sc, c, area, k, last)
ZeroOrValue(d, sc, c, area, k, last) ==
  CASE d.bit = 1 -> ValuesIn(NonzeroAc(d, sc, c, area, k), sc, c, area, k + 1, last)
    [] d.bit = 0 /\ k >= last -> BadCode(d)
    [] OTHER -> ZeroOrValue(arith_decode(d, area, 3 * k + 1), sc, c, area, k + 1, last)

\* decode_mcu and decode_mcu_DC_first, decode_mcu_AC_first
RECURSIVE ArithBlocks(_, _, _), ArithDcFirstIn(_, _, _)
ArithBlocks(w, sc, i) ==
  IF Bad(w) \/ i > Len(sc.comps) THEN w
  ELSE ArithBlocks(ValuesIn(ArithDc(w, sc, sc.comps[i], 0), sc, sc.comps[i],
                            <<"ac", sc.tbl[sc.comps[i]]>>, 1, sc.block_size^2 - 1), sc, i + 1)
ArithDcFirstIn(w, sc, i) ==
  IF Bad(w) \/ i > Len(sc.comps) THEN w
  ELSE ArithDcFirstIn(ArithDc(w, sc, sc.comps[i], sc.Al), sc, i + 1)
ArithAcFirstIn(w, sc, c) == ValuesIn(w, sc, c, <<"ac", sc.tbl[c]>>, sc.Ss, sc.Se)

\* decode_mcu_DC_refine
SetBit(x, Al) == IF (x \div 2^Al) % 2 = 1 THEN x ELSE x + 2^Al
DcRefined(d, sc, c) == IF d.bit = 0 THEN d ELSE [d EXCEPT !.blocks[c][0] = SetBit(@, sc.Al)]
ArithDcRefineIn(w, sc) ==
  FoldLeft(LAMBDA f, c : DcRefined(arith_decode(f, Fixed, 0), sc, c), w, sc.comps)

\* decode_mcu_AC_refine: kex is the last place with a value already.
ValueAt(w, sc, c, k) == w.blocks[c][natural_order(sc.block_size, k)]
LastValue(w, sc, c) == Max({0} \cup {k \in 1 .. sc.Se : ValueAt(w, sc, c, k) # 0})
Away(x, Al) == IF x < 0 THEN x - 2^Al ELSE x + 2^Al
MadeExact(d, sc, c, k) ==
  IF d.bit = 0 THEN d ELSE SetValue(d, sc, c, k, Away(ValueAt(d, sc, c, k), sc.Al))
RefinedAt(w, sc, c, area, k) == MadeExact(arith_decode(w, area, 3 * (k - 1) + 2), sc, c, k)
SignedOne(d, sc, c, k) == SetValue(d, sc, c, k, (1 - 2 * d.bit) * 2^sc.Al)
NewAt(w, sc, c, k) == SignedOne(arith_decode(w, Fixed, 0), sc, c, k)
RECURSIVE RefineIn(_, _, _, _, _, _), NotAtEnd(_, _, _, _, _, _),
          PassZeroes(_, _, _, _, _, _), ZeroOrNew(_, _, _, _, _, _)
RefineIn(w, sc, c, area, k, kex) ==
  CASE Bad(w) \/ k > sc.Se -> w
    [] ~ Bad(w) /\ k <= sc.Se /\ k <= kex -> PassZeroes(w, sc, c, area, k, kex)
    [] OTHER -> NotAtEnd(arith_decode(w, area, 3 * (k - 1)), sc, c, area, k, kex)
NotAtEnd(d, sc, c, area, k, kex) ==
  IF d.bit = 1 THEN d ELSE PassZeroes(d, sc, c, area, k, kex)
PassZeroes(w, sc, c, area, k, kex) ==
  IF ValueAt(w, sc, c, k) # 0
  THEN RefineIn(RefinedAt(w, sc, c, area, k), sc, c, area, k + 1, kex)
  ELSE ZeroOrNew(arith_decode(w, area, 3 * (k - 1) + 1), sc, c, area, k, kex)
ZeroOrNew(d, sc, c, area, k, kex) ==
  CASE d.bit = 1 -> RefineIn(NewAt(d, sc, c, k), sc, c, area, k + 1, kex)
    [] d.bit = 0 /\ k >= sc.Se -> BadCode(d)
    [] OTHER -> PassZeroes(d, sc, c, area, k + 1, kex)

\* start_pass chooses decode_mcu.  After a bad code it does nothing (one cannot be
\* in the data that refine DC values).
arith_decode_mcu(w, sc) ==
  CASE sc.progressive /\ sc.Ss = 0 /\ sc.Ah > 0 -> ArithDcRefineIn(w, sc)
    [] ~ (sc.progressive /\ sc.Ss = 0 /\ sc.Ah > 0) /\ Bad(w) -> w
    [] sc.progressive /\ ~ Bad(w) /\ sc.Ss = 0 /\ sc.Ah = 0 -> ArithDcFirstIn(w, sc, 1)
    [] sc.progressive /\ ~ Bad(w) /\ sc.Ss > 0 /\ sc.Ah = 0 ->
       ArithAcFirstIn(w, sc, sc.comps[1])
    [] sc.progressive /\ ~ Bad(w) /\ sc.Ss > 0 /\ sc.Ah > 0 ->
       RefineIn(w, sc, sc.comps[1], <<"ac", sc.tbl[sc.comps[1]]>>, sc.Ss,
                LastValue(w, sc, sc.comps[1]))
    [] OTHER -> ArithBlocks(w, sc, 1)
=============================================================================
