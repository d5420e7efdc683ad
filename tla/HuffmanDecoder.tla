---------------------------- MODULE HuffmanDecoder ----------------------------
(***************************************************************************)
(* The Huffman decoder (jdhuff.c), sequential and progressive.  decode_mcu *)
(* works on a copy of the decoder's state: when the source has no more     *)
(* bytes for now it returns FALSE, and is called again for the same MCU    *)
(* when it has.  What it has already written into the blocks of the MCU    *)
(* stays there.                                                            *)
(*                                                                         *)
(* The working copy is a record: the bits of the interval, how many are    *)
(* used (at) and how many can be (cut); stop, once more were asked for;    *)
(* insufficient_data, once the interval is used up, when zeroes follow;    *)
(* symbol and value, what was read last; the blocks of the MCU, and where  *)
(* they got new coefficients (newnz_pos).                                  *)
(***************************************************************************)
EXTENDS HuffmanCodes

\* The zigzag places of the corner of a block that is drawn, by its size.
jpeg_zigzag_order ==
  << <<0, 1, 5, 6, 14, 15, 27, 28>>, <<2, 4, 7, 13, 16, 26, 29, 42>>,
     <<3, 8, 12, 17, 25, 30, 41, 43>>, <<9, 11, 18, 24, 31, 40, 44, 53>>,
     <<10, 19, 23, 32, 39, 45, 52, 54>>, <<20, 22, 33, 38, 46, 51, 55, 60>>,
     <<21, 34, 37, 47, 50, 56, 59, 61>>, <<35, 36, 48, 49, 57, 58, 62, 63>> >>
jpeg_zigzag_order7 ==
  << <<0, 1, 5, 6, 14, 15, 27>>, <<2, 4, 7, 13, 16, 26, 28>>, <<3, 8, 12, 17, 25, 29, 38>>,
     <<9, 11, 18, 24, 30, 37, 39>>, <<10, 19, 23, 31, 36, 40, 45>>,
     <<20, 22, 32, 35, 41, 44, 46>>, <<21, 33, 34, 42, 43, 47, 48>> >>
jpeg_zigzag_order6 ==
  << <<0, 1, 5, 6, 14, 15>>, <<2, 4, 7, 13, 16, 25>>, <<3, 8, 12, 17, 24, 26>>,
     <<9, 11, 18, 23, 27, 32>>, <<10, 19, 22, 28, 31, 33>>, <<20, 21, 29, 30, 34, 35>> >>
jpeg_zigzag_order5 ==
  << <<0, 1, 5, 6, 14>>, <<2, 4, 7, 13, 15>>, <<3, 8, 12, 16, 21>>, <<9, 11, 17, 20, 22>>,
     <<10, 18, 19, 23, 24>> >>
jpeg_zigzag_order4 == << <<0, 1, 5, 6>>, <<2, 4, 7, 12>>, <<3, 8, 11, 13>>, <<9, 10, 14, 15>> >>
jpeg_zigzag_order3 == << <<0, 1, 5>>, <<2, 4, 6>>, <<3, 7, 8>> >>
jpeg_zigzag_order2 == << <<0, 1>>, <<2, 3>> >>
ZigzagOf(block_size) ==
  CASE block_size = 1 -> << <<0>> >>
    [] block_size = 2 -> jpeg_zigzag_order2
    [] block_size = 3 -> jpeg_zigzag_order3
    [] block_size = 4 -> jpeg_zigzag_order4
    [] block_size = 5 -> jpeg_zigzag_order5
    [] block_size = 6 -> jpeg_zigzag_order6
    [] block_size = 7 -> jpeg_zigzag_order7
    [] OTHER -> jpeg_zigzag_order
Clamped(n, scaled) == IF scaled <= 0 \/ scaled > n THEN n ELSE scaled

\* start_pass_huff_decoder: how many coefficients of a component's blocks are
\* kept, by the height and width they are drawn at.
coef_limit(n, comp) ==
  IF comp.needed THEN 1 + ZigzagOf(n)[Clamped(n, comp.v)][Clamped(n, comp.h)] ELSE 0

-----------------------------------------------------------------------------
NoCut == 1000000
Bit(w, i) == IF i <= Len(w.bits) THEN w.bits[i] ELSE 0

\* CHECK_BIT_BUFFER, with what jpeg_fill_bit_buffer finds.
CheckBits(w, n) ==
  CASE w.at + n > w.cut -> [w EXCEPT !.stop = TRUE]
    [] w.at + n <= w.cut /\ w.at + n > Len(w.bits) ->
       [w EXCEPT !.at = @ + n, !.insufficient_data = TRUE]
    [] OTHER -> [w EXCEPT !.at = @ + n]
GetBits(w, n) ==
  [CheckBits(w, n) EXCEPT !.value = NumberFrom([i \in 1 .. n |-> Bit(w, w.at + i)], 1, 0)]

\* HUFF_DECODE.  Codes that are not in the table end after 17 bits, as a 0.
Symbol(w, tbl, l, code) ==
  [CheckBits(w, l) EXCEPT !.symbol = IF l > 16 THEN 0
                                     ELSE tbl.huffval[code + tbl.valoffset[l] + 1]]
RECURSIVE Longer(_, _, _, _)
Longer(w, tbl, l, code) ==
  IF l > 16 \/ code <= tbl.maxcode[l] THEN Symbol(w, tbl, l, code)
  ELSE Longer(w, tbl, l + 1, 2 * code + Bit(w, w.at + l + 1))
HUFF_DECODE(w, tbl) == Longer(w, tbl, 1, Bit(w, w.at + 1))
HUFF_EXTEND(x, s) == IF s > 0 /\ x < 2^(s - 1) THEN x - (2^s - 1) ELSE x

RunLength(w) == w.symbol \div 16
SizeBits(w) == w.symbol % 16
SkipBits(w) == CheckBits(w, SizeBits(w))

-----------------------------------------------------------------------------
\* A DC value: the difference to the last one of the component.
StoreDc(w, c, shift, value) ==
  [w EXCEPT !.last_dc_val[c] = value, !.blocks[c][0] = value * 2^shift]
DcDifference(w, c, shift) ==
  IF w.stop THEN w
  ELSE StoreDc(w, c, shift, w.last_dc_val[c] + HUFF_EXTEND(w.value, SizeBits(w)))
DecodeDc(w, c, shift) == IF w.stop THEN w ELSE DcDifference(GetBits(w, SizeBits(w)), c, shift)
StoreCoef(w, sc, c, k, x) ==
  IF w.stop THEN w ELSE [w EXCEPT !.blocks[c][natural_order(sc.block_size, k)] = x]

\* decode_mcu and decode_mcu_sub: coefficients up to the limit are kept, those
\* after it only read over.
RECURSIVE Keep(_, _, _, _, _), KeepSymbol(_, _, _, _, _), ReadOver(_, _, _, _)
Keep(w, sc, c, tbl, k) ==
  CASE w.stop -> w
    [] ~ w.stop /\ k < sc.limit[c] -> KeepSymbol(HUFF_DECODE(w, tbl), sc, c, tbl, k)
    [] OTHER -> ReadOver(w, sc, tbl, k)
KeepSymbol(w, sc, c, tbl, k) ==
  CASE w.stop -> w
    [] ~ w.stop /\ SizeBits(w) > 0 ->
       Keep(LET v == GetBits(w, SizeBits(w))
            IN  StoreCoef(v, sc, c, k + RunLength(w), HUFF_EXTEND(v.value, SizeBits(w))),
            sc, c, tbl, k + RunLength(w) + 1)
    [] ~ w.stop /\ w.symbol = 240 -> Keep(w, sc, c, tbl, k + 16)
    [] OTHER -> w
ReadSymbol(w) == IF w.stop THEN w ELSE SkipBits(w)
ReadOver(w, sc, tbl, k) ==
  IF w.stop \/ k > sc.Se THEN w
  ELSE LET v == HUFF_DECODE(w, tbl)
       IN  IF v.stop \/ (SizeBits(v) = 0 /\ v.symbol # 240) THEN v
           ELSE ReadOver(SkipBits(v), sc, tbl, k + RunLength(v) + 1)

DcKept(w, sc, c) == IF sc.limit[c] > 0 THEN DecodeDc(w, c, 0) ELSE ReadSymbol(w)
RECURSIVE DecodeBlocks(_, _, _, _)
DecodeBlocks(w, sc, tbls, i) ==
  IF w.stop \/ i > Len(sc.comps) THEN w
  ELSE DecodeBlocks(
         Keep(DcKept(HUFF_DECODE(w, tbls[<<"dc", sc.tbl[sc.comps[i]]>>]), sc, sc.comps[i]),
              sc, sc.comps[i], tbls[<<"ac", sc.tbl[sc.comps[i]]>>], 1), sc, tbls, i + 1)

\* decode_mcu_DC_first
RECURSIVE DecodeDcFirst(_, _, _, _)
DecodeDcFirst(w, sc, tbls, i) ==
  IF w.stop \/ i > Len(sc.comps) THEN w
  ELSE DecodeDcFirst(
         DecodeDc(HUFF_DECODE(w, tbls[<<"dc", sc.tbl[sc.comps[i]]>>]), sc.comps[i], sc.Al),
         sc, tbls, i + 1)

\* decode_mcu_AC_first
EndOfBand(w, r) == IF w.stop THEN w ELSE [w EXCEPT !.EOBRUN = 2^r + w.value - 1]
RECURSIVE DecodeAcFirst(_, _, _, _, _), AcFirstSymbol(_, _, _, _, _)
DecodeAcFirst(w, sc, c, tbl, k) ==
  IF w.stop \/ k > sc.Se THEN w ELSE AcFirstSymbol(HUFF_DECODE(w, tbl), sc, c, tbl, k)
AcFirstSymbol(w, sc, c, tbl, k) ==
  CASE w.stop -> w
    [] ~ w.stop /\ SizeBits(w) > 0 ->
       DecodeAcFirst(LET v == GetBits(w, SizeBits(w))
                     IN  StoreCoef(v, sc, c, k + RunLength(w),
                                   HUFF_EXTEND(v.value, SizeBits(w)) * 2^sc.Al),
                     sc, c, tbl, k + RunLength(w) + 1)
    [] ~ w.stop /\ w.symbol = 240 -> DecodeAcFirst(w, sc, c, tbl, k + 16)
    [] OTHER -> EndOfBand(GetBits(w, RunLength(w)), RunLength(w))
AcFirstBlock(w, sc, c, tbl) ==
  IF w.EOBRUN > 0 THEN [w EXCEPT !.EOBRUN = @ - 1] ELSE DecodeAcFirst(w, sc, c, tbl, sc.Ss)

\* decode_mcu_DC_refine
HasBit(x, Al) == (x \div 2^Al) % 2 = 1
OrBit(x, Al, bit) == IF bit = 1 /\ ~ HasBit(x, Al) THEN x + 2^Al ELSE x
RefineDc(w, c, Al) == IF w.stop THEN w ELSE [w EXCEPT !.blocks[c][0] = OrBit(@, Al, w.value)]
RECURSIVE DecodeDcRefine(_, _, _)
DecodeDcRefine(w, sc, i) ==
  IF w.stop \/ i > Len(sc.comps) THEN w
  ELSE DecodeDcRefine(RefineDc(GetBits(w, 1), sc.comps[i], sc.Al), sc, i + 1)

\* decode_mcu_AC_refine: a bit for each coefficient that is not zero already; r
\* zeroes are passed over before a new one.  A correction made before the data
\* gave out is not made twice.
Corrected(x, Al, bit) ==
  CASE bit = 0 \/ HasBit(x, Al) -> x
    [] bit = 1 /\ ~ HasBit(x, Al) /\ x >= 0 -> x + 2^Al
    [] OTHER -> x - 2^Al
Old(w, sc, c, k) == w.blocks[c][natural_order(sc.block_size, k)]
Correct(w, sc, c, k) ==
  IF w.stop THEN w ELSE StoreCoef(w, sc, c, k, Corrected(Old(w, sc, c, k), sc.Al, w.value))
NewCoef(w, sc, c, k, x) ==
  [StoreCoef(w, sc, c, k, x)
   EXCEPT !.newnz_pos = @ \cup {natural_order(sc.block_size, k)}]

RECURSIVE DecodeAcRefine(_, _, _, _, _), AcRefineSymbol(_, _, _, _, _),
          PassOver(_, _, _, _, _, _, _), AfterNew(_, _, _, _, _, _), CorrectRest(_, _, _, _)
DecodeAcRefine(w, sc, c, tbl, k) ==
  IF w.stop \/ k > sc.Se THEN w ELSE AcRefineSymbol(HUFF_DECODE(w, tbl), sc, c, tbl, k)
AcRefineSymbol(w, sc, c, tbl, k) ==
  CASE w.stop -> w
    [] ~ w.stop /\ SizeBits(w) > 0 ->
       LET v == GetBits(w, 1)
       IN  IF v.stop THEN v
           ELSE PassOver(v, sc, c, tbl, k, RunLength(w), (2 * v.value - 1) * 2^sc.Al)
    [] ~ w.stop /\ w.symbol = 240 -> PassOver(w, sc, c, tbl, k, 15, 0)
    [] OTHER ->
       LET v == GetBits(w, RunLength(w))
       IN  IF v.stop THEN v
           ELSE CorrectRest([v EXCEPT !.EOBRUN = 2^RunLength(w) + v.value - 1], sc, c, k)
PassOver(w, sc, c, tbl, k, r, x) ==
  CASE w.stop -> w
    [] ~ w.stop /\ k <= sc.Se /\ Old(w, sc, c, k) # 0 ->
       PassOver(Correct(GetBits(w, 1), sc, c, k), sc, c, tbl, k + 1, r, x)
    [] ~ w.stop /\ k <= sc.Se /\ Old(w, sc, c, k) = 0 /\ r > 0 ->
       PassOver(w, sc, c, tbl, k + 1, r - 1, x)
    [] OTHER -> AfterNew(w, sc, c, tbl, k, x)
AfterNew(w, sc, c, tbl, k, x) ==
  DecodeAcRefine(IF x = 0 THEN w ELSE NewCoef(w, sc, c, k, x), sc, c, tbl, k + 1)
CorrectRest(w, sc, c, k) ==
  CASE w.stop \/ k > sc.Se -> w
    [] ~ w.stop /\ k <= sc.Se /\ Old(w, sc, c, k) # 0 ->
       CorrectRest(Correct(GetBits(w, 1), sc, c, k), sc, c, k + 1)
    [] OTHER -> CorrectRest(w, sc, c, k + 1)
\* A mutant of Undone: nothing is taken back.
NotUndone(w, c) == w
\* undoit: new coefficients are taken back, corrections are not.
Undone(w, c) ==
  IF w.stop
  THEN [w EXCEPT !.blocks[c] = [p \in DOMAIN @ |-> IF p \in w.newnz_pos THEN 0 ELSE @[p]]]
  ELSE w
AcRefineBlock(w, sc, c, tbl) ==
  Undone(IF w.EOBRUN > 0 THEN CorrectRest([w EXCEPT !.EOBRUN = @ - 1], sc, c, sc.Ss)
         ELSE DecodeAcRefine(w, sc, c, tbl, sc.Ss), c)

-----------------------------------------------------------------------------
\* start_pass_huff_decoder chooses decode_mcu.  Once data are insufficient an
\* MCU is left as it is; only bits that refine DC values are still asked for.
DecodeAc(w, sc, tbls, c) ==
  IF sc.Ah = 0 THEN AcFirstBlock(w, sc, c, tbls[<<"ac", sc.tbl[c]>>])
  ELSE AcRefineBlock(w, sc, c, tbls[<<"ac", sc.tbl[c]>>])
DecodeData(w, sc, tbls) ==
  CASE sc.progressive /\ sc.Ss = 0 /\ sc.Ah > 0 -> DecodeDcRefine(w, sc, 1)
    [] ~ (sc.progressive /\ sc.Ss = 0 /\ sc.Ah > 0) /\ w.insufficient_data -> w
    [] sc.progressive /\ ~ w.insufficient_data /\ sc.Ss = 0 /\ sc.Ah = 0 ->
       DecodeDcFirst(w, sc, tbls, 1)
    [] sc.progressive /\ ~ w.insufficient_data /\ sc.Ss > 0 ->
       DecodeAc(w, sc, tbls, sc.comps[1])
    [] OTHER -> DecodeBlocks(w, sc, tbls, 1)
=============================================================================
