---------------------------- MODULE HuffmanEncoder ----------------------------
(***************************************************************************)
(* The Huffman encoder (jchuff.c), sequential and progressive.  A scan is  *)
(* gone over twice: first its symbols are counted, for the table, then     *)
(* they are written with the codes of the table.  A progressive encoder    *)
(* has one path for both (`gather`), a sequential one has two.             *)
(*                                                                         *)
(* An encoder is a record: last_dc_val by component; EOBRUN, the blocks    *)
(* that end together, and bits, the correction bits put off with them      *)
(* (bit_buffer, BE); the bits of the interval being written and the bytes  *)
(* of those done; the counts; and, once the counting is over, the codes.   *)
(* Tables go by <<kind, number>>.                                          *)
(***************************************************************************)
EXTENDS HuffmanCodes

CONSTANTS MaxEOBRUN,     \* 0x7FFF
          MAX_CORR_BITS  \* the correction bits that can be put off

LastPlace == 63          \* DCTSIZE2 - 1

Encoder(gather, codes, comps, interval) ==
  [gather |-> gather, codes |-> codes, counts |-> EmptyBag,
   last_dc_val |-> [c \in comps |-> 0], EOBRUN |-> 0, bit_buffer |-> <<>>, bits |-> <<>>,
   data |-> <<>>, restarts_to_go |-> interval, error |-> FALSE]

emit_bits(e, bits) == IF e.gather THEN e ELSE [e EXCEPT !.bits = @ \o bits]
HasCode(e, tbl, symbol) == tbl \in DOMAIN e.codes /\ symbol \in DOMAIN e.codes[tbl]
emit_symbol(e, tbl, symbol) ==
  CASE e.gather -> [e EXCEPT !.counts = @ (+) SetToBag({<<tbl, symbol>>})]
    [] ~ e.gather /\ HasCode(e, tbl, symbol) -> emit_bits(e, e.codes[tbl][symbol])
    [] OTHER -> [e EXCEPT !.error = TRUE]   \* JERR_HUFF_MISSING_CODE

\* The run of blocks that end, then their correction bits.
PutOff(e) == [emit_bits(e, e.bit_buffer) EXCEPT !.EOBRUN = 0, !.bit_buffer = <<>>]
RunOf(e, tbl, nbits) ==
  PutOff(emit_bits(emit_symbol(e, tbl, 16 * nbits), BitsOf(e.EOBRUN, nbits)))
emit_eobrun(e, tbl) ==
  CASE e.EOBRUN = 0 -> e
    [] e.EOBRUN \in 1 .. MaxEOBRUN -> RunOf(e, tbl, NBits(e.EOBRUN) - 1)
    [] OTHER -> [e EXCEPT !.error = TRUE]

flush_bits(e) ==
  IF e.gather THEN e
  ELSE [e EXCEPT !.data = Append(@, ToBytes(Filled(e.bits))), !.bits = <<>>]

\* emit_restart_s, emit_restart_e: the marker itself is the border between two
\* intervals of the data.
AcTable(sc) == <<"ac", sc.tbl[sc.comps[1]]>>
NoDc(e) == [e EXCEPT !.last_dc_val = [c \in DOMAIN @ |-> 0]]
emit_restart(e, sc) ==
  CASE ~ sc.progressive -> NoDc(flush_bits(e))
    [] sc.progressive /\ sc.Ss = 0 -> NoDc(flush_bits(emit_eobrun(e, AcTable(sc))))
    [] OTHER -> [flush_bits(emit_eobrun(e, AcTable(sc)))
                 EXCEPT !.EOBRUN = 0, !.bit_buffer = <<>>]
RestartDue(e, sc) == sc.interval > 0 /\ e.restarts_to_go = 0
BeforeMcu(e, sc) == IF RestartDue(e, sc) THEN emit_restart(e, sc) ELSE e
AfterMcu(e, sc) ==
  IF sc.interval = 0 THEN e
  ELSE [e EXCEPT !.restarts_to_go = (IF @ = 0 THEN sc.interval ELSE @) - 1]

-----------------------------------------------------------------------------
\* A difference of DC values: how many bits it has, then those bits; a
\* coefficient alike, with the zeroes before it.  Negative values are written
\* one lower.
Lowered(x) == IF x < 0 THEN x - 1 ELSE x
DcBits(e, tbl, diff, nbits) ==
  emit_bits(emit_symbol(e, tbl, nbits), BitsOf(Lowered(diff), nbits))
DcValue(e, c, tbl, value) ==
  [DcBits(e, tbl, value - e.last_dc_val[c],
          NBits(Magnitude(value - e.last_dc_val[c])))
   EXCEPT !.last_dc_val[c] = value]

RECURSIVE ZeroRuns(_, _, _)
ZeroRuns(e, tbl, r) ==
  IF r > 15 THEN ZeroRuns(emit_symbol(e, tbl, 240), tbl, r - 16) ELSE e
CoefBits(e, tbl, r, value, nbits) ==
  emit_bits(emit_symbol(ZeroRuns(e, tbl, r), tbl, 16 * (r % 16) + nbits),
            BitsOf(Lowered(value), nbits))
AcValue(e, tbl, r, value) == CoefBits(e, tbl, r, value, NBits(Magnitude(value)))

PlaceAt(sc, k) == natural_order(sc.block_size, k)

\* encode_mcu_DC_first
RECURSIVE DcFirst(_, _, _, _)
DcFirst(e, sc, mcu, i) ==
  IF i > Len(sc.comps) THEN e
  ELSE DcFirst(DcValue(e, sc.comps[i], <<"dc", sc.tbl[sc.comps[i]]>>,
                       mcu[sc.comps[i]][0] \div 2^sc.Al), sc, mcu, i + 1)

\* encode_mcu_AC_first: zeroes at the end of a block are a run of blocks.
Truncated(x, bits) ==
  IF x < 0 THEN -(Magnitude(x) \div 2^bits) ELSE x \div 2^bits
EndFirst(e, sc) == IF e.EOBRUN >= MaxEOBRUN THEN emit_eobrun(e, AcTable(sc)) ELSE e
RECURSIVE AcFirst(_, _, _, _, _)
AcFirst(e, sc, block, k, r) ==
  CASE e.error \/ (k > sc.Se /\ r = 0) -> e
    [] k > sc.Se /\ r > 0 -> EndFirst([e EXCEPT !.EOBRUN = @ + 1], sc)
    [] k <= sc.Se /\ Truncated(block[PlaceAt(sc, k)], sc.Al) = 0 ->
       AcFirst(e, sc, block, k + 1, r + 1)
    [] OTHER ->
       AcFirst(AcValue(emit_eobrun(e, AcTable(sc)), AcTable(sc), r,
                       Truncated(block[PlaceAt(sc, k)], sc.Al)), sc, block, k + 1, 0)

\* encode_mcu_DC_refine
RECURSIVE DcRefine(_, _, _, _)
DcRefine(e, sc, mcu, i) ==
  IF i > Len(sc.comps) THEN e
  ELSE DcRefine(emit_bits(e, BitsOf(mcu[sc.comps[i]][0] \div 2^sc.Al, 1)), sc, mcu, i + 1)

\* encode_mcu_AC_refine.  BR: the correction bits of the coefficients passed
\* since the last that became nonzero; up to the last one that does (EOB) long
\* runs of zeroes are written out.
AbsValue(sc, block, k) == Magnitude(block[PlaceAt(sc, k)]) \div 2^sc.Al
NewOnes(sc, block) == {k \in sc.Ss .. sc.Se : AbsValue(sc, block, k) = 1}
EOBPlace(sc, block) == IF NewOnes(sc, block) = {} THEN 0 ELSE Max(NewOnes(sc, block))
EndRefine(e, sc) ==
  IF e.EOBRUN >= MaxEOBRUN \/ Len(e.bit_buffer) > MAX_CORR_BITS - LastPlace
  THEN emit_eobrun(e, AcTable(sc)) ELSE e
PositiveBit(x) == IF x < 0 THEN <<0>> ELSE <<1>>
RECURSIVE AcRefine(_, _, _, _, _, _, _)
AcRefine(e, sc, block, eob, k, r, BR) ==
  CASE e.error \/ (k > sc.Se /\ r = 0 /\ BR = <<>>) -> e
    [] k > sc.Se /\ (r > 0 \/ BR # <<>>) ->
       EndRefine([e EXCEPT !.EOBRUN = @ + 1, !.bit_buffer = @ \o BR], sc)
    [] k <= sc.Se /\ AbsValue(sc, block, k) = 0 -> AcRefine(e, sc, block, eob, k + 1, r + 1, BR)
    [] k <= sc.Se /\ AbsValue(sc, block, k) > 0 /\ r > 15 /\ k <= eob ->
       AcRefine(emit_bits(emit_symbol(emit_eobrun(e, AcTable(sc)), AcTable(sc), 240), BR),
                sc, block, eob, k, r - 16, <<>>)
    [] k <= sc.Se /\ AbsValue(sc, block, k) > 1 /\ ~ (r > 15 /\ k <= eob) ->
       AcRefine(e, sc, block, eob, k + 1, r, Append(BR, AbsValue(sc, block, k) % 2))
    [] OTHER ->
       AcRefine(emit_bits(emit_bits(emit_symbol(emit_eobrun(e, AcTable(sc)), AcTable(sc),
                                                16 * r + 1),
                                    PositiveBit(block[PlaceAt(sc, k)])), BR),
                sc, block, eob, k + 1, 0, <<>>)

-----------------------------------------------------------------------------
\* encode_one_block, of a sequential scan.
RECURSIVE OneBlock(_, _, _, _, _, _)
OneBlock(e, sc, tbl, block, k, r) ==
  CASE e.error \/ (k > sc.Se /\ r = 0) -> e
    [] k > sc.Se /\ r > 0 -> emit_symbol(e, tbl, 0)
    [] k <= sc.Se /\ block[PlaceAt(sc, k)] = 0 -> OneBlock(e, sc, tbl, block, k + 1, r + 1)
    [] OTHER -> OneBlock(AcValue(e, tbl, r, block[PlaceAt(sc, k)]), sc, tbl, block, k + 1, 0)
RECURSIVE EncodeBlocks(_, _, _, _)
EncodeBlocks(e, sc, mcu, i) ==
  IF i > Len(sc.comps) THEN e
  ELSE EncodeBlocks(
         OneBlock(DcValue(e, sc.comps[i], <<"dc", sc.tbl[sc.comps[i]]>>, mcu[sc.comps[i]][0]),
                  sc, <<"ac", sc.tbl[sc.comps[i]]>>, mcu[sc.comps[i]], 1, 0), sc, mcu, i + 1)

\* htest_one_block and encode_mcu_gather: the same symbols, counted.
CountSymbol(e, tbl, symbol) == [e EXCEPT !.counts = @ (+) SetToBag({<<tbl, symbol>>})]
RECURSIVE CountRuns(_, _, _)
CountRuns(e, tbl, r) ==
  IF r > 15 THEN CountRuns(CountSymbol(e, tbl, 240), tbl, r - 16) ELSE e
RECURSIVE CountBlock(_, _, _, _, _, _)
CountBlock(e, sc, tbl, block, k, r) ==
  CASE e.error \/ (k > sc.Se /\ r = 0) -> e
    [] k > sc.Se /\ r > 0 -> CountSymbol(e, tbl, 0)
    [] k <= sc.Se /\ block[PlaceAt(sc, k)] = 0 -> CountBlock(e, sc, tbl, block, k + 1, r + 1)
    [] OTHER ->
       CountBlock(CountSymbol(CountRuns(e, tbl, r), tbl,
                              16 * (r % 16) + NBits(Magnitude(block[PlaceAt(sc, k)]))),
                  sc, tbl, block, k + 1, 0)
CountDc(e, c, tbl, value) ==
  [CountSymbol(e, tbl, NBits(Magnitude(value - e.last_dc_val[c])))
   EXCEPT !.last_dc_val[c] = value]
RECURSIVE CountBlocks(_, _, _, _)
CountBlocks(e, sc, mcu, i) ==
  IF i > Len(sc.comps) THEN e
  ELSE CountBlocks(
         CountBlock(CountDc(e, sc.comps[i], <<"dc", sc.tbl[sc.comps[i]]>>, mcu[sc.comps[i]][0]),
                    sc, <<"ac", sc.tbl[sc.comps[i]]>>, mcu[sc.comps[i]], 1, 0), sc, mcu, i + 1)
GatherRestart(e, sc) == IF RestartDue(e, sc) THEN NoDc(e) ELSE e

\* start_pass_huff chooses encode_mcu.
Coded(e, sc, mcu) ==
  CASE sc.progressive /\ sc.Ah = 0 /\ sc.Ss = 0 -> DcFirst(e, sc, mcu, 1)
    [] sc.progressive /\ sc.Ah = 0 /\ sc.Ss > 0 -> AcFirst(e, sc, mcu[sc.comps[1]], sc.Ss, 0)
    [] sc.progressive /\ sc.Ah > 0 /\ sc.Ss = 0 -> DcRefine(e, sc, mcu, 1)
    [] sc.progressive /\ sc.Ah > 0 /\ sc.Ss > 0 ->
       AcRefine(e, sc, mcu[sc.comps[1]], EOBPlace(sc, mcu[sc.comps[1]]), sc.Ss, 0, <<>>)
    [] OTHER -> EncodeBlocks(e, sc, mcu, 1)
encode_mcu(e, sc, mcu) ==
  IF e.gather /\ ~ sc.progressive
  THEN CountBlocks(AfterMcu(GatherRestart(e, sc), sc), sc, mcu, 1)
  ELSE AfterMcu(Coded(BeforeMcu(e, sc), sc, mcu), sc)

\* finish_pass_huff, and the end of the counting in finish_pass_gather.
finish_pass(e, sc) ==
  flush_bits(IF sc.progressive THEN emit_eobrun(e, AcTable(sc)) ELSE e)
Frequencies(e, tbl) ==
  BagOfAll(LAMBDA key : key[2], [key \in {x \in DOMAIN e.counts : x[1] = tbl} |-> e.counts[key]])
=============================================================================
