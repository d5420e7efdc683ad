----------------------------- MODULE ArithEncoder -----------------------------
(***************************************************************************)
(* The arithmetic encoder (jcarith.c), sequential and progressive.  The    *)
(* coefficients of an MCU are a sequence of binary decisions, each with    *)
(* the bin it is coded with; a decision narrows the interval from c of     *)
(* size a, and bytes go out when c has enough bits.  A byte waits in       *)
(* buffer, as a later carry may still reach it, and with it the FF bytes   *)
(* (sc) and the zeroes (zc) after it; zeroes at the end are left out.      *)
(***************************************************************************)
EXTENDS ArithCodes

\* start_pass: the areas the scan uses are cleared, and the interval is whole.
EncoderAreas(sc) ==
  {<<"dc", sc.tbl[c]>> : c \in {d \in Range(sc.comps) : sc.Ss = 0 /\ sc.Ah = 0}}
    \cup {<<"ac", sc.tbl[c]>> : c \in {d \in Range(sc.comps) : sc.Se > 0}}
ArithEncoderOf(sc) ==
  [c |-> 0, a |-> 65536, sc |-> 0, zc |-> 0, ct |-> 11, buffer |-> -1, bytes |-> <<>>,
   data |-> <<>>, stats |-> Cleared(EncoderAreas(sc)),
   last_dc_val |-> [c \in Range(sc.comps) |-> 0],
   dc_context |-> [c \in Range(sc.comps) |-> 0], restarts_to_go |-> sc.interval]

-----------------------------------------------------------------------------
\* The byte in the buffer leaves it: with a carry, which makes zeroes of the FF
\* bytes after it, or without one.
Zeroes(n) == [i \in 1 .. n |-> 0]
StuffedFFs(n) == [i \in 1 .. 2 * n |-> IF i % 2 = 1 THEN 255 ELSE 0]
CarryOut(e) ==
  [e EXCEPT !.bytes = IF e.buffer < 0 THEN @
                      ELSE @ \o Zeroes(e.zc) \o Stuffed(e.buffer + 1),
            !.zc = (IF e.buffer < 0 THEN @ ELSE 0) + e.sc, !.sc = 0]
BufferOut(e) ==
  CASE e.buffer < 0 -> e
    [] e.buffer = 0 -> [e EXCEPT !.zc = @ + 1]
    [] OTHER -> [e EXCEPT !.bytes = @ \o Zeroes(e.zc) \o <<e.buffer>>, !.zc = 0]
FFsOut(e) ==
  IF e.sc = 0 THEN e
  ELSE [e EXCEPT !.bytes = @ \o Zeroes(e.zc) \o StuffedFFs(e.sc), !.zc = 0, !.sc = 0]
NextByte(e, temp) ==
  CASE temp > 255 -> [CarryOut(e) EXCEPT !.buffer = temp % 256]
    [] temp = 255 -> [e EXCEPT !.sc = @ + 1]
    [] OTHER -> [FFsOut(BufferOut(e)) EXCEPT !.buffer = temp]
Doubled(e) == [e EXCEPT !.a = 2 * @, !.c = 2 * @, !.ct = @ - 1]
ByteReady(e) ==
  IF e.ct > 0 THEN e
  ELSE [NextByte(e, e.c \div 2^19) EXCEPT !.c = @ % 2^19, !.ct = @ + 8]
RECURSIVE Renormalized(_)
Renormalized(e) == IF e.a >= 32768 THEN e ELSE Renormalized(ByteReady(Doubled(e)))

\* arith_encode.  The interval is split into a - Qe below and Qe above; the less
\* probable symbol gets the smaller part.
Split(e, a, qe, less) ==
  IF less = (a >= qe) THEN [e EXCEPT !.c = @ + a, !.a = qe] ELSE [e EXCEPT !.a = a]
Narrowed(e, d, sv, a) ==
  CASE d.val # MPS(sv) ->
       Renormalized([Split(e, a, Qe(sv), TRUE) EXCEPT !.stats[d.area][d.bin] = AfterLPS(sv)])
    [] d.val = MPS(sv) /\ a >= 32768 -> [e EXCEPT !.a = a]
    [] OTHER ->
       Renormalized([Split(e, a, Qe(sv), FALSE) EXCEPT !.stats[d.area][d.bin] = AfterMPS(sv)])
arith_encode(e, d) ==
  Narrowed(e, d, e.stats[d.area][d.bin], e.a - Qe(e.stats[d.area][d.bin]))
\* The decisions from i to j, in two halves: the first is done before the second.
RECURSIVE EncodeHalves(_, _, _, _), SecondHalf(_, _, _, _)
EncodeHalves(e, decisions, i, j) ==
  CASE i > j -> e
    [] i = j -> arith_encode(e, decisions[i])
    [] OTHER -> SecondHalf(EncodeHalves(e, decisions, i, (i + j) \div 2), decisions,
                           (i + j) \div 2 + 1, j)
SecondHalf(e, decisions, i, j) == CASE e.ct > 0 -> EncodeHalves(e, decisions, i, j)
Encoded(e, decisions) == EncodeHalves(e, decisions, 1, Len(decisions))

-----------------------------------------------------------------------------
Decision(area, bin, val) == <<[area |-> area, bin |-> bin, val |-> val]>>
Ones(area, bin, n) == [i \in 1 .. n |-> [area |-> area, bin |-> bin + i - 1, val |-> 1]]
\* The bits of x below its leading one, in one bin.
Pattern(area, bin, x) ==
  [i \in 1 .. NBits(x) - 1 |->
     [area |-> area, bin |-> bin, val |-> BitsOf(x, NBits(x))[i + 1]]]
LeadingBit(x) == IF x = 0 THEN 0 ELSE 2^(NBits(x) - 1)
SignBit(x) == IF x < 0 THEN 1 ELSE 0

\* A DC difference: is it zero, its sign, how large x, its magnitude less one, is, x.
DcMagnitude(area, bin, x) ==
  IF x = 0 THEN Decision(area, bin, 0)
  ELSE Decision(area, bin, 1) \o Ones(area, X1, NBits(x) - 1)
         \o Decision(area, X1 + NBits(x) - 1, 0)
         \o Pattern(area, X1 + NBits(x) - 1 + 14, x)
DcDecisions(area, context, v) ==
  IF v = 0 THEN Decision(area, context, 0)
  ELSE Decision(area, context, 1) \o Decision(area, context + 1, SignBit(v))
         \o DcMagnitude(area, context + 2 + SignBit(v), Magnitude(v) - 1)
NextCategory(cond, v) ==
  IF v = 0 THEN 0 ELSE dc_category(cond, LeadingBit(Magnitude(v) - 1), SignBit(v))
EncodeDc(e, sc, c, m) ==
  LET v == m - e.last_dc_val[c]
  IN  [Encoded(e, DcDecisions(<<"dc", sc.tbl[c]>>, e.dc_context[c], v))
       EXCEPT !.last_dc_val[c] = m, !.dc_context[c] = NextCategory(sc.cond[sc.tbl[c]], v)]

\* An AC value that is not zero.
AcMagnitude(area, bin, x1, x) ==
  CASE x = 0 -> Decision(area, bin, 0)
    [] x = 1 -> Decision(area, bin, 1) \o Decision(area, bin, 0)
    [] OTHER ->
       Decision(area, bin, 1) \o Decision(area, bin, 1) \o Ones(area, x1, NBits(x) - 2)
         \o Decision(area, x1 + NBits(x) - 2, 0)
         \o Pattern(area, x1 + NBits(x) - 2 + 14, x)
NewValue(area, bin, v) == Decision(area, bin + 1, 1) \o Decision(Fixed, 0, SignBit(v))
AcValueDecisions(area, bin, x1, v) ==
  IF v = 0 THEN Decision(area, bin + 1, 0)
  ELSE NewValue(area, bin, v) \o AcMagnitude(area, bin + 2, x1, Magnitude(v) - 1)

\* The values of a band from Ss to Se are x, those before it too.  Before a run of
\* zeroes and the value that ends it: is the block at its end?  ke is the place of
\* the last value that is not zero.
EndIndex(x, Se) == Max({0} \cup {k \in 1 .. Se : x[k] # 0})
RunBegins(x, Ss, k) == k = Ss \/ x[k - 1] # 0
BlockEnd(area, Ss, ke, Se) ==
  IF Max({ke + 1, Ss}) > Se THEN <<>> ELSE Decision(area, 3 * (Max({ke + 1, Ss}) - 1), 1)
NotYetEnd(area, x, Ss, k) ==
  IF RunBegins(x, Ss, k) THEN Decision(area, 3 * (k - 1), 0) ELSE <<>>
FirstDecisions(area, cond, x, Ss, ke) ==
  FlattenSeq([i \in 1 .. ke - Ss + 1 |->
    LET k == Ss + i - 1
    IN  NotYetEnd(area, x, Ss, k)
          \o AcValueDecisions(area, 3 * (k - 1), MagnitudeBins(cond, k), x[k])])

\* Of a value that was not zero before only the next bit is coded, and up to the
\* last of those (kex) the block does not end.
RefinedValue(area, bin, v) ==
  CASE v = 0 -> Decision(area, bin + 1, 0)
    [] Magnitude(v) = 1 -> NewValue(area, bin, v)
    [] OTHER -> Decision(area, bin + 2, Magnitude(v) % 2)
RefineDecisions(area, x, Ss, ke, kex) ==
  FlattenSeq([i \in 1 .. ke - Ss + 1 |->
    LET k == Ss + i - 1
    IN  (IF k > kex THEN NotYetEnd(area, x, Ss, k) ELSE <<>>)
          \o RefinedValue(area, 3 * (k - 1), x[k])])

-----------------------------------------------------------------------------
\* The values of a block's band after the point transform.
Shifted(v, bits) == IF v < 0 THEN -(Magnitude(v) \div 2^bits) ELSE v \div 2^bits
Band(sc, block, bits) ==
  [k \in 1 .. sc.Se |-> Shifted(block[natural_order(sc.block_size, k)], bits)]
Area(sc, c) == <<"ac", sc.tbl[c]>>
BandDecisions(sc, c, x, Ss) ==
  FirstDecisions(Area(sc, c), sc.cond[sc.tbl[c]], x, Ss, EndIndex(x, sc.Se))
    \o BlockEnd(Area(sc, c), Ss, EndIndex(x, sc.Se), sc.Se)

\* encode_mcu_DC_first
ArithDcFirst(e, sc, mcu) ==
  FoldLeft(LAMBDA f, c : EncodeDc(f, sc, c, mcu[c][0] \div 2^sc.Al), e, sc.comps)
\* encode_mcu_AC_first
ArithAcFirst(e, sc, c, block) ==
  Encoded(e, BandDecisions(sc, c, Band(sc, block, sc.Al), sc.Ss))
\* encode_mcu_DC_refine
ArithDcRefine(e, sc, mcu) ==
  Encoded(e, FlattenSeq([i \in DOMAIN sc.comps |->
                    Decision(Fixed, 0, (mcu[sc.comps[i]][0] \div 2^sc.Al) % 2)]))
\* encode_mcu_AC_refine
ArithAcRefine(e, sc, c, block) ==
  LET x == Band(sc, block, sc.Al)
      ke == EndIndex(x, sc.Se)
  IN  Encoded(e, RefineDecisions(Area(sc, c), x, sc.Ss, ke, EndIndex(Band(sc, block, sc.Ah), ke))
                   \o BlockEnd(Area(sc, c), sc.Ss, ke, sc.Se))
\* encode_mcu
ArithBlock(e, sc, c, block) ==
  IF sc.Se = 0 THEN EncodeDc(e, sc, c, block[0])
  ELSE Encoded(EncodeDc(e, sc, c, block[0]), BandDecisions(sc, c, Band(sc, block, 0), 1))
ArithSequential(e, sc, mcu) ==
  FoldLeft(LAMBDA f, c : ArithBlock(f, sc, c, mcu[c]), e, sc.comps)

-----------------------------------------------------------------------------
\* finish_pass: of the interval the number with the most zeroes at its end.
MostZeroes(e, temp) == [e EXCEPT !.c = (IF temp < @ THEN temp + 32768 ELSE temp) * 2^e.ct]
LastByte(e) ==
  IF (e.c % 2^19) \div 2^11 = 0 THEN e
  ELSE [e EXCEPT !.bytes = @ \o Stuffed((e.c \div 2^11) % 256)]
LastBytes(e) ==
  IF (e.c % 2^27) \div 2^11 = 0 THEN e
  ELSE LastByte([e EXCEPT !.bytes = @ \o Zeroes(e.zc) \o Stuffed((e.c \div 2^19) % 256),
                          !.zc = 0])
Emptied(e) == IF e.c >= 2^27 THEN CarryOut(e) ELSE FFsOut(BufferOut(e))
ArithFinish(e) ==
  LET f == LastBytes(Emptied(MostZeroes(e, ((e.a - 1 + e.c) \div 65536) * 65536)))
  IN  [f EXCEPT !.data = Append(@, f.bytes)]

\* emit_restart (the marker is the border between two intervals of the data), and
\* the choice of encode_mcu in start_pass.
ArithRestart(e, sc) ==
  IF sc.interval > 0 /\ e.restarts_to_go = 0
  THEN [ArithEncoderOf(sc) EXCEPT !.data = ArithFinish(e).data]
  ELSE e
ArithCoded(e, sc, mcu) ==
  CASE sc.progressive /\ sc.Ah = 0 /\ sc.Ss = 0 -> ArithDcFirst(e, sc, mcu)
    [] sc.progressive /\ sc.Ah = 0 /\ sc.Ss > 0 ->
       ArithAcFirst(e, sc, sc.comps[1], mcu[sc.comps[1]])
    [] sc.progressive /\ sc.Ah > 0 /\ sc.Ss = 0 -> ArithDcRefine(e, sc, mcu)
    [] sc.progressive /\ sc.Ah > 0 /\ sc.Ss > 0 ->
       ArithAcRefine(e, sc, sc.comps[1], mcu[sc.comps[1]])
    [] OTHER -> ArithSequential(e, sc, mcu)
arith_encode_mcu(e, sc, mcu) ==
  [ArithCoded(ArithRestart(e, sc), sc, mcu)
   EXCEPT !.restarts_to_go = IF sc.interval = 0 THEN @ ELSE @ - 1]
=============================================================================
