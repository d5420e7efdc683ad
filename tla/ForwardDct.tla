----------------------------- MODULE ForwardDct -----------------------------
(***************************************************************************)
(* The forward transforms of jfdctint.c, the choice among them and the     *)
(* quantization of what they give (jcdctmgr.c).  Each takes a block of     *)
(* samples of its size, transforms its rows, and then columns of the first *)
(* eight results of each row; coefficients come out 8 times too large, for *)
(* the divisors to take away.                                              *)
(***************************************************************************)
EXTENDS DctKernels

\* A routine: the kernel and the shift of each pass.  The 15-point kernels
\* halve the sum of four inputs, rounding it down, before they weigh it: the
\* weights of that half are kept apart, for the two coefficients it is part of.
ForwardRoutine(rows, rshift, columns, cshift) ==
  [rows |-> rows, rshift |-> rshift, rhalf |-> <<0, 0>>,
   columns |-> columns, cshift |-> cshift, chalf |-> <<0, 0>>]

jpeg_fdct_1x1 == ForwardRoutine(Fdct1, CONST_BITS, Fdct1, CONST_BITS - 6)
jpeg_fdct_2x2 == ForwardRoutine(Fdct2, CONST_BITS, Fdct2, CONST_BITS - 4)
jpeg_fdct_3x3 == ForwardRoutine(Fdct3, CONST_BITS - 4, Scaled3, CONST_BITS + 2)
jpeg_fdct_4x4 == ForwardRoutine(Fdct4, CONST_BITS - 4, Fdct4, CONST_BITS + 2)
jpeg_fdct_5x5 == ForwardRoutine(Fdct5, CONST_BITS - 3, Scaled5, CONST_BITS + 2)
jpeg_fdct_6x6 == ForwardRoutine(Fdct6, CONST_BITS - 2, Scaled6, CONST_BITS + 2)
jpeg_fdct_7x7 == ForwardRoutine(Fdct7, CONST_BITS - 2, Scaled7, CONST_BITS + 2)
jpeg_fdct_islow == ForwardRoutine(Fdct8, CONST_BITS - 2, Fdct8, CONST_BITS + 2)
jpeg_fdct_9x9 == ForwardRoutine(Fdct9, CONST_BITS - 1, Scaled9, CONST_BITS + 2)
jpeg_fdct_10x10 == ForwardRoutine(Fdct10, CONST_BITS - 1, Scaled10, CONST_BITS + 2)
jpeg_fdct_11x11 == ForwardRoutine(Fdct11, CONST_BITS - 1, Scaled11, CONST_BITS + 2)
jpeg_fdct_12x12 == ForwardRoutine(Fdct12, CONST_BITS, Scaled12, CONST_BITS + 1)
jpeg_fdct_13x13 == ForwardRoutine(Fdct13, CONST_BITS, Scaled13, CONST_BITS + 1)
jpeg_fdct_14x14 == ForwardRoutine(Fdct14, CONST_BITS, Scaled14, CONST_BITS + 1)
jpeg_fdct_15x15 ==
  [ForwardRoutine(Fdct15, CONST_BITS, Scaled15, CONST_BITS + 2)
   EXCEPT !.rhalf = <<5793, -5793>>, !.chalf = <<6591, -6590>>]
jpeg_fdct_16x16 == ForwardRoutine(Fdct16, CONST_BITS - 2, Fdct16, CONST_BITS + 4)
jpeg_fdct_2x1 == ForwardRoutine(Fdct2, CONST_BITS, Fdct1, CONST_BITS - 5)
jpeg_fdct_4x2 == ForwardRoutine(Fdct4, CONST_BITS - 5, Fdct2, CONST_BITS + 2)
jpeg_fdct_6x3 == ForwardRoutine(Fdct6, CONST_BITS - 3, Scaled3, CONST_BITS + 2)
jpeg_fdct_8x4 == ForwardRoutine(Fdct8, CONST_BITS - 3, Fdct4, CONST_BITS + 2)
jpeg_fdct_10x5 == ForwardRoutine(Fdct10, CONST_BITS - 2, Scaled5, CONST_BITS + 2)
jpeg_fdct_12x6 == ForwardRoutine(Fdct12, CONST_BITS - 2, Scaled6, CONST_BITS + 3)
jpeg_fdct_14x7 == ForwardRoutine(Fdct14, CONST_BITS - 2, Scaled7, CONST_BITS + 3)
jpeg_fdct_16x8 == ForwardRoutine(Fdct16, CONST_BITS - 2, Fdct8, CONST_BITS + 3)
jpeg_fdct_1x2 == ForwardRoutine(Fdct1, CONST_BITS, Fdct2, CONST_BITS - 5)
jpeg_fdct_2x4 == ForwardRoutine(Fdct2, CONST_BITS - 3, Fdct4, CONST_BITS)
jpeg_fdct_3x6 == ForwardRoutine(Fdct3, CONST_BITS - 3, Scaled6, CONST_BITS + 2)
jpeg_fdct_4x8 == ForwardRoutine(Fdct4, CONST_BITS - 3, Fdct8, CONST_BITS + 2)
jpeg_fdct_5x10 == ForwardRoutine(Fdct5, CONST_BITS - 2, Scaled10, CONST_BITS + 2)
jpeg_fdct_6x12 == ForwardRoutine(Fdct6, CONST_BITS - 2, Scaled12, CONST_BITS + 2)
jpeg_fdct_7x14 == ForwardRoutine(Fdct7, CONST_BITS - 2, Scaled14, CONST_BITS + 2)
jpeg_fdct_8x16 == ForwardRoutine(Fdct8, CONST_BITS - 2, Fdct16, CONST_BITS + 3)

\* start_pass_fdctmgr of jcdctmgr.c: the routine of a component's block size,
\* width first.
do_dct(size) ==
  CASE size = <<1, 1>> -> jpeg_fdct_1x1
    [] size = <<2, 2>> -> jpeg_fdct_2x2
    [] size = <<3, 3>> -> jpeg_fdct_3x3
    [] size = <<4, 4>> -> jpeg_fdct_4x4
    [] size = <<5, 5>> -> jpeg_fdct_5x5
    [] size = <<6, 6>> -> jpeg_fdct_6x6
    [] size = <<7, 7>> -> jpeg_fdct_7x7
    [] size = <<8, 8>> -> jpeg_fdct_islow
    [] size = <<9, 9>> -> jpeg_fdct_9x9
    [] size = <<10, 10>> -> jpeg_fdct_10x10
    [] size = <<11, 11>> -> jpeg_fdct_11x11
    [] size = <<12, 12>> -> jpeg_fdct_12x12
    [] size = <<13, 13>> -> jpeg_fdct_13x13
    [] size = <<14, 14>> -> jpeg_fdct_14x14
    [] size = <<15, 15>> -> jpeg_fdct_15x15
    [] size = <<16, 16>> -> jpeg_fdct_16x16
    [] size = <<2, 1>> -> jpeg_fdct_2x1
    [] size = <<4, 2>> -> jpeg_fdct_4x2
    [] size = <<6, 3>> -> jpeg_fdct_6x3
    [] size = <<8, 4>> -> jpeg_fdct_8x4
    [] size = <<10, 5>> -> jpeg_fdct_10x5
    [] size = <<12, 6>> -> jpeg_fdct_12x6
    [] size = <<14, 7>> -> jpeg_fdct_14x7
    [] size = <<16, 8>> -> jpeg_fdct_16x8
    [] size = <<1, 2>> -> jpeg_fdct_1x2
    [] size = <<2, 4>> -> jpeg_fdct_2x4
    [] size = <<3, 6>> -> jpeg_fdct_3x6
    [] size = <<4, 8>> -> jpeg_fdct_4x8
    [] size = <<5, 10>> -> jpeg_fdct_5x10
    [] size = <<6, 12>> -> jpeg_fdct_6x12
    [] size = <<7, 14>> -> jpeg_fdct_7x14
    [] size = <<8, 16>> -> jpeg_fdct_8x16

-----------------------------------------------------------------------------
\* Mirrored inputs are added for an even coefficient, subtracted for an odd one;
\* an input in the middle has no other.
Mirrored(values, i, sign) ==
  IF 2 * i = Len(values) + 1 THEN values[i]
  ELSE values[i] + sign * values[Len(values) + 1 - i]

RECURSIVE Along(_, _, _, _)
Along(weights, values, sign, i) ==
  IF i > Len(weights) THEN 0
  ELSE weights[i] * Mirrored(values, i, sign) + Along(weights, values, sign, i + 1)

Sign(k) == IF k % 2 = 1 THEN 1 ELSE -1   \* coefficients are counted from 1
Halved(values, k, half) ==
  IF k \in {3, 5} /\ half[k \div 2] # 0
  THEN half[k \div 2] * ((Mirrored(values, 2, 1) + Mirrored(values, 5, 1)) \div 2)
  ELSE 0
Coefficient(kernel, values, k, half) ==
  Along(kernel[k], values, Sign(k), 1) + Halved(values, k, half)

\* Pass 1.  The first coefficient of a row takes away the samples' centre.
Centre(kernel, values, k) == IF k = 1 THEN kernel[1][1] * Len(values) * CENTERJSAMPLE ELSE 0
RowPass(routine, samples) ==
  [y \in DOMAIN samples |-> [u \in DOMAIN routine.rows |->
     Descale(Coefficient(routine.rows, samples[y], u, routine.rhalf)
               - Centre(routine.rows, samples[y], u), routine.rshift)]]

\* Pass 2, into a block of zeroes.
ColumnOf(plane, u) == [y \in DOMAIN plane |-> plane[y][u]]
ColumnPass(routine, workspace) ==
  [v \in 1 .. BLOCK |-> [u \in 1 .. BLOCK |->
     IF v \in DOMAIN routine.columns /\ u \in DOMAIN routine.rows
     THEN Descale(Coefficient(routine.columns, ColumnOf(workspace, u), v, routine.chalf),
                  routine.cshift)
     ELSE 0]]

\* The quotient rounded to the nearest, away from zero at a half.
Divisor(quantval) == 8 * quantval
Quantized(temp, qval) ==
  IF temp < 0 THEN - ((- temp + qval \div 2) \div qval)
  ELSE (temp + qval \div 2) \div qval
Quantize(workspace, quantval) ==
  [v \in 1 .. BLOCK |-> [u \in 1 .. BLOCK |->
     Quantized(workspace[v][u], Divisor(quantval[v][u]))]]
=============================================================================
