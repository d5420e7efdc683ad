----------------------------- MODULE InverseDct -----------------------------
(***************************************************************************)
(* The inverse transforms of jidctint.c, one for each size of block that a *)
(* component can be drawn at, and the choice among them (jddctmgr.c).      *)
(* Each reads the coefficients of an 8x8 block that its size has use for,  *)
(* multiplies them by the quantization table, transforms columns into a    *)
(* workspace and then the rows of the workspace into samples.              *)
(*                                                                         *)
(* The accurate integer method (JDCT_ISLOW) is the one jconfig.h makes the *)
(* default and the only one for sizes other than 8x8.  Its shortcuts for   *)
(* columns and rows without AC terms give the same values and are not told *)
(* apart.                                                                  *)
(***************************************************************************)
EXTENDS DctKernels

Least(a, b) == IF a < b THEN a ELSE b

\* A routine: the kernel and the shift of each pass.  Of the 4-point column
\* pass that rounds its odd part by itself, `apart` is TRUE.
InverseRoutine(columns, cshift, rows, rshift) ==
  [columns |-> columns, cshift |-> cshift, rows |-> rows, rshift |-> rshift,
   apart |-> FALSE]
Pass1 == CONST_BITS - PASS1_BITS
Pass2 == CONST_BITS + PASS1_BITS + 3

jpeg_idct_1x1 == InverseRoutine(Idct1, 0, Idct1, 3)
jpeg_idct_2x2 == InverseRoutine(Idct2, 0, Idct2, 3)
jpeg_idct_3x3 == InverseRoutine(Idct3, Pass1, Idct3, Pass2)
jpeg_idct_4x4 == [InverseRoutine(Idct4, Pass1, Idct4, Pass2) EXCEPT !.apart = TRUE]
jpeg_idct_5x5 == InverseRoutine(Idct5, Pass1, Idct5, Pass2)
jpeg_idct_6x6 == InverseRoutine(Idct6, Pass1, Idct6, Pass2)
jpeg_idct_7x7 == InverseRoutine(Idct7, Pass1, Idct7, Pass2)
jpeg_idct_islow == InverseRoutine(Idct8, Pass1, Idct8, Pass2)
jpeg_idct_9x9 == InverseRoutine(Idct9, Pass1, Idct9, Pass2)
jpeg_idct_10x10 == InverseRoutine(Idct10, Pass1, Idct10, Pass2)
jpeg_idct_11x11 == InverseRoutine(Idct11, Pass1, Idct11, Pass2)
jpeg_idct_12x12 == InverseRoutine(Idct12, Pass1, Idct12, Pass2)
jpeg_idct_13x13 == InverseRoutine(Idct13, Pass1, Idct13, Pass2)
jpeg_idct_14x14 == InverseRoutine(Idct14, Pass1, Idct14, Pass2)
jpeg_idct_15x15 == InverseRoutine(Idct15, Pass1, Idct15, Pass2)
jpeg_idct_16x16 == InverseRoutine(Idct16, Pass1, Idct16, Pass2)
jpeg_idct_2x1 == InverseRoutine(Idct1, 0, Idct2, 3)
jpeg_idct_4x2 == InverseRoutine(Idct2, 0, Idct4, CONST_BITS + 3)
jpeg_idct_6x3 == InverseRoutine(Idct3, Pass1, Idct6, Pass2)
jpeg_idct_8x4 == [InverseRoutine(Idct4, Pass1, Idct8, Pass2) EXCEPT !.apart = TRUE]
jpeg_idct_10x5 == InverseRoutine(Idct5, Pass1, Idct10, Pass2)
jpeg_idct_12x6 == InverseRoutine(Idct6, Pass1, Idct12, Pass2)
jpeg_idct_14x7 == InverseRoutine(Idct7, Pass1, Idct14, Pass2)
jpeg_idct_16x8 == InverseRoutine(Idct8, Pass1, Idct16, Pass2)
jpeg_idct_1x2 == InverseRoutine(Idct2, 0, Idct1, 3)
jpeg_idct_2x4 == InverseRoutine(Idct4, 0, Idct2, CONST_BITS + 3)
jpeg_idct_3x6 == InverseRoutine(Idct6, Pass1, Idct3, Pass2)
jpeg_idct_4x8 == InverseRoutine(Idct8, Pass1, Idct4, Pass2)
jpeg_idct_5x10 == InverseRoutine(Idct10, Pass1, Idct5, Pass2)
jpeg_idct_6x12 == InverseRoutine(Idct12, Pass1, Idct6, Pass2)
jpeg_idct_7x14 == InverseRoutine(Idct14, Pass1, Idct7, Pass2)
jpeg_idct_8x16 == InverseRoutine(Idct16, Pass1, Idct8, Pass2)

\* start_pass of jddctmgr.c: the routine of a component's block size, width
\* first.
method_ptr(size) ==
  CASE size = <<1, 1>> -> jpeg_idct_1x1
    [] size = <<2, 2>> -> jpeg_idct_2x2
    [] size = <<3, 3>> -> jpeg_idct_3x3
    [] size = <<4, 4>> -> jpeg_idct_4x4
    [] size = <<5, 5>> -> jpeg_idct_5x5
    [] size = <<6, 6>> -> jpeg_idct_6x6
    [] size = <<7, 7>> -> jpeg_idct_7x7
    [] size = <<8, 8>> -> jpeg_idct_islow
    [] size = <<9, 9>> -> jpeg_idct_9x9
    [] size = <<10, 10>> -> jpeg_idct_10x10
    [] size = <<11, 11>> -> jpeg_idct_11x11
    [] size = <<12, 12>> -> jpeg_idct_12x12
    [] size = <<13, 13>> -> jpeg_idct_13x13
    [] size = <<14, 14>> -> jpeg_idct_14x14
    [] size = <<15, 15>> -> jpeg_idct_15x15
    [] size = <<16, 16>> -> jpeg_idct_16x16
    [] size = <<2, 1>> -> jpeg_idct_2x1
    [] size = <<4, 2>> -> jpeg_idct_4x2
    [] size = <<6, 3>> -> jpeg_idct_6x3
    [] size = <<8, 4>> -> jpeg_idct_8x4
    [] size = <<10, 5>> -> jpeg_idct_10x5
    [] size = <<12, 6>> -> jpeg_idct_12x6
    [] size = <<14, 7>> -> jpeg_idct_14x7
    [] size = <<16, 8>> -> jpeg_idct_16x8
    [] size = <<1, 2>> -> jpeg_idct_1x2
    [] size = <<2, 4>> -> jpeg_idct_2x4
    [] size = <<3, 6>> -> jpeg_idct_3x6
    [] size = <<4, 8>> -> jpeg_idct_4x8
    [] size = <<5, 10>> -> jpeg_idct_5x10
    [] size = <<6, 12>> -> jpeg_idct_6x12
    [] size = <<7, 14>> -> jpeg_idct_7x14
    [] size = <<8, 16>> -> jpeg_idct_8x16

-----------------------------------------------------------------------------
\* The terms k, k+2, ... of a weighted sum.
RECURSIVE EverySecond(_, _, _)
EverySecond(weights, values, k) ==
  IF k > Len(weights) THEN 0
  ELSE weights[k] * values[k] + EverySecond(weights, values, k + 2)

\* Output x of n, from the even and the odd part of its kernel's row.
Sum(even, odd, bits) == Descale(even + odd, bits)
Difference(even, odd, bits, apart) ==
  IF apart THEN RightShift(even, bits) - Descale(odd, bits)
  ELSE Descale(even - odd, bits)
Output(kernel, n, x, values, bits, apart) ==
  IF 2 * x <= n + 1
  THEN Sum(EverySecond(kernel[x], values, 1), EverySecond(kernel[x], values, 2), bits)
  ELSE Difference(EverySecond(kernel[n + 1 - x], values, 1),
                  EverySecond(kernel[n + 1 - x], values, 2), bits, apart)

\* The table after which samples leave the transform, indexed modulo 1024:
\* values up to 384 beyond either end of the samples' range are cut off there.
RangeLimit(x) ==
  LET i == x % (4 * (MAXJSAMPLE + 1))
  IN  CASE i < CENTERJSAMPLE -> i + CENTERJSAMPLE
        [] i >= CENTERJSAMPLE /\ i < 2 * (MAXJSAMPLE + 1) -> MAXJSAMPLE
        [] i >= 2 * (MAXJSAMPLE + 1) /\ i < 4 * (MAXJSAMPLE + 1) - CENTERJSAMPLE -> 0
        [] OTHER -> i - 4 * (MAXJSAMPLE + 1) + CENTERJSAMPLE

Column(plane, u) == [v \in DOMAIN plane |-> plane[v][u]]

\* Dequantize, and pass 1; the workspace has a row for each row of samples.
Dequantized(coefs, quantval) ==
  [v \in 1 .. BLOCK |-> [u \in 1 .. BLOCK |-> coefs[v][u] * quantval[v][u]]]
Workspace(routine, size, dequantized) ==
  [y \in 1 .. size[2] |-> [u \in 1 .. Least(size[1], BLOCK) |->
     Output(routine.columns, size[2], y, Column(dequantized, u), routine.cshift,
            routine.apart)]]

\* Pass 2.
Samples(routine, size, workspace) ==
  [y \in 1 .. size[2] |-> [x \in 1 .. size[1] |->
     RangeLimit(Output(routine.rows, size[1], x, workspace[y], routine.rshift, FALSE))]]
=============================================================================
