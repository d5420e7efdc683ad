------------------------------- MODULE ArithCodes -------------------------------
(***************************************************************************)
(* What the arithmetic encoder and decoder of the JPEG library share: the  *)
(* states a binary decision's probability goes through (jaricom.c), and    *)
(* the statistics areas both keep of a scan.  A decision is coded with a   *)
(* bin of an area; the bin's byte has the index of its state in the low    *)
(* seven bits and the more probable symbol above them.                     *)
(***************************************************************************)
EXTENDS HuffmanCodes

\* Qe_Value, Next_Index_LPS, Next_Index_MPS and Switch_MPS of each index; the last
\* is the fixed probability of 0.5.
jpeg_aritab ==
  << <<\h5a1d, 1, 1, 1>>, <<\h2586, 14, 2, 0>>, <<\h1114, 16, 3, 0>>, <<\h080b, 18, 4, 0>>,
     <<\h03d8, 20, 5, 0>>, <<\h01da, 23, 6, 0>>, <<\h00e5, 25, 7, 0>>, <<\h006f, 28, 8, 0>>,
     <<\h0036, 30, 9, 0>>, <<\h001a, 33, 10, 0>>, <<\h000d, 35, 11, 0>>,
     <<\h0006, 9, 12, 0>>, <<\h0003, 10, 13, 0>>, <<\h0001, 12, 13, 0>>,
     <<\h5a7f, 15, 15, 1>>, <<\h3f25, 36, 16, 0>>, <<\h2cf2, 38, 17, 0>>,
     <<\h207c, 39, 18, 0>>, <<\h17b9, 40, 19, 0>>, <<\h1182, 42, 20, 0>>,
     <<\h0cef, 43, 21, 0>>, <<\h09a1, 45, 22, 0>>, <<\h072f, 46, 23, 0>>,
     <<\h055c, 48, 24, 0>>, <<\h0406, 49, 25, 0>>, <<\h0303, 51, 26, 0>>,
     <<\h0240, 52, 27, 0>>, <<\h01b1, 54, 28, 0>>, <<\h0144, 56, 29, 0>>,
     <<\h00f5, 57, 30, 0>>, <<\h00b7, 59, 31, 0>>, <<\h008a, 60, 32, 0>>,
     <<\h0068, 62, 33, 0>>, <<\h004e, 63, 34, 0>>, <<\h003b, 32, 35, 0>>,
     <<\h002c, 33, 9, 0>>, <<\h5ae1, 37, 37, 1>>, <<\h484c, 64, 38, 0>>,
     <<\h3a0d, 65, 39, 0>>, <<\h2ef1, 67, 40, 0>>, <<\h261f, 68, 41, 0>>,
     <<\h1f33, 69, 42, 0>>, <<\h19a8, 70, 43, 0>>, <<\h1518, 72, 44, 0>>,
     <<\h1177, 73, 45, 0>>, <<\h0e74, 74, 46, 0>>, <<\h0bfb, 75, 47, 0>>,
     <<\h09f8, 77, 48, 0>>, <<\h0861, 78, 49, 0>>, <<\h0706, 79, 50, 0>>,
     <<\h05cd, 48, 51, 0>>, <<\h04de, 50, 52, 0>>, <<\h040f, 50, 53, 0>>,
     <<\h0363, 51, 54, 0>>, <<\h02d4, 52, 55, 0>>, <<\h025c, 53, 56, 0>>,
     <<\h01f8, 54, 57, 0>>, <<\h01a4, 55, 58, 0>>, <<\h0160, 56, 59, 0>>,
     <<\h0125, 57, 60, 0>>, <<\h00f6, 58, 61, 0>>, <<\h00cb, 59, 62, 0>>,
     <<\h00ab, 61, 63, 0>>, <<\h008f, 61, 32, 0>>, <<\h5b12, 65, 65, 1>>,
     <<\h4d04, 80, 66, 0>>, <<\h412c, 81, 67, 0>>, <<\h37d8, 82, 68, 0>>,
     <<\h2fe8, 83, 69, 0>>, <<\h293c, 84, 70, 0>>, <<\h2379, 86, 71, 0>>,
     <<\h1edf, 87, 72, 0>>, <<\h1aa9, 87, 73, 0>>, <<\h174e, 72, 74, 0>>,
     <<\h1424, 72, 75, 0>>, <<\h119c, 74, 76, 0>>, <<\h0f6b, 74, 77, 0>>,
     <<\h0d51, 75, 78, 0>>, <<\h0bb6, 77, 79, 0>>, <<\h0a40, 77, 48, 0>>,
     <<\h5832, 80, 81, 1>>, <<\h4d1c, 88, 82, 0>>, <<\h438e, 89, 83, 0>>,
     <<\h3bdd, 90, 84, 0>>, <<\h34ee, 91, 85, 0>>, <<\h2eae, 92, 86, 0>>,
     <<\h299a, 93, 87, 0>>, <<\h2516, 86, 71, 0>>, <<\h5570, 88, 89, 1>>,
     <<\h4ca9, 95, 90, 0>>, <<\h44d9, 96, 91, 0>>, <<\h3e22, 97, 92, 0>>,
     <<\h3824, 99, 93, 0>>, <<\h32b4, 99, 94, 0>>, <<\h2e17, 93, 86, 0>>,
     <<\h56a8, 95, 96, 1>>, <<\h4f46, 101, 97, 0>>, <<\h47e5, 102, 98, 0>>,
     <<\h41cf, 103, 99, 0>>, <<\h3c3d, 104, 100, 0>>, <<\h375e, 99, 93, 0>>,
     <<\h5231, 105, 102, 0>>, <<\h4c0f, 106, 103, 0>>, <<\h4639, 107, 104, 0>>,
     <<\h415e, 103, 99, 0>>, <<\h5627, 105, 106, 1>>, <<\h50e7, 108, 107, 0>>,
     <<\h4b85, 109, 103, 0>>, <<\h5597, 110, 109, 0>>, <<\h504f, 111, 107, 0>>,
     <<\h5a10, 110, 111, 1>>, <<\h5522, 112, 109, 0>>, <<\h59eb, 112, 111, 1>>,
     <<\h5a1d, 113, 113, 0>> >>

DC_STAT_BINS == 64
AC_STAT_BINS == 256

State(sv) == jpeg_aritab[(sv % 128) + 1]
Qe(sv) == State(sv)[1]
MPS(sv) == sv \div 128
AfterLPS(sv) == State(sv)[2] + 128 * ((MPS(sv) + State(sv)[4]) % 2)
AfterMPS(sv) == State(sv)[3] + 128 * MPS(sv)

\* Areas go by <<kind, number>>; the fixed bin has one of its own.
Fixed == <<"fixed", 0>>
FixedBin == 113
Cleared(areas) ==
  [t \in areas \cup {Fixed} |->
     CASE t[1] = "dc" -> [bin \in 0 .. DC_STAT_BINS - 1 |-> 0]
       [] t[1] = "ac" -> [bin \in 0 .. AC_STAT_BINS - 1 |-> 0]
       [] OTHER -> [bin \in {0} |-> FixedBin]]

\* What the difference of a DC value says of the next one of its component: m is
\* the leading bit of its magnitude less one.
dc_category(cond, m, negative) ==
  CASE m < 2^cond.L \div 2 -> 0
    [] m > 2^cond.U \div 2 -> 12 + 4 * negative
    [] OTHER -> 4 + 4 * negative
\* The bins of the magnitudes of AC values.
X1 == 20
MagnitudeBins(cond, k) == IF k <= cond.K THEN 189 ELSE 217
=============================================================================
