----------------------------- MODULE DctKernels -----------------------------
(***************************************************************************)
(* The one-dimensional transforms of jidctint.c and jfdctint.c.  The code  *)
(* computes each with few multiplications, by rotations that share         *)
(* intermediate sums; every one of its constants is an integer, a factor   *)
(* times 2^CONST_BITS, so what comes out is exactly a weighted sum of the  *)
(* inputs.  A kernel is the table of the weights those statements add up   *)
(* to, row by row of the table.                                            *)
(*                                                                         *)
(* Row x of an inverse kernel has the weights of the coefficients 0, 1,    *)
(* ... in output x; the outputs of the second half mirror those of the     *)
(* first, with the odd coefficients negated (tmp10 + tmp3, tmp10 - tmp3).  *)
(* Row k of a forward kernel has the weights of the first half of the      *)
(* inputs in coefficient k; the second half has the same weights, negated  *)
(* for odd k (sums and differences of mirrored inputs).                    *)
(***************************************************************************)
EXTENDS Integers, Sequences

CONST_BITS == 13
PASS1_BITS == 2
BLOCK == 8   \* DCTSIZE
MAXJSAMPLE == 255
CENTERJSAMPLE == 128

\* RIGHT_SHIFT is arithmetic, it rounds down; before it, half of what it takes
\* away is added, in DESCALE or as the fudge factor of a sum.
RightShift(x, bits) == x \div 2^bits
Descale(x, bits) ==
  IF bits = 0 THEN x ELSE RightShift(x + 2^(bits - 1), bits)

-----------------------------------------------------------------------------
\* Inverse kernels of 1 to 16 points.
Idct1 == << <<1>> >>
Idct2 ==
  << <<1, 1>> >>
Idct3 ==
  << <<8192, 10033, 5793>>, <<8192, 0, -11586>> >>
Idct4 ==
  << <<8192, 10703, 8192, 4433>>, <<8192, 4433, -8192, -10704>> >>
Idct5 ==
  << <<8192, 11019, 9372, 6810, 3580>>, <<8192, 6810, -3580, -11018, -9372>>,
     <<8192, 0, -11584, 0, 11584>> >>
Idct6 ==
  << <<8192, 11190, 10033, 8192, 5793, 2998>>, <<8192, 8192, 0, -8192, -11586, -8192>>,
     <<8192, 2998, -10033, -8192, 5793, 11190>> >>
Idct7 ==
  << <<8192, 11295, 10438, 9058, 7223, 5027, 2578>>,
     <<8192, 9058, 2578, -5027, -10438, -11295, -7223>>,
     <<8192, 5027, -7223, -11295, -2578, 9058, 10438>>, <<8192, 0, -11585, 0, 11585, 0, -11585>> >>
Idct8 ==
  << <<8192, 11363, 10703, 9633, 8192, 6437, 4433, 2260>>,
     <<8192, 9633, 4433, -2259, -8192, -11362, -10704, -6436>>,
     <<8192, 6437, -4433, -11362, -8192, 2261, 10704, 9633>>,
     <<8192, 2260, -10703, -6436, 8192, 9633, -4433, -11363>> >>
Idct9 ==
  << <<8192, 11409, 10887, 10033, 8875, 7447, 5793, 3962>>,
     <<8192, 10033, 5793, 0, -5793, -10033, -11586, -10033>>,
     <<8192, 7447, -2012, -10033, -10887, -3962, 5793, 11409>>,
     <<8192, 3962, -8875, -10033, 2012, 11409, 5793, -7447>>,
     <<8192, 0, -11586, 0, 11586, 0, -11586, 0>> >>
Idct10 ==
  << <<8192, 11443, 11019, 10322, 9373, 8192, 6810, 5260>>,
     <<8192, 10323, 6810, 1812, -3580, -8192, -11018, -11442>>,
     <<8192, 8192, 0, -8192, -11586, -8192, 0, 8192>>,
     <<8192, 5260, -6810, -11442, -3580, 8192, 11018, 1812>>,
     <<8192, 1812, -11019, -5260, 9373, 8192, -6810, -10322>> >>
Idct11 ==
  << <<8192, 11468, 11116, 10538, 9746, 8756, 7587, 6264>>,
     <<8192, 10538, 7587, 3264, -1649, -6263, -9746, -11467>>,
     <<8192, 8756, 1649, -6263, -11116, -10537, -4812, 3264>>,
     <<8192, 6264, -4812, -11467, -7587, 3264, 11116, 8756>>,
     <<8192, 3264, -9746, -8755, 4813, 11467, 1649, -10538>>,
     <<8192, 0, -11585, 0, 11585, 0, -11585, 0>> >>
Idct12 ==
  << <<8192, 11487, 11190, 10703, 10033, 9192, 8192, 7053>>,
     <<8192, 10703, 8192, 4433, 0, -4433, -8192, -10703>>,
     <<8192, 9192, 2998, -4433, -10033, -11485, -8192, -1512>>,
     <<8192, 7053, -2998, -10703, -10033, -1512, 8192, 11486>>,
     <<8192, 4433, -8192, -10704, 0, 10704, 8192, -4433>>,
     <<8192, 1513, -11190, -4433, 10033, 7053, -8192, -9191>> >>
Idct13 ==
  << <<8192, 11499, 11249, 10832, 10258, 9534, 8672, 7682>>,
     <<8192, 10832, 8672, 5384, 1397, -2773, -6581, -9534>>,
     <<8192, 9534, 4108, -2773, -8672, -11502, -10258, -5384>>,
     <<8192, 7682, -1396, -9534, -11248, -5384, 4108, 10832>>,
     <<8192, 5384, -6581, -11500, -4108, 7682, 11248, 2773>>,
     <<8192, 2773, -10258, -7682, 6581, 10832, -1397, -11500>>,
     <<8192, 0, -11585, 0, 11585, 0, -11585, 0>> >>
Idct14 ==
  << <<8192, 11513, 11295, 10935, 10438, 9810, 9058, 8192>>,
     <<8192, 10935, 9058, 6164, 2578, -1297, -5026, -8192>>,
     <<8192, 9810, 5027, -1297, -7223, -10934, -11295, -8192>>,
     <<8192, 8192, 0, -8192, -11586, -8192, 0, 8192>>,
     <<8192, 6164, -5027, -11512, -7223, 3826, 11295, 8192>>,
     <<8192, 3826, -9058, -9809, 2578, 11512, 5026, -8192>>,
     <<8192, 1297, -11295, -3826, 10438, 6164, -9058, -8192>> >>
Idct15 ==
  << <<8192, 11522, 11332, 11018, 10584, 10033, 9373, 8609>>,
     <<8192, 11019, 9372, 6810, 3580, 0, -3580, -6810>>,
     <<8192, 10033, 5792, 0, -5792, -10033, -11586, -10033>>,
     <<8192, 8609, 1211, -6810, -11332, -10033, -3580, 4712>>,
     <<8192, 6810, -3580, -11018, -9372, 0, 9373, 11018>>,
     <<8192, 4712, -7753, -11018, -1211, 10033, 9373, -2409>>,
     <<8192, 2409, -10584, -6810, 7753, 10033, -3580, -11522>>,
     <<8192, 0, -11584, 0, 11584, 0, -11586, 0>> >>
Idct16 ==
  << <<8192, 11529, 11363, 11086, 10703, 10217, 9632, 8956>>,
     <<8192, 11086, 9633, 7350, 4433, 1136, -2260, -5461>>,
     <<8192, 10217, 6437, 1136, -4433, -8955, -11363, -11086>>,
     <<8192, 8956, 2260, -5461, -10703, -11086, -6436, 1137>>,
     <<8192, 7350, -2260, -10217, -10703, -3363, 6436, 11529>>,
     <<8192, 5461, -6437, -11529, -4433, 7349, 11363, 3363>>,
     <<8192, 3363, -9633, -8955, 4433, 11529, 2260, -10217>>,
     <<8192, 1136, -11363, -3363, 10703, 5461, -9632, -7350>> >>

-----------------------------------------------------------------------------
\* Forward kernels of the first pass, and of second passes that need no scaling.
Fdct1 == << <<8192>> >>
Fdct2 ==
  << <<8192>>, <<8192>> >>
Fdct3 ==
  << <<8192, 8192>>, <<10033, 0>>, <<5793, -11586>> >>
Fdct4 ==
  << <<8192, 8192>>, <<10703, 4433>>, <<8192, -8192>>, <<4433, -10704>> >>
Fdct5 ==
  << <<8192, 8192, 8192>>, <<11019, 6810, 0>>, <<9372, -3580, -11584>>, <<6810, -11018, 0>>,
     <<3580, -9372, 11584>> >>
Fdct6 ==
  << <<8192, 8192, 8192>>, <<11190, 8192, 2998>>, <<10033, 0, -10033>>, <<8192, -8192, -8192>>,
     <<5793, -11586, 5793>>, <<2998, -8192, 11190>> >>
Fdct7 ==
  << <<8192, 8192, 8192, 8192>>, <<11295, 9058, 5027, 0>>, <<10438, 2578, -7224, -11584>>,
     <<9058, -5027, -11295, 0>>, <<7223, -10438, -2578, 11586>>, <<5027, -11295, 9058, 0>>,
     <<2577, -7223, 10438, -11584>> >>
Fdct8 ==
  << <<8192, 8192, 8192, 8192>>, <<11363, 9633, 6437, 2260>>, <<10703, 4433, -4433, -10703>>,
     <<9633, -2259, -11362, -6436>>, <<8192, -8192, -8192, 8192>>, <<6437, -11362, 2261, 9633>>,
     <<4433, -10704, 10704, -4433>>, <<2260, -6436, 9633, -11363>> >>
Fdct9 ==
  << <<8192, 8192, 8192, 8192, 8192>>, <<11409, 10033, 7447, 3962, 0>>,
     <<10887, 5793, -2012, -8875, -11586>>, <<10033, 0, -10033, -10033, 0>>,
     <<8875, -5793, -10887, 2012, 11586>>, <<7447, -10033, -3962, 11409, 0>>,
     <<5793, -11586, 5793, 5793, -11586>>, <<3962, -10033, 11409, -7447, 0>> >>
Fdct10 ==
  << <<8192, 8192, 8192, 8192, 8192>>, <<11443, 10323, 8192, 5260, 1812>>,
     <<11019, 6810, 0, -6810, -11019>>, <<10322, 1812, -8192, -11442, -5260>>,
     <<9373, -3580, -11586, -3580, 9373>>, <<8192, -8192, -8192, 8192, 8192>>,
     <<6810, -11018, 0, 11018, -6810>>, <<5260, -11442, 8192, 1812, -10322>> >>
Fdct11 ==
  << <<8192, 8192, 8192, 8192, 8192, 8192>>, <<11467, 10538, 8756, 6263, 3264, 0>>,
     <<11116, 7587, 1649, -4813, -9746, -11586>>, <<10538, 3264, -6263, -11467, -8756, 0>>,
     <<9746, -1648, -11116, -7587, 4813, 11584>>, <<8756, -6263, -10537, 3264, 11467, 0>>,
     <<7587, -9746, -4812, 11116, 1649, -11588>>, <<6263, -11467, 3264, 8755, -10538, 0>> >>
Fdct12 ==
  << <<8192, 8192, 8192, 8192, 8192, 8192>>, <<11486, 10703, 9191, 7053, 4433, 1512>>,
     <<11190, 1, 11189, -11189, -1, -11190>>, <<10703, 4433, -4433, -10703, -10704, -4433>>,
     <<10033, 0, -10033, -10033, 0, 10033>>, <<9191, -4433, -11486, -1512, 10704, 7053>>,
     <<8192, -8192, -8192, 8192, 8192, -8192>>, <<7053, -10703, -1512, 11487, -4433, -9191>> >>
Fdct13 ==
  << <<8192, 8192, 8192, 8192, 8192, 8192, 8192>>, <<11499, 10832, 9534, 7682, 5384, 2773, 0>>,
     <<11249, 8672, 4108, -1396, -6581, -10258, -11588>>,
     <<10832, 5384, -2773, -9534, -11501, -7682, 0>>,
     <<10258, 1397, -8672, -11248, -4108, 6581, 11584>>,
     <<9534, -2773, -11502, -5384, 7682, 10833, 0>>,
     <<8672, -6581, -10258, 4108, 11248, -1397, -11584>>,
     <<7682, -9534, -5384, 10832, 2773, -11500, 0>> >>
Fdct14 ==
  << <<8192, 8192, 8192, 8192, 8192, 8192, 8192>>,
     <<11513, 10935, 9810, 8192, 6164, 3826, -6893>>,
     <<11295, 9058, 5027, 0, -5027, -9058, -11295>>,
     <<10935, 6164, -1297, -8192, -11512, -9810, -3826>>,
     <<10438, 2578, -7223, -11586, -7223, 2578, 10438>>,
     <<9810, -1297, -10934, -8192, 3827, 11512, 6164>>,
     <<9058, -5026, -11295, 0, 11295, 5026, -9058>>,
     <<8192, -8192, -8192, 8192, 8192, -8192, -8192>> >>
Fdct15 ==
  << <<8192, 8192, 8192, 8192, 8192, 8192, 8192, 8192>>,
     <<11522, 11018, 10033, 8609, 6809, 4712, 2408, 0>>,
     <<11332, 6476, 5793, 1211, -6476, -7752, -10584, -11586>>,
     <<11018, 6810, 0, -6810, -11018, -11018, -6810, 0>>,
     <<10584, 6476, -5793, -11332, -6476, -1211, 7752, 11586>>,
     <<10033, 0, -10033, -10033, 0, 10033, 10033, 0>>,
     <<9373, -3580, -11586, -3580, 9373, 9373, -3580, -11586>>,
     <<8610, -6810, -10033, 4712, 11018, -2409, -11522, 0>> >>
Fdct16 ==
  << <<8192, 8192, 8192, 8192, 8192, 8192, 8192, 8192>>,
     <<11529, 11086, 10217, 8956, 7350, 5461, 3363, 1135>>,
     <<11363, 9633, 6436, 2260, -2260, -6436, -9633, -11363>>,
     <<11086, 7350, 1136, -5461, -10217, -11529, -8956, -3363>>,
     <<10703, 4433, -4433, -10703, -10703, -4433, 4433, 10703>>,
     <<10217, 1136, -8955, -11086, -3363, 7350, 11529, 5461>>,
     <<9633, -2260, -11363, -6437, 6437, 11363, 2260, -9633>>,
     <<8956, -5461, -11086, 1137, 11530, 3363, -10217, -7350>> >>

-----------------------------------------------------------------------------
\* Forward kernels of second passes, whose weights have a part of the scaling
\* to the size of the block folded in.
Scaled3 ==
  << <<14564, 14564>>, <<17837, 0>>, <<10298, -20596>> >>
Scaled5 ==
  << <<10486, 10486, 10486>>, <<14103, 8716, 0>>, <<11997, -4583, -14828>>, <<8716, -14104, 0>>,
     <<4583, -11997, 14828>> >>
Scaled6 ==
  << <<14564, 14564, 14564>>, <<19895, 14564, 5331>>, <<17837, 0, -17837>>,
     <<14564, -14564, -14564>>, <<10298, -20596, 10298>>, <<5331, -14564, 19895>> >>
Scaled7 ==
  << <<10700, 10700, 10700, 10700>>, <<14752, 11831, 6565, 0>>, <<13633, 3367, -9434, -15132>>,
     <<11831, -6565, -14752, 0>>, <<9434, -13633, -3367, 15132>>, <<6565, -14752, 11830, 0>>,
     <<3367, -9434, 13633, -15132>> >>
Scaled9 ==
  << <<12945, 12945, 12945, 12945, 12945>>, <<18030, 15855, 11768, 6262, 0>>,
     <<17203, 9154, -3179, -14024, -18308>>, <<15855, 0, -15855, -15855, 0>>,
     <<14024, -9154, -17203, 3179, 18308>>, <<11768, -15855, -6261, 18029, 0>>,
     <<9154, -18308, 9154, 9154, -18308>>, <<6262, -15855, 18029, -11767, 0>> >>
Scaled10 ==
  << <<10486, 10486, 10486, 10486, 10486>>, <<14647, 13213, 10486, 6732, 2320>>,
     <<14103, 8716, 0, -8716, -14103>>, <<13213, 2320, -10486, -14646, -6733>>,
     <<11997, -4582, -14830, -4582, 11997>>, <<10486, -10486, -10486, 10486, 10486>>,
     <<8716, -14104, 0, 14104, -8716>>, <<6733, -14646, 10486, 2320, -13213>> >>
Scaled11 ==
  << <<8666, 8666, 8666, 8666, 8666, 8666>>, <<12131, 11148, 9262, 6626, 3453, 0>>,
     <<11759, 8026, 1744, -5092, -10310, -12254>>, <<11148, 3452, -6626, -12131, -9262, 0>>,
     <<10310, -1744, -11759, -8026, 5091, 12256>>, <<9262, -6626, -11148, 3453, 12131, 0>>,
     <<8026, -10310, -5091, 11759, 1744, -12256>>, <<6626, -12131, 3453, 9262, -11148, 0>> >>
Scaled12 ==
  << <<7282, 7282, 7282, 7282, 7282, 7282>>, <<10210, 9514, 8170, 6269, 3941, 1344>>,
     <<9947, 7282, 2665, -2665, -7282, -9947>>, <<9514, 3941, -3941, -9514, -9514, -3941>>,
     <<8918, 0, -8918, -8918, 0, 8918>>, <<8170, -3941, -10210, -1344, 9514, 6269>>,
     <<7282, -7282, -7282, 7282, 7282, -7282>>, <<6269, -9514, -1344, 10210, -3941, -8170>> >>
Scaled13 ==
  << <<6205, 6205, 6205, 6205, 6205, 6205, 6205>>, <<8710, 8204, 7221, 5819, 4078, 2100, 0>>,
     <<8520, 6568, 3112, -1058, -4985, -7770, -8774>>,
     <<8204, 4078, -2100, -7221, -8710, -5819, 0>>,
     <<7770, 1058, -6568, -8520, -3112, 4984, 8776>>,
     <<7221, -2100, -8711, -4078, 5819, 8204, 0>>,
     <<6568, -4984, -7770, 3112, 8520, -1058, -8776>>,
     <<5819, -7221, -4078, 8205, 2100, -8711, 0>> >>
Scaled14 ==
  << <<5350, 5350, 5350, 5350, 5350, 5350, 5350>>, <<7518, 7141, 6406, 5350, 4025, 2499, 847>>,
     <<7376, 5915, 3283, 0, -3283, -5915, -7376>>,
     <<7141, 4025, -847, -5350, -7518, -6406, -2499>>,
     <<6817, 1684, -4717, -7568, -4717, 1684, 6817>>,
     <<6406, -847, -7141, -5350, 2499, 7518, 4025>>,
     <<5915, -3283, -7376, 0, 7376, 3283, -5915>>,
     <<5350, -5350, -5350, 5350, 5350, -5350, -5350>> >>
Scaled15 ==
  << <<9321, 9321, 9321, 9321, 9321, 9321, 9321, 9321>>,
     <<13109, 12536, 11415, 9795, 7748, 5361, 2741, 0>>,
     <<12893, 7369, 6591, 1378, -7369, -8820, -12042, -13182>>,
     <<12536, 7748, 0, -7748, -12536, -12536, -7748, 0>>,
     <<12041, 7369, -6590, -12893, -7369, -1378, 8820, 13180>>,
     <<11415, 0, -11415, -11415, 0, 11415, 11415, 0>>,
     <<10664, -4073, -13182, -4073, 10664, 10664, -4073, -13182>>,
     <<9795, -7748, -11415, 5361, 12536, -2741, -13109, 0>> >>
=============================================================================
