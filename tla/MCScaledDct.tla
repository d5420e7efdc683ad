------------------------------ MODULE MCScaledDct ------------------------------
(***************************************************************************)
(* Blocks at the four sizes whose forward transform leaves out a shift:    *)
(* jfdctint.c writes `tmp14 - tmp15` (12 points) and `tmp6` (14 points)    *)
(* next to products that are scaled by 2^CONST_BITS.                       *)
(***************************************************************************)
EXTENDS DctBlock

MCScaledSizes == {<<12, 12>>, <<12, 6>>, <<14, 14>>, <<14, 7>>}
MCScaledLevels == {11, -12}
MCScaledTable == [v \in 1 .. BLOCK |-> [u \in 1 .. BLOCK |-> 10 + v + 2 * u]]
=============================================================================
