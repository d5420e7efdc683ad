------------------------------- MODULE DctBlock -------------------------------
(***************************************************************************)
(* One block through the transforms: its coefficients are drawn as samples *)
(* (inverse_DCT, called by jdcoefct.c for every block of a picture) and    *)
(* the samples coded again at the same size with the same quantization     *)
(* table (forward_DCT, called by jccoefct.c), as when a frame that was     *)
(* decoded is saved.                                                       *)
(***************************************************************************)
EXTENDS InverseDct, ForwardDct

CONSTANTS BlockScales,   \* widths and heights a block is drawn at
          Levels,        \* the value of the coefficient a block has beside its DC
          DcLevel,       \* the DC coefficient
          QuantTable     \* the quantization table, row by row

VARIABLES block,    \* size and coefficients
          drawn,    \* the samples, once drawn
          coded     \* the coefficients of the samples, once coded

blockVars == <<block, drawn, coded>>
NotYet == <<>>

\* What a size has use for of a block's coefficients.
Used(size) == [u : 1 .. Least(size[1], BLOCK), v : 1 .. Least(size[2], BLOCK)]
Wave(at, level) ==
  [v \in 1 .. BLOCK |-> [u \in 1 .. BLOCK |->
     IF u = at.u /\ v = at.v THEN level ELSE IF u = 1 /\ v = 1 THEN DcLevel ELSE 0]]

BlockInit ==
  /\ \E size \in BlockScales, level \in Levels :
       \E at \in Used(size) : block = [size |-> size, coefs |-> Wave(at, level)]
  /\ drawn = NotYet
  /\ coded = NotYet

inverse_DCT ==
  /\ drawn = NotYet
  /\ LET routine == method_ptr(block.size)
     IN  drawn' = Samples(routine, block.size,
                    Workspace(routine, block.size, Dequantized(block.coefs, QuantTable)))
  /\ UNCHANGED <<block, coded>>

forward_DCT ==
  /\ drawn # NotYet
  /\ coded = NotYet
  /\ LET routine == do_dct(block.size)
     IN  coded' = Quantize(ColumnPass(routine, RowPass(routine, drawn)), QuantTable)
  /\ UNCHANGED <<block, drawn>>

BlockNext == inverse_DCT \/ forward_DCT
BlockSpec == BlockInit /\ [][BlockNext]_blockVars

\* A block that was drawn and coded again with the same table has the
\* coefficients it had, whatever the size it is drawn at: the two transforms of
\* a size undo one another but for rounding, which quantization takes away.
\* Each is written out by hand for its size, with its own weights and shifts.
CoefficientsReturn == coded # NotYet => coded = block.coefs
=============================================================================
