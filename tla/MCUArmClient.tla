---------------------------- MODULE MCUArmClient ---------------------------
(* Bounded instances of UArmClient. *)
EXTENDS UArmClient, TLC

CONSTANTS s1, t1, t2, b1, b2

\* Places off the grid of the remote control's steps, and one the user may
\* drag the controls to.
MCPlace ==
    b1 :> [str |-> 101, rot |-> 20, hei |-> -33, hand |-> 0] @@
    b2 :> [str |-> 52, rot |-> -41, hei |-> 9, hand |-> 0]
MCBoxPos == [b \in Boxes |-> MCPlace[b]]

\* A box seen from elsewhere is taken to be where none is, or where b2 is.
MCMistaken ==
    {[str |-> 77, rot |-> 77, hei |-> 5, hand |-> 0]} \cup {MCPlace[b] : b \in Boxes \ {b1}}

(***************************************************************************)
(* Bound of the states explored: either one box is seen, or two, with one  *)
(* request besides and the stream for a camera, as which camera saw them   *)
(* makes no difference to boxes.                                           *)
(***************************************************************************)
OneSeen == located \subseteq {b1}
TwoSeen == sent <= 1 /\ video = "null" /\ starters.new = 0

MCBound == OneSeen \/ TwoSeen

MCSymmetry == Permutations({t1, t2})

MCPoints == {[str |-> 200, rot |-> -10, hei |-> 0, hand |-> 0]}
=============================================================================
