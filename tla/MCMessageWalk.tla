---------------------------- MODULE MCMessageWalk ----------------------------
(***************************************************************************)
(* The instance of MessageWalk for TLC: two walks over three items, with   *)
(* an id between them that is of no item.                                  *)
(***************************************************************************)
EXTENDS MessageWalk, TLC

CONSTANTS w1, w2

TwoWalks == {w1, w2}
Symmetry == Permutations(TwoWalks)

ThreeItems == {1, 3, 4}
=============================================================================
