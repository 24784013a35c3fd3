---------------------------- MODULE MCRankFusion ----------------------------
(***************************************************************************)
(* Instances of RankFusion for TLC: every pair, or every triple, of short  *)
(* lists.                                                                  *)
(***************************************************************************)
EXTENDS RankFusion, TLC

Symmetry == Permutations(Item)
=============================================================================
