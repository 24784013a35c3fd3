------------------------------ MODULE MCMSearch ------------------------------
(***************************************************************************)
(* Instances of MSearch for TLC.                                           *)
(***************************************************************************)
EXTENDS MSearch
=============================================================================
