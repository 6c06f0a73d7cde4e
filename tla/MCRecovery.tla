------------------------------ MODULE MCRecovery ------------------------------
(***************************************************************************)
(* Small instances of Recovery.  The trustees are interchangeable.         *)
(***************************************************************************)
EXTENDS Recovery, TLC

Symmetry == Permutations(Trustees)
===============================================================================
