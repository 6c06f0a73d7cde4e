------------------------------ MODULE MCSecrets ------------------------------
(***************************************************************************)
(* Small instances of Secrets.  The pages of the writer are                *)
(* interchangeable.                                                        *)
(***************************************************************************)
EXTENDS Secrets, TLC

Symmetry == Permutations(WriterPages)
==============================================================================
