--------------------------- MODULE MCCredentialSync ---------------------------
(***************************************************************************)
(* Small instances of CredentialSync.  The tabs are interchangeable.       *)
(***************************************************************************)
EXTENDS CredentialSync, TLC

TabSymmetry == Permutations(Tabs)
==============================================================================
