----------------------------- MODULE MCDataStore -----------------------------
(***************************************************************************)
(* Small instances of DataStore.  The tabs are interchangeable.            *)
(***************************************************************************)
EXTENDS DataStore, TLC

TabSymmetry == Permutations(Tabs)
==============================================================================
