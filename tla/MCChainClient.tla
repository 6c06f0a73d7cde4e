---------------------------- MODULE MCChainClient ----------------------------
(***************************************************************************)
(* Small instances of ChainClient: two rosters that share a node, and keys *)
(* that part after the first or after the second bit.                      *)
(***************************************************************************)
EXTENDS ChainClient

CONSTANTS a, b, c

MCRosters == {{a, b}, {b, c}}
MCKeys == {<<TRUE, TRUE>>, <<TRUE, FALSE>>, <<FALSE, TRUE>>}
==============================================================================
