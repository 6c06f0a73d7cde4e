----------------------------- MODULE MCConnection -----------------------------
(***************************************************************************)
(* A small instance of Connection: two requests to the same two nodes, a   *)
(* request whose message is not registered and one with an empty roster.   *)
(***************************************************************************)
EXTENDS Connection

CONSTANTS getProof, addTx, unregistered, nowhere

MCRequests == {getProof, addTx, unregistered, nowhere}
MCRoster == [r \in MCRequests |-> IF r = nowhere THEN {} ELSE Nodes]
MCRegistered == {getProof, addTx, nowhere}

===============================================================================
