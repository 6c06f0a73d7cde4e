------------------------ MODULE MCClientTransaction ------------------------
(***************************************************************************)
(* A small instance of ClientTransaction: a device key and the key of an   *)
(* administrator, two nodes, and operations as the client builds them      *)
(* (Operations), one for each shape of a transaction with signatures:      *)
(*   transfer   one instruction                                            *)
(*   darcs4     one entry in `signers' for all instructions                *)
(*   firstUser  two signers, one after the other                           *)
(* and a transaction whose entries do not fit its instructions.            *)
(***************************************************************************)
EXTENDS Instances

CONSTANTS device, admin, transfer, darcs4, firstUser, malformed

MCSigners == {device, admin}
MCOps == {transfer, darcs4, firstUser, malformed}

\* The darcs that guard the instances do not matter here.
AnyDarc == <<"darc">>

MCTransactions ==
  [o \in MCOps |->
     CASE o = transfer  -> Op!coinTransfer(AnyDarc, {device})
       [] o = darcs4    -> Op!spawnDarc(AnyDarc, {device}, 4)
       [] o = firstUser -> Op!createFirstUser(AnyDarc, AnyDarc, admin, device)
       [] o = malformed -> Op!Transaction(Op!spawnPopParty(AnyDarc, {device}).instructions,
                                          <<{device}, {device}>>)]

MCInstrs == [o \in MCOps |-> Len(MCTransactions[o].instructions)]
MCSignersArg == [o \in MCOps |-> MCTransactions[o].signers]

\* One operation is tried again: the retry meets its own first try and the
\* transactions of the two others.
MCMaxCalls == [o \in MCOps |-> IF o = transfer THEN 2 ELSE 1]

============================================================================
