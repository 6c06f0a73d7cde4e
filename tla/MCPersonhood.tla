------------------------------ MODULE MCPersonhood ------------------------------
(***************************************************************************)
(* Two organisers and an attendee; one organiser can pay for the party, and *)
(* nobody for a game before mining.                                        *)
(***************************************************************************)
EXTENDS Personhood, TLC

MCInitially == [u \in Users |-> costDarc + costParty]

Symmetry == Permutations(Organisers)
==============================================================================
