------------------------------- MODULE Personhood -------------------------------
(***************************************************************************)
(* A party and the games that its attendees play with the coins that they  *)
(* have mined: PopParty and RoPaSci on the same pages, with the same       *)
(* storage, reloads and coins.                                             *)
(***************************************************************************)
EXTENDS PopParty, RoPaSci, RingSig

\* The group, of about 2^252 elements, has more of them than there are users.
ASSUME GroupAssumption == IsFiniteSet(Users) /\ Cardinality(Users) < q

vars == <<coins, held, inst, rps, stored, reloads, party, scanned, game, forgot>>

Init == UserInit /\ PartyInit /\ GameInit

TypeOK ==
  /\ coins \in [Users -> Nat] /\ held \in [Users -> Nat]
  /\ reloads \in 0 .. MaxReloads
  /\ PartyTypeOK /\ GameTypeOK

\* With the page go the moves that it knew.
ReloadPage(u) ==
  /\ Reload(u)
  /\ forgot' = forgot \cup {g \in Games : CanReveal(u, g) /\ game[g].firstPlayer < 0}
  /\ UNCHANGED <<partyVars, game>>

Next ==
  \/ PartyNext /\ UNCHANGED gameVars
  \/ GameNext /\ UNCHANGED partyVars
  \/ \E u \in Users :
       \/ ReloadPage(u)
       \/ update(u) /\ UNCHANGED <<partyVars, gameVars>>

Spec == Init /\ [][Next]_vars

------------------------------------------------------------------------------

\* A scanned key leaves the list of the organiser only because the organiser removed
\* it, the page was loaded again, the party was finalised, or the keys of the organisers
\* arrived, which had been asked for while the list was empty.
ScannedIsKept ==
  [][\A o \in Organisers : \A key \in inst[o].tmp \ inst'[o].tmp :
       \/ removeAttendee(o, key)
       \/ reloads' # reloads
       \/ inst[o].fetching # "no" /\ inst'[o].fetching = "no" /\ key \notin Organisers
       \/ party.struct.state = FINALIZED /\ inst'[o].struct = NoParty]_vars

\* When the party is finalised, every key in it is that of an organiser or has been
\* scanned by all the organisers, whatever lists they sent before.
FinalListScannedByAll ==
  party.struct.state = FINALIZED =>
    \A o \in Organisers : party.struct.attendees \subseteq Organisers \cup scanned[o]

\* When the party is finalised, each of its attendees can answer polls, whatever their
\* keys are and in whatever order pages and services have them: the answer verifies
\* against the final list, is counted once, and not taken for that of another attendee.
AttendeesCanAnswer ==
  party.struct.state = FINALIZED =>
    Cardinality(party.struct.attendees) \in {0} \cup SizesThatAnswer

\* As long as the first move is not known, somebody has it on a page and can reveal it,
\* unless the page that knew it was loaded again, deleted the game or did not get the
\* answer when it spawned the game; then nobody ever can, and the stakes are lost.
StakesCanBePaid ==
  \A g \in Games : game[g].on /\ game[g].firstPlayer < 0 =>
    (g \notin forgot <=>
       \E u \in Users : CanReveal(u, g) /\ preHash(rps[u][g]) = game[g].hash)
==============================================================================
