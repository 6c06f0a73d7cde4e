-------------------------------- MODULE PopParty --------------------------------
(***************************************************************************)
(* A proof-of-personhood party (pop-party-instance.ts, Party.ts, Badge.ts, *)
(* spawnPopParty of spawner-instance.ts, and the lists of parties and      *)
(* badges in Data.ts).                                                     *)
(*                                                                         *)
(* The organisers pass the barrier, scan the keys of who is there, each on *)
(* its own page, and each sends its list.  The party is final when all     *)
(* have sent the same one; then every key in it mines the reward once.     *)
(* What an organiser has scanned is only in the memory of its page.        *)
(***************************************************************************)
EXTENDS UserData

CONSTANTS
  Organisers,
  costDarc, costParty,   \* of the spawner
  Reward,                \* what an attendee mines
  Scannable,             \* bound: the keys that organisers scan and remove
  MaxBadges              \* bound: badges of one page

ASSUME OrganisersAssumption == Organisers \subseteq Users /\ Scannable \subseteq Users
ASSUME PricesAssumption == {costDarc, costParty, Reward, MaxBadges} \subseteq Nat

VARIABLES
  party,     \* the party on the ledger
  scanned    \* scanned[o]: keys, not of organisers, that o scanned on any page

partyVars == <<party, scanned>>
others    == <<reloads, coinVars>>

PartyTypeOK ==
  /\ party.struct \in Struct /\ party.finalizations \subseteq Organisers
  /\ party.miners \subseteq party.struct.attendees
  /\ \A u \in Users :
       /\ inst[u].struct \in Struct /\ inst[u].tmp \subseteq Users
       /\ inst[u].updating \in BOOLEAN /\ inst[u].fetching \in {"no", "update", "list"}
       /\ inst[u].badges \in 0 .. MaxBadges
       /\ stored[u].party \in Struct /\ stored[u].badges \in 0 .. MaxBadges
  /\ scanned \in [Organisers -> SUBSET (Users \ Organisers)]

PartyInit ==
  /\ party = [struct |-> NoParty, finalizations |-> {}, miners |-> {}]
  /\ scanned = [o \in Organisers |-> {}]

HasParty(u) == inst[u].struct # NoParty

Keeps(u, s) == inst' = [inst EXCEPT ![u] = s] /\ UNCHANGED <<rps, stored>>
Saves(u, s) == inst' = [inst EXCEPT ![u] = s] /\ UNCHANGED rps /\ save(u)

------------------------------------------------------------------------------
(* Reading the party. *)

\* The attendees of a party that is not final are left out: nobody reads them, and
\* finalize replaces them, on the page, by what was scanned.
Read(s, p) ==
  [s EXCEPT !.struct.state = p.state,
            !.struct.attendees =
              IF p.state = FINALIZED THEN p.attendees ELSE {}]

\* Bug: each update fetches the keys again.
UpdatedAlways(s, why) ==
  [Read(s, party.struct) EXCEPT !.updating = FALSE, !.tmp = {}, !.fetching = why]

\* PopPartyInstance.update: an empty list is replaced by the keys of the organisers,
\* which must be fetched first.
Updated(s, why) ==
  [Read(s, party.struct) EXCEPT !.updating = FALSE,
     !.fetching = IF party.struct.state = SCANNING /\ s.tmp = {} /\ @ # "list" THEN why ELSE @]

\* Bug: the party becomes a badge once for each organiser.
MovedTwice(s, u) ==
  [NoInst EXCEPT !.badges = IF u \in s.struct.attendees THEN s.badges + Cardinality(Organisers) ELSE s.badges]

\* A finalised party leaves the list, and becomes a badge if the own key is in it.
Moved(s, u) ==
  [NoInst EXCEPT !.badges = IF u \in s.struct.attendees THEN s.badges + 1 ELSE s.badges]

\* The rest of updateParties, when all parties have been updated.
Listed(s, u) == IF s.struct.state = FINALIZED THEN Moved(s, u) ELSE s

MayList(u) == inst[u].badges < MaxBadges

updateParties(u) ==
  LET s == Updated(inst[u], "list") IN
  /\ HasParty(u) /\ MayList(u)
  /\ IF s.fetching = "list" THEN Keeps(u, s) ELSE Saves(u, Listed(s, u))
  /\ UNCHANGED <<partyVars, others>>

\* The read that follows a transaction; when it fails, the caller gets an error.
UpdateAfter(u, ok) ==
  /\ inst[u].updating
  /\ Keeps(u, IF ok THEN Updated(inst[u], "update") ELSE [inst[u] EXCEPT !.updating = FALSE])
  /\ UNCHANGED <<partyVars, others>>

\* Bug: the page takes over the list that another organiser has sent.
FetchedFromParty(s, keys) ==
  [s EXCEPT !.tmp = keys \cup party.struct.attendees, !.fetching = "no"]

\* The keys replace what has been scanned in the meantime.
Fetched(s, keys) == [s EXCEPT !.tmp = keys, !.fetching = "no"]

\* fetchOrgKeys looks for the credential of an organiser under the id of its darc.  Those
\* of createUser and createFirstUser are under the public key: for them the read fails, and
\* only accounts that were made otherwise are found.
fetchOrgKeys(u, ok) ==
  LET s == Fetched(inst[u], Organisers) IN
  /\ inst[u].fetching # "no" /\ MayList(u)
  /\ CASE ~ok -> Keeps(u, [inst[u] EXCEPT !.fetching = "no"])
       [] ok /\ inst[u].fetching = "list" -> Saves(u, Listed(s, u))
       [] OTHER -> Keeps(u, s)
  /\ UNCHANGED <<partyVars, others>>

------------------------------------------------------------------------------
(* New parties. *)

\* spawnPopParty by one of the organisers, and addParty.  When the instance cannot be
\* read back, the party is there but on no page.
spawnPopParty(o, got) ==
  /\ party.struct.state = NONE
  /\ fetch(o, costDarc + costParty)
  /\ party' = [party EXCEPT !.struct.state = PRE_BARRIER]
  /\ IF got THEN Saves(o, Read(inst[o], party'.struct)) ELSE UNCHANGED <<inst, rps, stored>>
  /\ UNCHANGED <<scanned, held, reloads>>

\* reloadParties adds a party that is not in the list; whether there is a badge for it
\* does not matter.
reloadParties(u) ==
  /\ party.struct.state # NONE /\ ~HasParty(u)
  /\ Saves(u, Read(inst[u], party.struct))
  /\ UNCHANGED <<partyVars, others>>

------------------------------------------------------------------------------
(* Scanning, which needs a page that knows that the barrier has been passed. *)

addAttendee(o, key) ==
  /\ inst[o].struct.state = SCANNING
  /\ Keeps(o, [inst[o] EXCEPT !.tmp = @ \cup {key}])
  /\ scanned' = [scanned EXCEPT ![o] = @ \cup ({key} \ Organisers)]
  /\ UNCHANGED <<party, others>>

removeAttendee(o, key) ==
  /\ inst[o].struct.state = SCANNING /\ key \in inst[o].tmp
  /\ Keeps(o, [inst[o] EXCEPT !.tmp = @ \ {key}])
  /\ UNCHANGED <<partyVars, others>>

------------------------------------------------------------------------------
(* Transactions.  The page checks the state that it knows, the ledger its own. *)
(* One that is refused changes nothing but the attendees of the page, see Read; *)
(* when an answer is lost, it is as if the read after it had failed.            *)

activateBarrier(o) ==
  /\ inst[o].struct.state = PRE_BARRIER
  /\ party.struct.state = PRE_BARRIER
  /\ party' = [party EXCEPT !.struct.state = SCANNING]
  /\ Keeps(o, [inst[o] EXCEPT !.updating = TRUE])
  /\ UNCHANGED <<scanned, others>>

\* The scanned keys replace those that the party had.
updateAttendes(s) == s.tmp

\* The ledger takes the list, and counts who has sent that same list; a different one
\* starts the count again.
Finalizes(o, keys) ==
  LET by == (IF keys = party.struct.attendees THEN party.finalizations ELSE {}) \cup {o} IN
  [party EXCEPT !.struct = [state |-> IF by = Organisers THEN FINALIZED ELSE SCANNING,
                            attendees |-> keys],
                !.finalizations = by]

finalize(o) ==
  /\ inst[o].struct.state = SCANNING
  /\ party.struct.state = SCANNING
  /\ party' = Finalizes(o, updateAttendes(inst[o]))
  /\ Keeps(o, [inst[o] EXCEPT !.updating = TRUE])
  /\ UNCHANGED <<scanned, others>>

\* Badge.mine; the tag of the ring signature makes the ledger refuse the second time.
mine(u) ==
  /\ inst[u].badges > 0 /\ u \in party.struct.attendees \ party.miners
  /\ party' = [party EXCEPT !.miners = @ \cup {u}]
  /\ coins' = [coins EXCEPT ![u] = @ + Reward]
  /\ UNCHANGED <<scanned, held, inst, rps, stored, reloads>>

PartyNext ==
  \/ \E u \in Users :
       \/ updateParties(u) \/ reloadParties(u) \/ mine(u)
       \/ \E ok \in BOOLEAN : UpdateAfter(u, ok) \/ fetchOrgKeys(u, ok)
  \/ \E o \in Organisers :
       \/ \E got \in BOOLEAN : spawnPopParty(o, got)
       \/ \E key \in Scannable : addAttendee(o, key) \/ removeAttendee(o, key)
       \/ activateBarrier(o) \/ finalize(o)
==============================================================================
