--------------------------- MODULE PersonhoodProofs ---------------------------
(***************************************************************************)
(* What holds of Personhood for any users, organisers, prices, stakes and  *)
(* bounds.                                                                 *)
(*                                                                         *)
(* For the party: what a page has scanned is in the history of its         *)
(* organiser, and the list on the ledger was sent by each of those who     *)
(* count as having sent it (Scans), so that the list is covered by the     *)
(* scans of all when all have sent it; nothing is final, or a badge, on a  *)
(* page before it is final on the ledger (FinalFirst).  For the games: a   *)
(* game that is on a page is on the ledger (GamesAreListed), and at most   *)
(* one page knows the first move of a game, and knows it right (Moves).    *)
(*                                                                         *)
(* For the polls: signer and verifier compute the same challenges round    *)
(* the ring, the one at the place of the signer too, where its scalar is   *)
(* chosen for that, so that the verifier comes back to the challenge it    *)
(* began with (RingIsClosed); the order of the group being prime, the tags *)
(* of different keys differ (TagsDiffer).                                  *)
(***************************************************************************)
EXTENDS Personhood, FiniteSetTheorems, SequenceTheorems, WellFoundedInduction, TLAPS

PartyOnLedger == [struct : Struct, finalizations : SUBSET Organisers, miners : SUBSET Users]

PageInst ==
  [struct : Struct, tmp : SUBSET Users, updating : BOOLEAN,
   fetching : {"no", "update", "list"}, badges : 0 .. MaxBadges]

PageGame == [struct : Game \cup {NoGame}, move : (Choices \X Games) \cup {NoMove}]

Storage == [party : Struct, badges : 0 .. MaxBadges, games : [Games -> Game \cup {NoGame}]]

\* TypeOK with the records and functions that the variables are.
Shapes ==
  /\ coins \in [Users -> Nat] /\ held \in [Users -> Nat]
  /\ reloads \in 0 .. MaxReloads
  /\ party \in PartyOnLedger /\ party.miners \subseteq party.struct.attendees
  /\ scanned \in [Organisers -> SUBSET (Users \ Organisers)]
  /\ inst \in [Users -> PageInst]
  /\ rps \in [Users -> [Games -> PageGame]]
  /\ stored \in [Users -> Storage]
  /\ game \in [Games -> Game \cup {NoGame}]
  /\ forgot \subseteq Games

\* What is final or a badge on a page or in a browser is final on the ledger.
FinalFirst ==
  /\ party.struct.state # FINALIZED => party.miners = {}
  /\ \A u \in Users :
       \/ inst[u].badges > 0 \/ inst[u].struct.state = FINALIZED
       \/ stored[u].badges > 0 \/ stored[u].party.state = FINALIZED
       => party.struct.state = FINALIZED

\* What an organiser has on its page, or has sent, it has scanned.
Scans ==
  /\ \A o \in Organisers : inst[o].tmp \subseteq Organisers \cup scanned[o]
  /\ \A o \in party.finalizations : party.struct.attendees \subseteq Organisers \cup scanned[o]
  /\ party.struct.state = FINALIZED => party.finalizations = Organisers

\* A game of a page or of a browser is on the ledger.
GamesAreListed ==
  \A g \in Games : ~ game[g].on =>
    /\ g \notin forgot
    /\ \A u \in Users : ~ rps[u][g].struct.on /\ ~ stored[u].games[g].on

\* One page knows the move of a game, as it was committed to, or nobody does.
Moves ==
  \A g \in Games :
    /\ \A u \in Users : CanReveal(u, g) => preHash(rps[u][g]) = game[g].hash
    /\ \A u, v \in Users : CanReveal(u, g) /\ CanReveal(v, g) => u = v
    /\ g \in forgot => \A u \in Users : ~ CanReveal(u, g)
    /\ game[g].on /\ g \notin forgot =>
         game[g].firstPlayer >= 0 \/ \E u \in Users : CanReveal(u, g)

IInv ==
  /\ Shapes
  /\ FinalFirst
  /\ Scans
  /\ GamesAreListed
  /\ Moves

------------------------------------------------------------------------------
(* A page, and what it stores. *)

\* What save writes for a page, with the games that are on it.
Stored(u, s) ==
  [party |-> s.struct, badges |-> s.badges, games |-> [g \in Games |-> rps[u][g].struct]]

LEMMA StoredIsStorage ==
  ASSUME Shapes, NEW u \in Users, NEW s \in PageInst
  PROVE  /\ Stored(u, s) \in Storage
         /\ Stored(u, s).party = s.struct /\ Stored(u, s).badges = s.badges
         /\ \A g \in Games : Stored(u, s).games[g] = rps[u][g].struct
<1>1. \A g \in Games : rps[u][g] \in PageGame
  BY DEF Shapes
<1>2. \A g \in Games : rps[u][g].struct \in Game \cup {NoGame}
  BY <1>1 DEF PageGame
<1>3. s.struct \in Struct /\ s.badges \in 0 .. MaxBadges
  BY DEF PageInst
<1>4. QED BY <1>2, <1>3 DEF Stored, Storage

\* A step of one page changes that page, and perhaps what its browser stores.
LEMMA OnePageChanges ==
  ASSUME Shapes, NEW u \in Users, NEW s \in PageInst, Keeps(u, s) \/ Saves(u, s)
  PROVE  /\ inst' \in [Users -> PageInst] /\ stored' \in [Users -> Storage] /\ rps' = rps
         /\ \A v \in Users : /\ inst'[v] = IF v = u THEN s ELSE inst[v]
                             /\ (stored'[v] = stored[v] \/ (v = u /\ stored'[v] = Stored(u, s)))
<1>1. inst' = [inst EXCEPT ![u] = s] /\ rps' = rps
  BY DEF Keeps, Saves
<1>2. inst' \in [Users -> PageInst] /\ \A v \in Users : inst'[v] = IF v = u THEN s ELSE inst[v]
  BY <1>1 DEF Shapes
<1>3. CASE Keeps(u, s)
  BY <1>1, <1>2, <1>3 DEF Keeps, Shapes
<1>4. CASE Saves(u, s)
  <2>1. stored' = [stored EXCEPT ![u] = Stored(u, s)]
    <3>1. inst'[u] = s
      BY <1>2
    <3>2. stored' = [stored EXCEPT ![u] = [party |-> inst'[u].struct, badges |-> inst'[u].badges,
                                          games |-> [g \in Games |-> rps'[u][g].struct]]]
      BY <1>4 DEF Saves, save
    <3>3. QED BY <1>1, <3>1, <3>2 DEF Stored
  <2>2. Stored(u, s) \in Storage
    BY StoredIsStorage
  <2>3. QED BY <1>1, <1>2, <2>1, <2>2 DEF Shapes
<1>5. QED BY <1>3, <1>4

\* What a step of a party may do to the party on the ledger.
PartyStep ==
  /\ party' \in PartyOnLedger
  /\ party'.miners \subseteq party'.struct.attendees
  /\ party'.struct.state # FINALIZED => party'.miners = {}
  /\ party.struct.state = FINALIZED => party'.struct.state = FINALIZED
  /\ scanned' \in [Organisers -> SUBSET (Users \ Organisers)]
  /\ \A o \in Organisers : scanned[o] \subseteq scanned'[o]
  /\ \A o \in party'.finalizations : party'.struct.attendees \subseteq Organisers \cup scanned'[o]
  /\ party'.struct.state = FINALIZED => party'.finalizations = Organisers

\* The party as it was is one that a step may leave.
LEMMA SameParty == IInv /\ UNCHANGED partyVars => PartyStep
BY DEF IInv, Shapes, FinalFirst, Scans, PartyStep, partyVars

\* A step of a party on one page.
LEMMA PageOfPartyKeeps ==
  ASSUME IInv, PartyStep, NEW u \in Users, NEW s \in PageInst, Keeps(u, s) \/ Saves(u, s),
         s.badges > 0 \/ s.struct.state = FINALIZED => party'.struct.state = FINALIZED,
         u \in Organisers => s.tmp \subseteq Organisers \cup scanned'[u],
         coins' \in [Users -> Nat],
         UNCHANGED <<held, reloads, game, forgot>>
  PROVE  IInv'
<1>1. /\ inst' \in [Users -> PageInst] /\ stored' \in [Users -> Storage] /\ rps' = rps
      /\ \A v \in Users : /\ inst'[v] = IF v = u THEN s ELSE inst[v]
                          /\ (stored'[v] = stored[v] \/ (v = u /\ stored'[v] = Stored(u, s)))
  BY OnePageChanges DEF IInv
<1>2. /\ Stored(u, s).party = s.struct /\ Stored(u, s).badges = s.badges
      /\ \A g \in Games : Stored(u, s).games[g] = rps[u][g].struct
  BY StoredIsStorage DEF IInv
<1>3. Shapes'
  BY <1>1 DEF IInv, Shapes, PartyStep
<1>4. FinalFirst'
  <2>1. ASSUME NEW v \in Users,
               \/ inst'[v].badges > 0 \/ inst'[v].struct.state = FINALIZED
               \/ stored'[v].badges > 0 \/ stored'[v].party.state = FINALIZED
        PROVE  party'.struct.state = FINALIZED
    <3>1. CASE stored'[v] = stored[v] /\ v # u
      BY <1>1, <2>1, <3>1 DEF IInv, FinalFirst, PartyStep
    <3>2. CASE stored'[v] = stored[v] /\ v = u
      BY <1>1, <2>1, <3>2 DEF IInv, FinalFirst, PartyStep
    <3>3. CASE v = u /\ stored'[v] = Stored(u, s)
      BY <1>1, <1>2, <2>1, <3>3
    <3>4. QED BY <1>1, <3>1, <3>2, <3>3
  <2>2. QED BY <2>1 DEF FinalFirst, PartyStep
<1>5. Scans'
  <2>1. ASSUME NEW o \in Organisers
        PROVE  inst'[o].tmp \subseteq Organisers \cup scanned'[o]
    <3>1. o \in Users
      BY OrganisersAssumption
    <3>2. CASE o = u
      BY <1>1, <3>1, <3>2
    <3>3. CASE o # u
      <4>1. inst'[o] = inst[o]
        BY <1>1, <3>1, <3>3
      <4>2. QED BY <4>1 DEF IInv, Scans, PartyStep
    <3>4. QED BY <3>2, <3>3
  <2>2. QED BY <2>1 DEF Scans, PartyStep
<1>6. GamesAreListed'
  <2>1. ASSUME NEW g \in Games, ~ game[g].on
        PROVE  g \notin forgot /\ \A v \in Users : ~ rps[v][g].struct.on /\ ~ stored'[v].games[g].on
    <3>1. g \notin forgot /\ \A v \in Users : ~ rps[v][g].struct.on /\ ~ stored[v].games[g].on
      BY <2>1 DEF IInv, GamesAreListed
    <3>2. QED BY <1>1, <1>2, <3>1
  <2>2. QED BY <1>1, <2>1 DEF GamesAreListed
<1>7. Moves'
  BY <1>1 DEF IInv, Moves, CanReveal, preHash
<1>8. QED BY <1>3, <1>4, <1>5, <1>6, <1>7 DEF IInv

\* A step that touches no page.
LEMMA PagesAsTheyWere ==
  ASSUME IInv, PartyStep, coins' \in [Users -> Nat], held' \in [Users -> Nat],
         UNCHANGED <<inst, rps, stored, reloads, game, forgot>>
  PROVE  IInv'
<1>1. Shapes'
  BY DEF IInv, Shapes, PartyStep
<1>2. FinalFirst'
  BY DEF IInv, FinalFirst, PartyStep
<1>3. Scans'
  BY DEF IInv, Scans, PartyStep
<1>4. GamesAreListed' /\ Moves'
  BY DEF IInv, GamesAreListed, Moves, CanReveal, preHash
<1>5. QED BY <1>1, <1>2, <1>3, <1>4 DEF IInv

------------------------------------------------------------------------------
(* What the party of a page becomes. *)

LEMMA ReadKeeps ==
  ASSUME NEW s \in PageInst, NEW p \in Struct
  PROVE  /\ Read(s, p) \in PageInst
         /\ Read(s, p).struct.state = p.state
         /\ Read(s, p).tmp = s.tmp /\ Read(s, p).badges = s.badges
         /\ Read(s, p).fetching = s.fetching
<1> DEFINE new == [state |-> p.state, attendees |-> IF p.state = FINALIZED THEN p.attendees ELSE {}]
<1>1. new \in Struct
  BY DEF Struct
<1>2. Read(s, p) = [s EXCEPT !.struct = new]
  <2> DEFINE keys == IF p.state = FINALIZED THEN p.attendees ELSE {}
             one == [s EXCEPT !.struct.state = p.state]
  <2>1. Read(s, p) = [one EXCEPT !.struct.attendees = keys]
    BY DEF Read, PageInst
  <2>2. one = [s EXCEPT !.struct = [s.struct EXCEPT !.state = p.state]]
    OBVIOUS
  <2>3. [s.struct EXCEPT !.state = p.state] = [state |-> p.state, attendees |-> s.struct.attendees]
    BY DEF PageInst, Struct
  <2>4. new = [state |-> p.state, attendees |-> keys]
    OBVIOUS
  <2> HIDE DEF keys, new
  <2>5. QED BY <2>1, <2>2, <2>3, <2>4 DEF PageInst, Struct
<1>3. new.state = p.state
  OBVIOUS
<1> HIDE DEF new
<1>4. QED BY <1>1, <1>2, <1>3 DEF PageInst

LEMMA UpdatedKeeps ==
  ASSUME IInv, NEW s \in PageInst, NEW why \in {"update", "list"}
  PROVE  /\ Updated(s, why) \in PageInst
         /\ Updated(s, why).struct.state = party.struct.state
         /\ Updated(s, why).tmp = s.tmp /\ Updated(s, why).badges = s.badges
<1> DEFINE r == Read(s, party.struct)
           f == IF party.struct.state = SCANNING /\ s.tmp = {} /\ r.fetching # "list" THEN why ELSE r.fetching
<1>1. party.struct \in Struct
  BY DEF IInv, Shapes, PartyOnLedger
<1>2. r \in PageInst /\ r.struct.state = party.struct.state /\ r.tmp = s.tmp /\ r.badges = s.badges
  BY <1>1, ReadKeeps
<1>3. Updated(s, why) = [r EXCEPT !.updating = FALSE, !.fetching = f]
  BY <1>2 DEF Updated, PageInst
<1>4. f \in {"no", "update", "list"}
  BY <1>2 DEF PageInst
<1> HIDE DEF r, f
<1>5. QED BY <1>2, <1>3, <1>4 DEF PageInst

\* A badge is made of a final party, which then leaves the page.
LEMMA ListedKeeps ==
  ASSUME NEW u \in Users, NEW s \in PageInst, s.badges < MaxBadges
  PROVE  /\ Listed(s, u) \in PageInst
         /\ Listed(s, u).tmp \subseteq s.tmp
         /\ Listed(s, u).badges > 0 \/ Listed(s, u).struct.state = FINALIZED
              => s.badges > 0 \/ s.struct.state = FINALIZED
<1>1. CASE s.struct.state = FINALIZED
  <2> DEFINE n == IF u \in s.struct.attendees THEN s.badges + 1 ELSE s.badges
  <2>1. n \in 0 .. MaxBadges
    BY PricesAssumption DEF PageInst
  <2>2. Listed(s, u) = [NoInst EXCEPT !.badges = n]
    BY <1>1 DEF Listed, Moved
  <2>3. NoInst \in PageInst /\ NoInst.tmp = {}
    BY PricesAssumption DEF NoInst, NoParty, PageInst, Struct, NONE, FINALIZED
  <2> HIDE DEF n
  <2>4. QED BY <1>1, <2>1, <2>2, <2>3 DEF PageInst
<1>2. CASE s.struct.state # FINALIZED
  BY <1>2 DEF Listed
<1>3. QED BY <1>1, <1>2

\* What holds of the party of a page before a step.
LEMMA PageFacts ==
  ASSUME IInv, NEW u \in Users
  PROVE  /\ inst[u] \in PageInst
         /\ inst[u].badges > 0 \/ inst[u].struct.state = FINALIZED => party.struct.state = FINALIZED
         /\ u \in Organisers => inst[u].tmp \subseteq Organisers \cup scanned[u]
         /\ coins \in [Users -> Nat] /\ held \in [Users -> Nat]
         /\ party \in PartyOnLedger /\ party.struct \in Struct
<1>1. inst[u] \in PageInst /\ party \in PartyOnLedger /\ party.struct \in Struct
  BY DEF IInv, Shapes, PartyOnLedger
<1>2. coins \in [Users -> Nat] /\ held \in [Users -> Nat]
  BY DEF IInv, Shapes
<1>3. inst[u].badges > 0 \/ inst[u].struct.state = FINALIZED => party.struct.state = FINALIZED
  BY DEF IInv, FinalFirst
<1>4. u \in Organisers => inst[u].tmp \subseteq Organisers \cup scanned[u]
  BY DEF IInv, Scans
<1>5. QED BY <1>1, <1>2, <1>3, <1>4

\* A step of a page that leaves the ledger alone.
LEMMA ReadingKeeps ==
  ASSUME IInv, NEW u \in Users, NEW s \in PageInst, Keeps(u, s) \/ Saves(u, s),
         s.badges > 0 \/ s.struct.state = FINALIZED => party.struct.state = FINALIZED,
         u \in Organisers => s.tmp \subseteq Organisers \cup scanned[u],
         UNCHANGED <<partyVars, others, game, forgot>>
  PROVE  IInv'
<1>1. party' = party /\ scanned' = scanned
  BY DEF partyVars
<1>2. coins' = coins /\ held' = held /\ reloads' = reloads /\ game' = game /\ forgot' = forgot
  BY DEF others, coinVars
<1>3. PartyStep
  BY SameParty
<1>4. coins' \in [Users -> Nat]
  BY <1>2 DEF IInv, Shapes
<1>5. s.badges > 0 \/ s.struct.state = FINALIZED => party'.struct.state = FINALIZED
  BY <1>1
<1>6. u \in Organisers => s.tmp \subseteq Organisers \cup scanned'[u]
  BY <1>1
<1>7. QED BY <1>2, <1>3, <1>4, <1>5, <1>6, PageOfPartyKeeps

LEMMA UpdatePartiesKeeps ==
  ASSUME IInv, NEW u \in Users, updateParties(u), UNCHANGED gameVars
  PROVE  IInv'
<1> DEFINE s == Updated(inst[u], "list")
           l == IF s.fetching = "list" THEN s ELSE Listed(s, u)
<1>1. s \in PageInst /\ s.struct.state = party.struct.state
      /\ s.tmp = inst[u].tmp /\ s.badges = inst[u].badges
  BY PageFacts, UpdatedKeeps
<1>2. s.badges < MaxBadges
  BY <1>1 DEF updateParties, MayList
<1>3. Keeps(u, l) \/ Saves(u, l)
  BY DEF updateParties
<1>4. UNCHANGED <<partyVars, others, game, forgot>>
  BY DEF updateParties, gameVars
<1> HIDE DEF s
<1>5. l \in PageInst /\ l.tmp \subseteq s.tmp
      /\ (l.badges > 0 \/ l.struct.state = FINALIZED => s.badges > 0 \/ s.struct.state = FINALIZED)
  BY <1>1, <1>2, ListedKeeps
<1> HIDE DEF l
<1>6. l.badges > 0 \/ l.struct.state = FINALIZED => party.struct.state = FINALIZED
  BY <1>1, <1>5, PageFacts
<1>7. u \in Organisers => l.tmp \subseteq Organisers \cup scanned[u]
  BY <1>1, <1>5, PageFacts
<1>8. QED BY <1>3, <1>4, <1>5, <1>6, <1>7, ReadingKeeps

LEMMA UpdateAfterKeeps ==
  ASSUME IInv, NEW u \in Users, NEW ok \in BOOLEAN, UpdateAfter(u, ok), UNCHANGED gameVars
  PROVE  IInv'
<1> DEFINE s == Updated(inst[u], "update")
           f == [inst[u] EXCEPT !.updating = FALSE]
           n == IF ok THEN s ELSE f
<1>1. s \in PageInst /\ s.struct.state = party.struct.state
      /\ s.tmp = inst[u].tmp /\ s.badges = inst[u].badges
  BY PageFacts, UpdatedKeeps
<1>2. f \in PageInst /\ f.struct = inst[u].struct /\ f.tmp = inst[u].tmp /\ f.badges = inst[u].badges
  <2>1. inst[u] \in PageInst
    BY PageFacts
  <2>2. QED BY <2>1 DEF PageInst
<1>3. Keeps(u, n)
  BY DEF UpdateAfter
<1>4. UNCHANGED <<partyVars, others, game, forgot>>
  BY DEF UpdateAfter, gameVars
<1> HIDE DEF s, f
<1>5. n \in PageInst /\ (u \in Organisers => n.tmp \subseteq Organisers \cup scanned[u])
      /\ (n.badges > 0 \/ n.struct.state = FINALIZED => party.struct.state = FINALIZED)
  BY <1>1, <1>2, PageFacts
<1> HIDE DEF n
<1>6. QED BY <1>3, <1>4, <1>5, ReadingKeeps

LEMMA FetchOrgKeysKeeps ==
  ASSUME IInv, NEW u \in Users, NEW ok \in BOOLEAN, fetchOrgKeys(u, ok), UNCHANGED gameVars
  PROVE  IInv'
<1> DEFINE s == Fetched(inst[u], Organisers)
           f == [inst[u] EXCEPT !.fetching = "no"]
           l == Listed(s, u)
<1>1. UNCHANGED <<partyVars, others, game, forgot>>
  BY DEF fetchOrgKeys, gameVars
<1>2. \E n \in {s, f, l} : Keeps(u, n) \/ Saves(u, n)
  BY DEF fetchOrgKeys
<1>3. inst[u].badges < MaxBadges
  BY DEF fetchOrgKeys, MayList
<1>4. s \in PageInst /\ s.struct = inst[u].struct /\ s.tmp = Organisers /\ s.badges = inst[u].badges
  <2>1. inst[u] \in PageInst
    BY PageFacts
  <2>2. QED BY <2>1, OrganisersAssumption DEF Fetched, PageInst
<1>5. f \in PageInst /\ f.struct = inst[u].struct /\ f.tmp = inst[u].tmp /\ f.badges = inst[u].badges
  BY PageFacts DEF PageInst
<1> HIDE DEF s, f
<1>6. l \in PageInst /\ l.tmp \subseteq s.tmp
      /\ (l.badges > 0 \/ l.struct.state = FINALIZED => s.badges > 0 \/ s.struct.state = FINALIZED)
  BY <1>3, <1>4, ListedKeeps
<1> HIDE DEF l
<1>7. ASSUME NEW n \in {s, f, l}
      PROVE  n \in PageInst /\ (u \in Organisers => n.tmp \subseteq Organisers \cup scanned[u])
             /\ (n.badges > 0 \/ n.struct.state = FINALIZED => party.struct.state = FINALIZED)
  BY <1>4, <1>5, <1>6, PageFacts
<1>8. QED BY <1>1, <1>2, <1>7, ReadingKeeps

LEMMA ReloadPartiesKeeps ==
  ASSUME IInv, NEW u \in Users, reloadParties(u), UNCHANGED gameVars
  PROVE  IInv'
<1> DEFINE s == Read(inst[u], party.struct)
<1>1. s \in PageInst /\ s.struct.state = party.struct.state
      /\ s.tmp = inst[u].tmp /\ s.badges = inst[u].badges
  BY PageFacts, ReadKeeps
<1>2. Saves(u, s)
  BY DEF reloadParties
<1>3. UNCHANGED <<partyVars, others, game, forgot>>
  BY DEF reloadParties, gameVars
<1> HIDE DEF s
<1>4. QED BY <1>1, <1>2, <1>3, PageFacts, ReadingKeeps

LEMMA RemoveAttendeeKeeps ==
  ASSUME IInv, NEW o \in Organisers, NEW key \in Scannable, removeAttendee(o, key), UNCHANGED gameVars
  PROVE  IInv'
<1> DEFINE s == [inst[o] EXCEPT !.tmp = @ \ {key}]
<1>1. o \in Users
  BY OrganisersAssumption
<1>2. s \in PageInst /\ s.struct = inst[o].struct
      /\ s.tmp \subseteq inst[o].tmp /\ s.badges = inst[o].badges
  BY <1>1, PageFacts DEF PageInst
<1>3. Keeps(o, s)
  BY DEF removeAttendee
<1>4. UNCHANGED <<partyVars, others, game, forgot>>
  BY DEF removeAttendee, gameVars
<1> HIDE DEF s
<1>5. QED BY <1>1, <1>2, <1>3, <1>4, PageFacts, ReadingKeeps

LEMMA AddAttendeeKeeps ==
  ASSUME IInv, NEW o \in Organisers, NEW key \in Scannable, addAttendee(o, key), UNCHANGED gameVars
  PROVE  IInv'
<1> DEFINE s == [inst[o] EXCEPT !.tmp = @ \cup {key}]
           more == {key} \ Organisers
<1>1. o \in Users /\ key \in Users
  BY OrganisersAssumption
<1>2. s \in PageInst /\ s.struct = inst[o].struct
      /\ s.tmp = inst[o].tmp \cup {key} /\ s.badges = inst[o].badges
  <2>1. inst[o] \in PageInst
    BY <1>1, PageFacts
  <2>2. QED BY <1>1, <2>1 DEF PageInst
<1>3. Keeps(o, s) /\ scanned' = [scanned EXCEPT ![o] = @ \cup more] /\ party' = party
  BY DEF addAttendee
<1>4. UNCHANGED <<others, game, forgot>>
  BY DEF addAttendee, gameVars
<1>5. coins' \in [Users -> Nat] /\ UNCHANGED <<held, reloads, game, forgot>>
  BY <1>4 DEF IInv, Shapes, others, coinVars
<1>6. /\ scanned' \in [Organisers -> SUBSET (Users \ Organisers)]
      /\ \A p \in Organisers : scanned[p] \subseteq scanned'[p]
      /\ {key} \subseteq Organisers \cup scanned'[o]
  <2>1. scanned \in [Organisers -> SUBSET (Users \ Organisers)]
    BY DEF IInv, Shapes
  <2>2. more \subseteq Users \ Organisers
    BY <1>1
  <2> HIDE DEF more
  <2>3. \A p \in Organisers : scanned'[p] = IF p = o THEN scanned[o] \cup more ELSE scanned[p]
    BY <1>3, <2>1
  <2>4. scanned' \in [Organisers -> SUBSET (Users \ Organisers)]
    BY <1>3, <2>1, <2>2
  <2>5. {key} \subseteq Organisers \cup more
    BY DEF more
  <2>6. QED BY <2>3, <2>4, <2>5
<1>7. PartyStep
  BY <1>3, <1>6 DEF IInv, Shapes, FinalFirst, Scans, PartyStep
<1> HIDE DEF s, more
<1>8. /\ s.badges > 0 \/ s.struct.state = FINALIZED => party'.struct.state = FINALIZED
      /\ s.tmp \subseteq Organisers \cup scanned'[o]
  BY <1>1, <1>2, <1>3, <1>6, PageFacts
<1>9. QED BY <1>1, <1>2, <1>3, <1>5, <1>7, <1>8, PageOfPartyKeeps

\* The ledger takes no more coins than there are.
LEMMA FetchKeeps ==
  ASSUME coins \in [Users -> Nat], NEW u \in Users, NEW n \in Nat, fetch(u, n)
  PROVE  coins' \in [Users -> Nat]
<1>1. coins[u] \in Nat /\ coins[u] >= n /\ coins' = [coins EXCEPT ![u] = coins[u] - n]
  BY DEF fetch
<1>2. coins[u] - n \in Nat
  BY <1>1
<1>3. QED BY <1>1, <1>2

\* A party that is not final goes on to another state that is not final.
LEMMA StateStep ==
  ASSUME IInv, NEW st \in {PRE_BARRIER, SCANNING}, party.struct.state # FINALIZED,
         party' = [party EXCEPT !.struct.state = st], scanned' = scanned
  PROVE  PartyStep /\ party'.struct.state = st /\ party'.struct \in Struct
<1> DEFINE new == [party.struct EXCEPT !.state = st]
<1>1. party \in PartyOnLedger /\ party.struct \in Struct
  BY DEF IInv, Shapes, PartyOnLedger
<1>2. party' = [party EXCEPT !.struct = new]
  BY <1>1 DEF PartyOnLedger
<1>3. new \in Struct /\ new.state = st /\ new.attendees = party.struct.attendees /\ st # FINALIZED
  BY <1>1 DEF Struct, PRE_BARRIER, SCANNING, FINALIZED, NONE
<1> HIDE DEF new
<1>4. party' \in PartyOnLedger /\ party'.struct = new
      /\ party'.finalizations = party.finalizations /\ party'.miners = party.miners
  BY <1>1, <1>2, <1>3 DEF PartyOnLedger
<1>5. QED BY <1>1, <1>3, <1>4 DEF IInv, Shapes, FinalFirst, Scans, PartyStep

LEMMA SpawnPopPartyKeeps ==
  ASSUME IInv, NEW o \in Organisers, NEW got \in BOOLEAN, spawnPopParty(o, got), UNCHANGED gameVars
  PROVE  IInv'
<1> DEFINE s == Read(inst[o], party'.struct)
<1>1. /\ party.struct.state = NONE
      /\ fetch(o, costDarc + costParty)
      /\ party' = [party EXCEPT !.struct.state = PRE_BARRIER]
      /\ Saves(o, s) \/ UNCHANGED <<inst, rps, stored>>
      /\ UNCHANGED <<scanned, held, reloads, game, forgot>>
  BY DEF spawnPopParty, gameVars
<1>2. o \in Users /\ costDarc + costParty \in Nat
  BY OrganisersAssumption, PricesAssumption
<1>3. coins' \in [Users -> Nat] /\ held' \in [Users -> Nat]
  BY <1>1, <1>2, PageFacts, FetchKeeps
<1>4. PartyStep /\ party'.struct.state = PRE_BARRIER /\ party'.struct \in Struct
  BY <1>1, StateStep DEF NONE, FINALIZED
<1>5. s \in PageInst /\ s.struct.state = PRE_BARRIER
      /\ s.tmp = inst[o].tmp /\ s.badges = inst[o].badges
  BY <1>2, <1>4, PageFacts, ReadKeeps
<1> HIDE DEF s
<1>6. ~ (s.badges > 0 \/ s.struct.state = FINALIZED)
  BY <1>1, <1>2, <1>5, PageFacts DEF PageInst, NONE, PRE_BARRIER, FINALIZED
<1>7. s.tmp \subseteq Organisers \cup scanned'[o]
  BY <1>1, <1>2, <1>5, PageFacts
<1>8. CASE Saves(o, s)
  BY <1>1, <1>2, <1>3, <1>4, <1>5, <1>6, <1>7, <1>8, PageOfPartyKeeps
<1>9. CASE UNCHANGED <<inst, rps, stored>>
  BY <1>1, <1>3, <1>4, <1>9, PagesAsTheyWere
<1>10. QED BY <1>1, <1>8, <1>9

\* The page that waits for its update is as it was otherwise.
LEMMA WaitsKeeps ==
  ASSUME IInv, PartyStep, NEW o \in Organisers, inst[o].struct.state # FINALIZED,
         Keeps(o, [inst[o] EXCEPT !.updating = TRUE]), UNCHANGED <<others, game, forgot>>
  PROVE  IInv'
<1> DEFINE s == [inst[o] EXCEPT !.updating = TRUE]
<1>1. o \in Users /\ inst[o] \in PageInst
  BY OrganisersAssumption, PageFacts
<1>2. s \in PageInst /\ s.struct = inst[o].struct /\ s.tmp = inst[o].tmp /\ s.badges = inst[o].badges
  BY <1>1 DEF PageInst
<1>3. Keeps(o, s)
  OBVIOUS
<1> HIDE DEF s
<1>4. coins' \in [Users -> Nat] /\ UNCHANGED <<held, reloads, game, forgot>>
  BY DEF IInv, Shapes, others, coinVars
<1>5. s.badges > 0 \/ s.struct.state = FINALIZED => party'.struct.state = FINALIZED
  BY <1>1, <1>2, PageFacts DEF PartyStep
<1>6. s.tmp \subseteq Organisers \cup scanned'[o]
  BY <1>1, <1>2, PageFacts DEF PartyStep
<1>7. QED BY <1>1, <1>2, <1>3, <1>4, <1>5, <1>6, PageOfPartyKeeps

LEMMA ActivateBarrierKeeps ==
  ASSUME IInv, NEW o \in Organisers, activateBarrier(o), UNCHANGED gameVars
  PROVE  IInv'
<1>1. /\ inst[o].struct.state # FINALIZED /\ party.struct.state # FINALIZED
      /\ party' = [party EXCEPT !.struct.state = SCANNING] /\ scanned' = scanned
      /\ Keeps(o, [inst[o] EXCEPT !.updating = TRUE]) /\ UNCHANGED <<others, game, forgot>>
  BY DEF activateBarrier, gameVars, PRE_BARRIER, FINALIZED
<1>2. PartyStep
  BY <1>1, StateStep
<1>3. QED BY <1>1, <1>2, WaitsKeeps

\* Those who count as having sent the list have all scanned it: the list of the last one
\* is the list of the others, or their count is void.
LEMMA FinalizeKeeps ==
  ASSUME IInv, NEW o \in Organisers, finalize(o), UNCHANGED gameVars
  PROVE  IInv'
<1> DEFINE keys == inst[o].tmp
           by == (IF keys = party.struct.attendees THEN party.finalizations ELSE {}) \cup {o}
           new == [state |-> IF by = Organisers THEN FINALIZED ELSE SCANNING, attendees |-> keys]
<1>1. /\ inst[o].struct.state = SCANNING /\ party.struct.state = SCANNING
      /\ party' = [party EXCEPT !.struct = new, !.finalizations = by] /\ scanned' = scanned
      /\ Keeps(o, [inst[o] EXCEPT !.updating = TRUE]) /\ UNCHANGED <<others, game, forgot>>
  BY DEF finalize, gameVars, Finalizes, updateAttendes
<1>2. o \in Users /\ party \in PartyOnLedger /\ inst[o] \in PageInst
      /\ keys \subseteq Organisers \cup scanned[o]
  BY OrganisersAssumption, PageFacts
<1>3. keys \subseteq Users
  BY <1>2 DEF PageInst
<1>4. party.miners = {}
  BY <1>1 DEF IInv, FinalFirst, SCANNING, FINALIZED
<1>5. by \subseteq Organisers /\ \A p \in by : keys \subseteq Organisers \cup scanned[p]
  BY <1>2 DEF PartyOnLedger, IInv, Scans
<1> HIDE DEF keys, by
<1>6. new \in Struct /\ new.attendees = keys /\ (new.state = FINALIZED => by = Organisers)
  BY <1>3 DEF Struct, NONE, SCANNING, FINALIZED
<1> HIDE DEF new
<1>7. party' \in PartyOnLedger /\ party'.struct = new
      /\ party'.finalizations = by /\ party'.miners = party.miners
  BY <1>1, <1>2, <1>5, <1>6 DEF PartyOnLedger
<1>8. PartyStep
  BY <1>1, <1>4, <1>5, <1>6, <1>7 DEF IInv, Shapes, PartyStep, SCANNING, FINALIZED
<1>9. inst[o].struct.state # FINALIZED
  BY <1>1 DEF SCANNING, FINALIZED
<1>10. QED BY <1>1, <1>8, <1>9, WaitsKeeps

LEMMA MineKeeps ==
  ASSUME IInv, NEW u \in Users, mine(u), UNCHANGED gameVars
  PROVE  IInv'
<1>1. /\ inst[u].badges > 0 /\ u \in party.struct.attendees
      /\ party' = [party EXCEPT !.miners = party.miners \cup {u}] /\ scanned' = scanned
      /\ coins' = [coins EXCEPT ![u] = coins[u] + Reward]
      /\ UNCHANGED <<inst, rps, stored, held, reloads, game, forgot>>
  BY DEF mine, gameVars
<1>2. party \in PartyOnLedger /\ party.struct.state = FINALIZED
  BY <1>1, PageFacts
<1>3. party' \in PartyOnLedger /\ party'.struct = party.struct
      /\ party'.finalizations = party.finalizations /\ party'.miners = party.miners \cup {u}
  BY <1>1, <1>2 DEF PartyOnLedger
<1>4. PartyStep
  BY <1>1, <1>2, <1>3 DEF IInv, Shapes, FinalFirst, Scans, PartyStep
<1>5. coins' \in [Users -> Nat] /\ held' \in [Users -> Nat]
  BY <1>1, PageFacts, PricesAssumption
<1>6. QED BY <1>1, <1>4, <1>5, PagesAsTheyWere

LEMMA PartyNextKeeps == IInv /\ PartyNext /\ UNCHANGED gameVars => IInv'
BY UpdatePartiesKeeps, ReloadPartiesKeeps, MineKeeps, UpdateAfterKeeps, FetchOrgKeysKeeps,
   SpawnPopPartyKeeps, AddAttendeeKeeps, RemoveAttendeeKeeps, ActivateBarrierKeeps, FinalizeKeeps
   DEF PartyNext

------------------------------------------------------------------------------
(* What a step may do to the games of a page and to those on the ledger. *)

Reveals(row, g) == row[g].struct.on /\ row[g].move # NoMove

\* The games of the page of u become `row'.
GameStep(u, row) ==
  /\ row \in [Games -> PageGame] /\ rps' = [rps EXCEPT ![u] = row]
  /\ game' \in [Games -> Game \cup {NoGame}]
  /\ forgot \subseteq forgot' /\ forgot' \subseteq Games
  /\ \A g \in Games :
       /\ game[g].on => /\ game'[g].on /\ game'[g].hash = game[g].hash
                        /\ game[g].firstPlayer >= 0 => game'[g].firstPlayer >= 0
       /\ row[g].struct.on => game'[g].on
       /\ Reveals(row, g) => /\ preHash(row[g]) = game'[g].hash /\ g \notin forgot'
                             /\ CanReveal(u, g) \/ ~ game[g].on
       /\ g \in forgot' \ forgot => game'[g].on /\ (CanReveal(u, g) \/ ~ game[g].on)
       /\ game'[g].on /\ g \notin forgot' =>
            \/ game'[g].firstPlayer >= 0 \/ Reveals(row, g)
            \/ game[g].on /\ ~ CanReveal(u, g)

LEMMA PageOfGamesChanges ==
  ASSUME IInv, NEW u \in Users, NEW row, GameStep(u, row)
  PROVE  /\ rps' \in [Users -> [Games -> PageGame]]
         /\ \A v \in Users : rps'[v] = IF v = u THEN row ELSE rps[v]
<1>1. rps \in [Users -> [Games -> PageGame]]
  BY DEF IInv, Shapes
<1>2. row \in [Games -> PageGame] /\ rps' = [rps EXCEPT ![u] = row]
  BY DEF GameStep
<1>3. QED BY <1>1, <1>2

LEMMA MovesKeep ==
  ASSUME IInv, NEW u \in Users, NEW row, GameStep(u, row)
  PROVE  Moves'
<1>1. \A v \in Users : rps'[v] = IF v = u THEN row ELSE rps[v]
  BY PageOfGamesChanges
<1>2. SUFFICES ASSUME NEW g \in Games
      PROVE  /\ \A v \in Users : CanReveal(v, g)' => preHash(rps'[v][g]) = game'[g].hash
             /\ \A v, w \in Users : CanReveal(v, g)' /\ CanReveal(w, g)' => v = w
             /\ g \in forgot' => \A v \in Users : ~ CanReveal(v, g)'
             /\ game'[g].on /\ g \notin forgot' =>
                  game'[g].firstPlayer >= 0 \/ \E v \in Users : CanReveal(v, g)'
  BY DEF Moves, preHash
<1>3. CanReveal(u, g)' <=> Reveals(row, g)
  BY <1>1 DEF CanReveal, Reveals
<1>4. \A v \in Users : v # u => (CanReveal(v, g)' <=> CanReveal(v, g)) /\ rps'[v][g] = rps[v][g]
  BY <1>1 DEF CanReveal
<1>5. \A v \in Users : CanReveal(v, g) => game[g].on /\ g \notin forgot
  BY DEF IInv, GamesAreListed, Moves, CanReveal
<1>6. \A v \in Users : CanReveal(v, g) => preHash(rps[v][g]) = game[g].hash
  BY DEF IInv, Moves
<1>7. \A v, w \in Users : CanReveal(v, g) /\ CanReveal(w, g) => v = w
  BY DEF IInv, Moves
<1>8. /\ game[g].on => /\ game'[g].on /\ game'[g].hash = game[g].hash
                       /\ game[g].firstPlayer >= 0 => game'[g].firstPlayer >= 0
      /\ Reveals(row, g) => /\ preHash(row[g]) = game'[g].hash /\ g \notin forgot'
                            /\ CanReveal(u, g) \/ ~ game[g].on
      /\ g \in forgot' \ forgot => game'[g].on /\ (CanReveal(u, g) \/ ~ game[g].on)
      /\ game'[g].on /\ g \notin forgot' =>
           \/ game'[g].firstPlayer >= 0 \/ Reveals(row, g)
           \/ game[g].on /\ ~ CanReveal(u, g)
      /\ forgot \subseteq forgot'
  BY DEF GameStep
<1>9. \A v \in Users : CanReveal(v, g)' => preHash(rps'[v][g]) = game'[g].hash
  BY <1>1, <1>3, <1>4, <1>5, <1>6, <1>8
<1>10. \A v, w \in Users : CanReveal(v, g)' /\ CanReveal(w, g)' => v = w
  BY <1>3, <1>4, <1>5, <1>7, <1>8
<1>11. g \in forgot' => \A v \in Users : ~ CanReveal(v, g)'
  BY <1>3, <1>4, <1>5, <1>7, <1>8
<1>12. game'[g].on /\ g \notin forgot' =>
         game'[g].firstPlayer >= 0 \/ \E v \in Users : CanReveal(v, g)'
  <2>1. game[g].on /\ g \notin forgot => game[g].firstPlayer >= 0 \/ \E v \in Users : CanReveal(v, g)
    BY DEF IInv, Moves
  <2>2. QED BY <1>3, <1>4, <1>8, <2>1
<1>13. QED BY <1>9, <1>10, <1>11, <1>12

LEMMA ListKeeps ==
  ASSUME IInv, NEW u \in Users, NEW row, GameStep(u, row),
         \A v \in Users : \/ stored'[v].games = stored[v].games
                          \/ v = u /\ \A g \in Games : stored'[v].games[g] = row[g].struct
  PROVE  GamesAreListed'
<1>1. \A v \in Users : rps'[v] = IF v = u THEN row ELSE rps[v]
  BY PageOfGamesChanges
<1>2. ASSUME NEW g \in Games, ~ game'[g].on
      PROVE  g \notin forgot' /\ \A v \in Users : ~ rps'[v][g].struct.on /\ ~ stored'[v].games[g].on
  <2>1. ~ game[g].on /\ ~ row[g].struct.on /\ (g \in forgot' => g \in forgot)
    BY <1>2 DEF GameStep
  <2>2. g \notin forgot /\ \A v \in Users : ~ rps[v][g].struct.on /\ ~ stored[v].games[g].on
    BY <2>1 DEF IInv, GamesAreListed
  <2>3. QED BY <1>1, <2>1, <2>2
<1>3. QED BY <1>2 DEF GamesAreListed

\* A step of a game on one page, which leaves the party of the page as it was.
LEMMA PageOfGameKeeps ==
  ASSUME IInv, NEW u \in Users, NEW row, GameStep(u, row), stored' = stored \/ save(u),
         coins' \in [Users -> Nat], held' \in [Users -> Nat],
         UNCHANGED <<inst, reloads, partyVars>>
  PROVE  IInv'
<1> DEFINE new == [party |-> inst[u].struct, badges |-> inst[u].badges,
                   games |-> [g \in Games |-> row[g].struct]]
<1>1. /\ rps' \in [Users -> [Games -> PageGame]]
      /\ \A v \in Users : rps'[v] = IF v = u THEN row ELSE rps[v]
  BY PageOfGamesChanges
<1>2. row \in [Games -> PageGame] /\ game' \in [Games -> Game \cup {NoGame}] /\ forgot' \subseteq Games
  BY DEF GameStep
<1>3. save(u) => stored' = [stored EXCEPT ![u] = new]
  <2>1. rps'[u] = row
    BY <1>1
  <2>2. QED BY <2>1 DEF save
<1>4. new \in Storage /\ new.party = inst[u].struct /\ new.badges = inst[u].badges
      /\ \A g \in Games : new.games[g] = row[g].struct
  <2>1. \A g \in Games : row[g].struct \in Game \cup {NoGame}
    BY <1>2 DEF PageGame
  <2>2. inst[u].struct \in Struct /\ inst[u].badges \in 0 .. MaxBadges
    BY PageFacts DEF PageInst
  <2>3. QED BY <2>1, <2>2 DEF Storage
<1> HIDE DEF new
<1>5. /\ stored' \in [Users -> Storage]
      /\ \A v \in Users : stored'[v] = stored[v] \/ (v = u /\ stored'[v] = new)
  BY <1>3, <1>4 DEF IInv, Shapes
<1>6. party' = party /\ scanned' = scanned
  BY DEF partyVars
<1>7. Shapes'
  BY <1>1, <1>2, <1>5, <1>6 DEF IInv, Shapes
<1>8. FinalFirst'
  BY <1>4, <1>5, <1>6 DEF IInv, FinalFirst
<1>9. Scans'
  BY <1>6 DEF IInv, Scans
<1>10. GamesAreListed'
  BY <1>4, <1>5, ListKeeps
<1>11. Moves'
  BY MovesKeep
<1>12. QED BY <1>7, <1>8, <1>9, <1>10, <1>11 DEF IInv

------------------------------------------------------------------------------
(* The steps of the games. *)

\* What holds of a game before a step.
LEMMA GameFacts ==
  ASSUME IInv, NEW u \in Users, NEW g \in Games
  PROVE  /\ rps \in [Users -> [Games -> PageGame]] /\ rps[u] \in [Games -> PageGame]
         /\ rps[u][g] \in PageGame
         /\ game \in [Games -> Game \cup {NoGame}] /\ forgot \subseteq Games
         /\ rps[u][g].struct.on => game[g].on
         /\ ~ game[g].on => g \notin forgot
         /\ CanReveal(u, g) => preHash(rps[u][g]) = game[g].hash /\ g \notin forgot
         /\ game[g].on => game[g] \in Game
         /\ rps[u][g].struct.on => rps[u][g].struct \in Game
         /\ stored[u].games \in [Games -> Game \cup {NoGame}]
         /\ stored[u].games[g].on => game[g].on
<1>1. /\ rps \in [Users -> [Games -> PageGame]] /\ rps[u] \in [Games -> PageGame]
      /\ rps[u][g] \in PageGame
      /\ game \in [Games -> Game \cup {NoGame}] /\ forgot \subseteq Games
      /\ stored[u].games \in [Games -> Game \cup {NoGame}]
  BY DEF IInv, Shapes, Storage
<1>2. game[g].on => game[g] \in Game
  BY <1>1 DEF NoGame
<1>3. rps[u][g].struct.on => rps[u][g].struct \in Game
  BY <1>1 DEF PageGame, NoGame
<1>4. rps[u][g].struct.on \/ stored[u].games[g].on => game[g].on
  BY DEF IInv, GamesAreListed
<1>5. ~ game[g].on => g \notin forgot
  BY DEF IInv, GamesAreListed
<1>6. CanReveal(u, g) => preHash(rps[u][g]) = game[g].hash /\ g \notin forgot
  BY DEF IInv, Moves
<1>7. QED BY <1>1, <1>2, <1>3, <1>4, <1>5, <1>6

\* A page reads games, and knows the same moves afterwards.
LEMMA ReadingGames ==
  ASSUME IInv, NEW u \in Users, NEW row \in [Games -> PageGame], rps' = [rps EXCEPT ![u] = row],
         game' = game, forgot' = forgot,
         \A g \in Games : /\ Reveals(row, g) <=> CanReveal(u, g)
                          /\ Reveals(row, g) => preHash(row[g]) = game[g].hash
                          /\ row[g].struct.on => game[g].on
  PROVE  GameStep(u, row)
<1>1. game' \in [Games -> Game \cup {NoGame}] /\ forgot' \subseteq Games
  BY DEF IInv, Shapes
<1>2. ASSUME NEW g \in Games
      PROVE  /\ CanReveal(u, g) => g \notin forgot
             /\ game[g].on /\ g \notin forgot =>
                  game[g].firstPlayer >= 0 \/ CanReveal(u, g) \/ (game[g].on /\ ~ CanReveal(u, g))
  BY GameFacts
<1>3. QED BY <1>1, <1>2 DEF GameStep

\* A step that leaves the games as they are.
LEMMA SameGames ==
  ASSUME IInv, NEW u \in Users, rps' = rps, game' = game, forgot' = forgot
  PROVE  GameStep(u, rps[u])
<1>1. rps[u] \in [Games -> PageGame] /\ rps' = [rps EXCEPT ![u] = rps[u]]
  BY DEF IInv, Shapes
<1>2. \A g \in Games : Reveals(rps[u], g) <=> CanReveal(u, g)
  BY DEF Reveals, CanReveal
<1>3. QED BY <1>1, <1>2, GameFacts, ReadingGames

LEMMA ReloadRoPaScisKeeps ==
  ASSUME IInv, NEW u \in Users, NEW g \in Games, reloadRoPaScis(u, g), UNCHANGED partyVars
  PROVE  IInv'
<1> DEFINE s == [NoRoPaSci EXCEPT !.struct = game[g]]
           row == [rps[u] EXCEPT ![g] = s]
<1>1. /\ game[g].on /\ ~ rps[u][g].struct.on
      /\ rps' = [rps EXCEPT ![u][g] = s] /\ save(u)
      /\ UNCHANGED <<inst, reloads, game, forgot, coins, held>>
  BY DEF reloadRoPaScis, SavesGame, gameVars
<1>2. s \in PageGame /\ s.struct = game[g] /\ s.move = NoMove
  BY GameFacts DEF NoRoPaSci, PageGame
<1> HIDE DEF s
<1>3. /\ row \in [Games -> PageGame] /\ rps' = [rps EXCEPT ![u] = row]
      /\ \A h \in Games : row[h] = IF h = g THEN s ELSE rps[u][h]
  BY <1>1, <1>2, GameFacts
<1> HIDE DEF row
<1>4. \A h \in Games : /\ Reveals(row, h) <=> CanReveal(u, h)
                       /\ Reveals(row, h) => row[h] = rps[u][h]
                       /\ row[h].struct.on => game[h].on
  BY <1>1, <1>2, <1>3, GameFacts DEF Reveals, CanReveal
<1>5. \A h \in Games : Reveals(row, h) => preHash(row[h]) = game[h].hash
  BY <1>4, GameFacts
<1>6. GameStep(u, row)
  BY <1>1, <1>3, <1>4, <1>5, ReadingGames
<1>7. QED BY <1>1, <1>6, PageFacts, PageOfGameKeeps

LEMMA UpdateRoPaScisKeeps ==
  ASSUME IInv, NEW u \in Users, updateRoPaScis(u), UNCHANGED partyVars
  PROVE  IInv'
<1> DEFINE new(g) == IF NeedsUpdate(rps[u][g]) THEN [rps[u][g] EXCEPT !.struct = game[g]] ELSE rps[u][g]
           row == [g \in Games |-> new(g)]
<1>1. /\ rps' = [rps EXCEPT ![u] = row] /\ save(u)
      /\ UNCHANGED <<inst, reloads, game, forgot, coins, held>>
  <2>1. u \in DOMAIN rps
    BY DEF IInv, Shapes
  <2>2. QED BY <2>1 DEF updateRoPaScis, gameVars
<1>2. ASSUME NEW g \in Games
      PROVE  /\ new(g) \in PageGame /\ new(g).move = rps[u][g].move
             /\ new(g).struct.on <=> rps[u][g].struct.on
             /\ new(g).struct.on => game[g].on
  <2>1. rps[u][g] \in PageGame /\ game[g] \in Game \cup {NoGame}
    BY GameFacts
  <2>2. CASE NeedsUpdate(rps[u][g])
    <3>1. rps[u][g].struct.on /\ game[g].on
      BY <2>2, GameFacts DEF NeedsUpdate
    <3>2. rps[u][g].struct.on = TRUE /\ game[g].on = TRUE
      BY <3>1, GameFacts DEF Game
    <3>3. QED BY <2>1, <2>2, <3>2 DEF PageGame
  <2>3. CASE ~ NeedsUpdate(rps[u][g])
    BY <2>1, <2>3, GameFacts
  <2>4. QED BY <2>2, <2>3
<1> HIDE DEF new
<1>3. row \in [Games -> PageGame] /\ \A g \in Games : row[g] = new(g)
  BY <1>2
<1> HIDE DEF row
<1>4. \A g \in Games : /\ Reveals(row, g) <=> CanReveal(u, g)
                       /\ Reveals(row, g) => preHash(row[g]) = game[g].hash
                       /\ row[g].struct.on => game[g].on
  BY <1>2, <1>3, GameFacts DEF Reveals, CanReveal, preHash
<1>5. GameStep(u, row)
  BY <1>1, <1>3, <1>4, ReadingGames
<1>6. QED BY <1>1, <1>5, PageFacts, PageOfGameKeeps

LEMMA DelRoPaSciKeeps ==
  ASSUME IInv, NEW u \in Users, NEW g \in Games, delRoPaSci(u, g), UNCHANGED partyVars
  PROVE  IInv'
<1> DEFINE row == [rps[u] EXCEPT ![g] = NoRoPaSci]
<1>1. /\ rps[u][g].struct.on
      /\ rps' = [rps EXCEPT ![u][g] = NoRoPaSci] /\ save(u)
      /\ UNCHANGED <<inst, reloads, game, coins, held>>
      /\ forgot' = IF CanReveal(u, g) /\ game[g].firstPlayer < 0 THEN forgot \cup {g} ELSE forgot
  BY DEF delRoPaSci, SavesGame
<1>2. NoRoPaSci \in PageGame /\ ~ NoRoPaSci.struct.on
  BY DEF NoRoPaSci, NoGame, PageGame
<1>3. /\ row \in [Games -> PageGame] /\ rps' = [rps EXCEPT ![u] = row]
      /\ \A h \in Games : row[h] = IF h = g THEN NoRoPaSci ELSE rps[u][h]
  BY <1>1, <1>2, GameFacts
<1> HIDE DEF row
<1>4. \A h \in Games : /\ Reveals(row, h) <=> CanReveal(u, h) /\ h # g
                       /\ Reveals(row, h) => row[h] = rps[u][h]
                       /\ row[h].struct.on => game[h].on
  BY <1>2, <1>3, GameFacts DEF Reveals, CanReveal
<1>5. forgot \subseteq forgot' /\ forgot' \subseteq Games
      /\ \A h \in Games : h \in forgot' \ forgot => h = g /\ CanReveal(u, h) /\ game[h].on
  BY <1>1, GameFacts
<1>6. game[g].on => game[g].firstPlayer \in Sides
  BY GameFacts DEF Game
<1>7. game[g].on /\ g \notin forgot' => game[g].firstPlayer >= 0 \/ ~ CanReveal(u, g)
  BY <1>1, <1>6 DEF Sides
<1>8. GameStep(u, row)
  <2>1. game' \in [Games -> Game \cup {NoGame}]
    BY <1>1, GameFacts
  <2>2. ASSUME NEW h \in Games
        PROVE  /\ Reveals(row, h) => preHash(row[h]) = game[h].hash /\ h \notin forgot'
               /\ game[h].on /\ h \notin forgot' =>
                    \/ game[h].firstPlayer >= 0 \/ Reveals(row, h)
                    \/ game[h].on /\ ~ CanReveal(u, h)
    <3>1. CASE h = g
      BY <1>4, <1>7, <3>1
    <3>2. CASE h # g
      BY <1>4, <1>5, <3>2, GameFacts
    <3>3. QED BY <3>1, <3>2
  <2>3. QED BY <1>1, <1>3, <1>4, <1>5, <2>1, <2>2 DEF GameStep
<1>9. QED BY <1>1, <1>8, PageFacts, PageOfGameKeeps

\* A step that changes one game on the ledger, which stays the game that it is.
LEMMA OneGameChanges ==
  ASSUME IInv, NEW u \in Users, NEW g \in Games, NEW n \in Game,
         game' = [game EXCEPT ![g] = n], NEW row \in [Games -> PageGame],
         rps' = [rps EXCEPT ![u] = row], forgot \subseteq forgot', forgot' \subseteq forgot \cup {g},
         \A h \in Games \ {g} : row[h] = rps[u][h],
         game[g].on => /\ n.hash = game[g].hash
                       /\ game[g].firstPlayer >= 0 => n.firstPlayer >= 0,
         Reveals(row, g) => /\ preHash(row[g]) = n.hash /\ g \notin forgot'
                            /\ CanReveal(u, g) \/ ~ game[g].on,
         g \in forgot' \ forgot => CanReveal(u, g) \/ ~ game[g].on,
         g \notin forgot' => \/ n.firstPlayer >= 0 \/ Reveals(row, g)
                             \/ game[g].on /\ ~ CanReveal(u, g)
  PROVE  GameStep(u, row)
<1>1. game \in [Games -> Game \cup {NoGame}] /\ forgot \subseteq Games /\ n.on
  BY GameFacts DEF Game
<1>2. game' \in [Games -> Game \cup {NoGame}] /\ forgot' \subseteq Games
      /\ \A h \in Games : game'[h] = IF h = g THEN n ELSE game[h]
  BY <1>1
<1>3. ASSUME NEW h \in Games, h # g
      PROVE  /\ game'[h] = game[h] /\ row[h] = rps[u][h]
             /\ Reveals(row, h) <=> CanReveal(u, h)
             /\ h \in forgot' <=> h \in forgot
  BY <1>2, <1>3 DEF Reveals, CanReveal
<1>4. ASSUME NEW h \in Games
      PROVE  /\ game[h].on => /\ game'[h].on /\ game'[h].hash = game[h].hash
                              /\ game[h].firstPlayer >= 0 => game'[h].firstPlayer >= 0
             /\ row[h].struct.on => game'[h].on
             /\ Reveals(row, h) => /\ preHash(row[h]) = game'[h].hash /\ h \notin forgot'
                                   /\ CanReveal(u, h) \/ ~ game[h].on
             /\ h \in forgot' \ forgot => game'[h].on /\ (CanReveal(u, h) \/ ~ game[h].on)
             /\ game'[h].on /\ h \notin forgot' =>
                  \/ game'[h].firstPlayer >= 0 \/ Reveals(row, h)
                  \/ game[h].on /\ ~ CanReveal(u, h)
  <2>1. CASE h = g
    BY <1>1, <1>2, <2>1
  <2>2. CASE h # g
    BY <1>3, <2>2, GameFacts
  <2>3. QED BY <2>1, <2>2
<1>5. QED BY <1>2, <1>4 DEF GameStep

\* The page of the first player remembers the move.
LEMMA ChosenGame ==
  ASSUME NEW n, NEW g, NEW choice
  PROVE  setChoice([NoRoPaSci EXCEPT !.struct = n], g, choice) = [struct |-> n, move |-> <<choice, g>>]
<1> DEFINE r == [NoRoPaSci EXCEPT !.struct = n]
           x == <<choice, g>>
<1>1. r = [struct |-> n, move |-> NoMove]
  BY DEF NoRoPaSci
<1>2. setChoice(r, g, choice) = [r EXCEPT !.move = x]
  BY DEF setChoice
<1> HIDE DEF r, x
<1>3. [r EXCEPT !.move = x] = [struct |-> n, move |-> x]
  BY <1>1
<1>4. QED BY <1>2, <1>3 DEF r, x

LEMMA SpawnRoPaSciKeeps ==
  ASSUME IInv, NEW u \in Users, NEW g \in Games, NEW choice \in Choices, NEW got \in BOOLEAN,
         spawnRoPaSci(u, g, choice, got), UNCHANGED partyVars
  PROVE  IInv'
<1> DEFINE c == Stake + costRoPaSci
           n == [on |-> TRUE, owner |-> u, hash |-> Commitment(choice, g), stake |-> c,
                 firstPlayer |-> -1, secondPlayer |-> -1, second |-> NoOne]
           s == [struct |-> n, move |-> <<choice, g>>]
           row == IF got THEN [rps[u] EXCEPT ![g] = s] ELSE rps[u]
<1>1. /\ ~ game[g].on /\ fetch(u, c) /\ game' = [game EXCEPT ![g] = n]
      /\ forgot' = IF got THEN forgot ELSE forgot \cup {g}
      /\ UNCHANGED <<held, reloads>>
  BY DEF spawnRoPaSci
<1>2. setChoice([NoRoPaSci EXCEPT !.struct = n], g, choice) = s
  BY ChosenGame
<1>3. IF got THEN rps' = [rps EXCEPT ![u][g] = s] /\ UNCHANGED inst /\ save(u)
             ELSE UNCHANGED <<rps, inst, stored>>
  BY <1>2 DEF spawnRoPaSci, SavesGame
<1>4. choice \in Nat /\ c \in Nat
  BY GameAssumption
<1>5. n \in Game
  <2>1. choice % 3 \in 0 .. 2
    BY <1>4
  <2>2. Commitment(choice, g) \in (0 .. 2) \X Games
    BY <2>1 DEF Commitment
  <2>3. -1 \in Sides
    BY DEF Sides
  <2>4. QED BY <2>2, <2>3 DEF Game
<1>6. s \in PageGame
  BY <1>5 DEF PageGame
<1>7. s.move # NoMove /\ preHash(s) = n.hash /\ s.struct.on
  BY DEF NoMove, preHash, Commitment
<1> HIDE DEF s
<1>8. n.firstPlayer = -1 /\ c = Stake + costRoPaSci
  OBVIOUS
<1> HIDE DEF n, c
<1>9. /\ row \in [Games -> PageGame] /\ rps' = [rps EXCEPT ![u] = row]
      /\ \A h \in Games \ {g} : row[h] = rps[u][h]
      /\ row[g] = IF got THEN s ELSE rps[u][g]
  BY <1>3, <1>6, GameFacts
<1> HIDE DEF row
<1>10. ~ CanReveal(u, g) /\ ~ rps[u][g].struct.on /\ g \notin forgot
  BY <1>1, GameFacts DEF CanReveal
<1>11. Reveals(row, g) <=> got
  BY <1>7, <1>9, <1>10 DEF Reveals
<1>12. GameStep(u, row)
  <2>1. forgot \subseteq forgot' /\ forgot' \subseteq forgot \cup {g}
    BY <1>1
  <2>2. Reveals(row, g) => preHash(row[g]) = n.hash /\ g \notin forgot'
    BY <1>1, <1>7, <1>9, <1>10, <1>11
  <2>3. g \notin forgot' => Reveals(row, g)
    BY <1>1, <1>11
  <2>4. ~ game[g].on /\ game' = [game EXCEPT ![g] = n]
    BY <1>1
  <2>5. QED BY <1>5, <1>9, <2>1, <2>2, <2>3, <2>4, OneGameChanges
<1>13. coins' \in [Users -> Nat] /\ held' \in [Users -> Nat]
  BY <1>1, <1>4, PageFacts, FetchKeeps
<1>14. stored' = stored \/ save(u)
  BY <1>3
<1>15. UNCHANGED <<inst, reloads>>
  BY <1>1, <1>3
<1>16. QED BY <1>12, <1>13, <1>14, <1>15, PageOfGameKeeps

LEMMA SecondKeeps ==
  ASSUME IInv, NEW u \in Users, NEW g \in Games, NEW choice \in Choices,
         second(u, g, choice), UNCHANGED partyVars
  PROVE  IInv'
<1> DEFINE n == [game[g] EXCEPT !.secondPlayer = choice % 3, !.second = u]
<1>1. /\ rps[u][g].struct.on /\ fetch(u, rps[u][g].struct.stake)
      /\ UNCHANGED <<forgot, held, rps, inst, stored, reloads>>
  BY DEF second
<1>2. game[g] \in Game /\ rps[u][g].struct \in Game /\ game[g].on
  BY <1>1, GameFacts
<1>3. game' = [game EXCEPT ![g] = n]
  <2>1. game' = [game EXCEPT ![g].secondPlayer = choice % 3, ![g].second = u]
    BY DEF second
  <2>2. game \in [Games -> Game \cup {NoGame}]
    BY GameFacts
  <2>3. QED BY <1>2, <2>1, <2>2 DEF Game
<1>4. n \in Game /\ n.hash = game[g].hash /\ n.firstPlayer = game[g].firstPlayer
  <2>1. choice % 3 \in Sides
    BY GameAssumption DEF Sides
  <2>2. QED BY <1>2, <2>1 DEF Game
<1> HIDE DEF n
<1>5. rps[u][g].struct.stake \in Nat
  <2>1. rps[u][g].struct.stake = Stake + costRoPaSci
    BY <1>2 DEF Game
  <2>2. QED BY <2>1, GameAssumption
<1>6. coins' \in [Users -> Nat] /\ held' \in [Users -> Nat]
  BY <1>1, <1>5, PageFacts, FetchKeeps
<1>7. rps[u] \in [Games -> PageGame] /\ rps' = [rps EXCEPT ![u] = rps[u]]
  BY <1>1, GameFacts
<1>8. Reveals(rps[u], g) <=> CanReveal(u, g)
  BY DEF Reveals, CanReveal
<1>9. GameStep(u, rps[u])
  <2>1. Reveals(rps[u], g) => preHash(rps[u][g]) = n.hash /\ g \notin forgot' /\ CanReveal(u, g)
    BY <1>1, <1>4, <1>8, GameFacts
  <2>2. g \notin forgot' => \/ n.firstPlayer >= 0 \/ Reveals(rps[u], g)
                            \/ game[g].on /\ ~ CanReveal(u, g)
    BY <1>2, <1>8, Zenon
  <2>3. QED BY <1>1, <1>3, <1>4, <1>7, <2>1, <2>2, OneGameChanges
<1>10. QED BY <1>1, <1>6, <1>9, PageOfGameKeeps

\* The winner gets a part of the two stakes, and no balance gets smaller.
LEMMA PaidIsBalance ==
  ASSUME IInv, NEW u \in Users, NEW g \in Games, NEW mv, game[g] \in Game
  PROVE  Paid(u, g, mv) \in [Users -> Nat]
<1> DEFINE s == game[g]
           pot == 2 * s.stake - costRoPaSci
           first == CASE mv = s.secondPlayer -> s.stake - costRoPaSci
                      [] mv = (s.secondPlayer + 1) % 3 -> pot
                      [] OTHER -> 0
<1>1. s.stake = Stake + costRoPaSci
  BY DEF Game
<1>2. s.stake - costRoPaSci = Stake /\ pot = 2 * Stake + costRoPaSci
  BY <1>1, GameAssumption
<1>3. first \in {Stake, pot, 0}
  BY <1>2
<1> HIDE DEF first, pot
<1>4. first \in Nat /\ pot - first \in Nat
  BY <1>2, <1>3, GameAssumption
<1>5. Paid(u, g, mv) = [v \in Users |-> coins[v] + (IF v = u THEN first ELSE 0)
                                               + (IF v = s.second THEN pot - first ELSE 0)]
  BY DEF Paid, first, pot
<1>6. ASSUME NEW v \in Users
      PROVE  coins[v] + (IF v = u THEN first ELSE 0) + (IF v = s.second THEN pot - first ELSE 0) \in Nat
  BY <1>4, PageFacts
<1>7. QED BY <1>5, <1>6

LEMMA ConfirmKeeps ==
  ASSUME IInv, NEW u \in Users, NEW g \in Games, NEW got \in BOOLEAN,
         confirm(u, g, got), UNCHANGED partyVars
  PROVE  IInv'
<1> DEFINE mv == preHash(rps[u][g])[1]
           n == [game[g] EXCEPT !.firstPlayer = mv]
           s == IF got THEN [rps[u][g] EXCEPT !.struct = n] ELSE rps[u][g]
           row == [rps[u] EXCEPT ![g] = s]
<1>1. /\ CanReveal(u, g) /\ preHash(rps[u][g]) = game[g].hash
      /\ game' = [game EXCEPT ![g].firstPlayer = mv]
      /\ coins' = Paid(u, g, mv)
      /\ UNCHANGED <<forgot, held, reloads, inst, stored>>
      /\ rps' = [rps EXCEPT ![u][g] = IF got THEN [rps[u][g] EXCEPT !.struct = game'[g]] ELSE rps[u][g]]
  BY DEF confirm, KeepsGame
<1>2. game[g] \in Game /\ game[g].on /\ rps[u][g] \in PageGame /\ rps[u][g].struct.on
  BY <1>1, GameFacts DEF CanReveal
<1>3. game \in [Games -> Game \cup {NoGame}]
  BY GameFacts
<1>4. mv \in 0 .. 2
  BY <1>1, <1>2 DEF Game
<1>5. game' = [game EXCEPT ![g] = n] /\ game'[g] = n
  BY <1>1, <1>3
<1>6. rps' = [rps EXCEPT ![u][g] = s]
  BY <1>1, <1>5
<1> HIDE DEF mv
<1>7. n \in Game /\ n.hash = game[g].hash /\ n.firstPlayer >= 0 /\ n.on
  <2>1. mv \in Sides /\ mv >= 0
    BY <1>4 DEF Sides
  <2>2. n \in Game /\ n.hash = game[g].hash /\ n.firstPlayer = mv /\ n.on
    BY <1>2, <2>1 DEF Game
  <2>3. QED BY <2>1, <2>2
<1> HIDE DEF n
<1>8. s \in PageGame /\ s.move = rps[u][g].move /\ s.struct.on
  BY <1>2, <1>7 DEF PageGame
<1> HIDE DEF s
<1>9. /\ row \in [Games -> PageGame] /\ rps' = [rps EXCEPT ![u] = row]
      /\ \A h \in Games \ {g} : row[h] = rps[u][h]
      /\ row[g] = s
  BY <1>6, <1>8, GameFacts
<1> HIDE DEF row
<1>10. coins' \in [Users -> Nat] /\ held' \in [Users -> Nat]
  BY <1>1, <1>2, PageFacts, PaidIsBalance
<1>11. GameStep(u, row)
  <2>1. preHash(row[g]) = n.hash /\ g \notin forgot'
    BY <1>1, <1>7, <1>8, <1>9, GameFacts DEF preHash
  <2>2. CanReveal(u, g) /\ forgot' = forgot /\ game' = [game EXCEPT ![g] = n]
    BY <1>1, <1>5
  <2>3. QED BY <1>7, <1>9, <2>1, <2>2, OneGameChanges
<1>12. QED BY <1>1, <1>10, <1>11, PageOfGameKeeps

LEMMA GameNextKeeps == IInv /\ GameNext /\ UNCHANGED partyVars => IInv'
<1>1. Players \subseteq Users
  BY PlayersAssumption
<1>2. QED BY <1>1, UpdateRoPaScisKeeps, ReloadRoPaScisKeeps, DelRoPaSciKeeps, SecondKeeps,
             ConfirmKeeps, SpawnRoPaSciKeeps DEF GameNext

------------------------------------------------------------------------------
(* The steps of a page, and the whole. *)

\* The page that is loaded again has what its browser has stored, and no move.
LEMMA ReloadPageKeeps ==
  ASSUME IInv, NEW u \in Users, ReloadPage(u)
  PROVE  IInv'
<1> DEFINE s == Loaded(stored[u])
           fresh(g) == [NoRoPaSci EXCEPT !.struct = stored[u].games[g]]
           row == [g \in Games |-> fresh(g)]
<1>1. /\ reloads < MaxReloads /\ reloads' = reloads + 1
      /\ inst' = [inst EXCEPT ![u] = s] /\ rps' = [rps EXCEPT ![u] = row]
      /\ held' = [held EXCEPT ![u] = coins[u]]
      /\ forgot' = forgot \cup {g \in Games : CanReveal(u, g) /\ game[g].firstPlayer < 0}
      /\ UNCHANGED <<coins, stored, party, scanned, game>>
  BY DEF ReloadPage, Reload, partyVars
<1>2. stored[u] \in Storage
  BY DEF IInv, Shapes
<1>3. s \in PageInst /\ s.struct = stored[u].party /\ s.tmp = {}
      /\ (s.badges > 0 => stored[u].badges > 0)
  <2> DEFINE o == stored[u]
             b == IF o.badges = 0 THEN 0 ELSE 1
  <2>1. b \in 0 .. MaxBadges /\ (b > 0 => o.badges > 0) /\ o.party \in Struct
    BY <1>2, PricesAssumption DEF Storage
  <2>2. s = [NoInst EXCEPT !.struct = o.party, !.badges = b]
    BY DEF Loaded
  <2> HIDE DEF b, o
  <2>3. s = [struct |-> o.party, tmp |-> {}, updating |-> FALSE, fetching |-> "no", badges |-> b]
    BY <2>2 DEF NoInst
  <2>4. QED BY <2>1, <2>3 DEF PageInst, o
<1> HIDE DEF s
<1>4. ASSUME NEW g \in Games
      PROVE  /\ fresh(g) \in PageGame /\ fresh(g).move = NoMove
             /\ fresh(g).struct = stored[u].games[g]
  <2>1. stored[u].games[g] \in Game \cup {NoGame}
    BY <1>2 DEF Storage
  <2>2. QED BY <2>1 DEF PageGame, NoRoPaSci
<1> HIDE DEF fresh
<1>5. row \in [Games -> PageGame] /\ \A g \in Games : row[g] = fresh(g)
  BY <1>4
<1> HIDE DEF row
<1>6. \A g \in Games : ~ Reveals(row, g) /\ (row[g].struct.on => game[g].on)
  BY <1>4, <1>5, GameFacts DEF Reveals
<1>7. GameStep(u, row)
  <2>1. game' \in [Games -> Game \cup {NoGame}] /\ forgot' \subseteq Games
    BY <1>1 DEF IInv, Shapes
  <2>2. ASSUME NEW g \in Games
        PROVE  /\ g \in forgot' \ forgot => game[g].on /\ CanReveal(u, g)
               /\ game[g].on /\ g \notin forgot' => game[g].firstPlayer >= 0 \/ ~ CanReveal(u, g)
    <3>1. CanReveal(u, g) => game[g].on
      BY GameFacts DEF CanReveal
    <3>2. game[g].on => game[g].firstPlayer \in Sides
      BY GameFacts DEF Game
    <3>3. g \in forgot' <=> g \in forgot \/ (CanReveal(u, g) /\ game[g].firstPlayer < 0)
      BY <1>1
    <3>4. QED BY <3>1, <3>2, <3>3 DEF Sides
  <2>3. QED BY <1>1, <1>5, <1>6, <2>1, <2>2 DEF GameStep
<1>8. /\ rps' \in [Users -> [Games -> PageGame]] /\ game' \in [Games -> Game \cup {NoGame}]
      /\ forgot' \subseteq Games
  BY <1>7, PageOfGamesChanges DEF GameStep
<1>9. inst' \in [Users -> PageInst] /\ \A v \in Users : inst'[v] = IF v = u THEN s ELSE inst[v]
  BY <1>1, <1>3 DEF IInv, Shapes
<1>10. held' \in [Users -> Nat] /\ reloads' \in 0 .. MaxReloads
  BY <1>1, LoadsAssumption DEF IInv, Shapes
<1>11. Shapes'
  BY <1>1, <1>8, <1>9, <1>10 DEF IInv, Shapes
<1>12. FinalFirst'
  BY <1>1, <1>3, <1>9 DEF IInv, FinalFirst
<1>13. Scans'
  BY <1>1, <1>3, <1>9, OrganisersAssumption DEF IInv, Scans
<1>14. GamesAreListed'
  BY <1>1, <1>7, ListKeeps
<1>15. Moves'
  BY <1>7, MovesKeep
<1>16. QED BY <1>11, <1>12, <1>13, <1>14, <1>15 DEF IInv

LEMMA UpdateKeeps ==
  ASSUME IInv, NEW u \in Users, update(u), UNCHANGED <<partyVars, gameVars>>
  PROVE  IInv'
<1>1. /\ held' = [held EXCEPT ![u] = coins[u]]
      /\ UNCHANGED <<coins, inst, rps, stored, reloads, game, forgot>>
  BY DEF update, gameVars
<1>2. held' \in [Users -> Nat] /\ coins' \in [Users -> Nat]
  BY <1>1, PageFacts
<1>3. GameStep(u, rps[u])
  BY <1>1, SameGames
<1>4. QED BY <1>1, <1>2, <1>3, PageOfGameKeeps

LEMMA InitEstablishes == Init => IInv
<1> SUFFICES ASSUME Init PROVE IInv
  OBVIOUS
<1> USE DEF Init, UserInit, PartyInit, GameInit
<1>1. NoParty \in Struct /\ NoParty.state # FINALIZED
  BY DEF NoParty, Struct, NONE, FINALIZED
<1>2. NoInst \in PageInst /\ NoInst.struct = NoParty /\ NoInst.tmp = {} /\ NoInst.badges = 0
  BY <1>1, PricesAssumption DEF NoInst, PageInst
<1>3. NoRoPaSci \in PageGame /\ ~ NoRoPaSci.struct.on /\ ~ NoGame.on
  BY DEF NoRoPaSci, PageGame, NoGame
<1>4. Shapes
  <2>1. party \in PartyOnLedger /\ party.miners \subseteq party.struct.attendees
    BY <1>1 DEF PartyOnLedger
  <2>2. stored \in [Users -> Storage]
    BY <1>1, PricesAssumption DEF Storage
  <2>3. inst \in [Users -> PageInst] /\ rps \in [Users -> [Games -> PageGame]]
    BY <1>2, <1>3
  <2>4. coins \in [Users -> Nat] /\ held \in [Users -> Nat] /\ reloads \in 0 .. MaxReloads
    BY CoinsAssumption, LoadsAssumption
  <2>5. scanned \in [Organisers -> SUBSET (Users \ Organisers)]
        /\ game \in [Games -> Game \cup {NoGame}] /\ forgot \subseteq Games
    OBVIOUS
  <2>6. QED BY <2>1, <2>2, <2>3, <2>4, <2>5 DEF Shapes
<1>5. FinalFirst
  BY <1>1, <1>2 DEF FinalFirst
<1>6. Scans
  BY <1>1, <1>2, OrganisersAssumption DEF Scans
<1>7. GamesAreListed
  BY <1>3 DEF GamesAreListed
<1>8. Moves
  BY <1>3 DEF Moves, CanReveal
<1>9. QED BY <1>4, <1>5, <1>6, <1>7, <1>8 DEF IInv

LEMMA Inductive == IInv /\ [Next]_vars => IInv'
<1> SUFFICES ASSUME IInv, [Next]_vars PROVE IInv'
  OBVIOUS
<1>1. CASE PartyNext /\ UNCHANGED gameVars
  BY <1>1, PartyNextKeeps
<1>2. CASE GameNext /\ UNCHANGED partyVars
  BY <1>2, GameNextKeeps
<1>3. CASE \E u \in Users : ReloadPage(u)
  BY <1>3, ReloadPageKeeps
<1>4. CASE \E u \in Users : update(u) /\ UNCHANGED <<partyVars, gameVars>>
  BY <1>4, UpdateKeeps
<1>5. CASE UNCHANGED vars
  <2>1. PartyStep
    BY <1>5, SameParty DEF vars, partyVars
  <2>2. coins' \in [Users -> Nat] /\ held' \in [Users -> Nat]
    BY <1>5 DEF vars, IInv, Shapes
  <2>3. QED BY <1>5, <2>1, <2>2, PagesAsTheyWere DEF vars
<1>6. QED BY <1>1, <1>2, <1>3, <1>4, <1>5 DEF Next

------------------------------------------------------------------------------

LEMMA ShapesAreTypes == IInv => TypeOK
<1> SUFFICES ASSUME IInv PROVE TypeOK
  OBVIOUS
<1>1. PartyTypeOK
  BY DEF IInv, Shapes, PartyTypeOK, PartyOnLedger, PageInst, Storage
<1>2. GameTypeOK
  BY DEF IInv, Shapes, GameTypeOK, PageGame, Storage
<1>3. QED BY <1>1, <1>2 DEF TypeOK, IInv, Shapes

\* The variables keep their types: no balance falls below zero, whatever is paid for
\* parties and games and whatever is won, and a page has no more badges than its bound.
THEOREM TypesCorrect == Spec => []TypeOK
BY InitEstablishes, Inductive, ShapesAreTypes, PTL DEF Spec

\* A final party has nobody in it whom not every organiser has scanned, in whatever
\* order the organisers scanned, sent their lists, and sent them again.
THEOREM FinalListIsScanned == Spec => []FinalListScannedByAll
<1>1. IInv => FinalListScannedByAll
  BY DEF IInv, Scans, FinalListScannedByAll
<1>2. QED BY <1>1, InitEstablishes, Inductive, PTL DEF Spec

\* The first move of a game is with one page, or the game is among those whose move has
\* been forgotten; and then no page has it.
THEOREM StakesAreOpen == Spec => []StakesCanBePaid
<1>1. IInv => StakesCanBePaid
  <2> SUFFICES ASSUME IInv, NEW g \in Games, game[g].on, game[g].firstPlayer < 0
      PROVE  g \notin forgot <=>
               \E u \in Users : CanReveal(u, g) /\ preHash(rps[u][g]) = game[g].hash
    BY DEF StakesCanBePaid
  <2>1. game[g].firstPlayer \in Sides
    <3>1. game[g] \in Game \cup {NoGame}
      BY DEF IInv, Shapes
    <3>2. game[g] \in Game
      BY <3>1 DEF NoGame
    <3>3. QED BY <3>2 DEF Game
  <2>2. ~ (game[g].firstPlayer >= 0)
    BY <2>1 DEF Sides
  <2>3. QED BY <2>2 DEF IInv, Moves
<1>2. QED BY <1>1, InitEstablishes, Inductive, PTL DEF Spec

------------------------------------------------------------------------------
(* What has been scanned leaves the list of a page for a reason only. *)

Reason(o, key) ==
  \/ removeAttendee(o, key)
  \/ reloads' # reloads
  \/ inst[o].fetching # "no" /\ inst'[o].fetching = "no" /\ key \notin Organisers
  \/ party.struct.state = FINALIZED /\ inst'[o].struct = NoParty

ScannedStep == \A o \in Organisers : \A key \in inst[o].tmp \ inst'[o].tmp : Reason(o, key)

\* A step of one page has to have a reason for that page only.
LEMMA OnePageScans ==
  ASSUME IInv, NEW u \in Users, NEW s \in PageInst, Keeps(u, s) \/ Saves(u, s),
         u \in Organisers => \A key \in inst[u].tmp \ s.tmp : Reason(u, key)
  PROVE  ScannedStep
<1>1. \A v \in Users : inst'[v] = IF v = u THEN s ELSE inst[v]
  BY OnePageChanges DEF IInv
<1>2. ASSUME NEW o \in Organisers, NEW key \in inst[o].tmp \ inst'[o].tmp
      PROVE  Reason(o, key)
  <2>1. o \in Users
    BY OrganisersAssumption
  <2>2. o = u
    BY <1>1, <1>2, <2>1
  <2>3. inst'[o] = s
    BY <1>1, <2>1, <2>2
  <2>4. QED BY <1>2, <2>2, <2>3
<1>3. QED BY <1>2 DEF ScannedStep

\* A party that leaves the list of a page leaves it whole.
LEMMA ListedScans ==
  ASSUME NEW u, NEW s
  PROVE  \/ Listed(s, u) = s
         \/ /\ s.struct.state = FINALIZED
            /\ Listed(s, u).struct = NoParty
<1>1. CASE s.struct.state = FINALIZED
  <2> DEFINE n == IF u \in s.struct.attendees THEN s.badges + 1 ELSE s.badges
  <2>1. Listed(s, u) = [NoInst EXCEPT !.badges = n]
    BY <1>1 DEF Listed, Moved
  <2> HIDE DEF n
  <2>2. QED BY <1>1, <2>1 DEF NoInst
<1>2. CASE s.struct.state # FINALIZED
  BY <1>2 DEF Listed
<1>3. QED BY <1>1, <1>2

LEMMA UpdatePartiesScans ==
  ASSUME IInv, NEW u \in Users, updateParties(u)
  PROVE  ScannedStep
<1> DEFINE s == Updated(inst[u], "list")
           l == IF s.fetching = "list" THEN s ELSE Listed(s, u)
<1>1. s \in PageInst /\ s.struct.state = party.struct.state
      /\ s.tmp = inst[u].tmp /\ s.badges = inst[u].badges
  BY PageFacts, UpdatedKeeps
<1>2. Keeps(u, l) \/ Saves(u, l)
  BY DEF updateParties
<1>3. s.badges < MaxBadges
  BY <1>1 DEF updateParties, MayList
<1> HIDE DEF s
<1>4. l \in PageInst /\ (l = s \/ (party.struct.state = FINALIZED /\ l.struct = NoParty))
  BY <1>1, <1>3, ListedKeeps, ListedScans
<1> HIDE DEF l
<1>5. inst'[u] = l
  BY <1>2, <1>4, OnePageChanges DEF IInv
<1>6. QED BY <1>1, <1>2, <1>4, <1>5, OnePageScans DEF Reason

LEMMA FetchOrgKeysScans ==
  ASSUME IInv, NEW u \in Users, NEW ok \in BOOLEAN, fetchOrgKeys(u, ok)
  PROVE  ScannedStep
<1> DEFINE s == Fetched(inst[u], Organisers)
           f == [inst[u] EXCEPT !.fetching = "no"]
           l == Listed(s, u)
<1>1. \E n \in {s, f, l} : Keeps(u, n) \/ Saves(u, n)
  BY DEF fetchOrgKeys
<1>2. inst[u].badges < MaxBadges /\ inst[u].fetching # "no"
  BY DEF fetchOrgKeys, MayList
<1>3. s \in PageInst /\ s.struct = inst[u].struct /\ s.tmp = Organisers
      /\ s.badges = inst[u].badges /\ s.fetching = "no"
  <2>1. inst[u] \in PageInst
    BY PageFacts
  <2>2. QED BY <2>1, OrganisersAssumption DEF Fetched, PageInst
<1>4. f \in PageInst /\ f.tmp = inst[u].tmp
  <2>1. inst[u] \in PageInst
    BY PageFacts
  <2>2. QED BY <2>1 DEF PageInst
<1> HIDE DEF s, f
<1>5. l \in PageInst /\ (l = s \/ (party.struct.state = FINALIZED /\ l.struct = NoParty))
  BY <1>2, <1>3, ListedKeeps, ListedScans, PageFacts
<1> HIDE DEF l
<1>6. ASSUME NEW n \in {s, f, l}, Keeps(u, n) \/ Saves(u, n)
      PROVE  ScannedStep
  <2>1. n \in PageInst
    BY <1>3, <1>4, <1>5, <1>6
  <2>2. inst'[u] = n
    BY <1>6, <2>1, OnePageChanges DEF IInv
  <2>3. CASE n = s
    BY <1>2, <1>3, <1>6, <2>1, <2>2, <2>3, OnePageScans DEF Reason
  <2>4. CASE n = f
    BY <1>4, <1>6, <2>1, <2>4, OnePageScans
  <2>5. CASE n = l /\ n # s
    BY <1>5, <1>6, <2>1, <2>2, <2>5, OnePageScans DEF Reason
  <2>6. QED BY <1>6, <2>3, <2>4, <2>5
<1>7. QED BY <1>1, <1>6

\* The other steps of a party leave what the page has scanned, or remove one key.
LEMMA PartyNextScans ==
  ASSUME IInv, PartyNext
  PROVE  ScannedStep
<1>1. ASSUME NEW u \in Users, updateParties(u)
      PROVE  ScannedStep
  BY <1>1, UpdatePartiesScans
<1>2. ASSUME NEW u \in Users, reloadParties(u)
      PROVE  ScannedStep
  <2> DEFINE s == Read(inst[u], party.struct)
  <2>1. s \in PageInst /\ s.tmp = inst[u].tmp
    BY PageFacts, ReadKeeps
  <2>2. Saves(u, s)
    BY <1>2 DEF reloadParties
  <2> HIDE DEF s
  <2>3. QED BY <2>1, <2>2, OnePageScans
<1>3. ASSUME NEW u \in Users, mine(u)
      PROVE  ScannedStep
  BY <1>3 DEF mine, ScannedStep
<1>4. ASSUME NEW u \in Users, NEW ok \in BOOLEAN, UpdateAfter(u, ok)
      PROVE  ScannedStep
  <2> DEFINE s == Updated(inst[u], "update")
             f == [inst[u] EXCEPT !.updating = FALSE]
             n == IF ok THEN s ELSE f
  <2>1. s \in PageInst /\ s.tmp = inst[u].tmp
    BY PageFacts, UpdatedKeeps
  <2>2. f \in PageInst /\ f.tmp = inst[u].tmp
    <3>1. inst[u] \in PageInst
      BY PageFacts
    <3>2. QED BY <3>1 DEF PageInst
  <2>3. Keeps(u, n)
    BY <1>4 DEF UpdateAfter
  <2> HIDE DEF s, f
  <2>4. n \in PageInst /\ n.tmp = inst[u].tmp
    BY <2>1, <2>2
  <2> HIDE DEF n
  <2>5. QED BY <2>3, <2>4, OnePageScans
<1>5. ASSUME NEW u \in Users, NEW ok \in BOOLEAN, fetchOrgKeys(u, ok)
      PROVE  ScannedStep
  BY <1>5, FetchOrgKeysScans
<1>6. ASSUME NEW o \in Organisers, NEW got \in BOOLEAN, spawnPopParty(o, got)
      PROVE  ScannedStep
  <2> DEFINE s == Read(inst[o], party'.struct)
  <2>1. /\ party.struct.state = NONE /\ party' = [party EXCEPT !.struct.state = PRE_BARRIER]
        /\ scanned' = scanned
        /\ Saves(o, s) \/ UNCHANGED <<inst, rps, stored>>
    BY <1>6 DEF spawnPopParty
  <2>2. party'.struct \in Struct
    BY <2>1, StateStep DEF NONE, FINALIZED
  <2>3. o \in Users /\ s \in PageInst /\ s.tmp = inst[o].tmp
    BY <2>2, PageFacts, ReadKeeps, OrganisersAssumption
  <2> HIDE DEF s
  <2>4. CASE Saves(o, s)
    BY <2>3, <2>4, OnePageScans
  <2>5. CASE UNCHANGED <<inst, rps, stored>>
    BY <2>5 DEF ScannedStep
  <2>6. QED BY <2>1, <2>4, <2>5
<1>7. ASSUME NEW o \in Organisers, NEW key \in Scannable, addAttendee(o, key)
      PROVE  ScannedStep
  <2> DEFINE s == [inst[o] EXCEPT !.tmp = @ \cup {key}]
  <2>1. o \in Users /\ key \in Users /\ inst[o] \in PageInst
    BY OrganisersAssumption, PageFacts
  <2>2. s \in PageInst /\ inst[o].tmp \subseteq s.tmp
    BY <2>1 DEF PageInst
  <2>3. Keeps(o, s)
    BY <1>7 DEF addAttendee
  <2> HIDE DEF s
  <2>4. QED BY <2>1, <2>2, <2>3, OnePageScans
<1>8. ASSUME NEW o \in Organisers, NEW key \in Scannable, removeAttendee(o, key)
      PROVE  ScannedStep
  <2> DEFINE s == [inst[o] EXCEPT !.tmp = @ \ {key}]
  <2>1. o \in Users /\ inst[o] \in PageInst
    BY OrganisersAssumption, PageFacts
  <2>2. s \in PageInst /\ inst[o].tmp \ s.tmp \subseteq {key}
    BY <2>1 DEF PageInst
  <2>3. Keeps(o, s)
    BY <1>8 DEF removeAttendee
  <2> HIDE DEF s
  <2>4. \A k \in inst[o].tmp \ s.tmp : Reason(o, k)
    BY <1>8, <2>2 DEF Reason
  <2>5. QED BY <2>1, <2>2, <2>3, <2>4, OnePageScans
<1>9. ASSUME NEW o \in Organisers, activateBarrier(o) \/ finalize(o)
      PROVE  ScannedStep
  <2> DEFINE s == [inst[o] EXCEPT !.updating = TRUE]
  <2>1. o \in Users /\ inst[o] \in PageInst
    BY OrganisersAssumption, PageFacts
  <2>2. s \in PageInst /\ s.tmp = inst[o].tmp
    BY <2>1 DEF PageInst
  <2>3. Keeps(o, s)
    BY <1>9 DEF activateBarrier, finalize
  <2> HIDE DEF s
  <2>4. QED BY <2>1, <2>2, <2>3, OnePageScans
<1>10. QED BY <1>1, <1>2, <1>3, <1>4, <1>5, <1>6, <1>7, <1>8, <1>9 DEF PartyNext

LEMMA NextScans == IInv /\ Next => ScannedStep
<1> SUFFICES ASSUME IInv, Next PROVE ScannedStep
  OBVIOUS
<1>1. CASE PartyNext
  BY <1>1, PartyNextScans
<1>2. CASE GameNext
  <2>1. ASSUME NEW u \in Players
        PROVE  /\ updateRoPaScis(u) => inst' = inst
               /\ \A g \in Games :
                    /\ reloadRoPaScis(u, g) \/ delRoPaSci(u, g) => inst' = inst
                    /\ \A choice \in Choices : second(u, g, choice) => inst' = inst
                    /\ \A got \in BOOLEAN : confirm(u, g, got) => inst' = inst
                    /\ \A choice \in Choices, got \in BOOLEAN :
                         spawnRoPaSci(u, g, choice, got) => inst' = inst
    <3>1. updateRoPaScis(u) => inst' = inst
      BY DEF updateRoPaScis
    <3>2. \A g \in Games : reloadRoPaScis(u, g) \/ delRoPaSci(u, g) => inst' = inst
      BY DEF reloadRoPaScis, delRoPaSci, SavesGame
    <3>3. \A g \in Games, choice \in Choices : second(u, g, choice) => inst' = inst
      BY DEF second
    <3>4. \A g \in Games, got \in BOOLEAN : confirm(u, g, got) => inst' = inst
      BY DEF confirm, KeepsGame
    <3>5. \A g \in Games, choice \in Choices, got \in BOOLEAN :
            spawnRoPaSci(u, g, choice, got) => inst' = inst
      BY DEF spawnRoPaSci, SavesGame
    <3>6. QED BY <3>1, <3>2, <3>3, <3>4, <3>5
  <2>2. inst' = inst
    BY <1>2, <2>1 DEF GameNext
  <2>3. QED BY <2>2 DEF ScannedStep
<1>3. CASE \E u \in Users : ReloadPage(u)
  <2>1. reloads' # reloads
    BY <1>3 DEF ReloadPage, Reload, IInv, Shapes
  <2>2. QED BY <2>1 DEF ScannedStep, Reason
<1>4. CASE \E u \in Users : update(u)
  BY <1>4 DEF update, ScannedStep
<1>5. QED BY <1>1, <1>2, <1>3, <1>4 DEF Next

\* A key that an organiser has scanned does not get lost on its page, unless the page is
\* loaded again, the organiser removes it, the keys of the organisers arrive late and
\* replace the list, or the party is final.
THEOREM ScannedStays == Spec => ScannedIsKept
<1>1. IInv /\ [Next]_vars =>
        [\A o \in Organisers : \A key \in inst[o].tmp \ inst'[o].tmp :
           \/ removeAttendee(o, key)
           \/ reloads' # reloads
           \/ inst[o].fetching # "no" /\ inst'[o].fetching = "no" /\ key \notin Organisers
           \/ party.struct.state = FINALIZED /\ inst'[o].struct = NoParty]_vars
  BY NextScans DEF ScannedStep, Reason
<1>2. QED BY <1>1, InitEstablishes, Inductive, PTL DEF Spec, ScannedIsKept

------------------------------------------------------------------------------
(* Answers to polls: the lists that are signed, for any keys of the group. *)

\* Every set of numbers that is not empty has a least one.
LEMMA LeastNumber ==
  ASSUME NEW T \in SUBSET Nat, T # {}
  PROVE  \E x \in T : \A y \in T : x <= y
<1>1. PICK x \in T : \A y \in T : ~ (<<y, x>> \in OpToRel(<, Nat))
  BY NatLessThanWellFounded, WFMin
<1>2. \A y \in T : ~ (y < x)
  BY <1>1 DEF OpToRel
<1>3. \A y \in T : x <= y
  BY <1>2
<1>4. QED BY <1>3

------------------------------------------------------------------------------
(* Scalars. *)

\* The number a and b differ by a multiple of m.
Differ(a, b, m) == \E k \in Int : a = b + k * m

\* A remainder is below m, and differs from the number by a multiple of m.
LEMMA Remainder ==
  ASSUME NEW m \in Nat \ {0}, NEW a \in Int
  PROVE  (a % m) \in 0 .. m - 1 /\ Differ(a % m, a, m)
<1>1. a = m * (a \div m) + (a % m) /\ (a \div m) \in Int /\ (a % m) \in 0 .. m - 1
  OBVIOUS
<1> DEFINE k == -(a \div m)
<1>2. k \in Int /\ (a % m) = a + k * m
  BY <1>1
<1>3. QED BY <1>1, <1>2 DEF Differ

\* Two numbers below m that differ by a multiple of m are equal.
LEMMA OneRemainder ==
  ASSUME NEW m \in Nat \ {0}, NEW a \in 0 .. m - 1, NEW b \in 0 .. m - 1,
         NEW k \in Int, a = b + k * m
  PROVE  a = b
<1>1. CASE k >= 1
  BY <1>1
<1>2. CASE k <= -1
  BY <1>2
<1>3. CASE k = 0
  BY <1>3
<1>4. QED BY <1>1, <1>2, <1>3

\* One place of a ring of m members, and the same after another round.
LEMMA RingPlace ==
  ASSUME NEW m \in Nat \ {0}, NEW b \in 0 .. m - 1
  PROVE  (b % m) = b /\ ((m + b) % m) = b
<1>0. b \in Int
  OBVIOUS
<1>1. PICK k \in Int : (b % m) = b + k * m
  BY <1>0, Remainder DEF Differ
<1>2. (b % m) \in 0 .. m - 1
  BY <1>0, Remainder
<1>3. (b % m) = b
  BY <1>1, <1>2, OneRemainder
<1> DEFINE c == m + b
<1>4. c \in Int
  OBVIOUS
<1>5. c = b + m
  OBVIOUS
<1> HIDE DEF c
<1>6. PICK j \in Int : (c % m) = c + j * m
  BY <1>4, Remainder DEF Differ
<1>7. (c % m) \in 0 .. m - 1
  BY <1>4, Remainder
<1>8. j + 1 \in Int /\ (c % m) = b + (j + 1) * m
  BY <1>5, <1>6
<1>9. (c % m) = b
  BY <1>7, <1>8, OneRemainder
<1>10. QED BY <1>3, <1>9 DEF c

\* The operations of the group, up to multiples of its order.
LEMMA Scalars ==
  ASSUME NEW a \in Int, NEW b \in Int
  PROVE  /\ Mul(a, b) \in Scalar /\ Differ(Mul(a, b), a * b, q)
         /\ Add(a, b) \in Scalar /\ Differ(Add(a, b), a + b, q)
         /\ Sub(a, b) \in Scalar /\ Differ(Sub(a, b), a - b, q)
<1>0. q \in Nat \ {0}
  BY OrderAssumption
<1> DEFINE m == a * b
           s == a + b
           d == a - b
<1>1. m \in Int /\ s \in Int /\ d \in Int
  OBVIOUS
<1>2. Mul(a, b) = (m % q) /\ Add(a, b) = (s % q) /\ Sub(a, b) = (d % q)
  BY DEF Mul, Add, Sub
<1> HIDE DEF m, s, d
<1>3. /\ (m % q) \in Scalar /\ Differ(m % q, m, q)
      /\ (s % q) \in Scalar /\ Differ(s % q, s, q)
      /\ (d % q) \in Scalar /\ Differ(d % q, d, q)
  BY <1>0, <1>1, Remainder DEF Scalar
<1>4. QED BY <1>2, <1>3 DEF m, s, d

\* What closes the ring: the signer's scalar makes up for its challenge.
LEMMA RingCloses ==
  ASSUME NEW u \in Scalar, NEW x \in Scalar, NEW c \in Scalar, NEW b \in Scalar
  PROVE  Add(Mul(Sub(u, Mul(x, c)), b), Mul(c, Mul(x, b))) = Mul(u, b)
<1>0. q \in Int /\ q \in Nat \ {0} /\ Scalar \subseteq Int
  BY OrderAssumption DEF Scalar
<1> DEFINE xc == Mul(x, c)
           s == Sub(u, xc)
           sb == Mul(s, b)
           xb == Mul(x, b)
           cxb == Mul(c, xb)
           l == Add(sb, cxb)
           r == Mul(u, b)
<1>1. PICK k1 \in Int : xc = x * c + k1 * q
  <2>1. Differ(xc, x * c, q)
    BY <1>0, Scalars
  <2>2. QED BY <2>1 DEF Differ
<1>2. xc \in Scalar
  BY <1>0, Scalars
<1> HIDE DEF xc
<1>3. PICK k2 \in Int : s = u - xc + k2 * q
  <2>1. Differ(s, u - xc, q)
    BY <1>0, <1>2, Scalars
  <2>2. QED BY <2>1 DEF Differ
<1>4. s \in Scalar
  BY <1>0, <1>2, Scalars
<1> HIDE DEF s
<1>5. PICK k3 \in Int : sb = s * b + k3 * q
  <2>1. Differ(sb, s * b, q)
    BY <1>0, <1>4, Scalars
  <2>2. QED BY <2>1 DEF Differ
<1>6. sb \in Scalar
  BY <1>0, <1>4, Scalars
<1> HIDE DEF sb
<1>7. PICK k4 \in Int : xb = x * b + k4 * q
  <2>1. Differ(xb, x * b, q)
    BY <1>0, Scalars
  <2>2. QED BY <2>1 DEF Differ
<1>8. xb \in Scalar
  BY <1>0, Scalars
<1> HIDE DEF xb
<1>9. PICK k5 \in Int : cxb = c * xb + k5 * q
  <2>1. Differ(cxb, c * xb, q)
    BY <1>0, <1>8, Scalars
  <2>2. QED BY <2>1 DEF Differ
<1>10. cxb \in Scalar
  BY <1>0, <1>8, Scalars
<1> HIDE DEF cxb
<1>11. PICK k6 \in Int : l = sb + cxb + k6 * q
  <2>1. Differ(l, sb + cxb, q)
    BY <1>0, <1>6, <1>10, Scalars
  <2>2. QED BY <2>1 DEF Differ
<1>12. l \in Scalar
  BY <1>0, <1>6, <1>10, Scalars
<1> HIDE DEF l
<1>13. PICK k7 \in Int : r = u * b + k7 * q
  <2>1. Differ(r, u * b, q)
    BY <1>0, Scalars
  <2>2. QED BY <2>1 DEF Differ
<1>14. r \in Scalar
  BY <1>0, Scalars
<1> HIDE DEF r
<1>15. /\ u \in Int /\ x \in Int /\ c \in Int /\ b \in Int /\ xc \in Int /\ s \in Int /\ sb \in Int
       /\ xb \in Int /\ cxb \in Int /\ l \in Int /\ r \in Int
  BY <1>0, <1>2, <1>4, <1>6, <1>8, <1>10, <1>12, <1>14
<1>16. sb = u * b - (x * c) * b + ((k2 - k1) * b + k3) * q
  <2>1. s = u - x * c + (k2 - k1) * q
    BY <1>0, <1>1, <1>3, <1>15
  <2>2. s * b = u * b - (x * c) * b + ((k2 - k1) * b) * q
    BY <1>0, <1>15, <2>1
  <2>3. QED BY <1>0, <1>5, <1>15, <2>2
<1>17. cxb = (x * c) * b + (c * k4 + k5) * q
  <2>1. c * xb = (x * c) * b + (c * k4) * q
    BY <1>0, <1>7, <1>15
  <2>2. QED BY <1>0, <1>9, <1>15, <2>1
<1> DEFINE k == ((k2 - k1) * b + k3) + (c * k4 + k5) + k6 - k7
<1>18. k \in Int /\ l = r + k * q
  <2> DEFINE i == (k2 - k1) * b + k3
             j == c * k4 + k5
             v == u * b
             z == (x * c) * b
  <2>1. i \in Int /\ j \in Int /\ v \in Int /\ z \in Int
    BY <1>15
  <2>2. sb = v - z + i * q /\ cxb = z + j * q /\ r = v + k7 * q
    BY <1>13, <1>16, <1>17
  <2>3. k = i + j + k6 - k7
    OBVIOUS
  <2> HIDE DEF i, j, v, z, k
  <2>4. l = v + (i + j + k6) * q
    BY <1>0, <1>11, <2>1, <2>2
  <2>5. QED BY <1>0, <2>1, <2>2, <2>3, <2>4
<1> HIDE DEF k
<1>19. l = r
  BY <1>0, <1>12, <1>14, <1>18, OneRemainder DEF Scalar
<1>20. QED BY <1>19 DEF l, r, cxb, xb, sb, s, xc

\* A private key is its own public key.
LEMMA PublicIs == \A x \in Scalar : Public(x) = x
<1> SUFFICES ASSUME NEW x \in Scalar PROVE Public(x) = x
  OBVIOUS
<1>1. x * 1 = x /\ x \in 0 .. q - 1 /\ q \in Nat \ {0}
  BY OrderAssumption DEF Scalar
<1>2. QED BY <1>1, RingPlace DEF Public, Mul

\* The hash of a place of the ring is a challenge.
LEMMA HashIs ==
  ASSUME NEW message \in Answers, NEW scope \in Scopes, NEW tag \in Scalar,
         NEW P \in Scalar, NEW R \in Scalar
  PROVE  signH1(signH1pre(scope, tag, message), P, R) \in Scalar
<1>0. q \in Nat \ {0} /\ Scalar \subseteq Int
  BY OrderAssumption DEF Scalar
<1> DEFINE b == <<message, scope, tag>> \o <<P, R>>
<1>1. <<message, scope, tag>> \in Seq(Int) /\ <<P, R>> \in Seq(Int)
  BY <1>0 DEF Answers, Scopes
<1>2. \A i \in 1 .. 5 : b[i] \in Int
  <2>1. Len(<<message, scope, tag>>) = 3 /\ Len(<<P, R>>) = 2
    OBVIOUS
  <2>2. b \in Seq(Int) /\ Len(b) = 5
    BY <1>1, <2>1, ConcatProperties
  <2> HIDE DEF b
  <2>3. QED BY <2>2, ElementOfSeq
<1>3. signH1(signH1pre(scope, tag, message), P, R) = pickScalar(b)
  BY DEF signH1, signH1pre
<1> HIDE DEF b
<1> DEFINE t == b[1] + 2 * b[2] + 3 * b[3] + b[4] + 4 * b[5] + 1
<1>4. t \in Int
  BY <1>2
<1>5. pickScalar(b) = (t % q)
  BY DEF pickScalar
<1> HIDE DEF t
<1>6. QED BY <1>0, <1>3, <1>4, <1>5, Remainder DEF Scalar

\* The point of a poll is not zero.
LEMMA BaseIs == \A poll \in Scopes : pickPoint(poll) \in 1 .. q - 1 /\ pickPoint(poll) \in Scalar
<1> SUFFICES ASSUME NEW poll \in Scopes PROVE pickPoint(poll) \in 1 .. q - 1
  BY OrderAssumption DEF Scalar
<1> DEFINE m == q - 1
<1>1. m \in Nat \ {0} /\ poll \in Int /\ q = m + 1
  BY OrderAssumption DEF Scopes
<1>2. pickPoint(poll) = (poll % m) + 1
  BY DEF pickPoint
<1> HIDE DEF m
<1>3. (poll % m) \in 0 .. m - 1
  BY <1>1, Remainder
<1>4. QED BY <1>1, <1>2, <1>3

\* Two keys never have the same tag: here the order is prime.
LEMMA TagsDiffer ==
  ASSUME NEW x \in 1 .. q - 1, NEW y \in 1 .. q - 1, NEW b \in 1 .. q - 1, Mul(x, b) = Mul(y, b)
  PROVE  x = y
<1>0. q \in Nat \ {0} /\ q \in Int /\ x \in Int /\ y \in Int /\ b \in Int
  BY OrderAssumption
<1>1. ASSUME NEW v \in 1 .. q - 1, NEW w \in 1 .. q - 1, v > w, Mul(v, b) = Mul(w, b)
      PROVE  FALSE
  <2> DEFINE d == v - w
             e == d * b
  <2>1. d \in 1 .. q - 1 /\ d \in Int /\ v \in Int /\ w \in Int
    BY <1>0, <1>1
  <2>2. PICK k \in Int : Mul(v, b) = v * b + k * q
    BY <1>0, <2>1, Scalars DEF Differ
  <2>3. PICK j \in Int : Mul(w, b) = w * b + j * q
    BY <1>0, <2>1, Scalars DEF Differ
  <2>4. v * b - w * b = (j - k) * q
    <3> DEFINE vb == v * b
               wb == w * b
    <3>1. vb \in Int /\ wb \in Int
      BY <1>0, <2>1
    <3>2. vb + k * q = wb + j * q
      BY <1>1, <2>2, <2>3
    <3> HIDE DEF vb, wb
    <3>3. vb - wb = (j - k) * q
      BY <1>0, <3>1, <3>2
    <3>4. QED BY <3>3 DEF vb, wb
  <2>5. e = (j - k) * q /\ e \in Int
    BY <1>0, <2>1, <2>4
  <2>6. (e % q) # 0
    BY <2>1, OrderAssumption
  <2> HIDE DEF d, e
  <2>7. PICK i \in Int : (e % q) = e + i * q
    BY <1>0, <2>5, Remainder DEF Differ
  <2>8. (e % q) \in 0 .. q - 1
    BY <1>0, <2>5, Remainder
  <2>9. (e % q) = 0 + (i + (j - k)) * q
    BY <1>0, <2>5, <2>7
  <2>10. 0 \in 0 .. q - 1 /\ i + (j - k) \in Int
    BY <1>0
  <2>11. (e % q) = 0
    BY <1>0, <2>8, <2>9, <2>10, OneRemainder
  <2>12. QED BY <2>6, <2>11
<1>2. QED BY <1>0, <1>1

------------------------------------------------------------------------------
(* Lists, and functions along an interval. *)

\* A list of n keys has the places from 0 to n - 1.
LEMMA CountFromZero ==
  ASSUME NEW n \in Nat
  PROVE  IsFiniteSet(0 .. n - 1) /\ Cardinality(0 .. n - 1) = n
<1> DEFINE a == 0
           b == n - 1
           c == Cardinality(a .. b)
<1>1. a \in Int /\ b \in Int /\ a = 0 /\ b = n - 1
  OBVIOUS
<1> HIDE DEF a, b
<1>2. IsFiniteSet(a .. b) /\ c = IF a > b THEN 0 ELSE b - a + 1
  BY <1>1, FS_Interval
<1> HIDE DEF c
<1>3. c = n
  BY <1>1, <1>2
<1>4. QED BY <1>2, <1>3 DEF a, b, c

\* Sorted, a list of distinct numbers has each of them at one place, whatever its order was.
LEMMA SortIs ==
  ASSUME NEW keys \in SUBSET Nat, IsFiniteSet(keys), NEW list \in Lists(keys)
  PROVE  LET L == sort(list) IN
         /\ L \in [0 .. Cardinality(keys) - 1 -> keys]
         /\ \A p \in keys : \E i \in 0 .. Cardinality(keys) - 1 : L[i] = p
         /\ \A other \in Lists(keys) : sort(other) = L
<1> DEFINE n == Cardinality(keys)
           D == 0 .. n - 1
           Below(p) == {o \in keys : o < p}
           rank == [p \in keys |-> Cardinality(Below(p))]
           At(i) == CHOOSE p \in keys : Cardinality(Below(p)) = i
           L == sort(list)
<1>1. n \in Nat
  BY FS_CardinalityType
<1>2. \A other \in Lists(keys) : sort(other) = [i \in D |-> At(i)]
  <2> SUFFICES ASSUME NEW other \in Lists(keys) PROVE sort(other) = [i \in D |-> At(i)]
    OBVIOUS
  <2>1. DOMAIN other = D /\ Elements(other) = keys
    BY DEF Lists
  <2> HIDE DEF D
  <2>2. QED BY <2>1 DEF sort
<1>3. ASSUME NEW p \in keys
      PROVE  /\ IsFiniteSet(Below(p)) /\ rank[p] = Cardinality(Below(p)) /\ rank[p] \in D
  <2>1. Below(p) \in SUBSET (keys \ {p}) /\ Below(p) \in SUBSET keys
    OBVIOUS
  <2>2. IsFiniteSet(keys \ {p}) /\ Cardinality(keys \ {p}) = n - 1
    BY FS_RemoveElement
  <2>3. rank[p] = Cardinality(Below(p))
    OBVIOUS
  <2> HIDE DEF Below, rank, n
  <2>4. IsFiniteSet(Below(p)) /\ Cardinality(Below(p)) <= n - 1
    BY <2>1, <2>2, FS_Subset
  <2>5. Cardinality(Below(p)) \in Nat
    BY <2>4, FS_CardinalityType
  <2>6. QED BY <1>1, <2>3, <2>4, <2>5
<1>4. ASSUME NEW p \in keys, NEW r \in keys, p < r PROVE rank[p] # rank[r]
  <2>0. p \in Nat /\ r \in Nat /\ \A o \in keys : o \in Nat
    OBVIOUS
  <2>1. Below(p) \in SUBSET Below(r) /\ p \in Below(r) /\ p \notin Below(p)
    <3>1. \A o \in keys : o < p => o < r
      BY <1>4, <2>0
    <3>2. ~ (p < p)
      BY <2>0
    <3>3. QED BY <1>4, <3>1, <3>2
  <2> HIDE DEF Below, rank
  <2>2. Cardinality(Below(p)) # Cardinality(Below(r))
    BY <1>3, <2>1, FS_Subset
  <2>3. QED BY <1>3, <2>2
<1>5. \A p, r \in keys : rank[p] = rank[r] => p = r
  <2> SUFFICES ASSUME NEW p \in keys, NEW r \in keys, rank[p] = rank[r] PROVE p = r
    OBVIOUS
  <2>1. p < r \/ r < p \/ p = r
    OBVIOUS
  <2> HIDE DEF rank
  <2>2. QED BY <1>4, <2>1
<1>6. ASSUME NEW i \in D PROVE \E p \in keys : rank[p] = i
  <2>1. rank \in [keys -> D]
    <3>1. rank = [p \in keys |-> rank[p]]
      OBVIOUS
    <3> HIDE DEF rank, D
    <3>2. QED BY <1>3, <3>1
  <2> HIDE DEF rank
  <2>2. rank \in Injection(keys, D)
    BY <1>5, <2>1 DEF Injection, IsInjective
  <2>3. IsFiniteSet(D) /\ Cardinality(D) = n
    BY <1>1, CountFromZero
  <2> HIDE DEF D
  <2>4. rank \in Surjection(keys, D)
    BY <2>2, <2>3, FS_Injection
  <2>5. QED BY <2>4 DEF Surjection
<1>7. L = [i \in D |-> At(i)]
  BY <1>2
<1>8. ASSUME NEW i \in D PROVE At(i) \in keys /\ rank[At(i)] = i
  <2>1. \E p \in keys : Cardinality(Below(p)) = i
    BY <1>3, <1>6
  <2> HIDE DEF Below, D
  <2>2. At(i) \in keys /\ Cardinality(Below(At(i))) = i
    BY <2>1
  <2> HIDE DEF At, rank
  <2>3. QED BY <1>3, <2>2
<1> HIDE DEF At, rank, D, L
<1>9. L \in [D -> keys]
  BY <1>7, <1>8
<1>10. ASSUME NEW p \in keys PROVE \E i \in D : L[i] = p
  <2>1. rank[p] \in D
    BY <1>3
  <2>2. L[rank[p]] = At(rank[p])
    BY <1>7, <2>1
  <2>3. L[rank[p]] = p
    BY <1>5, <1>8, <2>1, <2>2
  <2>4. QED BY <2>1, <2>3
<1>11. \A other \in Lists(keys) : sort(other) = L
  BY <1>2, <1>7
<1>12. QED BY <1>9, <1>10, <1>11 DEF D, L

\* There is a function with value a at m, and with values that follow each other by h.
HasAlong(S, m, n, a, h) ==
  \E f \in [m .. n -> S] : f[m] = a /\ \A i \in m + 1 .. n : f[i] = h[i][f[i - 1]]

\* A function that is defined along an interval by its value before.
LEMMA AlongExists ==
  ASSUME NEW S, NEW m \in Nat, NEW n \in Nat, m <= n, NEW a \in S,
         NEW h \in [m .. n -> [S -> S]]
  PROVE  HasAlong(S, m, n, a, h)
<1> DEFINE Has(j) == \E f \in [m .. j -> S] :
                       f[m] = a /\ \A i \in m + 1 .. j : f[i] = h[i][f[i - 1]]
           bad == {j \in m .. n : ~ Has(j)}
<1>1. bad = {}
  <2> SUFFICES ASSUME bad # {} PROVE FALSE
    OBVIOUS
  <2>1. bad \in SUBSET Nat
    OBVIOUS
  <2>2. PICK j \in bad : \A k \in bad : j <= k
    <3> HIDE DEF bad
    <3>1. QED BY <2>1, LeastNumber
  <2>3. j \in m .. n /\ ~ Has(j)
    OBVIOUS
  <2>4. j # m
    <3>1. Has(m)
      <4> DEFINE f == [i \in m .. m |-> a]
      <4>1. f \in [m .. m -> S] /\ f[m] = a /\ m + 1 .. m = {}
        OBVIOUS
      <4> HIDE DEF f
      <4>2. QED BY <4>1
    <3> HIDE DEF Has
    <3>2. QED BY <2>3, <3>1
  <2>5. j - 1 \in m .. n /\ j \in m + 1 .. n /\ ~ (j <= j - 1)
    BY <2>3, <2>4
  <2>6. Has(j - 1)
    <3> HIDE DEF Has
    <3>1. j - 1 \notin bad
      <4> HIDE DEF bad
      <4>1. QED BY <2>2, <2>5
    <3>2. QED BY <2>5, <3>1
  <2>7. PICK f \in [m .. j - 1 -> S] :
          f[m] = a /\ \A i \in m + 1 .. j - 1 : f[i] = h[i][f[i - 1]]
    BY <2>6
  <2> DEFINE x == h[j][f[j - 1]]
             g == [i \in m .. j |-> IF i = j THEN x ELSE f[i]]
  <2>8. x \in S
    <3>1. j - 1 \in m .. j - 1
      BY <2>5
    <3>2. QED BY <2>5, <2>7, <3>1
  <2> HIDE DEF x
  <2>9. g \in [m .. j -> S]
    <3>1. \A i \in m .. j : i = j \/ i \in m .. j - 1
      BY <2>5
    <3>2. QED BY <2>7, <2>8, <3>1
  <2>10. g[m] = a
    <3>1. m \in m .. j /\ m # j
      BY <2>5
    <3>2. QED BY <2>7, <3>1
  <2>11. ASSUME NEW i \in m + 1 .. j PROVE g[i] = h[i][g[i - 1]]
    <3>1. i \in m .. j /\ i - 1 \in m .. j /\ i - 1 # j
      BY <2>5
    <3>2. g[i - 1] = f[i - 1] /\ g[i] = IF i = j THEN x ELSE f[i]
      BY <3>1
    <3> HIDE DEF g
    <3>3. CASE i = j
      BY <3>2, <3>3 DEF x
    <3>4. CASE i # j
      <4>1. i \in m + 1 .. j - 1
        BY <2>5, <3>4
      <4>2. QED BY <2>7, <3>2, <3>4, <4>1
    <3>5. QED BY <3>3, <3>4
  <2> HIDE DEF g
  <2>12. Has(j)
    BY <2>9, <2>10, <2>11
  <2> HIDE DEF Has
  <2>13. QED BY <2>3, <2>12
<1>2. n \in m .. n
  OBVIOUS
<1>3. Has(n)
  <2> HIDE DEF Has
  <2>1. QED BY <1>1, <1>2
<1>4. QED BY <1>3 DEF HasAlong

\* A set that goes on from each place of an interval to the next has the last one.
LEMMA Along ==
  ASSUME NEW n \in Nat, NEW m \in Nat, m <= n, NEW G, m \in G,
         \A i \in m + 1 .. n : i - 1 \in G => i \in G
  PROVE  n \in G
<1> DEFINE bad == {i \in m .. n : i \notin G}
<1>1. bad = {}
  <2> SUFFICES ASSUME bad # {} PROVE FALSE
    OBVIOUS
  <2>1. bad \in SUBSET Nat
    OBVIOUS
  <2>2. PICK i \in bad : \A k \in bad : i <= k
    <3> HIDE DEF bad
    <3>1. QED BY <2>1, LeastNumber
  <2>3. i \in m .. n /\ i \notin G
    OBVIOUS
  <2>4. i # m
    BY <2>3
  <2>5. i \in m + 1 .. n /\ i - 1 \in m .. n /\ ~ (i <= i - 1)
    BY <2>3, <2>4
  <2>6. i - 1 \notin bad
    <3> HIDE DEF bad
    <3>1. QED BY <2>2, <2>5
  <2>7. QED BY <2>3, <2>5, <2>6
<1>2. n \in m .. n
  OBVIOUS
<1>3. QED BY <1>1, <1>2

\* decodeSignature reads what encode wrote.
LEMMA DecodesEncoded ==
  ASSUME NEW n \in Nat, NEW sig, sig = [C0 |-> sig.C0, S |-> sig.S, Tag |-> sig.Tag],
         sig.C0 \in Scalar, sig.Tag \in Scalar, sig.S \in [0 .. n - 1 -> Scalar]
  PROVE  decodeSignature(encode(sig)) = sig
<1> DEFINE m == Cardinality(DOMAIN sig.S)
           t == [i \in 1 .. n |-> sig.S[i - 1]]
           a == <<sig.C0>>
           z == <<sig.Tag>>
           l == a \o t
           b == l \o z
<1>1. m = n
  <2>1. DOMAIN sig.S = 0 .. n - 1
    OBVIOUS
  <2>2. Cardinality(0 .. n - 1) = n
    BY CountFromZero
  <2>3. QED BY <2>1, <2>2
<1>2. encode(sig) = b
  <2> HIDE DEF m
  <2>1. QED BY <1>1 DEF encode, m
<1>3. t \in Seq(Scalar) /\ Len(t) = n /\ \A i \in 1 .. n : t[i] = sig.S[i - 1]
  <2>1. \A i \in 1 .. n : i - 1 \in 0 .. n - 1
    OBVIOUS
  <2>2. t \in [1 .. n -> Scalar]
    BY <2>1
  <2>3. \A i \in 1 .. n : t[i] = sig.S[i - 1]
    OBVIOUS
  <2> HIDE DEF t
  <2>4. QED BY <2>2, <2>3
<1>4. /\ a \in Seq(Scalar) /\ Len(a) = 1 /\ a[1] = sig.C0
      /\ z \in Seq(Scalar) /\ Len(z) = 1 /\ z[1] = sig.Tag
  OBVIOUS
<1> HIDE DEF t, a, z
<1>5. /\ l \in Seq(Scalar) /\ Len(l) = n + 1
      /\ \A i \in 1 .. 1 + n : l[i] = IF i <= 1 THEN a[i] ELSE t[i - 1]
  <2>1. l \in Seq(Scalar) /\ Len(l) = Len(a) + Len(t)
        /\ \A i \in 1 .. Len(a) + Len(t) : l[i] = IF i <= Len(a) THEN a[i] ELSE t[i - Len(a)]
    BY <1>3, <1>4, ConcatProperties
  <2> HIDE DEF l
  <2>2. QED BY <1>3, <1>4, <2>1
<1> HIDE DEF l
<1>6. /\ Len(b) = n + 2
      /\ \A i \in 1 .. (n + 1) + 1 : b[i] = IF i <= n + 1 THEN l[i] ELSE z[i - (n + 1)]
  <2>1. b \in Seq(Scalar) /\ Len(b) = Len(l) + Len(z)
        /\ \A i \in 1 .. Len(l) + Len(z) : b[i] = IF i <= Len(l) THEN l[i] ELSE z[i - Len(l)]
    BY <1>4, <1>5, ConcatProperties
  <2> HIDE DEF b
  <2>2. QED BY <1>4, <1>5, <2>1
<1> HIDE DEF b
<1>7. b[1] = sig.C0
  <2>1. 1 \in 1 .. (n + 1) + 1 /\ 1 <= n + 1 /\ 1 \in 1 .. 1 + n
    OBVIOUS
  <2>2. QED BY <1>4, <1>5, <1>6, <2>1
<1>8. b[n + 2] = sig.Tag
  <2>1. n + 2 \in 1 .. (n + 1) + 1 /\ ~ (n + 2 <= n + 1) /\ (n + 2) - (n + 1) = 1
    OBVIOUS
  <2>2. QED BY <1>4, <1>6, <2>1
<1>9. [i \in 0 .. n - 1 |-> b[i + 2]] = sig.S
  <2>1. ASSUME NEW i \in 0 .. n - 1 PROVE b[i + 2] = sig.S[i]
    <3>1. /\ i + 2 \in 1 .. (n + 1) + 1 /\ i + 2 <= n + 1 /\ i + 2 \in 1 .. 1 + n
          /\ ~ (i + 2 <= 1) /\ (i + 2) - 1 = i + 1 /\ i + 1 \in 1 .. n /\ (i + 1) - 1 = i
      OBVIOUS
    <3>2. QED BY <1>3, <1>5, <1>6, <3>1
  <2>2. QED BY <2>1
<1>10. Len(b) - 3 = n - 1
  BY <1>6
<1>11. decodeSignature(b) = [C0 |-> b[1], S |-> [i \in 0 .. n - 1 |-> b[i + 2]], Tag |-> b[n + 2]]
  BY <1>6, <1>10 DEF decodeSignature
<1>12. QED BY <1>2, <1>7, <1>8, <1>9, <1>11

------------------------------------------------------------------------------
(* The ring. *)

\* The challenge that follows challenge e at place i of the ring.
Around(pre, base, tag, L, s, i, e) ==
  signH1(pre, Add(Public(s[i]), Mul(e, L[i])), Add(Mul(s[i], base), Mul(e, tag)))

\* The next challenge is a challenge.
LEMMA AroundIs ==
  ASSUME NEW message \in Answers, NEW poll \in Scopes, NEW base \in Scalar, NEW tag \in Scalar,
         NEW n \in Nat, NEW L \in [0 .. n - 1 -> Scalar], NEW s \in [0 .. n - 1 -> Scalar],
         NEW i \in 0 .. n - 1, NEW e \in Scalar
  PROVE  Around(signH1pre(poll, tag, message), base, tag, L, s, i, e) \in Scalar
<1>1. \A a \in Scalar : a \in Int
  BY OrderAssumption DEF Scalar
<1>2. s[i] \in Scalar /\ L[i] \in Scalar
  OBVIOUS
<1>3. Public(s[i]) \in Scalar
  BY <1>2, PublicIs
<1>4. \A a, b \in Scalar : Mul(a, b) \in Scalar /\ Add(a, b) \in Scalar
  BY <1>1, Scalars
<1>5. /\ Add(Public(s[i]), Mul(e, L[i])) \in Scalar
      /\ Add(Mul(s[i], base), Mul(e, tag)) \in Scalar
  BY <1>2, <1>3, <1>4
<1>6. QED BY <1>5, HashIs DEF Around

\* What the signer is, has picked, and gets.
Signed(message, L, n, pi, scope, private, u, s, C, sig) ==
  LET base == pickPoint(scope)
      tag == Mul(private, base)
      pre == signH1pre(scope, tag, message)
  IN  /\ C \in [1 .. n -> Scalar]
      /\ C[1] = signH1(pre, Public(u), Mul(u, base))
      /\ \A d \in 2 .. n : C[d] = Around(pre, base, tag, L, s, (pi + (d - 1)) % n, C[d - 1])
      /\ sig = [C0  |-> C[CHOOSE d \in 1 .. n : (pi + d) % n = 0],
                S   |-> [s EXCEPT ![pi] = Sub(u, Mul(private, C[n]))],
                Tag |-> tag]

\* What Sign computes.
LEMMA SignIs ==
  ASSUME NEW message \in Answers, NEW set, NEW n \in Nat \ {0},
         sort(set) \in [0 .. n - 1 -> Scalar],
         NEW scope \in Scopes, NEW private \in Scalar, NEW u \in Scalar,
         sortSet(set, private) \in 0 .. n - 1,
         NEW s \in [0 .. n - 1 -> Scalar]
  PROVE  \E C : Signed(message, sort(set), n, sortSet(set, private), scope, private, u, s, C,
                       Sign(message, set, scope, private, u, s))
<1> DEFINE L == sort(set)
           pi == sortSet(set, private)
           base == pickPoint(scope)
           tag == Mul(private, base)
           pre == signH1pre(scope, tag, message)
           first == signH1(pre, Public(u), Mul(u, base))
           at(d) == (pi + d) % n
           Next1(e, d) == Around(pre, base, tag, L, s, at(d - 1), e)
           Is(f) == f = [d \in 1 .. n |-> IF d = 1 THEN first ELSE Next1(f[d - 1], d)]
           C == CHOOSE f : Is(f)
<1>0. /\ Cardinality(DOMAIN L) = n /\ pi \in Int /\ L \in [0 .. n - 1 -> Scalar]
      /\ base \in Scalar /\ tag \in Scalar /\ Mul(u, base) \in Scalar /\ Public(u) \in Scalar
      /\ pi \in 0 .. n - 1
  <2>1. \A a \in Scalar : a \in Int
    BY OrderAssumption DEF Scalar
  <2>2. base \in Scalar
    BY BaseIs
  <2>3. DOMAIN L = 0 .. n - 1
    OBVIOUS
  <2>4. Cardinality(DOMAIN L) = n
    BY <2>3, CountFromZero
  <2>5. tag \in Scalar /\ Mul(u, base) \in Scalar
    BY <2>1, <2>2, Scalars
  <2>6. Public(u) \in Scalar
    BY PublicIs
  <2>7. QED BY <2>2, <2>4, <2>5, <2>6
<1>1. first \in Scalar
  BY <1>0, HashIs
<1>2. ASSUME NEW d \in 1 .. n, NEW e \in Scalar PROVE Next1(e, d) \in Scalar
  <2>1. pi + (d - 1) \in Int
    BY <1>0
  <2>2. at(d - 1) \in 0 .. n - 1
    <3> DEFINE k == pi + (d - 1)
    <3>1. k \in Int
      BY <2>1
    <3> HIDE DEF k
    <3>2. (k % n) \in 0 .. n - 1
      BY <3>1, Remainder
    <3>3. QED BY <3>2 DEF k
  <2> HIDE DEF at, L, base, tag
  <2>3. QED BY <1>0, <2>2, AroundIs DEF pre
<1> HIDE DEF Next1, first
<1>3. \E f : Is(f)
  <2>0. PICK one \in Nat : one = 1
    OBVIOUS
  <2> DEFINE h == [d \in one .. n |-> [e \in Scalar |-> Next1(e, d)]]
  <2>1. h \in [one .. n -> [Scalar -> Scalar]]
    <3>1. \A d \in one .. n : d \in 1 .. n
      BY <2>0
    <3>2. QED BY <1>2, <3>1
  <2>2. \A d \in one .. n : \A e \in Scalar : h[d][e] = Next1(e, d)
    OBVIOUS
  <2> HIDE DEF h
  <2>3. n \in Nat /\ one <= n
    BY <2>0
  <2>4. PICK f \in [one .. n -> Scalar] :
          f[one] = first /\ \A d \in one + 1 .. n : f[d] = h[d][f[d - 1]]
    <3>1. HasAlong(Scalar, one, n, first, h)
      BY <1>1, <2>1, <2>3, AlongExists
    <3>2. QED BY <3>1 DEF HasAlong
  <2>5. ASSUME NEW d \in 1 .. n PROVE f[d] = IF d = 1 THEN first ELSE Next1(f[d - 1], d)
    <3>1. CASE d = 1
      BY <2>0, <2>4, <3>1
    <3>2. CASE d # 1
      <4>1. d \in one + 1 .. n /\ d \in one .. n /\ d - 1 \in one .. n
        BY <2>0, <3>2
      <4>2. f[d - 1] \in Scalar
        BY <4>1
      <4>3. QED BY <2>2, <2>4, <3>2, <4>1, <4>2
    <3>3. QED BY <3>1, <3>2
  <2>6. f = [d \in 1 .. n |-> IF d = 1 THEN first ELSE Next1(f[d - 1], d)]
    <3> DEFINE g == [d \in 1 .. n |-> IF d = 1 THEN first ELSE Next1(f[d - 1], d)]
    <3>1. \A d \in 1 .. n : f[d] = g[d]
      BY <2>5
    <3>2. f = [d \in one .. n |-> f[d]] /\ g = [d \in 1 .. n |-> g[d]]
      OBVIOUS
    <3> HIDE DEF g
    <3>3. f = g
      BY <2>0, <3>1, <3>2
    <3>4. QED BY <3>3 DEF g
  <2>7. QED BY <2>6
<1>4. Is(C)
  BY <1>3
<1>5. Sign(message, set, scope, private, u, s) =
        [C0  |-> C[CHOOSE d \in 1 .. n : at(d) = 0],
         S   |-> [s EXCEPT ![pi] = Sub(u, Mul(private, C[n]))],
         Tag |-> tag]
  <2> DEFINE m == Cardinality(DOMAIN L)
             c == CHOOSE f : f = [d \in 1 .. m |->
                    IF d = 1 THEN signH1(pre, Public(u), Mul(u, base))
                    ELSE signH1(pre, Add(Public(s[(pi + (d - 1)) % m]), Mul(f[d - 1], L[(pi + (d - 1)) % m])),
                                     Add(Mul(s[(pi + (d - 1)) % m], base), Mul(f[d - 1], tag)))]
  <2>1. Sign(message, set, scope, private, u, s) =
          [C0  |-> c[CHOOSE d \in 1 .. m : (pi + d) % m = 0],
           S   |-> [s EXCEPT ![pi] = Sub(u, Mul(private, c[m]))],
           Tag |-> tag]
    BY DEF Sign
  <2>2. m = n
    BY <1>0
  <2> HIDE DEF m
  <2>3. c = C
    BY <2>2 DEF Next1, Around, first
  <2> HIDE DEF c, C
  <2>4. QED BY <2>1, <2>2, <2>3
<1> HIDE DEF C
<1>6. /\ C = [d \in 1 .. n |-> C[d]]
      /\ \A d \in 1 .. n : C[d] = IF d = 1 THEN first ELSE Next1(C[d - 1], d)
  BY <1>4
<1>7. C[1] = first
  <2>1. 1 \in 1 .. n
    OBVIOUS
  <2>2. QED BY <1>6, <2>1
<1>8. ASSUME NEW d \in 2 .. n PROVE C[d] = Next1(C[d - 1], d)
  <2>1. d \in 1 .. n /\ d # 1
    OBVIOUS
  <2>2. QED BY <1>6, <2>1
<1>9. \A d \in 1 .. n : C[d] \in Scalar
  <2> SUFFICES ASSUME NEW k \in 1 .. n PROVE C[k] \in Scalar
    OBVIOUS
  <2> DEFINE G == {d \in 1 .. k : C[d] \in Scalar}
  <2>1. 1 \in G
    BY <1>1, <1>7
  <2>2. ASSUME NEW d \in 1 + 1 .. k, d - 1 \in G PROVE d \in G
    <3>1. d \in 2 .. n /\ d \in 1 .. n /\ d \in 1 .. k
      OBVIOUS
    <3>2. C[d] \in Scalar
      BY <1>2, <1>8, <2>2, <3>1
    <3>3. QED BY <3>1, <3>2
  <2> HIDE DEF G
  <2>3. k \in Nat /\ 1 \in Nat /\ 1 <= k
    OBVIOUS
  <2>4. k \in G
    BY <2>1, <2>2, <2>3, Along
  <2>5. QED BY <2>4 DEF G
<1>10. C \in [1 .. n -> Scalar]
  BY <1>6, <1>9
<1>11. \A d \in 2 .. n : C[d] = Around(pre, base, tag, L, s, at(d - 1), C[d - 1])
  BY <1>8 DEF Next1
<1>12. C[1] = signH1(pre, Public(u), Mul(u, base))
  BY <1>7 DEF first
<1>13. Signed(message, L, n, pi, scope, private, u, s, C, Sign(message, set, scope, private, u, s))
  BY <1>5, <1>10, <1>11, <1>12 DEF Signed
<1>14. QED BY <1>13

\* What the verifier computes from a signature.
Checked(message, L, n, scope, sig, V) ==
  LET base == pickPoint(scope)
      pre == signH1pre(scope, sig.Tag, message)
  IN  /\ V \in [0 .. n -> Scalar]
      /\ V[0] = sig.C0
      /\ \A i \in 1 .. n : V[i] = Around(pre, base, sig.Tag, L, sig.S, i - 1, V[i - 1])

\* What Verify computes.
LEMMA VerifyIs ==
  ASSUME NEW message \in Answers, NEW set, NEW n \in Nat \ {0},
         sort(set) \in [0 .. n - 1 -> Scalar], NEW scope \in Scopes,
         NEW buffer, NEW sig, sig = decodeSignature(buffer),
         sig.C0 \in Scalar, sig.Tag \in Scalar, sig.S \in [0 .. n - 1 -> Scalar]
  PROVE  \E V : /\ Checked(message, sort(set), n, scope, sig, V)
                /\ Verify(message, set, scope, buffer) =
                     [valid |-> V[n] = sig.C0, tag |-> IF V[n] = sig.C0 THEN sig.Tag ELSE 0]
<1> DEFINE L == sort(set)
           base == pickPoint(scope)
           tag == sig.Tag
           pre == signH1pre(scope, tag, message)
           first == sig.C0
           Next1(e, i) == Around(pre, base, tag, L, sig.S, i - 1, e)
           Is(f) == f = [i \in 0 .. n |-> IF i = 0 THEN first ELSE Next1(f[i - 1], i)]
           V == CHOOSE f : Is(f)
<1>0. /\ Cardinality(DOMAIN L) = n /\ L \in [0 .. n - 1 -> Scalar]
      /\ DOMAIN L = 0 .. n - 1 /\ DOMAIN sig.S = 0 .. n - 1
      /\ base \in Scalar /\ tag \in Scalar
  <2>1. base \in Scalar
    BY BaseIs
  <2>2. DOMAIN L = 0 .. n - 1
    OBVIOUS
  <2>3. Cardinality(DOMAIN L) = n
    BY <2>2, CountFromZero
  <2>4. QED BY <2>1, <2>2, <2>3
<1>1. first \in Scalar
  OBVIOUS
<1>2. ASSUME NEW i \in 1 .. n, NEW e \in Scalar PROVE Next1(e, i) \in Scalar
  <2>1. i - 1 \in 0 .. n - 1 /\ n \in Nat
    OBVIOUS
  <2> HIDE DEF L, base, tag
  <2>2. sig.S \in [0 .. n - 1 -> Scalar]
    OBVIOUS
  <2>3. QED BY <1>0, <2>1, <2>2, AroundIs DEF pre
<1> HIDE DEF Next1, first
<1>3. \E f : Is(f)
  <2>0. PICK zero \in Nat : zero = 0
    OBVIOUS
  <2> DEFINE h == [i \in zero .. n |-> [e \in Scalar |-> IF i = zero THEN first ELSE Next1(e, i)]]
  <2>1. h \in [zero .. n -> [Scalar -> Scalar]]
    <3>1. \A i \in zero .. n : i # zero => i \in 1 .. n
      BY <2>0
    <3>2. QED BY <1>1, <1>2, <3>1
  <2>2. \A i \in 1 .. n : \A e \in Scalar : h[i][e] = Next1(e, i)
    <3>1. \A i \in 1 .. n : i # zero /\ i \in zero .. n
      BY <2>0
    <3>2. QED BY <3>1
  <2> HIDE DEF h
  <2>3. n \in Nat /\ zero <= n
    BY <2>0
  <2>4. PICK f \in [zero .. n -> Scalar] :
          f[zero] = first /\ \A i \in zero + 1 .. n : f[i] = h[i][f[i - 1]]
    <3>1. HasAlong(Scalar, zero, n, first, h)
      BY <1>1, <2>1, <2>3, AlongExists
    <3>2. QED BY <3>1 DEF HasAlong
  <2>5. ASSUME NEW i \in 0 .. n PROVE f[i] = IF i = 0 THEN first ELSE Next1(f[i - 1], i)
    <3>1. CASE i = 0
      BY <2>0, <2>4, <3>1
    <3>2. CASE i # 0
      <4>1. i \in zero + 1 .. n /\ i \in 1 .. n /\ i - 1 \in zero .. n
        BY <2>0, <3>2
      <4>2. f[i - 1] \in Scalar
        BY <4>1
      <4>3. QED BY <2>2, <2>4, <3>2, <4>1, <4>2
    <3>3. QED BY <3>1, <3>2
  <2>6. f = [i \in 0 .. n |-> IF i = 0 THEN first ELSE Next1(f[i - 1], i)]
    <3> DEFINE g == [i \in 0 .. n |-> IF i = 0 THEN first ELSE Next1(f[i - 1], i)]
    <3>1. \A i \in 0 .. n : f[i] = g[i]
      BY <2>5
    <3>2. f = [i \in zero .. n |-> f[i]] /\ g = [i \in 0 .. n |-> g[i]]
      OBVIOUS
    <3> HIDE DEF g
    <3>3. f = g
      BY <2>0, <3>1, <3>2
    <3>4. QED BY <3>3 DEF g
  <2>7. QED BY <2>6
<1>4. Is(V)
  BY <1>3
<1>5. Verify(message, set, scope, buffer) =
        [valid |-> V[n] = sig.C0, tag |-> IF V[n] = sig.C0 THEN sig.Tag ELSE 0]
  <2> DEFINE m == Cardinality(DOMAIN L)
             c == CHOOSE f : f = [i \in 0 .. m |->
                    IF i = 0 THEN sig.C0
                    ELSE signH1(pre, Add(Public(sig.S[i - 1]), Mul(f[i - 1], L[i - 1])),
                                     Add(Mul(sig.S[i - 1], base), Mul(f[i - 1], sig.Tag)))]
  <2>1. Verify(message, set, scope, buffer) =
          IF DOMAIN sig.S # DOMAIN L THEN Rejected
          ELSE [valid |-> c[m] = sig.C0, tag |-> IF c[m] = sig.C0 THEN sig.Tag ELSE 0]
    BY DEF Verify
  <2>2. m = n
    BY <1>0
  <2> HIDE DEF m
  <2>3. c = V
    BY <2>2 DEF Next1, Around, first
  <2> HIDE DEF c, V, L
  <2>4. QED BY <1>0, <2>1, <2>2, <2>3
<1> HIDE DEF V
<1>6. /\ V = [i \in 0 .. n |-> V[i]]
      /\ \A i \in 0 .. n : V[i] = IF i = 0 THEN first ELSE Next1(V[i - 1], i)
  BY <1>4
<1>7. V[0] = first
  <2>1. 0 \in 0 .. n
    OBVIOUS
  <2>2. QED BY <1>6, <2>1
<1>8. ASSUME NEW i \in 1 .. n PROVE V[i] = Next1(V[i - 1], i)
  <2>1. i \in 0 .. n /\ i # 0
    OBVIOUS
  <2>2. QED BY <1>6, <2>1
<1>9. \A k \in 0 .. n : V[k] \in Scalar
  <2> SUFFICES ASSUME NEW k \in 0 .. n PROVE V[k] \in Scalar
    OBVIOUS
  <2> DEFINE G == {i \in 0 .. k : V[i] \in Scalar}
  <2>1. 0 \in G
    BY <1>1, <1>7
  <2>2. ASSUME NEW i \in 0 + 1 .. k, i - 1 \in G PROVE i \in G
    <3>1. i \in 1 .. n /\ i \in 0 .. k
      OBVIOUS
    <3>2. V[i] \in Scalar
      BY <1>2, <1>8, <2>2, <3>1
    <3>3. QED BY <3>1, <3>2
  <2> HIDE DEF G
  <2>3. k \in Nat /\ 0 \in Nat /\ 0 <= k
    OBVIOUS
  <2>4. k \in G
    BY <2>1, <2>2, <2>3, Along
  <2>5. QED BY <2>4 DEF G
<1>10. V \in [0 .. n -> Scalar]
  BY <1>6, <1>9
<1>11. \A i \in 1 .. n : V[i] = Around(pre, base, tag, L, sig.S, i - 1, V[i - 1])
  BY <1>8 DEF Next1
<1>12. V[0] = sig.C0
  BY <1>7 DEF first
<1>13. Checked(message, L, n, scope, sig, V)
  BY <1>10, <1>11, <1>12 DEF Checked
<1>14. QED BY <1>5, <1>13

\* Once round the ring the verifier is back at the challenge that it started from.
LEMMA RingIsClosed ==
  ASSUME NEW message \in Answers, NEW n \in Nat \ {0}, NEW L \in [0 .. n - 1 -> Scalar],
         NEW pi \in 0 .. n - 1, NEW scope \in Scopes, NEW private \in Scalar,
         L[pi] = Public(private), NEW u \in Scalar, NEW s \in [0 .. n - 1 -> Scalar],
         NEW C, NEW sig, Signed(message, L, n, pi, scope, private, u, s, C, sig),
         NEW V, Checked(message, L, n, scope, sig, V)
  PROVE  V[n] = sig.C0
<1> DEFINE base == pickPoint(scope)
           tag == Mul(private, base)
           pre == signH1pre(scope, tag, message)
           z == Sub(u, Mul(private, C[n]))
<1>1. /\ C \in [1 .. n -> Scalar]
      /\ C[1] = signH1(pre, Public(u), Mul(u, base))
      /\ \A d \in 2 .. n : C[d] = Around(pre, base, tag, L, s, (pi + (d - 1)) % n, C[d - 1])
      /\ sig = [C0  |-> C[CHOOSE d \in 1 .. n : (pi + d) % n = 0],
                S   |-> [s EXCEPT ![pi] = z],
                Tag |-> tag]
  BY DEF Signed
<1>2. /\ V \in [0 .. n -> Scalar] /\ V[0] = sig.C0
      /\ \A i \in 1 .. n : V[i] = Around(pre, base, tag, L, sig.S, i - 1, V[i - 1])
  BY <1>1 DEF Checked
<1>3. pi \in Int /\ 0 <= pi /\ pi < n /\ n \in Int /\ base \in Scalar
  BY BaseIs
<1>4. sig.S[pi] = z /\ \A i \in 0 .. n - 1 : i # pi => sig.S[i] = s[i]
  BY <1>1
<1>5. V[0] = C[n - pi]
  <2>1. \A d \in 1 .. n : (pi + d) % n = 0 <=> d = n - pi
    <3> SUFFICES ASSUME NEW d \in 1 .. n PROVE ((pi + d) % n) = 0 <=> d = n - pi
      OBVIOUS
    <3>1. CASE pi + d < n
      <4> DEFINE k == pi + d
      <4>1. k \in 0 .. n - 1 /\ k # 0 /\ d # n - pi
        BY <1>3, <3>1
      <4> HIDE DEF k
      <4>2. (k % n) = k
        BY <4>1, RingPlace
      <4>3. QED BY <4>1, <4>2 DEF k
    <3>2. CASE ~ (pi + d < n)
      <4> DEFINE k == pi + d - n
      <4>1. k \in 0 .. n - 1 /\ pi + d = n + k /\ (k = 0 <=> d = n - pi)
        BY <1>3, <3>2
      <4> HIDE DEF k
      <4>2. ((n + k) % n) = k
        BY <4>1, RingPlace
      <4>3. QED BY <4>1, <4>2
    <3>3. QED BY <3>1, <3>2
  <2>2. n - pi \in 1 .. n
    BY <1>3
  <2> DEFINE d0 == CHOOSE d \in 1 .. n : (pi + d) % n = 0
  <2>3. d0 = n - pi
    BY <2>1, <2>2
  <2> HIDE DEF d0
  <2>4. sig.C0 = C[d0]
    BY <1>1 DEF d0
  <2>5. QED BY <1>2, <2>3, <2>4
<1> HIDE DEF pre, tag, base, z
\* The signer's challenge that follows the one at place i, for another member.
<1>6. ASSUME NEW d \in 1 .. n - 1, NEW i \in 0 .. n - 1, i # pi, NEW w,
             w = pi + d, w = i \/ w = n + i, V[i] = C[d]
      PROVE  V[i + 1] = C[d + 1]
  <2>1. d + 1 \in 2 .. n /\ (d + 1) - 1 = d
    BY <1>3
  <2>2. C[d + 1] = Around(pre, base, tag, L, s, w % n, C[d])
    BY <1>1, <1>6, <2>1
  <2>3. (w % n) = i
    BY <1>6, RingPlace
  <2>4. i + 1 \in 1 .. n /\ (i + 1) - 1 = i
    BY <1>3
  <2>5. V[i + 1] = Around(pre, base, tag, L, sig.S, i, V[i])
    BY <1>2, <2>4
  <2>6. sig.S[i] = s[i]
    BY <1>4, <1>6
  <2>7. QED BY <1>6, <2>2, <2>3, <2>5, <2>6 DEF Around
<1>7. V[pi] = C[n]
  <2> DEFINE G == {i \in 0 .. pi : V[i] = C[n - pi + i]}
  <2>1. 0 \in G
    <3>1. n - pi + 0 = n - pi /\ 0 \in 0 .. pi
      BY <1>3
    <3>2. QED BY <1>5, <3>1
  <2>2. ASSUME NEW i \in 0 + 1 .. pi, i - 1 \in G PROVE i \in G
    <3> DEFINE j == i - 1
               d == n - pi + j
    <3>1. /\ j \in 0 .. n - 1 /\ j # pi /\ d \in 1 .. n - 1 /\ pi + d = n + j
          /\ j + 1 = i /\ d + 1 = n - pi + i /\ i \in 0 .. pi
      BY <1>3
    <3>2. V[j] = C[d]
      BY <2>2
    <3> HIDE DEF j, d
    <3>3. V[j + 1] = C[d + 1]
      BY <1>6, <3>1, <3>2
    <3>4. QED BY <3>1, <3>3
  <2> HIDE DEF G
  <2>3. pi \in Nat /\ 0 \in Nat /\ 0 <= pi
    BY <1>3
  <2>4. pi \in G
    BY <2>1, <2>2, <2>3, Along
  <2>5. V[pi] = C[n - pi + pi]
    BY <2>4 DEF G
  <2>6. n - pi + pi = n
    BY <1>3
  <2>7. QED BY <2>5, <2>6
<1>8. V[pi + 1] = C[1]
  <2>1. pi + 1 \in 1 .. n /\ (pi + 1) - 1 = pi /\ n \in 1 .. n
    BY <1>3
  <2>2. V[pi + 1] = Around(pre, base, tag, L, sig.S, pi, C[n])
    BY <1>2, <1>7, <2>1
  <2> DEFINE c == C[n]
  <2>3. c \in Scalar
    BY <1>1, <2>1
  <2>4. z = Sub(u, Mul(private, c))
    BY DEF z
  <2> HIDE DEF c
  <2>5. Add(Mul(z, base), Mul(c, tag)) = Mul(u, base)
    BY <1>3, <2>3, <2>4, RingCloses DEF tag
  <2>6. 1 \in Scalar
    BY OrderAssumption DEF Scalar
  <2>7. Add(Public(z), Mul(c, L[pi])) = Public(u)
    BY <2>3, <2>4, <2>6, RingCloses DEF Public
  <2>8. QED BY <1>1, <1>4, <2>2, <2>5, <2>7 DEF Around, c
<1>9. V[n] = C[n - pi]
  <2> DEFINE G == {i \in pi + 1 .. n : V[i] = C[i - pi]}
             m == pi + 1
  <2>1. m \in G
    <3>1. pi + 1 \in pi + 1 .. n /\ pi + 1 - pi = 1
      BY <1>3
    <3>2. QED BY <1>8, <3>1
  <2>2. ASSUME NEW i \in m + 1 .. n, i - 1 \in G PROVE i \in G
    <3> DEFINE j == i - 1
               d == j - pi
    <3>1. /\ j \in 0 .. n - 1 /\ j # pi /\ d \in 1 .. n - 1 /\ pi + d = j
          /\ j + 1 = i /\ d + 1 = i - pi /\ i \in pi + 1 .. n
      BY <1>3
    <3>2. V[j] = C[d]
      BY <2>2
    <3> HIDE DEF j, d
    <3>3. V[j + 1] = C[d + 1]
      BY <1>6, <3>1, <3>2
    <3>4. QED BY <3>1, <3>3
  <2>3. n \in Nat /\ m \in Nat /\ m <= n
    BY <1>3
  <2> HIDE DEF G, m
  <2>4. n \in G
    BY <2>1, <2>2, <2>3, Along
  <2>5. QED BY <2>4 DEF G
<1>10. QED BY <1>2, <1>5, <1>9

\* Whatever the order of the two lists and what the signer picks, its answer counts.
LEMMA AnswerVerifies ==
  ASSUME NEW keys \in SUBSET (1 .. q - 1), NEW x \in keys, NEW poll \in Scopes,
         NEW choice \in Answers, NEW u \in Scalar,
         NEW page \in Lists(keys), NEW service \in Lists(keys),
         NEW s \in [DOMAIN page -> Scalar]
  PROVE  Verify(choice, service, poll, pollAnswer(x, page, poll, choice, u, s)) =
           [valid |-> TRUE, tag |-> Mul(x, pickPoint(poll))]
<1> DEFINE n == Cardinality(keys)
           L == sort(page)
           pi == sortSet(page, x)
           sig == Sign(choice, page, poll, x, u, s)
<1>0. /\ q \in Nat \ {0} /\ Scalar \subseteq Int /\ 1 .. q - 1 \subseteq Scalar
      /\ IsFiniteSet(keys) /\ keys \in SUBSET Nat
  <2>1. q \in Nat \ {0} /\ q - 1 \in Int /\ 1 \in Int
    BY OrderAssumption
  <2>2. IsFiniteSet(1 .. q - 1)
    BY <2>1, FS_Interval
  <2>3. IsFiniteSet(keys)
    BY <2>2, FS_Subset
  <2>4. Scalar \subseteq Int /\ 1 .. q - 1 \subseteq Scalar /\ 1 .. q - 1 \subseteq Nat
    BY <2>1 DEF Scalar
  <2>5. QED BY <2>1, <2>3, <2>4
<1>1. n \in Nat \ {0}
  <2>1. n \in Nat /\ (n = 0 <=> keys = {})
    BY <1>0, FS_CardinalityType, FS_EmptySet
  <2>2. QED BY <2>1
<1>2. /\ L \in [0 .. n - 1 -> keys] /\ sort(service) = L
      /\ \A p \in keys : \E i \in 0 .. n - 1 : L[i] = p
  BY <1>0, SortIs
<1>3. page \in [0 .. n - 1 -> keys] /\ s \in [0 .. n - 1 -> Scalar]
  BY DEF Lists
<1> HIDE DEF n, L
<1>4. L \in [0 .. n - 1 -> Scalar] /\ x \in Scalar
  BY <1>0, <1>2
<1>5. Public(x) = x
  BY <1>4, PublicIs
<1>6. pi \in 0 .. n - 1 /\ L[pi] = Public(x)
  <2>1. pi = CHOOSE i \in DOMAIN page : L[i] = Public(x)
    BY DEF sortSet, L
  <2>2. DOMAIN page = 0 .. n - 1
    BY <1>3
  <2>3. \E i \in 0 .. n - 1 : L[i] = Public(x)
    BY <1>2, <1>5
  <2> HIDE DEF pi
  <2>4. QED BY <2>1, <2>2, <2>3
<1> HIDE DEF pi, sig
<1>7. PICK C : Signed(choice, L, n, pi, poll, x, u, s, C, sig)
  <2>1. sort(page) \in [0 .. n - 1 -> Scalar] /\ sortSet(page, x) \in 0 .. n - 1
    BY <1>4, <1>6 DEF L, pi
  <2>2. \E C : Signed(choice, sort(page), n, sortSet(page, x), poll, x, u, s, C,
                      Sign(choice, page, poll, x, u, s))
    BY <1>1, <1>3, <1>4, <2>1, SignIs
  <2>3. QED BY <2>2 DEF L, pi, sig
<1>8. /\ sig = [C0 |-> sig.C0, S |-> sig.S, Tag |-> sig.Tag]
      /\ sig.C0 \in Scalar /\ sig.Tag \in Scalar /\ sig.S \in [0 .. n - 1 -> Scalar]
      /\ sig.Tag = Mul(x, pickPoint(poll))
  <2> DEFINE d0 == CHOOSE d \in 1 .. n : (pi + d) % n = 0
             tag == Mul(x, pickPoint(poll))
             z == Sub(u, Mul(x, C[n]))
  <2>1. /\ C \in [1 .. n -> Scalar]
        /\ sig = [C0 |-> C[d0], S |-> [s EXCEPT ![pi] = z], Tag |-> tag]
    BY <1>7 DEF Signed
  <2>2. d0 \in 1 .. n
    <3>1. \E d \in 1 .. n : ((pi + d) % n) = 0
      <4>1. n - pi \in 1 .. n /\ pi + (n - pi) = n + 0 /\ 0 \in 0 .. n - 1
        BY <1>1, <1>6
      <4>2. ((n + 0) % n) = 0
        BY <1>1, <4>1, RingPlace
      <4>3. ((pi + (n - pi)) % n) = 0
        BY <4>1, <4>2
      <4>4. QED BY <4>1, <4>3
    <3>2. QED BY <3>1
  <2> HIDE DEF d0
  <2>3. z \in Scalar
    <3>1. n \in 1 .. n
      BY <1>1
    <3>2. C[n] \in Scalar
      BY <2>1, <3>1
    <3>3. Mul(x, C[n]) \in Scalar
      BY <1>0, <1>4, <3>2, Scalars
    <3>4. QED BY <1>0, <3>3, Scalars
  <2>4. tag \in Scalar
    BY <1>0, <1>4, BaseIs, Scalars
  <2> HIDE DEF z, tag
  <2>5. C[d0] \in Scalar
    BY <2>1, <2>2
  <2>6. [s EXCEPT ![pi] = z] \in [0 .. n - 1 -> Scalar]
    BY <1>3, <2>3
  <2>7. QED BY <2>1, <2>4, <2>5, <2>6 DEF tag
<1> DEFINE buffer == encode(sig)
<1>9. sig = decodeSignature(buffer)
  BY <1>1, <1>8, DecodesEncoded
<1> HIDE DEF buffer
<1>10. PICK V : /\ Checked(choice, L, n, poll, sig, V)
                /\ Verify(choice, service, poll, buffer) =
                     [valid |-> V[n] = sig.C0, tag |-> IF V[n] = sig.C0 THEN sig.Tag ELSE 0]
  <2>1. sort(service) \in [0 .. n - 1 -> Scalar]
    BY <1>2, <1>4
  <2>2. \E V : /\ Checked(choice, sort(service), n, poll, sig, V)
               /\ Verify(choice, service, poll, buffer) =
                     [valid |-> V[n] = sig.C0, tag |-> IF V[n] = sig.C0 THEN sig.Tag ELSE 0]
    BY <1>1, <1>8, <1>9, <2>1, VerifyIs
  <2>3. QED BY <1>2, <2>2
<1>11. V[n] = sig.C0
  <2>1. Checked(choice, L, n, poll, sig, V) /\ Signed(choice, L, n, pi, poll, x, u, s, C, sig)
    BY <1>7, <1>10
  <2>2. /\ n \in Nat \ {0} /\ L \in [0 .. n - 1 -> Scalar] /\ pi \in 0 .. n - 1
        /\ x \in Scalar /\ L[pi] = Public(x) /\ s \in [0 .. n - 1 -> Scalar]
    BY <1>1, <1>3, <1>4, <1>6
  <2>3. QED BY <2>1, <2>2, RingIsClosed, SMTT(60)
<1>12. pollAnswer(x, page, poll, choice, u, s) = buffer
  BY DEF pollAnswer, buffer, sig
<1>13. QED BY <1>8, <1>10, <1>11, <1>12

\* Parties of any size below the order of the group can answer polls.
LEMMA EverySizeAnswers == SizesThatAnswer = 1 .. q - 1
<1> SUFFICES ASSUME NEW privates \in SUBSET (1 .. q - 1) PROVE AnswersCount(privates)
  BY DEF SizesThatAnswer
<1> DEFINE keys == {Public(x) : x \in privates}
           lists == Lists(keys)
           First == CHOOSE l \in lists : TRUE
<1>0. q \in Nat \ {0} /\ 1 .. q - 1 \subseteq Scalar
  BY OrderAssumption DEF Scalar
<1>1. keys = privates
  <2>1. \A x \in privates : Public(x) = x
    BY <1>0, PublicIs
  <2>2. QED BY <2>1
<1> HIDE DEF keys
<1>2. \A page \in lists : First \in lists
  OBVIOUS
<1> HIDE DEF First, lists
<1> SUFFICES ASSUME NEW poll \in Scopes
             PROVE  LET tag == [x \in privates |->
                                  Sign(0, First, poll, x, 0, [i \in DOMAIN First |-> 0]).Tag] IN
        /\ \A x, y \in privates : tag[x] = tag[y] => x = y
        /\ \A x \in privates, choice \in Answers, u \in Scalar, r \in Scalar :
           \A page \in lists :
             LET answer == pollAnswer(x, page, poll, choice, u, [i \in DOMAIN page |-> (r + i) % q])
             IN  \A service \in {First, page} :
                   Verify(choice, service, poll, answer) = [valid |-> TRUE, tag |-> tag[x]]
  BY DEF AnswersCount, keys, lists, First
<1> DEFINE tag == [x \in privates |-> Sign(0, First, poll, x, 0, [i \in DOMAIN First |-> 0]).Tag]
<1>3. \A x \in privates : tag[x] = Mul(x, pickPoint(poll))
  <2>1. ASSUME NEW x \in privates
        PROVE  Sign(0, First, poll, x, 0, [i \in DOMAIN First |-> 0]).Tag = Mul(x, pickPoint(poll))
    BY DEF Sign
  <2>2. QED BY <2>1
<1> HIDE DEF tag
<1>4. ASSUME NEW x \in privates, NEW y \in privates, tag[x] = tag[y] PROVE x = y
  <2>1. Mul(x, pickPoint(poll)) = Mul(y, pickPoint(poll))
    BY <1>3, <1>4
  <2>2. pickPoint(poll) \in 1 .. q - 1
    BY BaseIs
  <2> DEFINE b == pickPoint(poll)
  <2> HIDE DEF b
  <2>3. b \in 1 .. q - 1 /\ Mul(x, b) = Mul(y, b)
    BY <2>1, <2>2 DEF b
  <2>4. QED BY <2>3, TagsDiffer
<1>5. ASSUME NEW x \in privates, NEW choice \in Answers, NEW u \in Scalar, NEW r \in Scalar,
             NEW page \in lists, NEW service \in {First, page}
      PROVE  Verify(choice, service, poll,
                    pollAnswer(x, page, poll, choice, u, [i \in DOMAIN page |-> (r + i) % q]))
               = [valid |-> TRUE, tag |-> tag[x]]
  <2> DEFINE s == [i \in DOMAIN page |-> (r + i) % q]
  <2>1. page \in Lists(keys) /\ service \in Lists(keys)
    BY <1>2 DEF lists
  <2>2. s \in [DOMAIN page -> Scalar]
    <3>1. DOMAIN page \subseteq Int
      BY <2>1 DEF Lists
    <3>2. ASSUME NEW i \in DOMAIN page PROVE ((r + i) % q) \in Scalar
      <4> DEFINE k == r + i
      <4>1. k \in Int
        BY <1>0, <3>1 DEF Scalar
      <4> HIDE DEF k
      <4>2. (k % q) \in 0 .. q - 1
        BY <1>0, <4>1, Remainder
      <4>3. QED BY <4>2 DEF k, Scalar
    <3>3. QED BY <3>2
  <2> HIDE DEF s
  <2>3. Verify(choice, service, poll, pollAnswer(x, page, poll, choice, u, s)) =
          [valid |-> TRUE, tag |-> Mul(x, pickPoint(poll))]
    BY <1>1, <2>1, <2>2, AnswerVerifies
  <2>4. QED BY <1>3, <2>3 DEF s
<1>6. QED BY <1>4, <1>5 DEF tag

\* When the party is finalised, its attendees, of whom there are fewer than the group has
\* elements, can answer polls: the answer of each verifies against the final list in
\* whatever order page and service have it, and is counted for that attendee only.
THEOREM AttendeesAnswer == Spec => []AttendeesCanAnswer
<1>1. IInv => AttendeesCanAnswer
  <2> SUFFICES ASSUME IInv PROVE AttendeesCanAnswer
    OBVIOUS
  <2> DEFINE A == party.struct.attendees
  <2>1. A \subseteq Users
    BY DEF IInv, Shapes, PartyOnLedger, Struct
  <2> HIDE DEF A
  <2>2. IsFiniteSet(A) /\ Cardinality(A) <= Cardinality(Users)
    BY <2>1, GroupAssumption, FS_Subset
  <2>3. Cardinality(A) \in Nat /\ Cardinality(Users) \in Nat
    BY <2>2, GroupAssumption, FS_CardinalityType
  <2>4. q \in Nat
    BY OrderAssumption
  <2>5. Cardinality(A) \in {0} \cup 1 .. q - 1
    BY <2>2, <2>3, <2>4, GroupAssumption
  <2>6. Cardinality(A) \in {0} \cup SizesThatAnswer
    BY <2>5, EverySizeAnswers
  <2>7. QED BY <2>6 DEF AttendeesCanAnswer, A
<1>2. QED BY <1>1, InitEstablishes, Inductive, PTL DEF Spec

==============================================================================
