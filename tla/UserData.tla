-------------------------------- MODULE UserData --------------------------------
(***************************************************************************)
(* What the page of a user holds of coins, parties, badges and games       *)
(* (Data.ts, Party.ts, Badge.ts, coin-instance.ts), what its browser       *)
(* stores of them, and the coins on the ledger.  PopParty and RoPaSci add  *)
(* the operations.                                                         *)
(*                                                                         *)
(* Every user has one page.  A user stands, too, for its personhood key.   *)
(***************************************************************************)
EXTENDS Integers, FiniteSets

CONSTANTS
  Users,
  Initially,      \* Initially[u]: the coins that u starts with
  MaxReloads,     \* bound: pages that are loaded again
  Games           \* rock-paper-scissors games that may be spawned

ASSUME CoinsAssumption == Initially \in [Users -> Nat]
ASSUME LoadsAssumption == MaxReloads \in Nat

VARIABLES
  coins,       \* coins[u]: the balance on the ledger
  held,        \* held[u]: the balance of the coin instance of the page
  inst,        \* inst[u]: the party and the badges of the page
  rps,         \* rps[u][g]: the game, as the page has it
  stored,      \* stored[u]: the object in the storage of the browser
  reloads      \* pages loaded again so far

coinVars == <<coins, held>>

NONE        == 0         \* there is no party
PRE_BARRIER == 1
SCANNING    == 2
FINALIZED   == 3

Struct  == [state : NONE .. FINALIZED, attendees : SUBSET Users]
NoParty == [state |-> NONE, attendees |-> {}]

\* struct: popPartyStruct, NoParty if the party is not in `parties'; tmp: tmpAttendees;
\* updating: a transaction has been included and the update is still to come; fetching:
\* fetchOrgKeys is running, for an `update' or for the whole `list' of parties.
NoInst == [struct |-> NoParty, tmp |-> {}, updating |-> FALSE, fetching |-> "no", badges |-> 0]

\* move: the choice and the fill-up that the page remembers, if it does.
NoMove   == <<>>
NoGame   == [on |-> FALSE]
NoRoPaSci == [struct |-> NoGame, move |-> NoMove]

UserInit ==
  /\ coins = Initially /\ held = Initially /\ reloads = 0
  /\ inst = [u \in Users |-> NoInst]
  /\ rps = [u \in Users |-> [g \in Games |-> NoRoPaSci]]
  /\ stored = [u \in Users |-> [party |-> NoParty, badges |-> 0, games |-> [g \in Games |-> NoGame]]]

\* Data.save stores everything that the page has after the step.  The moves and the
\* scanned keys are fields of the instances that Instance.fromBytes does not restore.
save(u) ==
  stored' = [stored EXCEPT ![u] =
    [party |-> inst'[u].struct, badges |-> inst'[u].badges,
     games |-> [g \in Games |-> rps'[u][g].struct]]]

\* connectByzcoin: of the badges with one name the first is kept.
Loaded(o) ==
  [NoInst EXCEPT !.struct = o.party, !.badges = IF o.badges = 0 THEN 0 ELSE 1]

\* The page is loaded again from what is stored, and reads the balance.
Reload(u) ==
  /\ reloads < MaxReloads
  /\ reloads' = reloads + 1
  /\ inst' = [inst EXCEPT ![u] = Loaded(stored[u])]
  /\ rps' = [rps EXCEPT ![u] = [g \in Games |-> [NoRoPaSci EXCEPT !.struct = stored[u].games[g]]]]
  /\ held' = [held EXCEPT ![u] = coins[u]]
  /\ UNCHANGED <<coins, stored>>

\* `fetch' takes coins out of an account; a transaction with it is refused otherwise.
fetch(u, n) ==
  /\ coins[u] >= n
  /\ coins' = [coins EXCEPT ![u] = @ - n]

\* CoinInstance.update
update(u) ==
  /\ held' = [held EXCEPT ![u] = coins[u]]
  /\ UNCHANGED <<coins, inst, rps, stored, reloads>>
==============================================================================
