-------------------------------- MODULE Signup --------------------------------
(***************************************************************************)
(* How a user of DynaSent comes to an account (src/lib/Data.ts,            *)
(* src/app/app.component.ts, spawner-instance.ts and darc-instance.ts).    *)
(*                                                                         *)
(* A registered user creates the account for a random ephemeral key, with  *)
(* three transactions paid from the user's coins, and is shown the key.    *)
(* Whoever enters the key in a browser takes the account over: the device  *)
(* darc evolves to the key of that browser, signed by the ephemeral key.   *)
(*                                                                         *)
(* Several accounts are created at the same time, the same ephemeral key   *)
(* is entered in several browsers, every call may be reported as failed    *)
(* while its transaction is on its way, nodes answer with old versions,    *)
(* and pages are reloaded at any time.                                     *)
(*                                                                         *)
(* The ledger is external.  A transaction is included as a whole or        *)
(* refused; why else than for coins, versions or signatures it is refused  *)
(* (the counters, see ClientTransaction) is left open.                     *)
(***************************************************************************)
EXTENDS Naturals, FiniteSets, Sequences

CONSTANTS
  Ephemerals,      \* the ephemeral keys that are drawn, one per createUser
  Devices,         \* the browsers where ephemeral keys are entered
  CostDarc, CostCoin, CostCredential,  \* prices of the spawner
  Balance,         \* the coins of the user who creates the accounts
  MaxKeys,         \* bound: how many identity keys a browser draws
  MaxEvolves       \* bound: how many transactions the browsers send

ASSUME CostsAssumption ==
  {CostDarc, CostCoin, CostCredential, Balance} \subseteq Nat
ASSUME BoundsAssumption == MaxKeys \in Nat \ {0} /\ MaxEvolves \in Nat

\* The transactions of createUser, in this order.
Spawns == {"darcs", "coin", "credential"}

\* What a transaction fetches from the coin instance.
Cost == [darcs |-> 4 * CostDarc, coin |-> CostCoin, credential |-> CostCredential]

Fates == {"none", "pool", "included", "refused"}

\* The i-th identity key of a browser.
DeviceKeys == Devices \X (1 .. MaxKeys)

\* Keys and the sign of no account are told apart.
NoAccount == "none"
ASSUME KeysAssumption ==
  NoAccount \notin Ephemerals /\ Ephemerals \cap DeviceKeys = {}

VARIABLES
  step,      \* step[k]: how far createUser is with the account of k
  spawn,     \* spawn[k][s]: what became of transaction s for k
  balance,   \* the ledger: the coins of the creator
  darc,      \* the ledger: the device darc of k, its version and signers
  page,      \* page[d]: what the page of browser d is doing
  identity,  \* identity[d]: which of its keys the page has in memory
  drawn,     \* drawn[d]: how many keys the browser has drawn so far
  stored,    \* stored[d]: what the browser's storage holds
  account,   \* account[d]: the account the page is attaching to, or has
  evolves,   \* the transactions of the browsers, in order
  current    \* current[d]: the one that the page waits for, 0 for none

creatorVars == <<step, spawn, balance>>
deviceVars == <<page, identity, drawn, stored, account, current>>
vars == <<creatorVars, darc, deviceVars, evolves>>

Steps == {"idle"} \cup Spawns \cup {"connect", "save", "shown", "failed"}

Evolve == [key : DeviceKeys, account : Ephemerals, base : 0 .. MaxEvolves, fate : Fates]

TypeOK ==
  /\ step \in [Ephemerals -> Steps]
  /\ spawn \in [Ephemerals -> [Spawns -> Fates]]
  /\ balance \in 0 .. Balance
  /\ darc \in [Ephemerals -> [version : 0 .. MaxEvolves,
                              keys : SUBSET (Ephemerals \cup DeviceKeys)]]
  /\ page \in [Devices -> {"open", "reading", "sent", "registered"}]
  /\ drawn \in [Devices -> 1 .. MaxKeys]
  /\ identity \in [Devices -> 1 .. MaxKeys]
  /\ stored \in [Devices -> [key : 0 .. MaxKeys, account : Ephemerals \cup {NoAccount}]]
  /\ account \in [Devices -> Ephemerals \cup {NoAccount}]
  /\ evolves \in Seq(Evolve)
  /\ current \in [Devices -> 0 .. MaxEvolves]

Init ==
  /\ step = [k \in Ephemerals |-> "idle"]
  /\ spawn = [k \in Ephemerals |-> [s \in Spawns |-> "none"]]
  /\ balance = Balance
  /\ darc = [k \in Ephemerals |-> [version |-> 0, keys |-> {}]]
  /\ page = [d \in Devices |-> "open"]
  /\ identity = [d \in Devices |-> 1]
  /\ drawn = [d \in Devices |-> 1]
  /\ stored = [d \in Devices |-> [key |-> 0, account |-> NoAccount]]
  /\ account = [d \in Devices |-> NoAccount]
  /\ evolves = <<>>
  /\ current = [d \in Devices |-> 0]

------------------------------------------------------------------------------
(* The creator: createContact and createUser. *)

Enter(k, s) ==
  /\ step' = [step EXCEPT ![k] = s]
  /\ UNCHANGED <<balance, darc, deviceVars, evolves>>

CreateUser(k) ==
  step[k] = "idle" /\ Enter(k, "darcs") /\ UNCHANGED spawn

\* spawnDarc, spawnCoin or spawnCredential sends its transaction.  The check
\* whether the instance exists finds none, since the key is new.
SendSpawn(k, s) ==
  /\ step[k] = s
  /\ spawn[k][s] = "none"
  /\ spawn' = [spawn EXCEPT ![k][s] = "pool"]
  /\ UNCHANGED <<step, balance, darc, deviceVars, evolves>>

NextStep == [darcs |-> "coin", coin |-> "credential", credential |-> "connect",
             connect |-> "save", save |-> "shown"]

\* Bug: createUser does not wait for the transaction.
SpawnDoneEarly(k, s) ==
  /\ step[k] = s
  /\ spawn[k][s] \in {"pool", "included"}
  /\ Enter(k, NextStep[s])
  /\ UNCHANGED spawn

\* The node tells that the transaction is in a block.
SpawnDone(k, s) ==
  /\ step[k] = s
  /\ spawn[k][s] = "included"
  /\ Enter(k, NextStep[s])
  /\ UNCHANGED spawn

\* connectByzcoin has read the new instances; then save has stored the contact
\* and the dialog shows the ephemeral key.
Connected(k) == step[k] = "connect" /\ Enter(k, NextStep["connect"]) /\ UNCHANGED spawn
ShowKey(k) == step[k] = "save" /\ Enter(k, NextStep["save"]) /\ UNCHANGED spawn

\* A refusal, a reply that does not come, a node that does not have the new
\* instance yet, sendUpdate in save, or the page is reloaded: the key is lost.
CreateFails(k) ==
  /\ step[k] \in Spawns \cup {"connect", "save"}
  /\ Enter(k, "failed")
  /\ UNCHANGED spawn

------------------------------------------------------------------------------
(* The browser where the ephemeral key is entered: addID, attachAndEvolve. *)

deviceUnchanged == UNCHANGED <<creatorVars, darc>>

Attach(d, k) ==
  /\ page[d] = "open"
  /\ step[k] = "shown"
  /\ page' = [page EXCEPT ![d] = "reading"]
  /\ account' = [account EXCEPT ![d] = k]
  /\ deviceUnchanged
  /\ UNCHANGED <<identity, drawn, stored, evolves, current>>

\* The device darc arrives, perhaps an old version of it.
SendEvolve(d, version) ==
  /\ page[d] = "reading"
  /\ version <= darc[account[d]].version
  /\ Len(evolves) < MaxEvolves
  /\ page' = [page EXCEPT ![d] = "sent"]
  /\ evolves' = Append(evolves, [key |-> <<d, identity[d]>>, account |-> account[d],
                                 base |-> version, fate |-> "pool"])
  /\ current' = [current EXCEPT ![d] = Len(evolves) + 1]
  /\ deviceUnchanged
  /\ UNCHANGED <<identity, drawn, stored, account>>

\* Bug: the answer of the node is not looked at.
AnsweredAny(d) ==
  /\ page[d] = "sent"
  /\ evolves[current[d]].fate # "pool"

\* The transaction is in a block, as the node tells.
Answered(d) ==
  /\ page[d] = "sent"
  /\ evolves[current[d]].fate = "included"

\* Then addID saves key and account.
EvolveDone(d) ==
  /\ Answered(d)
  /\ page' = [page EXCEPT ![d] = "registered"]
  /\ stored' = [stored EXCEPT ![d] = [key |-> identity[d], account |-> account[d]]]
  /\ deviceUnchanged
  /\ UNCHANGED <<identity, drawn, account, evolves, current>>

\* A refusal, a reply that does not come, or a read that fails.
AttachFails(d) ==
  /\ page[d] \in {"reading", "sent"}
  /\ page' = [page EXCEPT ![d] = "open"]
  /\ deviceUnchanged
  /\ UNCHANGED <<identity, drawn, stored, account, evolves, current>>

\* Bug: no key is drawn when none is stored.
LoadFromWithoutKey(d, s) ==
  /\ identity' = [identity EXCEPT ![d] = s.key]
  /\ page' = [page EXCEPT ![d] = IF s.account = NoAccount THEN "open" ELSE "registered"]
  /\ account' = [account EXCEPT ![d] = s.account]
  /\ current' = [current EXCEPT ![d] = 0]
  /\ UNCHANGED drawn

\* The page loads what is stored; without a key it draws a new one.
LoadFrom(d, s) ==
  /\ IF s.key = 0 THEN /\ drawn[d] < MaxKeys
                       /\ drawn' = [drawn EXCEPT ![d] = @ + 1]
                       /\ identity' = [identity EXCEPT ![d] = drawn[d] + 1]
                  ELSE /\ identity' = [identity EXCEPT ![d] = s.key]
                       /\ UNCHANGED drawn
  /\ page' = [page EXCEPT ![d] = IF s.account = NoAccount THEN "open" ELSE "registered"]
  /\ account' = [account EXCEPT ![d] = s.account]
  /\ current' = [current EXCEPT ![d] = 0]

Reload(d) ==
  /\ LoadFrom(d, stored[d])
  /\ deviceUnchanged
  /\ UNCHANGED <<stored, evolves>>

\* Delete user: a new key is drawn and saved without an account, then the page
\* is reloaded.
DeleteUser(d) ==
  /\ page[d] = "registered"
  /\ drawn[d] < MaxKeys
  /\ drawn' = [drawn EXCEPT ![d] = @ + 1]
  /\ identity' = [identity EXCEPT ![d] = drawn[d] + 1]
  /\ stored' = [stored EXCEPT ![d] = [key |-> drawn[d] + 1, account |-> NoAccount]]
  /\ page' = [page EXCEPT ![d] = "open"]
  /\ account' = [account EXCEPT ![d] = NoAccount]
  /\ current' = [current EXCEPT ![d] = 0]
  /\ deviceUnchanged
  /\ UNCHANGED evolves

------------------------------------------------------------------------------
(* The ledger (external). *)

IncludeSpawn(k, s) ==
  /\ spawn[k][s] = "pool"
  /\ Cost[s] <= balance
  /\ spawn' = [spawn EXCEPT ![k][s] = "included"]
  /\ balance' = balance - Cost[s]
  /\ darc' = [darc EXCEPT ![k].keys = IF s = "darcs" THEN {k} ELSE @]
  /\ UNCHANGED <<step, deviceVars, evolves>>

RefuseSpawn(k, s) ==
  /\ spawn[k][s] = "pool"
  /\ spawn' = [spawn EXCEPT ![k][s] = "refused"]
  /\ UNCHANGED <<step, balance, darc, deviceVars, evolves>>

\* Bug: the new key is added to the rules instead of replacing what they say.
EvolvedKeysAppended(e) == darc[e.account].keys \cup {e.key}

\* The rules that attachAndEvolve sets in the darc it sends.
EvolvedKeys(e) == {e.key}

\* The ephemeral key must sign for the current version of the darc.
IncludeEvolve(n) ==
  LET e == evolves[n] IN
  /\ e.fate = "pool"
  /\ e.base = darc[e.account].version
  /\ e.account \in darc[e.account].keys
  /\ evolves' = [evolves EXCEPT ![n].fate = "included"]
  /\ darc' = [darc EXCEPT ![e.account] = [version |-> e.base + 1, keys |-> EvolvedKeys(e)]]
  /\ UNCHANGED <<creatorVars, deviceVars>>

RefuseEvolve(n) ==
  /\ evolves[n].fate = "pool"
  /\ evolves' = [evolves EXCEPT ![n].fate = "refused"]
  /\ UNCHANGED <<creatorVars, darc, deviceVars>>

Creator(k) ==
  \/ CreateUser(k)
  \/ \E s \in Spawns : SendSpawn(k, s) \/ SpawnDone(k, s)
  \/ Connected(k)
  \/ ShowKey(k)
  \/ CreateFails(k)

Browser(d) ==
  \/ \E k \in Ephemerals : Attach(d, k)
  \/ \E version \in 0 .. MaxEvolves : SendEvolve(d, version)
  \/ EvolveDone(d)
  \/ AttachFails(d)
  \/ Reload(d)
  \/ DeleteUser(d)

Ledger ==
  \/ \E k \in Ephemerals, s \in Spawns : IncludeSpawn(k, s) \/ RefuseSpawn(k, s)
  \/ \E n \in DOMAIN evolves : IncludeEvolve(n) \/ RefuseEvolve(n)

Next ==
  \/ \E k \in Ephemerals : Creator(k)
  \/ \E d \in Devices : Browser(d)
  \/ Ledger

Spec == Init /\ [][Next]_vars

------------------------------------------------------------------------------
(* What a user who signs up can rely on. *)

\* The instances of an account are spawned in order, although calls fail while
\* their transactions are on their way: nobody pays for a coin or a credential
\* without the darcs that guard it, and a key is shown only for an account
\* that is complete.
SpawnedInOrder ==
  \A k \in Ephemerals :
    /\ spawn[k]["credential"] = "included" => spawn[k]["coin"] = "included"
    /\ spawn[k]["coin"] = "included" => spawn[k]["darcs"] = "included"
    /\ step[k] = "shown" => \A s \in Spawns : spawn[k][s] = "included"

\* A browser that says it is registered has in its storage the one key that
\* the device darc names, so it stays registered when it is reloaded, and no
\* other browser with the same ephemeral key is registered.
RegisteredOwns ==
  \A d \in Devices : page[d] = "registered" =>
    /\ stored[d] = [key |-> identity[d], account |-> account[d]]
    /\ darc[account[d]].keys = {<<d, identity[d]>>}

\* An account belongs to its device darc's signers once it has a credential.
owners ==
  [k \in Ephemerals |->
     IF spawn[k]["credential"] = "included" THEN darc[k].keys ELSE {}]

A == INSTANCE Account WITH owners <- owners, DeviceKeys <- DeviceKeys

\* Signing up implements Account: the ephemeral key works once, whatever is
\* retried, lost, delayed or entered twice.
ImplementsAccount == A!Spec

==============================================================================
