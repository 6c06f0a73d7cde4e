------------------------------- MODULE Operations -------------------------------
(***************************************************************************)
(* The transactions that the client builds: the instructions of every      *)
(* operation, in order, each with the darc that guards the instance it is  *)
(* for, and the argument `signers' that the operation passes on.           *)
(*                                                                         *)
(* `coin', `cred' and so on are the base ids of the darcs of the           *)
(* instances, `keys' the keys of the signers.  Values of arguments are     *)
(* left out, and so is the wait for the block: see ClientTransaction.      *)
(***************************************************************************)
EXTENDS Darcs

\* Instances that take an instruction without a signature: the spawner, which wants
\* the coins that the instruction before has fetched, and commands whose arguments are
\* proof enough (external: the contracts).
Unguarded == <<"unguarded">>

createSpawn(guard, contract) == [guard |-> guard, action |-> spawnOf(contract)]
createInvoke(guard, contract, command) ==
  [guard |-> guard, action |-> invoke(contract, command)]

Transaction(instructions, signers) == [instructions |-> instructions, signers |-> signers]

Fetch(coin)      == createInvoke(coin, "coin", "fetch")
FromSpawner(contract) == createSpawn(Unguarded, contract)

\* Who signs each instruction: one entry in `signers' stands for all.
signersOf(tx) ==
  IF Len(tx.signers) = 1
    THEN [i \in DOMAIN tx.instructions |-> tx.signers[1]]
    ELSE tx.signers

------------------------------------------------------------------------------
(* Coins, credentials and darcs. *)

coinSpawn(d, keys)     == Transaction(<<createSpawn(d, "coin")>>, <<keys>>)
coinTransfer(coin, keys) == Transaction(<<createInvoke(coin, "coin", "transfer")>>, <<keys>>)
coinMint(coin, keys)   == Transaction(<<createInvoke(coin, "coin", "mint")>>, <<keys>>)

credentialSpawn(d, keys) == Transaction(<<createSpawn(d, "credential")>>, <<keys>>)
sendUpdate(cred, keys) ==
  Transaction(<<createInvoke(cred, "credential", "update")>>, <<keys>>)
\* Not signed: the trustees have signed the argument.
recoverIdentity ==
  Transaction(<<createInvoke(Unguarded, "credential", "recover")>>, <<{}>>)

evolveDarcAndWait(base, keys) ==
  Transaction(<<createInvoke(base, "darc", "evolve")>>, <<keys>>)
\* Whatever contract it is asked for, the instruction is for the one of darcs.
spawnInstanceAndWait(base, contract, keys) ==
  Transaction(<<createSpawn(base, "darc")>>, <<keys>>)
spawnDarcAndWait(base, keys) == spawnInstanceAndWait(base, "darc", keys)

------------------------------------------------------------------------------
(* What the spawner sells. *)

spawnerSpawn(d, keys) == Transaction(<<createSpawn(d, "spawner")>>, <<keys>>)

spawnDarc(coin, keys, n) ==
  Transaction(<<Fetch(coin)>> \o [i \in 1 .. n |-> FromSpawner("darc")], <<keys>>)
spawnCoin(coin, keys) ==
  Transaction(<<Fetch(coin), FromSpawner("coin")>>, <<keys, {}>>)
spawnCredential(coin, keys) ==
  Transaction(<<Fetch(coin), FromSpawner("credential")>>, <<keys, {}>>)
spawnPopParty(coin, keys) ==
  Transaction(<<Fetch(coin), FromSpawner("darc"), FromSpawner("popParty")>>, <<keys, {}, {}>>)
spawnRoPaSci(coin, keys) ==
  Transaction(<<Fetch(coin), FromSpawner("ropasci")>>, <<keys, {}>>)
\* The second transaction of spawnCalypsoWrite, after spawnDarc.
spawnCalypsoWrite(coin, keys) ==
  Transaction(<<Fetch(coin), FromSpawner("calypsoWrite")>>, <<keys, {}>>)

------------------------------------------------------------------------------
(* Secrets. *)

onChainSecretSpawn(d, keys) == Transaction(<<createSpawn(d, "longTermSecret")>>, <<keys>>)
createLTS(d, keys)     == Transaction(<<createSpawn(d, "longTermSecret")>>, <<keys>>)
calypsoWriteSpawn(d, keys) == Transaction(<<createSpawn(d, "calypsoWrite")>>, <<keys>>)
\* The readers pay: their signers sign both, and `coinSigners' is not used.
spawnRead(write, coin, keys) ==
  Transaction(<<Fetch(coin), createSpawn(write, "calypsoRead")>>, <<keys, keys>>)

------------------------------------------------------------------------------
(* Parties and games. *)

partyInvoke(party, command, keys) ==
  Transaction(<<createInvoke(party, "popParty", command)>>, <<keys>>)
activateBarrier(party, keys) == partyInvoke(party, "barrier", keys)
finalize(party, keys) == partyInvoke(party, "finalize", keys)
mine == partyInvoke(Unguarded, "mine", {})

second(coin, key) ==
  Transaction(<<Fetch(coin), createInvoke(Unguarded, "ropasci", "second")>>, <<{key}, {}>>)
confirm == Transaction(<<createInvoke(Unguarded, "ropasci", "confirm")>>, <<{}>>)

------------------------------------------------------------------------------
\* createFirstUser: four darcs, a coin and a credential from the darc of the
\* administrator, and coins that the new user mints.
createFirstUser(d, coin, admin, key) ==
  Transaction([i \in 1 .. 4 |-> createSpawn(d, "darc")]
                \o <<createSpawn(d, "coin"), createSpawn(d, "credential"),
                     createInvoke(coin, "coin", "mint")>>,
              [i \in 1 .. 6 |-> {admin}] \o <<{key}>>)
================================================================================
