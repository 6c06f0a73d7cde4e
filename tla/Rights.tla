--------------------------------- MODULE Rights ---------------------------------
(***************************************************************************)
(* Who may do what with the accounts of Signup.                            *)
(*                                                                         *)
(* An account is guarded by four darcs that refer to one another: those of *)
(* the coin and of the credential name the signer darc, which names the    *)
(* device darc, which names a key.  Only the device darc evolves when the  *)
(* account is taken over; the right to spend coins, to change the          *)
(* credential, to read secrets and to run a party must follow.             *)
(***************************************************************************)
EXTENDS Signup, Operations

CONSTANTS
  creator,   \* the key of the first user, who creates the accounts
  admin      \* the key of the administrator

\* The creator has an account already, and no key is drawn twice.
ASSUME CreatorAssumption == creator \notin Ephemerals \cup DeviceKeys

\* The base id of each darc of an account, that of its first version.
baseOf(what, key) == <<what, key>>

\* What createFirstUser and createUser make of a key.  Only the first user mints.
deviceDarc(key) == newDarc(baseOf("device", key), <<Ed25519(key)>>, <<Ed25519(key)>>, <<>>)
signDarc(key) ==
  LET deviceId == DarcOf(baseOf("device", key)) IN
  newDarc(baseOf("signer", key), <<deviceId>>, <<deviceId>>, <<>>)
signId(key) == DarcOf(baseOf("signer", key))
credDarc(key) ==
  newDarc(baseOf("credential", key), <<>>, <<signId(key)>>, <<invoke("credential", "update")>>)
coinActions(key) ==
  IF key = creator THEN <<"mint", "transfer", "fetch", "store">>
                   ELSE <<"transfer", "fetch", "store">>
coinDarc(key) ==
  newDarc(baseOf("coin", key), <<>>, <<signId(key)>>,
          [i \in DOMAIN coinActions(key) |-> invoke("coin", coinActions(key)[i])])

genesisDarc ==
  makeGenesisDarc(<<admin>>, <<"node">>,
    <<spawnOf("spawner"), spawnOf("coin"), spawnOf("credential"), spawnOf("longTermSecret"),
      spawnOf("calypsoWrite"), spawnOf("calypsoRead"), invoke("coin", "mint"),
      invoke("coin", "transfer"), invoke("coin", "fetch")>>)

\* Bug: the key is added to the rules of the darc.
attachedAdds(d, key) ==
  [evolve(d) EXCEPT !.rules = appendEach(@, <<sign, invoke("darc", "evolve")>>,
                                       <<Ed25519(key)>>, OR)]

\* The darc that attachAndEvolve sends.
attached(d, key) ==
  LET new == evolve(d)
      signs == setRule(new.rules, sign, Ed25519(key))
  IN  [new EXCEPT !.rules = setRule(signs, invoke("darc", "evolve"), Ed25519(key))]

\* An ownership gives accounts, besides the creator's, to the key of the device darc.
\* The device darc on the ledger is the first one, or the one that attachAndEvolve sent.
Owner(ow, k) == IF k = creator THEN creator ELSE ow[k]
deviceNow(ow, k) ==
  IF Owner(ow, k) = k THEN deviceDarc(k) ELSE attached(deviceDarc(k), ow[k])

\* A party of the organisers and a secret for its readers, by the darcs of their
\* credentials as spawnPopParty and Calypso.add find them.
partyDarc(orgs) ==
  preparePartyDarc(<<"partyDarc", orgs>>, [i \in DOMAIN orgs |-> baseOf("credential", orgs[i])])
secretDarc(readers) ==
  writeDarc(<<"writeDarc", readers>>,
            [i \in DOMAIN readers |-> darcSignIdentity(credDarc(readers[i]))])

\* The instances of an account have their ids from the public key: the device that has
\* the ephemeral key of the account finds them.  What a credential says of the rest:
\* the coin, and the spawner and LTS of the first user, whose X is `lts' here.
coinIID(buf)       == <<"coin", buf>>
credentialIID(buf) == <<"credential", buf>>
prepareInitialCred(key, spawner, lts) ==
  [coin |-> coinIID(key), seedPub |-> key, spawner |-> spawner, lts |-> lts]
getCoinAddress(cred) ==
  IF "coin" \in DOMAIN cred THEN cred.coin ELSE coinIID(cred.seedPub)

\* createUser copies spawner and LTS from the data of the creator's page, which has them
\* from the credential of the creator.
InitialCred(key) ==
  LET first == prepareInitialCred(creator, "spawner", "lts") IN
  IF key = creator THEN first ELSE prepareInitialCred(key, first.spawner, first.lts)

\* The coins and credentials that were spawned for these keys, with their darcs.
InstancesOf(ks) ==
  LET ids == {coinIID(k) : k \in ks} \cup {credentialIID(k) : k \in ks} IN
  [i \in ids |-> IF i[1] = "coin" THEN [darc |-> baseOf("coin", i[2])]
                 ELSE [darc |-> baseOf("credential", i[2]), cred |-> InitialCred(i[2])]]

\* The darcs of some accounts on the ledger, and others, by their base ids.
DarcsOf(ow, ks, shared) ==
  LET ds == shared \cup UNION {{deviceNow(ow, k), signDarc(k), credDarc(k), coinDarc(k)} : k \in ks}
  IN  [b \in {getBaseID(d) : d \in ds} |-> CHOOSE d \in ds : getBaseID(d) = b]

\* The ledger lets the signers of each instruction do what it says (external);
\* as[keys] is what the keys sign as.
Authorised(at, tx, as) ==
  LET signers == signersOf(tx) IN
  \A i \in DOMAIN tx.instructions :
    LET instr == tx.instructions[i] IN
    \/ instr.guard = Unguarded
    \/ signers[i] # {} /\ Permits(at[instr.guard], instr.action, as[signers[i]])

\* What the client does with the account of k, signed by one key.
OperationsOn(k, key) ==
  LET coin == baseOf("coin", k) IN
  {coinTransfer(coin, {key}), spawnDarc(coin, {key}, 4), spawnCoin(coin, {key}),
   spawnCredential(coin, {key}), spawnPopParty(coin, {key}), spawnRoPaSci(coin, {key}),
   spawnCalypsoWrite(coin, {key}), second(coin, key), sendUpdate(baseOf("credential", k), {key}),
   evolveDarcAndWait(baseOf("device", k), {key}),
   evolveDarcAndWait(baseOf("signer", k), {key})}

------------------------------------------------------------------------------

Keys == Ephemerals \cup DeviceKeys \cup {creator}

\* The owner can do everything the client offers with the account, and nobody else can
\* do any of it; nobody but the first user mints coins, and nobody evolves the darc of
\* a credential, which has no rule for it.
OnlyOwnersAct(ow, k) ==
  LET at == DarcsOf(ow, {k}, {}) IN
  \A key \in Keys :
    LET as == [keys \in {{key}} |-> SignsAs(at, keys)]
        Can(tx) == Authorised(at, tx, as)
    IN
    /\ \A tx \in OperationsOn(k, key) : Can(tx) <=> key = Owner(ow, k)
    /\ Can(coinMint(baseOf("coin", k), {key})) <=> k = creator /\ key = creator
    /\ ~ Can(evolveDarcAndWait(baseOf("credential", k), {key}))

\* What is shared by two accounts is open to the present owners of both, although it
\* was made when the keys were other ones: a party to its organisers, a secret to its
\* readers, whose page finds itself in the rule and pays with its own coins.
SharedWithOwners(ow, k, l) ==
  \A party \in {partyDarc(<<k, l>>)}, secret \in {secretDarc(<<k, l>>)}, key \in Keys :
    LET at == DarcsOf(ow, {k, l}, {party, secret})
        as == [keys \in {{key}} |-> SignsAs(at, keys)]
        Can(tx) == Authorised(at, tx, as)
    IN  /\ \A tx \in {activateBarrier(getBaseID(party), {key}), finalize(getBaseID(party), {key})} :
             Can(tx) <=> key \in {Owner(ow, k), Owner(ow, l)}
        /\ \A m \in {k, l} :
             /\ IsReader(secret, darcSignIdentity(credDarc(m)))
             /\ Can(spawnRead(getBaseID(secret), baseOf("coin", m), {key}))
                  <=> key = Owner(ow, m)

\* With nothing but the first key of an account, attachAndEvolve finds the credential, its
\* coin, the spawner and the LTS, and, over the signer darc, the device darc that it has
\* to evolve; the darc that it sends passes evolveDarcAndWait.
LinksLeadToAccount(ow, k) ==
  LET at == DarcsOf(ow, {k}, {})
      instances == InstancesOf({k, creator})
      contact == instances[credentialIID(k)]
      device == deviceNow(ow, k)
  IN  /\ contact.cred.seedPub = k
      /\ contact.cred.lts = instances[credentialIID(creator)].cred.lts
      /\ at[instances[getCoinAddress(contact.cred)].darc] = coinDarc(k)
      /\ findSignerDarc(at, at[contact.darc]) = signDarc(k)
      /\ findSignerDarc(at, signDarc(k)) = device
      /\ \A key \in Keys : MayFollow(device, attached(device, key))

\* One account, also next to that of the creator, and two accounts.
RightsFollowOne(ow, k) ==
  /\ OnlyOwnersAct(ow, k)
  /\ LinksLeadToAccount(ow, k)
  /\ k # creator => SharedWithOwners(ow, k, creator) /\ SharedWithOwners(ow, creator, k)

\* Nobody but its ephemeral key and devices may ever own an account.
Ownerships == UNION {{ow \in [ks -> Ephemerals \cup DeviceKeys] :
                        \A k \in ks : ow[k] \in {k} \cup DeviceKeys} : ks \in SUBSET Ephemerals}

\* Those of a single account, or none, for which the rights follow.
EffectiveAlone ==
  {ow \in Ownerships : /\ Cardinality(DOMAIN ow) <= 1
                       /\ \A k \in {creator} \cup DOMAIN ow : RightsFollowOne(ow, k)}

\* What the darcs of the program put into effect, as the owners of all accounts.
Effective ==
  LET follows(ow) ==
        /\ \A k \in DOMAIN ow : [l \in {k} |-> ow[l]] \in EffectiveAlone
        /\ \A k, l \in DOMAIN ow : k # l => SharedWithOwners(ow, k, l)
  IN  {[k \in Ephemerals |-> IF k \in DOMAIN ow THEN {ow[k]} ELSE {}] :
         ow \in {ow \in Ownerships : follows(ow)}}

\* Rights follow the owners of accounts, through any order of sign-ups, takeovers,
\* retries and lost answers.
RightsFollowOwners == owners \in Effective

================================================================================
