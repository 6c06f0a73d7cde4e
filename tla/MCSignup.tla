------------------------------- MODULE MCSignup -------------------------------
(***************************************************************************)
(* A small instance of Signup, with the rights of its accounts.  The       *)
(* ephemeral keys are interchangeable, and so are the browsers, for the    *)
(* modules and for what is checked of them.                                *)
(***************************************************************************)
EXTENDS Rights, TLC

KeyAndBrowserSymmetry == Permutations(Ephemerals) \cup Permutations(Devices)

\* The set-up of the ledger is permitted to the administrator.
ASSUME SetUp ==
  LET ds == {genesisDarc, deviceDarc(creator), signDarc(creator), coinDarc(creator)}
      at == [b \in {getBaseID(d) : d \in ds} |-> CHOOSE d \in ds : getBaseID(d) = b]
      as == [keys \in {{admin}, {creator}} |-> SignsAs(at, keys)]
      genesis == getBaseID(genesisDarc)
  IN  \A tx \in {spawnerSpawn(genesis, {admin}), createLTS(genesis, {admin}),
                 createFirstUser(genesis, getBaseID(coinDarc(creator)), admin, creator)} :
        Authorised(at, tx, as)

\* An account of registerContact has a single darc: its key acts, and nobody else does,
\* but it is no reader of secrets, and nobody can take it over with an ephemeral key.
ASSUME SingleDarc ==
  LET user == prepareUserDarc(<<"user", creator>>, creator)
      base == getBaseID(user)
      at == base :> user
      as == [keys \in {{creator}, {admin}} |-> SignsAs(at, keys)]
  IN  /\ \A key \in {creator, admin} :
           \A tx \in {coinTransfer(base, {key}), spawnRoPaSci(base, {key}),
                      sendUpdate(base, {key}), evolveDarcAndWait(base, {key})} :
             Authorised(at, tx, as) <=> key = creator
      /\ ~ HasSignDarc(user)
===============================================================================
