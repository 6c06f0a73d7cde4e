----------------------------- MODULE SignupProofs -----------------------------
(***************************************************************************)
(* What holds of Signup for any ephemeral keys, browsers, prices and       *)
(* bounds.  The argument: the ephemeral key is in the device darc only     *)
(* until the first evolution is included (DeviceDarcs), so at most one     *)
(* evolution of an account is ever included, and the darc names its key    *)
(* from then on (Evolutions); a page that waits for an evolution waits for *)
(* one with its own key (Waiting), so what it stores when it hears of the  *)
(* inclusion is that key.                                                  *)
(*                                                                         *)
(* For the rights: what the rules of a darc say is computed as a function  *)
(* of actions (Says), along the loops that build them, so that each darc   *)
(* of an account is seen to be for one identity (AccountsAre); a key       *)
(* reaches the darcs of an account, one round after the other, if and only *)
(* if the device darc names it (SignsForAccount).                          *)
(***************************************************************************)
EXTENDS Rights, FiniteSetTheorems, SequenceTheorems, TLAPS

\* The transactions of an account are sent and included one after the other.
CreationOrder ==
  \A k \in Ephemerals :
    /\ spawn[k]["coin"] # "none" => spawn[k]["darcs"] = "included"
    /\ spawn[k]["credential"] # "none" => spawn[k]["coin"] = "included"
    /\ step[k] \in {"coin", "credential", "connect", "save", "shown"} =>
         spawn[k]["darcs"] = "included"
    /\ step[k] \in {"credential", "connect", "save", "shown"} =>
         spawn[k]["coin"] = "included"
    /\ step[k] \in {"connect", "save", "shown"} =>
         spawn[k]["credential"] = "included"

\* A device darc is absent, or has the ephemeral key, or has the key of a
\* browser after the ephemeral key was shown.
Fresh(k) == darc[k].version = 0 /\ darc[k].keys = {k}
TakenOver(k) == step[k] = "shown" /\ \E key \in DeviceKeys : darc[k].keys = {key}

DeviceDarcs ==
  \A k \in Ephemerals :
    IF spawn[k]["darcs"] = "included"
      THEN Fresh(k) \/ TakenOver(k)
      ELSE darc[k].version = 0 /\ darc[k].keys = {}

\* Only shown keys are used, and the darc has the key of an included evolution.
Evolutions ==
  /\ Len(evolves) <= MaxEvolves
  /\ \A n \in 1 .. Len(evolves) :
       /\ step[evolves[n].account] = "shown"
       /\ evolves[n].fate = "included" =>
            darc[evolves[n].account].keys = {evolves[n].key}

\* A page waits for an evolution of its account to its own key.
Waiting ==
  \A d \in Devices :
    /\ page[d] \in {"reading", "sent", "registered"} =>
         account[d] \in Ephemerals /\ step[account[d]] = "shown"
    /\ page[d] = "sent" =>
         /\ current[d] \in 1 .. Len(evolves)
         /\ evolves[current[d]].key = <<d, identity[d]>>
         /\ evolves[current[d]].account = account[d]

\* An account is stored only while the page is registered.
StoredIsRegistered ==
  \A d \in Devices : stored[d].account # NoAccount => page[d] = "registered"

IInv ==
  /\ TypeOK
  /\ CreationOrder
  /\ DeviceDarcs
  /\ Evolutions
  /\ Waiting
  /\ StoredIsRegistered
  /\ RegisteredOwns

------------------------------------------------------------------------------
(* The parts of the invariant, one by one. *)

\* What the fields of an evolution are, and where it is in the sequence.
LEMMA EvolutionFields ==
  ASSUME TypeOK, NEW n \in DOMAIN evolves
  PROVE  /\ n \in 1 .. Len(evolves)
         /\ evolves[n] \in Evolve
         /\ evolves[n].account \in Ephemerals
         /\ evolves[n].key \in DeviceKeys
         /\ evolves[n].base \in 0 .. MaxEvolves
<1>1. evolves \in Seq(Evolve)
  BY DEF TypeOK
<1>2. n \in 1 .. Len(evolves) /\ evolves[n] \in Evolve
  BY <1>1
<1>3. QED BY <1>2 DEF Evolve

\* Changing what became of an evolution leaves the sequence well formed.
LEMMA FateKeepsSequence ==
  ASSUME TypeOK, NEW n \in DOMAIN evolves, NEW fate \in Fates,
         evolves' = [evolves EXCEPT ![n].fate = fate]
  PROVE  /\ evolves' \in Seq(Evolve)
         /\ Len(evolves') = Len(evolves)
         /\ \A m \in 1 .. Len(evolves) :
              /\ evolves'[m].key = evolves[m].key
              /\ evolves'[m].account = evolves[m].account
              /\ evolves'[m].fate = IF m = n THEN fate ELSE evolves[m].fate
<1>1. evolves \in Seq(Evolve)
  BY DEF TypeOK
<1>2. [evolves[n] EXCEPT !.fate = fate] \in Evolve
  BY EvolutionFields DEF Evolve
<1>3. evolves' = [evolves EXCEPT ![n] = [evolves[n] EXCEPT !.fate = fate]]
  OBVIOUS
<1>4. evolves' \in Seq(Evolve) /\ Len(evolves') = Len(evolves)
  BY <1>1, <1>2, <1>3
<1>5. ASSUME NEW m \in 1 .. Len(evolves)
      PROVE  /\ evolves'[m].key = evolves[m].key
             /\ evolves'[m].account = evolves[m].account
             /\ evolves'[m].fate = IF m = n THEN fate ELSE evolves[m].fate
  <2>1. evolves[m] \in Evolve
    BY <1>1
  <2>2. QED BY <1>1, <1>3, <2>1 DEF Evolve
<1>6. QED BY <1>4, <1>5

\* The ephemeral key signs only for a darc that nobody has taken over.
LEMMA OnlyFreshEvolves ==
  ASSUME IInv, NEW n \in DOMAIN evolves, evolves[n].account \in darc[evolves[n].account].keys
  PROVE  Fresh(evolves[n].account)
<1>1. evolves[n].account \in Ephemerals
  BY EvolutionFields DEF IInv
<1>2. \A key \in DeviceKeys : darc[evolves[n].account].keys # {key}
  BY <1>1, KeysAssumption
<1>3. QED BY <1>1, <1>2 DEF IInv, DeviceDarcs, TakenOver

LEMMA CreatorKeepsTypes ==
  ASSUME IInv, NEW k \in Ephemerals, Creator(k)
  PROVE  TypeOK'
<1> USE DEF IInv, TypeOK, Steps, Spawns, Fates, NextStep
<1>1. CASE CreateUser(k)
  BY <1>1 DEF CreateUser, Enter, deviceVars
<1>2. ASSUME NEW s \in Spawns, SendSpawn(k, s) PROVE TypeOK'
  BY <1>2 DEF SendSpawn, deviceVars
<1>3. ASSUME NEW s \in Spawns, SpawnDone(k, s) PROVE TypeOK'
  BY <1>3 DEF SpawnDone, Enter, deviceVars
<1>4. CASE Connected(k)
  BY <1>4 DEF Connected, Enter, deviceVars
<1>5. CASE ShowKey(k)
  BY <1>5 DEF ShowKey, Enter, deviceVars
<1>6. CASE CreateFails(k)
  BY <1>6 DEF CreateFails, Enter, deviceVars
<1>7. QED BY <1>1, <1>2, <1>3, <1>4, <1>5, <1>6 DEF Creator

LEMMA ReloadKeepsTypes ==
  ASSUME TypeOK, NEW d \in Devices, Reload(d)
  PROVE  TypeOK'
<1>1. stored[d].key \in 0 .. MaxKeys /\ stored[d].account \in Ephemerals \cup {NoAccount}
  BY DEF TypeOK
<1>2. drawn \in [Devices -> 1 .. MaxKeys] /\ identity \in [Devices -> 1 .. MaxKeys]
  BY DEF TypeOK
<1>3. LoadFrom(d, stored[d])
  BY DEF Reload
<1>4. drawn' \in [Devices -> 1 .. MaxKeys] /\ identity' \in [Devices -> 1 .. MaxKeys]
  <2>1. CASE stored[d].key = 0
    <3>1. drawn[d] + 1 \in 1 .. MaxKeys
      BY <1>2, <1>3, <2>1, BoundsAssumption DEF LoadFrom
    <3>2. QED BY <1>2, <1>3, <2>1, <3>1 DEF LoadFrom
  <2>2. CASE stored[d].key # 0
    <3>1. stored[d].key \in 1 .. MaxKeys
      BY <1>1, <2>2, BoundsAssumption
    <3>2. QED BY <1>2, <1>3, <2>2, <3>1 DEF LoadFrom
  <2>3. QED BY <2>1, <2>2
<1>5. /\ page' \in [Devices -> {"open", "reading", "sent", "registered"}]
      /\ account' \in [Devices -> Ephemerals \cup {NoAccount}]
      /\ current' \in [Devices -> 0 .. MaxEvolves]
  BY <1>1, <1>3, BoundsAssumption DEF LoadFrom, TypeOK
<1>6. UNCHANGED <<step, spawn, balance, darc, stored, evolves>>
  BY DEF Reload, deviceUnchanged, creatorVars
<1>7. QED BY <1>4, <1>5, <1>6 DEF TypeOK

LEMMA BrowserKeepsTypes ==
  ASSUME IInv, NEW d \in Devices, Browser(d)
  PROVE  TypeOK'
<1> USE BoundsAssumption DEF IInv, TypeOK, deviceUnchanged, creatorVars
<1>1. ASSUME NEW k \in Ephemerals, Attach(d, k) PROVE TypeOK'
  BY <1>1 DEF Attach
<1>2. ASSUME NEW version \in 0 .. MaxEvolves, SendEvolve(d, version) PROVE TypeOK'
  <2>1. account[d] \in Ephemerals
    BY <1>2 DEF SendEvolve, Waiting
  <2>2. [key |-> <<d, identity[d]>>, account |-> account[d],
         base |-> version, fate |-> "pool"] \in Evolve
    BY <2>1 DEF Evolve, DeviceKeys, Fates
  <2>3. evolves' \in Seq(Evolve)
    BY <1>2, <2>2 DEF SendEvolve
  <2>4. Len(evolves) + 1 \in 0 .. MaxEvolves
    BY <1>2 DEF SendEvolve
  <2>5. QED BY <1>2, <2>3, <2>4 DEF SendEvolve
<1>3. CASE EvolveDone(d)
  <2>1. account[d] \in Ephemerals
    BY <1>3 DEF EvolveDone, Answered, Waiting
  <2>2. QED BY <1>3, <2>1 DEF EvolveDone
<1>4. CASE AttachFails(d)
  BY <1>4 DEF AttachFails
<1>5. CASE Reload(d)
  BY <1>5, ReloadKeepsTypes
<1>6. CASE DeleteUser(d)
  BY <1>6 DEF DeleteUser
<1>7. QED BY <1>1, <1>2, <1>3, <1>4, <1>5, <1>6 DEF Browser

LEMMA LedgerKeepsTypes ==
  ASSUME IInv, Ledger
  PROVE  TypeOK'
<1> USE DEF IInv, creatorVars, deviceVars
<1>1. ASSUME NEW k \in Ephemerals, NEW s \in Spawns, IncludeSpawn(k, s) PROVE TypeOK'
  <2>1. Cost[s] \in Nat
    BY CostsAssumption DEF Cost, Spawns
  <2>2. balance' \in 0 .. Balance
    BY <1>1, <2>1, CostsAssumption DEF IncludeSpawn, TypeOK
  <2>3. darc' \in [Ephemerals -> [version : 0 .. MaxEvolves,
                                  keys : SUBSET (Ephemerals \cup DeviceKeys)]]
    BY <1>1 DEF IncludeSpawn, TypeOK
  <2>4. spawn' \in [Ephemerals -> [Spawns -> Fates]]
    BY <1>1 DEF IncludeSpawn, TypeOK, Fates
  <2>5. QED BY <1>1, <2>2, <2>3, <2>4 DEF IncludeSpawn, TypeOK
<1>2. ASSUME NEW k \in Ephemerals, NEW s \in Spawns, RefuseSpawn(k, s) PROVE TypeOK'
  BY <1>2 DEF RefuseSpawn, TypeOK, Fates
<1>3. ASSUME NEW n \in DOMAIN evolves, IncludeEvolve(n) PROVE TypeOK'
  <2>1. /\ evolves[n].account \in Ephemerals /\ evolves[n].key \in DeviceKeys
        /\ 1 <= MaxEvolves
    BY EvolutionFields, BoundsAssumption DEF Evolutions
  <2>2. evolves[n].base = 0
    BY <1>3, OnlyFreshEvolves DEF IncludeEvolve, Fresh
  <2>3. evolves' \in Seq(Evolve)
    BY <1>3, FateKeepsSequence DEF IncludeEvolve, Fates
  <2>4. darc' \in [Ephemerals -> [version : 0 .. MaxEvolves,
                                  keys : SUBSET (Ephemerals \cup DeviceKeys)]]
    BY <1>3, <2>1, <2>2, BoundsAssumption DEF IncludeEvolve, EvolvedKeys, TypeOK
  <2>5. QED BY <1>3, <2>3, <2>4 DEF IncludeEvolve, TypeOK
<1>4. ASSUME NEW n \in DOMAIN evolves, RefuseEvolve(n) PROVE TypeOK'
  <2>1. evolves' \in Seq(Evolve)
    BY <1>4, FateKeepsSequence DEF RefuseEvolve, Fates
  <2>2. QED BY <1>4, <2>1 DEF RefuseEvolve, TypeOK
<1>5. QED BY <1>1, <1>2, <1>3, <1>4 DEF Ledger

------------------------------------------------------------------------------
(* What the steps of one actor leave alone for the others. *)

\* The creator changes nothing but how far the account of k is; what was sent
\* is not touched, and a key that was shown stays shown.
LEMMA CreatorLeaves ==
  ASSUME TypeOK, NEW k \in Ephemerals, Creator(k)
  PROVE  /\ UNCHANGED <<balance, darc, deviceVars, evolves>>
         /\ \A j \in Ephemerals : step[j] = "shown" => step'[j] = "shown"
         /\ \A j \in Ephemerals, s \in Spawns :
              spawn'[j][s] = "included" <=> spawn[j][s] = "included"
<1> USE DEF TypeOK, Steps, Spawns, NextStep
<1>1. CASE CreateUser(k)
  BY <1>1 DEF CreateUser, Enter
<1>2. ASSUME NEW s \in Spawns, SendSpawn(k, s)
      PROVE  /\ UNCHANGED <<balance, darc, deviceVars, evolves, step>>
             /\ \A j \in Ephemerals, t \in Spawns :
                  spawn'[j][t] = "included" <=> spawn[j][t] = "included"
  BY <1>2 DEF SendSpawn
<1>3. ASSUME NEW s \in Spawns, SpawnDone(k, s)
      PROVE  /\ UNCHANGED <<balance, darc, deviceVars, evolves, spawn>>
             /\ \A j \in Ephemerals : step[j] = "shown" => step'[j] = "shown"
  BY <1>3 DEF SpawnDone, Enter
<1>4. CASE Connected(k)
  BY <1>4 DEF Connected, Enter
<1>5. CASE ShowKey(k)
  BY <1>5 DEF ShowKey, Enter
<1>6. CASE CreateFails(k)
  BY <1>6 DEF CreateFails, Enter
<1>7. QED BY <1>1, <1>2, <1>3, <1>4, <1>5, <1>6 DEF Creator

\* A browser touches neither the ledger nor the creator.
LEMMA BrowserLeaves ==
  ASSUME NEW d \in Devices, Browser(d)
  PROVE  UNCHANGED <<step, spawn, balance, darc>>
BY DEF Browser, Attach, SendEvolve, EvolveDone, AttachFails, Reload, DeleteUser,
       deviceUnchanged, creatorVars

\* Nor does it touch what the page of another browser does.
LEMMA BrowserLeavesOthers ==
  ASSUME TypeOK, NEW d \in Devices, Browser(d), NEW c \in Devices, c # d
  PROVE  /\ page'[c] = page[c] /\ identity'[c] = identity[c] /\ stored'[c] = stored[c]
         /\ account'[c] = account[c] /\ current'[c] = current[c]
<1> USE DEF TypeOK
<1>1. ASSUME NEW k \in Ephemerals, Attach(d, k)
      PROVE  /\ page'[c] = page[c] /\ account'[c] = account[c]
             /\ UNCHANGED <<identity, stored, current>>
  BY <1>1 DEF Attach
<1>2. ASSUME NEW version \in 0 .. MaxEvolves, SendEvolve(d, version)
      PROVE  /\ page'[c] = page[c] /\ current'[c] = current[c]
             /\ UNCHANGED <<identity, stored, account>>
  BY <1>2 DEF SendEvolve
<1>3. CASE EvolveDone(d)
  BY <1>3 DEF EvolveDone
<1>4. CASE AttachFails(d)
  BY <1>4 DEF AttachFails
<1>5. CASE Reload(d)
  <2>1. LoadFrom(d, stored[d]) /\ UNCHANGED stored
    BY <1>5 DEF Reload
  <2>2. identity'[c] = identity[c]
    BY <2>1 DEF LoadFrom
  <2>3. QED BY <2>1, <2>2 DEF LoadFrom
<1>6. CASE DeleteUser(d)
  BY <1>6 DEF DeleteUser
<1>7. QED BY <1>1, <1>2, <1>3, <1>4, <1>5, <1>6 DEF Browser

------------------------------------------------------------------------------
(* The order of creation. *)

LEMMA CreatorKeepsOrder ==
  ASSUME TypeOK, CreationOrder, NEW k \in Ephemerals, Creator(k)
  PROVE  CreationOrder'
<1> USE DEF TypeOK, CreationOrder, Steps, Spawns, NextStep
<1>1. CASE CreateUser(k)
  BY <1>1 DEF CreateUser, Enter
<1>2. ASSUME NEW s \in Spawns, SendSpawn(k, s) PROVE CreationOrder'
  BY <1>2 DEF SendSpawn
<1>3. ASSUME NEW s \in Spawns, SpawnDone(k, s) PROVE CreationOrder'
  BY <1>3 DEF SpawnDone, Enter
<1>4. CASE Connected(k)
  BY <1>4 DEF Connected, Enter
<1>5. CASE ShowKey(k)
  BY <1>5 DEF ShowKey, Enter
<1>6. CASE CreateFails(k)
  BY <1>6 DEF CreateFails, Enter
<1>7. QED BY <1>1, <1>2, <1>3, <1>4, <1>5, <1>6 DEF Creator

LEMMA LedgerKeepsOrder ==
  ASSUME TypeOK, CreationOrder, Ledger
  PROVE  CreationOrder'
<1> USE DEF TypeOK, CreationOrder, Spawns, creatorVars
<1>1. ASSUME NEW k \in Ephemerals, NEW s \in Spawns, IncludeSpawn(k, s)
      PROVE  CreationOrder'
  BY <1>1 DEF IncludeSpawn
<1>2. ASSUME NEW k \in Ephemerals, NEW s \in Spawns, RefuseSpawn(k, s)
      PROVE  CreationOrder'
  BY <1>2 DEF RefuseSpawn
<1>3. ASSUME NEW n \in DOMAIN evolves, IncludeEvolve(n) \/ RefuseEvolve(n)
      PROVE  CreationOrder'
  BY <1>3 DEF IncludeEvolve, RefuseEvolve
<1>4. QED BY <1>1, <1>2, <1>3 DEF Ledger

\* What the order of creation says once a key was shown.
LEMMA ShownIsComplete ==
  ASSUME CreationOrder, NEW k \in Ephemerals, step[k] = "shown"
  PROVE  \A s \in Spawns : spawn[k][s] = "included"
BY DEF CreationOrder, Spawns

------------------------------------------------------------------------------
(* The device darc and the evolutions. *)

LEMMA DarcsIsSpawn == "darcs" \in Spawns /\ "credential" \in Spawns
BY DEF Spawns

LEMMA CreatorKeepsDarcs ==
  ASSUME IInv, NEW k \in Ephemerals, Creator(k)
  PROVE  DeviceDarcs' /\ Evolutions'
<1>1. /\ UNCHANGED <<darc, evolves>>
      /\ \A j \in Ephemerals : step[j] = "shown" => step'[j] = "shown"
      /\ \A j \in Ephemerals : spawn'[j]["darcs"] = "included" <=> spawn[j]["darcs"] = "included"
  BY CreatorLeaves, DarcsIsSpawn DEF IInv
<1>2. DeviceDarcs'
  BY <1>1 DEF IInv, DeviceDarcs, Fresh, TakenOver
<1>3. \A n \in 1 .. Len(evolves) : evolves[n].account \in Ephemerals
  BY EvolutionFields DEF IInv, TypeOK
<1>4. Evolutions'
  BY <1>1, <1>3 DEF IInv, Evolutions
<1>5. QED BY <1>2, <1>4

LEMMA BrowserKeepsDarcs ==
  ASSUME IInv, NEW d \in Devices, Browser(d)
  PROVE  DeviceDarcs' /\ Evolutions'
<1>1. UNCHANGED <<step, spawn, darc>>
  BY BrowserLeaves
<1>2. DeviceDarcs'
  BY <1>1 DEF IInv, DeviceDarcs, Fresh, TakenOver
<1>3. Evolutions'
  <2>1. CASE UNCHANGED evolves
    BY <1>1, <2>1 DEF IInv, Evolutions
  <2>2. ASSUME NEW version \in 0 .. MaxEvolves, SendEvolve(d, version)
        PROVE  Evolutions'
    <3>1. evolves \in Seq(Evolve) /\ step[account[d]] = "shown"
      BY <2>2 DEF SendEvolve, IInv, TypeOK, Waiting
    <3>2. evolves' = Append(evolves, [key |-> <<d, identity[d]>>, account |-> account[d],
                                      base |-> version, fate |-> "pool"])
      BY <2>2 DEF SendEvolve
    <3>3. Len(evolves) + 1 <= MaxEvolves
      BY <2>2, <3>1, BoundsAssumption DEF SendEvolve
    <3>4. Len(evolves') = Len(evolves) + 1
      BY <3>1, <3>2
    <3>5. ASSUME NEW n \in 1 .. Len(evolves')
          PROVE  /\ step[evolves'[n].account] = "shown"
                 /\ evolves'[n].fate = "included" =>
                      darc[evolves'[n].account].keys = {evolves'[n].key}
      <4>1. CASE n \in 1 .. Len(evolves)
        BY <3>1, <3>2, <4>1 DEF IInv, Evolutions
      <4>2. CASE n = Len(evolves) + 1
        BY <3>1, <3>2, <4>2
      <4>3. QED BY <3>1, <3>4, <4>1, <4>2
    <3>6. QED BY <1>1, <3>1, <3>3, <3>4, <3>5 DEF Evolutions
  <2>3. QED BY <2>1, <2>2 DEF Browser, Attach, EvolveDone, AttachFails, Reload, DeleteUser
<1>4. QED BY <1>2, <1>3

LEMMA SpawnKeepsDarcs ==
  ASSUME IInv, NEW k \in Ephemerals, NEW s \in Spawns, IncludeSpawn(k, s) \/ RefuseSpawn(k, s)
  PROVE  DeviceDarcs' /\ Evolutions'
<1> USE DEF IInv
<1>1. UNCHANGED <<step, evolves>>
  BY DEF IncludeSpawn, RefuseSpawn, creatorVars
<1>2. \A j \in Ephemerals : step[j] = "shown" => darc'[j] = darc[j]
  <2>1. step[k] # "shown"
    BY ShownIsComplete DEF IncludeSpawn, RefuseSpawn
  <2>2. QED BY <2>1 DEF IncludeSpawn, RefuseSpawn, TypeOK
<1>3. \A n \in 1 .. Len(evolves) : evolves[n].account \in Ephemerals
  BY EvolutionFields DEF TypeOK
<1>4. Evolutions'
  BY <1>1, <1>2, <1>3 DEF Evolutions
<1>5. DeviceDarcs'
  <2>1. ASSUME NEW j \in Ephemerals, j # k
        PROVE  darc'[j] = darc[j] /\ spawn'[j] = spawn[j]
    BY <2>1 DEF IncludeSpawn, RefuseSpawn, TypeOK
  <2>2. CASE s = "darcs" /\ IncludeSpawn(k, s)
    <3>1. darc[k].version = 0
      BY <2>2 DEF IncludeSpawn, DeviceDarcs
    <3>2. darc'[k].version = 0 /\ darc'[k].keys = {k} /\ spawn'[k]["darcs"] = "included"
      BY <2>2, <3>1 DEF IncludeSpawn, TypeOK
    <3>3. QED BY <1>1, <2>1, <3>2 DEF DeviceDarcs, Fresh, TakenOver
  <2>3. CASE s = "darcs" /\ RefuseSpawn(k, s)
    BY <1>1, <2>1, <2>3 DEF RefuseSpawn, DeviceDarcs, Fresh, TakenOver, TypeOK
  <2>4. CASE s # "darcs"
    <3>1. darc'[k].version = darc[k].version /\ darc'[k].keys = darc[k].keys
      BY <2>4 DEF IncludeSpawn, RefuseSpawn, TypeOK
    <3>2. spawn'[k]["darcs"] = spawn[k]["darcs"]
      BY <2>4, DarcsIsSpawn DEF IncludeSpawn, RefuseSpawn, TypeOK
    <3>3. QED BY <1>1, <2>1, <3>1, <3>2 DEF DeviceDarcs, Fresh, TakenOver
  <2>5. QED BY <2>2, <2>3, <2>4
<1>6. QED BY <1>4, <1>5

\* What the inclusion of an evolution does to the darc.
LEMMA TakesOver ==
  ASSUME IInv, NEW n \in DOMAIN evolves, IncludeEvolve(n)
  PROVE  LET e == evolves[n] IN
         /\ e.account \in Ephemerals /\ e.key \in DeviceKeys
         /\ step[e.account] = "shown"
         /\ darc[e.account].keys = {e.account}
         /\ darc' = [darc EXCEPT ![e.account] = [version |-> 1, keys |-> {e.key}]]
<1>1. n \in 1 .. Len(evolves) /\ evolves[n].account \in Ephemerals /\ evolves[n].key \in DeviceKeys
  BY EvolutionFields DEF IInv
<1>2. Fresh(evolves[n].account) /\ evolves[n].base = 0
  BY OnlyFreshEvolves DEF IncludeEvolve, Fresh
<1>3. step[evolves[n].account] = "shown"
  BY <1>1 DEF IInv, Evolutions
<1>4. QED BY <1>1, <1>2, <1>3 DEF IncludeEvolve, EvolvedKeys, Fresh

LEMMA IncludeEvolveKeepsDarcs ==
  ASSUME IInv, NEW n \in DOMAIN evolves, IncludeEvolve(n)
  PROVE  DeviceDarcs' /\ Evolutions'
<1> DEFINE e == evolves[n]
<1>1. UNCHANGED <<step, spawn>> /\ evolves' = [evolves EXCEPT ![n].fate = "included"]
  BY DEF IncludeEvolve, creatorVars
<1>2. /\ e.account \in Ephemerals /\ e.key \in DeviceKeys /\ step[e.account] = "shown"
      /\ darc[e.account].keys = {e.account}
      /\ darc' = [darc EXCEPT ![e.account] = [version |-> 1, keys |-> {e.key}]]
  BY TakesOver
<1>3. darc \in [Ephemerals -> [version : 0 .. MaxEvolves,
                              keys : SUBSET (Ephemerals \cup DeviceKeys)]]
  BY DEF IInv, TypeOK
<1>4. DeviceDarcs'
  <2>1. spawn[e.account]["darcs"] = "included"
    BY <1>2, ShownIsComplete, DarcsIsSpawn DEF IInv
  <2>2. QED BY <1>1, <1>2, <1>3, <2>1 DEF IInv, DeviceDarcs, Fresh, TakenOver
<1>5. Evolutions'
  <2>1. /\ Len(evolves') = Len(evolves)
        /\ \A m \in 1 .. Len(evolves) :
             /\ evolves'[m].key = evolves[m].key
             /\ evolves'[m].account = evolves[m].account
             /\ evolves'[m].fate = IF m = n THEN "included" ELSE evolves[m].fate
    BY <1>1, FateKeepsSequence DEF IInv, Fates
  <2>2. ASSUME NEW m \in 1 .. Len(evolves)
        PROVE  /\ step[evolves[m].account] = "shown"
               /\ evolves[m].fate = "included" =>
                    darc[evolves[m].account].keys = {evolves[m].key}
               /\ evolves[m].account \in Ephemerals /\ evolves[m].key \in DeviceKeys
    BY EvolutionFields DEF IInv, Evolutions, TypeOK
  <2>3. ASSUME NEW m \in 1 .. Len(evolves), evolves[m].fate = "included"
        PROVE  evolves[m].account # e.account
    BY <1>2, <2>2, <2>3, KeysAssumption
  <2>4. ASSUME NEW m \in 1 .. Len(evolves), evolves'[m].fate = "included"
        PROVE  darc'[evolves[m].account].keys = {evolves[m].key}
    BY <1>2, <1>3, <2>1, <2>2, <2>3, <2>4
  <2>5. QED BY <1>1, <2>1, <2>2, <2>4 DEF IInv, Evolutions
<1>6. QED BY <1>4, <1>5

LEMMA RefuseEvolveKeepsDarcs ==
  ASSUME IInv, NEW n \in DOMAIN evolves, RefuseEvolve(n)
  PROVE  DeviceDarcs' /\ Evolutions'
<1>1. UNCHANGED <<step, spawn, darc>> /\ evolves' = [evolves EXCEPT ![n].fate = "refused"]
  BY DEF RefuseEvolve, creatorVars
<1>2. /\ Len(evolves') = Len(evolves)
      /\ \A m \in 1 .. Len(evolves) :
           /\ evolves'[m].key = evolves[m].key
           /\ evolves'[m].account = evolves[m].account
           /\ evolves'[m].fate = IF m = n THEN "refused" ELSE evolves[m].fate
  BY <1>1, FateKeepsSequence DEF IInv, Fates
<1>3. DeviceDarcs'
  BY <1>1 DEF IInv, DeviceDarcs, Fresh, TakenOver
<1>4. QED BY <1>1, <1>2, <1>3 DEF IInv, Evolutions

------------------------------------------------------------------------------
(* The pages of the browsers. *)

\* A page that has an account has one whose key was shown, and what it waits
\* for stays the same while only the fates of evolutions change.
LEMMA OthersKeepPages ==
  ASSUME IInv, UNCHANGED deviceVars,
         \A j \in Ephemerals : step[j] = "shown" => step'[j] = "shown",
         Len(evolves') = Len(evolves),
         \A m \in 1 .. Len(evolves) :
           evolves'[m].key = evolves[m].key /\ evolves'[m].account = evolves[m].account
  PROVE  Waiting' /\ StoredIsRegistered'
BY DEF IInv, Waiting, StoredIsRegistered, deviceVars

LEMMA BrowserKeepsPages ==
  ASSUME IInv, NEW d \in Devices, Browser(d)
  PROVE  Waiting' /\ StoredIsRegistered' /\ RegisteredOwns'
<1> DEFINE WaitingOf(c) ==
             /\ page[c] \in {"reading", "sent", "registered"} =>
                  account[c] \in Ephemerals /\ step[account[c]] = "shown"
             /\ page[c] = "sent" =>
                  /\ current[c] \in 1 .. Len(evolves)
                  /\ evolves[current[c]].key = <<c, identity[c]>>
                  /\ evolves[current[c]].account = account[c]
           StoredOf(c) == stored[c].account # NoAccount => page[c] = "registered"
           OwnsOf(c) == page[c] = "registered" =>
             /\ stored[c] = [key |-> identity[c], account |-> account[c]]
             /\ darc[account[c]].keys = {<<c, identity[c]>>}
<1>1. \A c \in Devices : WaitingOf(c) /\ StoredOf(c) /\ OwnsOf(c)
  BY DEF IInv, Waiting, StoredIsRegistered, RegisteredOwns
<1>2. UNCHANGED <<step, spawn, darc>>
  BY BrowserLeaves
<1>3. evolves \in Seq(Evolve)
  BY DEF IInv, TypeOK
<1>4. /\ page \in [Devices -> {"open", "reading", "sent", "registered"}]
      /\ identity \in [Devices -> 1 .. MaxKeys]
      /\ stored \in [Devices -> [key : 0 .. MaxKeys, account : Ephemerals \cup {NoAccount}]]
      /\ account \in [Devices -> Ephemerals \cup {NoAccount}]
      /\ current \in [Devices -> 0 .. MaxEvolves]
  BY DEF IInv, TypeOK
<1>5. ASSUME NEW c \in Devices, c # d
      PROVE  WaitingOf(c)' /\ StoredOf(c)' /\ OwnsOf(c)'
  <2>1. /\ page'[c] = page[c] /\ identity'[c] = identity[c] /\ stored'[c] = stored[c]
        /\ account'[c] = account[c] /\ current'[c] = current[c]
    BY <1>5, BrowserLeavesOthers DEF IInv
  <2>2. /\ Len(evolves) <= Len(evolves')
        /\ \A m \in 1 .. Len(evolves) : evolves'[m] = evolves[m]
    <3>1. CASE UNCHANGED evolves
      BY <1>3, <3>1
    <3>2. ASSUME NEW version \in 0 .. MaxEvolves, SendEvolve(d, version)
          PROVE  /\ Len(evolves) <= Len(evolves')
                 /\ \A m \in 1 .. Len(evolves) : evolves'[m] = evolves[m]
      BY <1>3, <3>2 DEF SendEvolve
    <3>3. QED BY <3>1, <3>2 DEF Browser, Attach, EvolveDone, AttachFails, Reload, DeleteUser
  <2>3. Len(evolves) \in Nat /\ Len(evolves') \in Nat
    BY <1>3, BrowserKeepsTypes DEF TypeOK
  <2>4. QED BY <1>1, <1>2, <2>1, <2>2, <2>3
<1>6. WaitingOf(d)' /\ StoredOf(d)' /\ OwnsOf(d)'
  <2>1. ASSUME NEW k \in Ephemerals, Attach(d, k)
        PROVE  WaitingOf(d)' /\ StoredOf(d)' /\ OwnsOf(d)'
    BY <1>1, <1>2, <1>4, <2>1 DEF Attach
  <2>2. ASSUME NEW version \in 0 .. MaxEvolves, SendEvolve(d, version)
        PROVE  WaitingOf(d)' /\ StoredOf(d)' /\ OwnsOf(d)'
    <3>1. /\ page[d] = "reading" /\ page'[d] = "sent"
          /\ current'[d] = Len(evolves) + 1
          /\ UNCHANGED <<identity, stored, account>>
      BY <1>4, <2>2 DEF SendEvolve
    <3>2. /\ Len(evolves') = Len(evolves) + 1
          /\ evolves'[Len(evolves) + 1].key = <<d, identity[d]>>
          /\ evolves'[Len(evolves) + 1].account = account[d]
      BY <1>3, <2>2 DEF SendEvolve
    <3>3. Len(evolves) \in Nat
      BY <1>3
    <3>4. account[d] \in Ephemerals /\ step[account[d]] = "shown" /\ stored[d].account = NoAccount
      BY <1>1, <3>1
    <3>5. QED BY <1>2, <3>1, <3>2, <3>3, <3>4
  <2>3. CASE EvolveDone(d)
    <3>1. current[d] \in 1 .. Len(evolves) /\ evolves[current[d]].fate = "included"
      BY <1>1, <2>3 DEF EvolveDone, Answered
    <3>2. darc[account[d]].keys = {<<d, identity[d]>>}
      BY <1>1, <2>3, <3>1 DEF EvolveDone, Answered, IInv, Evolutions
    <3>3. QED BY <1>1, <1>2, <1>4, <2>3, <3>2 DEF EvolveDone, Answered
  <2>4. CASE AttachFails(d)
    BY <1>1, <1>2, <1>4, <2>4 DEF AttachFails
  <2>5. CASE Reload(d)
    <3>1. /\ page'[d] = IF stored[d].account = NoAccount THEN "open" ELSE "registered"
          /\ account'[d] = stored[d].account
          /\ stored[d].key # 0 => identity'[d] = stored[d].key
          /\ stored' = stored
      BY <1>4, <2>5 DEF Reload, LoadFrom
    <3>2. CASE stored[d].account = NoAccount
      BY <3>1, <3>2
    <3>3. CASE stored[d].account # NoAccount
      <4>1. /\ page[d] = "registered" /\ stored[d] = [key |-> identity[d], account |-> account[d]]
            /\ identity[d] \in 1 .. MaxKeys
        BY <1>1, <1>4, <3>3
      <4>2. identity'[d] = identity[d] /\ account'[d] = account[d]
        BY <3>1, <4>1, BoundsAssumption
      <4>3. QED BY <1>1, <1>2, <3>1, <3>3, <4>1, <4>2
    <3>4. QED BY <3>2, <3>3
  <2>6. CASE DeleteUser(d)
    BY <1>4, <2>6 DEF DeleteUser
  <2>7. QED BY <2>1, <2>2, <2>3, <2>4, <2>5, <2>6 DEF Browser
<1>7. \A c \in Devices : WaitingOf(c)' /\ StoredOf(c)' /\ OwnsOf(c)'
  BY <1>5, <1>6
<1>8. QED BY <1>7 DEF Waiting, StoredIsRegistered, RegisteredOwns

\* A registered page keeps its account: the ledger changes the darc of an
\* account only before the first evolution is included.
LEMMA LedgerKeepsPages ==
  ASSUME IInv, Ledger
  PROVE  Waiting' /\ StoredIsRegistered' /\ RegisteredOwns'
<1>1. UNCHANGED deviceVars /\ UNCHANGED step
  BY DEF Ledger, IncludeSpawn, RefuseSpawn, IncludeEvolve, RefuseEvolve, creatorVars
<1>2. ASSUME NEW d \in Devices, page[d] = "registered"
      PROVE  darc'[account[d]].keys = darc[account[d]].keys
  <2> DEFINE k == account[d]
  <2>1. /\ k \in Ephemerals /\ step[k] = "shown"
        /\ darc[k].keys = {<<d, identity[d]>>} /\ <<d, identity[d]>> \in DeviceKeys
    BY <1>2 DEF IInv, TypeOK, Waiting, RegisteredOwns, DeviceKeys
  <2>2. ASSUME NEW j \in Ephemerals, NEW s \in Spawns, IncludeSpawn(j, s) \/ RefuseSpawn(j, s)
        PROVE  darc'[k] = darc[k]
    <3>1. \A t \in Spawns : spawn[k][t] = "included"
      BY <2>1, ShownIsComplete DEF IInv
    <3>2. j # k
      BY <2>2, <3>1 DEF IncludeSpawn, RefuseSpawn
    <3>3. QED BY <2>1, <2>2, <3>2 DEF IncludeSpawn, RefuseSpawn, IInv, TypeOK
  <2>3. ASSUME NEW n \in DOMAIN evolves, IncludeEvolve(n)
        PROVE  darc'[k] = darc[k]
    <3>1. k # evolves[n].account
      BY <2>1, <2>3, TakesOver, KeysAssumption
    <3>2. QED BY <2>1, <2>3, <3>1, TakesOver DEF IInv, TypeOK
  <2>4. ASSUME NEW n \in DOMAIN evolves, RefuseEvolve(n)
        PROVE  darc'[k] = darc[k]
    BY <2>4 DEF RefuseEvolve
  <2>5. QED BY <2>2, <2>3, <2>4 DEF Ledger
<1>3. RegisteredOwns'
  BY <1>1, <1>2 DEF IInv, RegisteredOwns, deviceVars
<1>4. /\ Len(evolves') = Len(evolves)
      /\ \A m \in 1 .. Len(evolves) :
           evolves'[m].key = evolves[m].key /\ evolves'[m].account = evolves[m].account
  <2>1. CASE UNCHANGED evolves
    BY <2>1
  <2>2. ASSUME NEW n \in DOMAIN evolves, IncludeEvolve(n) \/ RefuseEvolve(n)
        PROVE  /\ Len(evolves') = Len(evolves)
               /\ \A m \in 1 .. Len(evolves) :
                    evolves'[m].key = evolves[m].key /\ evolves'[m].account = evolves[m].account
    <3>1. PICK fate \in Fates : evolves' = [evolves EXCEPT ![n].fate = fate]
      BY <2>2 DEF IncludeEvolve, RefuseEvolve, Fates
    <3>2. QED BY <3>1, FateKeepsSequence DEF IInv
  <2>3. QED BY <2>1, <2>2 DEF Ledger, IncludeSpawn, RefuseSpawn
<1>5. QED BY <1>1, <1>3, <1>4, OthersKeepPages

LEMMA CreatorKeepsPages ==
  ASSUME IInv, NEW k \in Ephemerals, Creator(k)
  PROVE  Waiting' /\ StoredIsRegistered' /\ RegisteredOwns'
<1>1. /\ UNCHANGED <<darc, deviceVars, evolves>>
      /\ \A j \in Ephemerals : step[j] = "shown" => step'[j] = "shown"
  BY CreatorLeaves DEF IInv
<1>2. RegisteredOwns'
  BY <1>1 DEF IInv, RegisteredOwns, deviceVars
<1>3. QED BY <1>1, <1>2, OthersKeepPages

------------------------------------------------------------------------------
(* The theorems. *)

LEMMA InitEstablishes ==
  ASSUME Init
  PROVE  IInv
<1> USE BoundsAssumption, CostsAssumption, KeysAssumption DEF Init
<1>1. TypeOK
  BY DEF TypeOK, Steps, Spawns, Fates
<1>2. CreationOrder /\ DeviceDarcs
  BY DEF CreationOrder, DeviceDarcs, Spawns
<1>3. Evolutions /\ Waiting /\ StoredIsRegistered /\ RegisteredOwns
  BY DEF Evolutions, Waiting, StoredIsRegistered, RegisteredOwns
<1>4. QED BY <1>1, <1>2, <1>3 DEF IInv

LEMMA StutterKeeps ==
  ASSUME IInv, UNCHANGED vars
  PROVE  IInv'
<1> USE DEF vars, creatorVars, deviceVars
<1>1. TypeOK' /\ CreationOrder' /\ DeviceDarcs'
  BY DEF IInv, TypeOK, CreationOrder, DeviceDarcs, Fresh, TakenOver
<1>2. Evolutions' /\ Waiting' /\ StoredIsRegistered' /\ RegisteredOwns'
  BY DEF IInv, Evolutions, Waiting, StoredIsRegistered, RegisteredOwns
<1>3. QED BY <1>1, <1>2 DEF IInv

LEMMA NextKeeps ==
  ASSUME IInv, Next
  PROVE  IInv'
<1>1. ASSUME NEW k \in Ephemerals, Creator(k) PROVE IInv'
  BY <1>1, CreatorKeepsTypes, CreatorKeepsOrder, CreatorKeepsDarcs, CreatorKeepsPages DEF IInv
<1>2. ASSUME NEW d \in Devices, Browser(d) PROVE IInv'
  <2>1. CreationOrder'
    BY <1>2, BrowserLeaves DEF IInv, CreationOrder
  <2>2. QED
    BY <1>2, <2>1, BrowserKeepsTypes, BrowserKeepsDarcs, BrowserKeepsPages DEF IInv
<1>3. CASE Ledger
  <2>1. DeviceDarcs' /\ Evolutions'
    BY <1>3, SpawnKeepsDarcs, IncludeEvolveKeepsDarcs, RefuseEvolveKeepsDarcs DEF Ledger
  <2>2. QED BY <1>3, <2>1, LedgerKeepsTypes, LedgerKeepsOrder, LedgerKeepsPages DEF IInv
<1>4. QED BY <1>1, <1>2, <1>3 DEF Next

\* The invariant holds: it is the reason why createUser, addID and
\* attachAndEvolve can be trusted with retries, delays and reloads.
THEOREM Invariance == Spec => []IInv
<1>1. Init => IInv
  BY InitEstablishes
<1>2. IInv /\ [Next]_vars => IInv'
  BY NextKeeps, StutterKeeps
<1>3. QED BY <1>1, <1>2, PTL DEF Spec

\* Every variable keeps its type: createUser, attachAndEvolve, addID and the
\* ledger never leave the values the module says they have, the balance does
\* not fall below zero, and a darc evolves no more often than it was asked to.
THEOREM TypeCorrect == Spec => []TypeOK
<1>1. IInv => TypeOK
  BY DEF IInv
<1>2. QED BY <1>1, Invariance, PTL

\* createUser spawns darcs, coin and credential in this order, and a key that
\* is shown belongs to an account that is complete.
THEOREM CreatedInOrder == Spec => []SpawnedInOrder
<1>1. IInv => SpawnedInOrder
  BY DEF IInv, TypeOK, CreationOrder, SpawnedInOrder, Spawns
<1>2. QED BY <1>1, Invariance, PTL

\* A browser that addID has registered has the key that the device darc names
\* in its storage, whoever else entered the same ephemeral key.
THEOREM RegisteredIsOwner == Spec => []RegisteredOwns
<1>1. IInv => RegisteredOwns
  BY DEF IInv
<1>2. QED BY <1>1, Invariance, PTL

------------------------------------------------------------------------------
(* Signing up implements Account. *)

LEMMA OwnersUnchanged ==
  ASSUME \A j \in Ephemerals :
           /\ darc'[j].keys = darc[j].keys
           /\ spawn'[j]["credential"] = "included" <=> spawn[j]["credential"] = "included"
  PROVE  owners' = owners
BY DEF owners

\* Spawning the credential completes the account of a fresh darc.
LEMMA CredentialCreates ==
  ASSUME IInv, NEW k \in Ephemerals, IncludeSpawn(k, "credential")
  PROVE  A!Create(k)
<1>1. darc[k].keys = {k} /\ spawn[k]["credential"] = "pool"
  <2>1. spawn[k]["credential"] = "pool" /\ "credential" \in Spawns
    BY DEF IncludeSpawn, Spawns
  <2>2. step[k] # "shown"
    BY <2>1, ShownIsComplete DEF IInv
  <2>3. spawn[k]["darcs"] = "included"
    BY <2>1 DEF IInv, CreationOrder
  <2>4. QED BY <2>1, <2>2, <2>3 DEF IInv, DeviceDarcs, Fresh, TakenOver
<1>2. \A j \in Ephemerals : darc'[j].keys = darc[j].keys
  BY DEF IncludeSpawn, IInv, TypeOK
<1>3. \A j \in Ephemerals :
        spawn'[j]["credential"] = IF j = k THEN "included" ELSE spawn[j]["credential"]
  BY DEF IncludeSpawn, IInv, TypeOK, Spawns
<1>4. QED BY <1>1, <1>2, <1>3 DEF A!Create, owners

\* The other transactions of createUser come before there is an owner.
LEMMA SpawnsKeepOwners ==
  ASSUME IInv, NEW k \in Ephemerals, NEW s \in Spawns,
         RefuseSpawn(k, s) \/ (IncludeSpawn(k, s) /\ s # "credential")
  PROVE  owners' = owners
<1>1. \A j \in Ephemerals :
        spawn'[j]["credential"] = "included" <=> spawn[j]["credential"] = "included"
  <2>1. spawn \in [Ephemerals -> [Spawns -> Fates]]
    BY DEF IInv, TypeOK
  <2>2. CASE RefuseSpawn(k, s)
    <3>1. \A j \in Ephemerals, t \in Spawns :
            spawn'[j][t] = IF j = k /\ t = s THEN "refused" ELSE spawn[j][t]
      BY <2>1, <2>2 DEF RefuseSpawn
    <3>2. QED BY <2>2, <3>1, DarcsIsSpawn DEF RefuseSpawn
  <2>3. CASE IncludeSpawn(k, s) /\ s # "credential"
    <3>1. \A j \in Ephemerals, t \in Spawns :
            spawn'[j][t] = IF j = k /\ t = s THEN "included" ELSE spawn[j][t]
      BY <2>1, <2>3 DEF IncludeSpawn
    <3>2. QED BY <2>3, <3>1, DarcsIsSpawn
  <2>4. QED BY <2>2, <2>3
<1>2. ASSUME NEW j \in Ephemerals, spawn[j]["credential"] = "included"
      PROVE  darc'[j].keys = darc[j].keys
  <2>1. spawn[j]["darcs"] = "included"
    BY <1>2 DEF IInv, CreationOrder
  <2>2. ~(j = k /\ s = "darcs" /\ IncludeSpawn(k, s))
    BY <2>1 DEF IncludeSpawn
  <2>3. QED BY <2>2 DEF IncludeSpawn, RefuseSpawn, IInv, TypeOK
<1>3. QED BY <1>1, <1>2 DEF owners

LEMMA InclusionTakesOver ==
  ASSUME IInv, NEW n \in DOMAIN evolves, IncludeEvolve(n)
  PROVE  A!TakeOver(evolves[n].account, evolves[n].key)
<1> DEFINE e == evolves[n]
<1>1. /\ e.account \in Ephemerals /\ step[e.account] = "shown"
      /\ darc[e.account].keys = {e.account}
      /\ darc' = [darc EXCEPT ![e.account] = [version |-> 1, keys |-> {e.key}]]
  BY TakesOver
<1>2. spawn[e.account]["credential"] = "included" /\ UNCHANGED spawn
  BY <1>1, ShownIsComplete, DarcsIsSpawn DEF IInv, IncludeEvolve, creatorVars
<1>3. \A j \in Ephemerals :
        darc'[j].keys = IF j = e.account THEN {e.key} ELSE darc[j].keys
  BY <1>1 DEF IInv, TypeOK
<1>4. QED BY <1>1, <1>2, <1>3 DEF A!TakeOver, owners

\* Every step creates an account, takes one over, or leaves the owners alone.
LEMMA StepImplements ==
  ASSUME IInv, [Next]_vars
  PROVE  [A!Next]_owners
<1>1. ASSUME NEW k \in Ephemerals, Creator(k) PROVE owners' = owners
  BY <1>1, CreatorLeaves, DarcsIsSpawn, OwnersUnchanged DEF IInv
<1>2. ASSUME NEW d \in Devices, Browser(d) PROVE owners' = owners
  BY <1>2, BrowserLeaves, OwnersUnchanged
<1>3. ASSUME NEW k \in Ephemerals, NEW s \in Spawns, IncludeSpawn(k, s) \/ RefuseSpawn(k, s)
      PROVE  [A!Next]_owners
  <2>1. CASE s = "credential" /\ IncludeSpawn(k, s)
    BY <2>1, CredentialCreates DEF A!Next
  <2>2. CASE ~(s = "credential" /\ IncludeSpawn(k, s))
    BY <1>3, <2>2, SpawnsKeepOwners
  <2>3. QED BY <2>1, <2>2
<1>4. ASSUME NEW n \in DOMAIN evolves, IncludeEvolve(n) PROVE [A!Next]_owners
  BY <1>4, InclusionTakesOver, TakesOver DEF A!Next
<1>5. ASSUME NEW n \in DOMAIN evolves, RefuseEvolve(n) PROVE owners' = owners
  BY <1>5 DEF RefuseEvolve, creatorVars, owners
<1>6. CASE UNCHANGED vars
  BY <1>6 DEF vars, creatorVars, owners
<1>7. QED BY <1>1, <1>2, <1>3, <1>4, <1>5, <1>6 DEF Next, Ledger

\* An account is created for its ephemeral key and then taken over once, by
\* one key of a browser: createUser and attachAndEvolve implement Account.
THEOREM ImplementsOneTakeover == Spec => ImplementsAccount
<1>1. Init => A!Init
  BY DEF Init, owners, A!Init, Spawns
<1>2. IInv /\ [Next]_vars => [A!Next]_owners
  BY StepImplements
<1>3. QED BY <1>1, <1>2, Invariance, PTL DEF Spec, ImplementsAccount, A!Spec

------------------------------------------------------------------------------
(* Rights. *)

\* The recursive functions that add identities or actions to rules, for short lists.
LEMMA AppendAllIs ==
  ASSUME NEW rules, NEW action, NEW ids, NEW op
  PROVE  LET one == appendToRule(rules, action, ids[1], op) IN
         /\ Len(ids) = 0 => appendAll(rules, action, ids, op) = rules
         /\ Len(ids) = 1 => appendAll(rules, action, ids, op) = one
         /\ Len(ids) = 2 => appendAll(rules, action, ids, op) =
                              appendToRule(one, action, ids[2], op)
<1> DEFINE Is(n, f) == f = [i \in 0 .. n |-> IF i = 0 THEN rules
                                             ELSE appendToRule(f[i - 1], action, ids[i], op)]
           one == appendToRule(rules, action, ids[1], op)
           two == appendToRule(one, action, ids[2], op)
           all == appendAll(rules, action, ids, op)
           first == [i \in 0 .. 2 |-> IF i = 0 THEN rules ELSE IF i = 1 THEN one ELSE two]
<1>1. all = (CHOOSE f : Is(Len(ids), f))[Len(ids)]
  BY DEF appendAll
<1>2. ASSUME NEW n \in 0 .. 2 PROVE \E f : Is(n, f)
  <2> DEFINE g == [i \in 0 .. n |-> first[i]]
  <2>1. ASSUME NEW i \in 0 .. n
        PROVE  g[i] = IF i = 0 THEN rules ELSE appendToRule(g[i - 1], action, ids[i], op)
    <3>1. CASE i = 0
      BY <3>1
    <3>2. CASE i = 1
      BY <3>2
    <3>3. CASE i = 2
      BY <3>3
    <3>4. QED BY <3>1, <3>2, <3>3
  <2>2. Is(n, g)
    BY <2>1
  <2> HIDE DEF Is, g
  <2>3. QED BY <2>2
<1>3. ASSUME NEW n \in 0 .. 2, Len(ids) = n
      PROVE  \E f : Is(n, f) /\ all = f[n]
  <2> HIDE DEF Is, all
  <2>1. QED BY <1>1, <1>2, <1>3
<1> HIDE DEF all
<1>4. Len(ids) = 0 => all = rules
  BY <1>3
<1>5. Len(ids) = 1 => all = one
  BY <1>3
<1>6. Len(ids) = 2 => all = two
  BY <1>3
<1>7. QED BY <1>4, <1>5, <1>6 DEF all

\* The same for several actions.
LEMMA AppendEachIs ==
  ASSUME NEW rules, NEW actions, NEW ids, NEW op
  PROVE  LET one   == appendAll(rules, actions[1], ids, op)
             two   == appendAll(one, actions[2], ids, op)
             three == appendAll(two, actions[3], ids, op)
             four  == appendAll(three, actions[4], ids, op)
         IN  /\ Len(actions) = 0 => appendEach(rules, actions, ids, op) = rules
             /\ Len(actions) = 1 => appendEach(rules, actions, ids, op) = one
             /\ Len(actions) = 3 => appendEach(rules, actions, ids, op) = three
             /\ Len(actions) = 4 => appendEach(rules, actions, ids, op) = four
<1> DEFINE Is(n, f) == f = [i \in 0 .. n |-> IF i = 0 THEN rules
                                             ELSE appendAll(f[i - 1], actions[i], ids, op)]
           one   == appendAll(rules, actions[1], ids, op)
           two   == appendAll(one, actions[2], ids, op)
           three == appendAll(two, actions[3], ids, op)
           four  == appendAll(three, actions[4], ids, op)
           all == appendEach(rules, actions, ids, op)
           first == [i \in 0 .. 4 |-> IF i = 0 THEN rules ELSE IF i = 1 THEN one
                                      ELSE IF i = 2 THEN two ELSE IF i = 3 THEN three ELSE four]
<1>1. all = (CHOOSE f : Is(Len(actions), f))[Len(actions)]
  BY DEF appendEach
<1>2. ASSUME NEW n \in 0 .. 4 PROVE \E f : Is(n, f)
  <2> DEFINE g == [i \in 0 .. n |-> first[i]]
  <2>1. ASSUME NEW i \in 0 .. n
        PROVE  g[i] = IF i = 0 THEN rules ELSE appendAll(g[i - 1], actions[i], ids, op)
    <3>1. CASE i = 0
      BY <3>1
    <3>2. CASE i = 1
      BY <3>2
    <3>3. CASE i = 2
      BY <3>3
    <3>4. CASE i = 3
      BY <3>4
    <3>5. CASE i = 4
      BY <3>5
    <3>6. QED BY <3>1, <3>2, <3>3, <3>4, <3>5
  <2>2. Is(n, g)
    BY <2>1
  <2> HIDE DEF Is, g
  <2>3. QED BY <2>2
<1>3. ASSUME NEW n \in 0 .. 4, Len(actions) = n
      PROVE  \E f : Is(n, f) /\ all = f[n]
  <2> HIDE DEF Is, all
  <2>1. QED BY <1>1, <1>2, <1>3
<1>4. ASSUME NEW n \in 0 .. 4, NEW f, Is(n, f)
      PROVE  /\ f[0] = rules
             /\ n >= 1 => f[1] = one
             /\ n >= 2 => f[2] = two
             /\ n >= 3 => f[3] = three
             /\ n = 4 => f[4] = four
  <2>1. f[0] = rules
    BY <1>4
  <2>2. \A i \in 1 .. n : f[i] = appendAll(f[i - 1], actions[i], ids, op)
    BY <1>4
  <2> HIDE DEF Is
  <2>3. n >= 1 => f[1] = one
    BY <2>1, <2>2
  <2>4. n >= 2 => f[2] = two
    BY <2>2, <2>3
  <2> HIDE DEF one, two
  <2>5. n >= 3 => f[3] = three
    BY <2>2, <2>4
  <2> HIDE DEF three
  <2>6. n = 4 => f[4] = four
    BY <2>2, <2>5
  <2>7. QED BY <2>1, <2>3, <2>4, <2>5, <2>6
<1> HIDE DEF all, Is, one, two, three, four
<1>5. Len(actions) = 0 => all = rules
  BY <1>3, <1>4
<1>6. Len(actions) = 1 => all = one
  BY <1>3, <1>4
<1>7. Len(actions) = 3 => all = three
  BY <1>3, <1>4
<1>8. Len(actions) = 4 => all = four
  BY <1>3, <1>4
<1>9. QED BY <1>5, <1>6, <1>7, <1>8 DEF all, one, two, three, four


------------------------------------------------------------------------------
(* What the rules of a darc say. *)

\* The keys that accounts are created for, and what darcs and rules may name.
Accounts == Ephemerals \cup {creator}

Identity ==
  {Ed25519(x) : x \in Keys} \cup
  {DarcOf(baseOf(what, k)) : what \in {"device", "signer", "credential"}, k \in Accounts}

Action ==
  {sign, invoke("darc", "evolve"), invoke("credential", "update"), spawnOf("calypsoRead")} \cup
  {invoke("coin", c) : c \in {"mint", "transfer", "fetch", "store"}} \cup
  {invoke("popParty", c) : c \in {"barrier", "finalize", "addParty"}}

Part == [op : {"none", OR, AND}, id : Identity]
Rule == [action : Action, expr : Seq(Part)]

\* The rules say this of each action that they are for, and have one for it only.
Says(rules, say) ==
  /\ rules \in Seq(Rule)
  /\ \A i, j \in DOMAIN rules : rules[i].action = rules[j].action => i = j
  /\ \A i \in DOMAIN rules : /\ rules[i].action \in DOMAIN say
                             /\ rules[i].expr = say[rules[i].action]
  /\ \A a \in DOMAIN say : \E i \in DOMAIN rules : rules[i].action = a

\* The same, but for one action.
With(say, a, expr) == [b \in DOMAIN say \cup {a} |-> IF b = a THEN expr ELSE say[b]]

\* A darc begins with no rules.
LEMMA NoRules == Says(<<>>, <<>>)
  BY DEF Says

\* Where the rule is.
LEMMA RulePlace ==
  ASSUME NEW rules, NEW say, Says(rules, say), NEW a
  PROVE  /\ a \notin DOMAIN say => findIndex(rules, a) = 0
         /\ a \in DOMAIN say => /\ findIndex(rules, a) \in DOMAIN rules
                                /\ findIndex(rules, a) # 0
                                /\ rules[findIndex(rules, a)].action = a
                                /\ rules[findIndex(rules, a)].expr = say[a]
<1> DEFINE found == {i \in DOMAIN rules : rules[i].action = a}
<1>1. DOMAIN rules \subseteq Nat \ {0}
  BY DEF Says
<1>2. CASE a \notin DOMAIN say
  <2>1. found = {}
    BY <1>2 DEF Says
  <2>2. QED BY <1>2, <2>1 DEF findIndex
<1>3. CASE a \in DOMAIN say
  <2>1. PICK i \in DOMAIN rules : rules[i].action = a
    BY <1>3 DEF Says
  <2>2. found = {i}
    BY <2>1 DEF Says
  <2>3. (CHOOSE l \in found : \A j \in found : l <= j) = i
    BY <1>1, <2>1, <2>2
  <2>4. findIndex(rules, a) = i
    BY <2>2, <2>3 DEF findIndex
  <2>5. QED BY <1>1, <1>3, <2>1, <2>4 DEF Says
<1>4. QED BY <1>2, <1>3

\* The expression that the rules have for an action.
LEMMA RuleOf ==
  ASSUME NEW rules, NEW say, Says(rules, say), NEW a
  PROVE  /\ HasRule(rules, a) <=> a \in DOMAIN say
         /\ a \in DOMAIN say => getRule(rules, a).expr = say[a]
  BY RulePlace DEF HasRule, getRule

\* A new rule at the end.
LEMMA NewRule ==
  ASSUME NEW rules, NEW say, Says(rules, say), NEW a \in Action, a \notin DOMAIN say,
         NEW expr \in Seq(Part)
  PROVE  Says(Append(rules, [action |-> a, expr |-> expr]), With(say, a, expr))
<1> DEFINE r == [action |-> a, expr |-> expr]
           new == Append(rules, r)
<1>1. rules \in Seq(Rule) /\ r \in Rule
  BY DEF Says, Rule
<1>2. /\ new \in Seq(Rule) /\ DOMAIN new = DOMAIN rules \cup {Len(rules) + 1}
      /\ Len(rules) + 1 \notin DOMAIN rules
      /\ \A i \in DOMAIN rules : new[i] = rules[i]
      /\ new[Len(rules) + 1] = r
  BY <1>1
<1> HIDE DEF new
<1>3. r.action = a /\ r.expr = expr
  OBVIOUS
<1> HIDE DEF r
<1>4. \A i \in DOMAIN rules : rules[i].action \in DOMAIN say /\ rules[i].action # a
  BY DEF Says
<1>5. \A i, j \in DOMAIN new : new[i].action = new[j].action => i = j
  BY <1>2, <1>3, <1>4 DEF Says
<1>6. \A i \in DOMAIN new : /\ new[i].action \in DOMAIN With(say, a, expr)
                            /\ new[i].expr = With(say, a, expr)[new[i].action]
  BY <1>2, <1>3, <1>4 DEF Says, With
<1>7. \A b \in DOMAIN With(say, a, expr) : \E i \in DOMAIN new : new[i].action = b
  BY <1>2, <1>3 DEF Says, With
<1>8. QED BY <1>2, <1>5, <1>6, <1>7 DEF Says, new, r

\* Another expression in a rule.
LEMMA OtherExpression ==
  ASSUME NEW rules, NEW say, Says(rules, say), NEW a \in DOMAIN say, NEW expr \in Seq(Part)
  PROVE  Says([rules EXCEPT ![findIndex(rules, a)] = [action |-> a, expr |-> expr]],
              With(say, a, expr))
<1> DEFINE r == [action |-> a, expr |-> expr]
           k == findIndex(rules, a)
           new == [rules EXCEPT ![k] = r]
<1>1. k \in DOMAIN rules /\ rules[k].action = a /\ rules \in Seq(Rule)
  BY RulePlace DEF Says
<1> HIDE DEF k
<1>2. r \in Rule /\ r.action = a /\ r.expr = expr
  <2>1. rules[k] \in Rule
    BY <1>1
  <2>2. QED BY <1>1, <2>1 DEF Rule
<1> HIDE DEF r
<1>3. /\ new \in Seq(Rule) /\ DOMAIN new = DOMAIN rules
      /\ \A i \in DOMAIN rules : new[i] = IF i = k THEN r ELSE rules[i]
  BY <1>1, <1>2
<1> HIDE DEF new
<1>4. \A i \in DOMAIN rules : new[i].action = rules[i].action
  BY <1>1, <1>2, <1>3
<1>5. \A i, j \in DOMAIN new : new[i].action = new[j].action => i = j
  BY <1>3, <1>4 DEF Says
<1>6. \A i \in DOMAIN rules : rules[i].action = a <=> i = k
  BY <1>1 DEF Says
<1>7. \A i \in DOMAIN new : /\ new[i].action \in DOMAIN With(say, a, expr)
                            /\ new[i].expr = With(say, a, expr)[new[i].action]
  BY <1>2, <1>3, <1>4, <1>6 DEF Says, With
<1>8. \A b \in DOMAIN With(say, a, expr) : \E i \in DOMAIN new : new[i].action = b
  BY <1>1, <1>3, <1>4 DEF Says, With
<1>9. QED BY <1>3, <1>5, <1>7, <1>8 DEF Says, new, r, k

\* A list of identities with an operator between them.
Joined(ids, op) == [i \in 1 .. Len(ids) |-> [op |-> IF i = 1 THEN "none" ELSE op, id |-> ids[i]]]

\* Expressions of identities.
LEMMA Parts ==
  ASSUME NEW x \in Identity, NEW op \in {"none", OR, AND}
  PROVE  /\ [op |-> op, id |-> x] \in Part
         /\ First(x) \in Seq(Part)
         /\ \A expr \in Seq(Part) : Append(expr, [op |-> op, id |-> x]) \in Seq(Part)
<1>1. [op |-> op, id |-> x] \in Part /\ [op |-> "none", id |-> x] \in Part
  BY DEF Part
<1>2. First(x) \in Seq(Part)
  <2> DEFINE p == [op |-> "none", id |-> x]
  <2> HIDE DEF p
  <2>1. p \in Part
    BY <1>1 DEF p
  <2>2. <<p>> \in Seq(Part)
    BY <2>1
  <2>3. QED BY <2>2 DEF First, p
<1> DEFINE p == [op |-> op, id |-> x]
<1> HIDE DEF p
<1>3. p \in Part
  BY <1>1 DEF p
<1>4. \A expr \in Seq(Part) : Append(expr, p) \in Seq(Part)
  BY <1>3
<1>5. QED BY <1>1, <1>2, <1>4 DEF p

\* One more identity for an action.
LEMMA AppendsOne ==
  ASSUME NEW rules, NEW say, Says(rules, say), NEW a \in Action, NEW x \in Identity,
         NEW op \in {OR, AND}
  PROVE  Says(appendToRule(rules, a, x, op),
              With(say, a, IF a \in DOMAIN say THEN Append(say[a], [op |-> op, id |-> x])
                                               ELSE First(x)))
<1>1. CASE a \notin DOMAIN say
  <2>1. appendToRule(rules, a, x, op) = Append(rules, [action |-> a, expr |-> First(x)])
    BY <1>1, RulePlace DEF appendToRule
  <2>2. First(x) \in Seq(Part)
    BY Parts
  <2>3. QED BY <1>1, <2>1, <2>2, NewRule
<1>2. CASE a \in DOMAIN say
  <2> DEFINE k == findIndex(rules, a)
             p == [op |-> op, id |-> x]
             expr == Append(say[a], p)
  <2>1. k \in DOMAIN rules /\ k # 0 /\ rules[k].action = a /\ rules[k].expr = say[a]
    BY <1>2, RulePlace
  <2>2. rules[k] \in Rule /\ rules \in Seq(Rule)
    <3> HIDE DEF k
    <3>1. QED BY <2>1 DEF Says
  <2>3. appendToRule(rules, a, x, op) = [rules EXCEPT ![k].expr = Append(@, p)]
    BY <2>1 DEF appendToRule
  <2> HIDE DEF k, p
  <2>4. [rules[k] EXCEPT !.expr = Append(@, p)] = [action |-> a, expr |-> expr]
    <3> DEFINE r == rules[k]
    <3>1. r = [action |-> a, expr |-> say[a]]
      BY <2>1, <2>2 DEF Rule
    <3>2. Append(r.expr, p) = expr
      BY <2>1
    <3> HIDE DEF r, expr
    <3>3. [r EXCEPT !.expr = expr] = [action |-> a, expr |-> expr]
      BY <3>1
    <3>4. QED BY <3>2, <3>3 DEF r
  <2>5. [rules EXCEPT ![k].expr = Append(@, p)]
          = [rules EXCEPT ![k] = [action |-> a, expr |-> expr]]
    BY <2>2, <2>4
  <2>6. expr \in Seq(Part)
    <3>1. say[a] \in Seq(Part) /\ p \in Part
      BY <2>1, <2>2, Parts DEF Rule, p
    <3>2. QED BY <3>1
  <2> HIDE DEF expr
  <2>7. Says([rules EXCEPT ![k] = [action |-> a, expr |-> expr]], With(say, a, expr))
    BY <1>2, <2>6, OtherExpression DEF k
  <2>8. QED BY <1>2, <2>3, <2>5, <2>7 DEF expr, p
<1>3. QED BY <1>1, <1>2

\* What the rules say of an action that had no rule.
LEMMA AppendsAll ==
  ASSUME NEW rules, NEW say, Says(rules, say), NEW a \in Action, a \notin DOMAIN say,
         NEW ids \in Seq(Identity), Len(ids) \in 1 .. 2, NEW op \in {OR, AND}
  PROVE  Says(appendAll(rules, a, ids, op), With(say, a, Joined(ids, op)))
<1> DEFINE one == appendToRule(rules, a, ids[1], op)
           said == With(say, a, First(ids[1]))
           both == Append(First(ids[1]), [op |-> op, id |-> ids[2]])
<1>1. ids[1] \in Identity
  OBVIOUS
<1>2. Says(one, said)
  BY <1>1, AppendsOne
<1>3. CASE Len(ids) = 1
  <2>1. First(ids[1]) = Joined(ids, op)
    <3> DEFINE p == [op |-> "none", id |-> ids[1]]
    <3>1. Joined(ids, op) = [i \in 1 .. 1 |-> [op |-> IF i = 1 THEN "none" ELSE op, id |-> ids[i]]]
      BY <1>3 DEF Joined
    <3>2. \A i \in 1 .. 1 : [op |-> IF i = 1 THEN "none" ELSE op, id |-> ids[i]] = p
      OBVIOUS
    <3> HIDE DEF p
    <3>3. Joined(ids, op) = [i \in 1 .. 1 |-> p]
      BY <3>1, <3>2
    <3>4. [i \in 1 .. 1 |-> p] = <<p>>
      OBVIOUS
    <3>5. QED BY <3>3, <3>4 DEF First, p
  <2>2. appendAll(rules, a, ids, op) = one
    BY <1>3, AppendAllIs
  <2>3. QED BY <1>2, <2>1, <2>2
<1>4. CASE Len(ids) = 2
  <2>1. ids[2] \in Identity
    BY <1>4
  <2>2. a \in DOMAIN said /\ said[a] = First(ids[1])
    BY DEF With
  <2>3. both = Joined(ids, op)
    <3> DEFINE p == [op |-> "none", id |-> ids[1]]
               r == [op |-> op, id |-> ids[2]]
    <3>1. Joined(ids, op) = [i \in 1 .. 2 |-> [op |-> IF i = 1 THEN "none" ELSE op, id |-> ids[i]]]
      BY <1>4 DEF Joined
    <3>2. \A i \in 1 .. 2 :
            [op |-> IF i = 1 THEN "none" ELSE op, id |-> ids[i]] = IF i = 1 THEN p ELSE r
      <4>1. ASSUME NEW i \in 1 .. 2, i = 1
            PROVE  [op |-> IF i = 1 THEN "none" ELSE op, id |-> ids[i]] = p
        BY <4>1
      <4>2. ASSUME NEW i \in 1 .. 2, i # 1
            PROVE  [op |-> IF i = 1 THEN "none" ELSE op, id |-> ids[i]] = r
        <5>1. i = 2
          BY <4>2
        <5>2. QED BY <4>2, <5>1
      <4> HIDE DEF p, r
      <4>3. QED BY <4>1, <4>2
    <3> HIDE DEF p, r
    <3>3. Joined(ids, op) = [i \in 1 .. 2 |-> IF i = 1 THEN p ELSE r]
      BY <3>1, <3>2
    <3>4. [i \in 1 .. 2 |-> IF i = 1 THEN p ELSE r] = <<p, r>>
      OBVIOUS
    <3>5. both = Append(<<p>>, r)
      BY DEF First, p, r
    <3>6. Append(<<p>>, r) = <<p, r>>
      <4> DEFINE S == {p, r}
                 y == Append(<<p>>, r)
                 z == <<p, r>>
      <4>1. p \in S /\ r \in S
        OBVIOUS
      <4> HIDE DEF S
      <4>2. /\ y \in Seq(S) /\ Len(y) = 2 /\ y[1] = p /\ y[2] = r
            /\ z \in Seq(S) /\ Len(z) = 2 /\ z[1] = p /\ z[2] = r
        BY <4>1
      <4> HIDE DEF y, z
      <4>3. \A i \in 1 .. Len(y) : y[i] = z[i]
        BY <4>2
      <4>4. y = z
        BY <4>2, <4>3, SeqEqual
      <4>5. QED BY <4>4 DEF y, z
    <3>7. QED BY <3>3, <3>4, <3>5, <3>6
  <2>4. With(said, a, both) = With(say, a, both)
    BY DEF With
  <2>5. appendAll(rules, a, ids, op) = appendToRule(one, a, ids[2], op)
    BY <1>4, AppendAllIs
  <2> HIDE DEF one, said
  <2>6. Says(appendToRule(one, a, ids[2], op), With(said, a, both))
    BY <1>2, <2>1, <2>2, AppendsOne
  <2>7. QED BY <2>3, <2>4, <2>5, <2>6
<1>5. QED BY <1>3, <1>4

\* The members of a list.
Listed(actions) == {actions[i] : i \in DOMAIN actions}

\* One expression for the evolution of the darc, and one for all other actions.
Grants(B, e, f) == [b \in B |-> IF b = invoke("darc", "evolve") THEN e ELSE f]

\* Another action, for those who may do all but evolve the darc.
LEMMA GrantsMore ==
  ASSUME NEW B, NEW e, NEW f, NEW a, a # invoke("darc", "evolve")
  PROVE  With(Grants(B, e, f), a, f) = Grants(B \cup {a}, e, f)
  BY DEF With, Grants

\* Actions that are added to the rules of a darc, all for the same identities.
LEMMA AppendsEach ==
  ASSUME NEW rules, NEW B, NEW e, NEW ids \in Seq(Identity), Len(ids) \in 1 .. 2,
         Says(rules, Grants(B, e, Joined(ids, OR))),
         NEW actions \in Seq(Action \ (B \cup {invoke("darc", "evolve")})),
         Len(actions) \in {0, 1, 3, 4},
         \A i, j \in DOMAIN actions : actions[i] = actions[j] => i = j
  PROVE  Says(appendEach(rules, actions, ids, OR),
              Grants(B \cup Listed(actions), e, Joined(ids, OR)))
<1> DEFINE f == Joined(ids, OR)
           n == Len(actions)
           one   == appendAll(rules, actions[1], ids, OR)
           two   == appendAll(one, actions[2], ids, OR)
           three == appendAll(two, actions[3], ids, OR)
           four  == appendAll(three, actions[4], ids, OR)
           upTo(m) == B \cup {actions[i] : i \in 1 .. m}
<1>0. DOMAIN actions = 1 .. n /\ n \in {0, 1, 3, 4}
  OBVIOUS
<1> HIDE DEF n
<1>1. ASSUME NEW old, NEW m \in 0 .. 3, m < n, Says(old, Grants(upTo(m), e, f))
      PROVE  Says(appendAll(old, actions[m + 1], ids, OR), Grants(upTo(m + 1), e, f))
  <2> DEFINE a == actions[m + 1]
             say == Grants(upTo(m), e, f)
  <2>1. m + 1 \in DOMAIN actions /\ 1 .. m \subseteq DOMAIN actions /\ m + 1 \notin 1 .. m
    BY <1>0, <1>1
  <2>2. a \in Action /\ a \notin B /\ a # invoke("darc", "evolve")
    BY <2>1
  <2>3. a \notin upTo(m)
    BY <2>1, <2>2
  <2>4. upTo(m + 1) = upTo(m) \cup {a}
    <3>1. 1 .. m + 1 = 1 .. m \cup {m + 1}
      OBVIOUS
    <3>2. QED BY <3>1
  <2> HIDE DEF a, upTo
  <2>5. a \notin DOMAIN say
    BY <2>3 DEF Grants
  <2>6. With(say, a, f) = Grants(upTo(m + 1), e, f)
    BY <2>2, <2>4, GrantsMore
  <2> HIDE DEF say
  <2>7. Says(appendAll(old, a, ids, OR), With(say, a, f))
    BY <1>1, <2>2, <2>5, AppendsAll DEF say
  <2>8. QED BY <2>6, <2>7 DEF a
<1>2. upTo(0) = B
  OBVIOUS
<1>3. Says(rules, Grants(upTo(0), e, f))
  BY <1>2
<1> HIDE DEF upTo, f
<1>4. n >= 1 => Says(one, Grants(upTo(1), e, f))
  <2>1. n >= 1 => Says(appendAll(rules, actions[0 + 1], ids, OR), Grants(upTo(0 + 1), e, f))
    BY <1>0, <1>1, <1>3
  <2>2. 0 + 1 = 1
    OBVIOUS
  <2>3. QED BY <2>1, <2>2
<1>5. n >= 2 => Says(two, Grants(upTo(2), e, f))
  <2> HIDE DEF one
  <2>1. n >= 2 => Says(appendAll(one, actions[1 + 1], ids, OR), Grants(upTo(1 + 1), e, f))
    BY <1>0, <1>1, <1>4
  <2>2. 1 + 1 = 2
    OBVIOUS
  <2>3. QED BY <2>1, <2>2
<1>6. n >= 3 => Says(three, Grants(upTo(3), e, f))
  <2> HIDE DEF two
  <2>1. n >= 3 => Says(appendAll(two, actions[2 + 1], ids, OR), Grants(upTo(2 + 1), e, f))
    BY <1>0, <1>1, <1>5
  <2>2. 2 + 1 = 3
    OBVIOUS
  <2>3. QED BY <2>1, <2>2
<1>7. n >= 4 => Says(four, Grants(upTo(4), e, f))
  <2> HIDE DEF three
  <2>1. n >= 4 => Says(appendAll(three, actions[3 + 1], ids, OR), Grants(upTo(3 + 1), e, f))
    BY <1>0, <1>1, <1>6
  <2>2. 3 + 1 = 4
    OBVIOUS
  <2>3. QED BY <2>1, <2>2
<1> DEFINE all == appendEach(rules, actions, ids, OR)
<1>8. /\ n = 0 => all = rules
      /\ n = 1 => all = one
      /\ n = 3 => all = three
      /\ n = 4 => all = four
  BY AppendEachIs DEF n
<1> HIDE DEF one, two, three, four, all
<1>9. Says(all, Grants(upTo(n), e, f))
  BY <1>0, <1>3, <1>4, <1>6, <1>7, <1>8
<1>10. upTo(n) = B \cup Listed(actions)
  BY <1>0 DEF upTo, Listed
<1>11. QED BY <1>9, <1>10 DEF all, f

\* What the rules of a new darc say.
LEMMA DarcSays ==
  ASSUME NEW name, NEW owning \in Seq(Identity), Len(owning) \in 0 .. 2,
         NEW signers \in Seq(Identity), Len(signers) \in 1 .. 2,
         NEW actions \in Seq(Action \ {sign, invoke("darc", "evolve")}),
         Len(actions) \in {0, 1, 3, 4},
         \A i, j \in DOMAIN actions : actions[i] = actions[j] => i = j
  PROVE  LET evolvable == IF Len(owning) = 0 THEN {} ELSE {invoke("darc", "evolve")} IN
         Says(newDarc(name, owning, signers, actions).rules,
              Grants(evolvable \cup {sign} \cup Listed(actions),
                     Joined(owning, AND), Joined(signers, OR)))
<1> DEFINE ev == invoke("darc", "evolve")
           E == IF Len(owning) = 0 THEN {} ELSE {ev}
           e == Joined(owning, AND)
           f == Joined(signers, OR)
           first == appendAll(<<>>, ev, owning, AND)
           init == appendAll(first, sign, signers, OR)
<1>1. Says(first, Grants(E, e, f))
  <2>1. CASE Len(owning) = 0
    <3>1. first = <<>>
      BY <2>1, AppendAllIs
    <3>2. Grants(E, e, f) = <<>>
      BY <2>1 DEF Grants
    <3>3. QED BY <3>1, <3>2, NoRules
  <2>2. CASE Len(owning) # 0
    <3>1. Says(first, With(<<>>, ev, e))
      <4>1. ev \in Action /\ ev \notin DOMAIN <<>>
        BY DEF Action
      <4>2. Len(owning) \in 1 .. 2
        BY <2>2
      <4>3. QED BY <4>1, <4>2, NoRules, AppendsAll
    <3>2. With(<<>>, ev, e) = Grants(E, e, f)
      BY <2>2 DEF With, Grants
    <3>3. QED BY <3>1, <3>2
  <2>3. QED BY <2>1, <2>2
<1>2. sign # ev /\ sign \in Action
  BY DEF sign, invoke, Action
<1>3. sign \notin E /\ E \subseteq {ev}
  BY <1>2
<1> HIDE DEF E, e, f, ev, first
<1>4. Says(init, Grants(E \cup {sign}, e, f))
  <2>1. sign \notin DOMAIN Grants(E, e, f)
    BY <1>3 DEF Grants
  <2>2. With(Grants(E, e, f), sign, f) = Grants(E \cup {sign}, e, f)
    BY <1>2, GrantsMore DEF ev
  <2>3. Says(init, With(Grants(E, e, f), sign, f))
    BY <1>1, <1>2, <2>1, AppendsAll DEF f
  <2>4. QED BY <2>2, <2>3
<1> HIDE DEF init
<1>5. actions \in Seq(Action \ ((E \cup {sign}) \cup {ev}))
  <2>1. Action \ ((E \cup {sign}) \cup {ev}) = Action \ {sign, ev}
    BY <1>3
  <2>2. QED BY <2>1 DEF ev
<1> DEFINE B == E \cup {sign}
<1> HIDE DEF B
<1>6. Says(appendEach(init, actions, signers, OR),
           Grants(B \cup Listed(actions), e, f))
  <2>1. Says(init, Grants(B, e, Joined(signers, OR)))
    BY <1>4 DEF B, f
  <2>2. actions \in Seq(Action \ (B \cup {invoke("darc", "evolve")}))
    BY <1>5 DEF B, ev
  <2>3. Says(appendEach(init, actions, signers, OR),
             Grants(B \cup Listed(actions), e, Joined(signers, OR)))
    BY <2>1, <2>2, AppendsEach, Zenon
  <2>4. QED BY <2>3 DEF f
<1>7. newDarc(name, owning, signers, actions).rules = appendEach(init, actions, signers, OR)
  BY DEF newDarc, initRules, init, first, ev
<1>8. QED BY <1>6, <1>7 DEF B, E, e, f, ev

\* The rule of an action is replaced.
LEMMA Replaces ==
  ASSUME NEW rules, NEW say, Says(rules, say), NEW a \in Action, NEW x \in Identity
  PROVE  Says(setRule(rules, a, x), With(say, a, First(x)))
<1>1. First(x) \in Seq(Part)
  BY Parts
<1>2. CASE a \notin DOMAIN say
  <2>1. setRule(rules, a, x) = Append(rules, [action |-> a, expr |-> First(x)])
    BY <1>2, RulePlace DEF setRule
  <2>2. QED BY <1>1, <1>2, <2>1, NewRule
<1>3. CASE a \in DOMAIN say
  <2>1. setRule(rules, a, x) =
          [rules EXCEPT ![findIndex(rules, a)] = [action |-> a, expr |-> First(x)]]
    BY <1>3, RulePlace DEF setRule
  <2>2. Says([rules EXCEPT ![findIndex(rules, a)] = [action |-> a, expr |-> First(x)]],
             With(say, a, First(x)))
    BY <1>1, <1>3, OtherExpression
  <2>3. QED BY <2>1, <2>2
<1>4. QED BY <1>2, <1>3

\* Lists of one and of two.
LEMMA One ==
  ASSUME NEW x
  PROVE  /\ Len(<<x>>) = 1 /\ \A S : x \in S => <<x>> \in Seq(S)
         /\ \A op : Joined(<<x>>, op) = First(x)
<1> DEFINE s == <<x>>
<1>1. s \in Seq({x}) /\ Len(s) = 1 /\ s[1] = x
  OBVIOUS
<1>2. ASSUME NEW S, x \in S PROVE s \in Seq(S)
  BY <1>2
<1> HIDE DEF s
<1>3. ASSUME NEW op PROVE Joined(s, op) = First(x)
  <2> DEFINE p == [op |-> "none", id |-> x]
  <2>1. Joined(s, op) = [i \in 1 .. 1 |-> [op |-> IF i = 1 THEN "none" ELSE op, id |-> s[i]]]
    BY <1>1 DEF Joined
  <2>2. \A i \in 1 .. 1 : [op |-> IF i = 1 THEN "none" ELSE op, id |-> s[i]] = p
    BY <1>1
  <2> HIDE DEF p
  <2>3. Joined(s, op) = [i \in 1 .. 1 |-> p]
    BY <2>1, <2>2
  <2>4. [i \in 1 .. 1 |-> p] = <<p>>
    OBVIOUS
  <2>5. QED BY <2>3, <2>4 DEF First, p
<1>4. QED BY <1>1, <1>2, <1>3 DEF s

LEMMA Two ==
  ASSUME NEW x, NEW y
  PROVE  /\ Len(<<x, y>>) = 2
         /\ \A S : x \in S /\ y \in S => <<x, y>> \in Seq(S)
         /\ DOMAIN Joined(<<x, y>>, OR) = 1 .. 2
         /\ Joined(<<x, y>>, OR)[1].op = "none" /\ Joined(<<x, y>>, OR)[1].id = x
         /\ Joined(<<x, y>>, OR)[2].op = OR     /\ Joined(<<x, y>>, OR)[2].id = y
<1> DEFINE s == <<x, y>>
<1>1. s \in Seq({x, y}) /\ Len(s) = 2 /\ s[1] = x /\ s[2] = y
  OBVIOUS
<1>2. ASSUME NEW S, x \in S, y \in S PROVE s \in Seq(S)
  BY <1>2
<1> HIDE DEF s
<1>3. Joined(s, OR) = [i \in 1 .. 2 |-> [op |-> IF i = 1 THEN "none" ELSE OR, id |-> s[i]]]
  BY <1>1 DEF Joined
<1>4. /\ DOMAIN Joined(s, OR) = 1 .. 2
      /\ Joined(s, OR)[1].op = "none" /\ Joined(s, OR)[1].id = x
      /\ Joined(s, OR)[2].op = OR     /\ Joined(s, OR)[2].id = y
  BY <1>1, <1>3
<1>5. QED BY <1>1, <1>2, <1>4 DEF s

\* The operator that asks for all is no other one.
LEMMA Operators == OR # AND /\ "none" # AND
  BY DEF OR, AND

\* What such expressions ask for.
LEMMA HoldsOne ==
  ASSUME NEW x, NEW ids
  PROVE  Holds(First(x), ids) <=> x \in ids
<1>1. /\ DOMAIN First(x) = {1}
      /\ First(x)[1].op = "none" /\ First(x)[1].id = x
  BY DEF First
<1>2. QED BY <1>1, Operators DEF Holds

\* One of two may act.
LEMMA HoldsEither ==
  ASSUME NEW x, NEW y, NEW ids
  PROVE  Holds(Joined(<<x, y>>, OR), ids) <=> x \in ids \/ y \in ids
<1> DEFINE j == Joined(<<x, y>>, OR)
<1>1. /\ DOMAIN j = 1 .. 2
      /\ j[1].op # AND /\ j[1].id = x
      /\ j[2].op # AND /\ j[2].id = y
  BY Two, Operators
<1> HIDE DEF j
<1>2. ~ \E i \in DOMAIN j : j[i].op = AND
  BY <1>1
<1>3. (\E i \in DOMAIN j : j[i].id \in ids) <=> x \in ids \/ y \in ids
  BY <1>1
<1>4. QED BY <1>2, <1>3 DEF Holds, j

\* The darc lets x, and nobody else, do these actions, and no others.
OnlyFor(d, B, x) == \A a, ids : Permits(d, a, ids) <=> a \in B /\ x \in ids

\* A darc with the same single identity in all its rules.
LEMMA OneGranted ==
  ASSUME NEW d, NEW B, NEW x, Says(d.rules, Grants(B, First(x), First(x)))
  PROVE  /\ OnlyFor(d, B, x)
         /\ sign \in B => getRule(d.rules, sign).expr = First(x)
<1> DEFINE say == Grants(B, First(x), First(x))
<1>1. DOMAIN say = B /\ \A a \in B : say[a] = First(x)
  BY DEF Grants
<1> HIDE DEF say
<1>2. Says(d.rules, say)
  BY DEF say
<1>3. ASSUME NEW a, NEW ids PROVE Permits(d, a, ids) <=> a \in B /\ x \in ids
  <2>1. CASE a \in B
    <3>1. HasRule(d.rules, a) /\ getRule(d.rules, a).expr = First(x)
      BY <1>1, <1>2, <2>1, RuleOf
    <3>2. QED BY <2>1, <3>1, HoldsOne DEF Permits
  <2>2. CASE a \notin B
    <3>1. ~ HasRule(d.rules, a)
      BY <1>1, <1>2, <2>2, RuleOf
    <3>2. QED BY <2>2, <3>1 DEF Permits
  <2>3. QED BY <2>1, <2>2
<1>4. sign \in B => getRule(d.rules, sign).expr = First(x)
  BY <1>1, <1>2, RuleOf
<1>5. QED BY <1>3, <1>4 DEF OnlyFor

\* A list of different actions, as short as those of the program.
ActionList ==
  {s \in Seq(Action \ {sign, invoke("darc", "evolve")}) :
     Len(s) \in {0, 1, 3, 4} /\ \A i, j \in DOMAIN s : s[i] = s[j] => i = j}

\* A new darc for one identity, which may evolve it or may not.
LEMMA SingleSigner ==
  ASSUME NEW name, NEW x \in Identity, NEW actions \in ActionList
  PROVE  /\ Says(newDarc(name, <<x>>, <<x>>, actions).rules,
                 Grants({invoke("darc", "evolve")} \cup {sign} \cup Listed(actions),
                        First(x), First(x)))
         /\ Says(newDarc(name, <<>>, <<x>>, actions).rules,
                 Grants({sign} \cup Listed(actions), First(x), First(x)))
<1>0. /\ actions \in Seq(Action \ {sign, invoke("darc", "evolve")})
      /\ Len(actions) \in {0, 1, 3, 4}
      /\ \A i, j \in DOMAIN actions : actions[i] = actions[j] => i = j
  BY DEF ActionList
<1> DEFINE s == <<x>>
<1>1. s \in Seq(Identity) /\ Len(s) = 1 /\ Joined(s, AND) = First(x) /\ Joined(s, OR) = First(x)
  BY One
<1> HIDE DEF s
<1>2. Len(s) \in 1 .. 2 /\ Len(s) \in 0 .. 2 /\ Len(s) # 0
  BY <1>1
<1>3. Says(newDarc(name, s, s, actions).rules,
           Grants({invoke("darc", "evolve")} \cup {sign} \cup Listed(actions),
                  Joined(s, AND), Joined(s, OR)))
  BY <1>0, <1>1, <1>2, DarcSays
<1> DEFINE z == <<>>
<1>4. z \in Seq(Identity) /\ Len(z) = 0 /\ Len(z) \in 0 .. 2
  OBVIOUS
<1> HIDE DEF z
<1>5. Says(newDarc(name, z, s, actions).rules,
           Grants({} \cup {sign} \cup Listed(actions), Joined(z, AND), Joined(s, OR)))
  BY <1>0, <1>1, <1>2, <1>4, DarcSays
<1>6. invoke("darc", "evolve") \notin {sign} \cup Listed(actions)
  <2>1. invoke("darc", "evolve") # sign
    BY DEF invoke, sign
  <2>2. QED BY <1>0, <2>1 DEF Listed
<1>7. Grants({} \cup {sign} \cup Listed(actions), Joined(z, AND), Joined(s, OR)) =
        Grants({sign} \cup Listed(actions), First(x), First(x))
  BY <1>1, <1>6 DEF Grants
<1>8. QED BY <1>1, <1>3, <1>5, <1>7 DEF s, z

\* The names of actions are told apart.
LEMMA ActionsDiffer ==
  /\ \A c1, c2, m1, m2 : invoke(c1, m1) = invoke(c2, m2) <=> c1 = c2 /\ m1 = m2
  /\ \A c, m : invoke(c, m) # sign
  /\ \A c : spawnOf(c) # sign
  /\ \A c1, c2, m : spawnOf(c1) # invoke(c2, m)
<1>1. ASSUME NEW c1, NEW c2, NEW m1, NEW m2, invoke(c1, m1) = invoke(c2, m2)
      PROVE  c1 = c2 /\ m1 = m2
  BY <1>1 DEF invoke
<1>2. \A c, m : invoke(c, m) # sign
  BY DEF invoke, sign
<1>3. \A c : spawnOf(c) # sign
  BY DEF spawnOf, sign
<1>4. \A c1, c2, m : spawnOf(c1) # invoke(c2, m)
  BY DEF spawnOf, invoke
<1>5. QED BY <1>1, <1>2, <1>3, <1>4

\* What the darcs of an account, of a party and of a secret are for.
LEMMA ListsOfActions ==
  /\ <<>> \in ActionList /\ Listed(<<>>) = {}
  /\ LET s == <<invoke("credential", "update")>>
     IN  s \in ActionList /\ Listed(s) = {invoke("credential", "update")}
  /\ LET s == <<spawnOf("calypsoRead")>>
     IN  s \in ActionList /\ Listed(s) = {spawnOf("calypsoRead")}
  /\ LET s == <<invoke("popParty", "barrier"), invoke("popParty", "finalize"),
                invoke("popParty", "addParty")>>
     IN  s \in ActionList /\ Listed(s) = {s[1], s[2], s[3]}
<1> DEFINE Plain == Action \ {sign, invoke("darc", "evolve")}
<1>1. /\ invoke("credential", "update") \in Plain /\ spawnOf("calypsoRead") \in Plain
      /\ \A c \in {"barrier", "finalize", "addParty"} : invoke("popParty", c) \in Plain
  BY ActionsDiffer DEF Action
<1>2. \A x, y : invoke("popParty", x) = invoke("popParty", y) => x = y
  BY ActionsDiffer
<1> HIDE DEF Plain
<1>3. <<>> \in ActionList /\ Listed(<<>>) = {}
  BY DEF ActionList, Listed
<1>4. ASSUME NEW x \in Plain PROVE <<x>> \in ActionList /\ Listed(<<x>>) = {x}
  <2> DEFINE s == <<x>>
  <2>1. s \in Seq(Plain) /\ Len(s) = 1 /\ DOMAIN s = {1} /\ s[1] = x
    OBVIOUS
  <2> HIDE DEF s
  <2>2. QED BY <2>1 DEF ActionList, Listed, Plain, s
<1>5. ASSUME NEW x \in Plain, NEW y \in Plain, NEW z \in Plain, x # y, x # z, y # z
      PROVE  <<x, y, z>> \in ActionList /\ Listed(<<x, y, z>>) = {x, y, z}
  <2> DEFINE s == <<x, y, z>>
  <2>1. /\ s \in Seq(Plain) /\ Len(s) = 3 /\ DOMAIN s = {1, 2, 3}
        /\ s[1] = x /\ s[2] = y /\ s[3] = z
    OBVIOUS
  <2> HIDE DEF s
  <2>2. \A i, j \in DOMAIN s : s[i] = s[j] => i = j
    BY <1>5, <2>1
  <2>3. QED BY <2>1, <2>2 DEF ActionList, Listed, Plain, s
<1>6. QED
  <2> DEFINE x == invoke("popParty", "barrier")
             y == invoke("popParty", "finalize")
             z == invoke("popParty", "addParty")
  <2>1. x \in Plain /\ y \in Plain /\ z \in Plain
    BY <1>1
  <2>2. x # y /\ x # z /\ y # z
    BY <1>2
  <2> HIDE DEF x, y, z
  <2>3. /\ <<x, y, z>> \in ActionList /\ Listed(<<x, y, z>>) = {x, y, z}
        /\ <<x, y, z>>[1] = x /\ <<x, y, z>>[2] = y /\ <<x, y, z>>[3] = z
    BY <1>5, <2>1, <2>2
  <2>4. QED BY <1>1, <1>3, <1>4, <2>3 DEF x, y, z

\* What the darc of a coin is for; the one of the creator also mints.
LEMMA CoinActions ==
  ASSUME NEW k
  PROVE  LET s == [i \in DOMAIN coinActions(k) |-> invoke("coin", coinActions(k)[i])] IN
         /\ s \in ActionList
         /\ Listed(s) = {invoke("coin", c) : c \in {"transfer", "fetch", "store"}} \cup
                          (IF k = creator THEN {invoke("coin", "mint")} ELSE {})
<1> DEFINE Plain == Action \ {sign, invoke("darc", "evolve")}
           c == coinActions(k)
           C == {"transfer", "fetch", "store"} \cup (IF k = creator THEN {"mint"} ELSE {})
           s == [i \in DOMAIN c |-> invoke("coin", c[i])]
<1>1. /\ \A m \in {"mint", "transfer", "fetch", "store"} : invoke("coin", m) \in Plain
      /\ \A x, y : invoke("coin", x) = invoke("coin", y) => x = y
  BY ActionsDiffer DEF Action
<1> HIDE DEF Plain
<1>2. /\ Len(c) \in {3, 4} /\ DOMAIN c = 1 .. Len(c)
      /\ \A i, j \in DOMAIN c : c[i] = c[j] => i = j
      /\ {c[i] : i \in DOMAIN c} = C
  <2>1. CASE k = creator
    <3>2. c = <<"mint", "transfer", "fetch", "store">>
      BY <2>1 DEF coinActions
    <3>3. /\ Len(c) = 4 /\ DOMAIN c = {1, 2, 3, 4}
          /\ c[1] = "mint" /\ c[2] = "transfer" /\ c[3] = "fetch" /\ c[4] = "store"
      <4> DEFINE u == "mint"
                 x == "transfer"
                 y == "fetch"
                 z == "store"
      <4>2. c = <<u, x, y, z>>
        BY <3>2
      <4> HIDE DEF c, u, x, y, z
      <4>3. /\ Len(c) = 4 /\ DOMAIN c = {1, 2, 3, 4}
            /\ c[1] = u /\ c[2] = x /\ c[3] = y /\ c[4] = z
        BY <4>2
      <4>4. QED BY <4>3 DEF u, x, y, z
    <3> HIDE DEF c
    <3>4. DOMAIN c = 1 .. 4
      BY <3>3
    <3>5. C = {"transfer", "fetch", "store", "mint"}
      BY <2>1
    <3> HIDE DEF C
    <3>6. QED BY <3>3, <3>4, <3>5
  <2>2. CASE k # creator
    <3>2. c = <<"transfer", "fetch", "store">>
      BY <2>2 DEF coinActions
    <3>3. /\ Len(c) = 3 /\ DOMAIN c = {1, 2, 3}
          /\ c[1] = "transfer" /\ c[2] = "fetch" /\ c[3] = "store"
      <4> DEFINE x == "transfer"
                 y == "fetch"
                 z == "store"
      <4>2. c = <<x, y, z>>
        BY <3>2
      <4> HIDE DEF c, x, y, z
      <4>3. /\ Len(c) = 3 /\ DOMAIN c = {1, 2, 3}
            /\ c[1] = x /\ c[2] = y /\ c[3] = z
        BY <4>2
      <4>4. QED BY <4>3 DEF x, y, z
    <3> HIDE DEF c
    <3>4. DOMAIN c = 1 .. 3
      BY <3>3
    <3>5. C = {"transfer", "fetch", "store"}
      BY <2>2
    <3> HIDE DEF C
    <3>6. QED BY <3>3, <3>4, <3>5
  <2>3. QED BY <2>1, <2>2
<1> HIDE DEF c
<1>3. \A i \in DOMAIN c : c[i] \in {"mint", "transfer", "fetch", "store"}
  BY <1>2
<1>4. s \in Seq(Plain) /\ Len(s) = Len(c) /\ DOMAIN s = DOMAIN c
  <2>1. s \in [1 .. Len(c) -> Plain] /\ Len(c) \in Nat
    BY <1>1, <1>2, <1>3
  <2> HIDE DEF s
  <2>2. QED BY <1>2, <2>1
<1>5. \A i, j \in DOMAIN s : s[i] = s[j] => i = j
  BY <1>1, <1>2
<1>6. Listed(s) = {invoke("coin", m) : m \in C}
  <2>1. \A a : a \in Listed(s) <=> \E i \in DOMAIN c : a = invoke("coin", c[i])
    BY DEF Listed
  <2>2. \A m : m \in C <=> \E i \in DOMAIN c : m = c[i]
    BY <1>2
  <2> HIDE DEF C, s
  <2>3. QED BY <2>1, <2>2
<1>7. {invoke("coin", m) : m \in C} =
        {invoke("coin", m) : m \in {"transfer", "fetch", "store"}} \cup
          (IF k = creator THEN {invoke("coin", "mint")} ELSE {})
  OBVIOUS
<1> HIDE DEF s, C
<1>8. s \in ActionList
  BY <1>2, <1>4, <1>5 DEF ActionList, Plain
<1>9. QED BY <1>6, <1>7, <1>8 DEF s, c, C

\* attachAndEvolve gives a darc with a single signer to another key.
LEMMA AttachedIs ==
  ASSUME NEW d, NEW x, NEW key \in Keys,
         d = [version |-> d.version, baseID |-> d.baseID, prevID |-> d.prevID, rules |-> d.rules],
         Says(d.rules, Grants({invoke("darc", "evolve"), sign}, First(x), First(x)))
  PROVE  LET new == attached(d, key)
             y == Ed25519(key)
         IN  /\ Says(new.rules, Grants({invoke("darc", "evolve"), sign}, First(y), First(y)))
             /\ getBaseID(new) = getBaseID(d) /\ MayFollow(d, new)
<1> DEFINE new == attached(d, key)
           y == Ed25519(key)
           ev == invoke("darc", "evolve")
           signs == setRule(d.rules, sign, y)
<1>1. /\ new.rules = setRule(signs, ev, y)
      /\ new.baseID = d.baseID /\ new.version = d.version + 1 /\ new.prevID = id(d)
  <2> DEFINE e == evolve(d)
  <2>1. e = [version |-> d.version + 1, baseID |-> d.baseID, prevID |-> id(d), rules |-> d.rules]
    <3> DEFINE v == d.version
               b == d.baseID
               p == d.prevID
               r == d.rules
               i == id(d)
    <3>1. d = [version |-> v, baseID |-> b, prevID |-> p, rules |-> r]
      OBVIOUS
    <3>2. e = [[d EXCEPT !.version = v + 1] EXCEPT !.prevID = i]
      BY DEF evolve
    <3> HIDE DEF e, v, b, p, r, i
    <3>3. [d EXCEPT !.version = v + 1]
            = [version |-> v + 1, baseID |-> b, prevID |-> p, rules |-> r]
      BY <3>1
    <3>4. e = [version |-> v + 1, baseID |-> b, prevID |-> i, rules |-> r]
      BY <3>2, <3>3
    <3>5. QED BY <3>4 DEF v, b, i, r
  <2>2. new = [e EXCEPT !.rules = setRule(setRule(e.rules, sign, y), ev, y)]
    BY DEF attached
  <2> HIDE DEF new, e
  <2>3. QED BY <2>1, <2>2
<1>2. y \in Identity /\ sign \in Action /\ ev \in Action /\ sign # ev
  BY ActionsDiffer DEF Identity, Action
<1> HIDE DEF new, y, ev, signs
<1>3. Says(signs, With(Grants({ev, sign}, First(x), First(x)), sign, First(y)))
  BY <1>2, Replaces DEF signs, ev
<1>4. Says(setRule(signs, ev, y),
           With(With(Grants({ev, sign}, First(x), First(x)), sign, First(y)), ev, First(y)))
  BY <1>2, <1>3, Replaces
<1>5. With(With(Grants({ev, sign}, First(x), First(x)), sign, First(y)), ev, First(y)) =
        Grants({ev, sign}, First(y), First(y))
  BY <1>2 DEF With, Grants
<1>6. QED BY <1>1, <1>4, <1>5 DEF new, y, ev, getBaseID, MayFollow

------------------------------------------------------------------------------
(* The darcs of an account. *)

\* The four darcs of an account.
Kinds == {"device", "signer", "credential", "coin"}

\* Names and identities are told apart.
LEMMA NamesDiffer ==
  /\ \A v, w, k, l : baseOf(v, k) = baseOf(w, l) <=> v = w /\ k = l
  /\ \A b, c : DarcOf(b) = DarcOf(c) <=> b = c
  /\ \A x, y : Ed25519(x) = Ed25519(y) <=> x = y
  /\ \A b, x : DarcOf(b) # Ed25519(x)
  /\ \A w, k : baseOf(w, k) # Unguarded
<1>1. ASSUME NEW v, NEW w, NEW k, NEW l, baseOf(v, k) = baseOf(w, l) PROVE v = w /\ k = l
  BY <1>1 DEF baseOf
<1>2. ASSUME NEW b, NEW c, DarcOf(b) = DarcOf(c) PROVE b = c
  BY <1>2 DEF DarcOf
<1>3. ASSUME NEW x, NEW y, Ed25519(x) = Ed25519(y) PROVE x = y
  BY <1>3 DEF Ed25519
<1>4. \A b, x : DarcOf(b) # Ed25519(x)
  BY DEF DarcOf, Ed25519
<1>5. \A w, k : baseOf(w, k) # Unguarded
  BY DEF baseOf, Unguarded
<1>6. QED BY <1>1, <1>2, <1>3, <1>4, <1>5

\* The client reads the first signer in the rules of a darc.
LEMMA SignerOf ==
  ASSUME NEW d, NEW b, getRule(d.rules, sign).expr = First(DarcOf(b))
  PROVE  getSignerDarcIDs(d) = <<b>>
<1>1. getRule(d.rules, sign).expr[1].id = DarcOf(b)
  BY DEF First
<1>2. DarcOf(b)[1] = "darc" /\ DarcOf(b)[2] = b
  BY DEF DarcOf
<1>3. QED BY <1>1, <1>2 DEF getSignerDarcIDs

\* The darcs of an account, when the one of the device is as it is on the ledger.
AccountOf(ow, k) ==
  /\ getBaseID(deviceNow(ow, k)) = baseOf("device", k)
  /\ getBaseID(signDarc(k)) = baseOf("signer", k)
  /\ getBaseID(credDarc(k)) = baseOf("credential", k)
  /\ getBaseID(coinDarc(k)) = baseOf("coin", k)
  /\ OnlyFor(deviceNow(ow, k), {invoke("darc", "evolve"), sign}, Ed25519(Owner(ow, k)))
  /\ OnlyFor(signDarc(k), {invoke("darc", "evolve"), sign}, DarcOf(baseOf("device", k)))
  /\ OnlyFor(credDarc(k), {invoke("credential", "update"), sign}, DarcOf(baseOf("signer", k)))
  /\ OnlyFor(coinDarc(k), {sign} \cup {invoke("coin", c) : c \in {"transfer", "fetch", "store"}}
                            \cup (IF k = creator THEN {invoke("coin", "mint")} ELSE {}),
             DarcOf(baseOf("signer", k)))
  /\ getSignerDarcIDs(signDarc(k)) = <<baseOf("device", k)>>
  /\ getSignerDarcIDs(credDarc(k)) = <<baseOf("signer", k)>>

\* The device darc of an account names the owner, the signer darc the device darc, and
\* the darcs of credential and coin the signer darc; the first can be evolved.
LEMMA AccountsAre ==
  ASSUME NEW ow, NEW k \in Accounts, Owner(ow, k) \in Keys
  PROVE  /\ AccountOf(ow, k)
         /\ \A key \in Keys : MayFollow(deviceNow(ow, k), attached(deviceNow(ow, k), key))
<1> DEFINE ev == invoke("darc", "evolve")
           own == Ed25519(Owner(ow, k))
           first == Ed25519(k)
           dev == DarcOf(baseOf("device", k))
           sgn == DarcOf(baseOf("signer", k))
<1>1. /\ k \in Keys /\ own \in Identity /\ first \in Identity
      /\ dev \in Identity /\ sgn \in Identity
  BY DEF Keys, Accounts, Identity
<1> HIDE DEF ev, own, first, dev, sgn
<1>2. ASSUME NEW x \in Identity, NEW name
      PROVE  /\ newDarc(name, <<x>>, <<x>>, <<>>).baseID = name
             /\ Says(newDarc(name, <<x>>, <<x>>, <<>>).rules,
                     Grants({ev, sign}, First(x), First(x)))
  <2>1. Says(newDarc(name, <<x>>, <<x>>, <<>>).rules,
             Grants({invoke("darc", "evolve")} \cup {sign} \cup Listed(<<>>), First(x), First(x)))
    BY ListsOfActions, SingleSigner
  <2>2. {invoke("darc", "evolve")} \cup {sign} \cup Listed(<<>>) = {ev, sign}
    BY ListsOfActions DEF ev
  <2>3. newDarc(name, <<x>>, <<x>>, <<>>).baseID = name
    BY DEF newDarc
  <2>4. QED BY <2>1, <2>2, <2>3
<1>3. /\ deviceDarc(k).baseID = baseOf("device", k)
      /\ Says(deviceDarc(k).rules, Grants({ev, sign}, First(first), First(first)))
  BY <1>1, <1>2 DEF deviceDarc, first
<1>4. deviceDarc(k) = [version |-> deviceDarc(k).version, baseID |-> deviceDarc(k).baseID,
                       prevID |-> deviceDarc(k).prevID, rules |-> deviceDarc(k).rules]
  BY DEF deviceDarc, newDarc
<1> DEFINE d == deviceNow(ow, k)
<1>5. /\ d.baseID = baseOf("device", k)
      /\ Says(d.rules, Grants({ev, sign}, First(own), First(own)))
      /\ d = [version |-> d.version, baseID |-> d.baseID, prevID |-> d.prevID, rules |-> d.rules]
  <2>1. CASE Owner(ow, k) = k
    <3>1. d = deviceDarc(k) /\ own = first
      BY <2>1 DEF deviceNow, own, first
    <3>2. QED BY <1>3, <1>4, <3>1
  <2>2. CASE Owner(ow, k) # k
    <3>1. d = attached(deviceDarc(k), ow[k]) /\ ow[k] \in Keys /\ own = Ed25519(ow[k])
      BY <2>2 DEF deviceNow, Owner, own
    <3>2. /\ Says(d.rules, Grants({ev, sign}, First(own), First(own)))
          /\ getBaseID(d) = getBaseID(deviceDarc(k))
      <4> DEFINE b == deviceDarc(k)
                 x == ow[k]
      <4>1. /\ b = [version |-> b.version, baseID |-> b.baseID,
                    prevID |-> b.prevID, rules |-> b.rules]
            /\ Says(b.rules, Grants({ev, sign}, First(first), First(first)))
        BY <1>3, <1>4
      <4> HIDE DEF b, x, d
      <4>2. x \in Keys
        BY <3>1 DEF x
      <4>3. /\ Says(attached(b, x).rules, Grants({ev, sign}, First(Ed25519(x)), First(Ed25519(x))))
            /\ getBaseID(attached(b, x)) = getBaseID(b)
        BY <4>1, <4>2, AttachedIs DEF ev
      <4>4. QED BY <3>1, <4>3 DEF b, x
    <3>3. d = [version |-> d.version, baseID |-> d.baseID, prevID |-> d.prevID, rules |-> d.rules]
      <4> DEFINE b == deviceDarc(k)
                 v == b.version
                 n == b.baseID
                 p == b.prevID
                 r == b.rules
                 i == id(b)
      <4>1. b = [version |-> v, baseID |-> n, prevID |-> p, rules |-> r]
        BY <1>4
      <4>2. evolve(b) = [[b EXCEPT !.version = v + 1] EXCEPT !.prevID = i]
        BY DEF evolve
      <4> HIDE DEF b, v, n, p, r, i
      <4>3. [b EXCEPT !.version = v + 1]
              = [version |-> v + 1, baseID |-> n, prevID |-> p, rules |-> r]
        BY <4>1
      <4>4. evolve(b) = [version |-> v + 1, baseID |-> n, prevID |-> i, rules |-> r]
        BY <4>2, <4>3
      <4> DEFINE e == evolve(b)
                 s == setRule(setRule(e.rules, sign, own), ev, own)
      <4>5. d = [e EXCEPT !.rules = s]
        BY <3>1 DEF attached, b, ev
      <4> HIDE DEF e, s, d
      <4>6. e = [version |-> v + 1, baseID |-> n, prevID |-> i, rules |-> r]
        BY <4>4 DEF e
      <4>7. d = [version |-> v + 1, baseID |-> n, prevID |-> i, rules |-> s]
        BY <4>5, <4>6
      <4>8. QED BY <4>7
    <3>4. QED BY <1>3, <3>2, <3>3 DEF getBaseID
  <2>3. QED BY <2>1, <2>2
<1>6. /\ getBaseID(d) = baseOf("device", k)
      /\ OnlyFor(d, {ev, sign}, own)
  BY <1>5, OneGranted DEF getBaseID
<1>7. \A key \in Keys : MayFollow(d, attached(d, key))
  <2> HIDE DEF d
  <2>1. QED BY <1>5, AttachedIs DEF ev
<1>8. /\ getBaseID(signDarc(k)) = baseOf("signer", k)
      /\ OnlyFor(signDarc(k), {ev, sign}, dev)
      /\ getSignerDarcIDs(signDarc(k)) = <<baseOf("device", k)>>
  <2>1. /\ signDarc(k).baseID = baseOf("signer", k)
        /\ Says(signDarc(k).rules, Grants({ev, sign}, First(dev), First(dev)))
    BY <1>1, <1>2 DEF signDarc, dev
  <2>2. OnlyFor(signDarc(k), {ev, sign}, dev) /\ getRule(signDarc(k).rules, sign).expr = First(dev)
    BY <2>1, OneGranted
  <2>3. QED BY <2>1, <2>2, SignerOf DEF getBaseID, dev
<1>9. /\ getBaseID(credDarc(k)) = baseOf("credential", k)
      /\ OnlyFor(credDarc(k), {invoke("credential", "update"), sign}, sgn)
      /\ getSignerDarcIDs(credDarc(k)) = <<baseOf("signer", k)>>
  <2> DEFINE B == {sign} \cup Listed(<<invoke("credential", "update")>>)
  <2>1. /\ credDarc(k).baseID = baseOf("credential", k)
        /\ credDarc(k) = newDarc(baseOf("credential", k), <<>>, <<sgn>>,
                                 <<invoke("credential", "update")>>)
    BY DEF credDarc, signId, sgn, newDarc
  <2>2. Says(credDarc(k).rules, Grants(B, First(sgn), First(sgn)))
    BY <1>1, <2>1, ListsOfActions, SingleSigner
  <2>3. B = {invoke("credential", "update"), sign}
    BY ListsOfActions
  <2> HIDE DEF B
  <2>4. OnlyFor(credDarc(k), B, sgn) /\ getRule(credDarc(k).rules, sign).expr = First(sgn)
    BY <2>2, <2>3, OneGranted
  <2>5. QED BY <2>1, <2>3, <2>4, SignerOf DEF getBaseID, sgn
<1>10. /\ getBaseID(coinDarc(k)) = baseOf("coin", k)
       /\ OnlyFor(coinDarc(k), {sign}
                               \cup {invoke("coin", c) : c \in {"transfer", "fetch", "store"}}
                                 \cup (IF k = creator THEN {invoke("coin", "mint")} ELSE {}), sgn)
  <2> DEFINE s == [i \in DOMAIN coinActions(k) |-> invoke("coin", coinActions(k)[i])]
             B == {sign} \cup Listed(s)
             C == {invoke("coin", c) : c \in {"transfer", "fetch", "store"}}
             M == IF k = creator THEN {invoke("coin", "mint")} ELSE {}
  <2>1. /\ coinDarc(k).baseID = baseOf("coin", k)
        /\ coinDarc(k) = newDarc(baseOf("coin", k), <<>>, <<sgn>>, s)
    BY DEF coinDarc, signId, sgn, newDarc
  <2>2. s \in ActionList /\ Listed(s) = C \cup M
    BY CoinActions
  <2> HIDE DEF s, C, M
  <2>3. Says(coinDarc(k).rules, Grants(B, First(sgn), First(sgn)))
    BY <1>1, <2>1, <2>2, SingleSigner
  <2>4. B = {sign} \cup C \cup M
    BY <2>2
  <2> HIDE DEF B
  <2>5. OnlyFor(coinDarc(k), B, sgn)
    BY <2>3, OneGranted
  <2>6. QED BY <2>1, <2>4, <2>5 DEF getBaseID, C, M
<1>11. QED BY <1>6, <1>7, <1>8, <1>9, <1>10 DEF AccountOf, ev, own, dev, sgn

\* The darcs of the account are on the ledger, by their base ids.
HasAccount(at, ow, k) ==
  /\ AccountOf(ow, k)
  /\ {baseOf(what, k) : what \in Kinds} \subseteq DOMAIN at
  /\ at[baseOf("device", k)] = deviceNow(ow, k)
  /\ at[baseOf("signer", k)] = signDarc(k)
  /\ at[baseOf("credential", k)] = credDarc(k)
  /\ at[baseOf("coin", k)] = coinDarc(k)

\* Darcs are found by the ids that they have.
LEMMA Lookup ==
  ASSUME NEW ow, NEW ks, \A k \in ks : AccountOf(ow, k),
         NEW shared, \A d \in shared, what \in Kinds, k \in ks : getBaseID(d) # baseOf(what, k),
         \A d, e \in shared : getBaseID(d) = getBaseID(e) => d = e
  PROVE  LET at == DarcsOf(ow, ks, shared) IN
         /\ \A k \in ks : HasAccount(at, ow, k)
         /\ \A d \in shared : getBaseID(d) \in DOMAIN at /\ at[getBaseID(d)] = d
<1> DEFINE ds == shared \cup UNION {{deviceNow(ow, k), signDarc(k), credDarc(k), coinDarc(k)} :
                                     k \in ks}
           at == DarcsOf(ow, ks, shared)
<1>1. at = [b \in {getBaseID(d) : d \in ds} |-> CHOOSE d \in ds : getBaseID(d) = b]
  BY DEF DarcsOf
<1>2. \A d : d \in ds <=> \/ d \in shared
                          \/ \E k \in ks :
                               d \in {deviceNow(ow, k), signDarc(k), credDarc(k), coinDarc(k)}
  OBVIOUS
<1>3. ASSUME NEW d \in ds, NEW e \in ds, getBaseID(d) = getBaseID(e) PROVE d = e
  <2>1. ASSUME NEW f \in ds
        PROVE  \/ f \in shared
               \/ \E k \in ks :
                    \/ f = deviceNow(ow, k) /\ getBaseID(f) = baseOf("device", k)
                    \/ f = signDarc(k) /\ getBaseID(f) = baseOf("signer", k)
                    \/ f = credDarc(k) /\ getBaseID(f) = baseOf("credential", k)
                    \/ f = coinDarc(k) /\ getBaseID(f) = baseOf("coin", k)
    <3>1. \A k \in ks : /\ getBaseID(deviceNow(ow, k)) = baseOf("device", k)
                        /\ getBaseID(signDarc(k)) = baseOf("signer", k)
                        /\ getBaseID(credDarc(k)) = baseOf("credential", k)
                        /\ getBaseID(coinDarc(k)) = baseOf("coin", k)
      BY DEF AccountOf
    <3>2. CASE f \notin shared
      <4>1. PICK k \in ks : f \in {deviceNow(ow, k), signDarc(k), credDarc(k), coinDarc(k)}
        BY <1>2, <3>2
      <4>2. QED BY <3>1, <4>1
    <3>3. QED BY <3>2
  <2> HIDE DEF ds
  <2>2. CASE d \in shared /\ e \in shared
    BY <1>3, <2>2
  <2>3. CASE d \notin shared /\ e \notin shared
    BY <1>3, <2>1, <2>3, NamesDiffer
  <2>4. ASSUME NEW f \in ds, f \notin shared
        PROVE  \E what \in Kinds, k \in ks : getBaseID(f) = baseOf(what, k)
    BY <2>1, <2>4 DEF Kinds
  <2>5. QED BY <1>3, <2>2, <2>3, <2>4
<1> HIDE DEF at, ds
<1>4. ASSUME NEW d \in ds PROVE getBaseID(d) \in DOMAIN at /\ at[getBaseID(d)] = d
  BY <1>1, <1>3
<1>5. ASSUME NEW k \in ks PROVE HasAccount(at, ow, k)
  <2>1. /\ AccountOf(ow, k)
        /\ deviceNow(ow, k) \in ds /\ signDarc(k) \in ds /\ credDarc(k) \in ds /\ coinDarc(k) \in ds
    BY <1>2
  <2>2. QED BY <1>4, <2>1 DEF HasAccount, AccountOf, Kinds
<1>6. QED BY <1>2, <1>4, <1>5 DEF at

------------------------------------------------------------------------------
(* What keys sign as. *)

\* The identities of the keys themselves.
OwnIds(keys) == {Ed25519(k) : k \in keys}

\* What is added to what has been reached.
Reaches(at, own, before) ==
  own \cup {DarcOf(b) : b \in {b \in DOMAIN at : Permits(at[b], sign, before)}}

\* Identities are reached in four rounds, as deep as darcs refer to one another.
LEMMA SignsAsIs ==
  ASSUME NEW at, NEW keys
  PROVE  LET own == OwnIds(keys) IN
         SignsAs(at, keys)
           = Reaches(at, own, Reaches(at, own, Reaches(at, own, Reaches(at, own, own))))
<1> DEFINE own == OwnIds(keys)
           R1 == Reaches(at, own, own)
           R2 == Reaches(at, own, R1)
           R3 == Reaches(at, own, R2)
           R4 == Reaches(at, own, R3)
           Is(f) == f = [n \in 0 .. 4 |-> IF n = 0 THEN own ELSE Reaches(at, own, f[n - 1])]
           g == [n \in 0 .. 4 |-> IF n = 0 THEN own ELSE IF n = 1 THEN R1
                                  ELSE IF n = 2 THEN R2 ELSE IF n = 3 THEN R3 ELSE R4]
<1>1. SignsAs(at, keys) = (CHOOSE f : Is(f))[4]
  BY DEF SignsAs, Reaches, OwnIds, Permits, Depth
<1>2. Is(g)
  <2>1. ASSUME NEW n \in 0 .. 4
        PROVE  g[n] = IF n = 0 THEN own ELSE Reaches(at, own, g[n - 1])
    <3> HIDE DEF own
    <3>1. CASE n = 0
      BY <3>1
    <3>2. CASE n = 1
      BY <3>2
    <3>3. CASE n = 2
      BY <3>3
    <3>4. CASE n = 3
      BY <3>4
    <3>5. CASE n = 4
      BY <3>5
    <3>6. QED BY <3>1, <3>2, <3>3, <3>4, <3>5
  <2>2. QED BY <2>1
<1>3. PICK f : Is(f) /\ SignsAs(at, keys) = f[4]
  <2> HIDE DEF Is, g
  <2>1. QED BY <1>1, <1>2
<1>4. f[0] = own /\ \A n \in 1 .. 4 : f[n] = Reaches(at, own, f[n - 1])
  BY <1>3
<1> HIDE DEF Is, own
<1>5. f[1] = R1
  BY <1>4
<1> HIDE DEF R1
<1>6. f[2] = R2
  BY <1>4, <1>5
<1> HIDE DEF R2
<1>7. f[3] = R3
  BY <1>4, <1>6
<1> HIDE DEF R3
<1>8. f[4] = R4
  BY <1>4, <1>7
<1>9. QED BY <1>3, <1>8 DEF R1, R2, R3, own

\* What one round reaches with a key.
LEMMA ReachesIs ==
  ASSUME NEW at, NEW key, NEW before
  PROVE  LET S == Reaches(at, OwnIds({key}), before) IN
         /\ \A x : Ed25519(x) \in S <=> x = key
         /\ \A b : DarcOf(b) \in S <=> b \in DOMAIN at /\ Permits(at[b], sign, before)
         /\ \A x : Ed25519(x) \in OwnIds({key}) <=> x = key
         /\ \A b : DarcOf(b) \notin OwnIds({key})
<1>1. \A y : y \in OwnIds({key}) <=> y = Ed25519(key)
  BY DEF OwnIds
<1>2. QED BY <1>1, NamesDiffer DEF Reaches

\* A key reaches the darcs of an account if it is the owner's.
LEMMA SignsForAccount ==
  ASSUME NEW at, NEW ow, NEW k, HasAccount(at, ow, k), NEW key
  PROVE  LET ids == SignsAs(at, {key}) IN
         /\ \A x : Ed25519(x) \in ids <=> x = key
         /\ \A what \in {"device", "signer", "credential"} :
              DarcOf(baseOf(what, k)) \in ids <=> key = Owner(ow, k)
<1> DEFINE own == OwnIds({key})
           R1 == Reaches(at, own, own)
           R2 == Reaches(at, own, R1)
           R3 == Reaches(at, own, R2)
           R4 == Reaches(at, own, R3)
           Reached(what, S) == DarcOf(baseOf(what, k)) \in S
           o == Owner(ow, k)
<1>1. ASSUME NEW before
      PROVE  LET S == Reaches(at, own, before) IN
             /\ Reached("device", S) <=> Ed25519(o) \in before
             /\ Reached("signer", S) <=> Reached("device", before)
             /\ Reached("credential", S) <=> Reached("signer", before)
  <2> DEFINE S == Reaches(at, own, before)
  <2>1. \A what \in Kinds : Reached(what, S) <=> Permits(at[baseOf(what, k)], sign, before)
    <3>1. \A what \in Kinds : baseOf(what, k) \in DOMAIN at
      BY DEF HasAccount
    <3>2. \A b : DarcOf(b) \in S <=> b \in DOMAIN at /\ Permits(at[b], sign, before)
      BY ReachesIs
    <3> HIDE DEF S
    <3>3. QED BY <3>1, <3>2
  <2> HIDE DEF S, own
  <2>2. /\ Permits(deviceNow(ow, k), sign, before) <=> Ed25519(o) \in before
        /\ Permits(signDarc(k), sign, before) <=> Reached("device", before)
        /\ Permits(credDarc(k), sign, before) <=> Reached("signer", before)
    BY DEF HasAccount, AccountOf, OnlyFor
  <2> HIDE DEF Reached
  <2>3. QED BY <2>1, <2>2 DEF HasAccount, Kinds, S
<1>2. \A before : \A x : Ed25519(x) \in Reaches(at, own, before) <=> x = key
  BY ReachesIs
<1>3. /\ \A x : Ed25519(x) \in own <=> x = key
      /\ ~ Reached("device", own) /\ ~ Reached("signer", own) /\ ~ Reached("credential", own)
  BY ReachesIs
<1>4. SignsAs(at, {key}) = R4
  BY SignsAsIs
<1> HIDE DEF own, Reached
<1>5. /\ Reached("device", R1) <=> key = o
      /\ ~ Reached("signer", R1) /\ \A x : Ed25519(x) \in R1 <=> x = key
  BY <1>1, <1>2, <1>3
<1> HIDE DEF R1
<1>6. /\ Reached("device", R2) <=> key = o
      /\ Reached("signer", R2) <=> key = o
      /\ \A x : Ed25519(x) \in R2 <=> x = key
  BY <1>1, <1>2, <1>5
<1> HIDE DEF R2
<1>7. /\ Reached("device", R3) <=> key = o
      /\ Reached("signer", R3) <=> key = o
      /\ Reached("credential", R3) <=> key = o
      /\ \A x : Ed25519(x) \in R3 <=> x = key
  BY <1>1, <1>2, <1>6
<1> HIDE DEF R3
<1>8. /\ Reached("device", R4) <=> key = o
      /\ Reached("signer", R4) <=> key = o
      /\ Reached("credential", R4) <=> key = o
      /\ \A x : Ed25519(x) \in R4 <=> x = key
  BY <1>1, <1>2, <1>7
<1>9. QED BY <1>4, <1>8 DEF Reached, o

------------------------------------------------------------------------------
(* What the ledger permits. *)

\* As Rights has it, what the key signs as.
As(at, key) == [keys \in {{key}} |-> SignsAs(at, keys)]

\* One instruction that the key signs decides, if the others are not guarded.
LEMMA FirstDecides ==
  ASSUME NEW at, NEW key, NEW tx, 1 \in DOMAIN tx.instructions,
         tx.instructions[1].guard # Unguarded,
         \A i \in DOMAIN tx.instructions : i # 1 => tx.instructions[i].guard = Unguarded,
         signersOf(tx)[1] = {key}
  PROVE  Authorised(at, tx, As(at, key)) <=>
           Permits(at[tx.instructions[1].guard], tx.instructions[1].action, SignsAs(at, {key}))
<1>1. As(at, key)[{key}] = SignsAs(at, {key}) /\ {key} # {}
  BY DEF As
<1>2. QED BY <1>1 DEF Authorised

\* A transaction of one instruction.
LEMMA OneInstruction ==
  ASSUME NEW at, NEW key, NEW instr, instr.guard # Unguarded
  PROVE  Authorised(at, Transaction(<<instr>>, <<{key}>>), As(at, key)) <=>
           Permits(at[instr.guard], instr.action, SignsAs(at, {key}))
<1> DEFINE tx == Transaction(<<instr>>, <<{key}>>)
<1>1. /\ DOMAIN tx.instructions = {1} /\ tx.instructions[1] = instr
      /\ Len(tx.signers) = 1 /\ tx.signers[1] = {key}
  BY DEF Transaction
<1> HIDE DEF tx
<1>2. signersOf(tx)[1] = {key}
  BY <1>1 DEF signersOf
<1>3. QED BY <1>1, <1>2, FirstDecides DEF tx

\* One that pays for an instruction without a signature.
LEMMA TwoInstructions ==
  ASSUME NEW at, NEW key, NEW instr, instr.guard # Unguarded,
         NEW other, other.guard = Unguarded
  PROVE  Authorised(at, Transaction(<<instr, other>>, <<{key}, {}>>), As(at, key)) <=>
           Permits(at[instr.guard], instr.action, SignsAs(at, {key}))
<1> DEFINE tx == Transaction(<<instr, other>>, <<{key}, {}>>)
<1>1. /\ DOMAIN tx.instructions = {1, 2} /\ tx.instructions[1] = instr /\ tx.instructions[2] = other
      /\ Len(tx.signers) = 2 /\ tx.signers[1] = {key}
  BY DEF Transaction
<1> HIDE DEF tx
<1>2. signersOf(tx)[1] = {key}
  BY <1>1 DEF signersOf
<1>3. QED BY <1>1, <1>2, FirstDecides DEF tx

\* One that pays for two of them.
LEMMA ThreeInstructions ==
  ASSUME NEW at, NEW key, NEW instr, instr.guard # Unguarded,
         NEW other, other.guard = Unguarded, NEW third, third.guard = Unguarded
  PROVE  Authorised(at, Transaction(<<instr, other, third>>, <<{key}, {}, {}>>), As(at, key)) <=>
           Permits(at[instr.guard], instr.action, SignsAs(at, {key}))
<1> DEFINE tx == Transaction(<<instr, other, third>>, <<{key}, {}, {}>>)
<1>1. /\ DOMAIN tx.instructions = {1, 2, 3} /\ tx.instructions[1] = instr
      /\ tx.instructions[2] = other /\ tx.instructions[3] = third
      /\ Len(tx.signers) = 3 /\ tx.signers[1] = {key}
  BY DEF Transaction
<1> HIDE DEF tx
<1>2. signersOf(tx)[1] = {key}
  BY <1>1 DEF signersOf
<1>3. QED BY <1>1, <1>2, FirstDecides DEF tx

\* One that pays for several darcs.
LEMMA ManyDarcs ==
  ASSUME NEW at, NEW key, NEW coin, coin # Unguarded, NEW n \in Nat
  PROVE  Authorised(at, spawnDarc(coin, {key}, n), As(at, key)) <=>
           Permits(at[coin], invoke("coin", "fetch"), SignsAs(at, {key}))
<1> DEFINE f == Fetch(coin)
           o == FromSpawner("darc")
           a == <<f>>
           b == [i \in 1 .. n |-> o]
           all == a \o b
           tx == spawnDarc(coin, {key}, n)
<1>1. f.guard = coin /\ f.action = invoke("coin", "fetch") /\ o.guard = Unguarded
  BY DEF Fetch, createInvoke, FromSpawner, createSpawn
<1>2. tx.instructions = all /\ tx.signers = <<{key}>>
  BY DEF spawnDarc, Transaction
<1> HIDE DEF f, o, tx
<1> DEFINE S == {f, o}
<1>3. f \in S /\ o \in S
  OBVIOUS
<1> HIDE DEF S
<1>4. a \in Seq(S) /\ Len(a) = 1 /\ a[1] = f
  BY <1>3
<1>5. b \in Seq(S) /\ Len(b) = n /\ \A i \in 1 .. n : b[i] = o
  <2>1. b \in [1 .. n -> S] /\ \A i \in 1 .. n : b[i] = o
    BY <1>3
  <2> HIDE DEF b
  <2>2. QED BY <2>1
<1> HIDE DEF a, b
<1>6. /\ all \in Seq(S) /\ Len(all) = Len(a) + Len(b)
      /\ \A i \in 1 .. Len(a) + Len(b) : all[i] = IF i <= Len(a) THEN a[i] ELSE b[i - Len(a)]
  BY <1>4, <1>5, ConcatProperties
<1> HIDE DEF all
<1>7. 1 \in DOMAIN all /\ all[1] = f /\ \A i \in DOMAIN all : i # 1 => all[i] = o
  <2>1. DOMAIN all = 1 .. 1 + n
    BY <1>4, <1>5, <1>6
  <2>2. all[1] = f
    BY <1>4, <1>5, <1>6
  <2>3. ASSUME NEW i \in 1 .. 1 + n, i # 1 PROVE all[i] = o
    <3>1. ~ (i <= 1) /\ i - 1 \in 1 .. n
      BY <2>3
    <3>2. QED BY <1>4, <1>5, <1>6, <3>1
  <2>4. QED BY <2>1, <2>2, <2>3
<1>8. signersOf(tx)[1] = {key}
  <2> DEFINE s == <<{key}>>
  <2>1. Len(s) = 1 /\ s[1] = {key} /\ tx.signers = s
    BY <1>2
  <2> HIDE DEF s
  <2>2. QED BY <1>2, <1>7, <2>1 DEF signersOf
<1>9. /\ 1 \in DOMAIN tx.instructions /\ tx.instructions[1].guard = coin
      /\ tx.instructions[1].action = invoke("coin", "fetch")
      /\ \A i \in DOMAIN tx.instructions : i # 1 => tx.instructions[i].guard = Unguarded
  BY <1>1, <1>2, <1>7
<1>10. Authorised(at, tx, As(at, key)) <=>
         Permits(at[coin], invoke("coin", "fetch"), SignsAs(at, {key}))
  BY <1>8, <1>9, FirstDecides
<1>11. QED BY <1>10 DEF tx

\* One with two instructions that are both signed.
LEMMA TwoGuarded ==
  ASSUME NEW at, NEW key, NEW first, first.guard # Unguarded, NEW instr, instr.guard # Unguarded
  PROVE  Authorised(at, Transaction(<<first, instr>>, <<{key}, {key}>>), As(at, key)) <=>
           /\ Permits(at[first.guard], first.action, SignsAs(at, {key}))
           /\ Permits(at[instr.guard], instr.action, SignsAs(at, {key}))
<1> DEFINE tx == Transaction(<<first, instr>>, <<{key}, {key}>>)
<1>1. /\ DOMAIN tx.instructions = {1, 2} /\ tx.instructions[1] = first /\ tx.instructions[2] = instr
      /\ Len(tx.signers) = 2 /\ tx.signers[1] = {key} /\ tx.signers[2] = {key}
  BY DEF Transaction
<1> HIDE DEF tx
<1>2. signersOf(tx)[1] = {key} /\ signersOf(tx)[2] = {key}
  BY <1>1 DEF signersOf
<1>3. As(at, key)[{key}] = SignsAs(at, {key}) /\ {key} # {}
  BY DEF As
<1>4. QED BY <1>1, <1>2, <1>3 DEF Authorised, tx

\* The operations on an account are for its owner.
LEMMA OwnersAct ==
  ASSUME NEW at, NEW ow, NEW k, HasAccount(at, ow, k), NEW key
  PROVE  LET as == As(at, key)
             Can(tx) == Authorised(at, tx, as)
         IN
         /\ \A tx \in OperationsOn(k, key) : Can(tx) <=> key = Owner(ow, k)
         /\ Can(coinMint(baseOf("coin", k), {key})) <=> k = creator /\ key = Owner(ow, k)
         /\ ~ Can(evolveDarcAndWait(baseOf("credential", k), {key}))
<1> DEFINE ids == SignsAs(at, {key})
           Can(tx) == Authorised(at, tx, As(at, key))
           coin == baseOf("coin", k)
           isOwner == key = Owner(ow, k)
           ev == invoke("darc", "evolve")
<1>1. /\ coin # Unguarded
      /\ \A what : baseOf(what, k) # Unguarded
  BY NamesDiffer
<1>2. /\ \A x : Ed25519(x) \in ids <=> x = key
      /\ \A what \in {"device", "signer", "credential"} :
           DarcOf(baseOf(what, k)) \in ids <=> isOwner
  BY SignsForAccount
<1> HIDE DEF ids, isOwner
<1>3. /\ Permits(at[baseOf("device", k)], ev, ids) <=> isOwner
      /\ Permits(at[baseOf("signer", k)], ev, ids) <=> isOwner
  BY <1>2 DEF HasAccount, AccountOf, OnlyFor, isOwner
<1>4. /\ Permits(at[baseOf("credential", k)], invoke("credential", "update"), ids) <=> isOwner
      /\ ~ Permits(at[baseOf("credential", k)], ev, ids)
  <2>1. ev \notin {invoke("credential", "update"), sign}
    BY ActionsDiffer
  <2> HIDE DEF ev
  <2>2. QED BY <1>2, <2>1 DEF HasAccount, AccountOf, OnlyFor
<1>5. /\ Permits(at[coin], invoke("coin", "transfer"), ids) <=> isOwner
      /\ Permits(at[coin], invoke("coin", "fetch"), ids) <=> isOwner
      /\ Permits(at[coin], invoke("coin", "mint"), ids) <=> k = creator /\ isOwner
  <2> DEFINE B == {sign} \cup {invoke("coin", c) : c \in {"transfer", "fetch", "store"}}
                    \cup (IF k = creator THEN {invoke("coin", "mint")} ELSE {})
  <2>1. /\ invoke("coin", "transfer") \in B /\ invoke("coin", "fetch") \in B
        /\ invoke("coin", "mint") \in B <=> k = creator
    BY ActionsDiffer
  <2>2. at[coin] = coinDarc(k) /\ OnlyFor(coinDarc(k), B, DarcOf(baseOf("signer", k)))
    BY DEF HasAccount, AccountOf
  <2> HIDE DEF B, coin
  <2>3. QED BY <1>2, <2>1, <2>2 DEF OnlyFor
<1>6. ASSUME NEW c, NEW m, NEW g, g # Unguarded
      PROVE  /\ createInvoke(g, c, m).guard = g /\ createInvoke(g, c, m).action = invoke(c, m)
  BY DEF createInvoke
<1>7. \A c : FromSpawner(c).guard = Unguarded
  BY DEF FromSpawner, createSpawn
<1>8. createInvoke(Unguarded, "ropasci", "second").guard = Unguarded
  BY DEF createInvoke
<1>9. \A g, c, m : g # Unguarded =>
        (Can(Transaction(<<createInvoke(g, c, m)>>, <<{key}>>))
           <=> Permits(at[g], invoke(c, m), ids))
  BY <1>6, OneInstruction DEF ids
<1>10. ASSUME NEW other, other.guard = Unguarded
       PROVE  Can(Transaction(<<Fetch(coin), other>>, <<{key}, {}>>)) <=> isOwner
  <2>1. Fetch(coin).guard = coin /\ Fetch(coin).action = invoke("coin", "fetch")
    BY <1>1, <1>6 DEF Fetch
  <2>2. QED BY <1>1, <1>5, <1>10, <2>1, TwoInstructions DEF ids
<1>11. Can(coinTransfer(coin, {key})) <=> isOwner
  BY <1>1, <1>5, <1>9 DEF coinTransfer
<1>12. Can(spawnDarc(coin, {key}, 4)) <=> isOwner
  BY <1>1, <1>5, ManyDarcs DEF ids
<1>13. Can(spawnCoin(coin, {key})) <=> isOwner
  BY <1>7, <1>10 DEF spawnCoin
<1>14. Can(spawnCredential(coin, {key})) <=> isOwner
  BY <1>7, <1>10 DEF spawnCredential
<1>15. Can(spawnPopParty(coin, {key})) <=> isOwner
  <2>1. Fetch(coin).guard = coin /\ Fetch(coin).action = invoke("coin", "fetch")
    BY <1>1, <1>6 DEF Fetch
  <2>2. QED BY <1>1, <1>5, <1>7, <2>1, ThreeInstructions DEF ids, spawnPopParty
<1>16. Can(spawnRoPaSci(coin, {key})) <=> isOwner
  BY <1>7, <1>10 DEF spawnRoPaSci
<1>17. Can(spawnCalypsoWrite(coin, {key})) <=> isOwner
  BY <1>7, <1>10 DEF spawnCalypsoWrite
<1>18. Can(second(coin, key)) <=> isOwner
  BY <1>8, <1>10 DEF second
<1>19. Can(sendUpdate(baseOf("credential", k), {key})) <=> isOwner
  BY <1>1, <1>4, <1>9 DEF sendUpdate
<1>20. /\ Can(evolveDarcAndWait(baseOf("device", k), {key})) <=> isOwner
       /\ Can(evolveDarcAndWait(baseOf("signer", k), {key})) <=> isOwner
       /\ ~ Can(evolveDarcAndWait(baseOf("credential", k), {key}))
  BY <1>1, <1>3, <1>4, <1>9 DEF evolveDarcAndWait
<1>21. Can(coinMint(coin, {key})) <=> k = creator /\ isOwner
  BY <1>1, <1>5, <1>9 DEF coinMint
<1> HIDE DEF Can
<1>22. \A tx \in OperationsOn(k, key) : Can(tx) <=> isOwner
  BY <1>11, <1>12, <1>13, <1>14, <1>15, <1>16, <1>17, <1>18, <1>19, <1>20 DEF OperationsOn
<1>23. QED BY <1>20, <1>21, <1>22 DEF Can, isOwner

\* The key that owns an account is one of those that there are.
Owned(ow, k) == k \in Accounts /\ Owner(ow, k) \in Keys

\* Only the owner acts for an account.
LEMMA OnlyOwners ==
  ASSUME NEW ow, NEW k, Owned(ow, k)
  PROVE  OnlyOwnersAct(ow, k)
<1> DEFINE at == DarcsOf(ow, {k}, {})
<1>1. AccountOf(ow, k)
  BY AccountsAre DEF Owned
<1>2. HasAccount(at, ow, k)
  BY <1>1, Lookup
<1> HIDE DEF at
<1>3. k = creator => Owner(ow, k) = creator
  BY DEF Owner
<1>4. ASSUME NEW key \in Keys
      PROVE  /\ \A tx \in OperationsOn(k, key) :
                  Authorised(at, tx, As(at, key)) <=> key = Owner(ow, k)
             /\ Authorised(at, coinMint(baseOf("coin", k), {key}), As(at, key))
                  <=> k = creator /\ key = creator
             /\ ~ Authorised(at, evolveDarcAndWait(baseOf("credential", k), {key}), As(at, key))
  BY <1>2, <1>3, OwnersAct
<1>5. QED BY <1>4 DEF OnlyOwnersAct, at, As

\* From the first key of an account everything else is found.
LEMMA LinksLead ==
  ASSUME NEW ow, NEW k, Owned(ow, k)
  PROVE  LinksLeadToAccount(ow, k)
<1> DEFINE at == DarcsOf(ow, {k}, {})
           instances == InstancesOf({k, creator})
           contact == instances[credentialIID(k)]
           cred(x) == InitialCred(x)
<1>1. AccountOf(ow, k)
  BY AccountsAre DEF Owned
<1>2. HasAccount(at, ow, k)
  BY <1>1, Lookup
<1> HIDE DEF at
<1>3. ASSUME NEW x \in {k, creator}
      PROVE  /\ instances[credentialIID(x)] = [darc |-> baseOf("credential", x), cred |-> cred(x)]
             /\ instances[coinIID(x)] = [darc |-> baseOf("coin", x)]
  <2>1. /\ coinIID(x)[1] = "coin" /\ coinIID(x)[2] = x
        /\ credentialIID(x)[1] = "credential" /\ credentialIID(x)[2] = x
    BY DEF coinIID, credentialIID
  <2> DEFINE ids == {coinIID(l) : l \in {k, creator}} \cup {credentialIID(l) : l \in {k, creator}}
  <2>2. coinIID(x) \in ids /\ credentialIID(x) \in ids
    OBVIOUS
  <2>3. instances = [i \in ids |-> IF i[1] = "coin" THEN [darc |-> baseOf("coin", i[2])]
                                   ELSE [darc |-> baseOf("credential", i[2]), cred |-> cred(i[2])]]
    BY DEF InstancesOf
  <2> HIDE DEF ids, instances, cred
  <2>4. QED BY <2>1, <2>2, <2>3
<1>4. \A x : /\ cred(x).seedPub = x /\ cred(x).lts = "lts"
             /\ cred(x).coin = coinIID(x) /\ "coin" \in DOMAIN cred(x)
  BY DEF InitialCred, prepareInitialCred
<1> HIDE DEF instances, cred
<1>5. contact.darc = baseOf("credential", k) /\ contact.cred = cred(k)
  BY <1>3
<1>6. instances[credentialIID(creator)].cred = cred(creator)
  BY <1>3
<1> HIDE DEF contact
<1>7. getCoinAddress(contact.cred) = coinIID(k)
  BY <1>4, <1>5 DEF getCoinAddress
<1>8. at[instances[getCoinAddress(contact.cred)].darc] = coinDarc(k)
  BY <1>2, <1>3, <1>7 DEF HasAccount
<1>9. findSignerDarc(at, at[contact.darc]) = signDarc(k)
  BY <1>1, <1>2, <1>5 DEF findSignerDarc, HasAccount, AccountOf
<1>10. findSignerDarc(at, signDarc(k)) = deviceNow(ow, k)
  BY <1>1, <1>2 DEF findSignerDarc, HasAccount, AccountOf
<1>11. \A key \in Keys : MayFollow(deviceNow(ow, k), attached(deviceNow(ow, k), key))
  BY AccountsAre DEF Owned
<1>12. /\ contact.cred.seedPub = k
       /\ contact.cred.lts = instances[credentialIID(creator)].cred.lts
  BY <1>4, <1>5, <1>6
<1>13. QED BY <1>8, <1>9, <1>10, <1>11, <1>12 DEF LinksLeadToAccount, at, instances, contact

------------------------------------------------------------------------------
(* What is shared. *)

\* A new darc for two identities: either may act.
LEMMA TwoSigners ==
  ASSUME NEW name, NEW first \in Seq(Identity), Len(first) \in 1 .. 2,
         NEW x \in Identity, NEW y \in Identity, NEW actions \in ActionList
  PROVE  LET d == newDarc(name, first, <<x, y>>, actions) IN
         /\ getBaseID(d) = name
         /\ \A a \in Listed(actions) :
              /\ getRule(d.rules, a).expr = Joined(<<x, y>>, OR)
              /\ \A ids : Permits(d, a, ids) <=> x \in ids \/ y \in ids
<1> DEFINE s == <<x, y>>
           d == newDarc(name, first, s, actions)
           ev == invoke("darc", "evolve")
           B == {ev} \cup {sign} \cup Listed(actions)
           say == Grants(B, Joined(first, AND), Joined(s, OR))
<1>1. s \in Seq(Identity) /\ Len(s) = 2
  BY Two
<1>2. /\ actions \in Seq(Action \ {sign, ev}) /\ Len(actions) \in {0, 1, 3, 4}
      /\ \A i, j \in DOMAIN actions : actions[i] = actions[j] => i = j
  BY DEF ActionList
<1>3. getBaseID(d) = name
  BY DEF newDarc, getBaseID
<1>4. \A ids : Holds(Joined(s, OR), ids) <=> x \in ids \/ y \in ids
  BY HoldsEither
<1> HIDE DEF s, d
<1>5. Says(d.rules, say)
  <2>1. Len(s) \in 1 .. 2 /\ Len(first) \in 0 .. 2 /\ Len(first) # 0
    <3> DEFINE n == Len(first)
    <3>1. n \in 1 .. 2
      OBVIOUS
    <3> HIDE DEF n
    <3>2. n \in 0 .. 2 /\ n # 0
      BY <3>1
    <3>3. QED BY <1>1, <3>2 DEF n
  <2>2. Says(newDarc(name, first, s, actions).rules, say)
    BY <1>1, <1>2, <2>1, DarcSays
  <2>3. QED BY <2>2 DEF d
<1>6. ASSUME NEW a \in Listed(actions)
      PROVE  a \in DOMAIN say /\ say[a] = Joined(s, OR)
  <2>1. a # ev /\ a \in B
    BY <1>2 DEF Listed
  <2> HIDE DEF ev, B
  <2>2. QED BY <2>1 DEF Grants, ev
<1> HIDE DEF say
<1>7. ASSUME NEW a \in Listed(actions)
      PROVE  /\ getRule(d.rules, a).expr = Joined(s, OR)
             /\ \A ids : Permits(d, a, ids) <=> x \in ids \/ y \in ids
  <2>1. HasRule(d.rules, a) /\ getRule(d.rules, a).expr = Joined(s, OR)
    BY <1>5, <1>6, RuleOf
  <2>2. QED BY <1>4, <2>1 DEF Permits
<1>8. QED BY <1>3, <1>7 DEF d, s

\* A party is open to the darcs of the credentials of its organisers.
LEMMA PartyIs ==
  ASSUME NEW k \in Accounts, NEW l \in Accounts
  PROVE  LET party == partyDarc(<<k, l>>)
             x == DarcOf(baseOf("credential", k))
             y == DarcOf(baseOf("credential", l))
         IN  /\ getBaseID(party) = <<"partyDarc", <<k, l>>>>
             /\ \A ids : \A c \in {"barrier", "finalize"} :
                  Permits(party, invoke("popParty", c), ids) <=> x \in ids \/ y \in ids
<1> DEFINE party == partyDarc(<<k, l>>)
           name == <<"partyDarc", <<k, l>>>>
           x == DarcOf(baseOf("credential", k))
           y == DarcOf(baseOf("credential", l))
           s == <<invoke("popParty", "barrier"), invoke("popParty", "finalize"),
                  invoke("popParty", "addParty")>>
           o == <<k, l>>
           bases == [i \in DOMAIN o |-> baseOf("credential", o[i])]
           ids == [i \in DOMAIN bases |-> DarcOf(bases[i])]
<1>1. x \in Identity /\ y \in Identity
  BY DEF Identity
<1>2. s \in ActionList /\ \A c \in {"barrier", "finalize"} : invoke("popParty", c) \in Listed(s)
  BY ListsOfActions
<1>3. party = newDarc(name, ids, ids, s)
  BY DEF partyDarc, preparePartyDarc
<1>4. ids = <<x, y>>
  <2>1. DOMAIN o = 1 .. 2 /\ o[1] = k /\ o[2] = l
    OBVIOUS
  <2> HIDE DEF o
  <2>2. ids = [i \in 1 .. 2 |-> DarcOf(baseOf("credential", o[i]))]
    BY <2>1
  <2>3. \A i \in 1 .. 2 : DarcOf(baseOf("credential", o[i])) = IF i = 1 THEN x ELSE y
    BY <2>1
  <2> HIDE DEF ids, x, y
  <2>4. ids = [i \in 1 .. 2 |-> IF i = 1 THEN x ELSE y]
    BY <2>2, <2>3
  <2>5. QED BY <2>4
<1> HIDE DEF ids, x, y, s, name, party
<1>5. <<x, y>> \in Seq(Identity) /\ Len(<<x, y>>) \in 1 .. 2
  BY <1>1, Two
<1>6. party = newDarc(name, <<x, y>>, <<x, y>>, s)
  BY <1>3, <1>4
<1>7. /\ getBaseID(party) = name
      /\ \A i : \A a \in Listed(s) : Permits(party, a, i) <=> x \in i \/ y \in i
  BY <1>1, <1>2, <1>5, <1>6, TwoSigners
<1>8. QED BY <1>2, <1>7 DEF party, name, x, y

\* A secret is open to the signer darcs of its readers, who find themselves in the rule.
LEMMA SecretIs ==
  ASSUME NEW k \in Accounts, NEW l \in Accounts,
         getSignerDarcIDs(credDarc(k)) = <<baseOf("signer", k)>>,
         getSignerDarcIDs(credDarc(l)) = <<baseOf("signer", l)>>
  PROVE  LET secret == secretDarc(<<k, l>>)
             x == DarcOf(baseOf("signer", k))
             y == DarcOf(baseOf("signer", l))
         IN  /\ getBaseID(secret) = <<"writeDarc", <<k, l>>>>
             /\ \A ids : Permits(secret, spawnOf("calypsoRead"), ids) <=> x \in ids \/ y \in ids
             /\ \A m \in {k, l} : IsReader(secret, darcSignIdentity(credDarc(m)))
<1> DEFINE secret == secretDarc(<<k, l>>)
           name == <<"writeDarc", <<k, l>>>>
           x == DarcOf(baseOf("signer", k))
           y == DarcOf(baseOf("signer", l))
           a == spawnOf("calypsoRead")
           s == <<a>>
           o == <<k, l>>
           ids == [i \in DOMAIN o |-> darcSignIdentity(credDarc(o[i]))]
<1>1. x \in Identity /\ y \in Identity
  BY DEF Identity
<1>2. s \in ActionList /\ a \in Listed(s)
  BY ListsOfActions
<1>3. secret = newDarc(name, <<ids[1]>>, ids, s)
  BY DEF secretDarc, writeDarc
<1>4. darcSignIdentity(credDarc(k)) = x /\ darcSignIdentity(credDarc(l)) = y
  BY DEF darcSignIdentity
<1>5. ids = <<x, y>> /\ ids[1] = x
  <2>1. DOMAIN o = 1 .. 2 /\ o[1] = k /\ o[2] = l
    OBVIOUS
  <2> HIDE DEF o
  <2>2. \A i \in 1 .. 2 : darcSignIdentity(credDarc(o[i])) = IF i = 1 THEN x ELSE y
    BY <1>4, <2>1
  <2>3. ids = [i \in 1 .. 2 |-> darcSignIdentity(credDarc(o[i]))]
    BY <2>1
  <2> HIDE DEF ids, x, y
  <2>4. ids = [i \in 1 .. 2 |-> IF i = 1 THEN x ELSE y]
    BY <2>2, <2>3
  <2>5. QED BY <2>4
<1> HIDE DEF ids, x, y, s, a, name, secret
<1>6. <<x>> \in Seq(Identity) /\ Len(<<x>>) \in 1 .. 2
  BY <1>1, One
<1>7. secret = newDarc(name, <<x>>, <<x, y>>, s)
  BY <1>3, <1>5
<1>8. /\ getBaseID(secret) = name
      /\ getRule(secret.rules, a).expr = Joined(<<x, y>>, OR)
      /\ \A i : Permits(secret, a, i) <=> x \in i \/ y \in i
  <2> DEFINE first == <<x>>
             d == newDarc(name, first, <<x, y>>, s)
  <2> HIDE DEF first
  <2>1. first \in Seq(Identity) /\ Len(first) \in 1 .. 2
    BY <1>6 DEF first
  <2>2. /\ getBaseID(d) = name
        /\ \A b \in Listed(s) : /\ getRule(d.rules, b).expr = Joined(<<x, y>>, OR)
                                /\ \A i : Permits(d, b, i) <=> x \in i \/ y \in i
    BY <1>1, <1>2, <2>1, TwoSigners
  <2>3. secret = d
    BY <1>7 DEF first
  <2> HIDE DEF d
  <2>4. QED BY <1>2, <2>2, <2>3
<1>9. \A r \in {x, y} : IsReader(secret, r)
  <2> DEFINE j == Joined(<<x, y>>, OR)
  <2>1. /\ DOMAIN j = 1 .. 2 /\ j[1].op # AND /\ j[2].op # AND
        /\ j[1].id = x /\ j[2].id = y
    BY Two, Operators
  <2>2. getRule(secret.rules, a).expr = j
    BY <1>8
  <2> HIDE DEF j
  <2>3. \A i \in DOMAIN j : j[i].op # AND
    BY <2>1
  <2>4. QED BY <2>1, <2>2, <2>3 DEF IsReader, a
<1>10. QED BY <1>4, <1>8, <1>9 DEF secret, name, x, y, a

\* Shared darcs are found too.
LEMMA LookupShared ==
  ASSUME NEW ow, NEW ks, \A k \in ks : AccountOf(ow, k),
         NEW shared, \A d \in shared, what \in Kinds, k \in ks : getBaseID(d) # baseOf(what, k),
         \A d, e \in shared : getBaseID(d) = getBaseID(e) => d = e
  PROVE  \A d \in shared : DarcsOf(ow, ks, shared)[getBaseID(d)] = d
  BY Lookup

\* What is shared by two accounts is open to the owners of both.
LEMMA SharedIsOpen ==
  ASSUME NEW ow, NEW k, NEW l, Owned(ow, k), Owned(ow, l)
  PROVE  SharedWithOwners(ow, k, l)
<1> DEFINE party == partyDarc(<<k, l>>)
           secret == secretDarc(<<k, l>>)
           shared == {party, secret}
           at == DarcsOf(ow, {k, l}, shared)
<1>1. k \in Accounts /\ l \in Accounts /\ AccountOf(ow, k) /\ AccountOf(ow, l)
  BY AccountsAre DEF Owned
<1>2. /\ getBaseID(party) = <<"partyDarc", <<k, l>>>>
      /\ \A ids : \A c \in {"barrier", "finalize"} :
           Permits(party, invoke("popParty", c), ids) <=>
             \/ DarcOf(baseOf("credential", k)) \in ids
             \/ DarcOf(baseOf("credential", l)) \in ids
  BY <1>1, PartyIs
<1>3. /\ getBaseID(secret) = <<"writeDarc", <<k, l>>>>
      /\ \A ids : Permits(secret, spawnOf("calypsoRead"), ids) <=>
                    \/ DarcOf(baseOf("signer", k)) \in ids
                    \/ DarcOf(baseOf("signer", l)) \in ids
      /\ \A m \in {k, l} : IsReader(secret, darcSignIdentity(credDarc(m)))
  <2>1. /\ getSignerDarcIDs(credDarc(k)) = <<baseOf("signer", k)>>
        /\ getSignerDarcIDs(credDarc(l)) = <<baseOf("signer", l)>>
    BY <1>1 DEF AccountOf
  <2>2. QED BY <1>1, <2>1, SecretIs
<1> HIDE DEF party, secret
<1>4. /\ getBaseID(party) # getBaseID(secret)
      /\ getBaseID(party) # Unguarded /\ getBaseID(secret) # Unguarded
      /\ \A m : \A what \in Kinds : /\ getBaseID(party) # baseOf(what, m)
                                    /\ getBaseID(secret) # baseOf(what, m)
  <2>1. /\ getBaseID(party)[1] = "partyDarc"
        /\ getBaseID(secret)[1] = "writeDarc"
        /\ Unguarded[1] = "unguarded"
        /\ \A what, m : baseOf(what, m)[1] = what
    <3> DEFINE o == <<k, l>>
    <3>1. getBaseID(party) = <<"partyDarc", o>> /\ getBaseID(secret) = <<"writeDarc", o>>
      BY <1>2, <1>3
    <3> HIDE DEF o
    <3>2. getBaseID(party)[1] = "partyDarc"
      BY <3>1
    <3>3. getBaseID(secret)[1] = "writeDarc"
      BY <3>1
    <3>4. Unguarded[1] = "unguarded"
      BY DEF Unguarded
    <3>5. \A what, m : baseOf(what, m)[1] = what
      BY DEF baseOf
    <3>6. QED BY <3>2, <3>3, <3>4, <3>5
  <2>2. QED BY <2>1 DEF Kinds
<1>5. /\ HasAccount(at, ow, k) /\ HasAccount(at, ow, l)
      /\ at[getBaseID(party)] = party /\ at[getBaseID(secret)] = secret
  <2>1. PICK ks : ks = {k, l}
    OBVIOUS
  <2>2. PICK both : both = shared
    OBVIOUS
  <2>3. \A m \in ks : AccountOf(ow, m)
    BY <1>1, <2>1
  <2>4. \A d \in both, what \in Kinds, m \in ks : getBaseID(d) # baseOf(what, m)
    BY <1>4, <2>1, <2>2
  <2>5. \A d, e \in both : getBaseID(d) = getBaseID(e) => d = e
    BY <1>4, <2>2
  <2>6. /\ \A m \in ks : HasAccount(DarcsOf(ow, ks, both), ow, m)
        /\ \A d \in both : DarcsOf(ow, ks, both)[getBaseID(d)] = d
    <3>1. \A m \in ks : HasAccount(DarcsOf(ow, ks, both), ow, m)
      BY <2>3, <2>4, <2>5, Lookup
    <3>2. \A d \in both : DarcsOf(ow, ks, both)[getBaseID(d)] = d
      BY <2>3, <2>4, <2>5, LookupShared
    <3>3. QED BY <3>1, <3>2
  <2>7. DarcsOf(ow, ks, both) = at
    BY <2>1, <2>2
  <2> HIDE DEF at
  <2>8. k \in ks /\ l \in ks /\ party \in both /\ secret \in both
    BY <2>1, <2>2
  <2>9. QED BY <2>6, <2>7, <2>8
<1> HIDE DEF at
<1> SUFFICES ASSUME NEW key \in Keys
             PROVE  /\ \A tx \in {activateBarrier(getBaseID(party), {key}),
                                  finalize(getBaseID(party), {key})} :
                         Authorised(at, tx, As(at, key)) <=> key \in {Owner(ow, k), Owner(ow, l)}
                    /\ \A m \in {k, l} :
                         /\ IsReader(secret, darcSignIdentity(credDarc(m)))
                         /\ Authorised(at, spawnRead(getBaseID(secret), baseOf("coin", m), {key}),
                                       As(at, key)) <=> key = Owner(ow, m)
  BY DEF SharedWithOwners, party, secret, shared, at, As
<1> DEFINE ids == SignsAs(at, {key})
<1>6. ASSUME NEW m \in {k, l}
      PROVE  /\ DarcOf(baseOf("signer", m)) \in ids <=> key = Owner(ow, m)
             /\ DarcOf(baseOf("credential", m)) \in ids <=> key = Owner(ow, m)
  <2>1. HasAccount(at, ow, m)
    BY <1>5
  <2>2. \A what \in {"device", "signer", "credential"} :
          DarcOf(baseOf(what, m)) \in SignsAs(at, {key}) <=> key = Owner(ow, m)
    BY <2>1, SignsForAccount
  <2>3. QED BY <2>2
<1> HIDE DEF ids
<1>7. ASSUME NEW c \in {"barrier", "finalize"}
      PROVE  Authorised(at, partyInvoke(getBaseID(party), c, {key}), As(at, key))
               <=> key \in {Owner(ow, k), Owner(ow, l)}
  <2> DEFINE instr == createInvoke(getBaseID(party), "popParty", c)
  <2>1. /\ instr.guard = getBaseID(party) /\ instr.action = invoke("popParty", c)
        /\ partyInvoke(getBaseID(party), c, {key}) = Transaction(<<instr>>, <<{key}>>)
    BY DEF createInvoke, partyInvoke
  <2> HIDE DEF instr
  <2>2. Authorised(at, Transaction(<<instr>>, <<{key}>>), As(at, key)) <=>
          Permits(party, invoke("popParty", c), ids)
    BY <1>4, <1>5, <2>1, OneInstruction DEF ids
  <2>3. QED BY <1>2, <1>6, <2>1, <2>2
<1>8. ASSUME NEW m \in {k, l}
      PROVE  Authorised(at, spawnRead(getBaseID(secret), baseOf("coin", m), {key}), As(at, key))
               <=> key = Owner(ow, m)
  <2> DEFINE coin == baseOf("coin", m)
             first == Fetch(coin)
             instr == createSpawn(getBaseID(secret), "calypsoRead")
  <2>1. /\ first.guard = coin /\ first.action = invoke("coin", "fetch")
        /\ instr.guard = getBaseID(secret) /\ instr.action = spawnOf("calypsoRead")
        /\ spawnRead(getBaseID(secret), coin, {key})
           = Transaction(<<first, instr>>, <<{key}, {key}>>)
    BY DEF Fetch, createInvoke, createSpawn, spawnRead
  <2> HIDE DEF first, instr
  <2>2. coin # Unguarded
    BY NamesDiffer
  <2>3. Permits(at[coin], invoke("coin", "fetch"), ids) <=> key = Owner(ow, m)
    <3> DEFINE B == {sign} \cup {invoke("coin", c) : c \in {"transfer", "fetch", "store"}}
                      \cup (IF m = creator THEN {invoke("coin", "mint")} ELSE {})
    <3>1. invoke("coin", "fetch") \in B
      OBVIOUS
    <3>2. at[coin] = coinDarc(m) /\ OnlyFor(coinDarc(m), B, DarcOf(baseOf("signer", m)))
      BY <1>5 DEF HasAccount, AccountOf
    <3> HIDE DEF B, coin
    <3>3. QED BY <1>6, <3>1, <3>2 DEF OnlyFor
  <2> HIDE DEF coin
  <2>4. Authorised(at, Transaction(<<first, instr>>, <<{key}, {key}>>), As(at, key)) <=>
          /\ Permits(at[coin], invoke("coin", "fetch"), ids)
          /\ Permits(secret, spawnOf("calypsoRead"), ids)
    BY <1>4, <1>5, <2>1, <2>2, TwoGuarded DEF ids
  <2>5. key = Owner(ow, m) => Permits(secret, spawnOf("calypsoRead"), ids)
    BY <1>3, <1>6
  <2>6. QED BY <2>1, <2>3, <2>4, <2>5 DEF coin
<1>9. QED BY <1>3, <1>7, <1>8 DEF activateBarrier, finalize

\* The rights of all accounts follow, whoever has been given them.
LEMMA RightsFollow ==
  ASSUME NEW ow \in Ownerships
  PROVE  /\ \A k \in DOMAIN ow : [l \in {k} |-> ow[l]] \in EffectiveAlone
         /\ \A k, l \in DOMAIN ow : SharedWithOwners(ow, k, l)
<1>1. ASSUME NEW f \in Ownerships
      PROVE  \A k \in {creator} \cup DOMAIN f : Owned(f, k)
  <2>1. PICK ks \in SUBSET Ephemerals :
          /\ f \in [ks -> Ephemerals \cup DeviceKeys]
          /\ \A k \in ks : f[k] \in {k} \cup DeviceKeys
    BY DEF Ownerships
  <2>2. Owned(f, creator)
    BY DEF Owned, Owner, Accounts, Keys
  <2>3. \A k \in ks : Owned(f, k)
    BY <2>1, CreatorAssumption DEF Owned, Owner, Accounts, Keys
  <2>4. QED BY <2>1, <2>2, <2>3
<1>2. ASSUME NEW f \in Ownerships, NEW k \in {creator} \cup DOMAIN f
      PROVE  RightsFollowOne(f, k)
  <2>1. Owned(f, k) /\ Owned(f, creator)
    BY <1>1
  <2>2. QED BY <2>1, OnlyOwners, LinksLead, SharedIsOpen DEF RightsFollowOne
<1>3. ASSUME NEW k \in DOMAIN ow PROVE [l \in {k} |-> ow[l]] \in EffectiveAlone
  <2> DEFINE f == [l \in {k} |-> ow[l]]
  <2>1. k \in Ephemerals /\ ow[k] \in {k} \cup DeviceKeys /\ ow[k] \in Ephemerals \cup DeviceKeys
    BY DEF Ownerships
  <2>2. f \in [{k} -> Ephemerals \cup DeviceKeys] /\ f[k] \in {k} \cup DeviceKeys /\ DOMAIN f = {k}
    BY <2>1
  <2> HIDE DEF f
  <2>3. f \in Ownerships
    BY <2>1, <2>2 DEF Ownerships
  <2>4. Cardinality(DOMAIN f) <= 1
    BY <2>2, FS_Singleton
  <2>5. \A m \in {creator} \cup DOMAIN f : RightsFollowOne(f, m)
    BY <1>2, <2>3
  <2>6. QED BY <2>3, <2>4, <2>5 DEF EffectiveAlone, f
<1>4. \A k, l \in DOMAIN ow : SharedWithOwners(ow, k, l)
  BY <1>1, SharedIsOpen
<1>5. QED BY <1>3, <1>4

\* Whoever has become the owner of an account, through any order of sign-ups, takeovers,
\* retries and lost answers, has all the rights to it and to what is shared with it, and
\* nobody else has any (the darcs of createUser, attachAndEvolve, spawnPopParty and
\* Calypso.add, evaluated as the ledger does).
THEOREM RightsAreTheOwners == Spec => []RightsFollowOwners
<1>1. IInv => RightsFollowOwners
  <2> SUFFICES ASSUME IInv PROVE RightsFollowOwners
    OBVIOUS
  <2> DEFINE ks == {k \in Ephemerals : spawn[k]["credential"] = "included"}
             owner(k) == CHOOSE x \in {k} \cup DeviceKeys : darc[k].keys = {x}
             ow == [k \in ks |-> owner(k)]
  <2>1. ASSUME NEW k \in ks
        PROVE  owner(k) \in {k} \cup DeviceKeys /\ darc[k].keys = {owner(k)}
    <3>1. spawn[k]["darcs"] = "included"
      <4>1. spawn[k]["coin"] = "included"
        BY DEF IInv, CreationOrder
      <4>2. QED BY <4>1 DEF IInv, CreationOrder
    <3>2. \E x \in {k} \cup DeviceKeys : darc[k].keys = {x}
      BY <3>1 DEF IInv, DeviceDarcs, Fresh, TakenOver
    <3>3. QED BY <3>2
  <2> HIDE DEF owner
  <2>2. ow \in [ks -> Ephemerals \cup DeviceKeys] /\ ks \in SUBSET Ephemerals
    BY <2>1
  <2>3. \A k \in ks : ow[k] = owner(k)
    OBVIOUS
  <2>4. owners = [k \in Ephemerals |-> IF k \in ks THEN {ow[k]} ELSE {}]
    BY <2>1, <2>3 DEF owners
  <2> HIDE DEF ks, ow
  <2>5. DOMAIN ow = ks /\ ow \in Ownerships
    BY <2>1, <2>2, <2>3 DEF Ownerships
  <2>6. /\ \A k \in DOMAIN ow : [l \in {k} |-> ow[l]] \in EffectiveAlone
        /\ \A k, l \in DOMAIN ow : SharedWithOwners(ow, k, l)
    BY <2>5, RightsFollow
  <2>7. QED BY <2>4, <2>5, <2>6 DEF RightsFollowOwners, Effective
<1>2. QED BY <1>1, Invariance, PTL

==============================================================================
