--------------------------------- MODULE Darcs ---------------------------------
(***************************************************************************)
(* Darcs, their rules, and what the client and the ledger read in them     *)
(* (src/lib/cothority/darc/, and the places that make or parse a darc).    *)
(*                                                                         *)
(* The text of an expression is the sequence of its identities, each but   *)
(* the first with the `|' or `&' written before it.  A darc has a name,    *)
(* its description and whom it is for, that stands for the hash of its     *)
(* first version: no two darcs have the same one.                          *)
(***************************************************************************)
EXTENDS Naturals, Sequences

OR  == "|"
AND == "&"

\* Identities: a key, or whoever may sign for the darc with a base id.
Ed25519(key)  == <<"ed25519", key>>
DarcOf(base) == <<"darc", base>>

\* Actions of rules and instructions.
sign == <<"_sign">>
spawnOf(contract) == <<"spawn", contract>>
invoke(contract, command) == <<"invoke", contract, command>>

First(id) == <<[op |-> "none", id |-> id]>>

\* 0 if there is no such rule.
findIndex(rules, action) ==
  LET found == {i \in DOMAIN rules : rules[i].action = action} IN
  IF found = {} THEN 0 ELSE CHOOSE i \in found : \A j \in found : i <= j

appendToRule(rules, action, id, op) ==
  LET i == findIndex(rules, action) IN
  IF i = 0 THEN Append(rules, [action |-> action, expr |-> First(id)])
           ELSE [rules EXCEPT ![i].expr = Append(@, [op |-> op, id |-> id])]

setRule(rules, action, id) ==
  LET i == findIndex(rules, action)
      r == [action |-> action, expr |-> First(id)]
  IN  IF i = 0 THEN Append(rules, r) ELSE [rules EXCEPT ![i] = r]

HasRule(rules, action) == findIndex(rules, action) # 0
getRule(rules, action) == rules[findIndex(rules, action)]

\* Several identities for an action, and several actions for an identity (recursive
\* functions and not folds: TLC evaluates a constant expression of these only once).
appendAll(rules, action, ids, op) ==
  LET added[n \in 0 .. Len(ids)] ==
        IF n = 0 THEN rules ELSE appendToRule(added[n - 1], action, ids[n], op)
  IN  added[Len(ids)]
appendEach(rules, actions, ids, op) ==
  LET added[n \in 0 .. Len(actions)] ==
        IF n = 0 THEN rules ELSE appendAll(added[n - 1], actions[n], ids, op)
  IN  added[Len(actions)]

------------------------------------------------------------------------------
(* Darcs. *)

initRules(owners, signers) ==
  LET evolvable == appendAll(<<>>, invoke("darc", "evolve"), owners, AND) IN
  appendAll(evolvable, sign, signers, OR)

newDarc(name, owners, signers, actions) ==
  [version |-> 0, baseID |-> name, prevID |-> <<>>,
   rules |-> appendEach(initRules(owners, signers), actions, signers, OR)]

\* The hash of the present version, and that of the first.
id(d) == <<d.baseID, d.version, d.rules>>
getBaseID(d) == d.baseID

evolve(d) == [d EXCEPT !.version = @ + 1, !.prevID = id(d)]

\* What evolveDarcAndWait asks of the darc that it is given, before it sends anything.
MayFollow(d, new) ==
  /\ getBaseID(new) = getBaseID(d)
  /\ new.version = d.version + 1
  /\ new.prevID = id(d)

\* registerContact and Badge.mine make one darc for all of a user.
prepareUserDarc(name, key) ==
  [newDarc(name, <<Ed25519(key)>>, <<Ed25519(key)>>, <<>>) EXCEPT
     !.rules = appendEach(@, <<invoke("coin", "update"), invoke("coin", "fetch"),
                               invoke("coin", "transfer"), invoke("credential", "update")>>,
                          <<Ed25519(key)>>, AND)]

preparePartyDarc(name, darcIDs) ==
  LET ids == [i \in DOMAIN darcIDs |-> DarcOf(darcIDs[i])] IN
  newDarc(name, ids, ids, <<invoke("popParty", "barrier"), invoke("popParty", "finalize"),
                            invoke("popParty", "addParty")>>)

\* The darc of a new ledger; TestData.init adds the rest of the rules.
makeGenesisDarc(signers, nodes, actions) ==
  LET ids == [i \in DOMAIN signers |-> Ed25519(signers[i])]
      d == newDarc(<<"genesis">>, ids, ids, <<>>)
      viewChange == appendAll(d.rules, invoke("config", "view_change"),
                              [i \in DOMAIN nodes |-> Ed25519(nodes[i])], OR)
  IN  [d EXCEPT !.rules =
         appendEach(viewChange, <<spawnOf("darc"), invoke("config", "update_config")>> \o actions,
                    ids, OR)]

\* Who may read a secret; only the first of them may change it.
writeDarc(name, readers) ==
  newDarc(name, <<readers[1]>>, readers, <<spawnOf("calypsoRead")>>)

------------------------------------------------------------------------------
(* Reading expressions on the client. *)

\* getSignerDarcIDs splits at `|' and keeps what starts with `darc:', which only the
\* first part does: the others start with a space.  Behind an `&' nothing is read
\* either, since the test for `(' and `&' asks for the two in a row.
getSignerDarcIDs(d) ==
  LET first == getRule(d.rules, sign).expr[1].id IN
  IF first[1] = "darc" THEN <<first[2]>> ELSE <<>>

\* Contact.darcSignIdentity, where HasSignDarc says that it does not throw.
HasSignDarc(d) == HasRule(d.rules, sign) /\ getSignerDarcIDs(d) # <<>>
darcSignIdentity(d) == DarcOf(getSignerDarcIDs(d)[1])

\* Data.findSignerDarc: the darc of the first signer, as the ledger (darcs by base id)
\* has it.
findSignerDarc(at, d) == at[getSignerDarcIDs(d)[1]]

\* SecureData.fromContact: is the reader in the rule?  One with an `&' is not read.
IsReader(d, reader) ==
  LET expr == getRule(d.rules, spawnOf("calypsoRead")).expr IN
  /\ \A i \in DOMAIN expr : expr[i].op # AND
  /\ \E i \in DOMAIN expr : expr[i].id = reader

------------------------------------------------------------------------------
(* Reading expressions on the ledger (external). *)

Depth == 4   \* bound: darcs that refer to darcs

Holds(expr, ids) ==
  IF \E i \in DOMAIN expr : expr[i].op = AND
    THEN \A i \in DOMAIN expr : expr[i].id \in ids
    ELSE \E i \in DOMAIN expr : expr[i].id \in ids

\* All the identities that the keys can sign as: their own, and those of the darcs
\* that let them sign, directly or through other darcs.
SignsAs(at, keys) ==
  LET own == {Ed25519(k) : k \in keys}
      reach[n \in 0 .. Depth] ==
        IF n = 0 THEN own
        ELSE LET before == reach[n - 1] IN
             own \cup {DarcOf(b) : b \in {b \in DOMAIN at :
                         /\ HasRule(at[b].rules, sign)
                         /\ Holds(getRule(at[b].rules, sign).expr, before)}}
  IN  reach[Depth]

\* May who signs as `ids' do this to an instance that the darc guards?
Permits(d, action, ids) ==
  HasRule(d.rules, action) /\ Holds(getRule(d.rules, action).expr, ids)
================================================================================
