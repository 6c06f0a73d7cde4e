# DynaSent in TLA+

DynaSent is an Angular application, a client of the ByzCoin ledger of the
cothority: users hold an identity on the ledger (a credential, a coin account
and four darcs), keep contacts, share secrets through Calypso, and take part in
proof-of-personhood parties and games.  The conodes that run the ledger are not
part of this repository (`conode/conode.go` only starts them); here they are
the environment.  All modules describe what the TypeScript code does with the
ledger and with its own copies of what the ledger holds.

## 1. Inventory

| Component | Source | State | Operations | What makes it hard |
|---|---|---|---|---|
| Transactions | `byzcoin/client-transaction.ts`, `byzcoin/byzcoin-rpc.ts` | none between calls; a transaction carries its counters | fetch counters, distribute them over instructions, sign, send and wait | no lock between reading the counters and inclusion; lagging nodes; lost replies; retries by the user |
| Connections | `network/connection.ts`, `network/websocket-adapter.ts` | a socket, a timer and a promise per request | send; callbacks open, message, close, error; timer | callbacks race; a promise that nothing settles |
| Credential | `Contact.ts`, `credentials-instance.ts` | `credential` of the contact, `credential` of the instance (cache), version number | setters, `sendUpdate`, `update`, `connectBC` | overlapping updates, several tabs, a cache that is set before the transaction is sent |
| Signing up | `Data.createUser`, `attachAndEvolve`, `app.component.ts`, `spawner-instance.ts`, `darc-instance.ts` | identity key in memory and in the storage; device darc on the ledger | create an account with three transactions; take it over with an ephemeral key; delete; reload | partial failure, reply lost after inclusion, the key used twice, reload before the key is saved |
| Data store | `Data.ts`, `Storage.ts` | everything the page keeps, written as one object | `load`, `connectByzcoin`, `save`, `delete` | a load that fails half-way followed by a save; tabs that share the storage |
| Recovery | `Data.ts` 493-606, `Contact.ts` 442-535 | trustees and threshold in the credential, signatures in memory | `setTrustees`, `recoverySignature`, `recoveryStore`, `recoverIdentity` | signatures over a darc version that moves; two steps of which the second fails |
| Secrets | `SecureData.ts`, `calypso/`, `Contact.ts` 537-623 | numbered secrets in the credential, secrets read from others | `add`, `read`, write/read instances, re-encryption | numbers taken after an await; paid in two transactions |
| Darcs and rights | `darc/`, `darc-instance.ts`, `Data.ts` | four linked darcs per account on the ledger | make and evolve darcs, parse their expressions, choose signers | one darc changes, the rights of three others must follow |
| Parties | `pop-party-instance.ts`, `Party.ts`, `Badge.ts` | party state, attendees scanned so far | barrier, scan, finalize, mine | several organisers; keys fetched while others are scanned |
| Rock-paper-scissors | `ro-pa-sci-instance.ts` | stake and commitment on the ledger, the first move in memory | create, second, confirm | reveal after a reload or a lost answer |
| Ring signatures | `ring-sig.ts`, `KeyPair.ts` | none | sign, verify, encode, decode | both sides must order the keys in the same way |
| Skipchain and proofs | `skipchain/`, `byzcoin/proof.ts` | none | follow and verify a chain over roster changes; verify and read a proof | recursion over rosters, joins of partial chains, nodes that lag |
| Others | polls and listings, encodings, status, UI layout | little or none | single requests, formats | not a matter of states |

The components meet in three places.  Every operation that writes to the ledger
goes through *Transactions*, and every message of theirs through *Connections*.
*Credential*, *Signing up*, *Recovery* and *Secrets* change one shared object,
the contact of the user, which `Data.save` sends to the ledger as a whole.  The
*Data store* is what survives a reload of the page.

What correct means:

* Transactions: a counter is used once; a refusal for a counter has a cause;
  a retry does not race what it replaces.
* Connections: each request has one outcome, ends, reaches one node at most and
  leaves no socket open.
* Credential: the version number names the content; the ledger never goes back
  within a session; others who follow version numbers end up with what the
  ledger holds.
* Signing up: an ephemeral key gives the account to one browser key; a page
  that says "registered" has the key that the ledger knows.
* Darcs: what the owner of an account may do is what the client offers, before
  and after the account is taken over, and nobody else may.
* Skipchain and proofs: what is accepted is on the chain; honest answers of
  nodes that lag are accepted.
* Data store, recovery, secrets, parties, games: what a failed or repeated step
  leaves behind can be continued from, without losing what was paid or stored;
  where the code does lose something, the property names every way it can.

## 2. Modules

| Module | Models | Checked by |
|---|---|---|
| `ClientTransaction` | Transactions, over an external ledger and lagging nodes | `MCClientTransaction`, `ClientTransaction.cfg`; proofs in `ClientTransactionProofs` |
| `Operations` | the instructions of every transaction that the client builds | used by `Instances` and `Rights` |
| `Instances` | `ClientTransaction` with those instructions: hashes and derived identifiers | `ClientTransaction.cfg`; proofs in `ClientTransactionProofs` |
| `Connection` | Connections: one websocket per request, and the roster wrapper | `MCConnection`, three configurations; proofs in `NetworkProofs` |
| `CredentialSync` | Credential, tabs of one user and another user's copy | `MCCredentialSync`, two configurations; proofs in `CredentialSyncProofs` |
| `Account` | abstract: what signing up promises | refined by `Signup` |
| `Signup` | Signing up: creators, browsers, ledger | `MCSignup`, `Signup.cfg`; implements `Account`; proofs in `SignupProofs` |
| `Darcs` | rules, expressions and their evaluation, and what the client parses in them | used by `Operations` |
| `Rights` | `Signup` with the darcs of its accounts: who may do what | `MCSignup`, `Signup.cfg`; proofs in `SignupProofs` |
| `DataStore` | Data store: the object in the storage, tabs, failing loads | `MCDataStore`, `DataStore.cfg`; proofs in `DataStoreProofs` |
| `Recovery` | Recovery: owner, trustees, the page with the new key, ledger | `MCRecovery`, `Recovery.cfg`; proofs in `RecoveryProofs` |
| `Secrets`, `SecretKeys` | Secrets: pages, coins, credential, storage; the encryption | `MCSecrets`, `Secrets.cfg`; proofs in `SecretsProofs` |
| `UserData` | coins, parties, badges and games in page and storage | extended by `PopParty` and `RoPaSci` |
| `PopParty`, `RoPaSci` | Parties with badges; rock-paper-scissors | composed in `Personhood` |
| `Curve`, `RingSig` | the group of the keys; ring signatures | used by `SecretKeys` and `Personhood` |
| `Personhood` | a party, its poll signatures, and games for the coins mined there | `MCPersonhood`, `Personhood.cfg`; proofs in `PersonhoodProofs` |
| `ChainClient` | Skipchain and proofs | `MCChainClient`, `ChainClient.cfg`; proofs in `NetworkProofs` |

`Instances` EXTENDS `ClientTransaction`, and `Rights` EXTENDS `Signup`: the runs
check the behaviour and what hangs on it together.

### ClientTransaction

A call `<<o, k>>` is the k-th try of operation `o`.  `phase` is where the client
is in `updateCountersAndSign` and `sendTransactionAndWait`; `base` is what
`getSignerCounters` returned before the added 1; `readAt` remembers the height of
the node that answered.  `SignerCounter` is the double loop of `updateCounters`
in closed form: the counter for a signer in instruction i is one more than the
base, plus the earlier instructions the signer signs.  `fate`, `block`, `counter`
and `height` are the ledger; `view` and `viewAt` are what each node answers with.
`Reject` is possible as soon as the transaction is sent, whatever becomes of it:
the connection may break, the 30 seconds of the timer or the `wait` blocks may
pass, while the transaction is still in the pool.

### Connection

One record of state per `send` of a `RosterWSConnection`: the socket, the timer,
the promise of `WebSocketConnection.send` (`promise`) and the promise the caller
holds (`result`).  Each callback is an action.  The order of events is that of a
browser: messages only while the socket is open, an error always followed by a
close, the close code 1006 after an error.  `MayClose` lets the node end the
connection with any code, also crossing a close of the client.  Text messages
are ignored by the adapter and change nothing.

### CredentialSync

`local` is `Contact.credential`, `cached` is
`Contact.credentialInstance.credential`.  A credential is abstracted to the set of
edits it contains and its version number.  `SendUpdate` is the synchronous part
of `sendUpdate`, together with what `save` and `publishPersonhood` write before
calling it; it ends at the first await, so two calls can overlap.  The rest of
the call is `FillSignAndSend` (the counters arrive), `Resolve` and `Reject`.
Counters are abstracted to the number of blocks the answering node had; that a
stale counter is always refused, and never for another reason than a conflict, is
what `ClientTransaction` shows.  `ViewerUpdate` is `Contact.update` on another
user's page, `ViewerLoad` is `connectBC` there; both read any block, since a node
may be behind.  A session is one load of the page; `Close` loses the outcome of
the calls that are under way, not their transactions.

### Signup and Account

`step[k]` is where `createContact`/`createUser` is with the account for
ephemeral key `k`; the three transactions are paid from one balance and may be
included long after the call has failed.  `CreateFails` stands for every way out:
a refusal, a lost reply, a node that does not know the new instance yet, a
failing `sendUpdate` in `save`, or a reload; the private key is then lost, since it
is only shown at the end.  In the browser, `Attach`, `SendEvolve` and
`EvolveDone` are `addID` with `attachAndEvolve`: the version of the darc that the
transaction builds on may be an old one, and the key is stored only after the
reply.  `Reload` takes key and account from the storage or draws a new key;
`DeleteUser` stores a new key without an account.

`Account` says the same in two actions: an account is created for an ephemeral
key, and one device key takes it over.  The mapping reads the owners off the
device darc once the credential exists.

### Operations and Instances

`Operations` has one operator per place where the client builds a transaction:
its instructions in order, the darc that guards each, and the `signers` argument
that decides who signs.  Prices and values of arguments are left out.
`spawnInstanceAndWait` of the darc ignores the contract it is asked for, and
`spawnRead` passes the owner's signers only, not those of the coin; both are
modelled as they are.

In `Instances` a hash is what is hashed: the instance, what is done to it, the
counters and the keys.  `hash` leaves out the command of an invoke and the
signatures.  `IdsAreNew` says that the signed instructions on the ledger all have
different identifiers, also if they do the same, so that the client never reads
back another instance than the one it spawned.  Instructions
without a signature have no counters, and their identifiers depend on their
arguments only; they are outside of the property.

### Darcs and Rights

An expression is the sequence of its identities with the operator before each;
`Darcs` evaluates it as the ledger does, through the darcs it names (`Depth`
bounds the recursion, four darcs refer to one another), and parses it as
`getSignerDarcIDs` does.  That function cuts the text at `|`, which leaves a
blank before every identity but the first, and its test for `(` and `&` never
applies to what the client writes, so it returns the first darc only.

`Rights` gives every account of `Signup` its four darcs.  `attached` is the
evolution of the device darc in `attachAndEvolve`, in two separate rules.
`Effective` is the set of all assignments of accounts to keys for which exactly
the owner can do each of what the client offers: spend, update the credential,
read secrets, organise parties, evolve the device darc (`OnlyOwnersAct`,
`SharedWithOwners`), and for which an ephemeral key leads to all instances of its
account (`LinksLeadToAccount`).  TLC evaluates it once, for every assignment of an
account to its ephemeral key or to any key of a browser.  `RightsFollowOwners`
says that the owners of every reachable state are among them.  What the table
also says: only the first user's coin can be minted; the credential darc has no
rule to evolve it, so nobody can, and the second step of `recoverIdentity` has no
right either; accounts with a single darc, which `registerContact` would make,
cannot be readers of secrets nor be taken over (`SingleDarc` in `MCSignup`, next
to `SetUp` for the instances that the administrator makes).

### DataStore

A tab has the object it read last (`obj`), the fields of `Data` (`data`), whether
`connectByzcoin` has got to the ledger (`bc`), and what the page itself knows or
removed (`mine`, `removed`, for the properties only).  `Load` is `load` and the
synchronous part of `connectByzcoin`; `LoadContact` one round of its loop;
`LoadFails` its failure before or after any of them.  After a failed load the page
offers nothing but `addID`, which saves what the page has by then.  Lists of
parties and games come from the object, so a second `connectByzcoin` brings them
back as they were at the first; the contact of the object replaces the one of a
first user who has just been created (`ContactFrom`), whence the exception in
`StoredKeyActs`.  How an account is taken over is one step here.

### Recovery

`chain` is the ledger: credential and darc of every account after each block; a
read sees one of the last `Lag + 1` blocks.  `own` is the owner's page with the
setters of `Recover`, `shown` the signature a trustee shows, `page` the page that
asks for the recovery.  `withoutTrustee` computes with 32 times the position as
`rmTrustee` does: a trustee in the middle stays, and the last one goes
(`slipped`).  The threshold is not adjusted when a trustee goes, and may exceed
the number of trustees.  `Recovered` is the transaction of `recoverIdentity`;
what follows it is `AfterAnswer` and `EvolveRejects`, since the evolution is
always refused with 'not the right version', and `verifyRegistration` is never
reached.  No handler of the user interface calls these functions.

### Secrets and SecretKeys

A write instance is a number.  A page has the credential that it changes
(`cred`), the version that it knows to be on the ledger (`base`), the balance
that it read when it was loaded (`coin`, never refreshed by a payment), its peer's
credential, and the progress of an addition and of a search.  The next secret
gets the size of the credential as its number, the attribute `others` included.
`lost` and `mixed` are for the properties: users of which an update of the credential got lost, and
users of which a page wrote without knowing of another page's update.  A search
walks through the numbers of the peer, pays for each secret it may read, and
replaces all that was read before.

`SecretKeys` follows a key: 28 bytes embedded in a point and encrypted for the
collective key, with a proof that the ledger checks, and 4 bytes in the clear;
re-encryption for the reader's ephemeral key; and back.  `ReadIsWritten` looks
the write instances up in the table `Readable`, which is evaluated for all keys
of the small group.

### UserData, PopParty, RoPaSci, Personhood

Each user has one page.  `inst` is the party and the badges on it, `rps` the
games, `stored` what the browser keeps of both: neither the scanned keys nor the
moves.  Listing requests are commented out in the code; `reloadParties` and
`reloadRoPaScis` let a listing return any of the instances there are.

`PopParty`: the keys of the organisers are fetched when the list of scanned keys
is empty, and replace it when they arrive (`fetching`).  `fetchOrgKeys` looks
for the credential of an organiser under the identifier of the darc, while
`createUser` and `createFirstUser` derive it from the public key, so the read
fails for accounts made in these two ways; the module allows both outcomes.  The
party is final when the last organiser has sent the list that all others sent;
the contract is external.  `update` of the page is separate from the inclusion,
so a lost answer leaves the page behind.

`RoPaSci`: the stake that is recorded includes the price of the game; anybody may
be the second player; `confirm` pays to the account that the page names.
`forgot` has the games of which the page with the move was reloaded, deleted the
game, or did not get the answer of the spawn.

`RingSig` is `Sign` and `Verify` with their lists, encodings and link scope, in
the group `Curve`: a point is its discrete logarithm modulo a prime, so
everything says what holders of keys can do, and nothing about others.
`SizesThatAnswer` tries every set and order of keys on both sides.
`AttendeesCanAnswer` ties it to the party: whatever list becomes final, its
attendees can answer polls.  Mining signs with a function of Kyber instead, which
is external.

### ChainClient

A block is its number, a node of the trie its prefix and keys.  The keys are
hashes of one length (`KeysAssumption`).  `known` is what each conode has; a
request goes from one state to the next with every answer. `GetUpdateChain`,
`Answered` and `Joined` are the recursion of `getUpdateChain` as a sequence of
frames; an answer may stop at any block, and may lose, repeat or damage one
(`Defects`, then `honest` is false).  `GetProof` is the request of a proof by
one of its three readers: `Instance.fromByzcoin` does not verify,
`SpawnerInstance.fromByzcoin` and `DarcInstance.update` do.  Its four parts may
be taken from the node at different times (`MixedProof`).  Verification starts
from the keys of the *latest* roster, so a proof is refused as soon as the
chain has changed its roster, although `proof.ts:108` announces the check of a
chain from the genesis block; `HonestProofIsUnderstood` says exactly when.
`getVerifiedInstance` does not compare the key it was asked for, so
`DarcInstance.update` can get the instance next to the one that is missing.

## 3. Runs

| Run | Shows | Size |
|---|---|---|
| `client_transaction` | counters and identifiers with 2 signers, 2 nodes, 4 operations (a transfer; a darc with 5 instructions; the first user with 7 and two keys; lengths that differ), one of them tried twice | 356 thousand states |
| `credential_sync` | 2 tabs, 3 page loads, 2 edits, 2 sends | 682 thousand states |
| `credential_lost` | expected violation: an edit that `sendUpdate` no longer sends | - |
| `connection` | 2 requests to 2 nodes, one unregistered message, one empty roster; safety and liveness | 38 thousand states |
| `connection_settles` | expected violation: a promise that never settles | - |
| `connection_tries_all` | expected violation: the first failing node ends the request | - |
| `signup` | 2 ephemeral keys, 2 browsers with 2 keys each, 3 evolutions; the rights over each account | 834 thousand states |
| `data_store` | 2 tabs, 3 loads, 3 keys, 1 game | 659 thousand states |
| `recovery` | 3 trustees, 2 accounts, 3 blocks, 2 page loads, 2 signatures | 2.1 million states |
| `secrets` | 2 pages of the writer, 1 of the reader, 2 secrets | 1.1 million states |
| `personhood` | 2 organisers and 1 attendee, a game, one reload | 919 thousand states |
| `chain_client` | 3 nodes, 2 rosters, 3 blocks, 3 requests, 3 keys | 373 thousand states |

Bounds.  In `client_transaction` the retry meets its own first try and three
other transactions, of the same and of another signer, which is what a conflict
needs; heights and counters stay bounded because calls are.  In
`credential_sync` two edits and two sends give every overlap of two updates, in
one tab, in two tabs, and across a reload.  In `connection` requests do not
influence each other except through the address they share, so two suffice.  In
`signup` three evolutions allow both browsers and a retry; two ephemeral keys
allow a browser to change from one account to another; the balance pays for
both accounts, and the ledger may refuse at any point, which includes the refusal
for lack of coins.  In `data_store` a third load lets a tab load again after
another one has saved; three keys are enough for a creator, an account that is
given and one that is taken over.  In `recovery` three trustees are the fewest of
which one is in the middle; a threshold of 2 needs signatures of two people, who
may read different versions, and two signatures are enough for one recovery;
the second account and the second load give signatures for another account or
key.  In `secrets` two secrets from two pages are what it takes to share a
number; the coins pay for both and one reading, so that payments fail, too.
In `personhood` two organisers can scan different lists, and a reload on either
page can hit the scan or the move; prices of the party are 0, as only the coins
for the game matter.  In `chain_client` two rosters that share one node give
chains with every pattern of change over three blocks, with a node that belongs
to neither or to both, and links over two blocks; the keys have depth 2, so a
proof ends in a leaf, in an empty place or in a neighbour.  The group has order 5,
the smallest in which a ring of four different keys fits; toy hash functions
depend on everything that is hashed.

Deadlock is not an error in any run: when all calls, loads and keys that the
bounds allow are used, nothing is left to do.  A behaviour of `chain_client` ends
with its one request.

Symmetry is used where only interchangeable model values are permuted: tabs in
`credential_sync` and `data_store`; pages of the writer in `secrets`; trustees in
`recovery`; organisers in `personhood`; ephemeral keys and browsers in `signup`.
None of these runs has a liveness property; their temporal properties are action
properties and the safety refinement.  The type invariants of `ChainClient`,
`DataStore` and `Secrets` are stated for the proofs and are not among the
properties of the runs.

Fairness is assumed only in `Connection`: timers fire, the continuations of
settled promises run, and the browser finishes a close that has begun (browsers
bound the closing handshake by a timeout of their own).  Nothing is assumed of
nodes and network.

### What the expected violations say

* `Contact.ts:389` says that `sendUpdate` "sends the current state of the
  Credentials to ByzCoin".  The instance keeps the new credential even if the
  transaction fails, so the version comparison then hides the edit until another
  edit is made.  The edit is lost if the page is reloaded.
* `connection.ts:26` says that the promise rejects when there is no reply.  A
  close with code 1000 settles nothing.
* `connection.ts:132` says that all nodes are tried.  The loop returns after the
  first one (`connection.ts:162`, with a TODO).  `AtMostOneNodeServes` shows what
  this is good for: a failed request has not been submitted twice.

## 4. Proofs

### Transactions

`ClientTransactionProofs` proves the four invariants of the run for every value
of the constants, from the three assumptions on them.  The counters of a
transaction are compared with those of others through the inductive invariant
`IInv`: what a node answers, and hence what a call is based on, is never ahead
of the ledger (`BehindNode`, `BehindCall`), with the blocks after that point
being exactly those that move the counters; every included transaction has used
counters up to the current ones (`UsedUp`), and two included transactions that
share a signer use disjoint counters (`Disjoint`).  `NoCounterReuse` alone is
not inductive, because nothing in it relates the counters of past transactions
to the ledger's current ones.  `RetryAbove` and `Tries` carry the order of
tries.

`IdsAreNew` of `Instances` follows: an identifier fixes the hash of its
instruction, the hash fixes a signer and its counter, and a counter is used by
one instruction of one transaction (`IdentifierTells`).  The property compares
two cardinalities, so it also needs that finitely many transactions are
included at any time, and that what is sent has signers for each instruction
(`Content`).

### Signing up

`SignupProofs` proves the invariants of `Signup` and that `Signup` implements
`Account`, for any ephemeral keys, browsers, prices and bounds.  The
assumptions are that prices, balance and bounds are natural numbers, and that
an ephemeral key is not a key of a browser, nor the mark for no account
(`KeysAssumption`): without that the signature of a browser could pass for one
of the ephemeral key.

`RegisteredOwns` is not inductive.  `IInv` adds what the argument needs: the
transactions of an account are included one after the other (`CreationOrder`);
the darc has the ephemeral key, at version 0, or the key of one browser, and
the latter only once the key was shown (`DeviceDarcs`); the darc names the key
of every evolution that was included for it (`Evolutions`), so there is at most
one; a page waits for an evolution to its own key (`Waiting`); and an account
is in the storage only while its page is registered (`StoredIsRegistered`).
The step that matters is `TakesOver`: an evolution is included only while the
ephemeral key is in the darc, hence only when no other has been.

The refinement maps the owners of an account to the signers of its device darc
once the credential is included.  `CredentialCreates` and `InclusionTakesOver`
are the two steps that change them, and they are `Create` and `TakeOver` of
`Account`; every other step leaves the owners as they are (`StepImplements`).

### Rights

`RightsAreTheOwners`, in `SignupProofs` too, says of any number of accounts and
browsers what the table of `Rights` says of the few that TLC has.  It assumes,
in addition, that the creator's key is none of the keys drawn later
(`CreatorAssumption`).  By the invariant above the owner of an account is its
ephemeral key or a key of a browser; the rest is about what the operators of
`Darcs`, `Operations` and `Rights` compute, for all such owners
(`RightsFollow`), in three parts.

What a darc says: `newDarc`, `appendToRule` and `setRule` work on lists of
rules, one action or identity at a time.  `Says` describes the list as a
function from actions to expressions, and each loop is followed along it
(`AppendEachIs`, `AppendsEach`, `DarcSays`).  A darc that is made for one
identity then says, for every action that it has, just this identity, after an
evolution as well (`AccountsAre`): the device darc names the owner, the signer
darc the device darc, credential and coin the signer darc.

What a key signs as: the ledger goes from a key to the darcs that name it, in
`Depth` rounds.  The four names of an account are told apart by base
identifier, which evolution keeps (`NamesDiffer`), so a round that starts at
the owner's key gains one darc, and a round that starts at any other key gains
none (`SignsForAccount`).

What is permitted: each operation of the client is unfolded into its
instructions, the darcs that guard them and their signers (`OneInstruction` to
`TwoGuarded`), which gives `OnlyOwners`, `LinksLead`, and, for the darcs of two
identities that parties and secrets have, `SharedIsOpen`.

### Connections

`NetworkProofs` proves type correctness, `ReplyOrTimeout` and
`AtMostOneNodeServes` for any nodes, rosters and number of requests; the roster
of a request is any set of nodes.  `ReplyOrTimeout` is about a request that has
settled, so it says nothing of the race before that.  `Lifecycle` does: while
the socket can still deliver, the timer is armed (or has just fired), the
promise is pending and nothing was received.  `SentOnce` says that a request
goes to one node at most; it holds because only a call without a result is
sent.

### Skipchain and proofs of the state

`NetworkProofs` also proves the four invariants of the run of `ChainClient`,
for any conodes, any set of rosters, any finite set of keys of one length, any
span of the forward links, and chains and requests of any length.  They speak
of requests that are over, so they are not inductive; `ChainInv` adds what a
request has been told so far (`Asking`): each nested call of `getUpdateChain`
asked for the last block of the answer before, and what honest nodes said is
linked, from block to block, by links of the chain.  The answers of honest
nodes start with the block asked for and follow the furthest link each time
(`AnswersAreLinked`, `WayLeads`), and stay linked as the chain grows
(`MoreLinks`).

The joined chain is a recursive function over the frames.  `verifyChain`
accepts exactly the chains that are linked and intact (`VerifyIs`): this is
`AcceptedChainIsReal`.  Where two linked answers meet the block is in both, and
the copy that stays is the one with the links that are followed (`JoinTwo`,
`JoinedIsLinked`): this is `LaggingIsNotInvalid`.

For proofs, `ProofIsOfOneBlock` follows the checks of `Proof.verify`, which
compare the last link with the block and the block with the root of the trie.
`HonestProofIsUnderstood` needs two things.  The path that a node of the trie
is found on leads to the place of the key, in as many steps as a key has bits
at most (`NodeSplits`, `PathFinds`), so `exists` tells presence from absence
(`ExistsIsBelow`).  And along the links of a node the roster that signs is the
one before, except for the first change, which is checked with the roster of
the latest block (`RostersOfLinks`): that is why a proof is accepted exactly if
that roster is the one of the genesis block, or there is no other block.

Recursive functions (joins, ways along links) are unfolded once per step; where
an induction over numbers is needed it is the argument of the least
counterexample (`LeastNumber`).

### Credentials

`CredentialSyncProofs` proves all five invariants of the run.  `CallOrder`: the
calls of one session carry growing contents, because `sendUpdate` sends only
what is newer than the cached version and caches it at once.  `Overtaken`: a
call that had settled before another one began cannot be included once that
other one is, because its counters were read before.  Together they give
`BlockOrder`, the contents of the blocks of one session in the order of their
calls, which `SessionMovesForward` and `VersionNamesContent` follow from.
`ViewerStuckNeedsConflict` needs, besides, that a viewer's copy is the content
of some block (`ViewerFromLedger`).

### Data store

`DataStoreProofs` proves the invariant `StoredKeyActs` and the action
properties `LossIsExplained` and `NothingComesBack`, for any tabs, games and
bounds.  A key acts for the contact beside it or for an account of its own
(`Acts`), and it was drawn and never given to another browser (`Owns`): the
second part is what keeps a takeover by somebody else from changing the first.
`Holds` relates a page to the storage it was loaded from: up to what was
removed the page has it all, unless the load failed, and it has nothing else
that it did not add.

`rmContact` is a recursive function over the positions of a list.  What it
returns is proved without an induction theorem: a position for which it were
wrong would be a least one (`LeastNumber`, from the well-foundedness of `<`),
and one unfolding of the function refutes that.

### Recovery

`RecoveryProofs` proves type correctness, `TrusteesAreWanted`, and the action
properties `SignatureIsFresh` and `SignaturesKept`.  The trustees are assumed
to be a finite set (`TrusteesAssumption`), as the user picks them from a list
of contacts.  `rmTrustee` computes a position that is wrong for a trustee in
the middle; whatever the position, one entry is removed and no trustee is ever
listed twice, and it is the right entry when it is the first or the last
(`WithoutTrustee`).  That is why the wanted list may be wrong only after a
removal from the middle.  `Chain` says that the darc in block i has a version
below i, `OneAccount` that all the signatures on the page are for one account.

### Parties and games

`PersonhoodProofs` proves type correctness, `FinalListScannedByAll`,
`StakesCanBePaid` and the action property `ScannedIsKept`, for any users,
organisers, prices and stakes.  `FinalListScannedByAll` speaks of final parties
only; `Scans` carries the argument to there: besides the organisers, what is on
a page was scanned by its organiser, and the list on the ledger is covered by
the scans of each of those who count as having sent it.  `FinalFirst` says that
no page or badge is final before the ledger is.  For the games, `Moves` says
that the first move of an open game is known to at most one page, and known
right; with `GamesAreListed` it survives listing, deleting and reloading.

`AttendeesAnswer` proves `AttendeesCanAnswer` for every order of the group,
every size of the ring below it and every pair of orders of the keys, with and
without a link scope; TLC tries it in a group of order 5.  Two assumptions: the
order is prime (`OrderAssumption`), and there are fewer users than elements of
the group (`GroupAssumption`), as keys are different points.  Signer and
verifier sort the keys into the same list.  The challenges of `Sign` go round
the ring from the place of the signer, those of `Verify` from the first place;
at each place both compute the same from the challenge before, and at the place
of the signer too, because its response is chosen so that the commitment comes
out as the random one it began with.  A place where they would differ would
have a least one, so there is none, and the verifier comes back to the
challenge it began with (`RingIsClosed`).  That the tag in a link scope counts
one attendee only, whoever else answers, is `TagsDiffer`, and needs that the
order is prime.

### Secrets

`SecretsProofs` proves the four properties of the run, for any pages, balances,
costs and bounds.

The encryption is proved for every order of the group, not only the one that
TLC evaluates.  Two numbers are the same if they differ by a multiple of q
(`Same`); sums and products of the same numbers are the same, so the mask `r * X`
that the writer adds is what the reader takes away again (`KeyIsDecoded`),
and the response of the proof of the writer gives back its commitments
(`WriteIsAccepted`).  That q is prime is not needed.

For the credential: the numbers of its attributes are smaller than their count
(`Listing`), so the next number is free, also when `others` came first and one
number is never used.  A page that knows the version on the ledger lists all
that the ledger lists, and has the plain secrets that the browser stores if no
update was lost (`Synced`).  A page with an older version can write, and is
then counted in `mixed`.  A search holds each number of the contact as still to
do, as read, as failed, or as not for this reader (`Busy`), which gives
`ReadIsKept` when nothing is left to do.

### What stays with TLC

Every invariant and every action property of the runs is proved, and so is the
refinement of `Account`.  Out of reach of the prover is liveness under
fairness: `SettlesOrEndedNormally` and `SocketsGetClosed` of `Connection` are
only checked by TLC, on two requests.  The three expected violations are
behaviours that TLC finds.  `SetUp` and `SingleDarc`, facts about the
administrator's darcs and about accounts with a single darc, are evaluated by
TLC in `MCSignup`, for the keys of that run.

The proofs say nothing that the models do not: the hash functions of `RingSig`,
`SecretKeys` and `Instances` are those of section 2, and the external actions
are what the client can see of ledger and conodes.

## 5. Not modelled

* What the ciphers, hashes and signatures hide from others: `Curve` lets
  everybody divide.  Only that the right people succeed is checked.
* Polls, listings and challenges: the requests of `personhood-rpc.ts` are
  commented out and return nothing.  `pollNew` gives `addPoll` an undefined value
  to store, and the next save fails on it; this is visible in the code and has no
  states to explore.  The signature of `pollAnswer` is in `RingSig`.
* `registerContact` rejects every contact that has a credential identifier,
  which every contact has, so nothing after its check runs.
* `searchRecovery`, `updateConfig`, `fromByzcoin` of the RPC, `getSkipBlock` and
  the getters of proofs and credentials only read and keep nothing.
* `addBlock` and `createSkipchain` are called by nothing in the application.
* `Badge.mined` is set before the transaction is sent and read nowhere.
* Meetups and the links of social nodes: lists that are stored as they are
  entered, in the same way as those of `DataStore`.
* Encodings, QR codes, logging, layout, the status request, and the starter of
  the conodes: formats, without state.
* `LeaderConnection` differs from `WebSocketConnection` only in its address.

## 6. Order of the proofs

`SignupProofs` and `PersonhoodProofs` have two parts each: what follows from the
steps of the program comes before what follows from the operators on darcs and
on ring signatures, and only the last theorem needs both.  A change of `Darcs`
or `RingSig` therefore leaves the first parts alone, and a new state or action
the lemmas of the second.  `NetworkProofs` has one part for each of its two
modules.

No module has a RECURSIVE operator.
