-------------------------------- MODULE Secrets --------------------------------
(***************************************************************************)
(* Secrets shared through Calypso (class Calypso of src/lib/Contact.ts,    *)
(* SecureData.ts, spawnCalypsoWrite of spawner-instance.ts, spawnRead of   *)
(* calypso-instance.ts and the handlers of app.component.ts).              *)
(*                                                                         *)
(* To add a secret a page pays for a darc, then for a write instance, and  *)
(* lists the instance in the credential under the next number.  To search, *)
(* a page walks through the numbers of a contact, pays for every secret it *)
(* may read, and stores what it could decrypt.  The plain secrets, own and *)
(* read ones, are only in the storage of the browser.                      *)
(*                                                                         *)
(* One user writes, in several pages of one browser, another one reads;    *)
(* the writer searches, too, as that adds `others' to the numbered values. *)
(* A secret is the number of its instance; for its encryption, see         *)
(* SecretKeys.                                                             *)
(***************************************************************************)
EXTENDS SecretKeys, FiniteSets

CONSTANTS
  WriterPages, ReaderPages,
  Coins,                               \* that each user starts with
  costDarc, costCWrite, costCRead,     \* of the spawner
  MaxWrites,                           \* bound: write instances
  MaxLoads,                            \* bound: pages that are loaded
  MaxVersion                           \* bound: of a credential

ASSUME CostsAssumption == {Coins, costDarc, costCWrite, costCRead} \subseteq Nat
ASSUME BoundsAssumption == {MaxWrites, MaxLoads, MaxVersion} \subseteq Nat

Users   == {"writer", "reader"}
Pages   == WriterPages \cup ReaderPages
User(p) == IF p \in WriterPages THEN "writer" ELSE "reader"
Peer(p) == IF p \in WriterPages THEN "reader" ELSE "writer"

Writes == 1 .. MaxWrites
others == -1                  \* the attribute that is not numbered
Blob   == 0                   \* its value: what the user has read, serialised
Names  == -1 .. MaxVersion

VARIABLES
  coins,     \* coins[u]: the balance on the ledger
  shared,    \* shared[w]: the reader may read write instance w, once it is there
  cred,      \* cred[u]: the credential `1-secret' on the ledger, and its version
  storage,   \* storage[u]: what the browser of u stores
  page,      \* the state of each page
  loads,     \* loads of pages so far
  lost,      \* users of which an update of the credential was lost
  mixed      \* users of which a page wrote without knowing what another one wrote

vars == <<coins, shared, cred, storage, page, loads, lost, mixed>>

NoneYet == [n \in {} |-> Blob]

NoAdd    == [phase |-> "none", share |-> FALSE, id |-> 0]
NoSearch == [phase |-> "none", todo |-> NoneYet, got |-> {}, failed |-> {}]
Closed   == [open |-> FALSE, cred |-> [atts |-> NoneYet, version |-> 0], base |-> 0,
             coin |-> 0, peer |-> [atts |-> NoneYet, version |-> 0], ours |-> NoneYet,
             read |-> {}, add |-> NoAdd, search |-> NoSearch]

\* base: the version that the ledger had when the page read or wrote it last; coin:
\* the balance that the page holds; peer: its copy of the contact; read: what is in Calypso.others.
TypeOK ==
  /\ coins \in [Users -> 0 .. Coins]
  /\ \E n \in 0 .. MaxWrites : shared \in [1 .. n -> BOOLEAN]
  /\ \A u \in Users :
       /\ DOMAIN cred[u].atts \subseteq Names /\ cred[u].version \in 0 .. MaxVersion
       /\ DOMAIN storage[u].ours \subseteq 0 .. MaxVersion /\ storage[u].read \subseteq Writes
  /\ \A p \in Pages :
       /\ page[p].coin \in 0 .. Coins
       /\ page[p].add.phase \in {"none", "darc", "write", "list"}
       /\ page[p].search.phase \in {"none", "each"}
       /\ DOMAIN page[p].ours \subseteq 0 .. MaxVersion
       /\ page[p].read \subseteq Writes /\ page[p].search.got \subseteq Writes
  /\ loads \in 0 .. MaxLoads /\ lost \subseteq Users /\ mixed \subseteq Users

Init ==
  /\ coins = [u \in Users |-> Coins]
  /\ shared = [w \in {} |-> TRUE]
  /\ cred = [u \in Users |-> [atts |-> NoneYet, version |-> 0]]
  /\ storage = [u \in Users |-> [ours |-> NoneYet, read |-> {}]]
  /\ page = [p \in Pages |-> Closed]
  /\ loads = 0 /\ lost = {} /\ mixed = {}

------------------------------------------------------------------------------
(* Loading, and saving. *)

\* Bug: the plain secrets are not restored.
RestoredNothing(u) == [ours |-> NoneYet, read |-> {}]

\* Calypso.fromObject
Restored(u) == storage[u]

\* The own credential comes from the ledger, the plain secrets from the storage.
Load(p) ==
  /\ ~page[p].open /\ loads < MaxLoads
  /\ loads' = loads + 1
  /\ page' = [page EXCEPT ![p] = [Closed EXCEPT
       !.open = TRUE, !.cred = cred[User(p)],
       !.base = cred[User(p)].version, !.coin = coins[User(p)],
       !.ours = Restored(User(p)).ours, !.read = Restored(User(p)).read]]
  /\ UNCHANGED <<coins, shared, cred, storage, lost, mixed>>

Close(p) ==
  /\ page[p].open
  /\ page' = [page EXCEPT ![p] = Closed]
  /\ UNCHANGED <<coins, shared, cred, storage, loads, lost, mixed>>

\* The page goes on as s; the ledger and the others stay.
Goes(p, s) ==
  /\ page' = [page EXCEPT ![p] = s]
  /\ UNCHANGED <<cred, storage, loads, lost, mixed>>

\* The page goes on as s, counts the version up and saves: the storage gets the
\* plain secrets, and the credential is sent, its version being newer than that of
\* the instance.  The update is included or lost.
Saves(p, s) ==
  LET u == User(p)
      version == s.cred.version + 1
      c == [s.cred EXCEPT !.version = version]
  IN
  /\ version <= MaxVersion
  /\ storage' = [storage EXCEPT ![u] = [ours |-> s.ours, read |-> s.read]]
  /\ \/ /\ cred' = [cred EXCEPT ![u] = c]
        /\ page' = [page EXCEPT ![p] = [s EXCEPT !.cred = c, !.base = version]]
        /\ mixed' = IF cred[u].version # s.base THEN mixed \cup {u} ELSE mixed
        /\ UNCHANGED lost
     \/ /\ page' = [page EXCEPT ![p] = [s EXCEPT !.cred = c]]
        /\ lost' = lost \cup {u}
        /\ UNCHANGED <<cred, mixed>>
  /\ UNCHANGED loads

Extend(f, k, v) == [x \in DOMAIN f \cup {k} |-> IF x = k THEN v ELSE f[x]]

------------------------------------------------------------------------------
(* Adding a secret: calypsoAddData, Calypso.add, spawnCalypsoWrite. *)

\* The balance that the page holds must do for both, though nothing updates it.
CanPay(s) == s.coin >= costDarc + costCWrite

\* calypsoAddData: the reader is among the contacts, or not.
add(p, share) ==
  /\ page[p].open /\ page[p].add.phase = "none" /\ p \in WriterPages
  /\ CanPay(page[p])
  /\ Goes(p, [page[p] EXCEPT !.add = [NoAdd EXCEPT !.phase = "darc", !.share = share]])
  /\ UNCHANGED <<coins, shared>>

\* The darc is paid for and spawned, or not.  The call rejects, too, when the
\* answer gets lost, or none of ten reads finds the darc: d[0] is undefined then.
spawnDarc(p, included, got) ==
  /\ page[p].add.phase = "darc"
  /\ included => coins[User(p)] >= costDarc
  /\ coins' = [coins EXCEPT ![User(p)] = IF included THEN @ - costDarc ELSE @]
  /\ Goes(p, [page[p] EXCEPT !.add = IF included /\ got THEN [@ EXCEPT !.phase = "write"] ELSE NoAdd])
  /\ UNCHANGED shared

\* The same for the write instance, which is read once.
spawnWrite(p, included, got) ==
  LET w == Cardinality(DOMAIN shared) + 1 IN
  /\ page[p].add.phase = "write"
  /\ included => coins[User(p)] >= costCWrite /\ w <= MaxWrites
  /\ shared' = IF included THEN Extend(shared, w, page[p].add.share) ELSE shared
  /\ coins' = [coins EXCEPT ![User(p)] = IF included THEN @ - costCWrite ELSE @]
  /\ Goes(p, [page[p] EXCEPT !.add =
       IF included /\ got THEN [@ EXCEPT !.phase = "list", !.id = w] ELSE NoAdd])

\* Bug: the number of the last attribute instead of the next.
NextNumberLast(s) ==
  IF s.cred.atts = NoneYet THEN 0 ELSE Cardinality(DOMAIN s.cred.atts) - 1

\* The number is the size of the credential, `others' included.
NextNumber(s) == Cardinality(DOMAIN s.cred.atts)

\* The write instance is numbered, listed and saved.
List(p) ==
  LET s == page[p]  n == NextNumber(s) IN
  /\ s.add.phase = "list"
  /\ Saves(p, [s EXCEPT !.add = NoAdd, !.ours = Extend(s.ours, n, s.add.id),
                        !.cred.atts = Extend(s.cred.atts, n, s.add.id)])
  /\ UNCHANGED <<coins, shared>>

------------------------------------------------------------------------------
(* Searching the secrets of the contact: calypsoSearch, Calypso.read,        *)
(* SecureData.fromContact.                                                   *)

\* The copy of the contact is updated, if its version is newer.
Updated(copy, u) == IF cred[u].version > copy.version THEN cred[u] ELSE copy

\* calypsoSearch goes through the numbers of the contact.
read(p) ==
  LET s == page[p]  peer == Updated(s.peer, Peer(p)) IN
  /\ s.open /\ s.search.phase = "none"
  /\ Goes(p, [s EXCEPT !.peer = peer,
       !.search = [NoSearch EXCEPT !.phase = "each",
                   !.todo = [n \in DOMAIN peer.atts \ {others} |-> peer.atts[n]]]])
  /\ UNCHANGED <<coins, shared>>

NextTodo(s) == CHOOSE n \in DOMAIN s.todo : \A m \in DOMAIN s.todo : n <= m

Tried(s, n, got, failed) ==
  [s EXCEPT !.todo = [m \in DOMAIN s.todo \ {n} |-> s.todo[m]],
            !.got = @ \cup got, !.failed = @ \cup failed]

\* The reader is one of the alternatives in the rule of the write's darc.
MayRead(w) == shared[w]

\* The coins are fetched and the read instance spawned in one transaction.
spawnRead(u) ==
  /\ coins[u] >= costCRead
  /\ coins' = [coins EXCEPT ![u] = @ - costCRead]

\* Decrypted with the help of the first node of the roster, or not.
decrypt(w) == {{w}, {}}

\* The next secret: not for this reader; decrypted, after paying; or failed,
\* before or after the coins were taken.
fromWrite(p) ==
  LET s == page[p].search  n == NextTodo(s)  w == s.todo[n]  u == User(p) IN
  /\ s.phase = "each" /\ s.todo # NoneYet
  /\ \/ /\ ~MayRead(w) /\ UNCHANGED coins
        /\ Goes(p, [page[p] EXCEPT !.search = Tried(s, n, {}, {})])
     \/ /\ MayRead(w) /\ spawnRead(u)
        /\ \E data \in decrypt(w) :
             Goes(p, [page[p] EXCEPT !.search = Tried(s, n, data, {w} \ data)])
     \/ /\ UNCHANGED coins
        /\ Goes(p, [page[p] EXCEPT !.search = Tried(s, n, {}, {w})])
  /\ UNCHANGED shared

\* Bug: only the secrets that were not known yet are stored.
FoundNew(s) == s.search.got \ s.read

\* What this search has decrypted replaces what was known of the contact.
Found(s) == s.search.got

SearchDone(p) ==
  LET s == page[p] IN
  /\ s.search.phase = "each" /\ s.search.todo = NoneYet
  /\ Saves(p, [s EXCEPT !.search = NoSearch, !.read = Found(s),
                        !.cred.atts = Extend(s.cred.atts, others, Blob)])
  /\ UNCHANGED <<coins, shared>>

Next ==
  \E p \in Pages :
    \/ Load(p) \/ Close(p)
    \/ \E share \in BOOLEAN : add(p, share)
    \/ \E b, c \in BOOLEAN : spawnDarc(p, b, c) \/ spawnWrite(p, b, c)
    \/ List(p) \/ read(p) \/ fromWrite(p) \/ SearchDone(p)

Spec == Init /\ [][Next]_vars

------------------------------------------------------------------------------

\* A secret that the ledger lists stays listed under its number, unless a page of
\* the user writes that did not know what another one had written.
ListedIsKept ==
  [][\A u \in Users : \A n \in DOMAIN cred[u].atts \ {others} :
       \/ u \in mixed'
       \/ /\ n \in DOMAIN cred'[u].atts
          /\ cred'[u].atts[n] = cred[u].atts[n]]_vars

\* The storage keeps each plain secret under its number, unless an update of the
\* credential was lost, so that the next secret takes the number again, or pages
\* of the user wrote without knowing of each other.
OursIsKept ==
  [][\A u \in Users \ (lost' \cup mixed') : \A n \in DOMAIN storage[u].ours :
       /\ n \in DOMAIN storage'[u].ours
       /\ storage'[u].ours[n] = storage[u].ours[n]]_vars

\* A page drops a secret that it has read only because it could not be read this
\* time, or because the contact does not list it any more.
ReadIsKept ==
  [][\A p \in Pages : page'[p].open /\ page[p].open =>
       \A w \in page[p].read \ page'[p].read :
         \/ w \in page[p].search.failed
         \/ \A n \in DOMAIN page[p].peer.atts : page[p].peer.atts[n] # w]_vars

\* The write instances whose data can be read back.
Open == {w \in Writes : Readable(w)}

\* The ledger takes every write instance, and whoever has read one has what was written,
\* whatever keys the writer, the conodes and the reader picked.
ReadIsWritten ==
  /\ \A p \in Pages : page[p].read \subseteq Open
  /\ DOMAIN shared \subseteq Open

==============================================================================
