---------------------------- MODULE RecoveryProofs ----------------------------
(***************************************************************************)
(* What holds of Recovery for any trustees, accounts, thresholds, lag and  *)
(* bounds.  The argument about the trustees is about lists: whatever       *)
(* position rmTrustee computes, it removes one entry, so that no trustee   *)
(* is ever listed twice, and it is the entry of the trustee in question    *)
(* when that is the first or the last one (WithoutTrustee).  The argument  *)
(* about the page is that all the signatures it holds are for one account        *)
(* (OneAccount), so that a signature for another account clears them all.  *)
(***************************************************************************)
EXTENDS Recovery, FiniteSetTheorems, TLAPS

Entry == [cred : Credential, darc : Darc]

\* The ledger grows by blocks of all accounts; a darc evolves once per block.
Chain ==
  /\ chain \in Seq([Accounts -> Entry])
  /\ Len(chain) \in 1 .. MaxBlocks
  /\ \A i \in 1 .. Len(chain) : \A a \in Accounts : chain[i][a].darc.version < i

\* The page and the credential of the owner as records.
Page == [load : 1 .. MaxLoads, key : Keys \ {Owner}, contact : Accounts \cup {NoOne},
         sigs : Seq(Signature), phase : {"idle", "user", "sent", "darc"},
         sent : Seq(Signature)]

Pages ==
  /\ own \in [Owned -> [cred : Credential, sent : Versions]]
  /\ page \in Page

\* The page asks for the account of the signatures, all of which are for one.
OneAccount ==
  /\ \A i \in 1 .. Len(page.sigs) : page.sigs[i].acct = page.sigs[1].acct
  /\ page.phase = "user" => page.sent # <<>>
  /\ page.phase = "sent" => page.contact \in Accounts

IInv ==
  /\ TypeOK
  /\ Chain
  /\ Pages
  /\ OneAccount
  /\ TrusteesAreWanted

------------------------------------------------------------------------------
(* Lists of trustees. *)

\* A sequence of trustees without repetition is a list, as long as its set.
LEMMA ListIntro ==
  ASSUME NEW n \in Nat, NEW list \in [1 .. n -> Trustees],
         \A i, j \in 1 .. n : list[i] = list[j] => i = j
  PROVE  /\ list \in Lists
         /\ Len(list) = n
         /\ Cardinality(Members(list)) = n
<1>1. IsFiniteSet(1 .. n) /\ Cardinality(1 .. n) = n
  <2>1. Cardinality(1 .. n) = IF 1 > n THEN 0 ELSE n - 1 + 1
    BY FS_Interval
  <2>2. IsFiniteSet(1 .. n)
    BY FS_Interval
  <2>3. QED BY <2>1, <2>2
<1>2. n <= Cardinality(Trustees)
  <2>1. list \in Injection(1 .. n, Trustees)
    BY DEF Injection, IsInjective
  <2>2. QED BY <1>1, <2>1, FS_Injection, TrusteesAssumption
<1>3. DOMAIN list = 1 .. n /\ Len(list) = n
  OBVIOUS
<1>4. Cardinality(Trustees) \in Nat
  BY FS_CardinalityType, TrusteesAssumption
<1>5. list \in Lists
  <2>1. n \in 0 .. Cardinality(Trustees)
    BY <1>2, <1>4
  <2>2. QED BY <1>3, <2>1 DEF Lists
<1>6. Cardinality(Members(list)) = n
  <2>1. list \in Injection(1 .. n, Members(list)) /\ list \in Surjection(1 .. n, Members(list))
    BY <1>3 DEF Injection, IsInjective, Surjection, Members
  <2>2. QED BY <1>1, <2>1, FS_Surjection
<1>7. QED BY <1>3, <1>5, <1>6

\* What a list is: every trustee of it has one position.
LEMMA ListElim ==
  ASSUME NEW list \in Lists
  PROVE  /\ Len(list) \in Nat
         /\ DOMAIN list = 1 .. Len(list)
         /\ list \in [1 .. Len(list) -> Trustees]
         /\ \A i, j \in 1 .. Len(list) : list[i] = list[j] => i = j
         /\ Cardinality(Members(list)) = Len(list)
<1>1. PICK n \in 0 .. Cardinality(Trustees) : list \in [1 .. n -> Trustees]
  BY DEF Lists
<1>2. n \in Nat
  BY <1>1, FS_CardinalityType, TrusteesAssumption
<1>3. Len(list) = n /\ DOMAIN list = 1 .. n
  BY <1>1, <1>2
<1>4. \A i, j \in 1 .. n : list[i] = list[j] => i = j
  BY <1>3 DEF Lists
<1>5. Cardinality(Members(list)) = n
  BY <1>1, <1>2, <1>4, ListIntro
<1>6. QED BY <1>1, <1>2, <1>3, <1>4, <1>5

\* A sequence is a function.
LEMMA SeqIsFunction ==
  ASSUME NEW S, NEW s \in Seq(S)
  PROVE  s \in [1 .. Len(s) -> S]
OBVIOUS

\* findTrustee gives the position, counted from 0, or -1.
LEMMA FindTrustee ==
  ASSUME NEW list \in Lists, NEW t
  PROVE  IF t \in Members(list)
           THEN /\ findTrustee(list, t) \in 0 .. Len(list) - 1
                /\ list[findTrustee(list, t) + 1] = t
           ELSE findTrustee(list, t) = -1
<1>1. CASE t \in Members(list)
  <2> DEFINE i == CHOOSE i \in DOMAIN list : list[i] = t
  <2>1. i \in DOMAIN list /\ list[i] = t
    BY <1>1 DEF Members
  <2>2. findTrustee(list, t) = i - 1
    BY <1>1 DEF findTrustee
  <2> HIDE DEF i
  <2>3. i \in 1 .. Len(list) /\ Len(list) \in Nat
    BY <2>1, ListElim
  <2>4. QED BY <1>1, <2>1, <2>2, <2>3
<1>2. CASE t \notin Members(list)
  BY <1>2 DEF findTrustee
<1>3. QED BY <1>1, <1>2

\* addTrustee adds a trustee who is not there, and changes nothing otherwise.
LEMMA WithTrustee ==
  ASSUME NEW list \in Lists, NEW t \in Trustees
  PROVE  /\ withTrustee(list, t) \in Lists
         /\ Members(withTrustee(list, t)) = Members(list) \cup {t}
<1>1. CASE t \in Members(list)
  BY <1>1, FindTrustee, ListElim DEF withTrustee
<1>2. CASE t \notin Members(list)
  <2> DEFINE n == Len(list)
             new == Append(list, t)
  <2>1. n \in Nat /\ DOMAIN list = 1 .. n /\ list \in [1 .. n -> Trustees]
        /\ \A i, j \in 1 .. n : list[i] = list[j] => i = j
    BY ListElim
  <2>2. withTrustee(list, t) = new
    BY <1>2, FindTrustee DEF withTrustee
  <2>3. list \in Seq(Trustees)
    BY <2>1
  <2>4. /\ new \in [1 .. n + 1 -> Trustees] /\ new[n + 1] = t
        /\ \A i \in 1 .. n : new[i] = list[i]
    <3>1. new \in Seq(Trustees) /\ Len(new) = n + 1
      BY <2>3
    <3>2. new \in [1 .. n + 1 -> Trustees]
      BY <3>1, SeqIsFunction
    <3>3. QED BY <2>1, <2>3, <3>2
  <2> HIDE DEF new
  <2>5. \A i \in 1 .. n : list[i] # t
    BY <1>2, <2>1 DEF Members
  <2>6. \A i, j \in 1 .. n + 1 : new[i] = new[j] => i = j
    BY <2>1, <2>4, <2>5
  <2>7. new \in Lists
    BY <2>1, <2>4, <2>6, ListIntro
  <2>8. Members(new) = Members(list) \cup {t}
    <3>1. DOMAIN new = 1 .. n + 1
      BY <2>4
    <3>2. \A i \in 1 .. n + 1 : i = n + 1 \/ i \in 1 .. n
      BY <2>1
    <3>3. n + 1 \in 1 .. n + 1 /\ \A i \in 1 .. n : i \in 1 .. n + 1
      BY <2>1
    <3>4. QED BY <2>1, <2>4, <3>1, <3>2, <3>3 DEF Members
  <2>9. QED BY <2>2, <2>7, <2>8
<1>3. QED BY <1>1, <1>2

\* The list without its k-th entry.
Removed(list, k) == [i \in 1 .. Len(list) - 1 |-> IF i < k THEN list[i] ELSE list[i + 1]]

LEMMA RemovedIsList ==
  ASSUME NEW list \in Lists, NEW k \in 1 .. Len(list)
  PROVE  /\ Removed(list, k) \in Lists
         /\ Members(Removed(list, k)) = Members(list) \ {list[k]}
<1> DEFINE n == Len(list)
           new == Removed(list, k)
<1>1. /\ n \in Nat /\ n - 1 \in Nat /\ k \in Nat /\ k >= 1 /\ k <= n
      /\ DOMAIN list = 1 .. n /\ list \in [1 .. n -> Trustees]
      /\ \A i, j \in 1 .. n : list[i] = list[j] => i = j
  BY ListElim
<1>2. /\ DOMAIN new = 1 .. n - 1
      /\ \A i \in 1 .. n - 1 : new[i] = IF i < k THEN list[i] ELSE list[i + 1]
  BY DEF Removed
<1>3. new \in [1 .. n - 1 -> Trustees]
  BY <1>1 DEF Removed
<1> HIDE DEF new
<1>4. ASSUME NEW i \in 1 .. n - 1, NEW j \in 1 .. n - 1, new[i] = new[j]
      PROVE  i = j
  <2> DEFINE old(x) == IF x < k THEN x ELSE x + 1
  <2>1. old(i) \in 1 .. n /\ old(j) \in 1 .. n
    BY <1>1
  <2>2. list[old(i)] = list[old(j)]
    BY <1>2, <1>4
  <2>3. old(i) = old(j)
    BY <1>1, <2>1, <2>2
  <2>4. QED BY <1>1, <2>3
<1>5. new \in Lists
  BY <1>1, <1>3, <1>4, ListIntro
<1>6. ASSUME NEW i \in 1 .. n - 1 PROVE new[i] \in Members(list) \ {list[k]}
  <2> DEFINE old == IF i < k THEN i ELSE i + 1
  <2>1. old \in 1 .. n /\ old # k
    BY <1>1
  <2>2. new[i] = list[old]
    BY <1>2
  <2>3. QED BY <1>1, <2>1, <2>2 DEF Members
<1>7. ASSUME NEW j \in 1 .. n, j # k PROVE \E i \in 1 .. n - 1 : new[i] = list[j]
  <2> DEFINE i == IF j < k THEN j ELSE j - 1
  <2>1. i \in 1 .. n - 1
    BY <1>1, <1>7
  <2>2. new[i] = list[j]
    BY <1>1, <1>2, <1>7, <2>1
  <2>3. QED BY <2>1, <2>2
<1>8. Members(new) = Members(list) \ {list[k]}
  BY <1>1, <1>2, <1>6, <1>7 DEF Members
<1>9. QED BY <1>5, <1>8 DEF new

\* rmTrustee removes one entry: the one of the trustee, if that is the first or
\* the last one of the list, since a position in bytes is past every other end.
LEMMA WithoutTrustee ==
  ASSUME NEW list \in Lists, NEW t \in Members(list)
  PROVE  /\ withoutTrustee(list, t) \in Lists
         /\ findTrustee(list, t) \in {0, Len(list) - 1} =>
              Members(withoutTrustee(list, t)) = Members(list) \ {t}
<1> DEFINE p == findTrustee(list, t)
           n == Len(list)
           k == IF EntrySize * p < n THEN EntrySize * p + 1 ELSE n
<1>1. n \in Nat /\ p \in 0 .. n - 1 /\ list[p + 1] = t
  BY ListElim, FindTrustee
<1> HIDE DEF p
<1>2. k \in 1 .. n
  BY <1>1 DEF EntrySize
<1>3. withoutTrustee(list, t) = Removed(list, k)
  <2>1. \A i \in 1 .. n - 1 : i <= EntrySize * p <=> i < k
    BY <1>1 DEF EntrySize
  <2>2. withoutTrustee(list, t) =
          [i \in 1 .. n - 1 |-> IF i <= EntrySize * p THEN list[i] ELSE list[i + 1]]
    BY <1>1 DEF withoutTrustee, p, EntrySize
  <2>3. QED BY <2>1, <2>2 DEF Removed
<1>4. p \in {0, n - 1} => list[k] = t
  <2>1. CASE p = 0
    BY <1>1, <2>1 DEF EntrySize
  <2>2. CASE p = n - 1 /\ p # 0
    <3>1. k = n
      BY <1>1, <2>2 DEF EntrySize
    <3>2. QED BY <1>1, <2>2, <3>1
  <2>3. QED BY <2>1, <2>2
<1>5. QED BY <1>2, <1>3, <1>4, RemovedIsList DEF p

------------------------------------------------------------------------------
(* The ledger. *)

\* What the last block says of an account.
LEMMA TipEntry ==
  ASSUME Chain, NEW a \in Accounts
  PROVE  /\ Tip[a] \in Entry
         /\ Tip[a].cred \in Credential /\ Tip[a].darc \in Darc
         /\ Tip[a].darc.version \in Nat /\ Tip[a].darc.version < Len(chain)
         /\ Tip[a].darc.version + 1 \in 0 .. MaxBlocks
<1>1. /\ chain \in Seq([Accounts -> Entry]) /\ Len(chain) \in 1 .. Len(chain)
      /\ Len(chain) <= MaxBlocks /\ MaxBlocks \in Nat /\ Len(chain) \in Nat
  BY BoundsAssumption DEF Chain
<1>2. Tip[a] \in Entry
  BY <1>1 DEF Tip
<1>3. Tip[a].cred \in Credential /\ Tip[a].darc \in Darc
  BY <1>2 DEF Entry
<1>4. Tip[a].darc.version \in 0 .. MaxBlocks
  BY <1>3 DEF Darc
<1>5. Tip[a].darc.version < Len(chain)
  BY <1>1 DEF Chain, Tip
<1>6. QED BY <1>1, <1>2, <1>3, <1>4, <1>5

\* A block that evolves the darc of an account at most once.
LEMMA AddBlockKeepsChain ==
  ASSUME Chain, NEW a \in Accounts, NEW entry \in Entry,
         entry.darc.version <= Tip[a].darc.version + 1, AddBlock(a, entry)
  PROVE  Chain'
<1> DEFINE new == [Tip EXCEPT ![a] = entry]
           last == Len(chain) + 1
<1>1. /\ chain \in Seq([Accounts -> Entry]) /\ Len(chain) \in Nat /\ Len(chain) >= 1
      /\ Len(chain) <= MaxBlocks /\ MaxBlocks \in Nat
  BY BoundsAssumption DEF Chain
<1>2. Tip \in [Accounts -> Entry]
  BY <1>1 DEF Tip
<1>3. new \in [Accounts -> Entry] /\ \A b \in Accounts : new[b] = IF b = a THEN entry ELSE Tip[b]
  BY <1>2
<1>4. chain' = Append(chain, new) /\ Len(chain) < MaxBlocks
  BY DEF AddBlock
<1> HIDE DEF new
<1>5. /\ chain' \in Seq([Accounts -> Entry]) /\ Len(chain') = last
      /\ chain'[last] = new /\ \A i \in 1 .. Len(chain) : chain'[i] = chain[i]
  BY <1>1, <1>3, <1>4
<1>6. entry.darc.version \in Nat
  BY DEF Entry, Darc
<1>7. \A b \in Accounts : new[b].darc.version < last
  <2>1. ASSUME NEW b \in Accounts PROVE new[b].darc.version < last
    <3>1. Tip[b].darc.version \in Nat /\ Tip[b].darc.version < Len(chain)
      BY TipEntry
    <3>2. Tip[a].darc.version \in Nat /\ Tip[a].darc.version < Len(chain)
      BY TipEntry
    <3>3. QED BY <1>1, <1>3, <1>6, <3>1, <3>2
  <2>2. QED BY <2>1
<1>8. ASSUME NEW i \in 1 .. Len(chain') PROVE \A b \in Accounts : chain'[i][b].darc.version < i
  <2>1. i = last \/ i \in 1 .. Len(chain)
    BY <1>1, <1>5
  <2>2. QED BY <1>5, <1>7, <2>1 DEF Chain
<1>9. Len(chain') \in 1 .. MaxBlocks
  BY <1>1, <1>4, <1>5
<1>10. QED BY <1>5, <1>8, <1>9 DEF Chain

\* The darc evolves.
LEMMA EvolveKeepsChain ==
  ASSUME Chain, NEW a \in Owned, Evolve(a)
  PROVE  Chain'
<1> DEFINE d == [Tip[a].darc EXCEPT !.version = Tip[a].darc.version + 1]
           entry == [Tip[a] EXCEPT !.darc = d]
<1>1. a \in Accounts
  BY BoundsAssumption
<1>2. Tip[a] \in Entry /\ Tip[a].darc \in Darc /\ Tip[a].darc.version + 1 \in 0 .. MaxBlocks
  BY <1>1, TipEntry
<1>3. d \in Darc /\ d.version = Tip[a].darc.version + 1
  BY <1>2 DEF Darc
<1>4. AddBlock(a, entry)
  BY DEF Evolve
<1> HIDE DEF d
<1>5. entry \in Entry /\ entry.darc = d
  BY <1>2, <1>3 DEF Entry
<1> HIDE DEF entry
<1>6. QED BY <1>1, <1>2, <1>3, <1>4, <1>5, AddBlockKeepsChain

\* The owner's credential is stored.
LEMMA SendKeepsChain ==
  ASSUME Chain, Pages, NEW a \in Owned, AddBlock(a, [Tip[a] EXCEPT !.cred = own[a].cred])
  PROVE  Chain'
<1> DEFINE entry == [Tip[a] EXCEPT !.cred = own[a].cred]
<1>1. a \in Accounts /\ own[a].cred \in Credential
  BY BoundsAssumption DEF Pages
<1>2. Tip[a] \in Entry /\ Tip[a].darc.version \in Nat
  BY <1>1, TipEntry
<1>3. entry \in Entry /\ entry.darc = Tip[a].darc
  BY <1>1, <1>2 DEF Entry
<1> HIDE DEF entry
<1>4. AddBlock(a, entry)
  BY DEF entry
<1>5. entry.darc.version <= Tip[a].darc.version + 1
  BY <1>2, <1>3
<1>6. QED BY <1>1, <1>3, <1>4, <1>5, AddBlockKeepsChain

\* The recovered key is added.
LEMMA IncludeKeepsChain ==
  ASSUME Chain, Pages, NEW a \in Accounts, Include(a)
  PROVE  /\ Chain'
         /\ page.key \in Tip'[a].darc.keys
<1> DEFINE d == [version |-> Tip[a].darc.version + 1, keys |-> Tip[a].darc.keys \cup {page.key}]
           entry == [Tip[a] EXCEPT !.darc = d]
<1>1. Tip[a] \in Entry /\ Tip[a].darc \in Darc /\ Tip[a].darc.version + 1 \in 0 .. MaxBlocks
  BY TipEntry
<1>2. page.key \in Keys
  BY DEF Pages, Page
<1>3. d \in Darc /\ d.version = Tip[a].darc.version + 1 /\ page.key \in d.keys
  BY <1>1, <1>2 DEF Darc
<1>4. AddBlock(a, entry)
  BY DEF Include
<1> HIDE DEF d
<1>5. entry \in Entry /\ entry.darc = d
  BY <1>1, <1>3 DEF Entry
<1> HIDE DEF entry
<1>6. entry.darc.version <= Tip[a].darc.version + 1
  BY <1>1, <1>3, <1>5
<1>7. Chain'
  BY <1>4, <1>5, <1>6, AddBlockKeepsChain
<1>8. Tip'[a] = entry
  <2>1. chain \in Seq([Accounts -> Entry]) /\ Len(chain) \in Nat /\ Tip \in [Accounts -> Entry]
    BY DEF Chain, Tip
  <2>2. chain' = Append(chain, [Tip EXCEPT ![a] = entry])
    BY <1>4 DEF AddBlock
  <2>3. [Tip EXCEPT ![a] = entry] \in [Accounts -> Entry] /\ [Tip EXCEPT ![a] = entry][a] = entry
    BY <1>5, <2>1
  <2>4. Len(chain') = Len(chain) + 1 /\ chain'[Len(chain) + 1] = [Tip EXCEPT ![a] = entry]
    BY <2>1, <2>2, <2>3
  <2>5. QED BY <2>3, <2>4 DEF Tip
<1>9. QED BY <1>3, <1>5, <1>7, <1>8

------------------------------------------------------------------------------
(* The owner. *)

\* A setter changes the list, the threshold and the version of one credential.
LEMMA EditsKeep ==
  ASSUME Pages, NEW a \in Owned, NEW list \in Lists, NEW threshold \in Thresholds \cup {0},
         NEW steps \in Nat, Edits(a, list, threshold, steps)
  PROVE  /\ own' \in [Owned -> [cred : Credential, sent : Versions]]
         /\ \A b \in Owned :
              own'[b].cred.trustees = IF b = a THEN list ELSE own[b].cred.trustees
<1> DEFINE c == [trustees |-> list, threshold |-> threshold,
                 version |-> own[a].cred.version + steps]
           o == [own[a] EXCEPT !.cred = c]
<1>1. own[a] \in [cred : Credential, sent : Versions] /\ own[a].cred.version \in Versions
  BY DEF Pages, Credential
<1>2. own[a].cred.version + steps \in Versions
  BY <1>1, BoundsAssumption DEF Edits, Versions
<1>3. c \in Credential /\ c.trustees = list
  BY <1>2 DEF Credential
<1>4. own' = [own EXCEPT ![a] = o]
  BY DEF Edits
<1> HIDE DEF c
<1>5. o \in [cred : Credential, sent : Versions] /\ o.cred = c
  BY <1>1, <1>3
<1> HIDE DEF o
<1>6. QED BY <1>3, <1>4, <1>5 DEF Pages

\* The owner's list of an account, of which the invariant says what it holds.
LEMMA OwnList ==
  ASSUME IInv, NEW a \in Owned
  PROVE  /\ own[a].cred.trustees \in Lists
         /\ own[a].cred.threshold \in Thresholds \cup {0}
         /\ wanted[a] \subseteq Trustees
         /\ a \notin slipped => Members(own[a].cred.trustees) = wanted[a]
BY DEF IInv, Pages, Credential, TypeOK, TrusteesAreWanted

\* A change of one list that keeps it in step with what the owner wants.
LEMMA OwnerKeeps ==
  ASSUME IInv, NEW a \in Owned, NEW list \in Lists, NEW threshold \in Thresholds \cup {0},
         NEW steps \in Nat, Edits(a, list, threshold, steps),
         NEW set \in SUBSET Trustees, wanted' = [wanted EXCEPT ![a] = set],
         slipped' \subseteq Owned, \A b \in Owned : b # a /\ b \notin slipped' => b \notin slipped,
         a \notin slipped' => Members(list) = set,
         UNCHANGED <<chain, made, shown, page>>
  PROVE  IInv'
<1>1. /\ own' \in [Owned -> [cred : Credential, sent : Versions]]
      /\ \A b \in Owned :
           own'[b].cred.trustees = IF b = a THEN list ELSE own[b].cred.trustees
  BY EditsKeep DEF IInv
<1>2. wanted \in [Owned -> SUBSET Trustees]
  BY DEF IInv, TypeOK
<1>3. TypeOK'
  <2>1. \A b \in Owned : own'[b].cred \in Credential /\ own'[b].sent \in Versions
    BY <1>1
  <2>2. wanted' \in [Owned -> SUBSET Trustees]
    BY <1>2
  <2>3. QED BY <2>1, <2>2 DEF IInv, TypeOK
<1>4. Chain' /\ Pages' /\ OneAccount'
  BY <1>1 DEF IInv, Chain, Pages, OneAccount
<1>5. TrusteesAreWanted'
  <2>1. ASSUME NEW b \in Owned
        PROVE  /\ Cardinality(Members(own'[b].cred.trustees)) = Len(own'[b].cred.trustees)
               /\ b \notin slipped' => Members(own'[b].cred.trustees) = wanted'[b]
    <3>1. own'[b].cred.trustees \in Lists
      BY <1>1, OwnList
    <3>2. Cardinality(Members(own'[b].cred.trustees)) = Len(own'[b].cred.trustees)
      BY <3>1, ListElim
    <3>3. b \notin slipped' => Members(own'[b].cred.trustees) = wanted'[b]
      BY <1>1, <1>2, OwnList
    <3>4. QED BY <3>2, <3>3
  <2>2. QED BY <2>1 DEF TrusteesAreWanted
<1>6. QED BY <1>3, <1>4, <1>5 DEF IInv

LEMMA SettersKeep ==
  ASSUME IInv, NEW a \in Owned,
         \/ \E list \in Lists, threshold \in Thresholds : setTrustees(a, threshold, list)
         \/ \E t \in Trustees : addTrustee(a, t) \/ rmTrustee(a, t)
  PROVE  IInv'
<1> DEFINE old == own[a].cred.trustees
           thr == own[a].cred.threshold
<1>1. /\ old \in Lists /\ thr \in Thresholds \cup {0} /\ wanted[a] \subseteq Trustees
      /\ a \notin slipped => Members(old) = wanted[a]
      /\ slipped \subseteq Owned
  BY OwnList DEF IInv, TypeOK
<1>2. ASSUME NEW list \in Lists, NEW threshold \in Thresholds, setTrustees(a, threshold, list)
      PROVE IInv'
  <2>1. Members(list) \subseteq Trustees
    <3>1. DOMAIN list = 1 .. Len(list) /\ list \in [1 .. Len(list) -> Trustees]
      BY ListElim
    <3>2. QED BY <3>1 DEF Members
  <2>2. /\ Edits(a, list, threshold, 2) /\ wanted' = [wanted EXCEPT ![a] = Members(list)]
        /\ slipped' = slipped \ {a} /\ UNCHANGED <<chain, made, shown, page>>
    BY <1>2 DEF setTrustees
  <2>3. QED BY <1>1, <2>1, <2>2, OwnerKeeps
<1>3. ASSUME NEW t \in Trustees, addTrustee(a, t) PROVE IInv'
  <2>1. /\ withTrustee(old, t) \in Lists
        /\ Members(withTrustee(old, t)) = Members(old) \cup {t}
    BY <1>1, WithTrustee
  <2>2. /\ Edits(a, withTrustee(old, t), thr, 1)
        /\ wanted' = [wanted EXCEPT ![a] = wanted[a] \cup {t}]
        /\ slipped' = slipped /\ UNCHANGED <<chain, made, shown, page>>
    BY <1>3 DEF addTrustee
  <2>3. wanted[a] \cup {t} \in SUBSET Trustees
    BY <1>1
  <2> HIDE DEF old, thr
  <2>4. QED BY <1>1, <2>1, <2>2, <2>3, OwnerKeeps
<1>4. ASSUME NEW t \in Trustees, rmTrustee(a, t) PROVE IInv'
  <2> DEFINE middle == findTrustee(old, t) \notin {-1, 0, Len(old) - 1}
  <2>1. /\ t \in Members(old) /\ Edits(a, withoutTrustee(old, t), thr, 1)
        /\ wanted' = [wanted EXCEPT ![a] = wanted[a] \ {t}]
        /\ slipped' = IF middle THEN slipped \cup {a} ELSE slipped
        /\ UNCHANGED <<chain, made, shown, page>>
    BY <1>4 DEF rmTrustee
  <2>2. /\ withoutTrustee(old, t) \in Lists
        /\ findTrustee(old, t) \in {0, Len(old) - 1} =>
             Members(withoutTrustee(old, t)) = Members(old) \ {t}
    BY <1>1, <2>1, WithoutTrustee
  <2>3. findTrustee(old, t) # -1
    BY <1>1, <2>1, FindTrustee
  <2>4. wanted[a] \ {t} \in SUBSET Trustees
    BY <1>1
  <2>5. a \notin slipped' => Members(withoutTrustee(old, t)) = wanted[a] \ {t}
    BY <1>1, <2>1, <2>2, <2>3
  <2>6. slipped' \subseteq Owned /\ slipped \subseteq slipped'
    BY <1>1, <2>1
  <2> HIDE DEF old, thr
  <2>7. QED BY <1>1, <2>1, <2>2, <2>4, <2>5, <2>6, OwnerKeeps
<1>5. QED BY <1>2, <1>3, <1>4

\* sendUpdate changes what was sent of a credential, and perhaps the ledger.
LEMMA SendUpdateKeeps ==
  ASSUME IInv, NEW a \in Owned, sendUpdate(a)
  PROVE  IInv'
<1> DEFINE o == [own[a] EXCEPT !.sent = own[a].cred.version]
<1>1. Chain'
  BY SendKeepsChain DEF IInv, sendUpdate, Chain
<1>2. own[a] \in [cred : Credential, sent : Versions] /\ own[a].cred.version \in Versions
  BY DEF IInv, Pages, Credential
<1>3. o \in [cred : Credential, sent : Versions] /\ o.cred = own[a].cred
  BY <1>2
<1>4. own' = [own EXCEPT ![a] = o] /\ UNCHANGED <<wanted, slipped, made, shown, page>>
  BY DEF sendUpdate
<1> HIDE DEF o
<1>5. /\ own' \in [Owned -> [cred : Credential, sent : Versions]]
      /\ \A b \in Owned : own'[b].cred = own[b].cred
  BY <1>3, <1>4 DEF IInv, Pages
<1>6. TypeOK'
  <2>1. \A i \in 1 .. Len(chain') : chain'[i] \in [Accounts -> [cred : Credential, darc : Darc]]
    BY <1>1 DEF Chain, Entry
  <2>2. \A b \in Owned : own'[b].cred \in Credential /\ own'[b].sent \in Versions
    BY <1>5
  <2>3. QED BY <1>4, <2>1, <2>2 DEF IInv, TypeOK
<1>7. Pages' /\ OneAccount' /\ TrusteesAreWanted'
  BY <1>4, <1>5 DEF IInv, Pages, OneAccount, TrusteesAreWanted
<1>8. QED BY <1>1, <1>6, <1>7 DEF IInv

\* Another evolution of the darc changes the ledger alone.
LEMMA EvolveKeeps ==
  ASSUME IInv, NEW a \in Owned, Evolve(a)
  PROVE  IInv'
<1>1. Chain' /\ UNCHANGED <<own, wanted, slipped, made, shown, page>>
  BY EvolveKeepsChain DEF IInv, Evolve
<1>2. \A i \in 1 .. Len(chain') : chain'[i] \in [Accounts -> [cred : Credential, darc : Darc]]
  BY <1>1 DEF Chain, Entry
<1>3. QED BY <1>1, <1>2 DEF IInv, TypeOK, Pages, OneAccount, TrusteesAreWanted

------------------------------------------------------------------------------
(* The trustees, and the page with the new key. *)

\* A signature is of a key of a page and of a version some node has.
LEMMA SigningKeeps ==
  ASSUME IInv, NEW t \in Trustees, NEW a \in Accounts, NEW i \in Seen, recoverySignature(t, a, i)
  PROVE  /\ IInv'
         /\ \A s \in shown' : s.ver = chain[i][s.acct].darc.version /\ s.ver \in Nat
<1> DEFINE s == [acct |-> a, by |-> t, key |-> page.key, ver |-> SignedVersion(a, i)]
<1>1. i \in 1 .. Len(chain)
  BY DEF IInv, Chain, Seen
<1>2. SignedVersion(a, i) \in 0 .. MaxBlocks /\ SignedVersion(a, i) \in Nat
  BY <1>1, BoundsAssumption DEF IInv, TypeOK, SignedVersion, Darc
<1>3. s \in Signature /\ s.ver = chain[i][s.acct].darc.version
  BY <1>2 DEF IInv, Pages, Page, Signature, SignedVersion
<1>4. shown' = {s} /\ made' = made + 1 /\ made < MaxSignatures
      /\ UNCHANGED <<chain, own, wanted, slipped, page>>
  BY DEF recoverySignature
<1> HIDE DEF s
<1>5. Cardinality(shown') <= 1
  <2>1. Cardinality({s}) = 1
    BY FS_Singleton
  <2>2. QED BY <1>4, <2>1
<1>6. TypeOK'
  BY <1>3, <1>4, <1>5, BoundsAssumption DEF IInv, TypeOK
<1>7. Chain' /\ Pages' /\ OneAccount' /\ TrusteesAreWanted'
  BY <1>4 DEF IInv, Chain, Pages, OneAccount, TrusteesAreWanted
<1>8. s.ver \in Nat
  BY <1>2 DEF s
<1>9. QED BY <1>3, <1>4, <1>6, <1>7, <1>8 DEF IInv

\* A step of the page keeps the invariant if the page stays well formed.
LEMMA PageKeeps ==
  ASSUME IInv, Chain', page' \in Page, OneAccount', UNCHANGED <<own, wanted, slipped, made, shown>>
  PROVE  IInv'
<1>1. \A i \in 1 .. Len(chain') : chain'[i] \in [Accounts -> [cred : Credential, darc : Darc]]
  BY DEF Chain, Entry
<1>2. TypeOK'
  BY <1>1 DEF IInv, TypeOK, Page
<1>3. QED BY <1>2 DEF IInv, Pages, TrusteesAreWanted

\* The signatures of a page are all for the account of the first one.
LEMMA StoreKeeps ==
  ASSUME IInv, NEW s \in shown, recoveryStore(s)
  PROVE  /\ IInv'
         /\ \/ page'.sigs = <<s>> /\ \A r \in Members(page.sigs) : r.acct # s.acct
            \/ Members(page.sigs) \subseteq Members(page'.sigs)
<1> DEFINE sigs == IF page.sigs # <<>> /\ page.sigs[1].acct # s.acct
                     THEN <<s>> ELSE Append(page.sigs, s)
<1>1. s \in Signature /\ page \in Page /\ page.sigs \in Seq(Signature)
  BY DEF IInv, TypeOK, Pages, Page
<1>2. page' = [page EXCEPT !.sigs = sigs] /\ UNCHANGED <<chain, own, wanted, slipped, made, shown>>
  BY DEF recoveryStore
<1>3. sigs \in Seq(Signature)
  BY <1>1
<1>4. \A i \in 1 .. Len(sigs) : sigs[i].acct = sigs[1].acct
  <2>1. CASE page.sigs # <<>> /\ page.sigs[1].acct # s.acct
    BY <2>1
  <2>2. CASE page.sigs = <<>>
    <3>1. sigs = <<s>>
      BY <2>2
    <3>2. QED BY <3>1
  <2>3. CASE page.sigs # <<>> /\ page.sigs[1].acct = s.acct
    <3>1. sigs = Append(page.sigs, s)
      BY <2>3
    <3>2. Len(page.sigs) \in Nat /\ Len(page.sigs) >= 1
      BY <1>1, <2>3
    <3>3. /\ Len(sigs) = Len(page.sigs) + 1 /\ sigs[Len(page.sigs) + 1] = s
          /\ \A i \in 1 .. Len(page.sigs) : sigs[i] = page.sigs[i]
      BY <1>1, <3>1
    <3>4. \A i \in 1 .. Len(page.sigs) : page.sigs[i].acct = page.sigs[1].acct
      BY DEF IInv, OneAccount
    <3> HIDE DEF sigs
    <3>5. ASSUME NEW i \in 1 .. Len(sigs) PROVE sigs[i].acct = s.acct
      <4>1. i = Len(page.sigs) + 1 \/ i \in 1 .. Len(page.sigs)
        BY <3>2, <3>3
      <4>2. QED BY <2>3, <3>3, <3>4, <4>1
    <3>6. 1 \in 1 .. Len(sigs)
      BY <3>2, <3>3
    <3>7. QED BY <3>5, <3>6
  <2>4. QED BY <2>1, <2>2, <2>3
<1>5. \/ sigs = <<s>> /\ \A r \in Members(page.sigs) : r.acct # s.acct
      \/ Members(page.sigs) \subseteq Members(sigs)
  <2>1. CASE page.sigs # <<>> /\ page.sigs[1].acct # s.acct
    BY <1>1, <2>1 DEF IInv, OneAccount, Members
  <2>2. CASE ~ (page.sigs # <<>> /\ page.sigs[1].acct # s.acct)
    <3>1. sigs = Append(page.sigs, s)
      BY <2>2
    <3>2. \A i \in DOMAIN page.sigs : i \in DOMAIN sigs /\ sigs[i] = page.sigs[i]
      BY <1>1, <3>1
    <3>3. QED BY <3>2 DEF Members
  <2>3. QED BY <2>1, <2>2
<1> HIDE DEF sigs
<1>6. page' \in Page /\ page'.sigs = sigs /\ page'.phase = page.phase
      /\ page'.sent = page.sent /\ page'.contact = page.contact
  BY <1>1, <1>2, <1>3 DEF Page
<1>7. OneAccount' /\ Chain'
  BY <1>2, <1>4, <1>6 DEF IInv, OneAccount, Chain
<1>8. IInv'
  BY <1>2, <1>6, <1>7, PageKeeps
<1>9. QED BY <1>5, <1>6, <1>8

\* The page after a failed call is idle, with its signatures.
LEMMA RejectsFields ==
  ASSUME IInv
  PROVE  /\ Rejects \in Page /\ Rejects.sigs = page.sigs /\ Rejects.phase = "idle"
         /\ Rejects.load = page.load
<1>1. page \in Page /\ <<>> \in Seq(Signature)
  BY DEF IInv, Pages
<1> DEFINE none == <<>>
<1>2. none \in Seq(Signature)
  BY <1>1
<1>3. Rejects = [page EXCEPT !.phase = "idle", !.sent = none]
  BY DEF Rejects
<1> HIDE DEF none
<1>4. QED BY <1>1, <1>2, <1>3 DEF Page

\* The page asks for the account, or a call of it fails: it keeps its signatures.
LEMMA AskingKeeps ==
  ASSUME IInv,
         \/ \E a \in Accounts : recoverIdentity(a)
         \/ GotUser \/ Refused \/ EvolveRejects \/ ReadFails
  PROVE  IInv' /\ page'.sigs = page.sigs
<1>1. page \in Page
  BY DEF IInv, Pages
<1>2. ASSUME NEW a \in Accounts, recoverIdentity(a)
      PROVE IInv' /\ page'.sigs = page.sigs
  <2>1. /\ page.sigs # <<>> /\ page' = [page EXCEPT !.phase = "user", !.sent = <<page.sigs[1]>>]
        /\ UNCHANGED <<chain, own, wanted, slipped, made, shown>>
    BY <1>2 DEF recoverIdentity, To
  <2>2. page.sigs[1] \in Signature
    BY <1>1, <2>1 DEF Page
  <2>3. <<page.sigs[1]>> \in Seq(Signature) /\ <<page.sigs[1]>> # <<>>
    BY <2>2
  <2>4. /\ page' \in Page /\ page'.sigs = page.sigs /\ page'.phase = "user"
        /\ page'.sent # <<>>
    BY <1>1, <2>1, <2>3 DEF Page
  <2>5. OneAccount' /\ Chain'
    BY <2>1, <2>4 DEF IInv, OneAccount, Chain
  <2>6. QED BY <2>1, <2>4, <2>5, PageKeeps
<1>3. CASE GotUser
  <2>1. /\ page.phase = "user"
        /\ page' = [page EXCEPT !.phase = "sent", !.contact = page.sent[1].acct,
                                !.sent = page.sigs]
        /\ UNCHANGED <<chain, own, wanted, slipped, made, shown>>
    BY <1>3 DEF GotUser, To
  <2>2. page.sent # <<>> /\ page.sent \in Seq(Signature)
    BY <1>1, <2>1 DEF IInv, OneAccount, Page
  <2>3. page.sent[1].acct \in Accounts
    <3>1. page.sent[1] \in Signature
      BY <2>2
    <3>2. QED BY <3>1 DEF Signature
  <2>4. /\ page' \in Page /\ page'.sigs = page.sigs /\ page'.phase = "sent"
        /\ page'.contact \in Accounts
    BY <1>1, <2>1, <2>3 DEF Page
  <2>5. OneAccount' /\ Chain'
    BY <2>1, <2>4 DEF IInv, OneAccount, Chain
  <2>6. QED BY <2>1, <2>4, <2>5, PageKeeps
<1>4. CASE Refused \/ EvolveRejects \/ ReadFails
  <2>1. page' = Rejects /\ UNCHANGED <<chain, own, wanted, slipped, made, shown>>
    BY <1>4 DEF Refused, EvolveRejects, ReadFails, To, AfterAnswer
  <2>2. /\ page' \in Page /\ page'.sigs = page.sigs /\ page'.phase = "idle"
    BY <2>1, RejectsFields
  <2>3. OneAccount' /\ Chain'
    BY <2>1, <2>2 DEF IInv, OneAccount, Chain
  <2>4. QED BY <2>1, <2>2, <2>3, PageKeeps
<1>5. QED BY <1>2, <1>3, <1>4

\* The recovery is included: the signatures go once the answer is there.
LEMMA RecoveredKeeps ==
  ASSUME IInv, NEW replied \in BOOLEAN, Recovered(replied)
  PROVE  /\ IInv'
         /\ \/ page'.sigs = page.sigs
            \/ page.phase = "sent" /\ page.key \in Tip'[page.contact].darc.keys
<1>1. page \in Page /\ page.phase = "sent" /\ page.contact \in Accounts
  BY DEF IInv, Pages, OneAccount, Recovered
<1>2. Chain' /\ page.key \in Tip'[page.contact].darc.keys
  BY <1>1, IncludeKeepsChain DEF IInv, Recovered
<1>3. UNCHANGED <<own, wanted, slipped, made, shown>>
  BY DEF Recovered, To
<1>4. CASE replied
  <2>1. page' = [page EXCEPT !.phase = "darc", !.sigs = <<>>]
    BY <1>4 DEF Recovered, To, AfterAnswer
  <2>2. page' \in Page /\ page'.sigs = <<>> /\ page'.phase = "darc"
    <3> DEFINE none == <<>>
    <3>1. none \in Seq(Signature)
      OBVIOUS
    <3>2. page' = [page EXCEPT !.phase = "darc", !.sigs = none]
      BY <2>1
    <3> HIDE DEF none
    <3>3. page' \in Page /\ page'.sigs = none /\ page'.phase = "darc"
      BY <1>1, <3>1, <3>2 DEF Page
    <3>4. QED BY <3>3 DEF none
  <2>3. OneAccount'
    BY <2>2 DEF OneAccount
  <2>4. QED BY <1>1, <1>2, <1>3, <2>2, <2>3, PageKeeps
<1>5. CASE ~ replied
  <2>1. page' = Rejects
    BY <1>5 DEF Recovered, To
  <2>2. page' \in Page /\ page'.sigs = page.sigs /\ page'.phase = "idle"
    BY <2>1, RejectsFields
  <2>3. OneAccount'
    BY <2>2 DEF IInv, OneAccount
  <2>4. QED BY <1>2, <1>3, <2>2, <2>3, PageKeeps
<1>6. QED BY <1>4, <1>5

\* The page is loaded again and has no signatures.
LEMMA ReloadKeeps ==
  ASSUME IInv, NEW saved \in BOOLEAN, Reload(saved)
  PROVE  IInv' /\ page'.load # page.load
<1>1. /\ page \in Page /\ page.load \in 1 .. MaxLoads /\ page.load < MaxLoads
      /\ MaxLoads \in Nat /\ page.key \in Keys \ {Owner}
      /\ page.contact \in Accounts \cup {NoOne}
  BY BoundsAssumption DEF IInv, Pages, Page, Reload
<1>2. /\ page' = IF saved THEN NewPage(page.load + 1, page.key, page.contact)
                          ELSE NewPage(page.load + 1, page.load + 1, NoOne)
      /\ UNCHANGED <<chain, own, wanted, slipped, made, shown>>
  BY DEF Reload, To
<1>3. page.load + 1 \in 1 .. MaxLoads /\ page.load + 1 \in Keys \ {Owner}
  BY <1>1 DEF Keys, Owner
<1>4. \A k \in Keys \ {Owner} : \A c \in Accounts \cup {NoOne} :
        LET p == NewPage(page.load + 1, k, c) IN
        p \in Page /\ p.sigs = <<>> /\ p.phase = "idle" /\ p.load = page.load + 1
  BY <1>3 DEF NewPage, Page
<1>5. /\ page' \in Page /\ page'.sigs = <<>> /\ page'.phase = "idle"
      /\ page'.load = page.load + 1
  BY <1>1, <1>2, <1>3, <1>4
<1>6. OneAccount' /\ Chain'
  BY <1>2, <1>5 DEF IInv, OneAccount, Chain
<1>7. QED BY <1>1, <1>2, <1>5, <1>6, PageKeeps

------------------------------------------------------------------------------
(* Initial states and steps. *)

\* Nobody has trustees, and nothing is signed.
LEMMA InitEstablishes == Init => IInv
<1> SUFFICES ASSUME Init PROVE IInv
  OBVIOUS
<1> DEFINE block == [a \in Accounts |-> [cred |-> NoCred, darc |-> [version |-> 0, keys |-> {Owner}]]]
<1>1. /\ <<>> \in Lists /\ Len(<<>>) = 0 /\ Members(<<>>) = {} /\ Cardinality({}) = 0
  <2>1. <<>> \in [1 .. 0 -> Trustees]
    OBVIOUS
  <2>2. <<>> \in Lists
    <3> DEFINE none == <<>>
    <3>1. none \in [1 .. 0 -> Trustees] /\ \A i, j \in 1 .. 0 : none[i] = none[j] => i = j
      BY <2>1
    <3> HIDE DEF none
    <3>2. none \in Lists
      BY <3>1, ListIntro
    <3>3. QED BY <3>2 DEF none
  <2>3. Cardinality({}) = 0
    BY FS_EmptySet
  <2>4. QED BY <2>2, <2>3 DEF Members
<1>2. NoCred \in Credential /\ NoCred.trustees = <<>>
  BY <1>1, BoundsAssumption DEF NoCred, Credential, Versions
<1>3. Owner \in Keys /\ 0 \in 0 .. MaxBlocks /\ 0 \in Versions
  BY BoundsAssumption DEF Owner, Keys, Versions
<1>4. /\ block \in [Accounts -> Entry]
      /\ \A a \in Accounts : block[a].darc.version = 0
  BY <1>2, <1>3 DEF Entry, Darc
<1>5. chain = <<block>>
  BY DEF Init
<1> HIDE DEF block
<1>6. chain \in Seq([Accounts -> Entry]) /\ Len(chain) = 1 /\ chain[1] = block
  BY <1>4, <1>5
<1>7. Chain
  BY <1>4, <1>6, BoundsAssumption DEF Chain
<1>8. own \in [Owned -> [cred : Credential, sent : Versions]]
      /\ \A a \in Owned : own[a].cred = NoCred
  BY <1>2, <1>3 DEF Init
<1>9. /\ page \in Page /\ page.sigs = <<>> /\ page.phase = "idle"
  <2>1. 1 \in 1 .. MaxLoads /\ 1 \in Keys \ {Owner}
    BY BoundsAssumption DEF Keys, Owner
  <2>2. page = NewPage(1, 1, NoOne)
    BY DEF Init
  <2>3. QED BY <2>1, <2>2 DEF Page, NewPage
<1>10. TypeOK
  <2>1. \A i \in 1 .. Len(chain) : chain[i] \in [Accounts -> [cred : Credential, darc : Darc]]
    BY <1>7 DEF Chain, Entry
  <2>2. /\ wanted \in [Owned -> SUBSET Trustees] /\ slipped = {} /\ made = 0 /\ shown = {}
    BY DEF Init
  <2>3. QED BY <1>1, <1>8, <1>9, <2>1, <2>2, BoundsAssumption DEF TypeOK, Page
<1>11. TrusteesAreWanted
  BY <1>1, <1>2, <1>8 DEF TrusteesAreWanted, Init
<1>12. Pages /\ OneAccount
  BY <1>8, <1>9 DEF Pages, OneAccount
<1>13. QED BY <1>7, <1>10, <1>11, <1>12 DEF IInv

LEMMA Inductive == IInv /\ [Next]_vars => IInv'
<1> SUFFICES ASSUME IInv, [Next]_vars PROVE IInv'
  OBVIOUS
<1>1. ASSUME NEW a \in Accounts, NEW t \in Trustees, NEW i \in Seen, recoverySignature(t, a, i)
      PROVE IInv'
  BY <1>1, SigningKeeps
<1>2. ASSUME NEW a \in Owned,
             \/ \E list \in Lists, threshold \in Thresholds : setTrustees(a, threshold, list)
             \/ \E t \in Trustees : addTrustee(a, t) \/ rmTrustee(a, t)
      PROVE IInv'
  BY <1>2, SettersKeep
<1>3. ASSUME NEW a \in Owned, Evolve(a) \/ sendUpdate(a) PROVE IInv'
  BY <1>3, EvolveKeeps, SendUpdateKeeps
<1>4. ASSUME NEW s \in shown, recoveryStore(s) PROVE IInv'
  BY <1>4, StoreKeeps
<1>5. CASE \/ \E a \in Accounts : recoverIdentity(a)
           \/ GotUser \/ Refused \/ EvolveRejects \/ ReadFails
  BY <1>5, AskingKeeps
<1>6. ASSUME NEW b \in BOOLEAN, Recovered(b) \/ Reload(b) PROVE IInv'
  BY <1>6, RecoveredKeeps, ReloadKeeps
<1>7. CASE UNCHANGED vars
  BY <1>7 DEF vars, IInv, TypeOK, Chain, Pages, OneAccount, TrusteesAreWanted
<1>8. QED BY <1>1, <1>2, <1>3, <1>4, <1>5, <1>6, <1>7 DEF Next

\* Only recoverySignature shows a signature.
LEMMA ShownBySigning ==
  ASSUME IInv, [Next]_vars, shown' # shown
  PROVE  \E t \in Trustees, a \in Accounts, i \in Seen : recoverySignature(t, a, i)
<1>1. CASE UNCHANGED vars
  BY <1>1 DEF vars
<1>2. CASE Next
  BY <1>2 DEF Next, recoverIdentity, Evolve, sendUpdate, setTrustees, addTrustee, rmTrustee,
              recoveryStore, GotUser, Refused, EvolveRejects, ReadFails, Recovered, Reload, To
<1>3. QED BY <1>1, <1>2

\* What a step does to the signatures of the page.
LEMMA StepKeepsSignatures ==
  ASSUME IInv, [Next]_vars
  PROVE  \A s \in Members(page.sigs) \ Members(page'.sigs) :
           \/ page'.load # page.load
           \/ page'.sigs # <<>> /\ page'.sigs[1].acct # s.acct
           \/ page.phase = "sent" /\ page.key \in Tip'[page.contact].darc.keys
<1> DEFINE Lost == Members(page.sigs) \ Members(page'.sigs)
           Goal == \A s \in Lost :
                     \/ page'.load # page.load
                     \/ page'.sigs # <<>> /\ page'.sigs[1].acct # s.acct
                     \/ page.phase = "sent" /\ page.key \in Tip'[page.contact].darc.keys
<1>1. page'.sigs = page.sigs => Lost = {}
  OBVIOUS
<1>2. ASSUME NEW t \in shown, recoveryStore(t) PROVE Goal
  <2>1. CASE Members(page.sigs) \subseteq Members(page'.sigs)
    BY <2>1
  <2>2. CASE page'.sigs = <<t>> /\ \A r \in Members(page.sigs) : r.acct # t.acct
    <3>1. page'.sigs # <<>> /\ page'.sigs[1] = t
      BY <2>2
    <3>2. QED BY <2>2, <3>1
  <2>3. QED BY <1>2, <2>1, <2>2, StoreKeeps
<1>3. CASE \/ \E a \in Accounts : recoverIdentity(a)
           \/ GotUser \/ Refused \/ EvolveRejects \/ ReadFails
  <2>1. page'.sigs = page.sigs
    BY <1>3, AskingKeeps
  <2>2. QED BY <1>1, <2>1
<1>4. ASSUME NEW b \in BOOLEAN, Recovered(b) PROVE Goal
  <2>1. \/ page'.sigs = page.sigs
        \/ page.phase = "sent" /\ page.key \in Tip'[page.contact].darc.keys
    BY <1>4, RecoveredKeeps
  <2>2. QED BY <1>1, <2>1
<1>5. ASSUME NEW b \in BOOLEAN, Reload(b) PROVE Goal
  <2>1. page'.load # page.load
    BY <1>5, ReloadKeeps
  <2>2. QED BY <2>1
<1>6. CASE \/ \E t \in Trustees, a \in Accounts, i \in Seen : recoverySignature(t, a, i)
           \/ \E a \in Owned :
                \/ Evolve(a) \/ sendUpdate(a)
                \/ \E list \in Lists, threshold \in Thresholds : setTrustees(a, threshold, list)
                \/ \E t \in Trustees : addTrustee(a, t) \/ rmTrustee(a, t)
           \/ UNCHANGED vars
  <2>1. page' = page
    BY <1>6 DEF recoverySignature, Evolve, sendUpdate, setTrustees, addTrustee, rmTrustee, vars
  <2>2. QED BY <1>1, <2>1
<1>7. QED BY <1>2, <1>3, <1>4, <1>5, <1>6 DEF Next

------------------------------------------------------------------------------
(* The theorems. *)

\* Type correctness, which includes that the lists of trustees that addTrustee
\* and rmTrustee build never name a trustee twice.
THEOREM TypesCorrect == Spec => []TypeOK
<1>1. IInv => TypeOK
  BY DEF IInv
<1>2. QED BY <1>1, InitEstablishes, Inductive, PTL DEF Spec

\* addTrustee and rmTrustee keep the list that the owner wants for any number
\* of trustees, unless one from the middle of the list was removed.
THEOREM ListIsWanted == Spec => []TrusteesAreWanted
<1>1. IInv => TrusteesAreWanted
  BY DEF IInv
<1>2. QED BY <1>1, InitEstablishes, Inductive, PTL DEF Spec

\* recoverySignature signs a version of the darc that some node still has.
THEOREM SignaturesAreFresh == Spec => SignatureIsFresh
<1>1. IInv /\ [Next]_vars =>
        [\A s \in shown' \ shown : \E i \in Seen : s.ver >= chain[i][s.acct].darc.version]_vars
  <2> SUFFICES ASSUME IInv, [Next]_vars, NEW s \in shown' \ shown
               PROVE  \E i \in Seen : s.ver >= chain[i][s.acct].darc.version
    OBVIOUS
  <2>1. PICK t \in Trustees, a \in Accounts, i \in Seen : recoverySignature(t, a, i)
    BY ShownBySigning
  <2>2. s.ver = chain[i][s.acct].darc.version /\ s.ver \in Nat
    BY <2>1, SigningKeeps
  <2>3. QED BY <2>2
<1>2. QED BY <1>1, InitEstablishes, Inductive, PTL DEF Spec, SignatureIsFresh

\* The page keeps the signatures it has collected until the key is in the darc:
\* recoverIdentity can be tried again after a refusal or a lost answer.
THEOREM SignaturesAreKept == Spec => SignaturesKept
<1>1. IInv /\ [Next]_vars =>
        [\A s \in Members(page.sigs) \ Members(page'.sigs) :
           \/ page'.load # page.load
           \/ page'.sigs # <<>> /\ page'.sigs[1].acct # s.acct
           \/ page.phase = "sent" /\ page.key \in Tip'[page.contact].darc.keys]_vars
  BY StepKeepsSignatures
<1>2. QED BY <1>1, InitEstablishes, Inductive, PTL DEF Spec, SignaturesKept

==============================================================================
