------------------------------- MODULE Recovery -------------------------------
(***************************************************************************)
(* The social recovery of an account (src/lib/Data.ts, class Recover of    *)
(* Contact.ts, RecoverySignature and recoverIdentity of                    *)
(* credentials-instance.ts).                                               *)
(*                                                                         *)
(* The owner of an account writes trustees and a threshold into the        *)
(* credential.  A page with a new key shows a request; a trustee signs the *)
(* account, the new key and the version of the account's darc, as the node *)
(* tells that the trustee happens to ask.  The page collects signatures    *)
(* and sends them; the ledger adds the new key to the darc when enough     *)
(* trustees signed for it.                                                 *)
(***************************************************************************)
EXTENDS Integers, FiniteSets, Sequences

CONSTANTS
  Trustees,       \* contacts that may become trustees
  Accounts,       \* accounts that have trustees
  Thresholds,     \* that the owner may choose
  Owned,          \* those of which the owner's page appears
  Lag,            \* blocks that a node may be behind
  MaxLoads,       \* bound: how often the page is loaded
  MaxVersion,     \* bound: the versions of a credential
  MaxBlocks,      \* bound: the blocks of the ledger
  MaxSignatures   \* bound: signatures made, and stored by the page

ASSUME BoundsAssumption ==
  /\ Thresholds \subseteq Nat /\ Owned \subseteq Accounts /\ Lag \in Nat
  /\ MaxLoads \in Nat \ {0} /\ MaxVersion \in Nat
  /\ MaxBlocks \in Nat \ {0} /\ MaxSignatures \in Nat

ASSUME TrusteesAssumption == IsFiniteSet(Trustees)

EntrySize == 32   \* bytes of an instance id
Owner == 0        \* the key of the owner's device
Keys  == 0 .. MaxLoads   \* a page has a key of its own, or that of a page before
NoOne == "none"

VARIABLES
  chain,    \* chain[i][a]: credential and darc of account a after block i
  own,      \* own[a]: the credential in the page of the owner
  wanted,   \* wanted[a]: the trustees the owner asked for
  slipped,  \* the accounts of which a middle trustee was removed
  made,     \* how many signatures the trustees have made
  shown,    \* the signature on the screen of a trustee, if there is one
  page      \* the page with the new key

vars == <<chain, own, wanted, slipped, made, shown, page>>

\* Lists of trustees: the contacts of a page are all different.
Lists == {l \in UNION {[1 .. n -> Trustees] : n \in 0 .. Cardinality(Trustees)} :
            \A i, j \in DOMAIN l : l[i] = l[j] => i = j}
Versions == 0 .. MaxVersion

\* A credential as far as recovery goes; sent is the version of the instance
\* that the page of the owner holds.
Credential == [trustees : Lists, threshold : Thresholds \cup {0}, version : Versions]
Darc       == [version : 0 .. MaxBlocks, keys : SUBSET Keys]
Signature  == [acct : Accounts, by : Trustees, key : Keys, ver : 0 .. MaxBlocks]

Tip == chain[Len(chain)]

TypeOK ==
  /\ \A i \in 1 .. Len(chain) : chain[i] \in [Accounts -> [cred : Credential, darc : Darc]]
  /\ \A a \in Owned : own[a].cred \in Credential /\ own[a].sent \in Versions
  /\ wanted \in [Owned -> SUBSET Trustees] /\ slipped \subseteq Owned
  /\ made \in 0 .. MaxSignatures
  /\ shown \subseteq Signature /\ Cardinality(shown) <= 1
  /\ page.load \in 1 .. MaxLoads /\ page.key \in Keys \ {Owner} /\ page.contact \in Accounts \cup {NoOne}
  /\ page.sigs \in Seq(Signature) /\ page.sent \in Seq(Signature)
  /\ page.phase \in {"idle", "user", "sent", "darc"}

NoCred  == [trustees |-> <<>>, threshold |-> 0, version |-> 0]
NewPage(n, k, a) == [load |-> n, key |-> k, contact |-> a, sigs |-> <<>>,
                     phase |-> "idle", sent |-> <<>>]

Init ==
  /\ chain = <<[a \in Accounts |-> [cred |-> NoCred, darc |-> [version |-> 0, keys |-> {Owner}]]]>>
  /\ own = [a \in Owned |-> [cred |-> NoCred, sent |-> 0]]
  /\ wanted = [a \in Owned |-> {}]
  /\ slipped = {}
  /\ made = 0
  /\ shown = {}
  /\ page = NewPage(1, 1, NoOne)

------------------------------------------------------------------------------
(* The ledger: blocks, and what the nodes have of them. *)

AddBlock(a, entry) ==
  /\ Len(chain) < MaxBlocks
  /\ chain' = Append(chain, [Tip EXCEPT ![a] = entry])

\* The blocks that a read may see.
Seen == {i \in DOMAIN chain : i + Lag >= Len(chain)}

\* The darc of the account evolves for another reason, a new device for one.
Evolve(a) ==
  /\ AddBlock(a, [Tip[a] EXCEPT !.darc.version = @ + 1])
  /\ UNCHANGED <<own, wanted, slipped, made, shown, page>>

------------------------------------------------------------------------------
(* The owner and the trustees in the credential. *)

Members(list) == {list[i] : i \in DOMAIN list}

\* findTrustee: the position, of which the code returns EntrySize times as much.
findTrustee(list, t) ==
  IF t \in Members(list) THEN (CHOOSE i \in DOMAIN list : list[i] = t) - 1 ELSE -1

\* Bug: a trustee that is there already is added once more.
withTrusteeAgain(list, t) == Append(list, t)

\* addTrustee, for one that is not in the list yet.
withTrustee(list, t) == IF findTrustee(list, t) >= 0 THEN list ELSE Append(list, t)

\* Bug: the list keeps its length, with the last trustee twice.
withoutTrusteeSameLength(list, t) ==
  LET pos == EntrySize * findTrustee(list, t) IN
  IF pos < 0 THEN list
  ELSE [i \in DOMAIN list |-> IF i <= pos \/ i = Len(list) THEN list[i] ELSE list[i + 1]]

\* rmTrustee: copies the entries before 32 times the position that findTrustee
\* gives, which is in bytes already, and then the ones after that.
withoutTrustee(list, t) ==
  LET pos == EntrySize * findTrustee(list, t) IN
  IF pos < 0 THEN list
  ELSE [i \in 1 .. Len(list) - 1 |-> IF i <= pos THEN list[i] ELSE list[i + 1]]

Edits(a, list, threshold, steps) ==
  /\ own[a].cred.version + steps <= MaxVersion
  /\ own' = [own EXCEPT ![a].cred = [trustees |-> list, threshold |-> threshold,
                                     version |-> @.version + steps]]

\* setTrustees: both setters count the version up.
setTrustees(a, threshold, list) ==
  /\ Edits(a, list, threshold, 2)
  /\ wanted' = [wanted EXCEPT ![a] = Members(list)]
  /\ slipped' = slipped \ {a}
  /\ UNCHANGED <<chain, made, shown, page>>

addTrustee(a, t) ==
  LET list == own[a].cred.trustees IN
  /\ Edits(a, withTrustee(list, t), own[a].cred.threshold, 1)
  /\ wanted' = [wanted EXCEPT ![a] = @ \cup {t}]
  /\ UNCHANGED <<chain, slipped, made, shown, page>>

rmTrustee(a, t) ==
  LET list == own[a].cred.trustees
      middle == findTrustee(list, t) \notin {-1, 0, Len(list) - 1}
  IN
  /\ t \in Members(list)
  /\ Edits(a, withoutTrustee(list, t), own[a].cred.threshold, 1)
  /\ wanted' = [wanted EXCEPT ![a] = @ \ {t}]
  /\ slipped' = IF middle THEN slipped \cup {a} ELSE slipped
  /\ UNCHANGED <<chain, made, shown, page>>

\* sendUpdate: sent only if the version is newer than that of the instance, which
\* takes the new credential before the block is there, if it ever is.
sendUpdate(a) ==
  /\ own[a].cred.version > own[a].sent
  /\ own' = [own EXCEPT ![a].sent = own[a].cred.version]
  /\ \/ AddBlock(a, [Tip[a] EXCEPT !.cred = own[a].cred])
     \/ UNCHANGED chain
  /\ UNCHANGED <<wanted, slipped, made, shown, page>>

------------------------------------------------------------------------------
(* The trustees. *)

\* Bug: the darc is signed as it was when the contact was loaded.
SignedVersionLoaded(a, i) == chain[1][a].darc.version

\* The update has replaced the darc by what some node has.
SignedVersion(a, i) == chain[i][a].darc.version

\* recoverySignature, for the request the page shows: account, key of the page,
\* version of the darc.  Nothing asks whether t is a trustee of a.
recoverySignature(t, a, i) ==
  /\ made < MaxSignatures
  /\ made' = made + 1
  /\ shown' = {[acct |-> a, by |-> t, key |-> page.key, ver |-> SignedVersion(a, i)]}
  /\ UNCHANGED <<chain, own, wanted, slipped, page>>

------------------------------------------------------------------------------
(* The page with the new key. *)

\* recoveryStore: signatures of another account make way.  The text that is
\* scanned does not say which key or version was signed.
recoveryStore(s) ==
  /\ Len(page.sigs) < MaxSignatures
  /\ page' = [page EXCEPT !.sigs = IF @ # <<>> /\ @[1].acct # s.acct THEN <<s>> ELSE Append(@, s)]
  /\ UNCHANGED <<chain, own, wanted, slipped, made, shown>>

To(p) == page' = p /\ UNCHANGED <<own, wanted, slipped, made, shown>>

Rejects == [page EXCEPT !.phase = "idle", !.sent = <<>>]

\* recoverIdentity: the account of the first signature is read ...
recoverIdentity(a) ==
  /\ page.phase = "idle" /\ page.sigs # <<>> /\ page.sigs[1].acct = a
  /\ UNCHANGED chain
  /\ To([page EXCEPT !.phase = "user", !.sent = <<page.sigs[1]>>])

\* ... and becomes the contact of the page; all that is stored by then is sent.
GotUser ==
  /\ page.phase = "user"
  /\ UNCHANGED chain
  /\ To([page EXCEPT !.phase = "sent", !.contact = page.sent[1].acct, !.sent = page.sigs])

\* The ledger: enough trustees signed this account, key and version.  Whether it
\* minds signatures that do not count among them is left open.
Counts(s, a) ==
  /\ s.acct = a /\ s.key = page.key /\ s.ver = Tip[a].darc.version
  /\ s.by \in Members(Tip[a].cred.trustees)

Enough(a) ==
  Cardinality({s.by : s \in {r \in Members(page.sent) : Counts(r, a)}}) >= Tip[a].cred.threshold

Include(a) ==
  /\ Tip[a].cred.threshold > 0 /\ Enough(a)
  /\ AddBlock(a, [Tip[a] EXCEPT !.darc = [version |-> @.version + 1, keys |-> @.keys \cup {page.key}]])

\* Bug: the signatures are cleared whatever the answer was.
AfterAnswerClears(included) == [page EXCEPT !.phase = IF included THEN "darc" ELSE "idle", !.sigs = <<>>]

\* The signatures are cleared, the ones scanned since included, once the block
\* is there; a refusal rejects the call.
AfterAnswer(included) ==
  IF included THEN [page EXCEPT !.phase = "darc", !.sigs = <<>>] ELSE Rejects

\* The recovery is sent, and answered, or the answer gets lost.
Recovered(replied) ==
  /\ page.phase = "sent" /\ Include(page.contact)
  /\ To(IF replied THEN AfterAnswer(TRUE) ELSE Rejects)

Refused ==
  /\ page.phase = "sent"
  /\ UNCHANGED chain
  /\ To(AfterAnswer(FALSE))

\* The darc is read again and copied with its version; evolveDarcAndWait wants
\* the next one, so that the call rejects although the key is in the darc.
EvolveRejects ==
  /\ page.phase = "darc"
  /\ UNCHANGED chain
  /\ To(Rejects)

\* A read fails.
ReadFails ==
  /\ page.phase = "user"
  /\ UNCHANGED chain
  /\ To(Rejects)

\* The page is loaded again: with the key and the contact if they were saved,
\* and without signatures.
Reload(saved) ==
  /\ page.load < MaxLoads
  /\ UNCHANGED chain
  /\ To(IF saved THEN NewPage(page.load + 1, page.key, page.contact)
                ELSE NewPage(page.load + 1, page.load + 1, NoOne))

Next ==
  \/ \E a \in Accounts :
       \/ recoverIdentity(a)
       \/ \E t \in Trustees, i \in Seen : recoverySignature(t, a, i)
  \/ \E a \in Owned :
       \/ Evolve(a) \/ sendUpdate(a)
       \/ \E list \in Lists, threshold \in Thresholds : setTrustees(a, threshold, list)
       \/ \E t \in Trustees : addTrustee(a, t) \/ rmTrustee(a, t)
  \/ \E s \in shown : recoveryStore(s)
  \/ GotUser \/ Refused \/ EvolveRejects \/ ReadFails
  \/ \E b \in BOOLEAN : Recovered(b) \/ Reload(b)

Spec == Init /\ [][Next]_vars

------------------------------------------------------------------------------

\* The credential in the owner's page names the trustees the owner asked for,
\* each once, unless one was removed that is neither the first nor the last of the
\* list: rmTrustee then drops the last one instead.
TrusteesAreWanted ==
  \A a \in Owned :
    LET list == own[a].cred.trustees IN
    /\ Cardinality(Members(list)) = Len(list)
    /\ a \notin slipped => Members(list) = wanted[a]

\* No trustee signs a version older than the one that the node furthest behind
\* has at that time, however long ago the trustee's page loaded the contact.
SignatureIsFresh ==
  [][\A s \in shown' \ shown : \E i \in Seen : s.ver >= chain[i][s.acct].darc.version]_vars

\* The page loses signatures only when it is loaded again, when one for another
\* account comes in, or when the account it asks for has the key of the page: a
\* recovery that was refused, or whose answer was lost, can be tried again.
SignaturesKept ==
  [][\A s \in Members(page.sigs) \ Members(page'.sigs) :
       \/ page'.load # page.load
       \/ page'.sigs # <<>> /\ page'.sigs[1].acct # s.acct
       \/ page.phase = "sent" /\ page.key \in Tip'[page.contact].darc.keys]_vars

==============================================================================
