---------------------------- MODULE CredentialSync ----------------------------
(***************************************************************************)
(* One user's credential, between the browser and ByzCoin                  *)
(* (src/lib/Contact.ts, src/lib/Data.ts and credentials-instance.ts).      *)
(*                                                                         *)
(* A tab keeps the credential twice: `local' is Contact.credential, where  *)
(* setters write, `cached' is Contact.credentialInstance.credential, what  *)
(* the tab takes for the content of the ledger.  sendUpdate compares their *)
(* version numbers to decide whether there is anything to send, and other  *)
(* users compare version numbers to decide whether to take what they read. *)
(* Nothing prevents two calls of sendUpdate from overlapping, two tabs     *)
(* from sharing the user's key, or a tab from being closed at any time.    *)
(*                                                                         *)
(* A credential is the set of edits it contains with its version number.   *)
(* The ledger is external.  Of the counters of the user's key only the     *)
(* updates of the credential are kept: a transaction is computed from the  *)
(* number of blocks the answering node had, and is included only on top of *)
(* that block.  What the other transactions of the key would add, a        *)
(* refusal, is in Refuse.                                                  *)
(***************************************************************************)
EXTENDS Naturals, FiniteSets, Sequences

CONSTANTS
  Tabs,        \* the tabs that are logged in as the user
  MaxLoads,    \* bound: how often a page is loaded, in all tabs together
  MaxEdits,    \* bound: how many setters are called
  MaxSends     \* bound: how many calls of sendUpdate have something to send

ASSUME BoundsAssumption ==
  MaxLoads \in Nat /\ MaxEdits \in Nat /\ MaxSends \in Nat

Edits == 1 .. MaxEdits
Calls == 1 .. MaxSends

\* The attribute that save and publishPersonhood of Data set.
Personhood == 0

Credential == [edits : SUBSET (Edits \cup {Personhood}), version : Nat]

VARIABLES
  blocks,   \* the ledger: the credentials it held, the last one is current
  open,     \* open[t]: the tab is loaded and connected
  loads,    \* the number of page loads so far
  session,  \* session[t]: the load that tab t had last, 0 before the first
  local,    \* local[t]: Contact.credential
  cached,   \* cached[t]: Contact.credentialInstance.credential
  edited,   \* the number of edits so far
  call,     \* the calls of sendUpdate that had something to send, in order
  viewer    \* the copy of the credential that another user keeps

tabVars == <<open, loads, session, local, cached>>
vars == <<blocks, tabVars, edited, call, viewer>>

Phases == {"counting", "sent", "resolved", "rejected", "gone"}
Fates  == {"none", "pool", "included", "refused"}

\* load: the session the call belongs to; cred: the content to send;
\* base: the block it is computed from; overlaps: the calls of any tab that
\* had not settled when this one began.
Call == [load : Nat, cred : Credential, phase : Phases,
         base : Nat, fate : Fates, overlaps : SUBSET Calls]

\* by: the call that brought the credential, 0 for the initial one.
Block == [cred : Credential, by : Calls \cup {0}]

TypeOK ==
  /\ blocks \in Seq(Block) /\ blocks # <<>>
  /\ open \in [Tabs -> BOOLEAN]
  /\ loads \in 0 .. MaxLoads
  /\ session \in [Tabs -> 0 .. loads]
  /\ local \in [Tabs -> Credential]
  /\ cached \in [Tabs -> Credential]
  /\ edited \in 0 .. MaxEdits
  /\ call \in Seq(Call)
  /\ viewer \in Credential

Initial == [edits |-> {}, version |-> 0]

Init ==
  /\ blocks = <<[cred |-> Initial, by |-> 0]>>
  /\ open = [t \in Tabs |-> FALSE]
  /\ loads = 0
  /\ session = [t \in Tabs |-> 0]
  /\ local = [t \in Tabs |-> Initial]
  /\ cached = [t \in Tabs |-> Initial]
  /\ edited = 0
  /\ call = <<>>
  /\ viewer = Initial

------------------------------------------------------------------------------
(* A tab. *)

\* The page is loaded: connectBC takes both copies from the block of the node
\* that answers, whatever the browser had stored.
Load(t, h) ==
  /\ ~ open[t]
  /\ loads < MaxLoads
  /\ loads' = loads + 1
  /\ open' = [open EXCEPT ![t] = TRUE]
  /\ session' = [session EXCEPT ![t] = loads + 1]
  /\ local' = [local EXCEPT ![t] = blocks[h].cred]
  /\ cached' = [cached EXCEPT ![t] = blocks[h].cred]
  /\ UNCHANGED <<blocks, edited, call, viewer>>

\* A setter of Contact: the attribute is written and the version grows.
Edit(t) ==
  /\ open[t]
  /\ edited < MaxEdits
  /\ edited' = edited + 1
  /\ local' = [local EXCEPT ![t] = [edits |-> @.edits \cup {edited + 1},
                                    version |-> @.version + 1]]
  /\ UNCHANGED <<blocks, open, loads, session, cached, call, viewer>>

Unsettled == {n \in DOMAIN call : call[n].phase \in {"counting", "sent"}}

\* Bug: sent again without a new version.
NewVersionOrSame(t) == local[t].version >= cached[t].version

NewVersion(t) == local[t].version > cached[t].version

\* sendUpdate, when it is called by save or publishPersonhood for a user who
\* publishes the personhood: they write that attribute without a new version.
\* If the version is new the cache takes the credential at once, and then the
\* counters are asked for.
SendUpdate(t, publish) ==
  LET cred == IF publish THEN [local[t] EXCEPT !.edits = @ \cup {Personhood}]
                         ELSE local[t]
  IN
  /\ open[t]
  /\ local' = [local EXCEPT ![t] = cred]
  /\ \/ /\ NewVersion(t)
        /\ Len(call) < MaxSends
        /\ cached' = [cached EXCEPT ![t] = cred]
        /\ call' = Append(call,
             [load |-> session[t], cred |-> cred, phase |-> "counting",
              base |-> 0, fate |-> "none", overlaps |-> Unsettled])
     \/ /\ ~ NewVersion(t)
        /\ UNCHANGED <<cached, call>>
  /\ UNCHANGED <<blocks, open, loads, session, edited, viewer>>

\* The counters arrive from a node that has h blocks.
FillSignAndSend(n, h) ==
  /\ call[n].phase = "counting"
  /\ call' = [call EXCEPT ![n].phase = "sent", ![n].base = h, ![n].fate = "pool"]
  /\ UNCHANGED <<blocks, tabVars, edited, viewer>>

CountersFail(n) ==
  /\ call[n].phase = "counting"
  /\ call' = [call EXCEPT ![n].phase = "rejected"]
  /\ UNCHANGED <<blocks, tabVars, edited, viewer>>

\* Bug: the error of the reply is not looked at.
ResolveAnyReply(n) ==
  /\ call[n].phase = "sent"
  /\ call[n].fate \in {"included", "refused"}
  /\ call' = [call EXCEPT ![n].phase = "resolved"]
  /\ UNCHANGED <<blocks, tabVars, edited, viewer>>

Resolve(n) ==
  /\ call[n].phase = "sent"
  /\ call[n].fate = "included"
  /\ call' = [call EXCEPT ![n].phase = "resolved"]
  /\ UNCHANGED <<blocks, tabVars, edited, viewer>>

\* Refused, or nothing heard in time: the transaction may still be on its way.
Reject(n) ==
  /\ call[n].phase = "sent"
  /\ call' = [call EXCEPT ![n].phase = "rejected"]
  /\ UNCHANGED <<blocks, tabVars, edited, viewer>>

\* The tab is closed or reloaded; what it sent stays on its way.
Close(t) ==
  /\ open[t]
  /\ open' = [open EXCEPT ![t] = FALSE]
  /\ call' = [n \in DOMAIN call |->
       IF n \in Unsettled /\ call[n].load = session[t] THEN [call[n] EXCEPT !.phase = "gone"]
                                             ELSE call[n]]
  /\ UNCHANGED <<blocks, loads, session, local, cached, edited, viewer>>

------------------------------------------------------------------------------
(* Another user's copy of the credential. *)

\* Bug: the other user keeps what comes with the credential as well.
ViewerUpdateWhole(h) ==
  /\ blocks[h].cred.version > viewer.version
  /\ viewer' = blocks[h]
  /\ UNCHANGED <<blocks, tabVars, edited, call>>

\* Contact.update: only a higher version is taken.
ViewerUpdate(h) ==
  /\ blocks[h].cred.version > viewer.version
  /\ viewer' = blocks[h].cred
  /\ UNCHANGED <<blocks, tabVars, edited, call>>

\* The other user's page is loaded: connectBC takes what it reads.
ViewerLoad(h) ==
  /\ viewer # blocks[h].cred
  /\ viewer' = blocks[h].cred
  /\ UNCHANGED <<blocks, tabVars, edited, call>>

------------------------------------------------------------------------------
(* The ledger (external). *)

\* Bug: the counter of the signer is not checked.
IncludeAnyCounter(n) ==
  /\ call[n].fate = "pool"
  /\ call[n].base <= Len(blocks)
  /\ blocks' = Append(blocks, [cred |-> call[n].cred, by |-> n])
  /\ call' = [call EXCEPT ![n].fate = "included"]
  /\ UNCHANGED <<tabVars, edited, viewer>>

Include(n) ==
  /\ call[n].fate = "pool"
  /\ call[n].base = Len(blocks)
  /\ blocks' = Append(blocks, [cred |-> call[n].cred, by |-> n])
  /\ call' = [call EXCEPT ![n].fate = "included"]
  /\ UNCHANGED <<tabVars, edited, viewer>>

Refuse(n) ==
  /\ call[n].fate = "pool"
  /\ call' = [call EXCEPT ![n].fate = "refused"]
  /\ UNCHANGED <<blocks, tabVars, edited, viewer>>

Next ==
  \/ \E t \in Tabs :
       \/ \E h \in 1 .. Len(blocks) : Load(t, h)
       \/ Edit(t)
       \/ \E publish \in BOOLEAN : SendUpdate(t, publish)
       \/ Close(t)
  \/ \E n \in DOMAIN call :
       \/ \E h \in 1 .. Len(blocks) : FillSignAndSend(n, h)
       \/ CountersFail(n)
       \/ Resolve(n)
       \/ Reject(n)
       \/ Include(n)
       \/ Refuse(n)
  \/ \E h \in 1 .. Len(blocks) : ViewerUpdate(h) \/ ViewerLoad(h)

Spec == Init /\ [][Next]_vars

------------------------------------------------------------------------------
(* What version numbers and counters achieve together. *)

SameSession(m, n) == call[m].load = call[n].load

\* Two calls of one session that were under way at the same time.
Overlap(m, n) == m \in call[n].overlaps \/ n \in call[m].overlaps

\* One session never takes the credential back: what a later block holds of a
\* session contains what its earlier blocks held, with a higher version,
\* unless the two calls overlapped.  A transaction whose reply was lost is no
\* exception.
SessionMovesForward ==
  \A i, j \in 2 .. Len(blocks) :
    /\ i < j
    /\ SameSession(blocks[i].by, blocks[j].by)
    /\ ~ Overlap(blocks[i].by, blocks[j].by)
    => /\ blocks[i].cred.version < blocks[j].cred.version
       /\ blocks[i].cred.edits \subseteq blocks[j].cred.edits

\* Within a session a version number names one content of the ledger, although
\* the personhood attribute changes the content without changing the version.
VersionNamesContent ==
  \A i, j \in 2 .. Len(blocks) :
    /\ SameSession(blocks[i].by, blocks[j].by)
    /\ blocks[i].cred.version = blocks[j].cred.version
    => blocks[i].cred = blocks[j].cred

\* What an open tab takes for the content of the ledger was in the ledger, or
\* belongs to a call of the session that has not resolved.
CacheIsLedgerOrUnresolved ==
  \A t \in Tabs : open[t] =>
    \/ \E i \in 1 .. Len(blocks) : blocks[i].cred = cached[t]
    \/ \E n \in DOMAIN call : /\ call[n].load = session[t]
                              /\ call[n].cred = cached[t]
                              /\ call[n].phase # "resolved"

\* Another user misses the current content for good, having a version that is
\* not lower, only if that version came from another session or from a call
\* that overlapped the one that brought the current content.
ViewerStuckNeedsConflict ==
  LET last == blocks[Len(blocks)] IN
    viewer # last.cred /\ viewer.version >= last.cred.version =>
      \E i \in 2 .. Len(blocks) - 1 :
        /\ blocks[i].cred = viewer
        /\ ~ SameSession(blocks[i].by, last.by) \/ Overlap(blocks[i].by, last.by)

\* What the comment of sendUpdate says, "sends the current state of the
\* Credentials to ByzCoin": once a tab has nothing to send and nothing of it is
\* under way, the ledger has had the values that its setters wrote.
SendUpdateSendsEdits ==
  \A t \in Tabs :
    /\ open[t] /\ local[t].version <= cached[t].version
    /\ \A n \in DOMAIN call : call[n].load = session[t] => /\ n \notin Unsettled
                                           /\ call[n].fate # "pool"
    => \E i \in 1 .. Len(blocks) :
         local[t].edits \ {Personhood} \subseteq blocks[i].cred.edits

==============================================================================
