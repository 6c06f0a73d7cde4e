------------------------- MODULE CredentialSyncProofs -------------------------
(***************************************************************************)
(* What holds of CredentialSync for any tabs and bounds.                   *)
(*                                                                         *)
(* The argument has two halves.  In the browser, sendUpdate sends only a   *)
(* version above the cached one and caches it at once, so the calls of one *)
(* session carry growing contents (CallOrder).  At the ledger, a           *)
(* transaction is included only on top of the block its counters were read *)
(* from: a call that had settled before another one began can no longer be *)
(* included once that other one is (Overtaken), so calls of a session that *)
(* do not overlap are included in the order they began (BlockOrder).       *)
(***************************************************************************)
EXTENDS CredentialSync, TLAPS

\* A block after the first one was brought by a call, each call by one block.
Ledger ==
  /\ blocks[1].cred = Initial
  /\ \A i \in 2 .. Len(blocks) :
       /\ blocks[i].by \in DOMAIN call
       /\ blocks[i].cred = call[blocks[i].by].cred
       /\ call[blocks[i].by].fate = "included"
  /\ \A i, j \in 2 .. Len(blocks) : blocks[i].by = blocks[j].by => i = j
  /\ \A n \in DOMAIN call :
       call[n].fate = "included" => \E i \in 2 .. Len(blocks) : blocks[i].by = n

\* A session is of one tab, and an open tab has cached all that it sent.
Sessions ==
  /\ \A t, u \in Tabs : open[t] /\ open[u] /\ session[t] = session[u] => t = u
  /\ \A n \in DOMAIN call : call[n].load <= loads
  /\ \A t \in Tabs : open[t] =>
       /\ cached[t].version <= local[t].version
       /\ cached[t].edits \subseteq local[t].edits
       /\ \A n \in DOMAIN call : call[n].load = session[t] =>
            /\ call[n].cred.version <= cached[t].version
            /\ call[n].cred.edits \subseteq cached[t].edits

\* The calls of a session carry growing contents.
CallOrder ==
  /\ Len(call) <= MaxSends
  /\ \A n \in DOMAIN call : call[n].cred.version > 0
  /\ \A m, n \in DOMAIN call : m < n /\ SameSession(m, n) =>
       /\ call[m].cred.version < call[n].cred.version
       /\ call[m].cred.edits \subseteq call[n].cred.edits

\* How far a call got, and that a settled call stays settled.
Progress ==
  /\ \A n \in DOMAIN call :
       /\ call[n].phase = "counting" => call[n].fate = "none"
       /\ call[n].phase = "resolved" => call[n].fate = "included"
       /\ call[n].fate = "pool" => call[n].base <= Len(blocks)
  /\ \A m, n \in DOMAIN call :
       m < n /\ m \notin call[n].overlaps => m \notin Unsettled

\* A call in the pool that had settled before an included one began has the
\* counters of a block that is no longer the last one.
Overtaken ==
  \A i \in 2 .. Len(blocks) : \A m \in DOMAIN call :
    /\ m < blocks[i].by
    /\ m \notin call[blocks[i].by].overlaps
    /\ call[m].fate = "pool"
    => call[m].base < Len(blocks)

\* Only calls that overlap are included in another order than they began.
BlockOrder ==
  \A i, j \in 2 .. Len(blocks) :
    i < j /\ blocks[j].by < blocks[i].by => blocks[j].by \in call[blocks[i].by].overlaps

\* Another user keeps what some block held.
ViewerFromLedger == \E i \in 1 .. Len(blocks) : blocks[i].cred = viewer

IInv ==
  /\ TypeOK
  /\ Ledger
  /\ Sessions
  /\ CallOrder
  /\ Progress
  /\ Overtaken
  /\ BlockOrder
  /\ ViewerFromLedger
  /\ CacheIsLedgerOrUnresolved

------------------------------------------------------------------------------
(* Facts about the calls. *)

\* What the fields of a call are, and where it is in the sequence.
LEMMA CallFields ==
  ASSUME TypeOK, NEW n \in DOMAIN call
  PROVE  /\ n \in 1 .. Len(call)
         /\ call[n] \in Call
         /\ call[n].load \in Nat
         /\ call[n].cred \in Credential
         /\ call[n].cred.version \in Nat
         /\ call[n].base \in Nat
<1>1. call \in Seq(Call)
  BY DEF TypeOK
<1>2. n \in 1 .. Len(call) /\ call[n] \in Call
  BY <1>1
<1>3. QED BY <1>2 DEF Call, Credential

\* The content of a block.
LEMMA BlockFields ==
  ASSUME TypeOK, NEW i \in 1 .. Len(blocks)
  PROVE  blocks[i] \in Block /\ blocks[i].cred \in Credential
<1>1. blocks \in Seq(Block)
  BY DEF TypeOK
<1>2. blocks[i] \in Block
  BY <1>1
<1>3. QED BY <1>2 DEF Block

\* What is fixed when a call begins stays as it is.
CallsKept ==
  /\ call' \in Seq(Call)
  /\ Len(call') = Len(call)
  /\ DOMAIN call' = DOMAIN call
  /\ \A m \in DOMAIN call :
       /\ call'[m].load = call[m].load
       /\ call'[m].cred = call[m].cred
       /\ call'[m].overlaps = call[m].overlaps

\* Changing what became of a call leaves the rest of the sequence as it was.
LEMMA UpdateKeepsCalls ==
  ASSUME TypeOK, NEW n \in DOMAIN call, NEW c \in Call,
         c.load = call[n].load, c.cred = call[n].cred, c.overlaps = call[n].overlaps,
         call' = [call EXCEPT ![n] = c]
  PROVE  /\ CallsKept
         /\ \A m \in DOMAIN call : call'[m] = IF m = n THEN c ELSE call[m]
<1>1. call \in Seq(Call) /\ n \in 1 .. Len(call)
  BY CallFields DEF TypeOK
<1>2. call' \in Seq(Call) /\ Len(call') = Len(call) /\ DOMAIN call' = DOMAIN call
  BY <1>1
<1>3. \A m \in DOMAIN call : call'[m] = IF m = n THEN c ELSE call[m]
  BY <1>1
<1>4. QED BY <1>2, <1>3 DEF CallsKept

\* A step of one call, or the closing of a tab, which includes nothing.
CallStep ==
  /\ CallsKept
  /\ \A m \in DOMAIN call :
       /\ call'[m].fate = "included" <=> call[m].fate = "included"
       /\ m \in Unsettled' => m \in Unsettled
       /\ call'[m].phase = "counting" => call'[m].fate = "none"
       /\ call'[m].phase = "resolved" => call'[m].fate = "included"
       /\ call'[m].fate = "pool" =>
            /\ call'[m].base <= Len(blocks)
            /\ m \in Unsettled \/ (call[m].fate = "pool" /\ call'[m].base = call[m].base)

\* The counters arrive: the call is in the pool with the base it was given.
LEMMA FillIsCallStep ==
  ASSUME IInv, NEW n \in DOMAIN call, NEW h \in 1 .. Len(blocks), FillSignAndSend(n, h)
  PROVE  CallStep
<1> DEFINE c == [[[call[n] EXCEPT !.phase = "sent"] EXCEPT !.base = h] EXCEPT !.fate = "pool"]
<1>1. call[n] \in Call /\ h \in Nat
  BY CallFields DEF IInv
<1>2. c \in Call
  BY <1>1 DEF Call, Phases, Fates
<1>3. /\ c.load = call[n].load /\ c.cred = call[n].cred /\ c.overlaps = call[n].overlaps
      /\ c.phase = "sent" /\ c.base = h /\ c.fate = "pool"
  BY <1>1 DEF Call
<1>4. call' = [call EXCEPT ![n] = c] /\ call[n].phase = "counting"
  BY DEF FillSignAndSend
<1>5. call[n].fate = "none" /\ n \in Unsettled
  BY <1>4 DEF IInv, Progress, Unsettled
<1> HIDE DEF c
<1>6. CallsKept /\ \A m \in DOMAIN call : call'[m] = IF m = n THEN c ELSE call[m]
  BY <1>2, <1>3, <1>4, UpdateKeepsCalls DEF IInv
<1>7. QED BY <1>3, <1>4, <1>5, <1>6 DEF CallStep, IInv, Progress, Unsettled, CallsKept

\* The caller hears of the outcome, right or wrong.
LEMMA SettlingIsCallStep ==
  ASSUME IInv, NEW n \in DOMAIN call, NEW p \in {"resolved", "rejected"},
         p = "resolved" => call[n].fate = "included",
         call' = [call EXCEPT ![n].phase = p]
  PROVE  CallStep
<1> DEFINE c == [call[n] EXCEPT !.phase = p]
<1>1. call[n] \in Call
  BY CallFields DEF IInv
<1>2. c \in Call
  BY <1>1 DEF Call, Phases
<1>3. /\ c.load = call[n].load /\ c.cred = call[n].cred /\ c.overlaps = call[n].overlaps
      /\ c.phase = p /\ c.base = call[n].base /\ c.fate = call[n].fate
  BY <1>1 DEF Call
<1>4. call' = [call EXCEPT ![n] = c]
  OBVIOUS
<1> HIDE DEF c
<1>5. CallsKept /\ \A m \in DOMAIN call : call'[m] = IF m = n THEN c ELSE call[m]
  BY <1>2, <1>3, <1>4, UpdateKeepsCalls DEF IInv
<1>6. QED BY <1>3, <1>5 DEF CallStep, IInv, Progress, Unsettled, CallsKept

\* The ledger decides about a transaction: only its fate changes.
LEMMA FateKeepsCalls ==
  ASSUME TypeOK, NEW n \in DOMAIN call, NEW f \in {"included", "refused"},
         call' = [call EXCEPT ![n].fate = f]
  PROVE  /\ CallsKept
         /\ \A m \in DOMAIN call :
              /\ call'[m].fate = IF m = n THEN f ELSE call[m].fate
              /\ call'[m].phase = call[m].phase
              /\ call'[m].base = call[m].base
<1> DEFINE c == [call[n] EXCEPT !.fate = f]
<1>1. call[n] \in Call
  BY CallFields
<1>2. c \in Call
  BY <1>1 DEF Call, Fates
<1>3. /\ c.load = call[n].load /\ c.cred = call[n].cred /\ c.overlaps = call[n].overlaps
      /\ c.phase = call[n].phase /\ c.base = call[n].base /\ c.fate = f
  BY <1>1 DEF Call
<1>4. call' = [call EXCEPT ![n] = c]
  OBVIOUS
<1> HIDE DEF c
<1>5. CallsKept /\ \A m \in DOMAIN call : call'[m] = IF m = n THEN c ELSE call[m]
  BY <1>2, <1>3, <1>4, UpdateKeepsCalls
<1>6. QED BY <1>3, <1>5

\* The tab is closed: its unsettled calls are gone for the tab.
LEMMA CloseIsCallStep ==
  ASSUME IInv, NEW t \in Tabs, Close(t)
  PROVE  CallStep /\ \A m \in DOMAIN call : call'[m].phase \in {call[m].phase, "gone"}
<1> DEFINE G(m) == [call[m] EXCEPT !.phase = "gone"]
           gone(m) == m \in Unsettled /\ call[m].load = session[t]
<1>1. call \in Seq(Call)
  BY DEF IInv, TypeOK
<1>2. ASSUME NEW m \in DOMAIN call
      PROVE  /\ G(m) \in Call
             /\ G(m).load = call[m].load /\ G(m).cred = call[m].cred
             /\ G(m).overlaps = call[m].overlaps /\ G(m).phase = "gone"
             /\ G(m).base = call[m].base /\ G(m).fate = call[m].fate
             /\ call[m] \in Call
  <2>1. call[m] \in Call
    BY CallFields DEF IInv
  <2>2. QED BY <2>1 DEF Call, Phases
<1>3. call' = [m \in DOMAIN call |-> IF gone(m) THEN G(m) ELSE call[m]]
  BY DEF Close
<1> HIDE DEF G, gone
<1>4. \A m \in DOMAIN call : call'[m] = IF gone(m) THEN G(m) ELSE call[m]
  BY <1>3
<1>5. call' \in Seq(Call) /\ Len(call') = Len(call) /\ DOMAIN call' = DOMAIN call
  <2>1. DOMAIN call = 1 .. Len(call) /\ Len(call) \in Nat
    BY <1>1
  <2>2. call' \in [1 .. Len(call) -> Call]
    BY <1>2, <1>3, <2>1
  <2>3. QED BY <2>1, <2>2
<1>6. CallsKept
  BY <1>2, <1>4, <1>5 DEF CallsKept
<1>7. QED BY <1>2, <1>4, <1>6 DEF CallStep, IInv, Progress, Unsettled, CallsKept

------------------------------------------------------------------------------
(* What the steps keep, one part of the invariant after the other. *)

\* A step of the calls brings no block, so what is said of the ledger stays.
LEMMA CallStepKeepsLedger ==
  ASSUME IInv, CallStep, UNCHANGED blocks
  PROVE  Ledger' /\ CallOrder' /\ Progress' /\ Overtaken' /\ BlockOrder'
<1> USE DEF IInv, CallStep, CallsKept
<1>1. Ledger'
  BY DEF Ledger
<1>2. CallOrder'
  BY DEF CallOrder, SameSession
<1>3. Progress'
  BY DEF Progress
<1>4. Overtaken'
  BY DEF Overtaken, Progress, Ledger
<1>5. BlockOrder'
  BY DEF BlockOrder, Ledger
<1>6. QED BY <1>1, <1>2, <1>3, <1>4, <1>5

\* A transaction is included: the block it is in becomes the last one, and
\* whatever settled before it began stays out for good.
LEMMA IncludeKeepsLedger ==
  ASSUME IInv, NEW n \in DOMAIN call, Include(n)
  PROVE  /\ blocks' \in Seq(Block) /\ Len(blocks') = Len(blocks) + 1
         /\ Ledger' /\ CallOrder' /\ Progress' /\ Overtaken' /\ BlockOrder'
<1> DEFINE new == [cred |-> call[n].cred, by |-> n]
           last == Len(blocks) + 1
<1>1. /\ blocks \in Seq(Block) /\ Len(blocks) \in Nat /\ Len(blocks) >= 1
      /\ n \in Calls /\ n \in Nat /\ call[n].cred \in Credential
      /\ call \in Seq(Call) /\ DOMAIN call = 1 .. Len(call)
  BY CallFields, BoundsAssumption DEF IInv, TypeOK, CallOrder, Calls
<1>2. new \in Block
  BY <1>1 DEF Block
<1>3. /\ blocks' \in Seq(Block) /\ Len(blocks') = last
      /\ blocks'[last] = new
      /\ \A i \in 1 .. Len(blocks) : blocks'[i] = blocks[i]
  BY <1>1, <1>2 DEF Include
<1>4. /\ CallsKept
      /\ \A m \in DOMAIN call :
           /\ call'[m].fate = IF m = n THEN "included" ELSE call[m].fate
           /\ call'[m].phase = call[m].phase
           /\ call'[m].base = call[m].base
  BY FateKeepsCalls DEF IInv, Include
<1>4a. /\ DOMAIN call' = DOMAIN call
       /\ \A m \in DOMAIN call : /\ call'[m].cred = call[m].cred
                                 /\ call'[m].overlaps = call[m].overlaps
  BY <1>4 DEF CallsKept
<1>5. call[n].fate = "pool" /\ call[n].base = Len(blocks)
  BY DEF Include
<1>6. new.by = n /\ new.cred = call[n].cred
  OBVIOUS
<1>7. \A i \in 2 .. Len(blocks') : i = last \/ i \in 2 .. Len(blocks)
  BY <1>1, <1>3
<1> HIDE DEF new
<1>8. Ledger'
  <2>1. blocks'[1].cred = Initial
    BY <1>1, <1>3 DEF IInv, Ledger
  <2>2. ASSUME NEW i \in 2 .. Len(blocks')
        PROVE  /\ blocks'[i].by \in DOMAIN call'
               /\ blocks'[i].cred = call'[blocks'[i].by].cred
               /\ call'[blocks'[i].by].fate = "included"
    <3>1. CASE i = last
      BY <1>3, <1>4, <1>4a, <1>6, <3>1
    <3>2. CASE i \in 2 .. Len(blocks)
      <4>1. blocks'[i] = blocks[i]
        BY <1>1, <1>3, <3>2
      <4>2. /\ blocks[i].by \in DOMAIN call
            /\ blocks[i].cred = call[blocks[i].by].cred
            /\ call[blocks[i].by].fate = "included"
        BY <3>2 DEF IInv, Ledger
      <4>3. QED BY <1>4, <1>4a, <4>1, <4>2
    <3>3. QED BY <1>7, <3>1, <3>2
  <2>3. \A i \in 2 .. Len(blocks) : blocks[i].by # n
    BY <1>5 DEF IInv, Ledger
  <2>4. \A i, j \in 2 .. Len(blocks') : blocks'[i].by = blocks'[j].by => i = j
    BY <1>1, <1>3, <1>6, <1>7, <2>3 DEF IInv, Ledger
  <2>5. \A m \in DOMAIN call' :
          call'[m].fate = "included" => \E i \in 2 .. Len(blocks') : blocks'[i].by = m
    <3>1. last \in 2 .. Len(blocks') /\ blocks'[last].by = n
      BY <1>1, <1>3, <1>6
    <3>2. \A i \in 2 .. Len(blocks) : i \in 2 .. Len(blocks') /\ blocks'[i] = blocks[i]
      BY <1>1, <1>3
    <3>3. ASSUME NEW m \in DOMAIN call, m # n, call[m].fate = "included"
          PROVE \E i \in 2 .. Len(blocks') : blocks'[i].by = m
      <4>1. PICK i \in 2 .. Len(blocks) : blocks[i].by = m
        BY <3>3 DEF IInv, Ledger
      <4>2. QED BY <3>2, <4>1
    <3>4. QED BY <1>4, <1>4a, <3>1, <3>3
  <2>6. QED BY <2>1, <2>2, <2>4, <2>5 DEF Ledger
<1>9. CallOrder'
  BY <1>4 DEF IInv, CallOrder, SameSession, CallsKept
<1>10. Progress'
  <2>1. ASSUME NEW m \in DOMAIN call, call[m].fate = "pool"
        PROVE call[m].base <= Len(blocks')
    BY <1>1, <1>3, <2>1, CallFields DEF IInv, Progress
  <2>2. ASSUME NEW m \in DOMAIN call
        PROVE  /\ call'[m].phase = "counting" => call'[m].fate = "none"
               /\ call'[m].phase = "resolved" => call'[m].fate = "included"
               /\ call'[m].fate = "pool" => call'[m].base <= Len(blocks')
               /\ m \in Unsettled' <=> m \in Unsettled
    BY <1>4, <1>4a, <1>5, <2>1 DEF IInv, Progress, Unsettled
  <2>3. QED BY <1>4a, <2>2 DEF IInv, Progress
<1>11. Overtaken'
  <2>1. ASSUME NEW m \in DOMAIN call, call[m].fate = "pool"
        PROVE call[m].base < Len(blocks')
    BY <1>1, <1>3, <2>1, CallFields DEF IInv, Progress
  <2>2. QED BY <1>4, <2>1 DEF Overtaken, CallsKept
<1>12. BlockOrder'
  <2>1. SUFFICES ASSUME NEW i \in 2 .. Len(blocks'), NEW j \in 2 .. Len(blocks'),
                        i < j, blocks'[j].by < blocks'[i].by
                 PROVE  blocks'[j].by \in call'[blocks'[i].by].overlaps
    BY DEF BlockOrder
  <2>2. i \in 2 .. Len(blocks) /\ blocks'[i] = blocks[i] /\ blocks[i].by \in DOMAIN call
    BY <1>1, <1>3, <2>1 DEF IInv, Ledger
  <2>3. CASE j = last
    <3>1. n < blocks[i].by /\ ~ call[n].base < Len(blocks)
      BY <1>1, <1>3, <1>5, <1>6, <2>1, <2>2, <2>3
    <3>2. n \in call[blocks[i].by].overlaps
      BY <1>5, <2>2, <3>1 DEF IInv, Overtaken
    <3>3. QED BY <1>3, <1>4, <1>6, <2>2, <2>3, <3>2 DEF CallsKept
  <2>4. CASE j \in 2 .. Len(blocks)
    <3>1. blocks'[j] = blocks[j]
      BY <1>1, <1>3, <2>4
    <3>2. blocks[j].by \in call[blocks[i].by].overlaps
      BY <2>1, <2>2, <2>4, <3>1 DEF IInv, BlockOrder
    <3>3. QED BY <1>4a, <2>2, <3>1, <3>2
  <2>5. QED BY <1>7, <2>3, <2>4
<1>13. QED BY <1>3, <1>8, <1>9, <1>10, <1>11, <1>12

\* The ledger only grows.
LedgerGrows ==
  \A i \in 1 .. Len(blocks) : i \in 1 .. Len(blocks') /\ blocks'[i] = blocks[i]

\* Whatever happens to a call, a tab that stays open keeps what it knew: a
\* cached content that is no longer of an unresolved call is in the ledger.
LEMMA TabsAreLeftAlone ==
  ASSUME IInv, CallsKept, LedgerGrows, Ledger', Progress',
         \A t \in Tabs : open'[t] => open[t],
         UNCHANGED <<loads, session, local, cached, viewer>>
  PROVE  Sessions' /\ CacheIsLedgerOrUnresolved' /\ ViewerFromLedger'
<1>1. Sessions'
  BY DEF IInv, Sessions, CallsKept
<1>2. CacheIsLedgerOrUnresolved'
  <2>1. SUFFICES ASSUME NEW t \in Tabs, open[t]
                 PROVE \/ \E i \in 1 .. Len(blocks') : blocks'[i].cred = cached[t]
                       \/ \E n \in DOMAIN call' : /\ call'[n].load = session[t]
                                                  /\ call'[n].cred = cached[t]
                                                  /\ call'[n].phase # "resolved"
    BY DEF CacheIsLedgerOrUnresolved
  <2>2. CASE \E i \in 1 .. Len(blocks) : blocks[i].cred = cached[t]
    BY <2>2 DEF LedgerGrows
  <2>3. ASSUME NEW n \in DOMAIN call, call[n].load = session[t], call[n].cred = cached[t],
               call'[n].phase = "resolved"
        PROVE \E i \in 1 .. Len(blocks') : blocks'[i].cred = cached[t]
    <3>1. n \in DOMAIN call' /\ call'[n].cred = cached[t]
      BY <2>3 DEF CallsKept
    <3>2. PICK i \in 2 .. Len(blocks') : blocks'[i].by = n
      BY <2>3, <3>1 DEF Progress, Ledger
    <3>3. blocks'[i].cred = cached[t]
      BY <3>1, <3>2 DEF Ledger
    <3>4. i \in 1 .. Len(blocks')
      OBVIOUS
    <3>5. QED BY <3>3, <3>4
  <2>4. ASSUME NEW n \in DOMAIN call, call[n].load = session[t], call[n].cred = cached[t],
               call'[n].phase # "resolved"
        PROVE \E m \in DOMAIN call' : /\ call'[m].load = session[t]
                                      /\ call'[m].cred = cached[t]
                                      /\ call'[m].phase # "resolved"
    BY <2>4 DEF CallsKept
  <2>5. QED BY <2>1, <2>2, <2>3, <2>4 DEF IInv, CacheIsLedgerOrUnresolved
<1>3. ViewerFromLedger'
  BY DEF IInv, ViewerFromLedger, LedgerGrows
<1>4. QED BY <1>1, <1>2, <1>3

\* The steps of a call that only change what became of it.
LEMMA CallStepsKeep ==
  ASSUME IInv, CallStep, UNCHANGED <<blocks, loads, session, local, cached, edited, viewer>>,
         \A t \in Tabs : open'[t] => open[t], open' \in [Tabs -> BOOLEAN]
  PROVE  IInv'
<1>1. Ledger' /\ CallOrder' /\ Progress' /\ Overtaken' /\ BlockOrder'
  BY CallStepKeepsLedger
<1>2. LedgerGrows
  BY DEF LedgerGrows
<1>3. Sessions' /\ CacheIsLedgerOrUnresolved' /\ ViewerFromLedger'
  BY <1>1, <1>2, TabsAreLeftAlone DEF CallStep
<1>4. TypeOK'
  BY DEF IInv, TypeOK, CallStep, CallsKept
<1>5. QED BY <1>1, <1>3, <1>4 DEF IInv

\* A block is added: nothing in the browsers changes.
LEMMA IncludeKeeps ==
  ASSUME IInv, NEW n \in DOMAIN call, Include(n)
  PROVE  IInv'
<1>1. /\ blocks' \in Seq(Block) /\ Len(blocks') = Len(blocks) + 1
      /\ Ledger' /\ CallOrder' /\ Progress' /\ Overtaken' /\ BlockOrder'
  BY IncludeKeepsLedger
<1>2. blocks \in Seq(Block) /\ blocks' # <<>>
  BY <1>1 DEF IInv, TypeOK
<1>3. LedgerGrows
  BY <1>1, <1>2 DEF LedgerGrows, Include
<1>4. CallsKept
  BY FateKeepsCalls DEF IInv, Include
<1>5. Sessions' /\ CacheIsLedgerOrUnresolved' /\ ViewerFromLedger'
  BY <1>1, <1>3, <1>4, TabsAreLeftAlone DEF Include, tabVars
<1>6. TypeOK'
  BY <1>1, <1>2, <1>4 DEF IInv, TypeOK, CallsKept, Include, tabVars
<1>7. QED BY <1>1, <1>5, <1>6 DEF IInv

\* The steps of calls that are under way.
LEMMA CallsKeep ==
  ASSUME IInv, NEW n \in DOMAIN call,
         \/ \E h \in 1 .. Len(blocks) : FillSignAndSend(n, h)
         \/ CountersFail(n) \/ Resolve(n) \/ Reject(n) \/ Include(n) \/ Refuse(n)
  PROVE  IInv'
<1>1. ASSUME NEW h \in 1 .. Len(blocks), FillSignAndSend(n, h) PROVE IInv'
  <2>1. UNCHANGED <<blocks, tabVars, edited, viewer>>
    BY <1>1 DEF FillSignAndSend
  <2>2. QED BY <1>1, <2>1, FillIsCallStep, CallStepsKeep DEF tabVars, IInv, TypeOK
<1>2. CASE CountersFail(n) \/ Resolve(n) \/ Reject(n)
  <2>1. UNCHANGED <<blocks, tabVars, edited, viewer>>
    BY <1>2 DEF CountersFail, Resolve, Reject
  <2>2. CallStep
    BY <1>2, SettlingIsCallStep DEF CountersFail, Resolve, Reject
  <2>3. QED BY <2>1, <2>2, CallStepsKeep DEF tabVars, IInv, TypeOK
<1>3. CASE Include(n)
  BY <1>3, IncludeKeeps
<1>4. CASE Refuse(n)
  <2>1. UNCHANGED <<blocks, tabVars, edited, viewer>> /\ call[n].fate = "pool"
    BY <1>4 DEF Refuse
  <2>2. /\ CallsKept
        /\ \A m \in DOMAIN call :
             /\ call'[m].fate = IF m = n THEN "refused" ELSE call[m].fate
             /\ call'[m].phase = call[m].phase
             /\ call'[m].base = call[m].base
    BY <1>4, FateKeepsCalls DEF Refuse, IInv
  <2>3. CallStep
    BY <2>1, <2>2 DEF CallStep, IInv, Progress, Unsettled, CallsKept
  <2>4. QED BY <2>1, <2>3, CallStepsKeep DEF tabVars, IInv, TypeOK
<1>5. QED BY <1>1, <1>2, <1>3, <1>4

\* A step that touches neither the calls nor the ledger.
LEMMA NoCallKeepsLedger ==
  ASSUME IInv, UNCHANGED <<blocks, call>>
  PROVE  Ledger' /\ CallOrder' /\ Progress' /\ Overtaken' /\ BlockOrder'
BY DEF IInv, Ledger, CallOrder, SameSession, Progress, Unsettled, Overtaken, BlockOrder

\* A page is loaded: its session is new, so no call and no open tab has it.
LEMMA LoadKeeps ==
  ASSUME IInv, NEW t \in Tabs, NEW h \in 1 .. Len(blocks), Load(t, h)
  PROVE  IInv'
<1>1. blocks[h].cred \in Credential
  BY BlockFields DEF IInv
<1>2. loads \in Nat /\ \A u \in Tabs : session[u] <= loads
  BY BoundsAssumption DEF IInv, TypeOK
<1>3. TypeOK'
  BY <1>1, BoundsAssumption DEF IInv, TypeOK, Load
<1>4. Sessions'
  <2>1. /\ open \in [Tabs -> BOOLEAN] /\ session \in [Tabs -> Nat]
        /\ local \in [Tabs -> Credential] /\ cached \in [Tabs -> Credential]
    BY BoundsAssumption DEF IInv, TypeOK
  <2>2. \A u, w \in Tabs : open'[u] /\ open'[w] /\ session'[u] = session'[w] => u = w
    BY <1>2, <2>1 DEF IInv, Sessions, Load
  <2>3. \A n \in DOMAIN call : call[n].load \in Nat /\ call[n].load <= loads
    BY CallFields DEF IInv, Sessions
  <2>4. \A n \in DOMAIN call' : call'[n].load <= loads'
    BY <1>2, <2>3 DEF Load
  <2>5. ASSUME NEW u \in Tabs, open'[u]
        PROVE  /\ cached'[u].version <= local'[u].version
               /\ cached'[u].edits \subseteq local'[u].edits
               /\ \A n \in DOMAIN call' : call'[n].load = session'[u] =>
                    /\ call'[n].cred.version <= cached'[u].version
                    /\ call'[n].cred.edits \subseteq cached'[u].edits
    <3>1. CASE u = t
      BY <1>1, <1>2, <2>1, <2>3, <3>1 DEF Load, Credential
    <3>2. CASE u # t
      BY <2>1, <2>5, <3>2 DEF Load, IInv, Sessions
    <3>3. QED BY <3>1, <3>2
  <2>6. QED BY <2>2, <2>4, <2>5 DEF Sessions
<1>5. CacheIsLedgerOrUnresolved'
  BY DEF IInv, TypeOK, CacheIsLedgerOrUnresolved, Load
<1>6. ViewerFromLedger'
  BY DEF IInv, ViewerFromLedger, Load
<1>7. Ledger' /\ CallOrder' /\ Progress' /\ Overtaken' /\ BlockOrder'
  BY NoCallKeepsLedger DEF Load
<1>8. QED BY <1>3, <1>4, <1>5, <1>6, <1>7 DEF IInv

\* A setter: the local copy grows.
LEMMA EditKeeps ==
  ASSUME IInv, NEW t \in Tabs, Edit(t)
  PROVE  IInv'
<1> DEFINE cred == [edits |-> local[t].edits \cup {edited + 1},
                    version |-> local[t].version + 1]
<1>1. local[t] \in Credential /\ cached[t] \in Credential
  BY DEF IInv, TypeOK
<1>2. edited + 1 \in Edits
  BY BoundsAssumption DEF IInv, TypeOK, Edits, Edit
<1>3. cred \in Credential /\ cred.version = local[t].version + 1 /\ local[t].edits \subseteq cred.edits
  BY <1>1, <1>2 DEF Credential
<1>4. /\ local' = [local EXCEPT ![t] = cred]
      /\ edited' = edited + 1 /\ edited < MaxEdits
      /\ UNCHANGED <<blocks, open, loads, session, cached, call, viewer>>
  BY DEF Edit
<1> HIDE DEF cred
<1>5. TypeOK'
  BY <1>3, <1>4, BoundsAssumption DEF IInv, TypeOK
<1>6. \A u \in Tabs : local'[u] = IF u = t THEN cred ELSE local[u]
  BY <1>4 DEF IInv, TypeOK
<1>7. Sessions'
  BY <1>1, <1>3, <1>4, <1>6 DEF IInv, Sessions, Credential
<1>8. CacheIsLedgerOrUnresolved' /\ ViewerFromLedger'
  BY <1>4 DEF IInv, CacheIsLedgerOrUnresolved, ViewerFromLedger
<1>9. Ledger' /\ CallOrder' /\ Progress' /\ Overtaken' /\ BlockOrder'
  BY <1>4, NoCallKeepsLedger
<1>10. QED BY <1>5, <1>7, <1>8, <1>9 DEF IInv

\* The page is closed.
LEMMA CloseKeeps ==
  ASSUME IInv, NEW t \in Tabs, Close(t)
  PROVE  IInv'
<1>1. CallStep
  BY CloseIsCallStep
<1>2. /\ open' = [open EXCEPT ![t] = FALSE]
      /\ UNCHANGED <<blocks, loads, session, local, cached, edited, viewer>>
  BY DEF Close
<1>3. open' \in [Tabs -> BOOLEAN] /\ \A u \in Tabs : open'[u] => open[u]
  BY <1>2 DEF IInv, TypeOK
<1>4. QED BY <1>1, <1>2, <1>3, CallStepsKeep

\* Another user takes the content of a block.
LEMMA ViewerKeeps ==
  ASSUME IInv, NEW h \in 1 .. Len(blocks), ViewerUpdate(h) \/ ViewerLoad(h)
  PROVE  IInv'
<1>1. viewer' = blocks[h].cred /\ UNCHANGED <<blocks, tabVars, edited, call>>
  BY DEF ViewerUpdate, ViewerLoad
<1>2. TypeOK'
  BY <1>1, BlockFields DEF IInv, TypeOK, tabVars
<1>3. ViewerFromLedger'
  BY <1>1 DEF ViewerFromLedger
<1>4. Sessions' /\ CacheIsLedgerOrUnresolved'
  BY <1>1 DEF IInv, Sessions, CacheIsLedgerOrUnresolved, tabVars
<1>5. Ledger' /\ CallOrder' /\ Progress' /\ Overtaken' /\ BlockOrder'
  BY <1>1, NoCallKeepsLedger
<1>6. QED BY <1>2, <1>3, <1>4, <1>5 DEF IInv

\* What sendUpdate sends: the local copy, perhaps with the personhood.
Sent(t, publish) ==
  IF publish THEN [local[t] EXCEPT !.edits = @ \cup {Personhood}] ELSE local[t]

LEMMA SentGrows ==
  ASSUME IInv, NEW t \in Tabs, NEW publish \in BOOLEAN
  PROVE  /\ Sent(t, publish) \in Credential
         /\ Sent(t, publish).version = local[t].version
         /\ local[t].edits \subseteq Sent(t, publish).edits
BY DEF IInv, TypeOK, Sent, Credential

\* sendUpdate without a new version: only the local copy changes.
LEMMA NothingSentKeeps ==
  ASSUME IInv, NEW t \in Tabs, NEW cred \in Credential,
         cred.version = local[t].version, local[t].edits \subseteq cred.edits,
         local' = [local EXCEPT ![t] = cred],
         UNCHANGED <<blocks, open, loads, session, cached, call, edited, viewer>>
  PROVE  IInv'
<1>1. local[t] \in Credential /\ \A u \in Tabs : local'[u] = IF u = t THEN cred ELSE local[u]
  BY DEF IInv, TypeOK
<1>2. TypeOK'
  BY DEF IInv, TypeOK
<1>3. Sessions'
  BY <1>1 DEF IInv, Sessions
<1>4. CacheIsLedgerOrUnresolved' /\ ViewerFromLedger'
  BY DEF IInv, CacheIsLedgerOrUnresolved, ViewerFromLedger
<1>5. Ledger' /\ CallOrder' /\ Progress' /\ Overtaken' /\ BlockOrder'
  BY NoCallKeepsLedger
<1>6. QED BY <1>2, <1>3, <1>4, <1>5 DEF IInv

\* A new call carries more than all calls of its session, and overlaps with
\* every call that has not settled.
LEMMA NewCallKeeps ==
  ASSUME IInv, NEW t \in Tabs, NEW cred \in Credential, open[t], Len(call) < MaxSends,
         local[t].version > cached[t].version,
         cred.version = local[t].version, local[t].edits \subseteq cred.edits,
         local' = [local EXCEPT ![t] = cred],
         cached' = [cached EXCEPT ![t] = cred],
         call' = Append(call, [load |-> session[t], cred |-> cred, phase |-> "counting",
                               base |-> 0, fate |-> "none", overlaps |-> Unsettled]),
         UNCHANGED <<blocks, open, loads, session, edited, viewer>>
  PROVE  IInv'
<1> DEFINE new == [load |-> session[t], cred |-> cred, phase |-> "counting",
                   base |-> 0, fate |-> "none", overlaps |-> Unsettled]
           last == Len(call) + 1
<1>1. /\ call \in Seq(Call) /\ Len(call) \in Nat /\ DOMAIN call = 1 .. Len(call)
      /\ session \in [Tabs -> Nat] /\ local \in [Tabs -> Credential]
      /\ cached \in [Tabs -> Credential] /\ loads \in Nat
  BY BoundsAssumption DEF IInv, TypeOK
<1>2. Unsettled \subseteq Calls
  BY <1>1, BoundsAssumption DEF Unsettled, Calls
<1>3. new \in Call
  BY <1>1, <1>2 DEF Call, Phases, Fates
<1>4. /\ new.load = session[t] /\ new.cred = cred /\ new.phase = "counting"
      /\ new.fate = "none" /\ new.overlaps = Unsettled
  OBVIOUS
<1>5. call' = Append(call, new)
  OBVIOUS
<1> HIDE DEF new
<1>6. /\ call' \in Seq(Call) /\ Len(call') = last /\ DOMAIN call' = 1 .. last
      /\ call'[last] = new
      /\ \A m \in DOMAIN call : m \in DOMAIN call' /\ m < last /\ call'[m] = call[m]
      /\ \A m \in DOMAIN call' : m = last \/ m \in DOMAIN call
  BY <1>1, <1>3, <1>5
<1>7. TypeOK'
  BY <1>6 DEF IInv, TypeOK
<1>8. \A u \in Tabs : /\ local'[u] = IF u = t THEN cred ELSE local[u]
                      /\ cached'[u] = IF u = t THEN cred ELSE cached[u]
  BY <1>1
<1>9. /\ cred.version \in Nat /\ cached[t].version \in Nat /\ cred.version > cached[t].version
      /\ cached[t].edits \subseteq cred.edits
  BY <1>1 DEF Credential, IInv, Sessions
<1>10. ASSUME NEW m \in DOMAIN call, call[m].load = session[t]
       PROVE  /\ call[m].cred.version < cred.version
              /\ call[m].cred.edits \subseteq cred.edits
  BY <1>9, <1>10, CallFields DEF IInv, Sessions
<1>11. Ledger'
  <2>1. /\ blocks'[1].cred = Initial
        /\ \A i, j \in 2 .. Len(blocks') : blocks'[i].by = blocks'[j].by => i = j
    BY DEF IInv, Ledger
  <2>2. ASSUME NEW i \in 2 .. Len(blocks')
        PROVE  /\ blocks'[i].by \in DOMAIN call'
               /\ blocks'[i].cred = call'[blocks'[i].by].cred
               /\ call'[blocks'[i].by].fate = "included"
    <3>1. /\ blocks[i].by \in DOMAIN call
          /\ blocks[i].cred = call[blocks[i].by].cred
          /\ call[blocks[i].by].fate = "included"
      BY DEF IInv, Ledger
    <3>2. QED BY <1>6, <3>1
  <2>3. ASSUME NEW m \in DOMAIN call', call'[m].fate = "included"
        PROVE \E i \in 2 .. Len(blocks') : blocks'[i].by = m
    <3>1. m \in DOMAIN call /\ call[m].fate = "included"
      BY <1>4, <1>6, <2>3
    <3>2. QED BY <3>1 DEF IInv, Ledger
  <2>4. QED BY <2>1, <2>2, <2>3 DEF Ledger
<1>12. Sessions'
  <2>1. session[t] \in Nat /\ session[t] <= loads
    BY <1>1 DEF IInv, TypeOK
  <2>2. \A m \in DOMAIN call' : call'[m].load <= loads
    BY <1>4, <1>6, <2>1 DEF IInv, Sessions
  <2>3. ASSUME NEW u \in Tabs, open[u], NEW m \in DOMAIN call', call'[m].load = session[u]
        PROVE  /\ call'[m].cred.version <= cached'[u].version
               /\ call'[m].cred.edits \subseteq cached'[u].edits
    <3>1. CASE m = last
      <4>1. u = t
        BY <1>4, <1>6, <2>3, <3>1 DEF IInv, Sessions
      <4>2. QED BY <1>4, <1>6, <1>8, <1>9, <3>1, <4>1
    <3>2. CASE m \in DOMAIN call /\ u = t
      BY <1>6, <1>8, <1>9, <1>10, <2>3, <3>2, CallFields DEF IInv
    <3>3. CASE m \in DOMAIN call /\ u # t
      BY <1>6, <1>8, <2>3, <3>3 DEF IInv, Sessions
    <3>4. QED BY <1>6, <3>1, <3>2, <3>3
  <2>4. \A u \in Tabs : open[u] => /\ cached'[u].version <= local'[u].version
                                   /\ cached'[u].edits \subseteq local'[u].edits
    BY <1>8, <1>9 DEF IInv, Sessions
  <2>5. QED BY <2>2, <2>3, <2>4 DEF IInv, Sessions
<1>13. CallOrder'
  <2>1. \A m \in DOMAIN call' : call'[m].cred.version > 0
    BY <1>4, <1>6, <1>9 DEF IInv, CallOrder
  <2>2. ASSUME NEW m \in DOMAIN call', NEW n \in DOMAIN call', m < n,
               call'[m].load = call'[n].load
        PROVE  /\ call'[m].cred.version < call'[n].cred.version
               /\ call'[m].cred.edits \subseteq call'[n].cred.edits
    <3>1. m \in DOMAIN call /\ call'[m] = call[m]
      BY <1>1, <1>6, <2>2
    <3>2. CASE n = last
      BY <1>4, <1>6, <1>10, <2>2, <3>1, <3>2
    <3>3. CASE n \in DOMAIN call
      BY <1>6, <2>2, <3>1, <3>3 DEF IInv, CallOrder, SameSession
    <3>4. QED BY <1>6, <3>2, <3>3
  <2>3. Len(call') <= MaxSends
    BY <1>1, <1>6, BoundsAssumption
  <2>4. QED BY <2>1, <2>2, <2>3 DEF CallOrder, SameSession
<1>14. Progress'
  <2>1. \A m \in DOMAIN call : m \in Unsettled' => m \in Unsettled
    BY <1>6 DEF Unsettled
  <2>2. ASSUME NEW m \in DOMAIN call', NEW n \in DOMAIN call', m < n,
               m \notin call'[n].overlaps
        PROVE  m \notin Unsettled'
    <3>1. m \in DOMAIN call
      BY <1>1, <1>6, <2>2
    <3>2. m \notin Unsettled
      BY <1>4, <1>6, <2>2, <3>1 DEF IInv, Progress
    <3>3. QED BY <2>1, <3>1, <3>2
  <2>3. \A m \in DOMAIN call' :
          /\ call'[m].phase = "counting" => call'[m].fate = "none"
          /\ call'[m].phase = "resolved" => call'[m].fate = "included"
          /\ call'[m].fate = "pool" => call'[m].base <= Len(blocks')
    BY <1>4, <1>6 DEF IInv, Progress
  <2>4. QED BY <2>2, <2>3 DEF Progress
<1>15. Overtaken'
  BY <1>4, <1>6 DEF IInv, Overtaken, Ledger
<1>16. BlockOrder'
  BY <1>6 DEF IInv, BlockOrder, Ledger
<1>17. CacheIsLedgerOrUnresolved'
  <2>1. SUFFICES ASSUME NEW u \in Tabs, open[u]
                 PROVE \/ \E i \in 1 .. Len(blocks) : blocks[i].cred = cached'[u]
                       \/ \E m \in DOMAIN call' : /\ call'[m].load = session[u]
                                                  /\ call'[m].cred = cached'[u]
                                                  /\ call'[m].phase # "resolved"
    BY DEF CacheIsLedgerOrUnresolved
  <2>2. CASE u = t
    <3>1. last \in DOMAIN call'
      BY <1>1, <1>6
    <3>2. QED BY <1>4, <1>6, <1>8, <2>2, <3>1
  <2>3. CASE u # t
    BY <1>6, <1>8, <2>1, <2>3 DEF IInv, CacheIsLedgerOrUnresolved
  <2>4. QED BY <2>2, <2>3
<1>18. ViewerFromLedger'
  BY DEF IInv, ViewerFromLedger
<1>19. QED BY <1>7, <1>11, <1>12, <1>13, <1>14, <1>15, <1>16, <1>17, <1>18 DEF IInv

LEMMA SendUpdateKeeps ==
  ASSUME IInv, NEW t \in Tabs, NEW publish \in BOOLEAN, SendUpdate(t, publish)
  PROVE  IInv'
<1> DEFINE cred == Sent(t, publish)
<1>1. /\ cred \in Credential /\ cred.version = local[t].version
      /\ local[t].edits \subseteq cred.edits
  BY SentGrows
<1>2. /\ open[t]
      /\ local' = [local EXCEPT ![t] = cred]
      /\ UNCHANGED <<blocks, open, loads, session, edited, viewer>>
      /\ \/ /\ NewVersion(t)
            /\ Len(call) < MaxSends
            /\ cached' = [cached EXCEPT ![t] = cred]
            /\ call' = Append(call,
                 [load |-> session[t], cred |-> cred, phase |-> "counting",
                  base |-> 0, fate |-> "none", overlaps |-> Unsettled])
         \/ UNCHANGED <<cached, call>>
  BY DEF SendUpdate, Sent
<1> HIDE DEF cred
<1>3. CASE UNCHANGED <<cached, call>>
  BY <1>1, <1>2, <1>3, NothingSentKeeps
<1>4. CASE /\ NewVersion(t)
           /\ Len(call) < MaxSends
           /\ cached' = [cached EXCEPT ![t] = cred]
           /\ call' = Append(call,
                [load |-> session[t], cred |-> cred, phase |-> "counting",
                 base |-> 0, fate |-> "none", overlaps |-> Unsettled])
  <2>1. local[t].version > cached[t].version
    BY <1>4 DEF NewVersion
  <2>2. QED BY <1>1, <1>2, <1>4, <2>1, NewCallKeeps
<1>5. QED BY <1>2, <1>3, <1>4

\* Before the first page is loaded the ledger has the initial credential.
LEMMA InitEstablishes == Init => IInv
<1> SUFFICES ASSUME Init PROVE IInv
  OBVIOUS
<1>1. Initial \in Credential /\ [cred |-> Initial, by |-> 0] \in Block
  BY DEF Initial, Credential, Block
<1>2. blocks \in Seq(Block) /\ Len(blocks) = 1 /\ blocks[1].cred = Initial /\ blocks # <<>>
  BY <1>1 DEF Init
<1>3. call \in Seq(Call) /\ Len(call) = 0 /\ DOMAIN call = {}
  BY DEF Init
<1>4. TypeOK
  BY <1>1, <1>2, <1>3, BoundsAssumption DEF TypeOK, Init
<1>5. Ledger /\ Progress /\ Overtaken /\ BlockOrder
  BY <1>2, <1>3 DEF Ledger, Progress, Overtaken, BlockOrder
<1>6. CallOrder
  BY <1>3, BoundsAssumption DEF CallOrder
<1>7. Sessions /\ CacheIsLedgerOrUnresolved
  BY DEF Init, Sessions, CacheIsLedgerOrUnresolved
<1>8. ViewerFromLedger
  <2>1. 1 \in 1 .. Len(blocks) /\ blocks[1].cred = viewer
    BY <1>2 DEF Init
  <2>2. QED BY <2>1 DEF ViewerFromLedger
<1>9. QED BY <1>4, <1>5, <1>6, <1>7, <1>8 DEF IInv

LEMMA Inductive == IInv /\ [Next]_vars => IInv'
<1> SUFFICES ASSUME IInv, [Next]_vars PROVE IInv'
  OBVIOUS
<1>1. ASSUME NEW t \in Tabs, NEW h \in 1 .. Len(blocks), Load(t, h) PROVE IInv'
  BY <1>1, LoadKeeps
<1>2. ASSUME NEW t \in Tabs, Edit(t) PROVE IInv'
  BY <1>2, EditKeeps
<1>3. ASSUME NEW t \in Tabs, NEW publish \in BOOLEAN, SendUpdate(t, publish) PROVE IInv'
  BY <1>3, SendUpdateKeeps
<1>4. ASSUME NEW t \in Tabs, Close(t) PROVE IInv'
  BY <1>4, CloseKeeps
<1>5. ASSUME NEW n \in DOMAIN call,
             \/ \E h \in 1 .. Len(blocks) : FillSignAndSend(n, h)
             \/ CountersFail(n) \/ Resolve(n) \/ Reject(n) \/ Include(n) \/ Refuse(n)
      PROVE  IInv'
  BY <1>5, CallsKeep
<1>6. ASSUME NEW h \in 1 .. Len(blocks), ViewerUpdate(h) \/ ViewerLoad(h) PROVE IInv'
  BY <1>6, ViewerKeeps
<1>7. CASE UNCHANGED vars
  <2>1. UNCHANGED <<blocks, open, loads, session, local, cached, edited, call, viewer>>
    BY <1>7 DEF vars, tabVars
  <2>2. Ledger' /\ CallOrder' /\ Progress' /\ Overtaken' /\ BlockOrder'
    BY <2>1, NoCallKeepsLedger
  <2>3. Sessions' /\ CacheIsLedgerOrUnresolved' /\ ViewerFromLedger'
    BY <2>1 DEF IInv, Sessions, CacheIsLedgerOrUnresolved, ViewerFromLedger
  <2>4. TypeOK'
    BY <2>1 DEF IInv, TypeOK
  <2>5. QED BY <2>2, <2>3, <2>4 DEF IInv
<1>8. QED BY <1>1, <1>2, <1>3, <1>4, <1>5, <1>6, <1>7 DEF Next

------------------------------------------------------------------------------
(* What follows from the invariant. *)

\* Two blocks of a session whose calls did not overlap are in the order of the
\* calls, whose contents grow.
LEMMA SessionsMove == IInv => SessionMovesForward
<1> SUFFICES ASSUME IInv, NEW i \in 2 .. Len(blocks), NEW j \in 2 .. Len(blocks), i < j,
                    SameSession(blocks[i].by, blocks[j].by),
                    ~ Overlap(blocks[i].by, blocks[j].by)
             PROVE  /\ blocks[i].cred.version < blocks[j].cred.version
                    /\ blocks[i].cred.edits \subseteq blocks[j].cred.edits
  BY DEF SessionMovesForward
<1> DEFINE m == blocks[i].by
           n == blocks[j].by
<1>1. /\ m \in DOMAIN call /\ n \in DOMAIN call /\ m # n
      /\ blocks[i].cred = call[m].cred /\ blocks[j].cred = call[n].cred
  BY DEF IInv, Ledger
<1>2. ~ n < m
  BY DEF IInv, BlockOrder, Overlap
<1>3. m \in Nat /\ n \in Nat
  BY <1>1, CallFields DEF IInv
<1>4. m < n
  BY <1>1, <1>2, <1>3
<1> HIDE DEF m, n
<1>5. SameSession(m, n)
  BY DEF m, n
<1>6. QED BY <1>1, <1>4, <1>5 DEF IInv, CallOrder

\* Two calls of a session never carry the same version.
LEMMA VersionsNameContents == IInv => VersionNamesContent
<1> SUFFICES ASSUME IInv, NEW i \in 2 .. Len(blocks), NEW j \in 2 .. Len(blocks),
                    SameSession(blocks[i].by, blocks[j].by),
                    blocks[i].cred.version = blocks[j].cred.version
             PROVE  blocks[i].cred = blocks[j].cred
  BY DEF VersionNamesContent
<1>1. ASSUME NEW m \in DOMAIN call, NEW n \in DOMAIN call, SameSession(m, n),
             call[m].cred.version = call[n].cred.version
      PROVE  m = n
  <2>1. /\ m \in Nat /\ n \in Nat
        /\ call[m].cred.version \in Nat /\ call[n].cred.version \in Nat
    BY CallFields DEF IInv
  <2>2. ~ m < n /\ ~ n < m
    BY <1>1, <2>1 DEF IInv, CallOrder, SameSession
  <2>3. QED BY <2>1, <2>2
<1>2. /\ blocks[i].by \in DOMAIN call /\ blocks[i].cred = call[blocks[i].by].cred
      /\ blocks[j].by \in DOMAIN call /\ blocks[j].cred = call[blocks[j].by].cred
  BY DEF IInv, Ledger
<1>3. QED BY <1>1, <1>2

\* The copy of another user is the content of a block, and if no conflict took
\* place it is of an earlier block of the session, with a lower version.
LEMMA StuckNeedsConflict == IInv => ViewerStuckNeedsConflict
<1> SUFFICES ASSUME IInv, viewer # blocks[Len(blocks)].cred,
                    viewer.version >= blocks[Len(blocks)].cred.version
             PROVE  \E i \in 2 .. Len(blocks) - 1 :
                      /\ blocks[i].cred = viewer
                      /\ \/ ~ SameSession(blocks[i].by, blocks[Len(blocks)].by)
                         \/ Overlap(blocks[i].by, blocks[Len(blocks)].by)
  BY DEF ViewerStuckNeedsConflict
<1>1. PICK i \in 1 .. Len(blocks) : blocks[i].cred = viewer
  BY DEF IInv, ViewerFromLedger
<1>2. Len(blocks) \in Nat /\ i < Len(blocks) /\ Len(blocks) \in 2 .. Len(blocks)
  BY <1>1 DEF IInv, TypeOK
<1>3. i # 1
  <2>1. SUFFICES ASSUME i = 1 PROVE FALSE
    OBVIOUS
  <2>2. viewer.version = 0
    BY <1>1, <2>1 DEF IInv, Ledger, Initial
  <2>3. blocks[Len(blocks)].cred.version > 0
    BY <1>2 DEF IInv, Ledger, CallOrder
  <2>4. blocks[Len(blocks)].cred.version \in Nat
    BY <1>2, BlockFields DEF IInv, Credential
  <2>5. QED BY <2>2, <2>3, <2>4
<1>4. i \in 2 .. Len(blocks) - 1 /\ i \in 2 .. Len(blocks)
  BY <1>2, <1>3
<1>5. /\ blocks[i].cred.version \in Nat
      /\ blocks[Len(blocks)].cred.version \in Nat
  BY <1>2, BlockFields DEF IInv, Credential
<1>6. ~ blocks[i].cred.version < blocks[Len(blocks)].cred.version
  BY <1>1, <1>5
<1>7. \/ ~ SameSession(blocks[i].by, blocks[Len(blocks)].by)
      \/ Overlap(blocks[i].by, blocks[Len(blocks)].by)
  BY <1>2, <1>4, <1>6, SessionsMove DEF SessionMovesForward
<1>8. QED BY <1>1, <1>4, <1>7

------------------------------------------------------------------------------
(* The theorems. *)

\* Type correctness of the copies of a credential, the calls of sendUpdate and
\* the ledger.
THEOREM TypesCorrect == Spec => []TypeOK
<1>1. IInv => TypeOK
  BY DEF IInv
<1>2. QED BY <1>1, InitEstablishes, Inductive, PTL DEF Spec

\* The calls of sendUpdate of one page that do not overlap never take the
\* credential on the ledger back, whatever replies were lost.
THEOREM SessionsMoveForward == Spec => []SessionMovesForward
BY SessionsMove, InitEstablishes, Inductive, PTL DEF Spec

\* Within a page's lifetime a version number names one content of the ledger,
\* though publishing the personhood changes the content and not the version.
THEOREM VersionsNameContent == Spec => []VersionNamesContent
BY VersionsNameContents, InitEstablishes, Inductive, PTL DEF Spec

\* What sendUpdate caches before its transaction is sent is on the ledger or
\* belongs to a call that has not resolved.
THEOREM CacheIsJustified == Spec => []CacheIsLedgerOrUnresolved
<1>1. IInv => CacheIsLedgerOrUnresolved
  BY DEF IInv
<1>2. QED BY <1>1, InitEstablishes, Inductive, PTL DEF Spec

\* Contact.update leaves another user behind for good only after a conflict of
\* two sessions or of two overlapping calls.
THEOREM ViewersStuckByConflict == Spec => []ViewerStuckNeedsConflict
BY StuckNeedsConflict, InitEstablishes, Inductive, PTL DEF Spec

==============================================================================
