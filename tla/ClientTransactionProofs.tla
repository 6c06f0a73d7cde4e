----------------------- MODULE ClientTransactionProofs -----------------------
(***************************************************************************)
(* What holds of ClientTransaction for any signers, nodes, operations and  *)
(* number of tries.  The argument in one paragraph: a transaction is       *)
(* included only while the counters its client was told are still the      *)
(* ledger's, so the included transactions of a signer own disjoint ranges  *)
(* of counters (Disjoint); and the counters anybody was told only differ   *)
(* from the ledger's if a block with that signer came since (the           *)
(* Behind... conjuncts), which makes every refusal a conflict.             *)
(*                                                                         *)
(* An identifier is made of a hash over the counters of its instruction,   *)
(* so a counter that is used once gives an identifier that is new.         *)
(***************************************************************************)
EXTENDS Instances, FiniteSetTheorems, TLAPS

\* How many counters of s a transaction of o uses up.
Uses(o, s) == Cardinality(SignedBy(o, s, Instrs[o]))

\* A transaction that signs with s is in a block later than h.
BlockSince(s, h) ==
  \E d \in Calls : Included(d) /\ block[d] > h /\ s \in UniqueSigners(d[1])

\* Nothing is sent before the counters are known; tries come one by one.
Tries ==
  /\ \A c \in Calls : phase[c] \in {"idle", "counting"} => fate[c] = "none"
  /\ \A c, d \in Calls : c[1] = d[1] /\ c[2] < d[2] /\ phase[d] # "idle"
                           => phase[c] = "rejected"

\* An included transaction has used its counters up.
UsedUp ==
  \A c \in Calls : Included(c) =>
    /\ block[c] <= height
    /\ \A s \in UniqueSigners(c[1]) : base[c][s] + Uses(c[1], s) <= counter[s]

\* Two included transactions of a signer own disjoint ranges of counters.
Disjoint ==
  \A c, d \in Calls : c # d /\ Included(c) /\ Included(d) =>
    \A s \in UniqueSigners(c[1]) \cap UniqueSigners(d[1]) :
      \/ base[c][s] + Uses(c[1], s) <= base[d][s]
      \/ base[d][s] + Uses(d[1], s) <= base[c][s]

\* A node's counters are the ledger's but for the blocks it does not have.
BehindNode ==
  \A n \in Nodes :
    /\ viewAt[n] <= height
    /\ \A s \in Signers : /\ view[n][s] <= counter[s]
                          /\ view[n][s] # counter[s] => BlockSince(s, viewAt[n])
    /\ \A d \in Calls : Included(d) /\ block[d] > viewAt[n] =>
         \A s \in UniqueSigners(d[1]) : view[n][s] <= base[d][s]

\* The same for the counters a sent transaction was computed from.
BehindCall ==
  \A c \in Calls : fate[c] # "none" =>
    /\ readAt[c] <= height
    /\ \A s \in Signers : /\ base[c][s] <= counter[s]
                          /\ base[c][s] # counter[s] => BlockSince(s, readAt[c])
    /\ \A d \in Calls : Included(d) /\ block[d] > readAt[c] =>
         \A s \in UniqueSigners(d[1]) : d # c => base[c][s] <= base[d][s]

\* An included retry has the higher counters.
RetryAbove ==
  \A c, d \in Calls :
    c[1] = d[1] /\ c[2] < d[2] /\ fate[c] # "none" /\ Included(d) =>
      \A s \in UniqueSigners(c[1]) : base[c][s] <= base[d][s]

IInv ==
  /\ TypeOK
  /\ Tries
  /\ UsedUp
  /\ Disjoint
  /\ BehindNode
  /\ BehindCall
  /\ RetryAbove
  /\ CounterRefusalIsConflict
------------------------------------------------------------------------------
(* Counting the instructions of a signer. *)

LEMMA CallParts ==
  ASSUME NEW c \in Calls
  PROVE  /\ c[1] \in Ops
         /\ c[2] \in 1 .. MaxCalls[c[1]]
         /\ MaxCalls[c[1]] \in Nat
         /\ c = <<c[1], c[2]>>
  BY MaxCallsAssumption DEF Calls

LEMMA InstrSignersDomain ==
  ASSUME NEW o \in Ops
  PROVE  \E k \in Nat : DOMAIN InstrSigners(o) = 1 .. k
<1>1. SignersArg[o] \in Seq(SUBSET Signers) /\ Instrs[o] \in Nat
  BY SignersArgAssumption, InstrsAssumption
<1>2. CASE Len(SignersArg[o]) = 1
  BY <1>1, <1>2 DEF InstrSigners
<1>3. CASE Len(SignersArg[o]) # 1
  <2>1. Len(SignersArg[o]) \in Nat /\ DOMAIN SignersArg[o] = 1 .. Len(SignersArg[o])
    BY <1>1
  <2>2. QED BY <1>3, <2>1 DEF InstrSigners
<1>4. QED BY <1>2, <1>3

LEMMA SignedByFinite ==
  ASSUME NEW o \in Ops, NEW s, NEW n \in Int
  PROVE  IsFiniteSet(SignedBy(o, s, n)) /\ Cardinality(SignedBy(o, s, n)) \in Nat
<1>1. PICK k \in Nat : DOMAIN InstrSigners(o) = 1 .. k
  BY InstrSignersDomain
<1>2. SignedBy(o, s, n) \in SUBSET (1 .. k)
  BY <1>1 DEF SignedBy
<1>3. IsFiniteSet(1 .. k)
  BY FS_Interval
<1>4. IsFiniteSet(SignedBy(o, s, n))
  BY <1>2, <1>3, FS_Subset
<1>5. QED BY <1>4, FS_CardinalityType

\* The i-th instruction is signed after fewer signatures than the whole needs.
LEMMA SignedBefore ==
  ASSUME NEW o \in Ops, NEW s, NEW i \in SignedBy(o, s, Instrs[o])
  PROVE  /\ Cardinality(SignedBy(o, s, i - 1)) \in Nat
         /\ Uses(o, s) \in Nat
         /\ Cardinality(SignedBy(o, s, i - 1)) < Uses(o, s)
<1>1. PICK k \in Nat : DOMAIN InstrSigners(o) = 1 .. k
  BY InstrSignersDomain
<1>2. Instrs[o] \in Nat /\ i \in Nat /\ i - 1 \in Int
  BY <1>1, InstrsAssumption DEF SignedBy
<1>3. SignedBy(o, s, i - 1) \in SUBSET SignedBy(o, s, Instrs[o])
  BY <1>1, <1>2 DEF SignedBy
<1>4. SignedBy(o, s, i - 1) # SignedBy(o, s, Instrs[o])
  BY <1>2 DEF SignedBy
<1>5. IsFiniteSet(SignedBy(o, s, Instrs[o]))
  BY <1>2, SignedByFinite
<1>6. /\ Cardinality(SignedBy(o, s, i - 1)) <= Cardinality(SignedBy(o, s, Instrs[o]))
      /\ Cardinality(SignedBy(o, s, i - 1)) # Cardinality(SignedBy(o, s, Instrs[o]))
  BY <1>3, <1>4, <1>5, FS_Subset
<1>7. /\ Cardinality(SignedBy(o, s, i - 1)) \in Nat
      /\ Cardinality(SignedBy(o, s, Instrs[o])) \in Nat
  BY <1>2, SignedByFinite
<1>8. QED BY <1>6, <1>7 DEF Uses

LEMMA UsesType ==
  ASSUME NEW o \in Ops, NEW s
  PROVE  /\ Uses(o, s) \in Nat
         /\ s \in UniqueSigners(o) => Uses(o, s) > 0
<1>1. Uses(o, s) \in Nat
  BY InstrsAssumption, SignedByFinite DEF Uses
<1>2. ASSUME s \in UniqueSigners(o)
      PROVE  Uses(o, s) > 0
  <2>1. PICK i \in SignedBy(o, s, Instrs[o]) : TRUE
    BY <1>2 DEF UniqueSigners
  <2>2. QED BY <1>1, <2>1, SignedBefore
<1>3. QED BY <1>1, <1>2

\* A transaction passes the ledger's check iff the counters its client was
\* told are still those of the ledger.
LEMMA MatchIsUnchangedBase ==
  ASSUME TypeOK, NEW c \in Calls
  PROVE  CountersMatch(c) <=> \A s \in UniqueSigners(c[1]) : base[c][s] = counter[s]
<1>0. c[1] \in Ops
  BY CallParts
<1>1. ASSUME NEW s \in UniqueSigners(c[1])
      PROVE  /\ base[c][s] \in Nat /\ counter[s] \in Nat
             /\ SignedBy(c[1], s, Instrs[c[1]]) # {}
             /\ \A i \in SignedBy(c[1], s, Instrs[c[1]]) :
                  (SignerCounter(c, i, s)
                     = counter[s] + 1 + Cardinality(SignedBy(c[1], s, i - 1)))
                  <=> base[c][s] = counter[s]
  <2>1. s \in Signers /\ SignedBy(c[1], s, Instrs[c[1]]) # {}
    BY DEF UniqueSigners
  <2>2. base[c][s] \in Nat /\ counter[s] \in Nat
    BY <2>1 DEF TypeOK, Counters
  <2>3. ASSUME NEW i \in SignedBy(c[1], s, Instrs[c[1]])
        PROVE  (SignerCounter(c, i, s)
                  = counter[s] + 1 + Cardinality(SignedBy(c[1], s, i - 1)))
               <=> base[c][s] = counter[s]
    <3>1. Cardinality(SignedBy(c[1], s, i - 1)) \in Nat
      BY <1>0, SignedBefore
    <3>2. QED BY <2>2, <3>1 DEF SignerCounter
  <2>4. QED BY <2>1, <2>2, <2>3
<1>2. QED BY <1>1 DEF CountersMatch

LEMMA CountersAfterType ==
  ASSUME TypeOK, NEW o \in Ops
  PROVE  /\ CountersAfter(o) \in Counters
         /\ \A s \in Signers : /\ CountersAfter(o)[s] = counter[s] + Uses(o, s)
                               /\ counter[s] \in Nat
                               /\ CountersAfter(o)[s] >= counter[s]
                               /\ s \notin UniqueSigners(o)
                                    => CountersAfter(o)[s] = counter[s]
<1>1. ASSUME NEW s \in Signers
      PROVE  /\ CountersAfter(o)[s] = counter[s] + Uses(o, s)
             /\ counter[s] \in Nat
             /\ Uses(o, s) \in Nat
             /\ s \notin UniqueSigners(o) => Uses(o, s) = 0
  BY UsesType, FS_EmptySet DEF CountersAfter, Uses, UniqueSigners, TypeOK, Counters
<1>2. CountersAfter(o) = [s \in Signers |-> CountersAfter(o)[s]]
  BY DEF CountersAfter
<1>3. \A s \in Signers : CountersAfter(o)[s] \in Nat
  BY <1>1
<1>4. CountersAfter(o) \in Counters
  BY <1>2, <1>3 DEF Counters
<1>5. QED BY <1>1, <1>4

------------------------------------------------------------------------------
(* Type correctness. *)

LEMMA TypeInit == Init => TypeOK
  BY DEF Init, TypeOK, Phases, Fates, Counters

LEMMA TypeStep == TypeOK /\ [Next]_vars => TypeOK'
<1> SUFFICES ASSUME TypeOK, [Next]_vars PROVE TypeOK'
  OBVIOUS
<1> USE DEF TypeOK, Phases, Fates, clientVars, ledgerVars, nodeVars
<1>1. ASSUME NEW c \in Calls, BeginCall(c) PROVE TypeOK'
  BY <1>1 DEF BeginCall
<1>2. ASSUME NEW c \in Calls, RejectLengths(c) PROVE TypeOK'
  BY <1>2 DEF RejectLengths
<1>3. ASSUME NEW c \in Calls, NEW n \in Nodes, FillSignAndSend(c, n) PROVE TypeOK'
  BY <1>3 DEF FillSignAndSend
<1>4. ASSUME NEW c \in Calls, CountersFail(c) PROVE TypeOK'
  BY <1>4 DEF CountersFail
<1>5. ASSUME NEW c \in Calls, Resolve(c) PROVE TypeOK'
  BY <1>5 DEF Resolve
<1>6. ASSUME NEW c \in Calls, Reject(c) PROVE TypeOK'
  BY <1>6 DEF Reject
<1>7. ASSUME NEW c \in Calls, Include(c) PROVE TypeOK'
  <2>1. CountersAfter(c[1]) \in Counters
    BY CallParts, CountersAfterType
  <2>2. QED BY <1>7, <2>1 DEF Include
<1>8. ASSUME NEW c \in Calls, RefuseCounter(c) PROVE TypeOK'
  BY <1>8 DEF RefuseCounter
<1>9. ASSUME NEW c \in Calls, RefuseContract(c) PROVE TypeOK'
  BY <1>9 DEF RefuseContract
<1>10. ASSUME NEW n \in Nodes, CatchUp(n) PROVE TypeOK'
  BY <1>10 DEF CatchUp
<1>11. CASE UNCHANGED vars
  BY <1>11 DEF vars
<1>12. QED
  BY <1>1, <1>2, <1>3, <1>4, <1>5, <1>6, <1>7, <1>8, <1>9, <1>10, <1>11 DEF Next

\* Every variable keeps its type, for all signers, nodes and operations.
THEOREM TypeCorrect == Spec => []TypeOK
<1>1. QED BY TypeInit, TypeStep, PTL DEF Spec

------------------------------------------------------------------------------
(* Steps that neither send, nor include, nor show a node a new block. *)

Quiet ==
  /\ UNCHANGED <<base, readAt, block, counter, height, view, viewAt>>
  /\ \A c \in Calls : /\ Included(c)' <=> Included(c)
                      /\ fate'[c] = "none" <=> fate[c] = "none"

\* The content of a transaction is fixed: its signers and uses do not change.
LEMMA FixedContent ==
  /\ \A o : UniqueSigners(o)' = UniqueSigners(o)
  /\ \A o, s : Uses(o, s)' = Uses(o, s)
  BY DEF UniqueSigners, Uses, SignedBy, InstrSigners

LEMMA QuietKeeps ==
  ASSUME IInv, Quiet
  PROVE  UsedUp' /\ Disjoint' /\ BehindNode' /\ BehindCall' /\ RetryAbove'
<1>1. \A s, h : BlockSince(s, h)' <=> BlockSince(s, h)
  BY FixedContent DEF Quiet, BlockSince
<1>2. UsedUp'
  BY FixedContent DEF IInv, Quiet, UsedUp
<1>3. Disjoint'
  BY FixedContent DEF IInv, Quiet, Disjoint
<1>4. BehindNode'
  BY FixedContent, <1>1 DEF IInv, Quiet, BehindNode
<1>5. BehindCall'
  BY FixedContent, <1>1 DEF IInv, Quiet, BehindCall
<1>6. RetryAbove'
  BY FixedContent DEF IInv, Quiet, RetryAbove
<1>7. QED BY <1>2, <1>3, <1>4, <1>5, <1>6

LEMMA ClientStepIsQuiet ==
  ASSUME IInv, NEW c \in Calls,
         \/ BeginCall(c) \/ RejectLengths(c) \/ CountersFail(c)
         \/ Resolve(c) \/ Reject(c)
  PROVE  Quiet
  BY DEF Quiet, BeginCall, RejectLengths, CountersFail, Resolve, Reject,
         ledgerVars, nodeVars, Included

LEMMA RefusalIsQuiet ==
  ASSUME IInv, NEW c \in Calls, RefuseCounter(c) \/ RefuseContract(c)
  PROVE  Quiet
  BY DEF Quiet, IInv, TypeOK, RefuseCounter, RefuseContract, clientVars, nodeVars, Included

LEMMA CatchUpKeeps ==
  ASSUME IInv, NEW n \in Nodes, CatchUp(n)
  PROVE  UsedUp' /\ Disjoint' /\ BehindNode' /\ BehindCall' /\ RetryAbove'
<1> USE DEF CatchUp, clientVars, ledgerVars, Included
<1>1. \A s, h : BlockSince(s, h)' <=> BlockSince(s, h)
  BY FixedContent DEF BlockSince
<1>2. UsedUp'
  BY FixedContent DEF IInv, UsedUp
<1>3. Disjoint'
  BY FixedContent DEF IInv, Disjoint
<1>4. BehindNode'
  <2> SUFFICES ASSUME NEW m \in Nodes
               PROVE  /\ viewAt'[m] <= height
                      /\ \A s \in Signers :
                           /\ view'[m][s] <= counter[s]
                           /\ view'[m][s] # counter[s] => BlockSince(s, viewAt'[m])
                      /\ \A d \in Calls : Included(d) /\ block[d] > viewAt'[m] =>
                           \A s \in UniqueSigners(d[1]) : view'[m][s] <= base[d][s]
    BY FixedContent, <1>1 DEF BehindNode
  <2>1. CASE m = n
    <3>1. view'[m] = counter /\ viewAt'[m] = height
      BY <2>1 DEF IInv, TypeOK
    <3>2. \A d \in Calls : Included(d) => ~ (block[d] > height)
      BY DEF IInv, UsedUp, TypeOK
    <3>3. height <= height /\ \A s \in Signers : counter[s] <= counter[s]
      BY DEF IInv, TypeOK, Counters
    <3>4. QED BY <3>1, <3>2, <3>3
  <2>2. CASE m # n
    BY <2>2 DEF IInv, TypeOK, BehindNode
  <2>3. QED BY <2>1, <2>2
<1>5. BehindCall'
  BY FixedContent, <1>1 DEF IInv, BehindCall
<1>6. RetryAbove'
  BY FixedContent DEF IInv, RetryAbove
<1>7. QED BY <1>2, <1>3, <1>4, <1>5, <1>6

LEMMA SendKeeps ==
  ASSUME IInv, NEW c \in Calls, NEW n \in Nodes, FillSignAndSend(c, n)
  PROVE  UsedUp' /\ Disjoint' /\ BehindNode' /\ BehindCall' /\ RetryAbove'
<1>1. /\ UNCHANGED <<block, counter, height, view, viewAt>>
      /\ base' = [base EXCEPT ![c] = view[n]]
      /\ readAt' = [readAt EXCEPT ![c] = viewAt[n]]
      /\ fate' = [fate EXCEPT ![c] = "pool"]
      /\ phase[c] = "counting" /\ fate[c] = "none"
  BY DEF FillSignAndSend, nodeVars, IInv, Tries
<1>2. \A d \in Calls : /\ Included(d)' <=> Included(d)
                       /\ Included(d) => d # c
                       /\ d # c => /\ base'[d] = base[d] /\ readAt'[d] = readAt[d]
                                   /\ fate'[d] = fate[d]
  BY <1>1 DEF IInv, TypeOK, Included
<1>3. base'[c] = view[n] /\ readAt'[c] = viewAt[n] /\ fate'[c] = "pool"
  BY <1>1 DEF IInv, TypeOK
<1>4. \A s, h : BlockSince(s, h)' <=> BlockSince(s, h)
  BY FixedContent, <1>1, <1>2 DEF BlockSince
<1>5. UsedUp'
  BY FixedContent, <1>1, <1>2 DEF IInv, UsedUp
<1>6. Disjoint'
  <2> SUFFICES ASSUME NEW d \in Calls, NEW e \in Calls, d # e, Included(d), Included(e),
                      NEW s \in UniqueSigners(d[1]) \cap UniqueSigners(e[1])
               PROVE  \/ base'[d][s] + Uses(d[1], s) <= base'[e][s]
                      \/ base'[e][s] + Uses(e[1], s) <= base'[d][s]
    BY FixedContent, <1>2 DEF Disjoint
  <2>1. base'[d] = base[d] /\ base'[e] = base[e]
    BY <1>2
  <2>2. QED BY <2>1 DEF IInv, Disjoint
<1>7. BehindNode'
  BY FixedContent, <1>1, <1>2, <1>4 DEF IInv, BehindNode
<1>8. BehindCall'
  <2> SUFFICES ASSUME NEW e \in Calls, fate'[e] # "none"
               PROVE  /\ readAt'[e] <= height
                      /\ \A s \in Signers :
                           /\ base'[e][s] <= counter[s]
                           /\ base'[e][s] # counter[s] => BlockSince(s, readAt'[e])
                      /\ \A d \in Calls : Included(d) /\ block[d] > readAt'[e] =>
                           \A s \in UniqueSigners(d[1]) :
                             d # e => base'[e][s] <= base'[d][s]
    BY FixedContent, <1>1, <1>2, <1>4 DEF BehindCall
  <2>1. CASE e = c
    BY <2>1, <1>2, <1>3 DEF IInv, BehindNode
  <2>2. CASE e # c
    BY <2>2, <1>2 DEF IInv, BehindCall
  <2>3. QED BY <2>1, <2>2
<1>9. RetryAbove'
  <2>1. \A d \in Calls : c[1] = d[1] /\ c[2] < d[2] => ~ Included(d)
    BY <1>1 DEF IInv, Tries, Included
  <2>2. QED
    BY FixedContent, <1>2, <2>1 DEF IInv, RetryAbove
<1>10. QED BY <1>5, <1>6, <1>7, <1>8, <1>9

------------------------------------------------------------------------------
(* The step that moves the ledger. *)

\* What Include(c) does, told by what the invariant speaks about.
LEMMA IncludeEffect ==
  ASSUME IInv, NEW c \in Calls, Include(c)
  PROVE  /\ UNCHANGED <<base, readAt, view, viewAt>>
         /\ height' = height + 1 /\ height \in Nat
         /\ fate[c] = "pool" /\ ~ Included(c) /\ Included(c)'
         /\ block'[c] = height + 1
         /\ \A d \in Calls : d # c => /\ Included(d)' <=> Included(d)
                                      /\ block'[d] = block[d]
         /\ \A d \in Calls : /\ fate'[d] = "none" <=> fate[d] = "none"
                             /\ block[d] \in Nat
                             /\ Included(d) => block'[d] = block[d] /\ Included(d)'
         /\ \A s \in Signers : /\ counter[s] \in Nat /\ counter'[s] \in Nat
                               /\ counter'[s] >= counter[s]
                               /\ counter'[s] = counter[s] + Uses(c[1], s)
                               /\ s \notin UniqueSigners(c[1]) => counter'[s] = counter[s]
         /\ \A s \in UniqueSigners(c[1]) : base[c][s] = counter[s]
<1> USE DEF IInv
<1>1. /\ UNCHANGED <<base, readAt, view, viewAt>>
      /\ height' = height + 1 /\ height \in Nat
      /\ fate[c] = "pool"
      /\ fate' = [fate EXCEPT ![c] = "included"]
      /\ block' = [block EXCEPT ![c] = height + 1]
      /\ counter' = CountersAfter(c[1])
      /\ CountersMatch(c)
  BY DEF Include, clientVars, nodeVars, TypeOK
<1>2. /\ fate \in [Calls -> Fates] /\ block \in [Calls -> Nat]
  BY DEF TypeOK
<1>3. /\ ~ Included(c) /\ Included(c)'
      /\ block'[c] = height + 1
      /\ \A d \in Calls : d # c => /\ Included(d)' <=> Included(d)
                                   /\ block'[d] = block[d]
      /\ \A d \in Calls : /\ fate'[d] = "none" <=> fate[d] = "none"
                          /\ block[d] \in Nat
                          /\ Included(d) => block'[d] = block[d] /\ Included(d)'
  BY <1>1, <1>2 DEF Included
<1>4. \A s \in Signers : /\ counter[s] \in Nat /\ counter'[s] \in Nat
                         /\ counter'[s] >= counter[s]
                         /\ counter'[s] = counter[s] + Uses(c[1], s)
                         /\ s \notin UniqueSigners(c[1]) => counter'[s] = counter[s]
  BY <1>1, CallParts, CountersAfterType DEF Counters
<1>5. \A s \in UniqueSigners(c[1]) : base[c][s] = counter[s]
  BY <1>1, MatchIsUnchangedBase
<1>6. QED BY <1>1, <1>3, <1>4, <1>5

LEMMA IncludeKeepsBlocks ==
  ASSUME IInv, NEW c \in Calls, Include(c)
  PROVE  \A s \in Signers, h \in Nat : h <= height =>
           /\ BlockSince(s, h) => BlockSince(s, h)'
           /\ counter'[s] # counter[s] => BlockSince(s, h)'
<1>1. ASSUME NEW s \in Signers, NEW h \in Nat, h <= height, BlockSince(s, h)
      PROVE  BlockSince(s, h)'
  BY <1>1, IncludeEffect, FixedContent DEF BlockSince
<1>2. ASSUME NEW s \in Signers, NEW h \in Nat, h <= height, counter'[s] # counter[s]
      PROVE  BlockSince(s, h)'
  <2>1. s \in UniqueSigners(c[1]) /\ Included(c)' /\ block'[c] > h
    BY <1>2, IncludeEffect
  <2>2. QED BY <2>1, FixedContent DEF BlockSince
<1>3. QED BY <1>1, <1>2

LEMMA IncludeKeeps ==
  ASSUME IInv, NEW c \in Calls, Include(c)
  PROVE  UsedUp' /\ Disjoint' /\ BehindNode' /\ BehindCall' /\ RetryAbove'
<1>1. \A d \in Calls : /\ d[1] \in Ops
                       /\ UniqueSigners(d[1]) \in SUBSET Signers
                       /\ \A s \in UniqueSigners(d[1]) : /\ Uses(d[1], s) \in Nat
                                                         /\ Uses(d[1], s) > 0
                                                         /\ base[d][s] \in Nat
  BY CallParts, UsesType DEF UniqueSigners, IInv, TypeOK, Counters
<1>2. UsedUp'
  <2> SUFFICES ASSUME NEW d \in Calls, Included(d)'
               PROVE  /\ block'[d] <= height'
                      /\ \A s \in UniqueSigners(d[1]) :
                           base[d][s] + Uses(d[1], s) <= counter'[s]
    BY FixedContent, IncludeEffect DEF UsedUp
  <2>1. CASE d = c
    BY <2>1, <1>1, IncludeEffect
  <2>2. CASE d # c
    <3>1. Included(d) /\ block'[d] = block[d]
      BY <2>2, IncludeEffect
    <3>2. /\ block[d] <= height
          /\ \A s \in UniqueSigners(d[1]) : base[d][s] + Uses(d[1], s) <= counter[s]
      BY <3>1 DEF IInv, UsedUp
    <3>3. QED BY <3>1, <3>2, <1>1, IncludeEffect
  <2>3. QED BY <2>1, <2>2
<1>3. Disjoint'
  <2> SUFFICES ASSUME NEW d \in Calls, NEW e \in Calls, d # e, Included(d)', Included(e)',
                      NEW s \in UniqueSigners(d[1]) \cap UniqueSigners(e[1])
               PROVE  \/ base[d][s] + Uses(d[1], s) <= base[e][s]
                      \/ base[e][s] + Uses(e[1], s) <= base[d][s]
    BY FixedContent, IncludeEffect DEF Disjoint
  <2>1. CASE d = c
    BY <2>1, IncludeEffect DEF IInv, UsedUp
  <2>2. CASE e = c
    BY <2>2, IncludeEffect DEF IInv, UsedUp
  <2>3. CASE d # c /\ e # c
    BY <2>3, IncludeEffect DEF IInv, Disjoint
  <2>4. QED BY <2>1, <2>2, <2>3
<1>4. BehindNode'
  <2> SUFFICES ASSUME NEW n \in Nodes
               PROVE  /\ viewAt[n] <= height'
                      /\ \A s \in Signers :
                           /\ view[n][s] <= counter'[s]
                           /\ view[n][s] # counter'[s] => BlockSince(s, viewAt[n])'
                      /\ \A d \in Calls : Included(d)' /\ block'[d] > viewAt[n] =>
                           \A s \in UniqueSigners(d[1]) : view[n][s] <= base[d][s]
    BY FixedContent, IncludeEffect DEF BehindNode, BlockSince
  <2>1. viewAt[n] \in Nat /\ viewAt[n] <= height /\ \A s \in Signers : view[n][s] \in Nat
    BY DEF IInv, TypeOK, BehindNode, Counters
  <2>2. ASSUME NEW s \in Signers
        PROVE  /\ view[n][s] <= counter'[s]
               /\ view[n][s] # counter'[s] => BlockSince(s, viewAt[n])'
    <3>1. /\ view[n][s] <= counter[s]
          /\ view[n][s] # counter[s] => BlockSince(s, viewAt[n])
      BY DEF IInv, BehindNode
    <3>2. QED BY <2>1, <3>1, IncludeEffect, IncludeKeepsBlocks
  <2>3. ASSUME NEW d \in Calls, Included(d)', block'[d] > viewAt[n],
               NEW s \in UniqueSigners(d[1])
        PROVE  view[n][s] <= base[d][s]
    <3>1. CASE d = c
      BY <3>1, <1>1, IncludeEffect DEF IInv, BehindNode
    <3>2. CASE d # c
      BY <2>3, <3>2, IncludeEffect DEF IInv, BehindNode
    <3>3. QED BY <3>1, <3>2
  <2>4. QED BY <2>1, <2>2, <2>3, IncludeEffect
<1>5. BehindCall'
  <2> SUFFICES ASSUME NEW e \in Calls, fate[e] # "none"
               PROVE  /\ readAt[e] <= height'
                      /\ \A s \in Signers :
                           /\ base[e][s] <= counter'[s]
                           /\ base[e][s] # counter'[s] => BlockSince(s, readAt[e])'
                      /\ \A d \in Calls : Included(d)' /\ block'[d] > readAt[e] =>
                           \A s \in UniqueSigners(d[1]) :
                             d # e => base[e][s] <= base[d][s]
    BY FixedContent, IncludeEffect DEF BehindCall, BlockSince
  <2>1. readAt[e] \in Nat /\ readAt[e] <= height /\ \A s \in Signers : base[e][s] \in Nat
    BY DEF IInv, TypeOK, BehindCall, Counters
  <2>2. ASSUME NEW s \in Signers
        PROVE  /\ base[e][s] <= counter'[s]
               /\ base[e][s] # counter'[s] => BlockSince(s, readAt[e])'
    <3>1. /\ base[e][s] <= counter[s]
          /\ base[e][s] # counter[s] => BlockSince(s, readAt[e])
      BY DEF IInv, BehindCall
    <3>2. QED BY <2>1, <3>1, IncludeEffect, IncludeKeepsBlocks
  <2>3. ASSUME NEW d \in Calls, Included(d)', block'[d] > readAt[e],
               NEW s \in UniqueSigners(d[1]), d # e
        PROVE  base[e][s] <= base[d][s]
    <3>1. CASE d = c
      BY <3>1, <1>1, IncludeEffect DEF IInv, BehindCall
    <3>2. CASE d # c
      BY <2>3, <3>2, IncludeEffect DEF IInv, BehindCall
    <3>3. QED BY <3>1, <3>2
  <2>4. QED BY <2>1, <2>2, <2>3, IncludeEffect
<1>6. RetryAbove'
  <2> SUFFICES ASSUME NEW d \in Calls, NEW e \in Calls, d[1] = e[1], d[2] < e[2],
                      fate[d] # "none", Included(e)', NEW s \in UniqueSigners(d[1])
               PROVE  base[d][s] <= base[e][s]
    BY FixedContent, IncludeEffect DEF RetryAbove
  <2>1. CASE e = c
    BY <2>1, <1>1, IncludeEffect DEF IInv, BehindCall
  <2>2. CASE e # c
    BY <2>2, IncludeEffect DEF IInv, RetryAbove
  <2>3. QED BY <2>1, <2>2
<1>7. QED BY <1>2, <1>3, <1>4, <1>5, <1>6

------------------------------------------------------------------------------
(* The inductive invariant. *)

LEMMA TriesStep ==
  ASSUME IInv, Next
  PROVE  Tries'
<1> USE DEF IInv, TypeOK, Tries, clientVars, ledgerVars, nodeVars
<1>1. ASSUME NEW c \in Calls, BeginCall(c) \/ RejectLengths(c)
      PROVE  Tries'
  <2>1. phase[c] = "idle" /\ fate[c] = "none" /\ fate' = fate
    BY <1>1 DEF BeginCall, RejectLengths, MayCall
  <2>2. /\ phase' \in [Calls -> Phases]
        /\ \A d \in Calls : d # c => phase'[d] = phase[d]
    BY <1>1, TypeStep DEF BeginCall, RejectLengths, Next
  <2>3. \A d \in Calls : d[1] = c[1] /\ d[2] < c[2] => phase[d] = "rejected"
    <3>1. \A d \in Calls : d[1] = c[1] => d = <<c[1], d[2]>> /\ d[2] \in 1 .. MaxCalls[c[1]]
      BY CallParts
    <3>2. QED BY <1>1, <3>1 DEF BeginCall, RejectLengths, MayCall
  <2>4. \A d \in Calls : d[1] = c[1] /\ c[2] < d[2] => phase[d] = "idle"
    BY <2>1
  <2>5. \A d \in Calls : ~ (d[2] < d[2])
    BY CallParts
  <2>6. QED BY <2>1, <2>2, <2>3, <2>4, <2>5
<1>2. ASSUME NEW c \in Calls, NEW n \in Nodes, FillSignAndSend(c, n)
      PROVE  Tries'
  BY <1>2 DEF FillSignAndSend
<1>3. ASSUME NEW c \in Calls, CountersFail(c) \/ Resolve(c) \/ Reject(c)
      PROVE  Tries'
  BY <1>3 DEF CountersFail, Resolve, Reject
<1>4. ASSUME NEW c \in Calls, Include(c) \/ RefuseCounter(c) \/ RefuseContract(c)
      PROVE  Tries'
  BY <1>4 DEF Include, RefuseCounter, RefuseContract
<1>5. ASSUME NEW n \in Nodes, CatchUp(n)
      PROVE  Tries'
  BY <1>5 DEF CatchUp
<1>6. QED BY <1>1, <1>2, <1>3, <1>4, <1>5 DEF Next

\* A block that makes a refusal a conflict stays.
LEMMA ConflictStep ==
  ASSUME IInv, Next
  PROVE  CounterRefusalIsConflict'
<1> DEFINE Conflict(c) == \E d \in Calls :
                            /\ Included(d)
                            /\ block[d] > readAt[c]
                            /\ UniqueSigners(c[1]) \cap UniqueSigners(d[1]) # {}
<1> SUFFICES ASSUME NEW c \in Calls, fate'[c] = "badCounter"
             PROVE  Conflict(c)'
  BY FixedContent DEF CounterRefusalIsConflict
<1>1. \A d \in Calls : Included(d) => Included(d)' /\ block'[d] = block[d]
  BY DEF IInv, TypeOK, Included, Next, clientVars, ledgerVars, nodeVars,
         BeginCall, RejectLengths, FillSignAndSend, CountersFail, Resolve, Reject,
         Include, RefuseCounter, RefuseContract, CatchUp, Tries
<1>2. readAt'[c] = readAt[c]
  BY DEF IInv, TypeOK, Next, clientVars, ledgerVars, nodeVars,
         BeginCall, RejectLengths, FillSignAndSend, CountersFail, Resolve, Reject,
         Include, RefuseCounter, RefuseContract, CatchUp
<1>3. Conflict(c) => Conflict(c)'
  BY <1>1, <1>2, FixedContent
<1>4. CASE fate[c] = "badCounter"
  BY <1>3, <1>4 DEF IInv, CounterRefusalIsConflict
<1>5. CASE fate[c] # "badCounter"
  <2>1. RefuseCounter(c)
    BY <1>5 DEF IInv, TypeOK, Next, clientVars, ledgerVars, nodeVars,
         BeginCall, RejectLengths, FillSignAndSend, CountersFail, Resolve, Reject,
         Include, RefuseCounter, RefuseContract, CatchUp
  <2>2. fate[c] = "pool" /\ ~ CountersMatch(c)
    BY <2>1 DEF RefuseCounter
  <2>3. PICK s \in UniqueSigners(c[1]) : base[c][s] # counter[s]
    BY <2>2, MatchIsUnchangedBase DEF IInv
  <2>4. BlockSince(s, readAt[c])
    BY <2>2, <2>3 DEF IInv, BehindCall, UniqueSigners
  <2>5. Conflict(c)
    BY <2>3, <2>4 DEF BlockSince
  <2>6. QED BY <1>3, <2>5
<1>6. QED BY <1>4, <1>5

LEMMA InvInit == Init => IInv
<1> SUFFICES ASSUME Init PROVE IInv
  OBVIOUS
<1>1. TypeOK
  BY TypeInit
<1>2. \A c \in Calls : fate[c] = "none" /\ ~ Included(c) /\ phase[c] = "idle"
  BY DEF Init, Included
<1>3. Tries /\ UsedUp /\ Disjoint /\ BehindCall /\ RetryAbove /\ CounterRefusalIsConflict
  BY <1>2 DEF Tries, UsedUp, Disjoint, BehindCall, RetryAbove, CounterRefusalIsConflict
<1>4. BehindNode
  BY <1>2 DEF Init, BehindNode
<1>5. QED BY <1>1, <1>3, <1>4 DEF IInv

LEMMA InvStep == IInv /\ [Next]_vars => IInv'
<1> SUFFICES ASSUME IInv, [Next]_vars PROVE IInv'
  OBVIOUS
<1> DEFINE Kept == UsedUp /\ Disjoint /\ BehindNode /\ BehindCall /\ RetryAbove
<1>1. TypeOK'
  BY TypeStep DEF IInv
<1>2. ASSUME Next PROVE Kept'
  <2>1. ASSUME NEW c \in Calls,
               \/ BeginCall(c) \/ RejectLengths(c) \/ CountersFail(c)
               \/ Resolve(c) \/ Reject(c) \/ RefuseCounter(c) \/ RefuseContract(c)
        PROVE  Kept'
    BY <2>1, ClientStepIsQuiet, RefusalIsQuiet, QuietKeeps
  <2>2. ASSUME NEW c \in Calls, NEW n \in Nodes, FillSignAndSend(c, n) PROVE Kept'
    BY <2>2, SendKeeps
  <2>3. ASSUME NEW c \in Calls, Include(c) PROVE Kept'
    BY <2>3, IncludeKeeps
  <2>4. ASSUME NEW n \in Nodes, CatchUp(n) PROVE Kept'
    BY <2>4, CatchUpKeeps
  <2>5. QED BY <1>2, <2>1, <2>2, <2>3, <2>4 DEF Next
<1>3. CASE Next
  BY <1>1, <1>2, <1>3, TriesStep, ConflictStep DEF IInv
<1>4. CASE UNCHANGED vars
  <2>1. Quiet /\ UNCHANGED <<phase, fate>>
    BY <1>4 DEF Quiet, vars, clientVars, ledgerVars, nodeVars, Included
  <2>2. Tries'
    BY <2>1 DEF IInv, Tries
  <2>3. CounterRefusalIsConflict'
    BY <2>1, FixedContent DEF IInv, CounterRefusalIsConflict, Quiet
  <2>4. QED BY <1>1, <2>1, <2>2, <2>3, QuietKeeps DEF IInv
<1>5. QED BY <1>3, <1>4

LEMMA InvImpliesNoReuse == IInv => NoCounterReuse
<1> SUFFICES ASSUME IInv, NEW c \in Calls, NEW d \in Calls, c # d, Included(c), Included(d),
                    NEW s \in UniqueSigners(c[1]) \cap UniqueSigners(d[1]),
                    NEW i \in SignedBy(c[1], s, Instrs[c[1]]),
                    NEW j \in SignedBy(d[1], s, Instrs[d[1]])
             PROVE  SignerCounter(c, i, s) # SignerCounter(d, j, s)
  BY DEF NoCounterReuse
<1>1. base[c][s] \in Nat /\ base[d][s] \in Nat
  BY DEF IInv, TypeOK, Counters, UniqueSigners
<1>2. \/ base[c][s] + Uses(c[1], s) <= base[d][s]
      \/ base[d][s] + Uses(d[1], s) <= base[c][s]
  BY DEF IInv, Disjoint
<1>3. /\ Cardinality(SignedBy(c[1], s, i - 1)) \in Nat
      /\ Uses(c[1], s) \in Nat
      /\ Cardinality(SignedBy(c[1], s, i - 1)) < Uses(c[1], s)
      /\ Cardinality(SignedBy(d[1], s, j - 1)) \in Nat
      /\ Uses(d[1], s) \in Nat
      /\ Cardinality(SignedBy(d[1], s, j - 1)) < Uses(d[1], s)
  BY CallParts, SignedBefore
<1>4. QED BY <1>1, <1>2, <1>3 DEF SignerCounter

LEMMA InvImpliesNoRace == IInv => RetryNeverRaces
<1> SUFFICES ASSUME IInv, NEW o \in Ops, NEW j \in 1 .. MaxCalls[o], NEW k \in 1 .. MaxCalls[o],
                    j < k, UniqueSigners(o) # {},
                    Included(<<o, j>>), Included(<<o, k>>)
             PROVE  block[<<o, j>>] <= readAt[<<o, k>>]
  BY DEF RetryNeverRaces
<1> DEFINE c == <<o, j>>
           d == <<o, k>>
<1>1. c \in Calls /\ d \in Calls /\ c # d /\ c[1] = o /\ d[1] = o
  BY MaxCallsAssumption DEF Calls
<1>2. PICK s \in UniqueSigners(o) : TRUE
  OBVIOUS
<1>3. base[c][s] \in Nat /\ base[d][s] \in Nat /\ block[c] \in Nat /\ readAt[d] \in Nat
  BY <1>1 DEF IInv, TypeOK, Counters, UniqueSigners
<1>4. Uses(o, s) \in Nat /\ Uses(o, s) > 0
  BY UsesType
<1>5. base[c][s] <= base[d][s]
  BY <1>1 DEF IInv, RetryAbove, Included
<1>6. \/ base[c][s] + Uses(o, s) <= base[d][s]
      \/ base[d][s] + Uses(o, s) <= base[c][s]
  BY <1>1 DEF IInv, Disjoint
<1>7. base[c][s] < base[d][s]
  BY <1>3, <1>4, <1>5, <1>6
<1>8. block[c] > readAt[d] => base[d][s] <= base[c][s]
  BY <1>1 DEF IInv, BehindCall, Included
<1>9. QED BY <1>3, <1>7, <1>8

LEMMA Invariance == Spec => []IInv
<1>1. QED BY InvInit, InvStep, PTL DEF Spec

------------------------------------------------------------------------------

\* No two transactions of the ledger use the same counter of a signer,
\* however the calls of updateCounters and signWith interleave.
THEOREM CountersUsedOnce == Spec => []NoCounterReuse
<1>1. QED BY Invariance, InvImpliesNoReuse, PTL

\* A transaction is only ever refused for its counters because a transaction
\* of one of its signers got in between.
THEOREM RefusalsAreConflicts == Spec => []CounterRefusalIsConflict
<1>1. IInv => CounterRefusalIsConflict
  BY DEF IInv
<1>2. QED BY <1>1, Invariance, PTL

\* A retry is never included beside the transaction it races.
THEOREM RetriesDoNotRace == Spec => []RetryNeverRaces
<1>1. QED BY Invariance, InvImpliesNoRace, PTL

------------------------------------------------------------------------------
(* Identifiers. *)

\* Only a transaction with signers for each instruction is sent, and finitely many are
\* included so far.
Content ==
  /\ \A c \in Calls : phase[c] = "counting" \/ fate[c] # "none" => WellFormed(c[1])
  /\ IsFiniteSet({c \in Calls : Included(c)})

LEMMA ContentInit == Init => Content
<1> SUFFICES ASSUME Init PROVE Content
  OBVIOUS
<1>1. \A c \in Calls : fate[c] = "none" /\ phase[c] = "idle"
  BY DEF Init
<1>2. {c \in Calls : Included(c)} = {}
  BY <1>1 DEF Included
<1>3. QED BY <1>1, <1>2, FS_EmptySet DEF Content

LEMMA ContentStep == TypeOK /\ Content /\ [Next]_vars => Content'
<1> SUFFICES ASSUME TypeOK, Content, [Next]_vars PROVE Content'
  OBVIOUS
<1> DEFINE Sent(c) == phase[c] = "counting" \/ fate[c] # "none"
           included == {c \in Calls : Included(c)}
<1>1. ASSUME NEW c \in Calls, Sent(c)', ~ Sent(c)
      PROVE  BeginCall(c)
  BY <1>1 DEF TypeOK, Next, vars, clientVars, ledgerVars, nodeVars, BeginCall, RejectLengths,
       FillSignAndSend, CountersFail, Resolve, Reject, Include, RefuseCounter,
       RefuseContract, CatchUp
<1>2. ASSUME NEW c \in Calls, Sent(c)'
      PROVE  WellFormed(c[1])'
  <2>1. WellFormed(c[1])' <=> WellFormed(c[1])
    BY DEF WellFormed, InstrSigners
  <2>2. QED BY <1>1, <1>2, <2>1 DEF Content, BeginCall
<1>3. \E c : included' \subseteq included \cup {c}
  BY DEF TypeOK, Next, vars, clientVars, ledgerVars, nodeVars, BeginCall, RejectLengths,
       FillSignAndSend, CountersFail, Resolve, Reject, Include, RefuseCounter,
       RefuseContract, CatchUp, Included
<1> HIDE DEF included
<1>4. IsFiniteSet(included')
  <2>1. PICK c : included' \subseteq included \cup {c}
    BY <1>3
  <2>2. IsFiniteSet(included \cup {c})
    BY FS_AddElement DEF Content, included
  <2>3. QED BY <2>1, <2>2, FS_Subset
<1>5. QED BY <1>2, <1>4 DEF Content, included

\* What the identifier of instruction i of call c is made of.
IdOf(c, i) ==
  [hash |-> ctxHash(c)[i], signatures |-> InstrSigners(c[1])[i] \X {ctxHash(c)}]

\* A later instruction of a signer has a higher counter.
LEMMA LaterIsHigher ==
  ASSUME NEW o \in Ops, NEW s, NEW i \in SignedBy(o, s, Instrs[o]),
         NEW j \in SignedBy(o, s, Instrs[o]), i < j
  PROVE  /\ Cardinality(SignedBy(o, s, i - 1)) \in Nat
         /\ Cardinality(SignedBy(o, s, j - 1)) \in Nat
         /\ Cardinality(SignedBy(o, s, i - 1)) < Cardinality(SignedBy(o, s, j - 1))
<1>1. PICK k \in Nat : DOMAIN InstrSigners(o) = 1 .. k
  BY InstrSignersDomain
<1>2. i \in Nat /\ j \in Nat /\ i - 1 \in Int /\ j - 1 \in Int
  BY <1>1 DEF SignedBy
<1>3. SignedBy(o, s, i - 1) \in SUBSET SignedBy(o, s, j - 1)
  BY <1>1, <1>2 DEF SignedBy
<1>4. SignedBy(o, s, i - 1) # SignedBy(o, s, j - 1)
  BY <1>1, <1>2 DEF SignedBy
<1>5. IsFiniteSet(SignedBy(o, s, j - 1))
  BY <1>2, SignedByFinite
<1>6. /\ Cardinality(SignedBy(o, s, i - 1)) <= Cardinality(SignedBy(o, s, j - 1))
      /\ Cardinality(SignedBy(o, s, i - 1)) # Cardinality(SignedBy(o, s, j - 1))
  BY <1>3, <1>4, <1>5, FS_Subset
<1>7. /\ Cardinality(SignedBy(o, s, i - 1)) \in Nat
      /\ Cardinality(SignedBy(o, s, j - 1)) \in Nat
  BY <1>2, SignedByFinite
<1>8. QED BY <1>6, <1>7

\* The signers of an instruction of a transaction that was sent.
LEMMA SignersOfInstruction ==
  ASSUME NEW o \in Ops, WellFormed(o), NEW i \in Signed(o), NEW s \in InstrSigners(o)[i]
  PROVE  s \in UniqueSigners(o) /\ i \in SignedBy(o, s, Instrs[o])
<1>1. /\ SignersArg[o] \in Seq(SUBSET Signers) /\ Instrs[o] \in Nat
      /\ i \in 1 .. Instrs[o]
  BY SignersArgAssumption, InstrsAssumption DEF Signed
<1>2. i \in DOMAIN InstrSigners(o) /\ InstrSigners(o)[i] \in SUBSET Signers
  <2>1. CASE Len(SignersArg[o]) = 1
    <3>1. SignersArg[o][1] \in SUBSET Signers
      <4> DEFINE seq == SignersArg[o]
      <4>1. seq \in Seq(SUBSET Signers) /\ Len(seq) = 1
        BY <1>1, <2>1
      <4> HIDE DEF seq
      <4>2. seq[1] \in SUBSET Signers
        BY <4>1
      <4>3. QED BY <4>2 DEF seq
    <3>2. InstrSigners(o) = [k \in 1 .. Instrs[o] |-> SignersArg[o][1]]
      BY <2>1 DEF InstrSigners
    <3>3. QED BY <1>1, <3>1, <3>2
  <2>2. CASE Len(SignersArg[o]) # 1
    <3>1. InstrSigners(o) = SignersArg[o] /\ Len(SignersArg[o]) = Instrs[o]
      BY <2>2 DEF InstrSigners, WellFormed
    <3>2. QED BY <1>1, <3>1
  <2>3. QED BY <2>1, <2>2
<1>3. i \in SignedBy(o, s, Instrs[o])
  BY <1>1, <1>2 DEF SignedBy
<1>4. QED BY <1>2, <1>3 DEF UniqueSigners

\* The identifier tells the call and the instruction, by a signer and its counter.
LEMMA IdentifierTells ==
  ASSUME IInv, Content, NEW c \in Calls, NEW d \in Calls, Included(c), Included(d),
         NEW i \in Signed(c[1]), NEW j \in Signed(d[1]), IdOf(c, i) = IdOf(d, j)
  PROVE  c = d /\ i = j
<1>1. /\ c[1] \in Ops /\ d[1] \in Ops /\ WellFormed(c[1]) /\ WellFormed(d[1])
      /\ i \in 1 .. Instrs[c[1]] /\ j \in 1 .. Instrs[d[1]]
      /\ InstrSigners(c[1])[i] # {}
  BY CallParts DEF Content, Included, Signed
<1>2. ctxHash(c)[i] = ctxHash(d)[j]
  BY DEF IdOf
<1>3. hash(instruction(c, i), signerCounters(c, i)) = hash(instruction(d, j), signerCounters(d, j))
  BY <1>1, <1>2 DEF ctxHash
<1>4. signerCounters(c, i) = signerCounters(d, j)
  BY <1>3 DEF hash
<1>5. /\ InstrSigners(c[1])[i] = InstrSigners(d[1])[j]
      /\ \A s \in InstrSigners(c[1])[i] : SignerCounter(c, i, s) = SignerCounter(d, j, s)
  <2>1. DOMAIN signerCounters(c, i) = InstrSigners(c[1])[i]
        /\ \A s \in InstrSigners(c[1])[i] : signerCounters(c, i)[s] = SignerCounter(c, i, s)
    BY DEF signerCounters
  <2>2. DOMAIN signerCounters(d, j) = InstrSigners(d[1])[j]
        /\ \A s \in InstrSigners(d[1])[j] : signerCounters(d, j)[s] = SignerCounter(d, j, s)
    BY DEF signerCounters
  <2>3. QED BY <1>4, <2>1, <2>2
<1>6. PICK s \in InstrSigners(c[1])[i] : TRUE
  BY <1>1
<1>7. /\ s \in UniqueSigners(c[1]) /\ i \in SignedBy(c[1], s, Instrs[c[1]])
      /\ s \in UniqueSigners(d[1]) /\ j \in SignedBy(d[1], s, Instrs[d[1]])
      /\ SignerCounter(c, i, s) = SignerCounter(d, j, s)
  BY <1>1, <1>5, <1>6, SignersOfInstruction
<1>8. c = d
  BY <1>7, InvImpliesNoReuse DEF NoCounterReuse
<1>9. base[c][s] \in Nat
  BY <1>7 DEF IInv, TypeOK, Counters, UniqueSigners
<1>10. i \in Int /\ j \in Int
  BY <1>1, InstrsAssumption
<1>11. ~ (i < j)
  <2>1. SUFFICES ASSUME i < j PROVE FALSE
    OBVIOUS
  <2>2. /\ Cardinality(SignedBy(c[1], s, i - 1)) \in Nat
        /\ Cardinality(SignedBy(c[1], s, j - 1)) \in Nat
        /\ Cardinality(SignedBy(c[1], s, i - 1)) < Cardinality(SignedBy(c[1], s, j - 1))
    BY <1>1, <1>7, <1>8, <2>1, LaterIsHigher
  <2>3. QED BY <1>7, <1>8, <1>9, <2>2 DEF SignerCounter
<1>12. ~ (j < i)
  <2>1. SUFFICES ASSUME j < i PROVE FALSE
    OBVIOUS
  <2>2. /\ Cardinality(SignedBy(c[1], s, i - 1)) \in Nat
        /\ Cardinality(SignedBy(c[1], s, j - 1)) \in Nat
        /\ Cardinality(SignedBy(c[1], s, j - 1)) < Cardinality(SignedBy(c[1], s, i - 1))
    BY <1>1, <1>7, <1>8, <2>1, LaterIsHigher
  <2>3. QED BY <1>7, <1>8, <1>9, <2>2 DEF SignerCounter
<1>13. QED BY <1>8, <1>10, <1>11, <1>12

LEMMA IdentifiersDiffer == IInv /\ Content => IdsAreNew
<1> SUFFICES ASSUME IInv, Content PROVE IdsAreNew
  OBVIOUS
<1> DEFINE included == {c \in Calls : Included(c)}
           P == UNION {{c} \X Signed(c[1]) : c \in included}
           I == UNION {deriveIds(c) : c \in included}
           f == [p \in P |-> IdOf(p[1], p[2])]
<1>1. \A p \in P : /\ p = <<p[1], p[2]>> /\ p[1] \in Calls /\ Included(p[1])
                   /\ p[2] \in Signed(p[1][1])
  OBVIOUS
<1>2. \A c \in included : \A i \in Signed(c[1]) : <<c, i>> \in P
  OBVIOUS
<1>3. \A x : x \in I <=> \E c \in included : \E i \in Signed(c[1]) : x = IdOf(c, i)
  BY DEF deriveIds, IdOf
<1>4. IsFiniteSet(P)
  <2> DEFINE g == [c \in included |-> {c} \X Signed(c[1])]
             T == {{c} \X Signed(c[1]) : c \in included}
  <2>1. g \in Surjection(included, T)
    <3>1. g \in [included -> T] /\ \A t \in T : \E c \in included : g[c] = t
      OBVIOUS
    <3>2. QED BY <3>1 DEF Surjection
  <2>2. IsFiniteSet(T)
    BY <2>1, FS_Surjection DEF Content, ExistsSurjection
  <2>3. ASSUME NEW c \in included
        PROVE  IsFiniteSet({c} \X Signed(c[1]))
    <3>1. Instrs[c[1]] \in Nat
      BY CallParts, InstrsAssumption
    <3>2. Signed(c[1]) \in SUBSET (1 .. Instrs[c[1]])
      BY DEF Signed
    <3>3. IsFiniteSet(1 .. Instrs[c[1]])
      BY <3>1, FS_Interval
    <3>4. IsFiniteSet(Signed(c[1]))
      BY <3>2, <3>3, FS_Subset
    <3>5. QED BY <3>4, FS_Singleton, FS_Product
  <2>4. \A t \in T : IsFiniteSet(t)
    BY <2>3
  <2>5. QED BY <2>2, <2>4, FS_UNION
<1>5. f \in Bijection(P, I)
  <2>1. f \in [P -> I]
    BY <1>1, <1>3
  <2>2. ASSUME NEW p \in P, NEW r \in P, f[p] = f[r]
        PROVE  p = r
    <3>1. IdOf(p[1], p[2]) = IdOf(r[1], r[2])
      BY <2>2
    <3>2. p[1] = r[1] /\ p[2] = r[2]
      BY <1>1, <3>1, IdentifierTells
    <3>3. QED BY <1>1, <3>2
  <2>3. \A x \in I : \E p \in P : f[p] = x
    <3>1. ASSUME NEW x \in I
          PROVE  \E p \in P : f[p] = x
      <4>1. PICK c \in included : \E i \in Signed(c[1]) : x = IdOf(c, i)
        BY <1>3
      <4>2. PICK i \in Signed(c[1]) : x = IdOf(c, i)
        BY <4>1
      <4>3. <<c, i>> \in P /\ f[<<c, i>>] = x
        BY <1>2, <4>2
      <4>4. QED BY <4>3
    <3>2. QED BY <3>1
  <2>4. QED BY <2>1, <2>2, <2>3 DEF Bijection, Injection, Surjection, IsInjective
<1>6. Cardinality(I) = Cardinality(P)
  BY <1>4, <1>5, FS_Bijection DEF ExistsBijection
<1>7. QED BY <1>6 DEF IdsAreNew

\* Two instructions on the ledger that somebody signs never get the same identifier from
\* deriveId, within a transaction, over retries and whatever comes in between.
THEOREM IdentifiersAreNew == Spec => []IdsAreNew
<1>1. IInv /\ Content => IdsAreNew
  BY IdentifiersDiffer
<1>2. Spec => []TypeOK
  BY TypeCorrect
<1>3. Spec => []Content
  BY <1>2, ContentInit, ContentStep, PTL DEF Spec
<1>4. QED BY <1>1, <1>3, Invariance, PTL

==============================================================================
