-------------------------- MODULE ClientTransaction --------------------------
(***************************************************************************)
(* How a client of ByzCoin gets a transaction into the ledger              *)
(* (src/lib/cothority/byzcoin/client-transaction.ts and byzcoin-rpc.ts).   *)
(*                                                                         *)
(* Every operation of the program that writes to the ledger does the same  *)
(* four things: it asks a node for the counters of its signers, writes the *)
(* next counters in its instructions, signs, and waits for a node to tell  *)
(* that the transaction is in a block.  Nothing is locked meanwhile: two   *)
(* operations of one user may read the same counters, a node may answer    *)
(* with counters that are behind the ledger, and a call whose reply is     *)
(* lost is reported as failed while its transaction is still on its way.   *)
(* A user who sees the failure tries again with a new call.                *)
(*                                                                         *)
(* The ledger is external: it includes a transaction only if every counter *)
(* is the next one of its signer.                                          *)
(***************************************************************************)
EXTENDS Naturals, FiniteSets, Sequences

CONSTANTS
  Signers,     \* the identities that sign instructions
  Nodes,       \* the conodes that answer the client
  Ops,         \* the operations the users ask for
  Instrs,      \* Instrs[o]: how many instructions the transaction of o has
  SignersArg,  \* SignersArg[o]: the argument `signers', a set per instruction
  MaxCalls     \* bound: MaxCalls[o] is how many times a user tries o

ASSUME InstrsAssumption == Instrs \in [Ops -> Nat \ {0}]
ASSUME SignersArgAssumption == SignersArg \in [Ops -> Seq(SUBSET Signers)]
ASSUME MaxCallsAssumption == MaxCalls \in [Ops -> Nat]

\* The k-th try of operation o is the call <<o, k>>.
Calls == UNION {{o} \X (1 .. MaxCalls[o]) : o \in Ops}

VARIABLES
  phase,    \* phase[c]: how far the client is with call c
  base,     \* base[c]: the counters the client was told, before it adds 1
  readAt,   \* readAt[c]: how many blocks the answering node had (history)
  fate,     \* fate[c]: what became of the transaction of c
  block,    \* block[c]: the block that holds the transaction, 0 for none
  counter,  \* the ledger: the last counter used by each signer
  height,   \* the ledger: its number of blocks
  view,     \* view[n]: the counters node n answers with
  viewAt    \* viewAt[n]: how many blocks node n has

clientVars == <<phase, base, readAt>>
ledgerVars == <<fate, block, counter, height>>
nodeVars   == <<view, viewAt>>
vars == <<clientVars, ledgerVars, nodeVars>>

Phases == {"idle", "counting", "sent", "resolved", "rejected"}
Fates  == {"none", "pool", "included", "badCounter", "badContract"}

Counters == [Signers -> Nat]

TypeOK ==
  /\ phase \in [Calls -> Phases]
  /\ base \in [Calls -> Counters]
  /\ readAt \in [Calls -> Nat]
  /\ fate \in [Calls -> Fates]
  /\ block \in [Calls -> Nat]
  /\ counter \in Counters
  /\ height \in Nat
  /\ view \in [Nodes -> Counters]
  /\ viewAt \in [Nodes -> Nat]

------------------------------------------------------------------------------
(* The content of a transaction. *)

\* The signers of each instruction: a single entry stands for all of them.
InstrSigners(o) ==
  IF Len(SignersArg[o]) = 1
    THEN [i \in 1 .. Instrs[o] |-> SignersArg[o][1]]
    ELSE SignersArg[o]

WellFormed(o) == Len(InstrSigners(o)) = Instrs[o]

\* The instructions of o that s signs, among the first n of them.
SignedBy(o, s, n) ==
  {i \in DOMAIN InstrSigners(o) : i <= n /\ s \in InstrSigners(o)[i]}

\* All the signers of o, without duplicates.
UniqueSigners(o) == {s \in Signers : SignedBy(o, s, Instrs[o]) # {}}

\* Bug: the counters are not increased from one instruction to the next.
SignerCounterNotIncreased(c, i, s) == base[c][s] + 1

\* The counter that call c writes in instruction i for signer s.
SignerCounter(c, i, s) ==
  base[c][s] + 1 + Cardinality(SignedBy(c[1], s, i - 1))

\* The ledger's check: instruction by instruction, each counter is the next one.
CountersMatch(c) ==
  \A s \in UniqueSigners(c[1]) : \A i \in SignedBy(c[1], s, Instrs[c[1]]) :
    SignerCounter(c, i, s) = counter[s] + 1 + Cardinality(SignedBy(c[1], s, i - 1))

\* Bug: one signature counted per transaction instead of one per instruction.
CountersAfterOnce(o) ==
  [s \in Signers |-> IF s \in UniqueSigners(o) THEN counter[s] + 1 ELSE counter[s]]

CountersAfter(o) ==
  [s \in Signers |-> counter[s] + Cardinality(SignedBy(o, s, Instrs[o]))]

------------------------------------------------------------------------------
(* The client. *)

Init ==
  /\ phase = [c \in Calls |-> "idle"]
  /\ base = [c \in Calls |-> [s \in Signers |-> 0]]
  /\ readAt = [c \in Calls |-> 0]
  /\ fate = [c \in Calls |-> "none"]
  /\ block = [c \in Calls |-> 0]
  /\ counter = [s \in Signers |-> 0]
  /\ height = 0
  /\ view = [n \in Nodes |-> [s \in Signers |-> 0]]
  /\ viewAt = [n \in Nodes |-> 0]

\* Bug: the user does not wait for the outcome of the first try.
MayCallAnyTime(c) == phase[c] = "idle"

MayCall(c) ==
  /\ phase[c] = "idle"
  /\ \A k \in 1 .. MaxCalls[c[1]] : k < c[2] => phase[<<c[1], k>>] = "rejected"

\* The operation builds its instructions and asks a node for the counters.
BeginCall(c) ==
  /\ MayCall(c)
  /\ WellFormed(c[1])
  /\ phase' = [phase EXCEPT ![c] = "counting"]
  /\ UNCHANGED <<base, readAt, ledgerVars, nodeVars>>

\* The lengths of signers and instructions differ: nothing is sent.
RejectLengths(c) ==
  /\ MayCall(c)
  /\ ~ WellFormed(c[1])
  /\ phase' = [phase EXCEPT ![c] = "rejected"]
  /\ UNCHANGED <<base, readAt, ledgerVars, nodeVars>>

\* The counters arrive: the instructions are filled in, signed and sent.
FillSignAndSend(c, n) ==
  /\ phase[c] = "counting"
  /\ phase' = [phase EXCEPT ![c] = "sent"]
  /\ base' = [base EXCEPT ![c] = view[n]]
  /\ readAt' = [readAt EXCEPT ![c] = viewAt[n]]
  /\ fate' = [fate EXCEPT ![c] = "pool"]
  /\ UNCHANGED <<block, counter, height, nodeVars>>

\* No counters arrive: the node cannot be reached or does not answer in time.
CountersFail(c) ==
  /\ phase[c] = "counting"
  /\ phase' = [phase EXCEPT ![c] = "rejected"]
  /\ UNCHANGED <<base, readAt, ledgerVars, nodeVars>>

\* The node tells that the transaction is in a block.
Resolve(c) ==
  /\ phase[c] = "sent"
  /\ fate[c] = "included"
  /\ phase' = [phase EXCEPT ![c] = "resolved"]
  /\ UNCHANGED <<base, readAt, ledgerVars, nodeVars>>

\* The node tells that the transaction is refused, or nothing is heard in
\* time: connection lost, 30 seconds over, `wait' blocks gone by.
Reject(c) ==
  /\ phase[c] = "sent"
  /\ phase' = [phase EXCEPT ![c] = "rejected"]
  /\ UNCHANGED <<base, readAt, ledgerVars, nodeVars>>

------------------------------------------------------------------------------
(* The ledger (external). *)

Include(c) ==
  /\ fate[c] = "pool"
  /\ CountersMatch(c)
  /\ fate' = [fate EXCEPT ![c] = "included"]
  /\ block' = [block EXCEPT ![c] = height + 1]
  /\ counter' = CountersAfter(c[1])
  /\ height' = height + 1
  /\ UNCHANGED <<clientVars, nodeVars>>

RefuseCounter(c) ==
  /\ fate[c] = "pool"
  /\ ~ CountersMatch(c)
  /\ fate' = [fate EXCEPT ![c] = "badCounter"]
  /\ UNCHANGED <<clientVars, block, counter, height, nodeVars>>

\* A contract or a darc refuses one instruction, and with it all of them.
RefuseContract(c) ==
  /\ fate[c] = "pool"
  /\ fate' = [fate EXCEPT ![c] = "badContract"]
  /\ UNCHANGED <<clientVars, block, counter, height, nodeVars>>

\* Bug: a node answers with the counters before the last ones.
CatchUpOffByOne(n) ==
  /\ viewAt[n] # height
  /\ view' = [view EXCEPT ![n] = [s \in Signers |-> counter[s] - 1]]
  /\ viewAt' = [viewAt EXCEPT ![n] = height]
  /\ UNCHANGED <<clientVars, ledgerVars>>

\* A node learns the latest block.
CatchUp(n) ==
  /\ viewAt[n] # height
  /\ view' = [view EXCEPT ![n] = counter]
  /\ viewAt' = [viewAt EXCEPT ![n] = height]
  /\ UNCHANGED <<clientVars, ledgerVars>>

Next ==
  \/ \E c \in Calls :
       \/ BeginCall(c)
       \/ RejectLengths(c)
       \/ \E n \in Nodes : FillSignAndSend(c, n)
       \/ CountersFail(c)
       \/ Resolve(c)
       \/ Reject(c)
       \/ Include(c)
       \/ RefuseCounter(c)
       \/ RefuseContract(c)
  \/ \E n \in Nodes : CatchUp(n)

Spec == Init /\ [][Next]_vars

------------------------------------------------------------------------------
(* What the counters promise. *)

Included(c) == fate[c] = "included"

\* No (signer, counter) pair is used by two transactions of the ledger,
\* whatever the interleaving of the calls that computed them.
NoCounterReuse ==
  \A c, d \in Calls :
    c # d /\ Included(c) /\ Included(d) =>
      \A s \in UniqueSigners(c[1]) \cap UniqueSigners(d[1]) :
        \A i \in SignedBy(c[1], s, Instrs[c[1]]), j \in SignedBy(d[1], s, Instrs[d[1]]) :
          SignerCounter(c, i, s) # SignerCounter(d, j, s)

\* updateCounters computes exactly what the ledger expects, also for several
\* instructions of one signer: a transaction is refused for its counters only
\* if another one of the same signer got into a block the answering node did
\* not have when the counters were read.
CounterRefusalIsConflict ==
  \A c \in Calls :
    fate[c] = "badCounter" =>
      \E d \in Calls : /\ Included(d)
                       /\ block[d] > readAt[c]
                       /\ UniqueSigners(c[1]) \cap UniqueSigners(d[1]) # {}

\* A retry never doubles the transaction it replaces by racing it: if both
\* are included, the retry read its counters from a node that had the first
\* one already.  (A retry after a lost reply can still repeat the operation.)
RetryNeverRaces ==
  \A o \in Ops : \A j, k \in 1 .. MaxCalls[o] :
    /\ j < k
    /\ UniqueSigners(o) # {}
    /\ Included(<<o, j>>) /\ Included(<<o, k>>)
    => block[<<o, j>>] <= readAt[<<o, k>>]

==============================================================================
