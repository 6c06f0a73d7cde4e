------------------------------- MODULE Instances -------------------------------
(***************************************************************************)
(* The identifiers that instructions get from their content (hash and      *)
(* deriveId of client-transaction.ts), by which the client reads what it   *)
(* has spawned: ClientTransaction with the instructions of Operations.     *)
(*                                                                         *)
(* A hash is what is hashed.  Arguments are left out: two instructions of  *)
(* one shape stand for two with the same arguments.                        *)
(***************************************************************************)
EXTENDS ClientTransaction

Op == INSTANCE Operations

CONSTANT Transactions   \* what each operation builds, see Operations

ASSUME TransactionsAssumption ==
  \A o \in Ops : /\ Instrs[o] = Len(Transactions[o].instructions)
                 /\ SignersArg[o] = Transactions[o].signers

\* The instructions with a signature.
Signed(o) == {i \in 1 .. Instrs[o] : InstrSigners(o)[i] # {}}

instruction(c, i) == Transactions[c[1]].instructions[i]

\* setCounters: the counters of an instruction, by the identities of its signers.
signerCounters(c, i) == [s \in InstrSigners(c[1])[i] |-> SignerCounter(c, i, s)]

\* Bug: the counters are not hashed.
hashContent(instr, counters) ==
  [instance |-> instr.guard, type |-> instr.action[1], contract |-> instr.action[2]]

\* Instruction.hash; neither the command of an invoke nor a signature is in it.
hash(instr, counters) ==
  [instance |-> instr.guard, type |-> instr.action[1], contract |-> instr.action[2],
   counters |-> counters]

\* ClientTransaction.hash, which is what all the signers sign.
ctxHash(c) == [i \in 1 .. Instrs[c[1]] |-> hash(instruction(c, i), signerCounters(c, i))]

\* Instruction.deriveId, for the instructions of a call that have signers.
deriveIds(c) ==
  LET h == ctxHash(c) IN
  {[hash |-> h[i], signatures |-> InstrSigners(c[1])[i] \X {h}] : i \in Signed(c[1])}

------------------------------------------------------------------------------

\* Two instructions on the ledger that somebody signs have different identifiers, even
\* if they do the same: within a transaction, when an operation is tried again, and
\* whatever transactions come in between.  Without a signature nothing but the arguments
\* tells an instance from the next one.
IdsAreNew ==
  LET included == {c \in Calls : Included(c)} IN
  Cardinality(UNION {deriveIds(c) : c \in included})
    = Cardinality(UNION {{c} \X Signed(c[1]) : c \in included})
================================================================================
