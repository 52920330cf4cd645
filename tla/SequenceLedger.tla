--------------------------- MODULE SequenceLedger ---------------------------
(***************************************************************************)
(* What the message factories promise about the solo machine's sequence   *)
(* (spec sections 5, 8 and 9), with no proofs, awaits or snapshots.        *)
(*                                                                         *)
(* A call either reserves, in one atomic step, the NumProofs(o) sequences  *)
(* its factory signs -- the consecutive values starting at the stored     *)
(* sequence -- and later returns with or without a transaction that       *)
(* carries them; or it aborts having burned fewer sequences than it       *)
(* needed.  The stored sequence only grows and never passes MaxSequence.   *)
(***************************************************************************)
EXTENDS Naturals, Sequences

CONSTANTS
    Tasks,          \* concurrent factory calls against the same chain id
    Ops,            \* the factories
    NoOp,           \* the factory of a call not made yet
    NumProofs(_),   \* how many sequences a factory signs
    InitSequence,
    MaxSequence

\* What the constants must satisfy; the proofs take it as a hypothesis.
LedgerAssumption ==
    /\ InitSequence \in Nat
    /\ MaxSequence \in Nat
    /\ InitSequence <= MaxSequence
    /\ \A o \in Ops : NumProofs(o) \in Nat

VARIABLES
    sequence,   \* the stored sequence
    status,     \* "idle", "reserved", "done" or "failed" for each call
    op,         \* the factory of each call
    grant,      \* the sequences a call reserved and the height after them
    txs         \* the transactions returned so far

vars == <<sequence, status, op, grant, txs>>

\* A call that holds no reservation.
NoGrant == [proofs |-> << >>, height |-> InitSequence]

\* The consecutive sequences s, s+1, ..., s+k-1.
Consecutive(s, k) == [i \in 1..k |-> s + i - 1]

Init ==
    /\ sequence = InitSequence
    /\ status = [t \in Tasks |-> "idle"]
    /\ op = [t \in Tasks |-> NoOp]
    /\ grant = [t \in Tasks |-> NoGrant]
    /\ txs = {}

\* The call signs its proofs and advances the sequence past them at once.
Reserve(t, o) ==
    /\ status[t] = "idle"
    /\ sequence + NumProofs(o) <= MaxSequence
    /\ sequence' = sequence + NumProofs(o)
    /\ status' = [status EXCEPT ![t] = "reserved"]
    /\ op' = [op EXCEPT ![t] = o]
    /\ grant' = [grant EXCEPT ![t] =
                    [proofs |-> Consecutive(sequence, NumProofs(o)),
                     height |-> sequence + NumProofs(o)]]
    /\ UNCHANGED txs

\* The call fails before it has all its sequences; the n it took stay burned.
Abort(t, o) ==
    /\ status[t] = "idle"
    /\ \E n \in 0..NumProofs(o) :
        /\ n = 0 \/ n < NumProofs(o)
        /\ sequence + n <= MaxSequence
        /\ sequence' = sequence + n
    /\ status' = [status EXCEPT ![t] = "failed"]
    /\ op' = [op EXCEPT ![t] = o]
    /\ UNCHANGED <<grant, txs>>

\* The call returns a transaction carrying its reservation, or returns
\* without one.
Complete(t) ==
    /\ status[t] = "reserved"
    /\ status' = [status EXCEPT ![t] = "done"]
    /\ \/ txs' = txs \cup {[task |-> t, op |-> op[t],
                            proofs |-> grant[t].proofs, height |-> grant[t].height]}
       \/ UNCHANGED txs
    /\ UNCHANGED <<sequence, op, grant>>

\* The call fails after its reservation; the sequences stay burned.
Drop(t) ==
    /\ status[t] = "reserved"
    /\ status' = [status EXCEPT ![t] = "failed"]
    /\ grant' = [grant EXCEPT ![t] = NoGrant]
    /\ UNCHANGED <<sequence, op, txs>>

Next ==
    \/ \E t \in Tasks, o \in Ops : Reserve(t, o) \/ Abort(t, o)
    \/ \E t \in Tasks : Complete(t) \/ Drop(t)

Spec == Init /\ [][Next]_vars

-----------------------------------------------------------------------------
TxRecords == [task : Tasks, op : Ops, proofs : Seq(Nat), height : Nat]

TypeOK ==
    /\ sequence \in InitSequence..MaxSequence
    /\ status \in [Tasks -> {"idle", "reserved", "done", "failed"}]
    /\ op \in [Tasks -> Ops \cup {NoOp}]
    /\ grant \in [Tasks -> [proofs : Seq(Nat), height : Nat]]
    /\ txs \subseteq TxRecords

(***************************************************************************)
(* What the ledger promises its users: no sequence is carried by two       *)
(* proofs of returned transactions, whichever calls reserved, aborted or  *)
(* dropped in whatever order.  The counterparty's solo-machine client      *)
(* accepts each sequence once, so this is what makes every returned        *)
(* transaction verifiable.                                                 *)
(***************************************************************************)
NoSequenceReuse ==
    \A x, y \in txs :
        \A i \in 1..Len(x.proofs), j \in 1..Len(y.proofs) :
            <<x.task, i>> # <<y.task, j>> => x.proofs[i] # y.proofs[j]

=============================================================================
