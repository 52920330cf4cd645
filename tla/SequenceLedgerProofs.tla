------------------------ MODULE SequenceLedgerProofs ------------------------
(***************************************************************************)
(* Proof that the abstract ledger keeps its promise: no sequence is        *)
(* carried by two proofs of returned transactions, for every number of     *)
(* calls, every factory and every bound.                                   *)
(*                                                                         *)
(* The argument: every grant is a block of consecutive sequences ending    *)
(* just below its height; every granted sequence is below the stored one, *)
(* so the block a Reserve hands out, which starts at the stored sequence,  *)
(* meets no earlier block; and a returned transaction carries the grant of *)
(* its finished call, which never changes again.                          *)
(***************************************************************************)
EXTENDS SequenceLedger, TLAPS

\* The sequences granted to call t.
Granted(t) == {grant[t].proofs[i] : i \in 1..Len(grant[t].proofs)}

\* Every grant is consecutive and ends just below its height.
GrantConsecutive ==
    \A t \in Tasks : \A i \in 1..Len(grant[t].proofs) :
        grant[t].proofs[i] = grant[t].height - Len(grant[t].proofs) + i - 1

\* Every granted sequence has been burned.
GrantsBurned == \A t \in Tasks : \A s \in Granted(t) : s < sequence

\* Two calls never hold the same sequence.
GrantsApart == \A t, u \in Tasks : t # u => Granted(t) \cap Granted(u) = {}

\* A returned transaction is the grant of its finished call.
TxsOfGrants ==
    \A tx \in txs :
        /\ status[tx.task] = "done"
        /\ tx.proofs = grant[tx.task].proofs
        /\ tx.height = grant[tx.task].height

\* A call that has reserved or aborted has chosen its factory.
OpsChosen == \A t \in Tasks : status[t] # "idle" => op[t] \in Ops

LedgerInv ==
    /\ TypeOK
    /\ OpsChosen
    /\ GrantConsecutive
    /\ GrantsBurned
    /\ GrantsApart
    /\ TxsOfGrants

\* A block of consecutive sequences is a sequence of k naturals from s.
LEMMA ConsecutiveFacts ==
    ASSUME NEW s \in Nat, NEW k \in Nat
    PROVE  /\ Consecutive(s, k) \in Seq(Nat)
           /\ Len(Consecutive(s, k)) = k
           /\ \A i \in 1..k : Consecutive(s, k)[i] = s + i - 1
BY DEF Consecutive

LEMMA LedgerInit ==
    ASSUME LedgerAssumption
    PROVE  Init => LedgerInv
<1> SUFFICES ASSUME Init PROVE LedgerInv
    OBVIOUS
<1>1. NoGrant \in [proofs : Seq(Nat), height : Nat]
    BY LedgerAssumption DEF LedgerAssumption, NoGrant
<1>2. \A t \in Tasks : grant[t] = NoGrant /\ Granted(t) = {}
    <2> SUFFICES ASSUME NEW t \in Tasks PROVE grant[t] = NoGrant /\ Granted(t) = {}
        OBVIOUS
    <2>1. grant[t] = NoGrant
        BY DEF Init
    <2>2. Len(grant[t].proofs) = 0
        BY <2>1 DEF NoGrant
    <2>3. QED
        BY <2>1, <2>2 DEF Granted
<1>3. TypeOK
    BY <1>1, LedgerAssumption DEF LedgerAssumption, Init, TypeOK
<1>4. QED
    BY <1>2, <1>3 DEF Init, LedgerInv, NoGrant, OpsChosen, GrantConsecutive,
       GrantsBurned, GrantsApart, TxsOfGrants

LEMMA ReserveStep ==
    ASSUME LedgerAssumption, LedgerInv, NEW t \in Tasks, NEW o \in Ops, Reserve(t, o)
    PROVE  LedgerInv'
<1> DEFINE k == NumProofs(o)
<1>1. k \in Nat /\ sequence \in Nat /\ sequence' = sequence + k
    BY LedgerAssumption DEF LedgerAssumption, Reserve, LedgerInv, TypeOK
<1>2. /\ grant'[t].proofs = Consecutive(sequence, k)
      /\ grant'[t].height = sequence + k
      /\ \A u \in Tasks \ {t} : grant'[u] = grant[u]
    BY DEF Reserve, LedgerInv, TypeOK
<1>3. /\ grant'[t].proofs \in Seq(Nat)
      /\ Len(grant'[t].proofs) = k
      /\ \A i \in 1..k : grant'[t].proofs[i] = sequence + i - 1
    BY <1>1, <1>2, ConsecutiveFacts
<1>4. Granted(t)' = {sequence + i - 1 : i \in 1..k}
    BY <1>3 DEF Granted
<1>5. TypeOK'
    BY <1>1, <1>3, LedgerAssumption DEF LedgerAssumption, Reserve, LedgerInv, TypeOK
<1>6. GrantConsecutive'
    <2> SUFFICES ASSUME NEW u \in Tasks, NEW i \in 1..Len(grant'[u].proofs)
                 PROVE  grant'[u].proofs[i] =
                            grant'[u].height - Len(grant'[u].proofs) + i - 1
        BY DEF GrantConsecutive
    <2>1. CASE u = t
        BY <2>1, <1>1, <1>2, <1>3
    <2>2. CASE u # t
        BY <2>2, <1>2 DEF LedgerInv, GrantConsecutive
    <2>3. QED
        BY <2>1, <2>2
<1>7. GrantsBurned'
    <2> SUFFICES ASSUME NEW u \in Tasks, NEW x \in Granted(u)'
                 PROVE  x < sequence'
        BY DEF GrantsBurned
    <2>1. CASE u = t
        BY <2>1, <1>1, <1>4
    <2>2. CASE u # t
        <3>1. x \in Granted(u) /\ Granted(u) \subseteq Nat
            BY <2>2, <1>2 DEF Granted, LedgerInv, TypeOK
        <3>2. x < sequence
            BY <3>1 DEF LedgerInv, GrantsBurned
        <3>3. QED
            BY <3>1, <3>2, <1>1
    <2>3. QED
        BY <2>1, <2>2
<1>8. GrantsApart'
    <2> SUFFICES ASSUME NEW u \in Tasks, NEW v \in Tasks, u # v,
                        NEW x \in Granted(u)', x \in Granted(v)'
                 PROVE  FALSE
        BY DEF GrantsApart
    <2>1. ASSUME NEW w \in Tasks \ {t}, x \in Granted(w)'
          PROVE  x < sequence
        <3>1. x \in Granted(w)
            BY <2>1, <1>2 DEF Granted
        <3>2. QED
            BY <3>1 DEF LedgerInv, GrantsBurned
    <2>2. CASE u = t
        <3>1. x >= sequence /\ x \in Nat
            BY <2>2, <1>1, <1>4
        <3>2. v \in Tasks \ {t}
            BY <2>2
        <3>3. x < sequence
            BY <3>2, <2>1
        <3>4. QED
            BY <3>1, <3>3, <1>1
    <2>3. CASE v = t
        <3>1. x >= sequence /\ x \in Nat
            BY <2>3, <1>1, <1>4
        <3>2. u \in Tasks \ {t}
            BY <2>3
        <3>3. x < sequence
            BY <3>2, <2>1
        <3>4. QED
            BY <3>1, <3>3, <1>1
    <2>4. CASE u # t /\ v # t
        <3>1. x \in Granted(u) /\ x \in Granted(v)
            BY <2>4, <1>2 DEF Granted
        <3>2. QED
            BY <3>1 DEF LedgerInv, GrantsApart
    <2>5. QED
        BY <2>2, <2>3, <2>4
<1>9. TxsOfGrants'
    <2> SUFFICES ASSUME NEW tx \in txs
                 PROVE  /\ status'[tx.task] = "done"
                        /\ tx.proofs = grant'[tx.task].proofs
                        /\ tx.height = grant'[tx.task].height
        BY DEF Reserve, TxsOfGrants
    <2>1. status[tx.task] = "done" /\ tx.task # t
        BY DEF LedgerInv, TxsOfGrants, Reserve
    <2>2. QED
        BY <2>1, <1>2 DEF LedgerInv, TxsOfGrants, TypeOK, TxRecords, Reserve
<1>11. OpsChosen'
    BY DEF Reserve, LedgerInv, OpsChosen, TypeOK
<1>10. QED
    BY <1>5, <1>6, <1>7, <1>8, <1>9, <1>11 DEF LedgerInv

LEMMA AbortStep ==
    ASSUME LedgerAssumption, LedgerInv, NEW t \in Tasks, NEW o \in Ops, Abort(t, o)
    PROVE  LedgerInv'
<1>1. PICK n \in 0..NumProofs(o) : sequence + n <= MaxSequence /\ sequence' = sequence + n
    BY DEF Abort
<1>2. sequence \in Nat /\ sequence <= sequence' /\ sequence' \in InitSequence..MaxSequence
    BY <1>1, LedgerAssumption DEF LedgerAssumption, LedgerInv, TypeOK
<1>3. \A u \in Tasks : Granted(u)' = Granted(u)
    BY DEF Abort, Granted
<1>4. TypeOK'
    BY <1>2 DEF Abort, LedgerInv, TypeOK
<1>5. GrantsBurned'
    <2> SUFFICES ASSUME NEW u \in Tasks, NEW x \in Granted(u)'
                 PROVE  x < sequence'
        BY DEF GrantsBurned
    <2>1. x \in Granted(u)
        BY <1>3
    <2>4. x \in Nat
        BY <2>1 DEF Granted, LedgerInv, TypeOK
    <2>2. x < sequence
        BY <2>1 DEF LedgerInv, GrantsBurned
    <2>3. QED
        BY <2>4, <2>2, <1>2
<1>6. TxsOfGrants'
    <2> SUFFICES ASSUME NEW tx \in txs PROVE status'[tx.task] = "done"
        BY DEF Abort, LedgerInv, TxsOfGrants
    <2>1. status[tx.task] = "done" /\ tx.task # t
        BY DEF LedgerInv, TxsOfGrants, Abort
    <2>2. QED
        BY <2>1 DEF LedgerInv, TxsOfGrants, TypeOK, TxRecords, Abort
<1>7. QED
    BY <1>3, <1>4, <1>5, <1>6
    DEF Abort, LedgerInv, OpsChosen, GrantConsecutive, GrantsApart, TypeOK

LEMMA CompleteStep ==
    ASSUME LedgerInv, NEW t \in Tasks, Complete(t)
    PROVE  LedgerInv'
<1> DEFINE new == [task |-> t, op |-> op[t],
                   proofs |-> grant[t].proofs, height |-> grant[t].height]
<1>1. new \in TxRecords
    BY DEF Complete, LedgerInv, TypeOK, OpsChosen, TxRecords
<1>2. txs' \subseteq txs \cup {new}
    BY DEF Complete
<1>3. TypeOK'
    BY <1>1, <1>2 DEF Complete, LedgerInv, TypeOK
<1>4. TxsOfGrants'
    <2> SUFFICES ASSUME NEW tx \in txs'
                 PROVE  /\ status'[tx.task] = "done"
                        /\ tx.proofs = grant'[tx.task].proofs
                        /\ tx.height = grant'[tx.task].height
        BY DEF TxsOfGrants
    <2>1. CASE tx = new
        BY <2>1 DEF Complete, LedgerInv, TypeOK
    <2>2. CASE tx \in txs
        <3>1. status[tx.task] = "done" /\ tx.task # t /\ tx.task \in Tasks
            BY <2>2 DEF LedgerInv, TxsOfGrants, Complete, TypeOK, TxRecords
        <3>2. QED
            BY <2>2, <3>1 DEF LedgerInv, TxsOfGrants, TypeOK, Complete
    <2>3. QED
        BY <1>2, <2>1, <2>2
<1>5. OpsChosen'
    BY DEF Complete, LedgerInv, OpsChosen
<1>6. UNCHANGED <<sequence, grant>> /\ \A u \in Tasks : Granted(u)' = Granted(u)
    BY DEF Complete, Granted
<1>7. GrantConsecutive' /\ GrantsBurned' /\ GrantsApart'
    BY <1>6 DEF LedgerInv, GrantConsecutive, GrantsBurned, GrantsApart
<1>8. QED
    BY <1>3, <1>4, <1>5, <1>7 DEF LedgerInv

LEMMA DropStep ==
    ASSUME LedgerAssumption, LedgerInv, NEW t \in Tasks, Drop(t)
    PROVE  LedgerInv'
<1>1. /\ grant'[t] = NoGrant /\ Granted(t)' = {}
      /\ \A u \in Tasks \ {t} : grant'[u] = grant[u] /\ Granted(u)' = Granted(u)
    <2>1. grant'[t] = NoGrant /\ \A u \in Tasks \ {t} : grant'[u] = grant[u]
        BY DEF Drop, LedgerInv, TypeOK
    <2>2. Len(grant'[t].proofs) = 0
        BY <2>1 DEF NoGrant
    <2>3. QED
        BY <2>1, <2>2 DEF Granted
<1>2. TypeOK'
    BY <1>1, LedgerAssumption DEF LedgerAssumption, Drop, LedgerInv, TypeOK, NoGrant
<1>3. GrantConsecutive'
    BY <1>1 DEF LedgerInv, GrantConsecutive, NoGrant
<1>4. GrantsBurned' /\ GrantsApart'
    BY <1>1 DEF Drop, LedgerInv, GrantsBurned, GrantsApart
<1>5. TxsOfGrants'
    <2> SUFFICES ASSUME NEW tx \in txs
                 PROVE  /\ status'[tx.task] = "done"
                        /\ tx.proofs = grant'[tx.task].proofs
                        /\ tx.height = grant'[tx.task].height
        BY DEF Drop, TxsOfGrants
    <2>1. status[tx.task] = "done" /\ tx.task # t /\ tx.task \in Tasks
        BY DEF LedgerInv, TxsOfGrants, Drop, TypeOK, TxRecords
    <2>2. QED
        BY <2>1, <1>1 DEF LedgerInv, TxsOfGrants, TypeOK, Drop
<1>6. QED
    BY <1>2, <1>3, <1>4, <1>5 DEF Drop, LedgerInv, OpsChosen, TypeOK

LEMMA LedgerStep ==
    ASSUME LedgerAssumption
    PROVE  LedgerInv /\ [Next]_vars => LedgerInv'
<1> SUFFICES ASSUME LedgerInv, [Next]_vars PROVE LedgerInv'
    OBVIOUS
<1>1. CASE \E t \in Tasks, o \in Ops : Reserve(t, o)
    BY <1>1, ReserveStep
<1>2. CASE \E t \in Tasks, o \in Ops : Abort(t, o)
    BY <1>2, AbortStep
<1>3. CASE \E t \in Tasks : Complete(t)
    BY <1>3, CompleteStep
<1>4. CASE \E t \in Tasks : Drop(t)
    BY <1>4, DropStep
<1>5. CASE UNCHANGED vars
    <2>1. UNCHANGED <<sequence, status, op, grant, txs>>
        BY <1>5 DEF vars
    <2>2. \A u \in Tasks : Granted(u)' = Granted(u)
        BY <2>1 DEF Granted
    <2>3. TypeOK' /\ OpsChosen' /\ TxsOfGrants'
        BY <2>1 DEF LedgerInv, TypeOK, OpsChosen, TxsOfGrants
    <2>4. GrantConsecutive' /\ GrantsBurned' /\ GrantsApart'
        BY <2>1, <2>2 DEF LedgerInv, GrantConsecutive, GrantsBurned, GrantsApart
    <2>5. QED
        BY <2>3, <2>4 DEF LedgerInv
<1>6. QED
    BY <1>1, <1>2, <1>3, <1>4, <1>5 DEF Next

(***************************************************************************)
(* LedgerInv holds in every state of the ledger, for every set of calls,  *)
(* every factory and every bound the constant assumption allows.           *)
(***************************************************************************)
LEMMA LedgerInvariant ==
    ASSUME LedgerAssumption
    PROVE  Spec => []LedgerInv
<1>1. Init => LedgerInv
    BY LedgerInit
<1>2. LedgerInv /\ [Next]_vars => LedgerInv'
    BY LedgerStep
<1>3. QED
    BY <1>1, <1>2, PTL DEF Spec

(***************************************************************************)
(* The ledger's promise NoSequenceReuse: no two proofs of returned        *)
(* transactions carry the same sequence, whichever calls reserved,        *)
(* aborted, completed or dropped, in whatever order.  It follows from how  *)
(* Reserve hands out blocks; RefinementProofs carries it to the factories. *)
(***************************************************************************)
LEMMA LedgerNoReuse ==
    ASSUME LedgerAssumption
    PROVE  Spec => []NoSequenceReuse
<1>1. LedgerInv => NoSequenceReuse
    <2> SUFFICES ASSUME LedgerInv,
                        NEW x \in txs, NEW y \in txs,
                        NEW i \in 1..Len(x.proofs), NEW j \in 1..Len(y.proofs),
                        <<x.task, i>> # <<y.task, j>>
                 PROVE  x.proofs[i] # y.proofs[j]
        BY DEF NoSequenceReuse
    <2>1. /\ x.task \in Tasks /\ y.task \in Tasks
          /\ x.proofs = grant[x.task].proofs /\ y.proofs = grant[y.task].proofs
          /\ x.height = grant[x.task].height /\ y.height = grant[y.task].height
        BY DEF LedgerInv, TxsOfGrants, TypeOK, TxRecords
    <2>2. CASE x.task = y.task
        <3>1. i # j
            BY <2>2
        <3>2. /\ x.proofs[i] = x.height - Len(x.proofs) + i - 1
              /\ y.proofs[j] = y.height - Len(y.proofs) + j - 1
            BY <2>1 DEF LedgerInv, GrantConsecutive
        <3>3. x.height \in Nat /\ x.proofs \in Seq(Nat)
            BY DEF LedgerInv, TypeOK, TxRecords
        <3>5. x.proofs = y.proofs /\ x.height = y.height
            BY <2>1, <2>2
        <3>6. Len(x.proofs) \in Nat /\ i \in Nat /\ j \in Nat
            BY <3>3
        <3>4. QED
            BY <3>1, <3>2, <3>3, <3>5, <3>6
    <2>3. CASE x.task # y.task
        <3>1. x.proofs[i] \in Granted(x.task) /\ y.proofs[j] \in Granted(y.task)
            BY <2>1 DEF Granted
        <3>2. QED
            BY <2>3, <2>1, <3>1 DEF LedgerInv, GrantsApart
    <2>4. QED
        BY <2>2, <2>3
<1>2. QED
    BY <1>1, LedgerInvariant, PTL

=============================================================================
