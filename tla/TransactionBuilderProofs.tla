---------------------- MODULE TransactionBuilderProofs ----------------------
(***************************************************************************)
(* Proofs about TransactionBuilder for every value of its constants:       *)
(* any set of concurrent calls, any initial and maximal sequence, and both *)
(* the cooperative and the preemptive scheduling.                          *)
(***************************************************************************)
EXTENDS TransactionBuilder, SequenceTheorems, TLAPS

(***************************************************************************)
(* Type correctness.  TypeOK alone is not inductive: EmitTx records op[t]  *)
(* as the factory of the transaction, which needs op[t] to be a factory    *)
(* once the call has been made.                                            *)
(***************************************************************************)
TypeInv ==
    /\ TypeOK
    /\ \A t \in Tasks : pc[t] # "idle" => op[t] \in Ops

LEMMA TypeInit == Init => TypeInv
BY SequenceAssumption DEF Init, TypeInv, TypeOK, Labels, NoOp

LEMMA TypeStep == TypeInv /\ [Next]_vars => TypeInv'
<1> SUFFICES ASSUME TypeInv, [Next]_vars PROVE TypeInv'
    OBVIOUS
<1> USE SequenceAssumption DEF TypeInv, TypeOK, Labels
<1>1. ASSUME NEW t \in Tasks, NEW o \in Ops, Start(t, o) PROVE TypeInv'
    <2>1. FirstStep(o) \in Labels
        BY DEF FirstStep
    <2>2. QED
        BY <1>1, <2>1 DEF Start, Goto, Hold, Yield
<1>2. ASSUME NEW t \in Tasks, NEW o \in Ops, StartFails(t, o) PROVE TypeInv'
    BY <1>2 DEF StartFails, Fail, Goto, Yield
<1>3. ASSUME NEW t \in Tasks, QueryClientState(t) PROVE TypeInv'
    BY <1>3 DEF QueryClientState, Fail, Goto, Hold, Yield
<1>4. ASSUME NEW t \in Tasks, Prove(t) PROVE TypeInv'
    <2>1. Append(proofs[t], chain[t]) \in Seq(Nat)
        BY AppendProperties
    <2>2. pc[t] = "prove" /\ UNCHANGED <<sequence, op, chain, txs>>
        BY <1>4 DEF Prove
    <2>3. CASE /\ proofs' = [proofs EXCEPT ![t] = Append(@, chain[t])]
               /\ Goto(t, "incr")
               /\ Hold(t)
        <3>1. proofs' \in [Tasks -> Seq(Nat)]
            BY <2>1, <2>3
        <3>2. pc' \in [Tasks -> Labels] /\ owner' \in Tasks \cup {NoTask}
            BY <2>3 DEF Goto, Hold
        <3>3. \A u \in Tasks : pc'[u] # "idle" => op'[u] \in Ops
            BY <2>2, <2>3 DEF Goto
        <3>4. QED
            BY <2>2, <3>1, <3>2, <3>3
    <2>4. CASE Fail(t) /\ UNCHANGED proofs
        BY <2>2, <2>4 DEF Fail, Goto, Yield
    <2>5. QED
        BY <1>4, <2>3, <2>4 DEF Prove
<1>5. ASSUME NEW t \in Tasks, IncrementSequence(t) PROVE TypeInv'
    <2>0. pc[t] = "incr"
        BY <1>5 DEF IncrementSequence
    <2>1. CASE /\ sequence < MaxSequence
               /\ sequence' = sequence + 1
               /\ chain' = [chain EXCEPT ![t] = sequence + 1]
               /\ Goto(t, IF Len(proofs[t]) = Len(ProofPlan(op[t])) THEN "build" ELSE "prove")
               /\ Hold(t)
               /\ UNCHANGED <<op, proofs, txs>>
        <3>1. sequence' \in InitSequence..MaxSequence
            BY <2>1
        <3>2. pc' \in [Tasks -> Labels] /\ chain' \in [Tasks -> Nat]
            BY <2>0, <2>1 DEF Goto
        <3>3. owner' \in Tasks \cup {NoTask}
            BY <2>1 DEF Hold
        <3>4. \A u \in Tasks : pc'[u] # "idle" => op'[u] \in Ops
            BY <2>0, <2>1 DEF Goto
        <3>5. /\ op' \in [Tasks -> Ops \cup {NoOp}] /\ proofs' \in [Tasks -> Seq(Nat)]
              /\ txs' \subseteq TxRecords
            BY <2>1
        <3>6. QED
            BY <3>1, <3>2, <3>3, <3>4, <3>5
    <2>2. CASE /\ Fail(t)
               /\ UNCHANGED <<sequence, chain>>
               /\ UNCHANGED <<op, proofs, txs>>
        BY <2>0, <2>2 DEF Fail, Goto, Yield
    <2>3. QED
        BY <1>5, <2>1, <2>2 DEF IncrementSequence
<1>6. ASSUME NEW t \in Tasks, BuildBody(t) PROVE TypeInv'
    BY <1>6 DEF BuildBody, Goto, Yield
<1>7. ASSUME NEW t \in Tasks, EmitTx(t) PROVE TypeInv'
    <2>1. [task |-> t, op |-> op[t], proofs |-> proofs[t], height |-> chain[t]]
           \in TxRecords
        BY <1>7 DEF EmitTx, TxRecords
    <2>2. QED
        BY <1>7, <2>1 DEF EmitTx, Goto, Yield
<1>8. ASSUME NEW t \in Tasks, TmClientStep(t) PROVE TypeInv'
    BY <1>8 DEF TmClientStep, Goto, Yield
<1>9. CASE Terminated \/ UNCHANGED vars
    BY <1>9 DEF Terminated, vars
<1>10. QED
    BY <1>1, <1>2, <1>3, <1>4, <1>5, <1>6, <1>7, <1>8, <1>9 DEF Next, Running

(***************************************************************************)
(* Every state of every behaviour is well typed (TypeOK, checked by every  *)
(* run), for every value of the constants.                                 *)
(***************************************************************************)
THEOREM TypeCorrect == Spec => []TypeOK
<1>1. Init => TypeInv
    BY TypeInit
<1>2. TypeInv /\ [Next]_vars => TypeInv'
    BY TypeStep
<1>3. TypeInv => TypeOK
    BY DEF TypeInv
<1>4. QED
    BY <1>1, <1>2, <1>3, PTL DEF Spec

(***************************************************************************)
(* Burned sequences.  UsedSequencesBurned is not inductive: it speaks of   *)
(* emitted transactions only, and a call's proofs become a transaction    *)
(* long after they were signed.  The strengthening follows each call:     *)
(* its snapshot never runs ahead of the store; every proof it signed is at *)
(* most the stored sequence, and below it except between the proof and    *)
(* its increment (pc = "incr") or after the call failed; a call that has   *)
(* not started has signed nothing; and an emitted transaction is the      *)
(* finished call's proofs and snapshot.                                    *)
(***************************************************************************)
Signed(t) == {proofs[t][i] : i \in 1..Len(proofs[t])}

Unburned(t) == pc[t] \in {"incr", "failed"}

SnapshotBehind == \A t \in Tasks : chain[t] <= sequence

IdleUnsigned == \A t \in Tasks : pc[t] = "idle" => proofs[t] = << >>

SignedBurned ==
    \A t \in Tasks : \A s \in Signed(t) :
        /\ s <= sequence
        /\ ~Unburned(t) => s < sequence

TxsOfDoneCalls ==
    \A tx \in txs :
        /\ pc[tx.task] = "done"
        /\ tx.proofs = proofs[tx.task]
        /\ tx.height = chain[tx.task]

BurnInv ==
    /\ TypeInv
    /\ SnapshotBehind
    /\ IdleUnsigned
    /\ SignedBurned
    /\ TxsOfDoneCalls

LEMMA BurnInit == Init => BurnInv
BY TypeInit, SequenceAssumption
   DEF Init, BurnInv, SnapshotBehind, IdleUnsigned, SignedBurned, TxsOfDoneCalls, Signed

(***************************************************************************)
(* What Append adds to the set of signed sequences.                        *)
(***************************************************************************)
LEMMA SignedAppend ==
    ASSUME NEW sq \in Seq(Nat), NEW x \in Nat
    PROVE  {Append(sq, x)[i] : i \in 1..Len(Append(sq, x))}
             = {sq[i] : i \in 1..Len(sq)} \cup {x}
<1>1. /\ Len(Append(sq, x)) = Len(sq) + 1
      /\ \A i \in 1..Len(sq) : Append(sq, x)[i] = sq[i]
      /\ Append(sq, x)[Len(sq) + 1] = x
    BY AppendProperties
<1>2. QED
    BY <1>1

(***************************************************************************)
(* A step that only moves one started, unfinished call to another label   *)
(* keeps BurnInv, unless it takes a call out of the window between a proof *)
(* and its increment to anywhere but a failure.                            *)
(***************************************************************************)
LEMMA MoveStep ==
    ASSUME BurnInv, TypeInv',
           NEW t \in Tasks, NEW l \in Labels \ {"idle"},
           pc[t] \notin {"idle", "done"},
           Unburned(t) => l \in {"incr", "failed"},
           pc' = [pc EXCEPT ![t] = l],
           UNCHANGED <<sequence, op, chain, proofs, txs>>
    PROVE  BurnInv'
<1> USE DEF BurnInv, TypeInv, TypeOK
<1>1. SnapshotBehind'
    BY DEF SnapshotBehind
<1>2. IdleUnsigned'
    BY DEF IdleUnsigned
<1>3. SignedBurned'
    BY DEF SignedBurned, Signed, Unburned
<1>4. TxsOfDoneCalls'
    BY DEF TxsOfDoneCalls, TxRecords
<1>5. QED
    BY <1>1, <1>2, <1>3, <1>4

LEMMA BurnStep == BurnInv /\ [Next]_vars => BurnInv'
<1> SUFFICES ASSUME BurnInv, [Next]_vars PROVE BurnInv'
    OBVIOUS
<1>0. TypeInv'
    BY TypeStep DEF BurnInv
<1> USE SequenceAssumption DEF BurnInv, TypeInv, TypeOK, TxRecords
<1>1. ASSUME NEW t \in Tasks, NEW o \in Ops, Start(t, o) PROVE BurnInv'
    <2>1. FirstStep(o) # "idle" /\ ~Unburned(t)'
        BY <1>1 DEF FirstStep, Start, Goto, Unburned
    <2>2. pc[t] = "idle" /\ proofs[t] = << >>
        BY <1>1 DEF Start, IdleUnsigned
    <2>3. SnapshotBehind'
        BY <1>1 DEF Start, SnapshotBehind
    <2>4. IdleUnsigned'
        BY <1>1, <2>1 DEF Start, Goto, IdleUnsigned
    <2>5. SignedBurned'
        BY <1>1, <2>2 DEF Start, Goto, SignedBurned, Signed, Unburned
    <2>6. TxsOfDoneCalls'
        BY <1>1, <2>2 DEF Start, Goto, TxsOfDoneCalls
    <2>7. QED
        BY <1>0, <2>3, <2>4, <2>5, <2>6
<1>2. ASSUME NEW t \in Tasks, NEW o \in Ops, StartFails(t, o) PROVE BurnInv'
    <2>1. pc[t] = "idle" /\ proofs[t] = << >>
        BY <1>2 DEF StartFails, IdleUnsigned
    <2>2. SnapshotBehind'
        BY <1>2 DEF StartFails, SnapshotBehind
    <2>3. IdleUnsigned'
        BY <1>2 DEF StartFails, Fail, Goto, IdleUnsigned
    <2>4. SignedBurned'
        BY <1>2, <2>1 DEF StartFails, Fail, Goto, SignedBurned, Signed, Unburned
    <2>5. TxsOfDoneCalls'
        BY <1>2, <2>1 DEF StartFails, Fail, Goto, TxsOfDoneCalls
    <2>6. QED
        BY <1>0, <2>2, <2>3, <2>4, <2>5
<1>3. ASSUME NEW t \in Tasks, QueryClientState(t) PROVE BurnInv'
    <2>1. pc[t] = "query"
        BY <1>3 DEF QueryClientState
    <2>2. CASE Goto(t, "prove")
        BY <1>0, <1>3, <2>1, <2>2, MoveStep DEF QueryClientState, Goto, Unburned, Labels
    <2>3. CASE Fail(t)
        BY <1>0, <1>3, <2>1, <2>3, MoveStep DEF QueryClientState, Fail, Goto, Unburned, Labels
    <2>4. QED
        BY <1>3, <2>2, <2>3 DEF QueryClientState
<1>4. ASSUME NEW t \in Tasks, Prove(t) PROVE BurnInv'
    <2>1. CASE /\ proofs' = [proofs EXCEPT ![t] = Append(proofs[t], chain[t])]
               /\ Goto(t, "incr")
               /\ UNCHANGED <<sequence, op, chain, txs>>
        <3>1. Signed(t)' = Signed(t) \cup {chain[t]}
            <4>1. proofs'[t] = Append(proofs[t], chain[t])
                BY <2>1
            <4>2. proofs[t] \in Seq(Nat) /\ chain[t] \in Nat
                OBVIOUS
            <4>3. {Append(proofs[t], chain[t])[i] : i \in 1..Len(Append(proofs[t], chain[t]))}
                    = Signed(t) \cup {chain[t]}
                BY <4>2, SignedAppend DEF Signed
            <4>4. QED
                BY <4>1, <4>3 DEF Signed
        <3>2. pc[t] = "prove"
            BY <1>4 DEF Prove
        <3>3. SignedBurned'
            <4> SUFFICES ASSUME NEW u \in Tasks, NEW s \in Signed(u)'
                         PROVE  /\ s <= sequence'
                                /\ ~Unburned(u)' => s < sequence'
                BY DEF SignedBurned
            <4>1. CASE u = t
                <5>1. s \in Signed(t) \/ s = chain[t]
                    BY <3>1, <4>1
                <5>2. Unburned(t)'
                    BY <2>1 DEF Unburned, Goto
                <5>3. QED
                    BY <2>1, <4>1, <5>1, <5>2 DEF SignedBurned, SnapshotBehind
            <4>2. CASE u # t
                BY <2>1, <4>2 DEF SignedBurned, Signed, Unburned, Goto
            <4>3. QED
                BY <4>1, <4>2
        <3>4. QED
            BY <1>0, <2>1, <3>2, <3>3 DEF Goto, SnapshotBehind, IdleUnsigned, TxsOfDoneCalls
    <2>2. CASE /\ Fail(t) /\ UNCHANGED proofs
               /\ UNCHANGED <<sequence, op, chain, txs>>
        BY <1>0, <1>4, <2>2, MoveStep DEF Prove, Fail, Goto, Unburned, Labels
    <2>3. QED
        BY <1>4, <2>1, <2>2 DEF Prove
<1>5. ASSUME NEW t \in Tasks, IncrementSequence(t) PROVE BurnInv'
    <2>0. pc[t] = "incr"
        BY <1>5 DEF IncrementSequence
    <2>1. CASE /\ sequence < MaxSequence
               /\ sequence' = sequence + 1
               /\ chain' = [chain EXCEPT ![t] = sequence + 1]
               /\ Goto(t, IF Len(proofs[t]) = Len(ProofPlan(op[t])) THEN "build" ELSE "prove")
               /\ UNCHANGED <<op, proofs, txs>>
        <3>1. SnapshotBehind'
            BY <2>1 DEF SnapshotBehind
        <3>2. IdleUnsigned'
            BY <2>0, <2>1 DEF IdleUnsigned, Goto
        <3>3. SignedBurned'
            <4> SUFFICES ASSUME NEW u \in Tasks, NEW s \in Signed(u)'
                         PROVE  s <= sequence' /\ s < sequence'
                BY DEF SignedBurned
            <4>1. s \in Signed(u)
                BY <2>1 DEF Signed
            <4>2. s <= sequence
                BY <4>1 DEF SignedBurned
            <4>4. s \in Nat
                <5>1. proofs[u] \in Seq(Nat)
                    OBVIOUS
                <5>2. QED
                    BY <4>1, <5>1 DEF Signed
            <4>3. QED
                BY <2>1, <4>2, <4>4
        <3>4. TxsOfDoneCalls'
            BY <2>0, <2>1 DEF TxsOfDoneCalls, Goto
        <3>5. QED
            BY <1>0, <3>1, <3>2, <3>3, <3>4
    <2>2. CASE /\ Fail(t)
               /\ UNCHANGED <<sequence, chain>>
               /\ UNCHANGED <<op, proofs, txs>>
        BY <1>0, <2>0, <2>2, MoveStep DEF Fail, Goto, Unburned, Labels
    <2>3. QED
        BY <1>5, <2>1, <2>2 DEF IncrementSequence
<1>6. ASSUME NEW t \in Tasks, BuildBody(t) PROVE BurnInv'
    BY <1>0, <1>6, MoveStep DEF BuildBody, Goto, Unburned, Labels
<1>7. ASSUME NEW t \in Tasks, EmitTx(t) PROVE BurnInv'
    <2>1. pc[t] = "account"
        BY <1>7 DEF EmitTx
    <2>2. CASE /\ txs' = txs \cup {[task |-> t, op |-> op[t], proofs |-> proofs[t],
                                    height |-> chain[t]]}
               /\ Goto(t, "done")
               /\ UNCHANGED <<sequence, op, chain, proofs>>
        <3>1. SignedBurned'
            BY <2>1, <2>2 DEF SignedBurned, Signed, Unburned, Goto
        <3>2. TxsOfDoneCalls'
            BY <2>1, <2>2 DEF TxsOfDoneCalls, Goto
        <3>3. QED
            BY <1>0, <2>1, <2>2, <3>1, <3>2 DEF Goto, SnapshotBehind, IdleUnsigned
    <2>3. CASE /\ Goto(t, "failed") /\ UNCHANGED txs
               /\ UNCHANGED <<sequence, op, chain, proofs>>
        BY <1>0, <2>1, <2>3, MoveStep DEF Goto, Unburned, Labels
    <2>4. QED
        BY <1>7, <2>2, <2>3 DEF EmitTx
<1>8. ASSUME NEW t \in Tasks, TmClientStep(t) PROVE BurnInv'
    <2>1. pc[t] \in {"unbonding", "status", "block"}
        BY <1>8 DEF TmClientStep
    <2>2. QED
        BY <1>0, <1>8, <2>1, MoveStep DEF TmClientStep, Goto, Unburned, Labels
<1>9. CASE Terminated \/ UNCHANGED vars
    <2>1. UNCHANGED <<sequence, pc, chain, proofs, txs>>
        BY <1>9 DEF Terminated, vars
    <2>2. SnapshotBehind' /\ IdleUnsigned' /\ TxsOfDoneCalls'
        BY <2>1 DEF SnapshotBehind, IdleUnsigned, TxsOfDoneCalls
    <2>3. SignedBurned'
        BY <2>1 DEF SignedBurned, Signed, Unburned
    <2>4. QED
        BY <1>0, <2>2, <2>3
<1>10. QED
    BY <1>1, <1>2, <1>3, <1>4, <1>5, <1>6, <1>7, <1>8, <1>9 DEF Next, Running

(***************************************************************************)
(* Spec 9 for every value of the constants, under either scheduling: the  *)
(* stored sequence stays above every sequence an emitted transaction       *)
(* signed and at or above its proof_height (UsedSequencesBurned, checked   *)
(* by the parallel run).                                                   *)
(***************************************************************************)
THEOREM SequencesBurned == Spec => []UsedSequencesBurned
<1>1. Init => BurnInv
    BY BurnInit
<1>2. BurnInv /\ [Next]_vars => BurnInv'
    BY BurnStep
<1>3. BurnInv => UsedSequencesBurned
    <2> SUFFICES ASSUME BurnInv, NEW tx \in txs
                 PROVE  /\ tx.height <= sequence
                        /\ \A i \in 1..Len(tx.proofs) : tx.proofs[i] < sequence
        BY DEF UsedSequencesBurned
    <2>1. /\ tx.task \in Tasks /\ pc[tx.task] = "done"
          /\ tx.proofs = proofs[tx.task] /\ tx.height = chain[tx.task]
        BY DEF BurnInv, TxsOfDoneCalls, TypeInv, TypeOK, TxRecords
    <2>2. tx.height <= sequence
        BY <2>1 DEF BurnInv, SnapshotBehind
    <2>3. ASSUME NEW i \in 1..Len(tx.proofs) PROVE tx.proofs[i] < sequence
        <3>1. tx.proofs[i] \in Signed(tx.task)
            BY <2>1 DEF Signed
        <3>2. ~Unburned(tx.task)
            BY <2>1 DEF Unburned
        <3>3. QED
            BY <2>1, <3>1, <3>2 DEF BurnInv, SignedBurned
    <2>4. QED
        BY <2>2, <2>3
<1>4. QED
    BY <1>1, <1>2, <1>3, PTL DEF Spec

(***************************************************************************)
(* Increasing proofs.  ProofsIncrease speaks of emitted transactions; the *)
(* strengthening follows each call: its proofs increase and none is above *)
(* its snapshot, and once the increment after the last proof has returned *)
(* (the call is out of the Unburned window) they are all below it.  The   *)
(* increment lifts the snapshot to the stored sequence plus one, above    *)
(* any stale snapshot the call signed with (SnapshotBehind).              *)
(***************************************************************************)
Increasing(t) ==
    \A i \in 1..Len(proofs[t]) :
        /\ i < Len(proofs[t]) => proofs[t][i] < proofs[t][i + 1]
        /\ proofs[t][i] <= chain[t]
        /\ ~Unburned(t) => proofs[t][i] < chain[t]

CallProofsIncrease == \A t \in Tasks : Increasing(t)

IncInv == BurnInv /\ CallProofsIncrease

\* A step that leaves proofs and snapshots alone and takes no call out of
\* the Unburned window keeps every call's proofs increasing.
LEMMA IncFrame ==
    ASSUME CallProofsIncrease, proofs' = proofs, chain' = chain,
           \A u \in Tasks : Unburned(u) => Unburned(u)'
    PROVE  CallProofsIncrease'
BY DEF CallProofsIncrease, Increasing

\* The same for a step that moves one call to label l, unless it takes the
\* call out of the Unburned window.
LEMMA IncMove ==
    ASSUME CallProofsIncrease, proofs' = proofs, chain' = chain,
           NEW t \in Tasks, NEW l, pc' = [pc EXCEPT ![t] = l],
           pc \in [Tasks -> Labels], Unburned(t) => l \in {"incr", "failed"}
    PROVE  CallProofsIncrease'
<1>1. \A u \in Tasks : Unburned(u) => Unburned(u)'
    BY DEF Unburned
<1>2. QED
    BY <1>1, IncFrame

LEMMA IncStep == IncInv /\ [Next]_vars => CallProofsIncrease'
<1> SUFFICES ASSUME IncInv, [Next]_vars PROVE CallProofsIncrease'
    OBVIOUS
<1>0. /\ CallProofsIncrease /\ SnapshotBehind /\ IdleUnsigned
      /\ pc \in [Tasks -> Labels] /\ proofs \in [Tasks -> Seq(Nat)]
      /\ chain \in [Tasks -> Nat] /\ sequence \in Nat
    BY SequenceAssumption DEF IncInv, BurnInv, TypeInv, TypeOK
<1>1. ASSUME NEW t \in Tasks, NEW o \in Ops, Start(t, o) PROVE CallProofsIncrease'
    <2>1. proofs[t] = << >> /\ proofs' = proofs
        BY <1>0, <1>1 DEF Start, IdleUnsigned
    <2>2. \A u \in Tasks \ {t} : chain'[u] = chain[u] /\ pc'[u] = pc[u]
        BY <1>0, <1>1 DEF Start, Goto
    <2>3. Increasing(t)'
        <3>1. Len(proofs'[t]) = 0
            BY <1>0, <2>1
        <3>2. QED
            BY <1>0, <3>1 DEF Increasing
    <2>4. ASSUME NEW u \in Tasks \ {t} PROVE Increasing(u)'
        <3>1. proofs'[u] = proofs[u] /\ chain'[u] = chain[u] /\ pc'[u] = pc[u]
            BY <1>0, <2>1, <2>2
        <3>2. Increasing(u)
            BY <1>0 DEF CallProofsIncrease
        <3>3. QED
            BY <1>0, <3>1, <3>2 DEF Increasing, Unburned
    <2>5. QED
        BY <1>0, <2>3, <2>4 DEF CallProofsIncrease
<1>2. ASSUME NEW t \in Tasks, NEW o \in Ops, StartFails(t, o) PROVE CallProofsIncrease'
    <2>1. pc[t] = "idle"
        BY <1>0, <1>2 DEF StartFails
    <2>2. PICK l : pc' = [pc EXCEPT ![t] = l] /\ proofs' = proofs /\ chain' = chain
        BY <1>0, <1>2 DEF StartFails, Fail, Goto
    <2>3. ~Unburned(t)
        BY <1>0, <2>1 DEF Unburned
    <2>4. QED
        BY <1>0, <2>2, <2>3, IncMove
<1>3. ASSUME NEW t \in Tasks, QueryClientState(t) PROVE CallProofsIncrease'
    <2>1. pc[t] = "query"
        BY <1>0, <1>3 DEF QueryClientState
    <2>2. PICK l : pc' = [pc EXCEPT ![t] = l] /\ proofs' = proofs /\ chain' = chain
        BY <1>0, <1>3 DEF QueryClientState, Fail, Goto
    <2>3. ~Unburned(t)
        BY <1>0, <2>1 DEF Unburned
    <2>4. QED
        BY <1>0, <2>2, <2>3, IncMove
<1>4. ASSUME NEW t \in Tasks, Prove(t) PROVE CallProofsIncrease'
    <2>0. pc[t] = "prove" /\ chain' = chain
        BY <1>0, <1>4 DEF Prove
    <2>1. CASE /\ proofs' = [proofs EXCEPT ![t] = Append(proofs[t], chain[t])]
               /\ Goto(t, "incr")
        <3> DEFINE n == Len(proofs[t])
        <3>1. /\ proofs[t] \in Seq(Nat) /\ chain[t] \in Nat /\ n \in Nat
              /\ Len(proofs'[t]) = n + 1
              /\ \A i \in 1..n : proofs'[t][i] = proofs[t][i]
              /\ proofs'[t][n + 1] = chain[t]
            BY <1>0, <2>1, AppendProperties
        <3>2. \A i \in 1..n : proofs[t][i] < chain[t]
            BY <1>0, <2>0 DEF CallProofsIncrease, Increasing, Unburned
        <3>3. Increasing(t)'
            <4> SUFFICES ASSUME NEW i \in 1..n + 1
                         PROVE  /\ i < n + 1 => proofs'[t][i] < proofs'[t][i + 1]
                                /\ proofs'[t][i] <= chain'[t]
                BY <1>0, <3>1, <2>1 DEF Increasing, Unburned, Goto
            <4>1. CASE i = n + 1
                BY <1>0, <4>1, <3>1, <2>0
            <4>2. CASE i < n
                <5>1. i \in 1..n /\ i + 1 \in 1..n
                    BY <1>0, <4>2, <3>1
                <5>2. proofs[t][i] < proofs[t][i + 1]
                    BY <1>0, <4>2, <5>1, <3>1 DEF CallProofsIncrease, Increasing
                <5>3. QED
                    BY <1>0, <5>1, <5>2, <3>1, <3>2, <2>0
            <4>3. CASE i = n
                BY <1>0, <4>3, <3>1, <3>2, <2>0
            <4>4. QED
                BY <1>0, <4>1, <4>2, <4>3, <3>1
        <3>4. \A u \in Tasks \ {t} : Increasing(u)'
            BY <1>0, <2>0, <2>1 DEF CallProofsIncrease, Increasing, Unburned, Goto
        <3>5. QED
            BY <1>0, <3>3, <3>4 DEF CallProofsIncrease
    <2>2. CASE Fail(t) /\ UNCHANGED proofs
        <3>1. pc' = [pc EXCEPT ![t] = "failed"]
            BY <1>0, <2>2 DEF Fail, Goto
        <3>2. Unburned(t) => "failed" \in {"incr", "failed"}
            OBVIOUS
        <3>3. QED
            BY <1>0, <2>0, <2>2, <3>1, <3>2, IncMove
    <2>3. QED
        BY <1>0, <1>4, <2>1, <2>2 DEF Prove
<1>5. ASSUME NEW t \in Tasks, IncrementSequence(t) PROVE CallProofsIncrease'
    <2>0. pc[t] = "incr" /\ proofs' = proofs
        BY <1>0, <1>5 DEF IncrementSequence
    <2>1. CASE /\ sequence' = sequence + 1
               /\ chain' = [chain EXCEPT ![t] = sequence + 1]
               /\ Goto(t, IF Len(proofs[t]) = Len(ProofPlan(op[t])) THEN "build" ELSE "prove")
        <3>1. \A i \in 1..Len(proofs[t]) : proofs[t][i] < chain'[t]
            <4> SUFFICES ASSUME NEW i \in 1..Len(proofs[t]) PROVE proofs[t][i] < sequence + 1
                BY <1>0, <2>1
            <4>1. proofs[t][i] <= chain[t] /\ chain[t] <= sequence
                BY <1>0 DEF CallProofsIncrease, Increasing, SnapshotBehind
            <4>2. proofs[t][i] \in Nat
                BY <1>0, ElementOfSeq
            <4>3. QED
                BY <1>0, <4>1, <4>2
        <3>2. Increasing(t)'
            BY <1>0, <2>0, <2>1, <3>1 DEF CallProofsIncrease, Increasing
        <3>3. \A u \in Tasks \ {t} : Increasing(u)'
            BY <1>0, <2>0, <2>1 DEF CallProofsIncrease, Increasing, Unburned, Goto
        <3>4. QED
            BY <1>0, <3>2, <3>3 DEF CallProofsIncrease
    <2>2. CASE Fail(t) /\ UNCHANGED chain
        <3>1. pc' = [pc EXCEPT ![t] = "failed"]
            BY <1>0, <2>2 DEF Fail, Goto
        <3>2. Unburned(t) => "failed" \in {"incr", "failed"}
            OBVIOUS
        <3>3. QED
            BY <1>0, <2>0, <2>2, <3>1, <3>2, IncMove
    <2>3. QED
        BY <1>0, <1>5, <2>1, <2>2 DEF IncrementSequence
<1>6. ASSUME NEW t \in Tasks, BuildBody(t) PROVE CallProofsIncrease'
    <2>1. pc[t] = "build"
        BY <1>0, <1>6 DEF BuildBody
    <2>2. PICK l : pc' = [pc EXCEPT ![t] = l] /\ proofs' = proofs /\ chain' = chain
        BY <1>0, <1>6 DEF BuildBody, Goto
    <2>3. ~Unburned(t)
        BY <1>0, <2>1 DEF Unburned
    <2>4. QED
        BY <1>0, <2>2, <2>3, IncMove
<1>7. ASSUME NEW t \in Tasks, EmitTx(t) PROVE CallProofsIncrease'
    <2>1. pc[t] = "account"
        BY <1>0, <1>7 DEF EmitTx
    <2>2. PICK l : pc' = [pc EXCEPT ![t] = l] /\ proofs' = proofs /\ chain' = chain
        BY <1>0, <1>7 DEF EmitTx, Goto
    <2>3. ~Unburned(t)
        BY <1>0, <2>1 DEF Unburned
    <2>4. QED
        BY <1>0, <2>2, <2>3, IncMove
<1>8. ASSUME NEW t \in Tasks, TmClientStep(t) PROVE CallProofsIncrease'
    <2>1. pc[t] \in {"unbonding", "status", "block"}
        BY <1>0, <1>8 DEF TmClientStep
    <2>2. PICK l : pc' = [pc EXCEPT ![t] = l] /\ proofs' = proofs /\ chain' = chain
        BY <1>0, <1>8 DEF TmClientStep, Goto
    <2>3. ~Unburned(t)
        BY <1>0, <2>1 DEF Unburned
    <2>4. QED
        BY <1>0, <2>2, <2>3, IncMove
<1>9. CASE Terminated \/ UNCHANGED vars
    BY <1>0, <1>9, IncFrame DEF Terminated, vars, Unburned
<1>10. QED
    BY <1>1, <1>2, <1>3, <1>4, <1>5, <1>6, <1>7, <1>8, <1>9 DEF Next, Running

(***************************************************************************)
(* Under either scheduling, each returned TxRaw's proofs sign strictly     *)
(* increasing sequences below its proof_height (ProofsIncrease, checked by *)
(* the parallel run), for every value of the constants: a parallel call   *)
(* may reuse another call's sequence, never its own.                      *)
(***************************************************************************)
THEOREM ProofsIncreaseAlways == Spec => []ProofsIncrease
<1>1. Init => IncInv
    BY BurnInit DEF Init, IncInv, CallProofsIncrease, Increasing
<1>2. IncInv /\ [Next]_vars => IncInv'
    BY BurnStep, IncStep DEF IncInv
<1>3. IncInv => ProofsIncrease
    <2> SUFFICES ASSUME IncInv, NEW tx \in txs, NEW i \in 1..Len(tx.proofs)
                 PROVE  /\ i < Len(tx.proofs) => tx.proofs[i] < tx.proofs[i + 1]
                        /\ tx.proofs[i] < tx.height
        BY DEF ProofsIncrease
    <2>1. /\ tx.task \in Tasks /\ pc[tx.task] = "done"
          /\ tx.proofs = proofs[tx.task] /\ tx.height = chain[tx.task]
        BY DEF IncInv, BurnInv, TxsOfDoneCalls, TypeInv, TypeOK, TxRecords
    <2>2. ~Unburned(tx.task)
        BY <2>1 DEF Unburned
    <2>3. QED
        BY <2>1, <2>2 DEF IncInv, CallProofsIncrease, Increasing
<1>4. QED
    BY <1>1, <1>2, <1>3, PTL DEF Spec

=============================================================================
