-------------------------- MODULE RefinementProofs ---------------------------
(***************************************************************************)
(* Proof that, on one cooperative executor, the message factories          *)
(* implement SequenceLedger under the refinement mapping of                *)
(* TransactionBuilder (ImplementsLedger, checked by the refinement run).   *)
(*                                                                         *)
(* CoopInv says the call in its stretch is alone and its proofs count up  *)
(* from where it read the chain.  The mapping also needs to know how far  *)
(* through its plan of proofs that call is: it has signed fewer than its   *)
(* factory needs while it is about to prove, at least one and at most all *)
(* of them while it is about to increment, and a call not yet made has no  *)
(* factory.                                                                *)
(***************************************************************************)
EXTENDS CooperativeProofs

\* The number of proofs call t's factory signs.
Planned(t) == Len(ProofPlan(op[t]))

\* A factory signs at most three proofs.
LEMMA PlanLen ==
    ASSUME NEW o
    PROVE  Len(ProofPlan(o)) \in 0..3
BY DEF ProofPlan


Shape(t) ==
    /\ pc[t] = "idle"  => op[t] = NoOp
    /\ pc[t] = "query" => op[t] = "ConnOpenAck" /\ proofs[t] = << >>
    /\ pc[t] = "prove" => Len(proofs[t]) < Planned(t)
    /\ pc[t] = "incr"  => 1 <= Len(proofs[t]) /\ Len(proofs[t]) <= Planned(t)

StretchShape == \A t \in Tasks : Shape(t)

RefInv == CoopInv /\ StretchShape


\* No call has started in the initial state.
LEMMA ShapeInit == Init => StretchShape
BY DEF Init, StretchShape, Shape

\* Shape(u) depends only on u's pc, factory and proofs.
LEMMA ShapeFrame ==
    ASSUME NEW u \in Tasks, pc'[u] = pc[u], op'[u] = op[u], proofs'[u] = proofs[u]
    PROVE  Shape(u)' = Shape(u)
BY DEF Shape, Planned

\* Every step keeps each call within its plan of proofs.
LEMMA ShapeStep ==
    ASSUME TypeInv, TypeInv', IdleUnsigned, StretchShape, [Next]_vars
    PROVE  StretchShape'
<1> SUFFICES ASSUME NEW u \in Tasks PROVE Shape(u)'
    BY DEF StretchShape
<1> USE DEF TypeInv, TypeOK
<1>0. Shape(u)
    BY DEF StretchShape
<1>1. ASSUME NEW t \in Tasks, NEW o \in Ops, Start(t, o) PROVE Shape(u)'
    <2>1. CASE u = t
        <3>1. pc[t] = "idle" /\ proofs'[t] = << >> /\ op'[t] = o
            BY <1>1 DEF Start, IdleUnsigned
        <3>2. pc'[t] = FirstStep(o)
            BY <1>1 DEF Start, Goto
        <3>3. QED
            BY <2>1, <3>1, <3>2 DEF FirstStep, Shape, Planned, ProofPlan
    <2>2. CASE u # t
        BY <1>0, <1>1, <2>2, ShapeFrame DEF Start, Goto
    <2>3. QED
        BY <2>1, <2>2
<1>2. ASSUME NEW t \in Tasks, NEW o \in Ops, StartFails(t, o) PROVE Shape(u)'
    BY <1>0, <1>2, ShapeFrame DEF StartFails, Fail, Goto, Shape
<1>3. ASSUME NEW t \in Tasks, QueryClientState(t) PROVE Shape(u)'
    <2>1. CASE u = t
        BY <1>0, <1>3, <2>1 DEF QueryClientState, Fail, Goto, Shape, Planned, ProofPlan
    <2>2. CASE u # t
        BY <1>0, <1>3, <2>2, ShapeFrame DEF QueryClientState, Fail, Goto
    <2>3. QED
        BY <2>1, <2>2
<1>4. ASSUME NEW t \in Tasks, Prove(t) PROVE Shape(u)'
    <2>1. CASE u = t
        <3>1. pc[t] = "prove" /\ op'[t] = op[t]
            BY <1>4 DEF Prove
        <3>2. CASE /\ proofs' = [proofs EXCEPT ![t] = Append(proofs[t], chain[t])]
                   /\ Goto(t, "incr")
            <4>1. Len(proofs'[t]) = Len(proofs[t]) + 1
                BY <3>2, AppendProperties
            <4>2. QED
                BY <1>0, <2>1, <3>1, <3>2, <4>1 DEF Goto, Shape, Planned
        <3>3. CASE Fail(t)
            BY <2>1, <3>3 DEF Fail, Goto, Shape
        <3>4. QED
            BY <1>4, <3>2, <3>3 DEF Prove
    <2>2. CASE u # t
        BY <1>0, <1>4, <2>2, ShapeFrame DEF Prove, Fail, Goto
    <2>3. QED
        BY <2>1, <2>2
<1>5. ASSUME NEW t \in Tasks, IncrementSequence(t) PROVE Shape(u)'
    <2>1. CASE u = t
        <3>1. /\ pc[t] = "incr" /\ op' = op /\ proofs' = proofs
              /\ 1 <= Len(proofs[t]) /\ Len(proofs[t]) <= Planned(t)
            BY <1>0, <1>5, <2>1 DEF IncrementSequence, Shape
        <3>2. \/ pc'[t] \in {"build", "failed"}
              \/ pc'[t] = "prove" /\ Len(proofs[t]) # Planned(t)
            BY <1>5 DEF IncrementSequence, Fail, Goto, Planned
        <3>3. /\ Len(proofs[t]) \in Nat /\ Planned(t) \in Nat
              /\ Planned(t)' = Planned(t)
            <4>1. Planned(t) \in Nat
                BY PlanLen DEF Planned
            <4>2. Planned(t)' = Planned(t)
                BY <3>1 DEF Planned
            <4>3. QED
                BY <4>1, <4>2
        <3>4. pc'[t] = "prove" => Len(proofs'[t]) < Planned(t)'
            BY <3>1, <3>2, <3>3
        <3>5. pc'[t] \notin {"idle", "query", "incr"}
            BY <3>2
        <3>6. QED
            BY <2>1, <3>4, <3>5 DEF Shape
    <2>2. CASE u # t
        BY <1>0, <1>5, <2>2, ShapeFrame DEF IncrementSequence, Fail, Goto
    <2>3. QED
        BY <2>1, <2>2
<1>6. ASSUME NEW t \in Tasks, BuildBody(t) PROVE Shape(u)'
    BY <1>0, <1>6, ShapeFrame DEF BuildBody, Goto, Shape
<1>7. ASSUME NEW t \in Tasks, EmitTx(t) PROVE Shape(u)'
    BY <1>0, <1>7, ShapeFrame DEF EmitTx, Goto, Shape
<1>8. ASSUME NEW t \in Tasks, TmClientStep(t) PROVE Shape(u)'
    BY <1>0, <1>8, ShapeFrame DEF TmClientStep, Goto, Shape
<1>9. CASE Terminated \/ UNCHANGED vars
    BY <1>0, <1>9, ShapeFrame DEF Terminated, vars
<1>10. QED
    BY <1>1, <1>2, <1>3, <1>4, <1>5, <1>6, <1>7, <1>8, <1>9 DEF Next, Running


-----------------------------------------------------------------------------
(***************************************************************************)
(* The mapped state.  At most one call is in its stretch, so the CHOOSE   *)
(* in LedgerSequence picks that call, or there is none.                    *)
(***************************************************************************)
LEMMA LedgerSeqIdle ==
    ASSUME \A u \in Tasks : pc[u] \notin Stretch
    PROVE  LedgerSequence = sequence
BY DEF LedgerSequence, InFlight

\* The same after a step.
LEMMA LedgerSeqIdlePrimed ==
    ASSUME \A u \in Tasks : pc'[u] \notin Stretch
    PROVE  LedgerSequence' = sequence'
BY DEF LedgerSequence, InFlight

\* With a call in its stretch, the mapped sequence discounts its increments.
LEMMA LedgerSeqFlight ==
    ASSUME StretchOwned, NEW t \in Tasks, pc[t] \in Stretch
    PROVE  LedgerSequence = sequence - Increments(t)
<1>1. InFlight = {t}
    BY DEF InFlight, StretchOwned, Owned
<1>2. QED
    BY <1>1 DEF LedgerSequence

\* The same after a step.
LEMMA LedgerSeqFlightPrimed ==
    ASSUME StretchOwned', NEW t \in Tasks, pc'[t] \in Stretch
    PROVE  LedgerSequence' = sequence' - Increments(t)'
<1>1. InFlight' = {t}
    BY DEF InFlight, StretchOwned, Owned
<1>2. QED
    BY <1>1 DEF LedgerSequence

\* A step that moves call t alone changes the mapped state of t alone.
LEMMA MappedFrame ==
    ASSUME NEW t \in Tasks,
           \A u \in Tasks : u # t => Unmoved(u) /\ op'[u] = op[u]
    PROVE  /\ LedgerStatus' = [LedgerStatus EXCEPT ![t] = LedgerStatus'[t]]
           /\ LedgerOp' = [LedgerOp EXCEPT ![t] = LedgerOp'[t]]
           /\ LedgerGrant' = [LedgerGrant EXCEPT ![t] = LedgerGrant'[t]]
<1>1. \A u \in Tasks : u # t => pc'[u] = pc[u] /\ op'[u] = op[u]
                                /\ proofs'[u] = proofs[u] /\ chain'[u] = chain[u]
    BY DEF Unmoved
<1>2. LedgerStatus' = [LedgerStatus EXCEPT ![t] = LedgerStatus'[t]]
    <2>1. \A u \in Tasks : u # t => StatusOf(u)' = StatusOf(u)
        BY <1>1 DEF StatusOf
    <2>2. QED
        BY <2>1 DEF LedgerStatus
<1>3. LedgerOp' = [LedgerOp EXCEPT ![t] = LedgerOp'[t]]
    BY <1>1 DEF LedgerOp
<1>4. LedgerGrant' = [LedgerGrant EXCEPT ![t] = LedgerGrant'[t]]
    BY <1>1 DEF LedgerGrant
<1>5. QED
    BY <1>2, <1>3, <1>4

(***************************************************************************)
(* The abstract steps in terms of the mapped state of the call t that     *)
(* moves; every other call is unmoved.                                     *)
(***************************************************************************)
\* Overriding a function with its own value leaves it unchanged.
LEMMA ExceptSelf ==
    ASSUME NEW S, NEW f, f = [u \in S |-> f[u]], NEW t \in S
    PROVE  [f EXCEPT ![t] = f[t]] = f
OBVIOUS

\* The mapped functions are functions on Tasks.
LEMMA MappedFunctions ==
    /\ LedgerStatus = [u \in Tasks |-> LedgerStatus[u]]
    /\ LedgerOp = [u \in Tasks |-> LedgerOp[u]]
    /\ LedgerGrant = [u \in Tasks |-> LedgerGrant[u]]
BY DEF LedgerStatus, LedgerOp, LedgerGrant

Frame(t) == \A u \in Tasks : u # t => Unmoved(u) /\ op'[u] = op[u]

\* Call t's mapped state unchanged: the ledger stutters.
LEMMA MappedStutter ==
    ASSUME NEW t \in Tasks, Frame(t),
           StatusOf(t)' = StatusOf(t), LedgerOp'[t] = LedgerOp[t],
           LedgerGrant'[t] = LedgerGrant[t], LedgerSequence' = LedgerSequence,
           txs' = txs
    PROVE  UNCHANGED Ledger!vars
<1>1. /\ LedgerStatus' = [LedgerStatus EXCEPT ![t] = LedgerStatus'[t]]
      /\ LedgerOp' = [LedgerOp EXCEPT ![t] = LedgerOp'[t]]
      /\ LedgerGrant' = [LedgerGrant EXCEPT ![t] = LedgerGrant'[t]]
    BY MappedFrame DEF Frame
<1>2. LedgerStatus'[t] = LedgerStatus[t]
    BY DEF LedgerStatus
<1>3. /\ LedgerStatus' = LedgerStatus /\ LedgerOp' = LedgerOp
      /\ LedgerGrant' = LedgerGrant
    BY <1>1, <1>2, MappedFunctions, ExceptSelf
<1>4. txs' = txs
    OBVIOUS
<1>5. QED
    BY <1>3, <1>4 DEF Ledger!vars

\* Call t goes from idle to reserved with the consecutive block: a Reserve.
LEMMA MappedReserve ==
    ASSUME NEW t \in Tasks, NEW o \in Ops, Frame(t),
           StatusOf(t) = "idle", StatusOf(t)' = "reserved", LedgerOp'[t] = o,
           LedgerSequence + Len(ProofPlan(o)) <= MaxSequence,
           LedgerSequence' = LedgerSequence + Len(ProofPlan(o)),
           LedgerGrant'[t] =
               [proofs |-> Ledger!Consecutive(LedgerSequence, Len(ProofPlan(o))),
                height |-> LedgerSequence + Len(ProofPlan(o))],
           txs' = txs
    PROVE  Ledger!Reserve(t, o)
<1>1. /\ LedgerStatus' = [LedgerStatus EXCEPT ![t] = LedgerStatus'[t]]
      /\ LedgerOp' = [LedgerOp EXCEPT ![t] = LedgerOp'[t]]
      /\ LedgerGrant' = [LedgerGrant EXCEPT ![t] = LedgerGrant'[t]]
    BY MappedFrame DEF Frame
<1>2. LedgerStatus[t] = "idle" /\ LedgerStatus'[t] = "reserved"
    BY DEF LedgerStatus
<1>3. txs' = txs
    OBVIOUS
<1>4. QED
    BY <1>1, <1>2, <1>3 DEF Ledger!Reserve

\* Call t goes from idle to failed burning n sequences: an Abort.
LEMMA MappedAbort ==
    ASSUME NEW t \in Tasks, NEW o \in Ops, Frame(t),
           StatusOf(t) = "idle", StatusOf(t)' = "failed", LedgerOp'[t] = o,
           LedgerGrant'[t] = LedgerGrant[t],
           NEW n \in 0..Len(ProofPlan(o)), n = 0 \/ n < Len(ProofPlan(o)),
           LedgerSequence + n <= MaxSequence,
           LedgerSequence' = LedgerSequence + n,
           txs' = txs
    PROVE  Ledger!Abort(t, o)
<1>1. /\ LedgerStatus' = [LedgerStatus EXCEPT ![t] = LedgerStatus'[t]]
      /\ LedgerOp' = [LedgerOp EXCEPT ![t] = LedgerOp'[t]]
      /\ LedgerGrant' = [LedgerGrant EXCEPT ![t] = LedgerGrant'[t]]
    BY MappedFrame DEF Frame
<1>2. LedgerStatus[t] = "idle" /\ LedgerStatus'[t] = "failed"
    BY DEF LedgerStatus
<1>3. LedgerGrant' = LedgerGrant
    BY <1>1 DEF LedgerGrant
<1>4. txs' = txs
    OBVIOUS
<1>5. QED
    BY <1>1, <1>2, <1>3, <1>4 DEF Ledger!Abort

\* Call t goes from reserved to done, with or without its TxRaw: a Complete.
LEMMA MappedComplete ==
    ASSUME NEW t \in Tasks, Frame(t),
           StatusOf(t) = "reserved", StatusOf(t)' = "done",
           LedgerOp'[t] = LedgerOp[t], LedgerGrant'[t] = LedgerGrant[t],
           LedgerSequence' = LedgerSequence,
           \/ txs' = txs \cup
                 {[task |-> t, op |-> LedgerOp[t], proofs |-> LedgerGrant[t].proofs,
                   height |-> LedgerGrant[t].height]}
           \/ txs' = txs
    PROVE  Ledger!Complete(t)
<1>1. /\ LedgerStatus' = [LedgerStatus EXCEPT ![t] = LedgerStatus'[t]]
      /\ LedgerOp' = [LedgerOp EXCEPT ![t] = LedgerOp'[t]]
      /\ LedgerGrant' = [LedgerGrant EXCEPT ![t] = LedgerGrant'[t]]
    BY MappedFrame DEF Frame
<1>2. LedgerStatus[t] = "reserved" /\ LedgerStatus'[t] = "done"
    BY DEF LedgerStatus
<1>3. LedgerOp' = LedgerOp /\ LedgerGrant' = LedgerGrant
    BY <1>1, MappedFunctions, ExceptSelf
<1>4. QED
    BY <1>1, <1>2, <1>3 DEF Ledger!Complete

\* Call t goes from reserved to failed and loses its grant: a Drop.
LEMMA MappedDrop ==
    ASSUME NEW t \in Tasks, Frame(t),
           StatusOf(t) = "reserved", StatusOf(t)' = "failed",
           LedgerOp'[t] = LedgerOp[t],
           LedgerGrant'[t] = [proofs |-> << >>, height |-> InitSequence],
           LedgerSequence' = LedgerSequence, txs' = txs
    PROVE  Ledger!Drop(t)
<1>1. /\ LedgerStatus' = [LedgerStatus EXCEPT ![t] = LedgerStatus'[t]]
      /\ LedgerOp' = [LedgerOp EXCEPT ![t] = LedgerOp'[t]]
      /\ LedgerGrant' = [LedgerGrant EXCEPT ![t] = LedgerGrant'[t]]
    BY MappedFrame DEF Frame
<1>2. LedgerStatus[t] = "reserved" /\ LedgerStatus'[t] = "failed"
    BY DEF LedgerStatus
<1>3. LedgerOp' = LedgerOp
    BY <1>1 DEF LedgerOp
<1>4. txs' = txs
    OBVIOUS
<1>5. QED
    BY <1>1, <1>2, <1>3, <1>4 DEF Ledger!Drop, Ledger!NoGrant


-----------------------------------------------------------------------------
(***************************************************************************)
(* Step simulation: each step of a call is a step of SequenceLedger or    *)
(* leaves the mapped state unchanged.                                      *)
(***************************************************************************)

\* The facts of RefInv the simulation uses.
LEMMA RefFacts ==
    ASSUME RefInv
    PROVE  /\ sequence \in Nat /\ MaxSequence \in Nat /\ sequence <= MaxSequence
           /\ pc \in [Tasks -> Labels] /\ op \in [Tasks -> Ops \cup {NoOp}]
           /\ chain \in [Tasks -> Nat] /\ proofs \in [Tasks -> Seq(Nat)]
           /\ \A u \in Tasks : pc[u] # "idle" => op[u] \in Ops
           /\ StretchOwned /\ StretchCurrent /\ ProofsFromBase /\ StretchShape
           /\ IdleUnsigned
BY SequenceAssumption DEF RefInv, CoopInv, BurnInv, TypeInv, TypeOK

\* A call's factory is made: a ledger Reserve of no sequences, or nothing
\* for the acks, which reserve at their last increment.
LEMMA RefStart ==
    ASSUME ~Preemptive, RefInv, StretchOwned',
           NEW t \in Tasks, NEW o \in Ops, Start(t, o)
    PROVE  [Ledger!Next]_Ledger!vars
<1>a. RefFacts!2
    BY RefFacts
<1>0. /\ pc[t] = "idle" /\ proofs[t] = << >> /\ op[t] = NoOp /\ Frame(t)
      /\ \A u \in Tasks : u # t => pc[u] \notin Stretch
    BY <1>a, OthersOutOfStretch DEF Start, Goto, IdleUnsigned, StretchShape, Shape,
                                    Frame, Unmoved
<1>1. LedgerSequence = sequence
    BY <1>0, LedgerSeqIdle DEF Stretch
<1>2. /\ StatusOf(t) = "idle" /\ LedgerOp[t] = NoOp
      /\ LedgerGrant[t] = [proofs |-> << >>, height |-> InitSequence]
    BY <1>0 DEF StatusOf, LedgerOp, LedgerGrant, Stretch, PastStretch
<1>3. /\ pc'[t] = FirstStep(o) /\ op'[t] = o /\ proofs'[t] = << >>
      /\ chain'[t] = sequence /\ sequence' = sequence /\ txs' = txs
    BY <1>a, <1>0 DEF Start, Goto
<1>4. CASE o \in {"ConnOpenAck", "ChanOpenAck"}
    <2>1. pc'[t] \in Stretch /\ pc'[t] # "incr"
        BY <1>3, <1>4 DEF FirstStep, Stretch
    <2>2. LedgerSequence' = sequence
        <3>1. LedgerSequence' = sequence' - Increments(t)'
            BY <2>1, LedgerSeqFlightPrimed
        <3>2. Increments(t)' = 0
            BY <1>3, <2>1 DEF Increments
        <3>3. QED
            BY <1>a, <1>3, <3>1, <3>2
    <2>3. /\ StatusOf(t)' = "idle" /\ LedgerOp'[t] = NoOp
          /\ LedgerGrant'[t] = [proofs |-> << >>, height |-> InitSequence]
        BY <2>1 DEF StatusOf, LedgerOp, LedgerGrant, Stretch, PastStretch
    <2>4. QED
        BY <1>0, <1>1, <1>2, <1>3, <2>2, <2>3, MappedStutter
<1>5. CASE o \notin {"ConnOpenAck", "ChanOpenAck"}
    <2>1. pc'[t] \in PastStretch /\ Len(ProofPlan(o)) = 0
        BY <1>3, <1>5 DEF FirstStep, PastStretch, ProofPlan, Ops
    <2>2. \A u \in Tasks : pc'[u] \notin Stretch
        BY <1>0, <2>1 DEF Frame, Unmoved, Stretch, PastStretch
    <2>3. LedgerSequence' = sequence
        BY <1>3, <2>2, LedgerSeqIdlePrimed
    <2>4. /\ StatusOf(t)' = "reserved" /\ LedgerOp'[t] = o
          /\ LedgerGrant'[t] = [proofs |-> << >>, height |-> sequence]
        BY <1>3, <2>1 DEF StatusOf, LedgerOp, LedgerGrant, Stretch, PastStretch
    <2>5. Ledger!Consecutive(sequence, 0) = << >>
        BY DEF Ledger!Consecutive
    <2>6. Ledger!Reserve(t, o)
        <3>1. LedgerSequence + Len(ProofPlan(o)) <= MaxSequence
            BY <1>a, <1>1, <2>1
        <3>2. LedgerSequence' = LedgerSequence + Len(ProofPlan(o))
            BY <1>a, <1>1, <1>3, <2>1, <2>3
        <3>3. LedgerGrant'[t] =
                [proofs |-> Ledger!Consecutive(LedgerSequence, Len(ProofPlan(o))),
                 height |-> LedgerSequence + Len(ProofPlan(o))]
            BY <1>a, <1>1, <2>1, <2>4, <2>5
        <3>4. QED
            BY <1>0, <1>2, <1>3, <2>4, <3>1, <3>2, <3>3, MappedReserve
    <2>7. QED
        BY <2>6 DEF Ledger!Next
<1>6. QED
    BY <1>4, <1>5


\* A step that leaves the builder alone leaves the mapped state alone.
LEMMA MappedUnchanged ==
    ASSUME UNCHANGED <<sequence, pc, op, chain, proofs, txs>>
    PROVE  UNCHANGED Ledger!vars
BY DEF Ledger!vars, LedgerSequence, InFlight, Increments, LedgerStatus, StatusOf,
       LedgerOp, LedgerGrant

\* A call fails at its first step: a ledger Abort that burns nothing.
LEMMA RefStartFails ==
    ASSUME ~Preemptive, RefInv, NEW t \in Tasks, NEW o \in Ops, StartFails(t, o)
    PROVE  [Ledger!Next]_Ledger!vars
<1>a. RefFacts!2
    BY RefFacts
<1>0. /\ pc[t] = "idle" /\ Frame(t)
      /\ \A u \in Tasks : u # t => pc[u] \notin Stretch
    BY <1>a, OthersOutOfStretch DEF StartFails, Fail, Goto, Frame, Unmoved
<1>1. /\ pc'[t] = "failed" /\ op'[t] = o /\ sequence' = sequence
      /\ txs' = txs /\ chain' = chain /\ proofs' = proofs
    BY <1>a DEF StartFails, Fail, Goto
<1>2. LedgerSequence = sequence /\ LedgerSequence' = sequence
    <2>1. \A u \in Tasks : pc'[u] \notin Stretch
        BY <1>0, <1>1 DEF Frame, Unmoved, Stretch
    <2>2. QED
        BY <1>0, <1>1, <2>1, LedgerSeqIdle, LedgerSeqIdlePrimed DEF Stretch
<1>3. /\ StatusOf(t) = "idle" /\ StatusOf(t)' = "failed" /\ LedgerOp'[t] = o
      /\ LedgerGrant'[t] = LedgerGrant[t]
    BY <1>0, <1>1 DEF StatusOf, LedgerOp, LedgerGrant, Stretch, PastStretch
<1>4. Ledger!Abort(t, o)
    <2>1. /\ 0 \in 0..Len(ProofPlan(o))
          /\ LedgerSequence + 0 <= MaxSequence
          /\ LedgerSequence' = LedgerSequence + 0
        BY <1>a, <1>2, PlanLen
    <2>2. QED
        BY <1>0, <1>1, <1>3, <2>1, MappedAbort
<1>5. QED
    BY <1>4 DEF Ledger!Next

\* The ack's client-state query: nothing in the ledger, or an Abort that
\* burns nothing.
LEMMA RefQuery ==
    ASSUME ~Preemptive, RefInv, StretchOwned', NEW t \in Tasks, QueryClientState(t)
    PROVE  [Ledger!Next]_Ledger!vars
<1>a. RefFacts!2
    BY RefFacts
<1>0. /\ pc[t] = "query" /\ proofs[t] = << >> /\ op[t] \in Ops /\ Frame(t)
      /\ \A u \in Tasks : u # t => pc[u] \notin Stretch
      /\ UNCHANGED <<sequence, op, chain, proofs, txs>>
    BY <1>a, OthersOutOfStretch DEF QueryClientState, Fail, Goto, Frame, Unmoved,
                                    StretchShape, Shape
<1>1. LedgerSequence = sequence
    <2>1. LedgerSequence = sequence - Increments(t)
        BY <1>a, <1>0, LedgerSeqFlight DEF Stretch
    <2>2. QED
        BY <1>a, <1>0, <2>1 DEF Increments
<1>2. /\ StatusOf(t) = "idle" /\ LedgerOp[t] = NoOp
      /\ LedgerGrant[t] = [proofs |-> << >>, height |-> InitSequence]
    BY <1>0 DEF StatusOf, LedgerOp, LedgerGrant, Stretch, PastStretch
<1>3. CASE Goto(t, "prove")
    <2>1. pc'[t] = "prove"
        BY <1>a, <1>3 DEF Goto
    <2>2. LedgerSequence' = sequence
        <3>1. LedgerSequence' = sequence' - Increments(t)'
            BY <2>1, LedgerSeqFlightPrimed DEF Stretch
        <3>2. QED
            BY <1>a, <1>0, <2>1, <3>1 DEF Increments
    <2>3. /\ StatusOf(t)' = "idle" /\ LedgerOp'[t] = NoOp
          /\ LedgerGrant'[t] = [proofs |-> << >>, height |-> InitSequence]
        BY <2>1 DEF StatusOf, LedgerOp, LedgerGrant, Stretch, PastStretch
    <2>4. QED
        BY <1>0, <1>1, <1>2, <2>2, <2>3, MappedStutter
<1>4. CASE Fail(t)
    <2>1. pc'[t] = "failed"
        BY <1>a, <1>4 DEF Fail, Goto
    <2>2. LedgerSequence' = sequence
        <3>1. \A u \in Tasks : pc'[u] \notin Stretch
            BY <1>0, <2>1 DEF Frame, Unmoved, Stretch
        <3>2. QED
            BY <1>0, <3>1, LedgerSeqIdlePrimed
    <2>3. /\ StatusOf(t)' = "failed" /\ LedgerOp'[t] = op[t]
          /\ LedgerGrant'[t] = LedgerGrant[t]
        BY <1>0, <2>1 DEF StatusOf, LedgerOp, LedgerGrant, Stretch, PastStretch
    <2>4. /\ 0 \in 0..Len(ProofPlan(op[t]))
          /\ LedgerSequence + 0 <= MaxSequence
          /\ LedgerSequence' = LedgerSequence + 0
        BY <1>a, <1>1, <2>2, PlanLen
    <2>5. Ledger!Abort(t, op[t])
        BY <1>0, <1>2, <2>3, <2>4, MappedAbort
    <2>6. QED
        BY <1>0, <2>5 DEF Ledger!Next
<1>5. QED
    BY <1>3, <1>4 DEF QueryClientState


\* A proof is signed: nothing in the ledger, since the call's increments are
\* not yet counted; or the query fails and an Abort burns the sequences the
\* call's earlier increments took.
LEMMA RefProve ==
    ASSUME ~Preemptive, RefInv, StretchOwned', NEW t \in Tasks, Prove(t)
    PROVE  [Ledger!Next]_Ledger!vars
<1>a. RefFacts!2
    BY RefFacts
<1>0. /\ pc[t] = "prove" /\ op[t] \in Ops /\ Len(proofs[t]) < Planned(t)
      /\ \A u \in Tasks : u # t => pc[u] \notin Stretch /\ Unmoved(u) /\ op'[u] = op[u]
      /\ UNCHANGED <<sequence, op, chain, txs>>
    BY <1>a, OthersOutOfStretch DEF Prove, Fail, Goto, Unmoved, StretchShape, Shape
<1>f. Frame(t)
    BY <1>0 DEF Frame
<1>1. LedgerSequence = sequence - Len(proofs[t])
    <2>1. LedgerSequence = sequence - Increments(t)
        BY <1>a, <1>0, LedgerSeqFlight DEF Stretch
    <2>2. QED
        BY <1>a, <1>0, <2>1 DEF Increments
<1>2. /\ StatusOf(t) = "idle" /\ LedgerOp[t] = NoOp
      /\ LedgerGrant[t] = [proofs |-> << >>, height |-> InitSequence]
    BY <1>0 DEF StatusOf, LedgerOp, LedgerGrant, Stretch, PastStretch
<1>3. CASE /\ proofs' = [proofs EXCEPT ![t] = Append(@, chain[t])]
           /\ Goto(t, "incr")
    <2>1. pc'[t] = "incr" /\ Len(proofs'[t]) = Len(proofs[t]) + 1
        BY <1>a, <1>3, AppendProperties DEF Goto
    <2>2. LedgerSequence' = LedgerSequence
        <3>1. LedgerSequence' = sequence' - Increments(t)'
            BY <2>1, LedgerSeqFlightPrimed DEF Stretch
        <3>2. QED
            BY <1>a, <1>0, <1>1, <2>1, <3>1 DEF Increments
    <2>3. /\ StatusOf(t)' = "idle" /\ LedgerOp'[t] = NoOp
          /\ LedgerGrant'[t] = [proofs |-> << >>, height |-> InitSequence]
        BY <2>1 DEF StatusOf, LedgerOp, LedgerGrant, Stretch, PastStretch
    <2>4. QED
        BY <1>0, <1>f, <1>2, <2>2, <2>3, MappedStutter
<1>4. CASE Fail(t) /\ UNCHANGED proofs
    <2>1. pc'[t] = "failed"
        BY <1>a, <1>4 DEF Fail, Goto
    <2>2. LedgerSequence' = sequence
        <3>1. \A u \in Tasks : pc'[u] \notin Stretch
            BY <1>0, <2>1 DEF Unmoved, Stretch
        <3>2. QED
            BY <1>0, <3>1, LedgerSeqIdlePrimed
    <2>3. /\ StatusOf(t)' = "failed" /\ LedgerOp'[t] = op[t]
          /\ LedgerGrant'[t] = LedgerGrant[t]
        BY <1>0, <1>4, <2>1 DEF StatusOf, LedgerOp, LedgerGrant, Stretch, PastStretch
    <2>4. /\ Len(proofs[t]) \in 0..Len(ProofPlan(op[t]))
          /\ Len(proofs[t]) = 0 \/ Len(proofs[t]) < Len(ProofPlan(op[t]))
          /\ LedgerSequence + Len(proofs[t]) <= MaxSequence
          /\ LedgerSequence' = LedgerSequence + Len(proofs[t])
        BY <1>a, <1>0, <1>1, <2>2, PlanLen DEF Planned
    <2>5. Ledger!Abort(t, op[t])
        BY <1>f, <1>2, <2>3, <2>4, <1>0, MappedAbort
    <2>6. QED
        BY <1>0, <2>5 DEF Ledger!Next
<1>5. QED
    BY <1>3, <1>4 DEF Prove


\* increment_sequence: after the last proof of the plan it is the ledger
\* Reserve of all the call's sequences, which are consecutive from where it
\* read the chain; before it nothing; when it fails, an Abort burning the
\* increments made so far.
LEMMA RefIncr ==
    ASSUME ~Preemptive, RefInv, StretchOwned', NEW t \in Tasks, IncrementSequence(t)
    PROVE  [Ledger!Next]_Ledger!vars
<1>a. RefFacts!2
    BY RefFacts
<1>0. /\ pc[t] = "incr" /\ op[t] \in Ops
      /\ 1 <= Len(proofs[t]) /\ Len(proofs[t]) <= Planned(t)
      /\ \A u \in Tasks : u # t => pc[u] \notin Stretch /\ Unmoved(u) /\ op'[u] = op[u]
      /\ UNCHANGED <<op, proofs, txs>>
    BY <1>a, OthersOutOfStretch DEF IncrementSequence, Fail, Goto, Unmoved,
                                    StretchShape, Shape
<1>f. Frame(t)
    BY <1>0 DEF Frame
<1>1. LedgerSequence = sequence - (Len(proofs[t]) - 1)
    <2>1. LedgerSequence = sequence - Increments(t)
        BY <1>a, <1>0, LedgerSeqFlight DEF Stretch
    <2>2. QED
        BY <1>a, <1>0, <2>1 DEF Increments
<1>2. /\ StatusOf(t) = "idle" /\ LedgerOp[t] = NoOp
      /\ LedgerGrant[t] = [proofs |-> << >>, height |-> InitSequence]
    BY <1>0 DEF StatusOf, LedgerOp, LedgerGrant, Stretch, PastStretch
<1>3. CASE /\ sequence < MaxSequence
           /\ sequence' = sequence + 1
           /\ chain' = [chain EXCEPT ![t] = sequence + 1]
           /\ Goto(t, IF Len(proofs[t]) = Len(ProofPlan(op[t])) THEN "build" ELSE "prove")
    <2>1. CASE Len(proofs[t]) = Planned(t)
        <3>1. pc'[t] = "build" /\ chain'[t] = sequence + 1
            BY <1>a, <1>3, <2>1 DEF Goto, Planned
        <3>2. LedgerSequence' = sequence + 1
            <4>1. \A u \in Tasks : pc'[u] \notin Stretch
                BY <1>0, <3>1 DEF Unmoved, Stretch
            <4>2. QED
                BY <1>3, <4>1, LedgerSeqIdlePrimed
        <3>3. /\ StatusOf(t)' = "reserved" /\ LedgerOp'[t] = op[t]
              /\ LedgerGrant'[t] = [proofs |-> proofs[t], height |-> sequence + 1]
            BY <1>0, <3>1 DEF StatusOf, LedgerOp, LedgerGrant, Stretch, PastStretch
        <3>4. proofs[t] = Ledger!Consecutive(LedgerSequence, Len(proofs[t]))
            <4>1. chain[t] = sequence /\ Live(t)
                BY <1>a, <1>0 DEF StretchCurrent, Current, Stretch, Live
            <4>2. \A i \in 1..Len(proofs[t]) : proofs[t][i] = Base(t) + i - 1
                BY <1>a, <4>1 DEF ProofsFromBase, FromBase
            <4>3. Base(t) = LedgerSequence
                BY <1>a, <1>0, <1>1, <4>1 DEF Base
            <4>4. proofs[t] \in Seq(Nat)
                BY <1>a
            <4>5. Ledger!Consecutive(LedgerSequence, Len(proofs[t]))
                    = [i \in 1..Len(proofs[t]) |-> LedgerSequence + i - 1]
                BY DEF Ledger!Consecutive
            <4>6. proofs[t] = [i \in 1..Len(proofs[t]) |-> proofs[t][i]]
                BY <4>4
            <4>7. QED
                BY <4>2, <4>3, <4>5, <4>6
        <3>5. /\ LedgerSequence + Len(ProofPlan(op[t])) <= MaxSequence
              /\ LedgerSequence' = LedgerSequence + Len(ProofPlan(op[t]))
              /\ LedgerGrant'[t] =
                   [proofs |-> Ledger!Consecutive(LedgerSequence, Len(ProofPlan(op[t]))),
                    height |-> LedgerSequence + Len(ProofPlan(op[t]))]
            <4>1. Len(ProofPlan(op[t])) = Len(proofs[t]) /\ Len(proofs[t]) \in Nat
                BY <1>a, <2>1 DEF Planned
            <4>2. LedgerSequence + Len(proofs[t]) = sequence + 1
                BY <1>a, <1>1, <4>1
            <4>3. LedgerSequence + Len(ProofPlan(op[t])) <= MaxSequence
                BY <1>a, <1>3, <4>1, <4>2
            <4>4. LedgerSequence' = LedgerSequence + Len(ProofPlan(op[t]))
                BY <3>2, <4>1, <4>2
            <4>5. LedgerGrant'[t] =
                   [proofs |-> Ledger!Consecutive(LedgerSequence, Len(ProofPlan(op[t]))),
                    height |-> LedgerSequence + Len(ProofPlan(op[t]))]
                BY <3>3, <3>4, <4>1, <4>2
            <4>6. QED
                BY <4>3, <4>4, <4>5
        <3>6. Ledger!Reserve(t, op[t])
            BY <1>f, <1>0, <1>2, <1>3, <3>3, <3>5, MappedReserve
        <3>7. QED
            BY <1>0, <3>6 DEF Ledger!Next
    <2>2. CASE Len(proofs[t]) # Planned(t)
        <3>1. pc'[t] = "prove"
            BY <1>a, <1>3, <2>2 DEF Goto, Planned
        <3>2. LedgerSequence' = LedgerSequence
            <4>1. LedgerSequence' = sequence' - Increments(t)'
                BY <3>1, LedgerSeqFlightPrimed DEF Stretch
            <4>2. QED
                BY <1>a, <1>0, <1>1, <1>3, <3>1, <4>1 DEF Increments
        <3>3. /\ StatusOf(t)' = "idle" /\ LedgerOp'[t] = NoOp
              /\ LedgerGrant'[t] = [proofs |-> << >>, height |-> InitSequence]
            BY <3>1 DEF StatusOf, LedgerOp, LedgerGrant, Stretch, PastStretch
        <3>4. QED
            BY <1>0, <1>f, <1>2, <3>2, <3>3, MappedStutter
    <2>3. QED
        BY <2>1, <2>2
<1>4. CASE Fail(t) /\ UNCHANGED <<sequence, chain>>
    <2>1. pc'[t] = "failed"
        BY <1>a, <1>4 DEF Fail, Goto
    <2>2. LedgerSequence' = sequence
        <3>1. \A u \in Tasks : pc'[u] \notin Stretch
            BY <1>0, <2>1 DEF Unmoved, Stretch
        <3>2. QED
            BY <1>4, <3>1, LedgerSeqIdlePrimed
    <2>3. /\ StatusOf(t)' = "failed" /\ LedgerOp'[t] = op[t]
          /\ LedgerGrant'[t] = LedgerGrant[t]
        BY <1>0, <1>4, <2>1 DEF StatusOf, LedgerOp, LedgerGrant, Stretch, PastStretch
    <2>4. /\ Len(proofs[t]) - 1 \in 0..Len(ProofPlan(op[t]))
          /\ Len(proofs[t]) - 1 = 0 \/ Len(proofs[t]) - 1 < Len(ProofPlan(op[t]))
          /\ LedgerSequence + (Len(proofs[t]) - 1) <= MaxSequence
          /\ LedgerSequence' = LedgerSequence + (Len(proofs[t]) - 1)
        BY <1>a, <1>0, <1>1, <2>2, PlanLen DEF Planned
    <2>5. Ledger!Abort(t, op[t])
        BY <1>f, <1>2, <2>3, <2>4, <1>0, MappedAbort
    <2>6. QED
        BY <1>0, <2>5 DEF Ledger!Next
<1>5. QED
    BY <1>3, <1>4 DEF IncrementSequence


\* A call past its stretch that may step: the mapped sequence is the stored
\* one, before and after a step that leaves it in or out of PastStretch.
Past(t) ==
    /\ LedgerSequence = sequence /\ LedgerSequence' = sequence'
    /\ Frame(t)
    /\ StatusOf(t) = "reserved" /\ LedgerOp[t] = op[t]
    /\ LedgerGrant[t] = [proofs |-> proofs[t], height |-> chain[t]]

\* A call past its stretch that steps has no call in flight beside it.
LEMMA PastFacts ==
    ASSUME ~Preemptive, RefInv, NEW t \in Tasks, CanRun(t), pc[t] \in PastStretch,
           \A u \in Tasks : u # t => Unmoved(u) /\ op'[u] = op[u],
           pc'[t] \in PastStretch \cup {"done", "failed"}
    PROVE  Past(t)
<1>a. RefFacts!2
    BY RefFacts
<1>1. \A u \in Tasks : u # t => pc[u] \notin Stretch /\ pc'[u] \notin Stretch
    BY <1>a, OthersOutOfStretch DEF Unmoved
<1>2. \A u \in Tasks : pc[u] \notin Stretch /\ pc'[u] \notin Stretch
    BY <1>1 DEF Stretch, PastStretch
<1>3. QED
    BY <1>2, LedgerSeqIdle, LedgerSeqIdlePrimed
       DEF Past, Frame, StatusOf, LedgerOp, LedgerGrant, Stretch, PastStretch

\* `build` encodes the body: nothing in the ledger, or a Drop.
LEMMA RefBuild ==
    ASSUME ~Preemptive, RefInv, NEW t \in Tasks, BuildBody(t)
    PROVE  [Ledger!Next]_Ledger!vars
<1>a. RefFacts!2
    BY RefFacts
<1>0. /\ pc[t] = "build" /\ CanRun(t) /\ pc'[t] \in {"account", "failed"}
      /\ \A u \in Tasks : u # t => Unmoved(u) /\ op'[u] = op[u]
      /\ UNCHANGED <<sequence, op, chain, proofs, txs>>
    BY <1>a DEF BuildBody, Goto, Unmoved
<1>1. Past(t)
    BY <1>0, PastFacts DEF PastStretch
<1>p. /\ LedgerSequence' = LedgerSequence /\ Frame(t)
      /\ StatusOf(t) = "reserved" /\ LedgerOp[t] = op[t]
      /\ LedgerGrant[t] = [proofs |-> proofs[t], height |-> chain[t]]
    BY <1>0, <1>1 DEF Past
<1>2. CASE pc'[t] = "account"
    <2>1. /\ StatusOf(t)' = "reserved" /\ LedgerOp'[t] = LedgerOp[t]
          /\ LedgerGrant'[t] = LedgerGrant[t]
        BY <1>0, <1>p, <1>2 DEF StatusOf, LedgerOp, LedgerGrant, Stretch, PastStretch
    <2>2. QED
        BY <1>0, <1>p, <2>1, MappedStutter
<1>3. CASE pc'[t] = "failed"
    <2>1. /\ StatusOf(t)' = "failed" /\ LedgerOp'[t] = LedgerOp[t]
          /\ LedgerGrant'[t] = [proofs |-> << >>, height |-> InitSequence]
        BY <1>0, <1>p, <1>3 DEF StatusOf, LedgerOp, LedgerGrant, Stretch, PastStretch
    <2>2. Ledger!Drop(t)
        BY <1>0, <1>p, <2>1, MappedDrop
    <2>3. QED
        BY <2>2 DEF Ledger!Next
<1>4. QED
    BY <1>0, <1>2, <1>3

\* The TxRaw is returned: a ledger Complete carrying the call's grant; or
\* the account query fails: a Drop.
LEMMA RefEmit ==
    ASSUME ~Preemptive, RefInv, NEW t \in Tasks, EmitTx(t)
    PROVE  [Ledger!Next]_Ledger!vars
<1>a. RefFacts!2
    BY RefFacts
<1>0. /\ pc[t] = "account" /\ CanRun(t) /\ pc'[t] \in {"done", "failed"}
      /\ \A u \in Tasks : u # t => Unmoved(u) /\ op'[u] = op[u]
      /\ UNCHANGED <<sequence, op, chain, proofs>>
    BY <1>a DEF EmitTx, Goto, Unmoved
<1>1. Past(t)
    BY <1>0, PastFacts DEF PastStretch
<1>p. /\ LedgerSequence' = LedgerSequence /\ Frame(t)
      /\ StatusOf(t) = "reserved" /\ LedgerOp[t] = op[t]
      /\ LedgerGrant[t] = [proofs |-> proofs[t], height |-> chain[t]]
    BY <1>0, <1>1 DEF Past
<1>2. CASE /\ txs' = txs \cup {[task |-> t, op |-> op[t], proofs |-> proofs[t],
                                height |-> chain[t]]}
           /\ Goto(t, "done")
    <2>1. pc'[t] = "done"
        BY <1>a, <1>2 DEF Goto
    <2>2. /\ StatusOf(t)' = "done" /\ LedgerOp'[t] = LedgerOp[t]
          /\ LedgerGrant'[t] = LedgerGrant[t]
        BY <1>0, <1>p, <2>1 DEF StatusOf, LedgerOp, LedgerGrant, Stretch, PastStretch
    <2>3. txs' = txs \cup
              {[task |-> t, op |-> LedgerOp[t], proofs |-> LedgerGrant[t].proofs,
                height |-> LedgerGrant[t].height]}
        BY <1>2, <1>p
    <2>4. Ledger!Complete(t)
        BY <1>0, <1>p, <2>2, <2>3, MappedComplete
    <2>5. QED
        BY <2>4 DEF Ledger!Next
<1>3. CASE Goto(t, "failed") /\ UNCHANGED txs
    <2>1. /\ pc'[t] = "failed"
          /\ StatusOf(t)' = "failed" /\ LedgerOp'[t] = LedgerOp[t]
          /\ LedgerGrant'[t] = [proofs |-> << >>, height |-> InitSequence]
        BY <1>a, <1>0, <1>p, <1>3 DEF Goto, StatusOf, LedgerOp, LedgerGrant,
                                      Stretch, PastStretch
    <2>2. Ledger!Drop(t)
        BY <1>0, <1>p, <1>3, <2>1, MappedDrop
    <2>3. QED
        BY <2>2 DEF Ledger!Next
<1>4. QED
    BY <1>2, <1>3 DEF EmitTx

\* msg_create_tendermint_client's awaits: nothing in the ledger until the
\* last one returns (a Complete with no transaction), or a Drop.
LEMMA RefTm ==
    ASSUME ~Preemptive, RefInv, NEW t \in Tasks, TmClientStep(t)
    PROVE  [Ledger!Next]_Ledger!vars
<1>a. RefFacts!2
    BY RefFacts
<1>0. /\ pc[t] \in {"unbonding", "status", "block"} /\ CanRun(t)
      /\ pc'[t] \in {"status", "block", "done", "failed"}
      /\ pc'[t] = "done" => pc[t] = "block"
      /\ \A u \in Tasks : u # t => Unmoved(u) /\ op'[u] = op[u]
      /\ UNCHANGED <<sequence, op, chain, proofs, txs>>
    BY <1>a DEF TmClientStep, Goto, Unmoved
<1>1. Past(t)
    BY <1>0, PastFacts DEF PastStretch
<1>p. /\ LedgerSequence' = LedgerSequence /\ Frame(t)
      /\ StatusOf(t) = "reserved" /\ LedgerOp[t] = op[t]
      /\ LedgerGrant[t] = [proofs |-> proofs[t], height |-> chain[t]]
    BY <1>0, <1>1 DEF Past
<1>2. CASE pc'[t] \in {"status", "block"}
    <2>1. /\ StatusOf(t)' = "reserved" /\ LedgerOp'[t] = LedgerOp[t]
          /\ LedgerGrant'[t] = LedgerGrant[t]
        BY <1>0, <1>p, <1>2 DEF StatusOf, LedgerOp, LedgerGrant, Stretch, PastStretch
    <2>2. QED
        BY <1>0, <1>p, <2>1, MappedStutter
<1>3. CASE pc'[t] = "done"
    <2>1. /\ StatusOf(t)' = "done" /\ LedgerOp'[t] = LedgerOp[t]
          /\ LedgerGrant'[t] = LedgerGrant[t] /\ txs' = txs
        BY <1>0, <1>p, <1>3 DEF StatusOf, LedgerOp, LedgerGrant,
                                 Stretch, PastStretch
    <2>2. Ledger!Complete(t)
        BY <1>0, <1>p, <2>1, MappedComplete
    <2>3. QED
        BY <2>2 DEF Ledger!Next
<1>4. CASE pc'[t] = "failed"
    <2>1. /\ StatusOf(t)' = "failed" /\ LedgerOp'[t] = LedgerOp[t]
          /\ LedgerGrant'[t] = [proofs |-> << >>, height |-> InitSequence]
        BY <1>0, <1>p, <1>4 DEF StatusOf, LedgerOp, LedgerGrant, Stretch, PastStretch
    <2>2. Ledger!Drop(t)
        BY <1>0, <1>p, <2>1, MappedDrop
    <2>3. QED
        BY <2>2 DEF Ledger!Next
<1>5. QED
    BY <1>0, <1>2, <1>3, <1>4


\* The initial state maps to the ledger's initial state.
LEMMA RefInit == Init => Ledger!Init
<1> SUFFICES ASSUME Init PROVE Ledger!Init
    OBVIOUS
<1>1. \A u \in Tasks : pc[u] = "idle" /\ op[u] = NoOp
    BY DEF Init
<1>2. LedgerSequence = InitSequence
    BY <1>1, LedgerSeqIdle DEF Init, Stretch
<1>3. /\ LedgerStatus = [u \in Tasks |-> "idle"]
      /\ LedgerOp = [u \in Tasks |-> NoOp]
      /\ LedgerGrant = [u \in Tasks |-> [proofs |-> << >>, height |-> InitSequence]]
    BY <1>1 DEF LedgerStatus, StatusOf, LedgerOp, LedgerGrant, Stretch, PastStretch
<1>4. txs = {}
    BY DEF Init
<1>5. QED
    BY <1>2, <1>3, <1>4 DEF Ledger!Init, Ledger!NoGrant

\* Every step of the factories is a ledger step or a stutter.
LEMMA RefStep ==
    ASSUME ~Preemptive, RefInv, StretchOwned', [Next]_vars
    PROVE  [Ledger!Next]_Ledger!vars
<1>1. ASSUME NEW t \in Tasks, NEW o \in Ops, Start(t, o) \/ StartFails(t, o)
      PROVE  [Ledger!Next]_Ledger!vars
    BY <1>1, RefStart, RefStartFails
<1>2. ASSUME NEW t \in Tasks, Running(t) PROVE [Ledger!Next]_Ledger!vars
    BY <1>2, RefQuery, RefProve, RefIncr, RefBuild, RefEmit, RefTm DEF Running
<1>4. CASE Terminated \/ UNCHANGED vars
    BY <1>4, MappedUnchanged DEF Terminated, vars
<1>5. QED
    BY <1>1, <1>2, <1>4 DEF Next

(***************************************************************************)
(* On one cooperative executor the message factories implement            *)
(* SequenceLedger (ImplementsLedger, checked by the refinement run), for   *)
(* every number of calls and every bound: each call takes its sequences as *)
(* one consecutive block at the stored sequence when increment_sequence    *)
(* returns for its last proof, or fails having burned fewer than its plan. *)
(***************************************************************************)
THEOREM CooperativeRefinement ==
    ASSUME ~Preemptive
    PROVE  Spec => ImplementsLedger
<1>1. Init => RefInv
    BY CoopInit, ShapeInit DEF RefInv
<1>2. RefInv /\ [Next]_vars => RefInv'
    <2> SUFFICES ASSUME RefInv, [Next]_vars PROVE RefInv'
        OBVIOUS
    <2>1. CoopInv'
        BY CoopStep DEF RefInv
    <2>2. StretchShape'
        BY <2>1, ShapeStep DEF RefInv, CoopInv, BurnInv
    <2>3. QED
        BY <2>1, <2>2 DEF RefInv
<1>3. Init => Ledger!Init
    BY RefInit
<1>4. RefInv /\ RefInv' /\ [Next]_vars => [Ledger!Next]_Ledger!vars
    BY RefStep DEF RefInv, CoopInv
<1>5. QED
    BY <1>1, <1>2, <1>3, <1>4, PTL DEF Spec, ImplementsLedger, Ledger!Spec

-----------------------------------------------------------------------------
(***************************************************************************)
(* The ledger's own theorems, read through the refinement mapping.         *)
(***************************************************************************)
LedgerProofs == INSTANCE SequenceLedgerProofs
                  WITH NumProofs <- LAMBDA o : Len(ProofPlan(o)),
                       sequence <- LedgerSequence,
                       status <- LedgerStatus,
                       op <- LedgerOp,
                       grant <- LedgerGrant

\* The mapped ledger keeps its promise in every state of the factories.
LEMMA MappedLedgerNoReuse ==
    Ledger!Spec => []LedgerProofs!NoSequenceReuse
<1>1. /\ InitSequence \in Nat /\ MaxSequence \in Nat
      /\ InitSequence <= MaxSequence
      /\ \A o \in Ops : Len(ProofPlan(o)) \in Nat
    BY SequenceAssumption, PlanLen
<1>2. LedgerProofs!Spec => []LedgerProofs!NoSequenceReuse
    BY <1>1, LedgerProofs!LedgerNoReuse DEF LedgerProofs!LedgerAssumption
<1>3. Ledger!Spec <=> LedgerProofs!Spec
    BY DEF Ledger!Spec, LedgerProofs!Spec, Ledger!Init, LedgerProofs!Init,
           Ledger!Next, LedgerProofs!Next, Ledger!vars, LedgerProofs!vars,
           Ledger!Reserve, LedgerProofs!Reserve, Ledger!Abort, LedgerProofs!Abort,
           Ledger!Complete, LedgerProofs!Complete, Ledger!Drop, LedgerProofs!Drop,
           Ledger!NoGrant, LedgerProofs!NoGrant,
           Ledger!Consecutive, LedgerProofs!Consecutive
<1>4. QED
    BY <1>2, <1>3

\* The mapped transactions are the TxRaws themselves, so the mapped
\* promise is NoSequenceReuse.
LEMMA ProjectedNoReuse ==
    LedgerProofs!NoSequenceReuse => NoSequenceReuse
BY DEF LedgerProofs!NoSequenceReuse, NoSequenceReuse

(***************************************************************************)
(* NoSequenceReuse again, now as a consequence of the abstraction: the     *)
(* factories on one cooperative executor implement SequenceLedger, and    *)
(* every behaviour of the ledger keeps its sequences apart, so the TxRaws *)
(* the builder returns never carry a sequence twice.  The guarantee rests  *)
(* on the ledger's contract alone, not on how the factories reach it.     *)
(***************************************************************************)
THEOREM CooperativeNoReuseByLedger ==
    ASSUME ~Preemptive
    PROVE  Spec => []NoSequenceReuse
<1>1. Spec => Ledger!Spec
    BY CooperativeRefinement DEF ImplementsLedger
<1>2. QED
    BY <1>1, MappedLedgerNoReuse, ProjectedNoReuse, PTL

=============================================================================
