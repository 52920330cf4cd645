-------------------------- MODULE CooperativeProofs --------------------------
(***************************************************************************)
(* Proofs of the properties that hold because the calls share one         *)
(* cooperative executor (Preemptive = FALSE): no sequence is signed twice, *)
(* an ack's proofs are consecutive and end below its proof_height, and a   *)
(* solo-machine client never starts inside an ack's proof range.           *)
(*                                                                         *)
(* The argument: the stretch from chain_service.get to the last            *)
(* increment_sequence has no await, so the call in it owns the executor   *)
(* and no other call steps; during it the call's snapshot is the stored    *)
(* sequence; so every call's proofs are the consecutive values from where *)
(* it read the chain, and every other live call's sequences lie below.     *)
(***************************************************************************)
EXTENDS TransactionBuilderProofs

\* A call that has been made and has not failed.
Live(t) == pc[t] \notin {"idle", "failed"}

\* The sequence the call read from the chain: its snapshot less the
\* increments it has made.
Base(t) == chain[t] + (IF pc[t] = "incr" THEN 1 ELSE 0) - Len(proofs[t])

\* The call in its synchronous proof stretch owns the executor.
Owned(t) == pc[t] \in Stretch => owner = t
StretchOwned == \A t \in Tasks : Owned(t)

\* During the stretch the snapshot is the stored sequence.
Current(t) == pc[t] \in Stretch => chain[t] = sequence
StretchCurrent == \A t \in Tasks : Current(t)

\* A live call's proofs sign Base(t), Base(t) + 1, ... in order.
FromBase(t) ==
    Live(t) => \A i \in 1..Len(proofs[t]) : proofs[t][i] = Base(t) + i - 1
ProofsFromBase == \A t \in Tasks : FromBase(t)

\* Two live calls never signed the same sequence.
Disjoint(t, u) ==
    (t # u /\ Live(t) /\ Live(u)) => Signed(t) \cap Signed(u) = {}
SignedDisjoint == \A t, u \in Tasks : Disjoint(t, u)

\* A live call's snapshot is not strictly inside another's range of
\* sequences: it is at or below where the other read the chain, or, once
\* the other has left its stretch, at or above the other's snapshot.
Nested(t, u) ==
    (t # u /\ Live(t) /\ Live(u)) =>
        \/ chain[u] <= Base(t)
        \/ pc[t] \notin Stretch /\ chain[u] >= chain[t]
SnapshotsNested == \A t, u \in Tasks : Nested(t, u)

CoopInv ==
    /\ BurnInv
    /\ StretchOwned
    /\ StretchCurrent
    /\ ProofsFromBase
    /\ SignedDisjoint
    /\ SnapshotsNested

LEMMA CoopInit == Init => CoopInv
<1> SUFFICES ASSUME Init PROVE CoopInv
    OBVIOUS
<1>1. BurnInv
    BY BurnInit
<1>2. \A t \in Tasks : pc[t] = "idle" /\ proofs[t] = << >>
    BY DEF Init
<1>3. QED
    BY <1>1, <1>2
       DEF CoopInv, StretchOwned, StretchCurrent, ProofsFromBase, SignedDisjoint,
           SnapshotsNested, Owned, Current, FromBase, Disjoint, Nested, Live, Stretch

(***************************************************************************)
(* On one executor, a call that may step is the only one that can be in   *)
(* its stretch: the call in the stretch owns the executor.                 *)
(***************************************************************************)
LEMMA OthersOutOfStretch ==
    ASSUME ~Preemptive, StretchOwned,
           NEW t \in Tasks, CanRun(t),
           NEW u \in Tasks, u # t
    PROVE  pc[u] \notin Stretch
BY NoTaskAssumption DEF StretchOwned, Owned, CanRun

\* What a call's predicates depend on: its pc, snapshot and proofs.
Unmoved(u) ==
    /\ pc'[u] = pc[u]
    /\ chain'[u] = chain[u]
    /\ proofs'[u] = proofs[u]

LEMMA UnmovedFrame ==
    ASSUME NEW u \in Tasks, Unmoved(u), u \in DOMAIN pc
    PROVE  /\ Live(u)' = Live(u)
           /\ Base(u)' = Base(u)
           /\ Signed(u)' = Signed(u)
           /\ FromBase(u)' = FromBase(u)
BY DEF Unmoved, Live, Base, Signed, FromBase

LEMMA UnmovedPair ==
    ASSUME NEW u \in Tasks, NEW v \in Tasks, Unmoved(u), Unmoved(v)
    PROVE  /\ Disjoint(u, v)' = Disjoint(u, v)
           /\ Nested(u, v)' = Nested(u, v)
BY DEF Unmoved, Live, Base, Signed, Disjoint, Nested

(***************************************************************************)
(* A step of one call t, every other call unmoved and out of its stretch, *)
(* keeps CoopInv when it keeps the predicates of t and of the pairs with t.*)
(***************************************************************************)
LEMMA OneCall ==
    ASSUME CoopInv, BurnInv', NEW t \in Tasks,
           \A u \in Tasks : u # t => pc[u] \notin Stretch /\ Unmoved(u),
           Owned(t)', Current(t)', FromBase(t)',
           \A u \in Tasks : Disjoint(t, u)' /\ Disjoint(u, t)',
           \A u \in Tasks : Nested(t, u)' /\ Nested(u, t)'
    PROVE  CoopInv'
<1> USE DEF CoopInv
<1>1. StretchOwned'
    BY DEF StretchOwned, Owned, Unmoved
<1>2. StretchCurrent'
    BY DEF StretchCurrent, Current, Unmoved
<1>3. ProofsFromBase'
    <2> SUFFICES ASSUME NEW u \in Tasks, u # t PROVE FromBase(u)'
        BY DEF ProofsFromBase
    <2>1. Unmoved(u) /\ u \in DOMAIN pc
        BY DEF BurnInv, TypeInv, TypeOK
    <2>2. QED
        BY <2>1, UnmovedFrame DEF ProofsFromBase
<1>4. SignedDisjoint'
    <2> SUFFICES ASSUME NEW u \in Tasks, NEW v \in Tasks, u # t, v # t
                 PROVE  Disjoint(u, v)'
        BY DEF SignedDisjoint
    <2>1. QED
        BY UnmovedPair DEF SignedDisjoint
<1>5. SnapshotsNested'
    <2> SUFFICES ASSUME NEW u \in Tasks, NEW v \in Tasks, u # t, v # t
                 PROVE  Nested(u, v)'
        BY DEF SnapshotsNested
    <2>1. QED
        BY UnmovedPair DEF SnapshotsNested
<1>6. QED
    BY <1>1, <1>2, <1>3, <1>4, <1>5


(***************************************************************************)
(* A step of a live, unfinished call that only moves its pc keeps CoopInv *)
(* when it enters the stretch only from the stretch and holding the       *)
(* executor, and leaves Base unchanged unless it fails.                    *)
(***************************************************************************)
LEMMA CoopMove ==
    ASSUME ~Preemptive, CoopInv, BurnInv',
           NEW t \in Tasks, NEW l \in Labels \ {"idle"},
           pc[t] \notin {"idle", "done", "failed"},
           CanRun(t),
           l \in Stretch => (pc[t] \in Stretch /\ owner' = t),
           l # "failed" => ((pc[t] = "incr") <=> (l = "incr")),
           pc' = [pc EXCEPT ![t] = l],
           UNCHANGED <<sequence, op, chain, proofs>>
    PROVE  CoopInv'
<1>0. pc \in [Tasks -> Labels] /\ chain \in [Tasks -> Nat] /\ proofs \in [Tasks -> Seq(Nat)]
    BY DEF CoopInv, BurnInv, TypeInv, TypeOK
<1>1. \A u \in Tasks : u # t => pc[u] \notin Stretch /\ Unmoved(u)
    BY <1>0, OthersOutOfStretch DEF CoopInv, Unmoved
<1>2. pc'[t] = l
    BY <1>0
<1>3. Live(t)' => /\ Live(t) /\ Base(t)' = Base(t) /\ Signed(t)' = Signed(t)
                  /\ proofs'[t] = proofs[t]
    BY <1>2 DEF Live, Base, Signed
<1>4. Owned(t)'
    BY <1>2 DEF Owned
<1>5. Current(t)'
    BY <1>2 DEF Current, CoopInv, StretchCurrent
<1>6. FromBase(t)'
    BY <1>3 DEF FromBase, CoopInv, ProofsFromBase
<1>7. \A u \in Tasks : Disjoint(t, u)' /\ Disjoint(u, t)'
    <2> SUFFICES ASSUME NEW u \in Tasks, u # t, Live(t)', Live(u)'
                 PROVE  Signed(t)' \cap Signed(u)' = {}
        BY DEF Disjoint
    <2>1. Live(u)' = Live(u) /\ Signed(u)' = Signed(u)
        BY <1>0, <1>1, UnmovedFrame
    <2>2. QED
        BY <1>3, <2>1 DEF CoopInv, SignedDisjoint, Disjoint
<1>8. \A u \in Tasks : Nested(t, u)' /\ Nested(u, t)'
    <2> SUFFICES ASSUME NEW u \in Tasks, u # t, Live(t)', Live(u)'
                 PROVE  Nested(t, u)' /\ Nested(u, t)'
        BY DEF Nested
    <2>1. Live(u)' = Live(u) /\ Base(u)' = Base(u) /\ Unmoved(u)
        BY <1>0, <1>1, UnmovedFrame
    <2>2. Nested(t, u) /\ Nested(u, t)
        BY DEF CoopInv, SnapshotsNested
    <2>3. Nested(t, u)'
        BY <1>2, <1>3, <2>1, <2>2 DEF Nested, Unmoved
    <2>4. Nested(u, t)'
        BY <1>1, <1>3, <2>1, <2>2 DEF Nested, Unmoved
    <2>5. QED
        BY <2>3, <2>4
<1>9. QED
    BY <1>1, <1>4, <1>5, <1>6, <1>7, <1>8, OneCall


(***************************************************************************)
(* Nothing CoopInv speaks of changes.                                      *)
(***************************************************************************)
LEMMA CoopFrame ==
    ASSUME CoopInv, BurnInv', UNCHANGED <<sequence, pc, chain, proofs, owner>>
    PROVE  CoopInv'
<1>1. \A u \in Tasks : Unmoved(u)
    BY DEF Unmoved
<1>2. StretchOwned' /\ StretchCurrent'
    BY DEF CoopInv, StretchOwned, StretchCurrent, Owned, Current
<1>3. ProofsFromBase'
    BY <1>1, UnmovedFrame DEF CoopInv, ProofsFromBase, BurnInv, TypeInv, TypeOK
<1>4. SignedDisjoint' /\ SnapshotsNested'
    BY <1>1, UnmovedPair DEF CoopInv, SignedDisjoint, SnapshotsNested
<1>5. QED
    BY <1>2, <1>3, <1>4 DEF CoopInv

LEMMA CoopStep ==
    ASSUME ~Preemptive
    PROVE  CoopInv /\ [Next]_vars => CoopInv'
<1> SUFFICES ASSUME CoopInv, [Next]_vars PROVE CoopInv'
    OBVIOUS
<1>0. BurnInv'
    BY BurnStep DEF CoopInv
<1>a. /\ sequence \in Nat /\ pc \in [Tasks -> Labels] /\ chain \in [Tasks -> Nat]
      /\ proofs \in [Tasks -> Seq(Nat)] /\ owner \in Tasks \cup {NoTask}
    BY SequenceAssumption DEF CoopInv, BurnInv, TypeInv, TypeOK
<1>b. SnapshotBehind /\ IdleUnsigned /\ SignedBurned /\ StretchOwned /\ StretchCurrent
      /\ ProofsFromBase /\ SignedDisjoint /\ SnapshotsNested
    BY DEF CoopInv, BurnInv
<1>1. ASSUME NEW t \in Tasks, NEW o \in Ops, Start(t, o) PROVE CoopInv'
    <2>0. /\ pc[t] = "idle" /\ proofs[t] = << >> /\ CanRun(t)
          /\ \A u \in Tasks : u # t => pc[u] \notin Stretch /\ Unmoved(u)
        BY <1>1, <1>a, <1>b, OthersOutOfStretch DEF Start, Goto, IdleUnsigned, Unmoved
    <2>1. /\ pc'[t] \notin {"idle", "incr", "failed"}
          /\ pc'[t] \in Stretch => owner' = t
        BY <1>1, <1>a DEF Start, FirstStep, Goto, Hold, Yield, Stretch
    <2>2. /\ chain'[t] = sequence /\ sequence' = sequence /\ proofs'[t] = << >>
          /\ Base(t)' = sequence /\ Signed(t)' = {} /\ Live(t)'
        BY <1>1, <1>a, <2>0, <2>1 DEF Start, Base, Signed, Live
    <2>3. Owned(t)' /\ Current(t)' /\ FromBase(t)'
        BY <2>1, <2>2 DEF Owned, Current, FromBase
    <2>4. \A u \in Tasks : Disjoint(t, u)' /\ Disjoint(u, t)'
        BY <2>2 DEF Disjoint
    <2>5. \A u \in Tasks : Nested(t, u)' /\ Nested(u, t)'
        <3> SUFFICES ASSUME NEW u \in Tasks, u # t, Live(u)'
                     PROVE  Nested(t, u)' /\ Nested(u, t)'
            BY DEF Nested
        <3>1. Live(u)' = Live(u) /\ Base(u)' = Base(u) /\ Unmoved(u) /\ pc[u] \notin Stretch
            BY <1>a, <2>0, UnmovedFrame
        <3>2. chain[u] <= sequence
            BY <1>b DEF SnapshotBehind
        <3>3. Nested(t, u)'
            BY <2>2, <3>1, <3>2 DEF Nested, Unmoved
        <3>4. Nested(u, t)'
            BY <2>2, <3>1, <3>2 DEF Nested, Unmoved
        <3>5. QED
            BY <3>3, <3>4
    <2>6. QED
        BY <1>0, <2>0, <2>3, <2>4, <2>5, OneCall
<1>2. ASSUME NEW t \in Tasks, NEW o \in Ops, StartFails(t, o) PROVE CoopInv'
    <2>0. /\ pc[t] = "idle" /\ CanRun(t) /\ pc'[t] = "failed" /\ ~Live(t)'
          /\ \A u \in Tasks : u # t => pc[u] \notin Stretch /\ Unmoved(u)
        BY <1>2, <1>a, <1>b, OthersOutOfStretch DEF StartFails, Fail, Goto, Live, Unmoved
    <2>1. Owned(t)' /\ Current(t)' /\ FromBase(t)'
        BY <2>0 DEF Owned, Current, FromBase, Stretch
    <2>2. \A u \in Tasks : /\ Disjoint(t, u)' /\ Disjoint(u, t)'
                           /\ Nested(t, u)' /\ Nested(u, t)'
        BY <2>0 DEF Disjoint, Nested
    <2>3. QED
        BY <1>0, <2>0, <2>1, <2>2, OneCall
<1>3. ASSUME NEW t \in Tasks, QueryClientState(t) PROVE CoopInv'
    <2>1. pc[t] = "query" /\ CanRun(t)
        BY <1>3 DEF QueryClientState
    <2>2. CASE Goto(t, "prove") /\ Hold(t)
        BY <1>0, <1>3, <2>1, <2>2, CoopMove
           DEF QueryClientState, Goto, Hold, Stretch, Labels
    <2>3. CASE Fail(t)
        BY <1>0, <1>3, <2>1, <2>3, CoopMove
           DEF QueryClientState, Fail, Goto, Stretch, Labels
    <2>4. QED
        BY <1>3, <2>2, <2>3 DEF QueryClientState
<1>6. ASSUME NEW t \in Tasks, BuildBody(t) PROVE CoopInv'
    <2>1. pc[t] = "build" /\ CanRun(t)
        BY <1>6 DEF BuildBody
    <2>2. QED
        BY <1>0, <1>6, <2>1, CoopMove DEF BuildBody, Goto, Stretch, Labels
<1>7. ASSUME NEW t \in Tasks, EmitTx(t) PROVE CoopInv'
    <2>1. pc[t] = "account" /\ CanRun(t)
        BY <1>7 DEF EmitTx
    <2>2. QED
        BY <1>0, <1>7, <2>1, CoopMove DEF EmitTx, Goto, Stretch, Labels
<1>8. ASSUME NEW t \in Tasks, TmClientStep(t) PROVE CoopInv'
    <2>1. pc[t] \in {"unbonding", "status", "block"} /\ CanRun(t)
        BY <1>8 DEF TmClientStep
    <2>2. QED
        BY <1>0, <1>8, <2>1, CoopMove DEF TmClientStep, Goto, Stretch, Labels
<1>9. CASE Terminated \/ UNCHANGED vars
    BY <1>0, <1>9, CoopFrame DEF Terminated, vars
<1>4. ASSUME NEW t \in Tasks, Prove(t) PROVE CoopInv'
    <2>0. /\ pc[t] = "prove" /\ CanRun(t) /\ chain[t] = sequence /\ Live(t)
          /\ \A u \in Tasks : u # t => pc[u] \notin Stretch /\ Unmoved(u)
        BY <1>4, <1>a, <1>b, OthersOutOfStretch
           DEF Prove, Fail, Goto, StretchCurrent, Current, Stretch, Unmoved, Live
    <2>1. CASE /\ proofs' = [proofs EXCEPT ![t] = Append(proofs[t], chain[t])]
               /\ Goto(t, "incr") /\ Hold(t)
               /\ UNCHANGED <<sequence, op, chain, txs>>
        <3>0. proofs[t] \in Seq(Nat) /\ chain[t] \in Nat
            BY <1>a
        <3>1. /\ Len(proofs'[t]) = Len(proofs[t]) + 1
              /\ \A i \in 1..Len(proofs[t]) : proofs'[t][i] = proofs[t][i]
              /\ proofs'[t][Len(proofs[t]) + 1] = chain[t]
            BY <1>a, <2>1, <3>0, AppendProperties
        <3>2. Signed(t)' = Signed(t) \cup {chain[t]}
            <4>1. {Append(proofs[t], chain[t])[i] : i \in 1..Len(Append(proofs[t], chain[t]))}
                    = Signed(t) \cup {chain[t]}
                BY <3>0, SignedAppend DEF Signed
            <4>2. QED
                BY <1>a, <2>1, <4>1 DEF Signed
        <3>3. /\ pc'[t] = "incr" /\ owner' = t /\ chain' = chain /\ sequence' = sequence
              /\ Base(t)' = Base(t) /\ Live(t)'
            BY <1>a, <2>0, <2>1, <3>1 DEF Goto, Hold, Base, Live
        <3>4. Owned(t)' /\ Current(t)'
            BY <2>0, <3>3 DEF Owned, Current
        <3>5. FromBase(t)'
            <4> SUFFICES ASSUME NEW i \in 1..Len(proofs'[t])
                         PROVE  proofs'[t][i] = Base(t)' + i - 1
                BY DEF FromBase
            <4>1. FromBase(t)
                BY <1>b DEF ProofsFromBase
            <4>2. CASE i \in 1..Len(proofs[t])
                BY <2>0, <3>1, <3>3, <4>1, <4>2 DEF FromBase
            <4>3. CASE i = Len(proofs[t]) + 1
                BY <1>a, <3>0, <3>1, <3>3, <4>3 DEF Base
            <4>4. QED
                BY <3>0, <3>1, <4>2, <4>3
        <3>6. \A u \in Tasks : Disjoint(t, u)' /\ Disjoint(u, t)'
            <4> SUFFICES ASSUME NEW u \in Tasks, u # t, Live(u)'
                         PROVE  Signed(t)' \cap Signed(u)' = {}
                BY DEF Disjoint
            <4>1. Live(u) /\ Signed(u)' = Signed(u) /\ pc[u] \notin Stretch
                BY <1>a, <2>0, UnmovedFrame
            <4>2. \A x \in Signed(u) : x < sequence
                BY <4>1, <1>b DEF SignedBurned, Unburned, Live, Stretch
            <4>3. Signed(t) \cap Signed(u) = {}
                BY <2>0, <4>1, <1>b DEF SignedDisjoint, Disjoint
            <4>4. QED
                BY <1>a, <2>0, <3>2, <4>1, <4>2, <4>3
        <3>7. \A u \in Tasks : Nested(t, u)' /\ Nested(u, t)'
            <4> SUFFICES ASSUME NEW u \in Tasks, u # t
                         PROVE  Nested(t, u)' /\ Nested(u, t)'
                BY DEF Nested
            <4>1. Live(u)' = Live(u) /\ Base(u)' = Base(u) /\ Unmoved(u)
                BY <1>a, <2>0, UnmovedFrame
            <4>2. Nested(t, u) /\ Nested(u, t)
                BY <1>b DEF SnapshotsNested
            <4>3. QED
                BY <2>0, <3>3, <4>1, <4>2 DEF Nested, Unmoved, Stretch
        <3>8. QED
            BY <1>0, <2>0, <3>4, <3>5, <3>6, <3>7, OneCall
    <2>2. CASE Fail(t) /\ UNCHANGED proofs /\ UNCHANGED <<sequence, op, chain, txs>>
        BY <1>0, <2>0, <2>2, CoopMove DEF Fail, Goto, Stretch, Labels
    <2>3. QED
        BY <1>4, <2>1, <2>2 DEF Prove
<1>5. ASSUME NEW t \in Tasks, IncrementSequence(t) PROVE CoopInv'
    <2>0. /\ pc[t] = "incr" /\ CanRun(t) /\ chain[t] = sequence /\ Live(t)
          /\ \A u \in Tasks : u # t => pc[u] \notin Stretch /\ Unmoved(u)
        BY <1>5, <1>a, <1>b, OthersOutOfStretch
           DEF IncrementSequence, Fail, Goto, StretchCurrent, Current, Stretch,
               Unmoved, Live
    <2>1. CASE /\ sequence < MaxSequence
               /\ sequence' = sequence + 1
               /\ chain' = [chain EXCEPT ![t] = sequence + 1]
               /\ Goto(t, IF Len(proofs[t]) = Len(ProofPlan(op[t])) THEN "build" ELSE "prove")
               /\ Hold(t)
               /\ UNCHANGED <<op, proofs, txs>>
        <3>1. /\ pc'[t] \in {"prove", "build"} /\ chain'[t] = sequence' /\ owner' = t
              /\ Base(t)' = Base(t) /\ Live(t)' /\ Signed(t)' = Signed(t)
              /\ proofs'[t] = proofs[t]
            BY <1>a, <2>0, <2>1 DEF Goto, Hold, Base, Live, Signed
        <3>2. Owned(t)' /\ Current(t)'
            BY <3>1 DEF Owned, Current
        <3>3. FromBase(t)'
            BY <1>b, <3>1, <2>0 DEF ProofsFromBase, FromBase
        <3>4. \A u \in Tasks : Disjoint(t, u)' /\ Disjoint(u, t)'
            <4> SUFFICES ASSUME NEW u \in Tasks, u # t
                         PROVE  Disjoint(t, u)' /\ Disjoint(u, t)'
                BY DEF Disjoint
            <4>1. Live(u)' = Live(u) /\ Signed(u)' = Signed(u)
                BY <1>a, <2>0, UnmovedFrame
            <4>2. QED
                BY <1>b, <2>0, <3>1, <4>1 DEF SignedDisjoint, Disjoint
        <3>5. \A u \in Tasks : Nested(t, u)' /\ Nested(u, t)'
            <4> SUFFICES ASSUME NEW u \in Tasks, u # t
                         PROVE  Nested(t, u)' /\ Nested(u, t)'
                BY DEF Nested
            <4>1. Live(u)' = Live(u) /\ Base(u)' = Base(u) /\ Unmoved(u) /\ pc[u] \notin Stretch
                BY <1>a, <2>0, UnmovedFrame
            <4>2. Nested(t, u) /\ chain[u] <= sequence
                BY <1>b DEF SnapshotsNested, SnapshotBehind
            <4>3. Nested(t, u)'
                BY <2>0, <3>1, <4>1, <4>2 DEF Nested, Unmoved, Stretch
            <4>4. Nested(u, t)'
                BY <1>a, <2>1, <3>1, <4>1, <4>2 DEF Nested, Unmoved
            <4>5. QED
                BY <4>3, <4>4
        <3>6. QED
            BY <1>0, <2>0, <3>2, <3>3, <3>4, <3>5, OneCall
    <2>2. CASE /\ Fail(t)
               /\ UNCHANGED <<sequence, chain>>
               /\ UNCHANGED <<op, proofs, txs>>
        BY <1>0, <2>0, <2>2, CoopMove DEF Fail, Goto, Stretch, Labels
    <2>3. QED
        BY <1>5, <2>1, <2>2 DEF IncrementSequence
<1>10. QED
    BY <1>1, <1>2, <1>3, <1>4, <1>5, <1>6, <1>7, <1>8, <1>9 DEF Next, Running


(***************************************************************************)
(* On one cooperative executor CoopInv holds in every reachable state, for *)
(* any number of calls and any sequence bounds.                            *)
(***************************************************************************)
THEOREM CoopInvariant ==
    ASSUME ~Preemptive
    PROVE  Spec => []CoopInv
<1>1. Init => CoopInv
    BY CoopInit
<1>2. CoopInv /\ [Next]_vars => CoopInv'
    BY CoopStep
<1>3. QED
    BY <1>1, <1>2, PTL DEF Spec

\* Facts about an emitted transaction: it is its finished call's proofs
\* and snapshot, and those proofs start at the call's Base.
LEMMA TxFacts ==
    ASSUME CoopInv, NEW tx \in txs
    PROVE  /\ tx.task \in Tasks
           /\ Live(tx.task) /\ pc[tx.task] = "done"
           /\ tx.proofs = proofs[tx.task] /\ tx.height = chain[tx.task]
           /\ tx.proofs \in Seq(Nat) /\ tx.height \in Nat
           /\ Base(tx.task) = tx.height - Len(tx.proofs)
           /\ \A i \in 1..Len(tx.proofs) : tx.proofs[i] = Base(tx.task) + i - 1
<1>1. /\ tx.task \in Tasks /\ pc[tx.task] = "done"
      /\ tx.proofs = proofs[tx.task] /\ tx.height = chain[tx.task]
      /\ tx.proofs \in Seq(Nat) /\ tx.height \in Nat
    BY DEF CoopInv, BurnInv, TypeInv, TypeOK, TxRecords, TxsOfDoneCalls
<1>2. Live(tx.task) /\ Base(tx.task) = tx.height - Len(tx.proofs)
    BY <1>1 DEF Live, Base
<1>3. FromBase(tx.task)
    BY <1>1 DEF CoopInv, ProofsFromBase
<1>4. QED
    BY <1>1, <1>2, <1>3 DEF FromBase

(***************************************************************************)
(* No sequence is signed into two proofs that leave the builder            *)
(* (NoSequenceReuse, checked by the cooperative safety run), for every     *)
(* number of calls and every bound, when the calls share one executor.     *)
(***************************************************************************)
THEOREM CooperativeNoReuse ==
    ASSUME ~Preemptive
    PROVE  Spec => []NoSequenceReuse
<1>1. CoopInv => NoSequenceReuse
    <2> SUFFICES ASSUME CoopInv,
                        NEW x \in txs, NEW y \in txs,
                        NEW i \in 1..Len(x.proofs), NEW j \in 1..Len(y.proofs),
                        <<x.task, i>> # <<y.task, j>>
                 PROVE  x.proofs[i] # y.proofs[j]
        BY DEF NoSequenceReuse
    <2>1. CASE x.task = y.task
        <3>1. /\ x.proofs = proofs[x.task] /\ x.proofs[i] = Base(x.task) + i - 1
              /\ x.height \in Nat /\ Base(x.task) = x.height - Len(x.proofs)
            BY TxFacts
        <3>4. y.proofs = proofs[y.task] /\ y.proofs[j] = Base(y.task) + j - 1
            BY TxFacts
        <3>2. i # j
            BY <2>1
        <3>3. QED
            BY <2>1, <3>1, <3>2, <3>4
    <2>2. CASE x.task # y.task
        <3>1. x.proofs[i] \in Signed(x.task) /\ y.proofs[j] \in Signed(y.task)
            BY TxFacts DEF Signed
        <3>2. Disjoint(x.task, y.task)
            BY TxFacts DEF CoopInv, SignedDisjoint
        <3>3. QED
            BY <2>2, <3>1, <3>2, TxFacts DEF Disjoint
    <2>3. QED
        BY <2>1, <2>2
<1>2. QED
    BY <1>1, CoopInvariant, PTL

(***************************************************************************)
(* Spec 8 for every value of the constants on one executor: an ack's       *)
(* proofs sign consecutive sequences and its proof_height follows the last *)
(* (AckProofsConsecutive, checked by the cooperative safety run).          *)
(***************************************************************************)
THEOREM CooperativeAckConsecutive ==
    ASSUME ~Preemptive
    PROVE  Spec => []AckProofsConsecutive
<1>1. CoopInv => AckProofsConsecutive
    BY TxFacts DEF AckProofsConsecutive
<1>2. QED
    BY <1>1, CoopInvariant, PTL

(***************************************************************************)
(* A solo-machine client created on the same executor as an ack never     *)
(* embeds a sequence strictly inside the ack's proof range                 *)
(* (ClientOutsideAckProofs, checked by the cooperative safety run).        *)
(***************************************************************************)
THEOREM CooperativeClientOutside ==
    ASSUME ~Preemptive
    PROVE  Spec => []ClientOutsideAckProofs
<1>1. CoopInv => ClientOutsideAckProofs
    <2> SUFFICES ASSUME CoopInv, NEW c \in txs, NEW a \in txs, Len(a.proofs) > 0
                 PROVE  c.height <= a.proofs[1] \/ c.height >= a.height
        BY DEF ClientOutsideAckProofs
    <2>1. CASE c.task = a.task
        BY <2>1, TxFacts
    <2>2. CASE c.task # a.task
        <3>1. Nested(a.task, c.task)
            BY TxFacts DEF CoopInv, SnapshotsNested
        <3>2. a.proofs[1] = Base(a.task)
            <4>1. 1 \in 1..Len(a.proofs) /\ a.proofs \in Seq(Nat)
                BY TxFacts
            <4>2. \A k \in 1..Len(a.proofs) : a.proofs[k] = Base(a.task) + k - 1
                BY TxFacts
            <4>3. Base(a.task) \in Int
                BY TxFacts
            <4>4. QED
                BY <4>1, <4>2, <4>3
        <3>3. QED
            BY <2>2, <3>1, <3>2, TxFacts DEF Nested
    <2>3. QED
        BY <2>1, <2>2
<1>2. QED
    BY <1>1, CoopInvariant, PTL

(***************************************************************************)
(* Stale snapshots.  A step either leaves every call's proofs alone or is  *)
(* a Prove of a call in its stretch, whose snapshot is the stored          *)
(* sequence (StretchCurrent).                                              *)
(***************************************************************************)
SignedNow ==
    \A t \in Tasks :
        proofs'[t] # proofs[t] => proofs'[t] = Append(proofs[t], sequence)

\* Every action other than Prove leaves the proofs as they are.
LEMMA ProofsKept ==
    ASSUME [Next]_vars, ~\E t \in Tasks : Prove(t)
    PROVE  proofs' = proofs
<1>1. CASE \E t \in Tasks, o \in Ops : Start(t, o) \/ StartFails(t, o)
    BY <1>1 DEF Start, StartFails
<1>2. CASE \E t \in Tasks : Running(t)
    <2> PICK t \in Tasks : Running(t)
        BY <1>2
    <2> QED
        BY DEF Running, QueryClientState, IncrementSequence, BuildBody,
               EmitTx, TmClientStep
<1>3. CASE Terminated \/ UNCHANGED vars
    BY <1>3 DEF Terminated, vars
<1>4. QED
    BY <1>1, <1>2, <1>3 DEF Next

LEMMA SignedNowStep ==
    ASSUME CoopInv, [Next]_vars
    PROVE  SignedNow
<1>1. CASE \E t \in Tasks : Prove(t)
    <2> PICK t \in Tasks : Prove(t)
        BY <1>1
    <2>1. proofs \in [Tasks -> Seq(Nat)] /\ chain[t] = sequence
        BY DEF CoopInv, BurnInv, TypeInv, TypeOK, StretchCurrent, Current,
               Prove, Stretch
    <2>2. CASE proofs' = [proofs EXCEPT ![t] = Append(@, chain[t])]
        BY <2>1, <2>2 DEF SignedNow
    <2>3. CASE UNCHANGED proofs
        BY <2>3 DEF SignedNow
    <2>4. QED
        BY <2>2, <2>3 DEF Prove
<1>2. CASE ~\E t \in Tasks : Prove(t)
    BY <1>2, ProofsKept DEF SignedNow
<1>3. QED
    BY <1>1, <1>2

(***************************************************************************)
(* On one executor every proof is signed with the sequence ChainService    *)
(* stores when it is signed (SignsStoredSequence, checked by the           *)
(* cooperative safety run): the snapshot a factory signs with is never     *)
(* stale.                                                                  *)
(***************************************************************************)
THEOREM CooperativeSignsStored ==
    ASSUME ~Preemptive
    PROVE  Spec => SignsStoredSequence
<1>1. CoopInv /\ [Next]_vars => [SignedNow]_vars
    BY SignedNowStep
<1>2. Spec => [][Next]_vars
    BY DEF Spec
<1>3. QED
    BY <1>1, <1>2, CoopInvariant, PTL DEF SignsStoredSequence, SignedNow

=============================================================================
