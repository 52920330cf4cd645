------------------------- MODULE TransactionBuilder -------------------------
(***************************************************************************)
(* The message factories of the solo-machine TransactionBuilder            *)
(* (src/solo-machine/src/transaction_builder.rs) running as concurrent     *)
(* calls against one chain id.                                             *)
(*                                                                         *)
(* Each element of Tasks is one call of a factory: it reads the chain      *)
(* (ChainService::get), signs zero, one or three solo-machine proofs with  *)
(* the sequence of its local `chain` snapshot, replaces the snapshot by    *)
(* the one increment_sequence returns after each proof, and hands the      *)
(* message to `build`, which awaits the account query and emits a TxRaw.  *)
(* The only shared state is the chain's stored sequence.                   *)
(*                                                                         *)
(* Data is abstracted: a proof is the sequence value its SignBytes carry,  *)
(* an emitted TxRaw is the record of its factory, its proofs and the       *)
(* chain.sequence its message embeds (proof_height.revision_height for an  *)
(* ack, client_state.sequence for a solo-machine client).                  *)
(*                                                                         *)
(* Scheduling: with Preemptive = FALSE the calls share one cooperative     *)
(* executor and a call is only suspended at an .await (the owner of the    *)
(* executor runs until its next await); with Preemptive = TRUE calls run   *)
(* on parallel worker threads or processes sharing the chain database and  *)
(* every ChainService call is an interleaving point.                       *)
(***************************************************************************)
EXTENDS Naturals, Sequences

CONSTANTS
    Tasks,          \* concurrent factory calls against the same chain id
    NoTask,         \* owner of the executor when no call is running
    InitSequence,   \* chain.sequence when the chain was registered
    MaxSequence,    \* the last sequence increment_sequence can store (u64::MAX)
    Preemptive      \* calls run in parallel rather than on one cooperative executor

ASSUME NoTaskAssumption == NoTask \notin Tasks
ASSUME SequenceAssumption ==
    /\ InitSequence \in Nat
    /\ MaxSequence \in Nat
    /\ InitSequence <= MaxSequence
ASSUME PreemptiveAssumption == Preemptive \in BOOLEAN

VARIABLES
    sequence,   \* the chain's sequence as ChainService stores it
    pc,         \* where each call is in its factory
    op,         \* which factory each call runs
    chain,      \* chain.sequence of each call's local `chain` snapshot
    proofs,     \* the sequences signed by each call's proofs, in order
    owner,      \* the call holding the cooperative executor
    txs         \* the TxRaws emitted so far (history)

vars == <<sequence, pc, op, chain, proofs, owner, txs>>

(***************************************************************************)
(* The factories and the proofs each one signs, in the order it signs them *)
(* (msg_connection_open_ack: proof_try, proof_client, proof_consensus;     *)
(* msg_channel_open_ack: proof_try).                                       *)
(***************************************************************************)
Ops == {"CreateSoloClient", "CreateTmClient", "ConnOpenInit",
        "ConnOpenAck", "ChanOpenInit", "ChanOpenAck"}

NoOp == "none"

ProofPlan(o) ==
    CASE o = "ConnOpenAck" -> <<"ConnectionState", "ClientState", "ConsensusState">>
      [] o = "ChanOpenAck" -> <<"ChannelState">>
      [] OTHER             -> << >>

Labels == {"idle", "query", "prove", "incr", "build", "account",
           "unbonding", "status", "block", "done", "failed"}

TxRecords == [task : Tasks, op : Ops, proofs : Seq(Nat), height : Nat]

(***************************************************************************)
(* A call may take a step of its synchronous code when it owns the        *)
(* executor, or nobody does; preemptive calls may always step.             *)
(***************************************************************************)
CanRun(t) == Preemptive \/ owner \in {t, NoTask}

\* The call keeps running synchronously / reaches an await or returns.
Hold(t) == owner' = t
Yield   == owner' = NoTask

Goto(t, l) == pc' = [pc EXCEPT ![t] = l]

\* The call returns an error (every `?` of the factories).
Fail(t) ==
    /\ Goto(t, "failed")
    /\ Yield

(***************************************************************************)
(* The first synchronous stretch after the call: chain_service.get reads  *)
(* the stored chain into the local snapshot.  msg_create_tendermint_client *)
(* reaches the await of the staking query at once; the acks go on to      *)
(* their queries and proofs; the other factories build their message and  *)
(* enter `build`.                                                          *)
(***************************************************************************)
FirstStep(o) ==
    CASE o = "CreateTmClient" -> "unbonding"
      [] o = "ConnOpenAck"    -> "query"
      [] o = "ChanOpenAck"    -> "prove"
      [] OTHER                -> "build"

\* Mutant: chain_service.get becomes an await (an async ChainService), so
\* the call is suspended between reading the chain and signing with it.
StartYields(t, o) ==
    /\ pc[t] = "idle"
    /\ CanRun(t)
    /\ op' = [op EXCEPT ![t] = o]
    /\ chain' = [chain EXCEPT ![t] = sequence]
    /\ Goto(t, FirstStep(o))
    /\ Yield
    /\ UNCHANGED <<sequence, proofs, txs>>

Start(t, o) ==
    /\ pc[t] = "idle"
    /\ CanRun(t)
    /\ op' = [op EXCEPT ![t] = o]
    /\ chain' = [chain EXCEPT ![t] = sequence]
    /\ Goto(t, FirstStep(o))
    /\ IF o = "CreateTmClient" THEN Yield ELSE Hold(t)
    /\ UNCHANGED <<sequence, proofs, txs>>

\* chain_service.get fails or finds no chain with this id.
StartFails(t, o) ==
    /\ pc[t] = "idle"
    /\ CanRun(t)
    /\ op' = [op EXCEPT ![t] = o]
    /\ Fail(t)
    /\ UNCHANGED <<sequence, chain, proofs, txs>>

\* Mutant: the client-state lookup becomes an await (an async query
\* handler), so the call is suspended between reading the chain and its
\* first proof.
QueryClientStateYields(t) ==
    /\ pc[t] = "query"
    /\ CanRun(t)
    /\ \/ /\ Goto(t, "prove")
          /\ Yield
       \/ Fail(t)
    /\ UNCHANGED <<sequence, op, chain, proofs, txs>>

(***************************************************************************)
(* msg_connection_open_ack looks up the tendermint client state before    *)
(* signing anything.                                                       *)
(***************************************************************************)
QueryClientState(t) ==
    /\ pc[t] = "query"
    /\ CanRun(t)
    /\ \/ /\ Goto(t, "prove")
          /\ Hold(t)
       \/ Fail(t)
    /\ UNCHANGED <<sequence, op, chain, proofs, txs>>

(***************************************************************************)
(* One get_*_proof call: the query handler yields the object (or not, and *)
(* the call fails) and SignBytes are signed with the snapshot's sequence.  *)
(***************************************************************************)
\* Mutant: the query handler lookup becomes an await (an async store), so
\* the call is suspended after each proof it signs.
ProveYields(t) ==
    /\ pc[t] = "prove"
    /\ CanRun(t)
    /\ \/ /\ proofs' = [proofs EXCEPT ![t] = Append(@, chain[t])]
          /\ Goto(t, "incr")
          /\ Yield
       \/ /\ Fail(t)
          /\ UNCHANGED proofs
    /\ UNCHANGED <<sequence, op, chain, txs>>

Prove(t) ==
    /\ pc[t] = "prove"
    /\ CanRun(t)
    /\ \/ /\ proofs' = [proofs EXCEPT ![t] = Append(@, chain[t])]
          /\ Goto(t, "incr")
          /\ Hold(t)
       \/ /\ Fail(t)
          /\ UNCHANGED proofs
    /\ UNCHANGED <<sequence, op, chain, txs>>

(***************************************************************************)
(* chain = chain_service.increment_sequence(chain_id)?: the stored        *)
(* sequence goes up by one and the call's snapshot becomes the returned   *)
(* chain.  The counter is u64: at MaxSequence the increment fails.  After  *)
(* the last proof of its plan the call builds its message.                 *)
(***************************************************************************)
\* Mutant: no overflow check on the u64 counter.
IncrementSequenceUnchecked(t) ==
    /\ pc[t] = "incr"
    /\ CanRun(t)
    /\ sequence' = sequence + 1
    /\ chain' = [chain EXCEPT ![t] = sequence + 1]
    /\ Goto(t, IF Len(proofs[t]) = Len(ProofPlan(op[t])) THEN "build" ELSE "prove")
    /\ Hold(t)
    /\ UNCHANGED <<op, proofs, txs>>

\* Mutant: increment_sequence returns the chain as it was before the
\* increment (fetch-and-add).
IncrementSequenceFetchAdd(t) ==
    /\ pc[t] = "incr"
    /\ CanRun(t)
    /\ \/ /\ sequence < MaxSequence
          /\ sequence' = sequence + 1
          /\ chain' = [chain EXCEPT ![t] = sequence]
          /\ Goto(t, IF Len(proofs[t]) = Len(ProofPlan(op[t])) THEN "build" ELSE "prove")
          /\ Hold(t)
       \/ /\ Fail(t)
          /\ UNCHANGED <<sequence, chain>>
    /\ UNCHANGED <<op, proofs, txs>>

\* Mutant: the call stores its snapshot's sequence plus one instead of an
\* atomic increment (read-modify-write).
IncrementSequenceFromSnapshot(t) ==
    /\ pc[t] = "incr"
    /\ CanRun(t)
    /\ \/ /\ chain[t] < MaxSequence
          /\ sequence' = chain[t] + 1
          /\ chain' = [chain EXCEPT ![t] = chain[t] + 1]
          /\ Goto(t, IF Len(proofs[t]) = Len(ProofPlan(op[t])) THEN "build" ELSE "prove")
          /\ Hold(t)
       \/ /\ Fail(t)
          /\ UNCHANGED <<sequence, chain>>
    /\ UNCHANGED <<op, proofs, txs>>

IncrementSequence(t) ==
    /\ pc[t] = "incr"
    /\ CanRun(t)
    /\ \/ /\ sequence < MaxSequence
          /\ sequence' = sequence + 1
          /\ chain' = [chain EXCEPT ![t] = sequence + 1]
          /\ Goto(t, IF Len(proofs[t]) = Len(ProofPlan(op[t])) THEN "build" ELSE "prove")
          /\ Hold(t)
       \/ /\ Fail(t)
          /\ UNCHANGED <<sequence, chain>>
    /\ UNCHANGED <<op, proofs, txs>>

(***************************************************************************)
(* The message is put together (account_address, to_any) and `build`     *)
(* encodes the TxBody and reaches the await of the auth query client.      *)
(***************************************************************************)
BuildBody(t) ==
    /\ pc[t] = "build"
    /\ CanRun(t)
    /\ \/ Goto(t, "account")
       \/ Goto(t, "failed")
    /\ Yield
    /\ UNCHANGED <<sequence, op, chain, proofs, txs>>

(***************************************************************************)
(* get_account_details resumes with the account (or a transport error);  *)
(* build_auth_info puts its number and sequence into the SignerInfo,       *)
(* build_signature signs the SignDoc (each may fail), and the TxRaw is     *)
(* returned.  The account data is left out: no property reads it.          *)
(***************************************************************************)
EmitTx(t) ==
    /\ pc[t] = "account"
    /\ CanRun(t)
    /\ \/ /\ txs' = txs \cup {[task |-> t, op |-> op[t], proofs |-> proofs[t],
                               height |-> chain[t]]}
          /\ Goto(t, "done")
       \/ /\ Goto(t, "failed")
          /\ UNCHANGED txs
    /\ Yield
    /\ UNCHANGED <<sequence, op, chain, proofs>>

(***************************************************************************)
(* msg_create_tendermint_client: three awaits (staking params, RPC status *)
(* -- which fails when the node is catching up --, RPC block), each of    *)
(* which may fail; the pair it returns is not a transaction.               *)
(***************************************************************************)
TmClientStep(t) ==
    /\ pc[t] \in {"unbonding", "status", "block"}
    /\ CanRun(t)
    /\ \/ Goto(t, CASE pc[t] = "unbonding" -> "status"
                    [] pc[t] = "status"    -> "block"
                    [] OTHER               -> "done")
       \/ Goto(t, "failed")
    /\ Yield
    /\ UNCHANGED <<sequence, op, chain, proofs, txs>>

Init ==
    /\ sequence = InitSequence
    /\ pc = [t \in Tasks |-> "idle"]
    /\ op = [t \in Tasks |-> NoOp]
    /\ chain = [t \in Tasks |-> InitSequence]
    /\ proofs = [t \in Tasks |-> << >>]
    /\ owner = NoTask
    /\ txs = {}

\* Every step of a call once it has been made.
Running(t) ==
    \/ QueryClientState(t)
    \/ Prove(t)
    \/ IncrementSequence(t)
    \/ BuildBody(t)
    \/ EmitTx(t)
    \/ TmClientStep(t)

\* All calls have returned.
Terminated ==
    /\ \A t \in Tasks : pc[t] \in {"done", "failed"}
    /\ UNCHANGED vars

Next ==
    \/ \E t \in Tasks, o \in Ops : Start(t, o) \/ StartFails(t, o)
    \/ \E t \in Tasks : Running(t)
    \/ Terminated

(***************************************************************************)
(* No fairness: every await on the transport (l.409-422, 433-442, 454,    *)
(* 482-484) waits with no timeout, so nothing in the code makes a call    *)
(* return; only safety is specified.                                       *)
(***************************************************************************)
Spec == Init /\ [][Next]_vars

-----------------------------------------------------------------------------
(***************************************************************************)
(* Properties.                                                             *)
(***************************************************************************)

TypeOK ==
    /\ sequence \in InitSequence..MaxSequence
    /\ pc \in [Tasks -> Labels]
    /\ op \in [Tasks -> Ops \cup {NoOp}]
    /\ chain \in [Tasks -> Nat]
    /\ proofs \in [Tasks -> Seq(Nat)]
    /\ owner \in Tasks \cup {NoTask}
    /\ txs \subseteq TxRecords

(***************************************************************************)
(* Spec 8: the proofs of an emitted msg_connection_open_ack sign the      *)
(* consecutive sequences s, s+1, s+2 and its proof_height is s+3; the      *)
(* proof of msg_channel_open_ack signs s and its proof_height is s+1.      *)
(***************************************************************************)
AckProofsConsecutive ==
    \A tx \in txs :
        \A i \in 1..Len(tx.proofs) :
            tx.proofs[i] + Len(tx.proofs) = tx.height + (i - 1)

(***************************************************************************)
(* No two proofs that leave the builder sign the same sequence: the        *)
(* counterparty's solo-machine client accepts a sequence once, so a second *)
(* proof with it makes its transaction forever unverifiable.               *)
(***************************************************************************)
NoSequenceReuse ==
    \A x, y \in txs :
        \A i \in 1..Len(x.proofs), j \in 1..Len(y.proofs) :
            <<x.task, i>> # <<y.task, j>> => x.proofs[i] # y.proofs[j]

(***************************************************************************)
(* msg_create_solo_machine_client embeds the snapshot's chain.sequence as  *)
(* the new client's sequence (l.116).  It must read the chain before an    *)
(* ack's first proof or after the ack's last increment, never half-way    *)
(* through the ack's stretch: a sequence strictly inside the ack's range   *)
(* is one the ack has already signed a proof with.                         *)
(***************************************************************************)
ClientOutsideAckProofs ==
    \A c, a \in txs :
        (c.op = "CreateSoloClient" /\ Len(a.proofs) > 0) =>
            \/ c.height <= a.proofs[1]
            \/ c.height >= a.height

(***************************************************************************)
(* Spec 9: a sequence a proof was signed with is burned.  Whatever calls   *)
(* failed or ran in parallel, the stored sequence stays above every        *)
(* sequence signed into an emitted transaction and at or above every       *)
(* proof_height, so ChainService never hands one of them out again.        *)
(***************************************************************************)
UsedSequencesBurned ==
    \A tx \in txs :
        /\ tx.height <= sequence
        /\ \A i \in 1..Len(tx.proofs) : tx.proofs[i] < sequence

(***************************************************************************)
(* Even with calls in parallel, one TxRaw never carries a sequence twice:  *)
(* its proofs sign strictly increasing sequences, all below its            *)
(* proof_height.  It rests on increment_sequence returning the chain       *)
(* after its own increment (l.225, 229, 233, 299), which is above any      *)
(* snapshot the call signed with, however stale.                           *)
(***************************************************************************)
ProofsIncrease ==
    \A tx \in txs :
        \A i \in 1..Len(tx.proofs) :
            /\ i < Len(tx.proofs) => tx.proofs[i] < tx.proofs[i + 1]
            /\ tx.proofs[i] < tx.height

(***************************************************************************)
(* The proofs are signed with the sequence ChainService stores at that     *)
(* moment: get_*_proof puts the snapshot's chain.sequence into SignBytes   *)
(* (l.544, 575, 607, 653), and no step may append a proof whose sequence   *)
(* differs from the stored one.  A snapshot that went stale between        *)
(* chain_service.get or increment_sequence and the proof (another call     *)
(* incremented in between) breaks it.                                      *)
(***************************************************************************)
SignsStoredSequence ==
    [][\A t \in Tasks :
         proofs'[t] # proofs[t] => proofs'[t] = Append(proofs[t], sequence)]_vars

-----------------------------------------------------------------------------
(***************************************************************************)
(* Refinement mapping onto SequenceLedger.  A call that is still in its   *)
(* proof stretch (query, prove, incr) has reserved nothing yet: the        *)
(* increments it has made so far are subtracted from the stored sequence, *)
(* and its last successful increment is the Reserve of all its sequences.  *)
(* Once past the stretch its proofs and snapshot are its grant.            *)
(***************************************************************************)
Stretch == {"query", "prove", "incr"}
PastStretch == {"build", "account", "unbonding", "status", "block"}

\* Increments call t has made since it read the chain.
Increments(t) == Len(proofs[t]) - (IF pc[t] = "incr" THEN 1 ELSE 0)

InFlight == {t \in Tasks : pc[t] \in Stretch}

LedgerSequence ==
    IF InFlight = {} THEN sequence
    ELSE sequence - Increments(CHOOSE t \in InFlight : TRUE)

StatusOf(t) ==
    CASE pc[t] \in {"idle"} \cup Stretch -> "idle"
      [] pc[t] \in PastStretch          -> "reserved"
      [] OTHER                          -> pc[t]

LedgerStatus == [t \in Tasks |-> StatusOf(t)]

LedgerOp == [t \in Tasks |-> IF pc[t] \in Stretch THEN NoOp ELSE op[t]]

LedgerGrant ==
    [t \in Tasks |->
        IF pc[t] \in PastStretch \cup {"done"}
        THEN [proofs |-> proofs[t], height |-> chain[t]]
        ELSE [proofs |-> << >>, height |-> InitSequence]]

Ledger == INSTANCE SequenceLedger
            WITH NumProofs <- LAMBDA o : Len(ProofPlan(o)),
                 sequence <- LedgerSequence,
                 status <- LedgerStatus,
                 op <- LedgerOp,
                 grant <- LedgerGrant

(***************************************************************************)
(* On one cooperative executor the factories implement SequenceLedger:    *)
(* every call takes its sequences as one consecutive block starting at the *)
(* stored sequence, or burns fewer than it needs and fails; no other call *)
(* can take a sequence in between.                                         *)
(***************************************************************************)
ImplementsLedger == Ledger!Spec

=============================================================================
