# Verification of the solo-machine transaction builder

This directory holds TLA+ models, TLC configurations and TLAPS proofs for
`src/solo-machine/src/transaction_builder.rs`. That file builds the IBC handshake
transactions a solo machine sends: client creation, connection open init and ack,
and channel open init and ack.

## 1. Inventory

### Components

| Component | Where | State it keeps | Operations |
|---|---|---|---|
| Message factories | `TransactionBuilder` impl, l.99-312 | none of its own; a local `chain` snapshot per call | `msg_create_solo_machine_client`, `msg_create_tendermint_client`, `msg_connection_open_init`, `msg_connection_open_ack`, `msg_channel_open_init`, `msg_channel_open_ack` |
| Proof signer | `get_*_proof`, `sign`, l.516-683 | none | builds `SignBytes {sequence = chain.sequence, timestamp, diversifier, data_type, data}`, signs it and wraps it |
| Transaction assembler | `build`, `build_tx_body`, `build_auth_info`, `build_signature`, `get_account_details`, l.314-430 | none | encodes TxBody, awaits the account query, signs the SignDoc, returns the TxRaw |
| Tendermint client data | `get_unbonding_period`, `get_latest_height`, `get_header`, l.432-487 | none | three awaits on gRPC and RPC, fails when the node is catching up |
| ChainService (not under src/) | chain database | **the chain's `sequence`**, plus immutable config | `get`, `increment_sequence` (returns the chain after the increment) |
| QueryHandler (not under src/) | local IBC store | IBC objects | lookups that return `Option` |
| Mnemonic, proto encoding (not under src/) | crypto and proto crates | none | pure functions |

### Interaction

A factory call reads the chain from ChainService. An ack then signs one proof
(`channel_open_ack`) or three proofs (`connection_open_ack`: connection, client,
consensus, in that order). Each proof carries the snapshot's sequence, and after
each proof the call sets `chain = increment_sequence(...)?`. The call then builds
the message and hands it to `build`, which awaits the auth gRPC query and returns
the signed TxRaw. The spec names the stored sequence as the one piece of
shared mutable state.
Everything from `get` to the last increment is synchronous: the first `.await` is
inside `build` (`get_account_details`), or inside `get_unbonding_period` for the
tendermint client.

### What is hard

* **Concurrency.** Spec §5 requires calls on one chain id to be serialised, but
  the code holds no lock. On one cooperative executor the get/sign/increment
  stretch has no await, so it is atomic. On a multi-threaded runtime, or with
  two processes sharing the database, the stretch interleaves.
* **Partial failure.** A failure after an increment burns the sequence (§9).
* **The u64 counter at its limit.**
* **Awaits with no timeout.**
* **A stale snapshot.** The snapshot is used after another call has moved the
  stored sequence.

### Properties that make it correct

* Acks sign consecutive sequences s, s+1, s+2, and their `proof_height` is
  s+3 (§8).
* No sequence is signed into two emitted proofs.
* Every proof is signed with the sequence stored when it is signed (no stale
  snapshot), and within one TxRaw the proofs strictly increase below its
  `proof_height`.
* The stored sequence stays above every sequence used (§9).
* A solo-machine client never reads the chain half-way through an ack's
  stretch (l.116).

Every call should also return, but that rests on the transport: the awaits
have no timeout (see Fairness).

## 2. Modules

| Module | Models |
|---|---|
| `TransactionBuilder` | every factory as a concurrent call (CONSTANT `Tasks`); ChainService's sequence; the scheduling (CONSTANT `Preemptive`); the refinement mapping onto `SequenceLedger` |
| `SequenceLedger` | the abstract specification: what the factories promise about the sequence, and its own NoSequenceReuse |
| `MC_TransactionBuilder` | TLC instance: symmetry, small sequence bounds |
| `TransactionBuilderProofs` | TLAPS proofs of type correctness, `UsedSequencesBurned` and `ProofsIncrease`, under either scheduling |
| `CooperativeProofs` | TLAPS proofs of NoSequenceReuse, AckProofsConsecutive, ClientOutsideAckProofs and SignsStoredSequence on one cooperative executor |
| `RefinementProofs` | TLAPS proof that the factories implement `SequenceLedger` on one cooperative executor, and NoSequenceReuse derived from the ledger's theorem |
| `SequenceLedgerProofs` | TLAPS lemmas: the ledger's inductive invariant and its NoSequenceReuse, used by `RefinementProofs` |

### State and actions

The variables of `TransactionBuilder` map to the code as follows:

* `sequence` is the stored `chain.sequence`.
* `chain[t]` is call t's local snapshot (`let mut chain`).
* `proofs[t]` holds the sequences of the proofs t has signed.
* `pc[t]` is where t is in its factory.
* `owner` is the call holding the cooperative executor.
* `txs` is the history of emitted TxRaws. Each is recorded as its task, its
  factory, its proofs and the sequence the message embeds. The account data
  in its SignerInfo is left out: no property reads it.

Each action corresponds to code as follows. Every action also has the code's
error path as a disjunct.

* `Start` / `StartFails`: `chain_service.get`.
* `QueryClientState`: l.215.
* `Prove`: a `get_*_proof` call.
* `IncrementSequence`: `chain = increment_sequence(..)?`.
* `BuildBody`: message construction up to the first await in `build`.
* `EmitTx`: the rest of `build`: the account query resumes, then
  `build_auth_info` and `build_signature`.
* `TmClientStep`: the three awaits of `msg_create_tendermint_client`.

Under cooperative scheduling, a call owns the executor from its first
synchronous step until it reaches an await or returns. Steps of other calls are
enabled only when nobody owns the executor. Under `Preemptive = TRUE` every step
may interleave.

## 3. Runs

| Run | cfg | Checks | Result |
|---|---|---|---|
| cooperative_safety | `MC_safety.cfg` | TypeOK, AckProofsConsecutive, NoSequenceReuse, ClientOutsideAckProofs; action property SignsStoredSequence | pass (21k states) |
| parallel_burn | `MC_parallel.cfg` | UsedSequencesBurned, ProofsIncrease | pass (249k states) |
| refinement | `MC_refinement.cfg` | ImplementsLedger (`Ledger!Spec`) | pass (124k states, no symmetry) |
| parallel_reuse | `MC_parallel_reuse.cfg` | NoSequenceReuse | **violation** |

TypeOK is checked on one run only: `TypeCorrect` proves it for both kinds of
scheduling.

### Bounds

* Sequences run from 1 to 5. This allows four increments, so two connection
  acks (six increments) or three acks run the counter into its limit.
* Safety uses three calls, which is enough for a create-client call to fall
  between two acks.
* The refinement run uses the safety instance without symmetry: 124k states
  in under a minute.
* Every call picks any of the six factories, and every lookup and await may
  fail.

### Fairness

None. Whether a call returns depends on the transport. Every await in the
builder (`get_account_details` l.409-422, the staking query l.433-442, the RPC
status and block l.454, 482-484) waits with no timeout. A fairness condition
that made every await complete would assume exactly what the code does not
guarantee. With such a condition "every call returns" would hold by the shape
of the model, since its control flow has no loops and every step has a failure
arm. So `Spec` is `Init /\ [][Next]_vars` and only safety is checked.

### Finding (parallel_reuse)

Two `msg_channel_open_ack` calls on parallel threads both read sequence 1 and
both sign 1. The second then reports `proof_height` 3. The code has no per-chain
lock, although spec §5 requires one. On one cooperative executor the same
property holds, which cooperative_safety shows.

### Refinement (refinement)

`SequenceLedger` states what a call does to the sequence. A call either takes
its k consecutive sequences in one `Reserve` step, or `Abort`s having burned
fewer than k. It then `Complete`s, with or without a TxRaw carrying its grant,
or it `Drop`s. The mapping is in `TransactionBuilder`:

* While a call is in its proof stretch (query, prove, incr), it is still idle
  in the ledger. The increments it has made so far are subtracted from the
  stored sequence (`LedgerSequence`).
* Its last successful increment is the `Reserve`.
* Once past the stretch, its proofs and snapshot are its grant.
* The TxRaws are the ledger's transactions as they are.

The run checks `Ledger!Spec` as a temporal property. It runs without symmetry.

### Mutants

Each property is broken by a plausible bug:

* no u64 check (TypeOK);
* `increment_sequence` returning the pre-increment chain (AckProofsConsecutive);
* an async `ChainService::get` (NoSequenceReuse);
* a non-atomic read-modify-write increment (UsedSequencesBurned);
* a proof query that yields inside the stretch (ClientOutsideAckProofs);
* the pre-increment chain returned by `increment_sequence` (ImplementsLedger):
  the grant's proof_height is then one below the reservation;
* an async client-state lookup in `msg_connection_open_ack`, so another call
  increments between `get` and the first proof (SignsStoredSequence);
* the pre-increment chain returned by `increment_sequence`, which makes a
  call sign its own sequence twice (ProofsIncrease).

## 4. Proofs

### Type and burned sequences (`TransactionBuilderProofs`)

The proofs hold for every value of the constants, any number of calls, and both
kinds of scheduling.

* `TypeCorrect: Spec => []TypeOK`. TypeOK is strengthened by "a started call
  has a factory", which EmitTx needs when it records the factory.
* `SequencesBurned: Spec => []UsedSequencesBurned`. The invariant is not
  inductive, because it speaks only of emitted transactions. `BurnInv` adds four
  facts:
  * every snapshot is at most the stored sequence;
  * an idle call has signed nothing;
  * every signed sequence is at most the stored sequence, and strictly below it
    unless the call sits between a proof and its increment or has failed;
  * every emitted tx is its finished call's proofs and snapshot.

  TLC checked BurnInv on the safety and parallel instances before it was proved.
  Lemma `MoveStep` covers every step that only moves one call's pc. Lemma
  `SignedAppend` states what `Append` adds to the signed set.
* `ProofsIncreaseAlways: Spec => []ProofsIncrease`. It holds under either
  scheduling. The strengthening `IncInv` is BurnInv plus `Increasing(t)` for
  every call:
  * the call's proofs increase;
  * none of them is above its snapshot;
  * all of them are below it once the increment after the last proof has
    returned.

  The increment sets the snapshot to the stored sequence plus one. That is
  above any stale snapshot the call signed with, because of `SnapshotBehind`
  in BurnInv. So a parallel call can collide with another call, as
  parallel_reuse shows, but never with itself. Lemmas `IncFrame` and `IncMove`
  cover the steps that leave proofs and snapshots alone.

### Cooperative scheduling (`CooperativeProofs`)

These theorems are stated as `ASSUME ~Preemptive PROVE Spec => []P`:

* `CooperativeNoReuse` proves NoSequenceReuse.
* `CooperativeAckConsecutive` proves AckProofsConsecutive.
* `CooperativeClientOutside` proves ClientOutsideAckProofs.
* `CooperativeSignsStored: ASSUME ~Preemptive PROVE Spec => SignsStoredSequence`
  proves the action property. Lemma `ProofsKept` says every action but
  `Prove` leaves the proofs alone. Lemma `SignedNowStep` says a `Prove` step
  appends the snapshot, which `StretchCurrent` makes equal to the stored
  sequence.

All three rest on the inductive `CoopInv`. It is BurnInv plus five per-call
and per-pair facts:

* `StretchOwned`: a call in its stretch owns the executor.
* `StretchCurrent`: during the stretch, the call's snapshot is the stored
  sequence.
* `ProofsFromBase`: a live call's proofs are `Base(t), Base(t)+1, ...`, where
  `Base` is where it read the chain.
* `SignedDisjoint`: two live calls signed no common sequence.
* `SnapshotsNested`: a live call's snapshot is never strictly inside another
  live call's range.

The properties are not inductive without these facts, because they speak only
of emitted transactions. A call's proofs are signed long before `EmitTx`. A
step of one call moves only that call, so lemmas `UnmovedFrame`,
`UnmovedPair` and `OneCall` reduce the proof to the predicates of the moving
call and the pairs it belongs to.

### Refinement (`RefinementProofs`)

`CooperativeRefinement: ASSUME ~Preemptive PROVE Spec => ImplementsLedger`.
The inductive invariant `RefInv` is `CoopInv` plus `StretchShape`. StretchShape
says how far through its plan a call in its stretch is: it has signed fewer
proofs than its plan while about to prove, and between one and all of them
while about to increment.

* `StretchOwned` makes at most one call in-flight. Lemmas `LedgerSeqFlight`
  and `LedgerSeqIdle` therefore evaluate the CHOOSE in `LedgerSequence`.
* `ProofsFromBase` and `StretchCurrent` make the proofs at the last increment
  equal to `Consecutive(LedgerSequence, k)`.
* Each action has a simulation lemma (`RefStart` to `RefTm`) that names the
  ledger step it maps to, through `MappedReserve`, `MappedAbort`,
  `MappedComplete`, `MappedDrop` or `MappedStutter`.

### The ledger (`SequenceLedgerProofs`, `RefinementProofs`)

`SequenceLedgerProofs` proves, as lemmas, that the ledger's
`NoSequenceReuse` holds in every behaviour of the ledger (`LedgerNoReuse`).
This follows from how `Reserve` hands out blocks. The lemmas take the
constant assumption `LedgerAssumption` as a hypothesis: the bounds and proof
counts are naturals and `InitSequence <= MaxSequence`.

The inductive `LedgerInv` is the ledger's type plus five facts:

* every call past idle has a factory;
* every grant is consecutive and ends just below its height;
* every granted sequence is below the stored one;
* two calls' grants are disjoint;
* a returned transaction is the grant of its finished call.

`CooperativeNoReuseByLedger` in RefinementProofs instantiates
SequenceLedgerProofs through the refinement mapping (`LedgerProofs`). It
discharges `LedgerAssumption` from TransactionBuilder's own assumptions and
combines `LedgerNoReuse` with `CooperativeRefinement`. So on one executor the
builder's NoSequenceReuse follows from the refinement and the ledger's
block-wise Reserve. The substance is in `CooperativeRefinement`.

### Only model-checked

* No liveness property is stated (see Fairness). The provers could not
  check one anyway, since they do not reason about fairness and ENABLED.
* Anything under `Preemptive = TRUE` beyond type correctness,
  UsedSequencesBurned and ProofsIncrease. The other properties fail there, as
  the parallel_reuse violation run shows.

## 5. Not modelled

* Encodings, keys and signatures (pure functions).
* The content of queried objects.
* `consensus_timestamp` and `diversifier`, which are immutable and only copied.
* The account number, fees and gas fetched by or used in `build`.
* The caller's broadcast and the counterparty chain (account sequence, its
  solo-machine light client, block inclusion): not under src/ and out of scope
  of spec §1.

## 6. Plan for the next sittings

1. **Counterparty model.** Add the counterparty's solo-machine light client,
   which verifies proofs in sequence order. Compose it with the builder to show
   which handshakes can complete.
2. **Preemptive refinement.** Add a per-chain lock, the fix that §5 asks for,
   as a variant, and show the preemptive calls then implement `SequenceLedger`.
3. **Larger instances.** Run four calls with a wider counter, using
   simulation mode for depth.
