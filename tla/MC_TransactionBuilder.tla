----------------------- MODULE MC_TransactionBuilder -----------------------
(***************************************************************************)
(* Small instances of TransactionBuilder for TLC.                          *)
(***************************************************************************)
EXTENDS TransactionBuilder, TLC

\* Calls are interchangeable: every property quantifies over all of them.
TaskSymmetry == Permutations(Tasks)

\* Two open-ack calls need six increments: the counter runs out after four.
MCInitSequence == 1
MCMaxSequence == 5
=============================================================================
