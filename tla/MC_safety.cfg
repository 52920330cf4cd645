\* Three calls on one cooperative executor (Preemptive = FALSE); the counter
\* runs out after four increments.
CONSTANTS
    Tasks = {t1, t2, t3}
    NoTask = NoTask
    InitSequence <- MCInitSequence
    MaxSequence <- MCMaxSequence
    Preemptive = FALSE
SPECIFICATION Spec
SYMMETRY TaskSymmetry
INVARIANTS
    TypeOK
    AckProofsConsecutive
    NoSequenceReuse
    ClientOutsideAckProofs
PROPERTIES
    SignsStoredSequence
