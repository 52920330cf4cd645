\* Three calls on parallel threads or processes sharing the chain database.
CONSTANTS
    Tasks = {t1, t2, t3}
    NoTask = NoTask
    InitSequence <- MCInitSequence
    MaxSequence <- MCMaxSequence
    Preemptive = TRUE
SPECIFICATION Spec
SYMMETRY TaskSymmetry
INVARIANTS
    UsedSequencesBurned
    ProofsIncrease
