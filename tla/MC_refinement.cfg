\* Three calls on one cooperative executor; the factories are checked
\* against the abstract SequenceLedger through the refinement mapping.
CONSTANTS
    Tasks = {t1, t2, t3}
    NoTask = NoTask
    InitSequence <- MCInitSequence
    MaxSequence <- MCMaxSequence
    Preemptive = FALSE
SPECIFICATION Spec
PROPERTIES
    ImplementsLedger
