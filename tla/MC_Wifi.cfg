SPECIFICATION FairSpec
CONSTANTS
    HaveKnown = TRUE
    Policies = {"idle", "never"}
    Preempt = FALSE
INVARIANTS ApPaused OneRole ConnectingShown
PROPERTIES JoinsAfterPrinter JoinEnds ApServed
