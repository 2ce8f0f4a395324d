SPECIFICATION FairSpec
CONSTANTS
    HaveKnown = TRUE
    Policies = {"idle"}
    Preempt = FALSE
PROPERTIES OnAir
