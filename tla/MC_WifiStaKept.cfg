SPECIFICATION Spec
CONSTANTS
    HaveKnown = TRUE
    Policies = {"idle"}
    Preempt = FALSE
INVARIANTS StaTornDown
