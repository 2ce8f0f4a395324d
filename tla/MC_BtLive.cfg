SPECIFICATION FairSpec
CONSTANTS
    p1 = p1
    p2 = p2
    NoAddr = NoAddr
    Addrs = {p1}
    Requests = {"disconnect"}
    Refusals = {FALSE}
    Preempt = FALSE
INVARIANTS RadioHeld HoldJustified
PROPERTIES ConnectingEnds RadioReturned Reconnects
