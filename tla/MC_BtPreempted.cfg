SPECIFICATION Spec
CONSTANTS
    p1 = p1
    p2 = p2
    NoAddr = NoAddr
    Addrs = {p1}
    Requests = {"scan", "connect"}
    Refusals = {FALSE, TRUE}
    Preempt = TRUE
INVARIANTS HoldJustified ConnectNotForgotten
