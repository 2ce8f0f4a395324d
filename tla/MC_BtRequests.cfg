SPECIFICATION Spec
CONSTANTS
    p1 = p1
    p2 = p2
    NoAddr = NoAddr
    Addrs = {p1, p2}
    Requests = {"scan", "connect", "disconnect"}
    Refusals = {FALSE, TRUE}
    Preempt = FALSE
INVARIANTS TypeOK CidNamesChannel ConnectNotForgotten
PROPERTIES ImplementsService
