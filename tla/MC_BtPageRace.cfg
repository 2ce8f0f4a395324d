SPECIFICATION FairSpec
CONSTANTS
    p1 = p1
    p2 = p2
    NoAddr = NoAddr
    Addrs = {p1}
    Requests = {}
    Refusals = {FALSE}
    Preempt = TRUE
PROPERTIES Reconnects
