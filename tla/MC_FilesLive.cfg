SPECIFICATION FairSpec
CONSTANTS
    a = a
    b = b
    c = c
    page = page
    Clients = {a, b}
    Names = {page, Known}
    Known = Known
    NoName = NoName
    Slots = 2
    Reads = 2
    MaxSize = 1
    MaxRetries = 2
    Requests = {"get", "put", "delete"}
    Preempt = TRUE
PROPERTIES DownloadEnds
