SPECIFICATION Spec
CONSTANTS
    a = a
    b = b
    c = c
    page = page
    Clients = {a, b, c}
    Names = {page, Known}
    Known = Known
    NoName = NoName
    Slots = 2
    Reads = 2
    MaxSize = 2
    MaxRetries = 1
    Requests = {"get", "put", "delete", "rename", "save"}
    Preempt = TRUE
SYMMETRY Peers
INVARIANTS TypeOK WriterOwned ReadsOwned StoredWhole DownloadWhole
