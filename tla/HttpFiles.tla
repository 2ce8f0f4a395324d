----------------------------- MODULE HttpFiles -----------------------------
(***************************************************************************)
(* The web server's connections (http.c) and the file handles they use     *)
(* (fs.c): uploads, downloads, requests with a body, and the settings the  *)
(* main loop saves through the same single write handle.                   *)
(*                                                                         *)
(* Callbacks of the TCP stack are single steps, except that a download     *)
(* that ends goes on to the parked ones (kick).  The main loop's save is   *)
(* preempted between its calls of fs.c when Preempt says so.               *)
(*                                                                         *)
(* A client is a TCP connection, then the next one of the same peer.  A    *)
(* file is counted in chunks.  Left out: texts, paths and their checks,    *)
(* the directory listing, requests answered at once from memory, and       *)
(* callbacks that come inside a call of littlefs.                          *)
(***************************************************************************)
EXTENDS Naturals, Sequences, FiniteSets

CONSTANTS Clients,
          Names, NoName,    \* files
          Known,            \* the settings file main saves
          Slots,            \* HTTP_CONNS
          Reads,            \* FS_READS
          MaxSize,          \* FS_FILE_MAX, in chunks
          MaxRetries,       \* HTTP_MAX_RETRIES
          Requests,         \* what clients ask for: subset of RequestKinds
          Preempt           \* callbacks come between the steps of main as well

RequestKinds == {"get", "put", "delete", "rename", "save"}

ASSUME FilesAssumption ==
    /\ Known \in Names /\ NoName \notin Names
    /\ Slots \in Nat /\ Reads \in Nat /\ Slots <= Reads
    /\ MaxSize \in Nat \ {0} /\ MaxRetries \in Nat
    /\ Requests \subseteq RequestKinds
    /\ Preempt \in BOOLEAN

VARIABLES h,       \* connections, files, handles, and what clients received
          dirty,   \* settings are to be saved
          mpc,     \* where main is in save_file
          kick     \* whether http_kick_pending runs, and whom it has tried

vars == <<h, dirty, mpc, kick>>

NotKicking == [on |-> FALSE, tried |-> {}]
Kicking(tried) == [on |-> TRUE, tried |-> tried]

\* What a file holds: how many of the chunks of an upload.  littlefs keeps a
\* file it has just created empty until its first close.
Absent == [stored |-> 0, of |-> 0, there |-> FALSE]
Created == [stored |-> 0, of |-> 0, there |-> TRUE]

\* size is the length announced by the client or to it; chunks and stale
\* record what a download has been given.
NoConn == [st |-> "none", name |-> NoName, size |-> 0, body |-> 0, handle |-> 0,
           left |-> 0, retries |-> 0, chunks |-> <<>>, stale |-> FALSE]
NoWrite == [open |-> FALSE, name |-> NoName, of |-> 0, stored |-> 0, dead |-> FALSE]
NoRead == [open |-> FALSE, name |-> NoName, size |-> 0, pos |-> 0, stale |-> FALSE]

Init ==
    /\ h = [conns |-> [c \in Clients |-> NoConn],
            files |-> [f \in Names |-> Absent],
            write |-> NoWrite,
            reads |-> [r \in 1..Reads |-> NoRead],
            wrong |-> {}]
    /\ dirty = FALSE
    /\ mpc = "idle"
    /\ kick = NotKicking

-----------------------------------------------------------------------------
(* fs.c, over littlefs *)

Exists(s, f) == s.files[f].there

\* Readers of f read blocks that may be used again: littlefs does not keep
\* them for an open read handle.
Outdate(s, f) ==
    [s EXCEPT !.reads = [r \in DOMAIN @ |-> IF @[r].open /\ @[r].name = f
                                              THEN [@[r] EXCEPT !.stale = TRUE]
                                              ELSE @[r]]]

\* fs_begin_write, when no write is open.  An existing file keeps its content
\* until the close.
BeginWrite(s, f, of) ==
    [s EXCEPT !.write = [open |-> TRUE, name |-> f, of |-> of, stored |-> 0,
                         dead |-> FALSE],
              !.files[f] = IF Exists(s, f) THEN @ ELSE Created]

\* fs_write; littlefs commits nothing of a file after a failed write.
WriteChunks(s, n) == [s EXCEPT !.write.stored = @ + n]
WriteFails(s) == [s EXCEPT !.write.dead = TRUE]

\* lfs_file_close in fs_end_write and fs_abort_write; a file that was deleted
\* or renamed meanwhile is not committed either.
CloseWrite(s) ==
    LET f == s.write.name
        t == [s EXCEPT !.write = NoWrite]
    IN  IF s.write.dead THEN t
        ELSE Outdate([t EXCEPT !.files[f] = [stored |-> s.write.stored,
                                             of |-> s.write.of, there |-> TRUE]], f)

AbortWrite(s) == IF s.write.open THEN CloseWrite(s) ELSE s

LoseWrite(s, f) ==
    [s EXCEPT !.write.dead = @ \/ (s.write.open /\ s.write.name = f)]

Delete(s, f) ==
    IF Exists(s, f) THEN Outdate(LoseWrite([s EXCEPT !.files[f] = Absent], f), f) ELSE s

Rename(s, f, g) ==
    Outdate(LoseWrite([s EXCEPT !.files = [@ EXCEPT ![g] = s.files[f], ![f] = Absent]], f), f)

FreeReads(s) == {r \in DOMAIN s.reads : ~s.reads[r].open}

\* fs_begin_read, with a free handle r.
BeginRead(s, f, r) ==
    [s EXCEPT !.reads[r] = [open |-> TRUE, name |-> f, size |-> s.files[f].stored,
                            pos |-> 0, stale |-> FALSE]]

EndRead(s, r) == [s EXCEPT !.reads[r] = NoRead]

\* Mutant: seeks to the start of the file.
RewindToStart(s, r) == [s EXCEPT !.reads[r].pos = 0]

\* fs_rewind
Rewind(s, r) == [s EXCEPT !.reads[r].pos = @ - 1]

-----------------------------------------------------------------------------
(* http.c: a connection's slot *)

HasSlot(s, c) ==
    \/ s.conns[c].st # "none"
    \/ Cardinality({d \in Clients : s.conns[d].st # "none"}) < Slots

ConnHeld(s, c) == s.conns[c].st \in {"file", "closing", "pending"}

Cleanup(s, c) ==
    LET q == s.conns[c]
    IN  IF q.st = "put" THEN Delete(AbortWrite(s), q.name)
        ELSE IF q.st = "file" THEN EndRead(s, q.handle)
        ELSE s

Reset(s, c) == [s EXCEPT !.conns[c] = NoConn]

\* Mutants: the upload is not closed, or its read handle not returned.
DropKeepsHandles(s, c) == Reset(s, c)

Drop(s, c) == Reset(Cleanup(s, c), c)

-----------------------------------------------------------------------------
(* http.c: downloads *)

\* The client sees the end of the answer: has it the file, if it was not
\* replaced meanwhile?
Received(s, c) ==
    LET q == s.conns[c]
        whole == q.chunks = [k \in 1..q.size |-> k]
    IN  [s EXCEPT !.wrong = IF q.stale \/ whole THEN @ ELSE @ \union {c}]

\* http_try_close; the stack may have no memory for it yet.
TryClose(s, c) ==
    LET t == IF s.conns[c].st = "file" THEN EndRead(s, s.conns[c].handle) ELSE s
    IN  {Reset(Received(t, c), c),
         [t EXCEPT !.conns[c] = [@ EXCEPT !.st = "closing", !.handle = 0]]}

\* n chunks are read and queued.
Queue(s, c, n) ==
    LET q == s.conns[c]
        r == s.reads[q.handle]
    IN  [s EXCEPT !.conns[c] = [q EXCEPT !.left = @ - n,
                                         !.retries = IF n > 0 THEN 0 ELSE @,
                                         !.chunks = @ \o [k \in 1..n |-> r.pos + k],
                                         !.stale = @ \/ r.stale],
                  !.reads[q.handle].pos = @ + n]

\* One more is read, refused by tcp_write, and read again later.
QueueRefused(s, c, n) ==
    LET r == s.conns[c].handle
    IN  Rewind([Queue(s, c, n) EXCEPT !.reads[r].pos = @ + 1], r)

\* http_pump_file: n chunks are queued, then all are, or there is no room, or
\* tcp_write fails after a read, or the read fails: the results with the code
\* returned.
PumpFile(s, c) ==
    LET q == s.conns[c]
        r == s.reads[q.handle]
        most == IF q.left <= r.size - r.pos THEN q.left ELSE r.size - r.pos
    IN  {<<Queue(s, c, n), IF n = q.left THEN 1 ELSE 0>> : n \in 0..most}
        \union {<<QueueRefused(s, c, n), 0>> : n \in {k \in 0..most : k < most}}
        \union {<<Queue(s, c, n), 0 - 1>> :
                  n \in {k \in 0..most : k < q.left /\ (r.stale \/ k = most)}}

\* http_finish_file: the results, with whether it kicks the parked downloads.
FinishFile(s, c, rc) ==
    CASE rc = 1 -> {<<t, TRUE>> : t \in TryClose(s, c)}
      [] rc = 0 -> {<<s, FALSE>>}
      [] OTHER  -> {<<Drop(s, c), TRUE>>}

SendFile(s, c) == UNION {FinishFile(p[1], c, p[2]) : p \in PumpFile(s, c)}

\* Mutant: a download that cannot start is parked with its retries forgotten.
ParkFileAfresh(s, c, f) ==
    [s EXCEPT !.conns[c] = [@ EXCEPT !.st = "pending", !.name = f, !.handle = 0,
                                     !.retries = 0]]

\* http_park_file
ParkFile(s, c, f) ==
    [s EXCEPT !.conns[c] = [@ EXCEPT !.st = "pending", !.name = f, !.handle = 0]]

\* The file is opened with handle r, and its header queued.
OpenFile(s, c, f, r) ==
    [BeginRead(s, f, r) EXCEPT
       !.conns[c] = [NoConn EXCEPT !.st = "file", !.name = f, !.handle = r,
                                   !.size = s.files[f].stored,
                                   !.left = s.files[f].stored]]

First(R) == CHOOSE r \in R : \A t \in R : r <= t

\* http_start_file: without a handle, without the file or when tcp_write
\* refuses the header, the download is parked.
StartFile(s, c, f) ==
    {<<ParkFile(s, c, f), FALSE>>}
    \union IF Exists(s, f) /\ FreeReads(s) # {}
             THEN SendFile(OpenFile(s, c, f, First(FreeReads(s))), c) ELSE {}

-----------------------------------------------------------------------------
(* Callbacks of the TCP stack *)

\* A callback runs to its end; main may be between two of its steps.
Callback == ~kick.on /\ (Preempt \/ mpc = "idle") /\ UNCHANGED mpc

\* After a download's end http_kick_pending runs.
Outcome(results) ==
    /\ \E o \in results : h' = o[1] /\ kick' = IF o[2] THEN Kicking({}) ELSE NotKicking
    /\ UNCHANGED dirty

Plain(s) == h' = s /\ UNCHANGED <<dirty, kick>>

\* One iteration of http_kick_pending: it ends with the first download that
\* is parked no more.
KickStep ==
    /\ kick.on
    /\ LET parked == {c \in Clients : h.conns[c].st = "pending"} \ kick.tried
       IN  IF parked = {} THEN kick' = NotKicking /\ UNCHANGED h
           ELSE \E c \in parked : \E o \in StartFile(h, c, h.conns[c].name) :
                  /\ h' = o[1]
                  /\ kick' = IF o[2] THEN Kicking({})
                             ELSE IF h'.conns[c].st = "pending"
                               THEN Kicking(kick.tried \union {c})
                             ELSE NotKicking
    /\ UNCHANGED <<dirty, mpc>>

\* Part of a header: the connection takes a slot.  Without one it is answered
\* `busy', as the requests below are.
RecvPartial(c) ==
    /\ Callback
    /\ h.conns[c].st = "none" /\ HasSlot(h, c)
    /\ Plain([h EXCEPT !.conns[c].st = "hdr"])

\* http_recv refuses a header without an end.
HeaderTooLarge(c) ==
    /\ Callback
    /\ h.conns[c].st = "hdr"
    /\ Plain(Drop(h, c))

\* The rest of the header has come, and there is a slot for the connection.
Header(c, kind) ==
    /\ Callback
    /\ kind \in Requests
    /\ h.conns[c].st \in {"none", "hdr"} /\ HasSlot(h, c)

RecvGet(c, f) ==
    /\ Header(c, "get")
    /\ IF Exists(h, f) THEN Outcome(StartFile(h, c, f))
       ELSE Plain(Drop(h, c))

\* Mutant: a broken upload is left as it is.
TakeBodyKeepsPart(s, c, n, err) ==
    LET q == s.conns[c]
        t == [WriteChunks(s, n) EXCEPT !.conns[c].body = @ + n]
        closed == [CloseWrite(t) EXCEPT !.conns[c].st = "hdr"]
    IN  IF err THEN Drop(closed, c)
        ELSE IF q.body + n < q.size THEN t
        ELSE Drop(closed, c)

\* n more chunks of an upload; err: fs_write or fs_end_write fails.
TakeBody(s, c, n, err) ==
    LET q == s.conns[c]
        t == [WriteChunks(s, n) EXCEPT !.conns[c].body = @ + n]
        failed == [Delete(AbortWrite(WriteFails(t)), q.name) EXCEPT !.conns[c].st = "hdr"]
        closed == [CloseWrite(t) EXCEPT !.conns[c].st = "hdr"]
    IN  IF err THEN Drop(failed, c)
        ELSE IF q.body + n < q.size THEN t
        ELSE Drop(closed, c)

\* Mutants: a write that is open already is taken over; no limit of size.
PutTakesOver(s, c, f, size) ==
    [BeginWrite(s, f, size) EXCEPT
       !.conns[c] = [NoConn EXCEPT !.st = "put", !.name = f, !.size = size]]

PutTooLarge(s, c, f, size) ==
    IF s.write.open THEN Drop(s, c) ELSE PutTakesOver(s, c, f, size)

BeginPut(s, c, f, size) ==
    IF size > MaxSize \/ s.write.open THEN Drop(s, c)
    ELSE [BeginWrite(s, f, size) EXCEPT
            !.conns[c] = [NoConn EXCEPT !.st = "put", !.name = f, !.size = size]]

\* The header of an upload, with the first n chunks.
RecvPut(c, f, size, n, err) ==
    /\ Header(c, "put")
    /\ n <= size /\ (err => n > 0 \/ size = 0)
    /\ LET s == BeginPut(h, c, f, size)
       IN  Plain(IF s.conns[c].st = "put" THEN TakeBody(s, c, n, err) ELSE s)

RecvBody(c, n, err) ==
    /\ Callback
    /\ h.conns[c].st = "put"
    /\ n \in 1..(h.conns[c].size - h.conns[c].body)
    /\ Plain(TakeBody(h, c, n, err))

RecvDelete(c, f) ==
    /\ Header(c, "delete")
    /\ Plain(Drop(Delete(h, f), c))

RecvRename(c, f, g) ==
    /\ Header(c, "rename")
    /\ Plain(Drop(IF Exists(h, f) /\ ~Exists(h, g) /\ f # g THEN Rename(h, f, g) ELSE h, c))

\* A request that changes the settings: saved by main later.
RecvSave(c) ==
    /\ Header(c, "save")
    /\ h' = Drop(h, c)
    /\ dirty' = TRUE
    /\ UNCHANGED kick

\* The peer closes or the connection is lost: http_recv without data, http_err.
Gone(c) ==
    /\ Callback
    /\ h.conns[c].st # "none"
    /\ Plain(Drop(h, c))

\* http_sent
Sent(c) ==
    /\ Callback
    /\ \/ /\ h.conns[c].st = "closing"
          /\ Outcome({<<t, FALSE>> : t \in TryClose(h, c)})
       \/ /\ h.conns[c].st = "file"
          /\ Outcome(SendFile(h, c))

\* http_poll
Poll(c) ==
    /\ Callback
    /\ ConnHeld(h, c)
    /\ LET s == [h EXCEPT !.conns[c].retries = @ + 1]
           q == s.conns[c]
       IN  IF q.retries > MaxRetries
             THEN Plain(Drop(s, c))
           ELSE Outcome(CASE q.st = "pending" -> StartFile(s, c, q.name)
                          [] q.st = "file" -> SendFile(s, c)
                          [] OTHER -> {<<t, FALSE>> : t \in TryClose(s, c)})

-----------------------------------------------------------------------------
(* The main loop: wifi_poll saves the settings through save_file *)

MainGoes(pc) == mpc' = pc /\ UNCHANGED kick

\* No callback is running.
Main(pc) == mpc = pc /\ ~kick.on

SaveStart ==
    /\ Main("idle") /\ dirty
    /\ dirty' = FALSE
    /\ MainGoes("begin") /\ UNCHANGED h

SaveBegin ==
    /\ Main("begin")
    /\ IF h.write.open THEN MainGoes("idle") /\ UNCHANGED h
       ELSE h' = BeginWrite(h, Known, 1) /\ MainGoes("write")
    /\ UNCHANGED dirty

SaveWrite ==
    /\ Main("write")
    /\ h' = WriteChunks(h, 1)
    /\ MainGoes("end") /\ UNCHANGED dirty

SaveEnd ==
    /\ Main("end")
    /\ h' = CloseWrite(h)
    /\ MainGoes("idle") /\ UNCHANGED dirty

MainStep == SaveStart \/ SaveBegin \/ SaveWrite \/ SaveEnd

-----------------------------------------------------------------------------
Peer(c) ==
    \/ RecvPartial(c) \/ HeaderTooLarge(c) \/ RecvSave(c) \/ Gone(c)
    \/ \E f \in Names : RecvGet(c, f) \/ RecvDelete(c, f)
    \/ \E n \in 0..MaxSize, err \in BOOLEAN :
          \/ \E f \in Names, size \in 0..(MaxSize + 1) : RecvPut(c, f, size, n, err)
          \/ RecvBody(c, n, err)
    \/ \E f, g \in Names : RecvRename(c, f, g)

Next ==
    \/ \E c \in Clients : Peer(c) \/ Sent(c) \/ Poll(c)
    \/ KickStep
    \/ MainStep

Spec == Init /\ [][Next]_vars

\* The stack polls every connection again and again, though not while another
\* callback runs; the main loop goes on.
FairSpec ==
    /\ Spec
    /\ WF_vars(KickStep) /\ WF_vars(MainStep)
    /\ \A c \in Clients : SF_vars(Poll(c))

-----------------------------------------------------------------------------
(* Properties *)

TypeOK ==
    /\ h.conns \in [Clients ->
         [st : {"none", "hdr", "put", "file", "pending", "closing"},
          name : Names \union {NoName}, size : 0..MaxSize, body : 0..MaxSize,
          handle : 0..Reads, left : 0..MaxSize, retries : 0..MaxRetries,
          chunks : Seq(1..MaxSize), stale : BOOLEAN]]
    /\ h.files \in [Names -> [stored : 0..MaxSize, of : 0..MaxSize, there : BOOLEAN]]
    /\ h.write \in [open : BOOLEAN, name : Names \union {NoName}, of : 0..MaxSize,
                    stored : 0..MaxSize, dead : BOOLEAN]
    /\ h.reads \in [1..Reads ->
         [open : BOOLEAN, name : Names \union {NoName}, size : 0..MaxSize,
          pos : 0..MaxSize, stale : BOOLEAN]]
    /\ h.wrong \subseteq Clients
    /\ dirty \in BOOLEAN
    /\ mpc \in {"idle", "begin", "write", "end"}
    /\ kick \in [on : BOOLEAN, tried : SUBSET Clients]

\* The write handle has one owner, an upload or the main loop's save, and it is
\* open exactly while it has one: no refusal, abort or lost connection closes
\* another's, or leaves it open for ever.
WriterOwned ==
    LET uploads == {c \in Clients : h.conns[c].st = "put"}
    IN  IF mpc \in {"write", "end"} THEN h.write.open /\ uploads = {}
        ELSE /\ Cardinality(uploads) <= 1
             /\ h.write.open <=> uploads # {}
             /\ \A c \in uploads : h.write.name = h.conns[c].name
                                   /\ h.write.stored = h.conns[c].body

\* Every open read handle belongs to one download: none is shared, none leaks
\* on any of the ways a download ends.  With as many handles as slots, a
\* download never waits for one.
ReadsOwned ==
    /\ \A c \in Clients : h.conns[c].st = "file" => h.reads[h.conns[c].handle].open
    /\ \A r \in DOMAIN h.reads : h.reads[r].open =>
         Cardinality({c \in Clients : h.conns[c].st = "file" /\ h.conns[c].handle = r}) = 1

\* A file is never a part of what was uploaded.
StoredWhole == \A f \in Names : h.files[f].stored = h.files[f].of

\* A download that ends without an error gave the whole file, each chunk once
\* and in order, unless the file was replaced meanwhile.
DownloadWhole == h.wrong = {}

\* No download keeps its slot and its handle for ever, even if its peer reads
\* no more.
DownloadEnds == \A c \in Clients : ConnHeld(h, c) ~> ~ConnHeld(h, c)
=============================================================================
