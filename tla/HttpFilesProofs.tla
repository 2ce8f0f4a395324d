-------------------------- MODULE HttpFilesProofs --------------------------
(***************************************************************************)
(* Who owns the write handle and the read handles of fs.c, and that what   *)
(* is stored and what is downloaded is whole: for every number of clients, *)
(* slots, handles and files, every size, and every way in which callbacks  *)
(* come between the steps of the main loop's save.                         *)
(***************************************************************************)
EXTENDS HttpFiles, SequenceTheorems, FiniteSetTheorems, TLAPS

Conn == [st : {"none", "hdr", "put", "file", "pending", "closing"},
         name : Names \union {NoName}, size : 0..MaxSize, body : 0..MaxSize,
         handle : 0..Reads, left : 0..MaxSize, retries : 0..MaxRetries,
         chunks : Seq(1..MaxSize), stale : BOOLEAN]
File == [stored : 0..MaxSize, of : 0..MaxSize, there : BOOLEAN]
WriteHandle == [open : BOOLEAN, name : Names \union {NoName}, of : 0..MaxSize,
                stored : 0..MaxSize, dead : BOOLEAN]
ReadHandle == [open : BOOLEAN, name : Names \union {NoName}, size : 0..MaxSize,
               pos : 0..MaxSize, stale : BOOLEAN]
State == [conns : [Clients -> Conn], files : [Names -> File], write : WriteHandle,
          reads : [1..Reads -> ReadHandle], wrong : SUBSET Clients]

Uploads(s) == {c \in Clients : s.conns[c].st = "put"}
Counting(m) == [k \in 1..m |-> k]

\* The write handle is the main loop's while it saves, else the one upload's,
\* which has written what the client sent so far.
Writing(s, m) ==
    IF m \in {"write", "end"}
      THEN /\ s.write.open /\ Uploads(s) = {}
           /\ s.write.of = 1 /\ s.write.stored = IF m = "end" THEN 1 ELSE 0
      ELSE /\ s.write.open <=> Uploads(s) # {}
           /\ \A c, d \in Uploads(s) : c = d
           /\ \A c \in Uploads(s) :
                 LET q == s.conns[c]
                 IN  /\ s.write.name = q.name /\ s.write.stored = q.body
                     /\ s.write.of = q.size /\ q.body <= q.size

\* A download has a handle of its own, and has been given the chunks up to where
\* the handle stands.
Reading(s) ==
    /\ \A c \in Clients : s.conns[c].st = "pending" => s.conns[c].name \in Names
    /\ \A c \in Clients : s.conns[c].st = "file" =>
          LET q == s.conns[c]
              r == s.reads[q.handle]
          IN  /\ q.handle \in 1..Reads /\ r.open
              /\ r.size = q.size /\ q.left <= q.size /\ r.pos = q.size - q.left
              /\ q.chunks = Counting(q.size - q.left)
    /\ \A c \in Clients : s.conns[c].st = "closing" =>
          s.conns[c].chunks = Counting(s.conns[c].size)
    /\ \A c, d \in Clients :
          s.conns[c].st = "file" /\ s.conns[d].st = "file"
            /\ s.conns[c].handle = s.conns[d].handle => c = d
    /\ \A r \in 1..Reads : s.reads[r].open =>
          \E c \in Clients : s.conns[c].st = "file" /\ s.conns[c].handle = r

Whole(files) == \A f \in Names : files[f].stored = files[f].of

Good(s, m) ==
    /\ s \in State /\ s.wrong = {}
    /\ Writing(s, m) /\ Reading(s) /\ Whole(s.files)

FilesInv ==
    /\ Good(h, mpc)
    /\ dirty \in BOOLEAN
    /\ mpc \in {"idle", "begin", "write", "end"}
    /\ kick \in [on : BOOLEAN, tried : SUBSET Clients]

-----------------------------------------------------------------------------
(* What the operations of fs.c write                                       *)

\* The same handles are open, at the same places of files of the same size.
SameReads(R, Q) ==
    \A r \in 1..Reads : /\ R[r].open = Q[r].open
                        /\ R[r].size = Q[r].size /\ R[r].pos = Q[r].pos

\* A name without a file, and a file just created, are files.
LEMMA AbsentFile == Absent \in File /\ Created \in File
BY FilesAssumption DEF Absent, Created, File

\* A replaced file only marks the handles that read it.
LEMMA OutdateWrites ==
    ASSUME NEW s \in State, NEW f
    PROVE  /\ Outdate(s, f) \in State
           /\ Outdate(s, f).conns = s.conns /\ Outdate(s, f).files = s.files
           /\ Outdate(s, f).write = s.write /\ Outdate(s, f).wrong = s.wrong
           /\ SameReads(Outdate(s, f).reads, s.reads)
<1> DEFINE R == [r \in DOMAIN s.reads |-> IF s.reads[r].open /\ s.reads[r].name = f
                                            THEN [s.reads[r] EXCEPT !.stale = TRUE]
                                            ELSE s.reads[r]]
<1>1. s.reads \in [1..Reads -> ReadHandle]
  BY DEF State
<1>2. ASSUME NEW r \in 1..Reads
      PROVE  /\ [s.reads[r] EXCEPT !.stale = TRUE] \in ReadHandle
             /\ [s.reads[r] EXCEPT !.stale = TRUE].open = s.reads[r].open
             /\ [s.reads[r] EXCEPT !.stale = TRUE].size = s.reads[r].size
             /\ [s.reads[r] EXCEPT !.stale = TRUE].pos = s.reads[r].pos
  BY <1>1 DEF ReadHandle
<1>3. R \in [1..Reads -> ReadHandle] /\ SameReads(R, s.reads)
  BY <1>1, <1>2 DEF SameReads
<1>4. Outdate(s, f) = [s EXCEPT !.reads = R]
  BY DEF Outdate
<1> HIDE DEF R
<1> QED BY <1>3, <1>4 DEF State

\* A close leaves the file as it was, or with what was written.
LEMMA CloseWriteWrites ==
    ASSUME NEW s \in State
    PROVE  LET t == CloseWrite(s)
               w == s.write
           IN  /\ t \in State
               /\ t.conns = s.conns /\ t.write = NoWrite /\ t.wrong = s.wrong
               /\ SameReads(t.reads, s.reads)
               /\ t.files = IF w.dead THEN s.files
                            ELSE [s.files EXCEPT ![w.name] = [stored |-> w.stored, of |-> w.of,
                                                              there |-> TRUE]]
<1> DEFINE w == s.write
           u == [s EXCEPT !.write = NoWrite]
           file == [stored |-> w.stored, of |-> w.of, there |-> TRUE]
           F == [u.files EXCEPT ![w.name] = file]
           v == [u EXCEPT !.files = F]
<1>1. NoWrite \in WriteHandle
  BY FilesAssumption DEF NoWrite, WriteHandle
<1>2. u \in State /\ u.conns = s.conns /\ u.write = NoWrite /\ u.wrong = s.wrong
      /\ u.reads = s.reads /\ u.files = s.files
  BY <1>1 DEF State
<1>3. file \in File
  BY DEF State, WriteHandle, File
<1>4. CloseWrite(s) = IF w.dead THEN u ELSE Outdate(v, w.name)
  BY Zenon DEF CloseWrite
<1> HIDE DEF u
<1>5. F \in [Names -> File] /\ F = [s.files EXCEPT ![w.name] = file]
  BY <1>2, <1>3 DEF State
<1> HIDE DEF F
<1>6. v \in State /\ v.conns = s.conns /\ v.write = NoWrite /\ v.wrong = s.wrong
      /\ v.reads = s.reads /\ v.files = F
  BY <1>2, <1>5 DEF State
<1> HIDE DEF v
<1>7. /\ Outdate(v, w.name) \in State
      /\ Outdate(v, w.name).conns = s.conns /\ Outdate(v, w.name).files = F
      /\ Outdate(v, w.name).write = NoWrite /\ Outdate(v, w.name).wrong = s.wrong
      /\ SameReads(Outdate(v, w.name).reads, s.reads)
  BY <1>6, OutdateWrites
<1>8. SameReads(u.reads, s.reads)
  BY <1>2 DEF SameReads
<1> QED BY <1>2, <1>4, <1>5, <1>7, <1>8

\* The write that is open, if any, may be lost with its file; nothing else of
\* it changes.
SameWrite(w, v) == /\ w.open = v.open /\ w.name = v.name /\ w.of = v.of
                   /\ w.stored = v.stored /\ (v.dead => w.dead)

\* A removed file only marks the handle that writes it.
LEMMA LoseWriteWrites ==
    ASSUME NEW s \in State, NEW f
    PROVE  /\ LoseWrite(s, f) \in State
           /\ LoseWrite(s, f).conns = s.conns /\ LoseWrite(s, f).files = s.files
           /\ LoseWrite(s, f).reads = s.reads /\ LoseWrite(s, f).wrong = s.wrong
           /\ SameWrite(LoseWrite(s, f).write, s.write)
           /\ ~s.write.open => LoseWrite(s, f).write = s.write
<1>1. PICK b \in BOOLEAN : b = (s.write.dead \/ (s.write.open /\ s.write.name = f))
  OBVIOUS
<1> DEFINE w == [s.write EXCEPT !.dead = b]
<1>2. LoseWrite(s, f) = [s EXCEPT !.write = w]
  BY <1>1, Zenon DEF LoseWrite
<1>3. /\ w \in WriteHandle /\ SameWrite(w, s.write)
      /\ ~s.write.open => w = s.write
  BY <1>1 DEF State, WriteHandle, SameWrite
<1> HIDE DEF w
<1> QED BY <1>2, <1>3 DEF State

\* fs_delete removes the name and marks the handles that have it open.
LEMMA DeleteWrites ==
    ASSUME NEW s \in State, NEW f
    PROVE  LET t == Delete(s, f)
           IN  /\ t \in State
               /\ t.conns = s.conns /\ t.wrong = s.wrong
               /\ SameReads(t.reads, s.reads)
               /\ SameWrite(t.write, s.write)
               /\ ~s.write.open => t.write = s.write
               /\ t.files = IF Exists(s, f) THEN [s.files EXCEPT ![f] = Absent] ELSE s.files
<1> DEFINE F == [s.files EXCEPT ![f] = Absent]
           u == [s EXCEPT !.files = F]
           v == LoseWrite(u, f)
<1>1. CASE Exists(s, f)
  <2>1. Delete(s, f) = Outdate(v, f)
    BY <1>1, Zenon DEF Delete
  <2>2. F \in [Names -> File]
    BY AbsentFile DEF State
  <2> HIDE DEF F
  <2>3. u \in State /\ u.conns = s.conns /\ u.files = F /\ u.reads = s.reads
        /\ u.wrong = s.wrong /\ u.write = s.write
    BY <2>2 DEF State
  <2> HIDE DEF u
  <2>4. /\ v \in State
        /\ v.conns = s.conns /\ v.files = F /\ v.reads = s.reads /\ v.wrong = s.wrong
        /\ SameWrite(v.write, s.write) /\ (~s.write.open => v.write = s.write)
    BY <2>3, LoseWriteWrites
  <2> HIDE DEF v
  <2>5. /\ Outdate(v, f) \in State
        /\ Outdate(v, f).conns = v.conns /\ Outdate(v, f).files = v.files
        /\ Outdate(v, f).write = v.write /\ Outdate(v, f).wrong = v.wrong
        /\ SameReads(Outdate(v, f).reads, v.reads)
    BY <2>4, OutdateWrites
  <2> QED BY <1>1, <2>1, <2>4, <2>5 DEF F
<1>2. CASE ~Exists(s, f)
  BY <1>2 DEF Delete, SameReads, SameWrite
<1> QED BY <1>1, <1>2

\* fs_rename moves the file and marks the handles that had either name open.
LEMMA RenameWrites ==
    ASSUME NEW s \in State, NEW f \in Names, NEW g \in Names
    PROVE  LET t == Rename(s, f, g)
           IN  /\ t \in State
               /\ t.conns = s.conns /\ t.wrong = s.wrong
               /\ SameReads(t.reads, s.reads)
               /\ SameWrite(t.write, s.write)
               /\ t.files = [[s.files EXCEPT ![g] = s.files[f]] EXCEPT ![f] = Absent]
<1> DEFINE G == [s.files EXCEPT ![g] = s.files[f]]
           F == [G EXCEPT ![f] = Absent]
           u == [s EXCEPT !.files = F]
           v == LoseWrite(u, f)
<1>1. Rename(s, f, g) = Outdate(v, f)
  BY Zenon DEF Rename
<1>2. G \in [Names -> File]
  BY DEF State
<1> HIDE DEF G
<1>3. F \in [Names -> File]
  BY <1>2, AbsentFile
<1> HIDE DEF F
<1>4. u \in State /\ u.conns = s.conns /\ u.files = F /\ u.reads = s.reads
      /\ u.wrong = s.wrong /\ u.write = s.write
  BY <1>3 DEF State
<1> HIDE DEF u
<1>5. /\ v \in State
      /\ v.conns = s.conns /\ v.files = F /\ v.reads = s.reads /\ v.wrong = s.wrong
      /\ SameWrite(v.write, s.write)
  BY <1>4, LoseWriteWrites
<1> HIDE DEF v
<1>6. /\ Outdate(v, f) \in State
      /\ Outdate(v, f).conns = v.conns /\ Outdate(v, f).files = v.files
      /\ Outdate(v, f).write = v.write /\ Outdate(v, f).wrong = v.wrong
      /\ SameReads(Outdate(v, f).reads, v.reads)
  BY <1>5, OutdateWrites
<1> QED BY <1>1, <1>5, <1>6 DEF F, G

-----------------------------------------------------------------------------
(* Steps that keep what a state promises                                   *)

\* A connection that owns no handle may become another that owns none, while the
\* open handles stay.
LEMMA PlainConn ==
    ASSUME NEW m, NEW s, Good(s, m), NEW c \in Clients, NEW q \in Conn, NEW t \in State,
           s.conns[c].st \notin {"put", "file"}, q.st \notin {"put", "file"},
           q.st = "closing" => q.chunks = Counting(q.size),
           q.st = "pending" => q.name \in Names,
           t.conns = [s.conns EXCEPT ![c] = q], t.wrong = {},
           SameReads(t.reads, s.reads), SameWrite(t.write, s.write), Whole(t.files)
    PROVE  Good(t, m)
<1>1. s.conns \in [Clients -> Conn] /\ s.reads \in [1..Reads -> ReadHandle]
  BY DEF Good, State
<1>2. \A d \in Clients : t.conns[d] = IF d = c THEN q ELSE s.conns[d]
  BY <1>1
<1>3. Uploads(t) = Uploads(s) /\ \A d \in Uploads(s) : t.conns[d] = s.conns[d]
  BY <1>2 DEF Uploads
<1>4. Writing(t, m)
  BY <1>3 DEF Good, Writing, SameWrite
<1>5. Reading(t)
  BY <1>2 DEF Good, Reading, SameReads
<1> QED BY <1>4, <1>5 DEF Good

\* The files may change while the connections stay, if the open handles do.
LEMMA SameConns ==
    ASSUME NEW m, NEW s, Good(s, m), NEW t \in State,
           t.conns = s.conns, t.wrong = {},
           SameReads(t.reads, s.reads), SameWrite(t.write, s.write), Whole(t.files)
    PROVE  Good(t, m)
<1>1. Writing(t, m)
  BY DEF Good, Writing, SameWrite, Uploads
<1>2. Reading(t)
  BY DEF Good, Reading, SameReads
<1> QED BY <1>1, <1>2 DEF Good

\* An upload ends: the connection is free and the write handle closed.
LEMMA UploadEnds ==
    ASSUME NEW m, NEW s, Good(s, m), NEW c \in Uploads(s), NEW t \in State,
           t.conns = [s.conns EXCEPT ![c] = NoConn], t.wrong = {},
           SameReads(t.reads, s.reads), ~t.write.open, Whole(t.files)
    PROVE  Good(t, m)
<1>1. c \in Clients /\ s.conns[c].st = "put" /\ s.conns \in [Clients -> Conn]
  BY DEF Good, State, Uploads
<1>2. NoConn.st = "none"
  BY DEF NoConn
<1>3. \A d \in Clients : t.conns[d] = IF d = c THEN NoConn ELSE s.conns[d]
  BY <1>1
<1>4. m \notin {"write", "end"} /\ Uploads(s) = {c}
  BY <1>1 DEF Good, Writing
<1>5. Uploads(t) = {}
  BY <1>2, <1>3, <1>4 DEF Uploads
<1>6. Writing(t, m)
  BY <1>4, <1>5 DEF Writing
<1>7. Reading(t)
  BY <1>1, <1>2, <1>3 DEF Good, Reading, SameReads
<1> QED BY <1>6, <1>7 DEF Good

\* A download ends: its handle is returned, and the connection owns none.
LEMMA DownloadStops ==
    ASSUME NEW m, NEW s, Good(s, m), NEW c \in Clients, s.conns[c].st = "file",
           NEW q \in Conn, q.st \notin {"put", "file", "pending"},
           q.st = "closing" => q.chunks = Counting(q.size),
           NEW t \in State,
           t.conns = [s.conns EXCEPT ![c] = q], t.wrong = {},
           t.reads = [s.reads EXCEPT ![s.conns[c].handle] = NoRead],
           t.write = s.write, t.files = s.files
    PROVE  Good(t, m)
<1>1. s.conns \in [Clients -> Conn] /\ s.reads \in [1..Reads -> ReadHandle]
      /\ s.conns[c].handle \in 1..Reads /\ ~NoRead.open
  BY DEF Good, State, Reading, NoRead
<1>2. \A d \in Clients : t.conns[d] = IF d = c THEN q ELSE s.conns[d]
  BY <1>1
<1>3. \A r \in 1..Reads : t.reads[r] = IF r = s.conns[c].handle THEN NoRead ELSE s.reads[r]
  BY <1>1
<1>4. Uploads(t) = Uploads(s) /\ \A d \in Uploads(s) : t.conns[d] = s.conns[d]
  BY <1>2 DEF Uploads
<1>5. Writing(t, m)
  BY <1>4 DEF Good, Writing
<1>6. Reading(t)
  <2>1. ASSUME NEW d \in Clients, d # c, s.conns[d].st = "file"
        PROVE  t.reads[s.conns[d].handle] = s.reads[s.conns[d].handle]
    BY <1>1, <1>3, <2>1 DEF Good, Reading
  <2> QED BY <1>1, <1>2, <1>3, <2>1 DEF Good, Reading
<1> QED BY <1>5, <1>6 DEF Good

\* What a free slot holds.
LEMMA FreeConn == NoConn \in Conn /\ NoConn.st = "none"
<1>1. <<>> \in Seq(1..MaxSize)
  BY EmptySeq
<1> QED BY <1>1, FilesAssumption DEF NoConn, Conn

\* Writing one connection into a state.
WithConn(s, c, q) == [s EXCEPT !.conns[c] = q]

\* A change of one connection leaves the handles and the files alone.
LEMMA SetConn ==
    ASSUME NEW s \in State, NEW c \in Clients, NEW q \in Conn
    PROVE  LET t == WithConn(s, c, q)
           IN  /\ t \in State
               /\ t.conns = [s.conns EXCEPT ![c] = q] /\ t.conns[c] = q
               /\ t.files = s.files /\ t.write = s.write /\ t.reads = s.reads
               /\ t.wrong = s.wrong
<1> DEFINE C == [s.conns EXCEPT ![c] = q]
<1>1. C \in [Clients -> Conn] /\ C[c] = q
  BY DEF State
<1>2. WithConn(s, c, q) = [s EXCEPT !.conns = C]
  BY Zenon DEF WithConn
<1> HIDE DEF C
<1>3. LET t == WithConn(s, c, q)
      IN  /\ t \in State
          /\ t.conns = C /\ t.files = s.files /\ t.write = s.write /\ t.reads = s.reads
          /\ t.wrong = s.wrong
  BY <1>1, <1>2 DEF State
<1> QED BY <1>1, <1>3 DEF C

\* What Reset and EndRead write.
LEMMA ResetWrites ==
    ASSUME NEW s \in State, NEW c \in Clients
    PROVE  /\ Reset(s, c) \in State /\ Reset(s, c).conns = [s.conns EXCEPT ![c] = NoConn]
           /\ Reset(s, c).files = s.files /\ Reset(s, c).write = s.write
           /\ Reset(s, c).reads = s.reads /\ Reset(s, c).wrong = s.wrong
<1>1. Reset(s, c) = WithConn(s, c, NoConn)
  BY Zenon DEF Reset, WithConn
<1> QED BY <1>1, FreeConn, SetConn

\* fs_end_read frees its handle and changes nothing else.
LEMMA EndReadWrites ==
    ASSUME NEW s \in State, NEW r
    PROVE  /\ EndRead(s, r) \in State /\ EndRead(s, r).reads = [s.reads EXCEPT ![r] = NoRead]
           /\ EndRead(s, r).files = s.files /\ EndRead(s, r).write = s.write
           /\ EndRead(s, r).conns = s.conns /\ EndRead(s, r).wrong = s.wrong
<1> DEFINE R == [s.reads EXCEPT ![r] = NoRead]
<1>1. NoRead \in ReadHandle
  BY FilesAssumption DEF NoRead, ReadHandle
<1>2. R \in [1..Reads -> ReadHandle]
  BY <1>1 DEF State
<1>3. EndRead(s, r) = [s EXCEPT !.reads = R]
  BY Zenon DEF EndRead
<1> HIDE DEF R
<1>4. /\ EndRead(s, r) \in State /\ EndRead(s, r).reads = R
      /\ EndRead(s, r).files = s.files /\ EndRead(s, r).write = s.write
      /\ EndRead(s, r).conns = s.conns /\ EndRead(s, r).wrong = s.wrong
  BY <1>2, <1>3 DEF State
<1> QED BY <1>4 DEF R

\* A connection may be dropped in every state: an upload is undone, a read handle
\* returned.
LEMMA DropKeeps ==
    ASSUME NEW m, NEW s, Good(s, m), NEW c \in Clients
    PROVE  Good(Drop(s, c), m) /\ Drop(s, c).conns = [s.conns EXCEPT ![c] = NoConn]
<1> DEFINE q == s.conns[c]
<1>1. s \in State /\ s.wrong = {} /\ q \in Conn
  BY DEF Good, State
<1>2. CASE q.st = "put"
  <2> DEFINE u == AbortWrite(s)
             v == Delete(u, q.name)
             t == Reset(v, c)
  <2>1. Drop(s, c) = t
    BY <1>2, Zenon DEF Drop, Cleanup
  <2>2. s.write.open /\ s.write.name = q.name /\ c \in Uploads(s)
    BY <1>2 DEF Good, Writing, Uploads
  <2>3. u = CloseWrite(s)
    BY <2>2 DEF AbortWrite
  <2>4. /\ u \in State
        /\ u.conns = s.conns /\ u.write = NoWrite /\ u.wrong = s.wrong
        /\ SameReads(u.reads, s.reads)
        /\ u.files = IF s.write.dead THEN s.files
                     ELSE [s.files EXCEPT ![q.name] = [stored |-> s.write.stored,
                                                       of |-> s.write.of, there |-> TRUE]]
    BY <1>1, <2>2, <2>3, CloseWriteWrites
  <2> HIDE DEF u
  <2>5. ~u.write.open
    BY <2>4 DEF NoWrite
  <2>6. /\ v \in State
        /\ v.conns = u.conns /\ v.wrong = u.wrong /\ SameReads(v.reads, u.reads)
        /\ v.write = u.write
        /\ v.files = IF Exists(u, q.name) THEN [u.files EXCEPT ![q.name] = Absent] ELSE u.files
    BY <2>4, <2>5, DeleteWrites
  <2> HIDE DEF v
  <2>7. Whole(v.files)
    <3>1. Absent.stored = Absent.of
      BY DEF Absent
    <3>2. s.files \in [Names -> File] /\ Whole(s.files)
      BY DEF Good, State
    <3>3. CASE s.write.dead
      BY <2>4, <2>6, <3>1, <3>2, <3>3 DEF Whole
    <3>4. CASE ~s.write.dead
      <4> DEFINE file == [stored |-> s.write.stored, of |-> s.write.of, there |-> TRUE]
      <4>1. file.there /\ u.files = [s.files EXCEPT ![q.name] = file]
        BY <2>4, <3>4
      <4> HIDE DEF file
      <4>2. CASE q.name \in Names
        <5>1. Exists(u, q.name)
          BY <3>2, <4>1, <4>2 DEF Exists
        <5> QED BY <2>6, <3>1, <3>2, <4>1, <5>1 DEF Whole
      <4>3. CASE q.name \notin Names
        BY <2>6, <3>2, <4>1, <4>3 DEF Whole
      <4> QED BY <4>2, <4>3
    <3> QED BY <3>3, <3>4
  <2>9. /\ t \in State /\ t.conns = [v.conns EXCEPT ![c] = NoConn]
        /\ t.files = v.files /\ t.write = v.write /\ t.reads = v.reads /\ t.wrong = v.wrong
    BY <2>6, ResetWrites
  <2> HIDE DEF t
  <2>10. SameReads(t.reads, s.reads)
    BY <2>4, <2>6, <2>9 DEF SameReads
  <2>11. Good(t, m)
    BY <1>1, <2>2, <2>4, <2>5, <2>6, <2>7, <2>9, <2>10, UploadEnds
  <2> QED BY <2>1, <2>4, <2>6, <2>9, <2>11
<1>3. CASE q.st = "file"
  <2> DEFINE u == EndRead(s, q.handle)
             t == Reset(u, c)
  <2>1. Drop(s, c) = t
    BY <1>3, Zenon DEF Drop, Cleanup
  <2>2. /\ u \in State /\ u.conns = s.conns /\ u.files = s.files /\ u.write = s.write
        /\ u.reads = [s.reads EXCEPT ![q.handle] = NoRead] /\ u.wrong = s.wrong
    BY <1>1, EndReadWrites
  <2> HIDE DEF u
  <2>3. /\ t \in State /\ t.conns = [u.conns EXCEPT ![c] = NoConn]
        /\ t.files = u.files /\ t.write = u.write /\ t.reads = u.reads /\ t.wrong = u.wrong
    BY <2>2, ResetWrites
  <2> HIDE DEF t
  <2>4. Good(t, m)
    BY <1>1, <1>3, <2>2, <2>3, FreeConn, DownloadStops
  <2> QED BY <2>1, <2>2, <2>3, <2>4
<1>4. CASE q.st \notin {"put", "file"}
  <2> DEFINE t == Reset(s, c)
  <2>1. Drop(s, c) = t
    BY <1>4, Zenon DEF Drop, Cleanup
  <2>3. /\ t \in State /\ t.conns = [s.conns EXCEPT ![c] = NoConn]
        /\ t.files = s.files /\ t.write = s.write /\ t.reads = s.reads /\ t.wrong = s.wrong
    BY <1>1, ResetWrites
  <2> HIDE DEF t
  <2>4. SameReads(t.reads, s.reads) /\ SameWrite(t.write, s.write) /\ Whole(t.files)
    BY <2>3 DEF SameReads, SameWrite, Good
  <2>5. Good(t, m)
    BY <1>1, <1>4, <2>3, <2>4, FreeConn, PlainConn
  <2> QED BY <2>1, <2>3, <2>5
<1> QED BY <1>2, <1>3, <1>4

-----------------------------------------------------------------------------
(* Downloads                                                               *)

\* The first chunks of a file, and the next n of them.
LEMMA CountingSeq ==
    ASSUME NEW a \in Nat, a <= MaxSize
    PROVE  /\ Counting(a) \in Seq(1..MaxSize) /\ Len(Counting(a)) = a
           /\ \A k \in 1..a : Counting(a)[k] = k
BY FilesAssumption DEF Counting

\* The next n bytes of a file follow the first a.
LEMMA CountingOn ==
    ASSUME NEW a \in Nat, NEW n \in Nat, a + n <= MaxSize
    PROVE  Counting(a) \o [k \in 1..n |-> a + k] = Counting(a + n)
<1> DEFINE N == [k \in 1..n |-> a + k]
           S == 1..MaxSize
           A == Counting(a)
           B == Counting(a + n)
<1>1. A \in Seq(S) /\ Len(A) = a /\ \A k \in 1..a : A[k] = k
  BY CountingSeq, FilesAssumption
<1>2. N \in Seq(S) /\ Len(N) = n /\ \A k \in 1..n : N[k] = a + k
  BY FilesAssumption
<1>3. a + n \in Nat /\ B \in Seq(S) /\ Len(B) = a + n /\ \A k \in 1..(a + n) : B[k] = k
  BY CountingSeq
<1> HIDE DEF N, S, A, B
<1>4. /\ A \o N \in Seq(S) /\ Len(A \o N) = Len(A) + Len(N)
      /\ \A k \in 1..(Len(A) + Len(N)) :
            (A \o N)[k] = IF k <= Len(A) THEN A[k] ELSE N[k - Len(A)]
  BY <1>1, <1>2, ConcatProperties
<1>5. ASSUME NEW k \in 1..(a + n)
      PROVE  (A \o N)[k] = B[k]
  <2>1. (A \o N)[k] = IF k <= a THEN A[k] ELSE N[k - a]
    BY <1>1, <1>2, <1>4
  <2>2. k > a => k - a \in 1..n
    OBVIOUS
  <2> QED BY <1>1, <1>2, <1>3, <2>1, <2>2
<1>6. Len(A \o N) = Len(B)
  BY <1>1, <1>2, <1>3, <1>4
<1>7. \A k \in 1..Len(A \o N) : (A \o N)[k] = B[k]
  BY <1>3, <1>5, <1>6
<1>8. A \o N = B
  BY <1>3, <1>4, <1>6, <1>7, SeqEqual
<1> QED BY <1>8 DEF A, N, B

\* Queueing n chunks moves the handle and what the client has been given alike.
LEMMA QueueKeeps ==
    ASSUME NEW m, NEW s, Good(s, m), NEW c \in Clients, s.conns[c].st = "file",
           NEW n \in Nat, n <= s.conns[c].left
    PROVE  LET t == Queue(s, c, n)
           IN  /\ Good(t, m) /\ QueueRefused(s, c, n) = t
               /\ t.conns[c].st = "file" /\ t.conns[c].left = s.conns[c].left - n
<1> DEFINE q == s.conns[c]
           r == s.reads[q.handle]
           x == [k \in 1..n |-> r.pos + k]
           t == Queue(s, c, n)
<1>1. /\ s \in State /\ s.wrong = {} /\ q \in Conn /\ q.handle \in 1..Reads /\ r \in ReadHandle
      /\ s.conns \in [Clients -> Conn] /\ s.reads \in [1..Reads -> ReadHandle]
  BY DEF Good, Reading, State
<1>2. /\ r.open /\ r.size = q.size /\ q.left <= q.size /\ r.pos = q.size - q.left
      /\ q.chunks = Counting(q.size - q.left)
  BY DEF Good, Reading
<1>3. /\ q.left \in Nat /\ q.size \in Nat /\ q.size <= MaxSize
      /\ r.pos + n \in 0..MaxSize /\ r.pos + n = q.size - (q.left - n)
      /\ q.left - n \in 0..MaxSize /\ MaxSize \in Nat
  <2>1. q.left \in 0..MaxSize /\ q.size \in 0..MaxSize
    BY <1>1 DEF Conn
  <2> QED BY <1>2, <2>1, FilesAssumption
<1>4. q.chunks \o x = Counting(q.size - (q.left - n)) /\ q.chunks \o x \in Seq(1..MaxSize)
  <2>1. r.pos \in Nat /\ r.pos + n <= MaxSize /\ r.pos + n \in Nat
    BY <1>2, <1>3
  <2>2. Counting(r.pos) \o x = Counting(r.pos + n)
    BY <2>1, CountingOn
  <2>3. Counting(r.pos + n) \in Seq(1..MaxSize)
    BY <2>1, CountingSeq
  <2> QED BY <1>2, <1>3, <2>2, <2>3
<1>5. PICK b \in BOOLEAN : b = (q.stale \/ r.stale)
  OBVIOUS
<1> DEFINE y == q.chunks \o x
           z == IF n > 0 THEN 0 ELSE q.retries
           q2 == [q EXCEPT !.left = q.left - n, !.retries = z, !.chunks = y, !.stale = b]
           r2 == [r EXCEPT !.pos = r.pos + n]
           C == [s.conns EXCEPT ![c] = q2]
           R == [s.reads EXCEPT ![q.handle] = r2]
<1>6. t = [s EXCEPT !.conns = C, !.reads = R]
  BY <1>5, Zenon DEF Queue
<1>7. z \in 0..MaxRetries
  BY <1>1, FilesAssumption DEF Conn
<1> HIDE DEF x, y, z
<1>8. /\ q2 \in Conn
      /\ q2.st = q.st /\ q2.name = q.name /\ q2.size = q.size /\ q2.handle = q.handle
      /\ q2.left = q.left - n /\ q2.chunks = y
  BY <1>1, <1>3, <1>4, <1>7 DEF Conn, y
<1>9. r2 \in ReadHandle /\ r2.open /\ r2.size = r.size /\ r2.pos = r.pos + n
  BY <1>1, <1>2, <1>3 DEF ReadHandle
<1> HIDE DEF q2, r2
<1>10. /\ C \in [Clients -> Conn] /\ \A d \in Clients : C[d] = IF d = c THEN q2 ELSE s.conns[d]
       /\ R \in [1..Reads -> ReadHandle]
       /\ \A k \in 1..Reads : R[k] = IF k = q.handle THEN r2 ELSE s.reads[k]
  BY <1>1, <1>8, <1>9
<1> HIDE DEF C, R
<1>11. /\ t \in State /\ t.conns = C /\ t.reads = R
       /\ t.files = s.files /\ t.write = s.write /\ t.wrong = s.wrong
  BY <1>1, <1>6, <1>10 DEF State
<1> HIDE DEF t
<1>12. Uploads(t) = Uploads(s) /\ \A d \in Uploads(s) : t.conns[d] = s.conns[d]
  BY <1>8, <1>10, <1>11 DEF Uploads
<1>13. Writing(t, m)
  BY <1>11, <1>12 DEF Good, Writing
<1>14. Reading(t)
  <2>1. ASSUME NEW d \in Clients, d # c, s.conns[d].st = "file"
        PROVE  s.conns[d].handle # q.handle /\ s.conns[d].handle \in 1..Reads
    BY <2>1 DEF Good, Reading
  <2>2. q2.chunks = Counting(q2.size - q2.left)
    BY <1>4, <1>8 DEF y
  <2>3. r2.pos = q2.size - q2.left /\ q2.left <= q2.size /\ r2.open /\ r2.size = q2.size
    BY <1>2, <1>3, <1>8, <1>9
  <2>4. t.conns[c] = q2 /\ t.reads[q2.handle] = r2 /\ q2.handle \in 1..Reads
    BY <1>1, <1>8, <1>10, <1>11
  <2>5. \A d \in Clients : d # c => t.conns[d] = s.conns[d]
    BY <1>10, <1>11
  <2>6. \A k \in 1..Reads : k # q.handle => t.reads[k] = s.reads[k]
    BY <1>10, <1>11
  <2>7. ASSUME NEW d \in Clients, t.conns[d].st = "file"
        PROVE  LET e == t.conns[d]
                   k == t.reads[e.handle]
               IN  /\ e.handle \in 1..Reads /\ k.open
                   /\ k.size = e.size /\ e.left <= e.size /\ k.pos = e.size - e.left
                   /\ e.chunks = Counting(e.size - e.left)
    <3>1. CASE d = c
      BY <2>2, <2>3, <2>4, <3>1
    <3>2. CASE d # c
      BY <2>1, <2>5, <2>6, <2>7, <3>2 DEF Good, Reading
    <3> QED BY <3>1, <3>2
  <2>8. \A d \in Clients : t.conns[d].st = "closing" =>
          t.conns[d].chunks = Counting(t.conns[d].size)
    BY <1>8, <2>4, <2>5 DEF Good, Reading
  <2>9. \A d, e \in Clients : t.conns[d].st = "file" /\ t.conns[e].st = "file"
            /\ t.conns[d].handle = t.conns[e].handle => d = e
    BY <1>8, <2>1, <2>4, <2>5 DEF Good, Reading
  <2>10. ASSUME NEW k \in 1..Reads, t.reads[k].open
         PROVE  \E d \in Clients : t.conns[d].st = "file" /\ t.conns[d].handle = k
    <3>1. s.reads[k].open
      BY <1>2, <2>6, <2>10
    <3>2. PICK d \in Clients : s.conns[d].st = "file" /\ s.conns[d].handle = k
      BY <3>1 DEF Good, Reading
    <3> QED BY <1>8, <2>4, <2>5, <3>2
  <2>11. \A d \in Clients : t.conns[d].st = "pending" => t.conns[d].name \in Names
    BY <1>8, <2>4, <2>5 DEF Good, Reading
  <2> QED BY <2>7, <2>8, <2>9, <2>10, <2>11 DEF Reading
<1>15. Good(t, m)
  BY <1>11, <1>13, <1>14 DEF Good
<1>16. QueueRefused(s, c, n) = t
  <2> DEFINE u == [t EXCEPT !.reads[q.handle].pos = @ + 1]
             r3 == [t.reads[q.handle] EXCEPT !.pos = t.reads[q.handle].pos + 1]
             R3 == [t.reads EXCEPT ![q.handle] = r3]
  <2>1. u = [t EXCEPT !.reads = R3]
    BY Zenon
  <2>2. QueueRefused(s, c, n) = Rewind(u, q.handle)
    BY Zenon DEF QueueRefused, t
  <2>3. [r3 EXCEPT !.pos = r3.pos - 1] = r2
    <3>1. t.reads[q.handle] = r2
      BY <1>1, <1>10, <1>11
    <3>2. r2.pos \in Nat
      BY <1>1, <1>9 DEF ReadHandle
    <3>3. r3 = [r2 EXCEPT !.pos = r2.pos + 1]
      BY <3>1
    <3> HIDE DEF r3
    <3>4. r3 = [open |-> r2.open, name |-> r2.name, size |-> r2.size, pos |-> r2.pos + 1,
                stale |-> r2.stale]
      BY <1>9, <3>3 DEF ReadHandle
    <3>5. r2 = [open |-> r2.open, name |-> r2.name, size |-> r2.size, pos |-> r2.pos,
                stale |-> r2.stale]
      BY <1>9 DEF ReadHandle
    <3>6. r3.pos - 1 = r2.pos
      BY <3>2, <3>4
    <3>7. [r3 EXCEPT !.pos = r2.pos] = r2
      BY <3>4, <3>5
    <3> QED BY <3>6, <3>7
  <2>4. R3[q.handle] = r3 /\ [R3 EXCEPT ![q.handle] = r2] = R
    BY <1>1, <1>10, <1>11
  <2> DEFINE r4 == [u.reads[q.handle] EXCEPT !.pos = u.reads[q.handle].pos - 1]
             R4 == [u.reads EXCEPT ![q.handle] = r4]
  <2>5. Rewind(u, q.handle) = [u EXCEPT !.reads = R4]
    BY Zenon DEF Rewind
  <2> HIDE DEF r3, R3, u
  <2>6. u.reads = R3 /\ [u EXCEPT !.reads = R] = t
    BY <1>11, <2>1 DEF State
  <2>7. R4 = R
    BY <2>3, <2>4, <2>6
  <2> QED BY <2>2, <2>5, <2>6, <2>7
<1> QED BY <1>8, <1>10, <1>11, <1>15, <1>16 DEF t

\* What a download's slot becomes when it is ending, parked, or begun.
LEMMA EndingConn ==
    ASSUME NEW q \in Conn
    PROVE  LET q2 == [q EXCEPT !.st = "closing", !.handle = 0]
           IN  /\ q2 \in Conn /\ q2.st = "closing"
               /\ q2.chunks = q.chunks /\ q2.size = q.size
<1>1. 0 \in 0..Reads BY FilesAssumption
<1> QED BY <1>1 DEF Conn

\* A download that found no handle waits, with the name it asked for.
LEMMA ParkedConn ==
    ASSUME NEW q \in Conn, NEW f \in Names
    PROVE  LET q2 == [q EXCEPT !.st = "pending", !.name = f, !.handle = 0]
           IN  q2 \in Conn /\ q2.st = "pending" /\ q2.name = f
<1>1. 0 \in 0..Reads BY FilesAssumption
<1> QED BY <1>1 DEF Conn

Begun(f, r, z) ==
    [NoConn EXCEPT !.st = "file", !.name = f, !.handle = r, !.size = z, !.left = z]

\* A download that found one starts with the whole size to send.
LEMMA BegunConn ==
    ASSUME NEW f \in Names, NEW r \in 1..Reads, NEW z \in 0..MaxSize
    PROVE  LET q == Begun(f, r, z)
           IN  /\ q \in Conn /\ q.st = "file" /\ q.handle = r /\ q.size = z
               /\ q.left = z /\ q.chunks = <<>>
<1>1. r \in 0..Reads BY FilesAssumption
<1>2. NoConn \in Conn /\ NoConn.chunks = <<>>
  BY FreeConn DEF NoConn
<1> QED BY <1>1, <1>2 DEF Conn, Begun

\* The end of a download, now or when the stack has memory for it: the client has
\* been given the whole file.
LEMMA TryCloseKeeps ==
    ASSUME NEW m, NEW s, Good(s, m), NEW c \in Clients,
           \/ s.conns[c].st = "file" /\ s.conns[c].left = 0
           \/ s.conns[c].st = "closing",
           NEW o \in TryClose(s, c)
    PROVE  Good(o, m)
<1> DEFINE q == s.conns[c]
           t == IF q.st = "file" THEN EndRead(s, q.handle) ELSE s
           u == Received(t, c)
           q2 == [q EXCEPT !.st = "closing", !.handle = 0]
           v == WithConn(t, c, q2)
<1>1. s \in State /\ s.wrong = {} /\ q \in Conn
  BY DEF Good, State
<1>2. /\ t \in State /\ t.conns = s.conns /\ t.files = s.files /\ t.write = s.write
      /\ t.wrong = {}
      /\ t.reads = IF q.st = "file" THEN [s.reads EXCEPT ![q.handle] = NoRead] ELSE s.reads
  BY <1>1, EndReadWrites
<1>3. q.chunks = Counting(q.size)
  <2>1. q.st = "file" => q.size - q.left = q.size /\ q.chunks = Counting(q.size - q.left)
    BY <1>1, FilesAssumption DEF Good, Reading, Conn
  <2> QED BY <2>1 DEF Good, Reading
<1>4. /\ q2 \in Conn /\ q2.st = "closing" /\ q2.chunks = q.chunks /\ q2.size = q.size
  BY <1>1, EndingConn
<1>5. o = Reset(u, c) \/ o = v
  <2>1. v = [t EXCEPT !.conns[c] = [t.conns[c] EXCEPT !.st = "closing", !.handle = 0]]
    BY <1>2, Zenon DEF WithConn
  <2> QED BY <2>1, Zenon DEF TryClose
<1> HIDE DEF t, q2
<1>6. u = [t EXCEPT !.wrong = t.wrong]
  BY <1>2, <1>3 DEF Received, Counting
<1>7. u \in State /\ u.conns = s.conns /\ u.files = s.files /\ u.write = s.write
      /\ u.wrong = {} /\ u.reads = t.reads
  BY <1>2, <1>6 DEF State
<1> HIDE DEF u, v
<1>8. ASSUME NEW w \in State, NEW x \in Conn, w.conns = [s.conns EXCEPT ![c] = x],
             w.files = s.files, w.write = s.write, w.wrong = {}, w.reads = t.reads,
             x.st \in {"none", "closing"}, x.st = "closing" => x.chunks = Counting(x.size)
      PROVE  Good(w, m)
  <2>1. SameWrite(w.write, s.write) /\ Whole(w.files)
    BY <1>8 DEF SameWrite, Good
  <2>2. CASE q.st = "file"
    BY <1>2, <1>8, <2>2, DownloadStops
  <2>3. CASE q.st = "closing"
    <3>1. SameReads(w.reads, s.reads)
      BY <1>2, <1>8, <2>3 DEF SameReads
    <3> QED BY <1>8, <2>1, <2>3, <3>1, PlainConn
  <2> QED BY <2>2, <2>3
<1>9. Good(Reset(u, c), m)
  BY <1>7, <1>8, ResetWrites, FreeConn
<1>10. Good(v, m)
  <2>1. /\ v \in State /\ v.conns = [s.conns EXCEPT ![c] = q2] /\ v.files = s.files
        /\ v.write = s.write /\ v.reads = t.reads /\ v.wrong = {}
    BY <1>2, <1>4, SetConn DEF v
  <2>2. q2.chunks = Counting(q2.size)
    BY <1>3, <1>4
  <2> QED BY <1>4, <1>8, <2>1, <2>2
<1> QED BY <1>5, <1>9, <1>10

\* A download goes on, ends, or is given up.
LEMMA SendFileKeeps ==
    ASSUME NEW m, NEW s, Good(s, m), NEW c \in Clients, s.conns[c].st = "file",
           NEW o \in SendFile(s, c)
    PROVE  Good(o[1], m) /\ o[2] \in BOOLEAN
<1> DEFINE q == s.conns[c]
           r == s.reads[q.handle]
           most == IF q.left <= r.size - r.pos THEN q.left ELSE r.size - r.pos
<1>1. PICK a \in PumpFile(s, c) : o \in FinishFile(a[1], c, a[2])
  BY Zenon DEF SendFile
<1>0. 1 # 0 /\ 0 - 1 # 1 /\ 0 - 1 # 0
  OBVIOUS
<1>2. q.left \in Nat /\ \A n \in 0..most : n \in Nat /\ n <= q.left
  <2>1. q \in Conn /\ q.handle \in 1..Reads /\ r \in ReadHandle
    BY DEF Good, Reading, State
  <2>2. q.left \in Nat /\ r.size \in Nat /\ r.pos \in Nat
    BY <2>1, FilesAssumption DEF Conn, ReadHandle
  <2> QED BY <2>2
<1>3. PICK n \in Nat : /\ n <= q.left
                       /\ a[1] = Queue(s, c, n) \/ a[1] = QueueRefused(s, c, n)
                       /\ a[2] = 1 => n = q.left
                       /\ a[2] \in {1, 0, 0 - 1}
  <2> HIDE DEF most
  <2>1. \/ \E n \in 0..most : a = <<Queue(s, c, n), IF n = q.left THEN 1 ELSE 0>>
        \/ \E n \in {k \in 0..most : k < most} : a = <<QueueRefused(s, c, n), 0>>
        \/ \E n \in {k \in 0..most : k < q.left /\ (r.stale \/ k = most)} :
              a = <<Queue(s, c, n), 0 - 1>>
    BY Zenon DEF PumpFile, most
  <2> QED BY <1>2, <2>1
<1>4. /\ Good(a[1], m)
      /\ a[1].conns[c].st = "file" /\ a[1].conns[c].left = q.left - n
  BY <1>3, QueueKeeps
<1>5. CASE a[2] = 1
  <2>1. PICK t \in TryClose(a[1], c) : o = <<t, TRUE>>
    <3>1. FinishFile(a[1], c, a[2]) = {<<t, TRUE>> : t \in TryClose(a[1], c)}
      BY <1>0, <1>5, Zenon DEF FinishFile
    <3> HIDE DEF FinishFile
    <3> QED BY <1>1, <3>1, Zenon
  <2>2. Good(t, m)
    BY <1>2, <1>3, <1>4, <1>5, TryCloseKeeps
  <2> QED BY <2>1, <2>2
<1>6. CASE a[2] = 0
  <2>1. o = <<a[1], FALSE>>
    BY <1>0, <1>1, <1>6, Zenon DEF FinishFile
  <2> QED BY <1>4, <2>1
<1>7. CASE a[2] = 0 - 1
  <2>1. o = <<Drop(a[1], c), TRUE>>
    BY <1>0, <1>1, <1>7, Zenon DEF FinishFile
  <2> QED BY <1>4, <2>1, DropKeeps
<1> QED BY <1>3, <1>5, <1>6, <1>7

\* A nonempty set of naturals has a first element.
LEMMA FirstIn ==
    ASSUME NEW R \in SUBSET Nat, R # {}
    PROVE  First(R) \in R
<1>1. PICK x \in R : \A y \in R : ~ (<<y, x>> \in OpToRel(<, Nat))
  BY NatLessThanWellFounded, WFMin
<1>2. ASSUME NEW y \in R
      PROVE  x <= y
  <2>1. ~(<<y, x>> \in OpToRel(<, Nat))
    BY <1>1
  <2>2. <<y, x>> \in Nat \X Nat
    OBVIOUS
  <2>3. ~(y < x)
    BY <2>1, <2>2 DEF OpToRel
  <2> QED BY <2>3
<1> QED BY <1>2 DEF First

\* A free handle is given to a connection that owns none.
LEMMA OpenFileKeeps ==
    ASSUME NEW m, NEW s, Good(s, m), NEW c \in Clients, s.conns[c].st \notin {"put", "file"},
           NEW f \in Names, NEW r \in FreeReads(s)
    PROVE  Good(OpenFile(s, c, f, r), m) /\ OpenFile(s, c, f, r).conns[c].st = "file"
<1> DEFINE z == s.files[f].stored
           k == [open |-> TRUE, name |-> f, size |-> z, pos |-> 0, stale |-> FALSE]
           R == [s.reads EXCEPT ![r] = k]
           u == BeginRead(s, f, r)
           q == Begun(f, r, z)
           t == WithConn(u, c, q)
<1>1. /\ s \in State /\ s.wrong = {} /\ s.conns \in [Clients -> Conn]
      /\ s.reads \in [1..Reads -> ReadHandle]
      /\ r \in 1..Reads /\ ~s.reads[r].open /\ z \in 0..MaxSize
  BY DEF Good, State, FreeReads, File
<1>2. k \in ReadHandle /\ k.open /\ k.size = z /\ k.pos = 0
  BY <1>1, FilesAssumption DEF ReadHandle
<1>3. u = [s EXCEPT !.reads = R]
  BY Zenon DEF BeginRead
<1>4. /\ q \in Conn /\ q.st = "file" /\ q.handle = r /\ q.size = z /\ q.left = z
      /\ q.chunks = <<>>
  <2>1. r \in 1..Reads /\ z \in 0..MaxSize
    BY <1>1
  <2> QED BY <2>1, BegunConn
<1>5. t.files = OpenFile(s, c, f, r).files /\ t = OpenFile(s, c, f, r)
  BY Zenon DEF OpenFile, WithConn, Begun
<1> HIDE DEF k, q, u
<1>6. R \in [1..Reads -> ReadHandle] /\ \A x \in 1..Reads : R[x] = IF x = r THEN k ELSE s.reads[x]
  BY <1>1, <1>2
<1> HIDE DEF R
<1>7. /\ u \in State /\ u.reads = R /\ u.conns = s.conns /\ u.files = s.files
      /\ u.write = s.write /\ u.wrong = {}
  BY <1>1, <1>3, <1>6 DEF State
<1>8. /\ t \in State /\ t.conns = [s.conns EXCEPT ![c] = q] /\ t.conns[c] = q
      /\ t.files = s.files /\ t.write = s.write /\ t.reads = R /\ t.wrong = {}
  BY <1>4, <1>7, SetConn
<1> HIDE DEF t
<1>9. \A d \in Clients : t.conns[d] = IF d = c THEN q ELSE s.conns[d]
  BY <1>1, <1>8
<1>10. Uploads(t) = Uploads(s) /\ \A d \in Uploads(s) : t.conns[d] = s.conns[d]
  BY <1>4, <1>9 DEF Uploads
<1>11. Writing(t, m)
  BY <1>8, <1>10 DEF Good, Writing
<1>12. Reading(t)
  <2>1. ASSUME NEW d \in Clients, d # c, s.conns[d].st = "file"
        PROVE  s.conns[d].handle # r /\ s.conns[d].handle \in 1..Reads
    BY <1>1, <2>1 DEF Good, Reading
  <2>2. q.chunks = Counting(q.size - q.left) /\ k.pos = q.size - q.left /\ q.left <= q.size
    <3>1. q.size - q.left = 0 /\ q.left <= q.size
      BY <1>1, <1>4
    <3>2. Counting(0) = <<>>
      BY DEF Counting
    <3> QED BY <1>2, <1>4, <3>1, <3>2
  <2>3. ASSUME NEW d \in Clients, t.conns[d].st = "file"
        PROVE  LET e == t.conns[d]
                   x == t.reads[e.handle]
               IN  /\ e.handle \in 1..Reads /\ x.open
                   /\ x.size = e.size /\ e.left <= e.size /\ x.pos = e.size - e.left
                   /\ e.chunks = Counting(e.size - e.left)
    <3>1. CASE d = c
      BY <1>1, <1>2, <1>4, <1>6, <1>8, <2>2, <3>1
    <3>2. CASE d # c
      <4>1. t.conns[d] = s.conns[d] /\ t.reads[s.conns[d].handle] = s.reads[s.conns[d].handle]
        BY <1>6, <1>8, <1>9, <2>1, <2>3, <3>2
      <4> QED BY <2>3, <4>1 DEF Good, Reading
    <3> QED BY <3>1, <3>2
  <2>4. \A d \in Clients : t.conns[d].st = "closing" =>
          t.conns[d].chunks = Counting(t.conns[d].size)
    BY <1>4, <1>9 DEF Good, Reading
  <2>5. \A d, e \in Clients : t.conns[d].st = "file" /\ t.conns[e].st = "file"
            /\ t.conns[d].handle = t.conns[e].handle => d = e
    BY <1>4, <1>9, <2>1 DEF Good, Reading
  <2>6. ASSUME NEW x \in 1..Reads, t.reads[x].open
        PROVE  \E d \in Clients : t.conns[d].st = "file" /\ t.conns[d].handle = x
    <3>1. CASE x = r
      BY <1>4, <1>8, <3>1
    <3>2. CASE x # r
      <4>1. s.reads[x].open
        BY <1>6, <1>8, <2>6, <3>2
      <4>2. PICK d \in Clients : s.conns[d].st = "file" /\ s.conns[d].handle = x
        BY <4>1 DEF Good, Reading
      <4> QED BY <1>9, <4>2
    <3> QED BY <3>1, <3>2
  <2>7. \A d \in Clients : t.conns[d].st = "pending" => t.conns[d].name \in Names
    BY <1>4, <1>9 DEF Good, Reading
  <2> QED BY <2>3, <2>4, <2>5, <2>6, <2>7 DEF Reading
<1>13. Good(t, m)
  BY <1>8, <1>11, <1>12 DEF Good
<1> QED BY <1>4, <1>5, <1>8, <1>13

\* A download starts or is parked.
LEMMA StartFileKeeps ==
    ASSUME NEW m, NEW s, Good(s, m), NEW c \in Clients, s.conns[c].st \notin {"put", "file"},
           NEW f \in Names, NEW o \in StartFile(s, c, f)
    PROVE  Good(o[1], m) /\ o[2] \in BOOLEAN
<1> DEFINE q == [s.conns[c] EXCEPT !.st = "pending", !.name = f, !.handle = 0]
           t == WithConn(s, c, q)
           r == First(FreeReads(s))
<1>1. CASE o = <<ParkFile(s, c, f), FALSE>>
  <2>1. s \in State /\ s.wrong = {} /\ s.conns[c] \in Conn
    BY DEF Good, State
  <2>2. q \in Conn /\ q.st = "pending" /\ q.name = f
    BY <2>1, ParkedConn
  <2>3. ParkFile(s, c, f) = t
    BY Zenon DEF ParkFile, WithConn
  <2> HIDE DEF q
  <2>4. /\ t \in State /\ t.conns = [s.conns EXCEPT ![c] = q]
        /\ t.files = s.files /\ t.write = s.write /\ t.reads = s.reads /\ t.wrong = {}
    BY <2>1, <2>2, SetConn
  <2> HIDE DEF t
  <2>5. SameReads(t.reads, s.reads) /\ SameWrite(t.write, s.write) /\ Whole(t.files)
    BY <2>4 DEF SameReads, SameWrite, Good
  <2>6. Good(t, m)
    BY <2>2, <2>4, <2>5, PlainConn
  <2> QED BY <1>1, <2>3, <2>6
<1>2. CASE FreeReads(s) # {} /\ o \in SendFile(OpenFile(s, c, f, r), c)
  <2>1. FreeReads(s) \in SUBSET Nat
    <3>1. s.reads \in [1..Reads -> ReadHandle]
      BY DEF Good, State
    <3>2. FreeReads(s) \subseteq 1..Reads
      BY <3>1 DEF FreeReads
    <3>3. Reads \in Nat
      BY FilesAssumption
    <3>4. 1..Reads \subseteq Nat
      BY <3>3
    <3> QED BY <3>2, <3>4, Zenon
  <2>2. r \in FreeReads(s)
    BY <1>2, <2>1, FirstIn
  <2> HIDE DEF r
  <2>3. Good(OpenFile(s, c, f, r), m) /\ OpenFile(s, c, f, r).conns[c].st = "file"
    BY <2>2, OpenFileKeeps
  <2> QED BY <1>2, <2>3, SendFileKeeps
<1> QED BY <1>1, <1>2, Zenon DEF StartFile

-----------------------------------------------------------------------------
(* Uploads and requests                                                    *)

\* Replacing a file by a whole one leaves every file whole.
LEMMA WholeStays ==
    ASSUME NEW F \in [Names -> File], Whole(F), NEW f, NEW file, file.stored = file.of
    PROVE  Whole([F EXCEPT ![f] = file])
BY DEF Whole

\* A request is answered: TakeBody's state before the slot is given back.
Answered(s, c) == Drop([s EXCEPT !.conns[c].st = "hdr"], c)

\* A part of the body is taken: TakeBody's t.
Taken(s, c, n) == [WriteChunks(s, n) EXCEPT !.conns[c].body = @ + n]

\* An answered request gives its slot back and touches nothing else.
LEMMA DropAnswered ==
    ASSUME NEW s \in State, NEW c \in Clients
    PROVE  LET t == Answered(s, c)
           IN  /\ t \in State /\ t.conns = [s.conns EXCEPT ![c] = NoConn]
               /\ t.files = s.files /\ t.write = s.write
               /\ t.reads = s.reads /\ t.wrong = s.wrong
<1> DEFINE q == [s.conns[c] EXCEPT !.st = "hdr"]
           u == WithConn(s, c, q)
<1>1. s.conns \in [Clients -> Conn] /\ s.conns[c] \in Conn
  BY DEF State
<1>2. q \in Conn /\ q.st = "hdr"
  BY <1>1 DEF Conn
<1>3. u = [s EXCEPT !.conns[c].st = "hdr"]
  BY Zenon DEF WithConn
<1> HIDE DEF q
<1>4. /\ u \in State /\ u.conns = [s.conns EXCEPT ![c] = q] /\ u.conns[c] = q
      /\ u.files = s.files /\ u.write = s.write /\ u.reads = s.reads /\ u.wrong = s.wrong
  BY <1>2, SetConn
<1> HIDE DEF u
<1>5. Drop(u, c) = Reset(u, c)
  BY <1>2, <1>4 DEF Drop, Cleanup
<1>6. [u.conns EXCEPT ![c] = NoConn] = [s.conns EXCEPT ![c] = NoConn]
  BY <1>1, <1>4
<1>7. Answered(s, c) = Reset(u, c)
  BY <1>3, <1>5, Zenon DEF Answered
<1> QED BY <1>4, <1>6, <1>7, ResetWrites

\* One more part of an upload is written.
LEMMA BodyWritten ==
    ASSUME NEW m, NEW s, Good(s, m), NEW c \in Clients, s.conns[c].st = "put",
           NEW n \in Nat, n <= s.conns[c].size - s.conns[c].body
    PROVE  LET t == Taken(s, c, n)
           IN  /\ Good(t, m) /\ Uploads(t) = Uploads(s)
               /\ t.conns = [s.conns EXCEPT ![c] = t.conns[c]]
               /\ t.conns[c].name = s.conns[c].name /\ t.conns[c].size = s.conns[c].size
               /\ t.conns[c].body = s.conns[c].body + n
               /\ t.conns[c].st = "put" /\ t.reads = s.reads /\ t.files = s.files
<1> DEFINE q == s.conns[c]
           w == s.write
           w2 == [w EXCEPT !.stored = w.stored + n]
           u == [s EXCEPT !.write = w2]
           q2 == [q EXCEPT !.body = q.body + n]
           t == WithConn(u, c, q2)
<1>1. /\ s \in State /\ s.wrong = {} /\ q \in Conn /\ w \in WriteHandle
      /\ s.conns \in [Clients -> Conn] /\ s.reads \in [1..Reads -> ReadHandle]
  BY DEF Good, State
<1>2. /\ c \in Uploads(s) /\ Uploads(s) = {c} /\ w.open /\ m \notin {"write", "end"}
      /\ w.name = q.name /\ w.stored = q.body /\ w.of = q.size /\ q.body <= q.size
  BY DEF Good, Writing, Uploads
<1>3. q.body \in Nat /\ q.size \in Nat /\ q.body + n <= q.size /\ q.body + n \in 0..MaxSize
  <2>1. q.body \in 0..MaxSize /\ q.size \in 0..MaxSize
    BY <1>1 DEF Conn
  <2> QED BY <2>1, FilesAssumption
<1>4. /\ w2 \in WriteHandle /\ w2.open /\ w2.name = w.name /\ w2.of = w.of
      /\ w2.stored = q.body + n
  <2>1. w.stored + n \in 0..MaxSize
    BY <1>2, <1>3
  <2> QED BY <1>1, <1>2, <2>1 DEF WriteHandle
<1>5. /\ q2 \in Conn /\ q2.st = "put" /\ q2.name = q.name /\ q2.size = q.size
      /\ q2.body = q.body + n
  BY <1>1, <1>3 DEF Conn
<1>6. u = WriteChunks(s, n)
  BY Zenon DEF WriteChunks
<1> HIDE DEF w2
<1>7. /\ u \in State /\ u.conns = s.conns /\ u.files = s.files /\ u.write = w2
      /\ u.reads = s.reads /\ u.wrong = {}
  BY <1>1, <1>4 DEF State
<1>8. t = Taken(s, c, n)
  <2>1. q2 = [u.conns[c] EXCEPT !.body = u.conns[c].body + n]
    BY <1>7
  <2> HIDE DEF u, q2
  <2> QED BY <1>6, <2>1, Zenon DEF WithConn, Taken
<1> HIDE DEF u, q2
<1>9. /\ t \in State /\ t.conns = [s.conns EXCEPT ![c] = q2] /\ t.conns[c] = q2
      /\ t.files = s.files /\ t.write = w2 /\ t.reads = s.reads /\ t.wrong = {}
  BY <1>5, <1>7, SetConn
<1> HIDE DEF t
<1>10. \A d \in Clients : t.conns[d] = IF d = c THEN q2 ELSE s.conns[d]
  BY <1>1, <1>9
<1>11. Uploads(t) = {c}
  BY <1>2, <1>5, <1>10 DEF Uploads
<1>12. Writing(t, m)
  BY <1>2, <1>3, <1>4, <1>5, <1>9, <1>11 DEF Writing
<1>13. Reading(t)
  BY <1>1, <1>5, <1>9, <1>10 DEF Good, Reading
<1>14. Good(t, m)
  BY <1>9, <1>12, <1>13 DEF Good
<1> QED BY <1>2, <1>5, <1>8, <1>9, <1>11, <1>14

\* An upload goes on, is closed, or fails and is deleted.
LEMMA TakeBodyKeeps ==
    ASSUME NEW m, NEW s, Good(s, m), NEW c \in Clients, s.conns[c].st = "put",
           NEW n \in Nat, n <= s.conns[c].size - s.conns[c].body, NEW err \in BOOLEAN
    PROVE  Good(TakeBody(s, c, n, err), m)
<1> DEFINE q == s.conns[c]
           t == Taken(s, c, n)
           w == t.write
           fw == [w EXCEPT !.dead = TRUE]
           u == WriteFails(t)
           v == AbortWrite(u)
           x == Delete(v, q.name)
           F == Answered(x, c)
           y == CloseWrite(t)
           C == Answered(y, c)
<1>1. /\ Good(t, m) /\ Uploads(t) = Uploads(s)
      /\ t.conns = [s.conns EXCEPT ![c] = t.conns[c]]
      /\ t.conns[c].name = q.name /\ t.conns[c].size = q.size
      /\ t.conns[c].body = q.body + n
      /\ t.conns[c].st = "put" /\ t.reads = s.reads /\ t.files = s.files
  BY BodyWritten
<1>2. TakeBody(s, c, n, err) = IF err THEN F ELSE IF q.body + n < q.size THEN t ELSE C
  BY Zenon DEF TakeBody, Taken, Answered
<1> HIDE DEF t
<1>3. /\ t \in State /\ t.wrong = {} /\ w \in WriteHandle /\ t.files \in [Names -> File]
      /\ Whole(t.files) /\ c \in Uploads(t)
  BY <1>1 DEF Good, State, Uploads
<1>4. w.open /\ w.stored = q.body + n /\ w.of = q.size
  BY <1>1, <1>3 DEF Good, Writing
<1>5. q.body \in Nat /\ q.size \in Nat
  <2>1. q \in Conn
    BY DEF Good, State
  <2> QED BY <2>1, FilesAssumption DEF Conn
<1>6. ASSUME NEW e \in State, e.conns = t.conns, e.wrong = {}, SameReads(e.reads, t.reads),
             ~e.write.open, Whole(e.files)
      PROVE  Good(Answered(e, c), m)
  <2> DEFINE z == Answered(e, c)
  <2>1. /\ z \in State /\ z.conns = [t.conns EXCEPT ![c] = NoConn]
        /\ z.files = e.files /\ z.write = e.write /\ z.reads = e.reads /\ z.wrong = {}
    BY <1>6, DropAnswered
  <2> HIDE DEF z
  <2>2. SameReads(z.reads, t.reads) /\ ~z.write.open /\ Whole(z.files)
    BY <1>6, <2>1
  <2>3. Good(t, m) /\ c \in Uploads(t)
    BY <1>1, <1>3
  <2>4. z \in State /\ z.conns = [t.conns EXCEPT ![c] = NoConn] /\ z.wrong = {}
    BY <2>1
  <2>5. Good(z, m)
    BY <2>2, <2>3, <2>4, UploadEnds
  <2> QED BY <2>5 DEF z
<1>7. CASE err
  <2>1. fw \in WriteHandle /\ fw.open /\ fw.dead
    BY <1>3, <1>4 DEF WriteHandle
  <2>2. u = [t EXCEPT !.write = fw]
    BY Zenon DEF WriteFails
  <2> HIDE DEF fw
  <2>3. /\ u \in State /\ u.conns = t.conns /\ u.files = t.files /\ u.write = fw
        /\ u.reads = t.reads /\ u.wrong = {}
    BY <1>3, <2>1, <2>2 DEF State
  <2> HIDE DEF u
  <2>4. v = CloseWrite(u)
    BY <2>1, <2>3 DEF AbortWrite
  <2>5. /\ v \in State /\ v.conns = t.conns /\ v.write = NoWrite /\ v.wrong = {}
        /\ SameReads(v.reads, t.reads) /\ v.files = t.files
    BY <2>1, <2>3, <2>4, CloseWriteWrites
  <2> HIDE DEF v
  <2>6. ~v.write.open
    BY <2>5 DEF NoWrite
  <2>7. /\ x \in State /\ x.conns = t.conns /\ x.wrong = {} /\ SameReads(x.reads, v.reads)
        /\ x.write = v.write
        /\ x.files = IF Exists(v, q.name) THEN [v.files EXCEPT ![q.name] = Absent] ELSE v.files
    BY <2>5, <2>6, DeleteWrites
  <2> HIDE DEF x
  <2>8. Whole(x.files)
    <3>1. Absent.stored = Absent.of
      BY DEF Absent
    <3>2. Whole([v.files EXCEPT ![q.name] = Absent])
      BY <1>3, <2>5, <3>1, WholeStays
    <3> QED BY <1>3, <2>5, <2>7, <3>2
  <2>9. SameReads(x.reads, t.reads)
    BY <2>5, <2>7 DEF SameReads
  <2>10. Good(F, m)
    BY <1>6, <2>6, <2>7, <2>8, <2>9
  <2> QED BY <1>2, <1>7, <2>10
<1>8. CASE ~err /\ q.body + n < q.size
  BY <1>1, <1>2, <1>8
<1>9. CASE ~err /\ ~(q.body + n < q.size)
  <2>1. w.stored = w.of
    BY <1>4, <1>5, <1>9
  <2> DEFINE file == [stored |-> w.stored, of |-> w.of, there |-> TRUE]
  <2>2. /\ y \in State /\ y.conns = t.conns /\ y.write = NoWrite /\ y.wrong = {}
        /\ SameReads(y.reads, t.reads)
        /\ y.files = IF w.dead THEN t.files ELSE [t.files EXCEPT ![w.name] = file]
    BY <1>3, CloseWriteWrites
  <2> HIDE DEF y
  <2>3. Whole(y.files)
    <3>1. file.stored = file.of
      BY <2>1
    <3> HIDE DEF file
    <3>2. Whole([t.files EXCEPT ![w.name] = file])
      BY <1>3, <3>1, WholeStays
    <3> QED BY <1>3, <2>2, <3>2
  <2>4. ~y.write.open
    BY <2>2 DEF NoWrite
  <2>5. Good(C, m)
    BY <1>6, <2>2, <2>3, <2>4
  <2> QED BY <1>2, <1>9, <2>5
<1> QED BY <1>7, <1>8, <1>9

\* fs_begin_write opens the write handle, and keeps or creates the file.
LEMMA BeginWriteWrites ==
    ASSUME NEW s \in State, NEW f \in Names, NEW of \in 0..MaxSize, Whole(s.files)
    PROVE  LET t == BeginWrite(s, f, of)
           IN  /\ t \in State /\ t.conns = s.conns /\ t.reads = s.reads
               /\ t.wrong = s.wrong /\ Whole(t.files)
               /\ t.write.open /\ t.write.name = f /\ t.write.of = of
               /\ t.write.stored = 0
<1> DEFINE w == [open |-> TRUE, name |-> f, of |-> of, stored |-> 0, dead |-> FALSE]
           x == IF Exists(s, f) THEN s.files[f] ELSE Created
           F == [s.files EXCEPT ![f] = x]
           t == BeginWrite(s, f, of)
<1>1. s.files \in [Names -> File]
  BY DEF State
<1>2. w \in WriteHandle /\ w.open /\ w.name = f /\ w.of = of /\ w.stored = 0
  <2>1. 0 \in 0..MaxSize
    BY FilesAssumption
  <2> QED BY <2>1 DEF WriteHandle
<1>3. x \in File /\ x.stored = x.of
  BY <1>1, AbsentFile DEF Whole, Created
<1>4. t = [s EXCEPT !.write = w, !.files = F]
  BY Zenon DEF BeginWrite
<1> HIDE DEF w, x
<1>5. F \in [Names -> File] /\ Whole(F)
  BY <1>1, <1>3, WholeStays
<1> HIDE DEF F
<1>6. /\ t \in State /\ t.conns = s.conns /\ t.reads = s.reads /\ t.wrong = s.wrong
      /\ t.files = F /\ t.write = w
  BY <1>2, <1>4, <1>5 DEF State
<1> HIDE DEF t
<1>7. t.write.open /\ t.write.name = f /\ t.write.of = of /\ t.write.stored = 0
  BY <1>2, <1>6
<1> QED BY <1>5, <1>6, <1>7 DEF t

\* The slot of an upload that begins.
Uploading(f, z) == [NoConn EXCEPT !.st = "put", !.name = f, !.size = z]

\* An upload starts with no byte received.
LEMMA UploadingConn ==
    ASSUME NEW f \in Names, NEW z \in 0..MaxSize
    PROVE  LET q == Uploading(f, z)
           IN  q \in Conn /\ q.st = "put" /\ q.name = f /\ q.size = z /\ q.body = 0
<1>1. NoConn \in Conn /\ NoConn.body = 0
  BY FreeConn DEF NoConn
<1> QED BY <1>1 DEF Conn, Uploading

\* An upload takes the write handle only when no one has it.
LEMMA BeginPutKeeps ==
    ASSUME NEW m, NEW s, Good(s, m), NEW c \in Clients, s.conns[c].st \notin {"put", "file"},
           NEW f \in Names, NEW size \in Nat
    PROVE  LET t == BeginPut(s, c, f, size)
           IN  /\ Good(t, m)
               /\ t.conns[c].st = "put" => t.conns[c].size = size /\ t.conns[c].body = 0
<1> DEFINE u == BeginWrite(s, f, size)
           q == Uploading(f, size)
           t == WithConn(u, c, q)
<1>1. /\ s \in State /\ s.wrong = {} /\ s.conns \in [Clients -> Conn] /\ Whole(s.files)
  BY DEF Good, State
<1>2. BeginPut(s, c, f, size) = IF size > MaxSize \/ s.write.open THEN Drop(s, c) ELSE t
  BY Zenon DEF BeginPut, Uploading, WithConn
<1>3. CASE size > MaxSize \/ s.write.open
  <2> DEFINE d == Drop(s, c)
  <2>1. Good(d, m) /\ d.conns = [s.conns EXCEPT ![c] = NoConn]
    BY DropKeeps
  <2>2. BeginPut(s, c, f, size) = d
    BY <1>2, <1>3
  <2> HIDE DEF d
  <2>3. d.conns[c].st = "none"
    BY <1>1, <2>1, FreeConn
  <2> QED BY <2>1, <2>2, <2>3
<1>4. CASE ~(size > MaxSize \/ s.write.open)
  <2>1. size \in 0..MaxSize
    BY <1>4, FilesAssumption
  <2>2. Uploads(s) = {} /\ m \notin {"write", "end"}
    BY <1>4 DEF Good, Writing
  <2>3. /\ u \in State /\ u.conns = s.conns /\ u.reads = s.reads
        /\ u.wrong = s.wrong /\ Whole(u.files)
        /\ u.write.open /\ u.write.name = f /\ u.write.of = size /\ u.write.stored = 0
    BY <1>1, <2>1, BeginWriteWrites
  <2> HIDE DEF u
  <2>4. q \in Conn /\ q.st = "put" /\ q.name = f /\ q.size = size /\ q.body = 0
    BY <2>1, UploadingConn
  <2> HIDE DEF q
  <2>5. /\ t \in State /\ t.conns = [u.conns EXCEPT ![c] = q] /\ t.conns[c] = q
        /\ t.files = u.files /\ t.write = u.write /\ t.reads = u.reads /\ t.wrong = u.wrong
    BY <2>3, <2>4, SetConn
  <2> HIDE DEF t
  <2>6. \A d \in Clients : t.conns[d] = IF d = c THEN q ELSE s.conns[d]
    BY <1>1, <2>3, <2>5
  <2>7. Uploads(t) = {c}
    BY <2>2, <2>4, <2>6 DEF Uploads
  <2>8. Writing(t, m)
    BY <2>2, <2>3, <2>4, <2>5, <2>7 DEF Writing
  <2>9. Reading(t)
    <3>1. t.reads = s.reads
      BY <2>3, <2>5
    <3> QED BY <2>4, <2>6, <3>1 DEF Good, Reading
  <2>10. Good(t, m)
    BY <1>1, <2>3, <2>5, <2>8, <2>9 DEF Good
  <2> QED BY <1>2, <1>4, <2>4, <2>5, <2>10
<1> QED BY <1>3, <1>4

\* A file that is deleted, or renamed, was whole and is.
LEMMA DeleteKeeps ==
    ASSUME NEW m, NEW s, Good(s, m), NEW f
    PROVE  Good(Delete(s, f), m)
<1> DEFINE t == Delete(s, f)
<1>1. s \in State /\ s.wrong = {} /\ s.files \in [Names -> File] /\ Whole(s.files)
  BY DEF Good, State
<1>2. /\ t \in State /\ t.conns = s.conns /\ t.wrong = s.wrong
      /\ SameReads(t.reads, s.reads) /\ SameWrite(t.write, s.write)
      /\ t.files = IF Exists(s, f) THEN [s.files EXCEPT ![f] = Absent] ELSE s.files
  BY <1>1, DeleteWrites
<1> HIDE DEF t
<1>3. Whole(t.files)
  <2>1. Absent.stored = Absent.of
    BY DEF Absent
  <2>2. Whole([s.files EXCEPT ![f] = Absent])
    BY <1>1, <2>1, WholeStays
  <2> QED BY <1>1, <1>2, <2>2
<1>4. Good(t, m)
  BY <1>1, <1>2, <1>3, SameConns
<1> QED BY <1>4 DEF t

\* fs_rename keeps the invariant: a name takes a whole file.
LEMMA RenameKeeps ==
    ASSUME NEW m, NEW s, Good(s, m), NEW f \in Names, NEW g \in Names
    PROVE  Good(Rename(s, f, g), m)
<1> DEFINE t == Rename(s, f, g)
           F == [s.files EXCEPT ![g] = s.files[f]]
<1>1. s \in State /\ s.wrong = {} /\ s.files \in [Names -> File] /\ Whole(s.files)
  BY DEF Good, State
<1>2. /\ t \in State /\ t.conns = s.conns /\ t.wrong = s.wrong
      /\ SameReads(t.reads, s.reads) /\ SameWrite(t.write, s.write)
      /\ t.files = [F EXCEPT ![f] = Absent]
  BY <1>1, RenameWrites
<1> HIDE DEF t
<1>3. Whole(t.files)
  <2>1. Absent.stored = Absent.of
    BY DEF Absent
  <2>2. F \in [Names -> File] /\ Whole(F)
    <3>1. s.files[f] \in File /\ s.files[f].stored = s.files[f].of
      BY <1>1 DEF Whole
    <3> QED BY <1>1, <3>1, WholeStays
  <2> HIDE DEF F
  <2>3. Whole([F EXCEPT ![f] = Absent])
    BY <2>1, <2>2, WholeStays
  <2> QED BY <1>2, <2>3
<1>4. Good(t, m)
  BY <1>1, <1>2, <1>3, SameConns
<1> QED BY <1>4 DEF t

\* http_poll counts one more retry.
Retried(s, c) == [s EXCEPT !.conns[c].retries = @ + 1]

\* So does one more try of a download that waits for a handle.
LEMMA RetryKeeps ==
    ASSUME NEW m, NEW s, Good(s, m), NEW c \in Clients, ConnHeld(s, c),
           s.conns[c].retries + 1 <= MaxRetries
    PROVE  LET t == Retried(s, c)
           IN  /\ Good(t, m)
               /\ t.conns[c].st = s.conns[c].st /\ t.conns[c].name = s.conns[c].name
<1> DEFINE q == s.conns[c]
           q2 == [q EXCEPT !.retries = q.retries + 1]
           t == WithConn(s, c, q2)
<1>1. s \in State /\ s.wrong = {} /\ q \in Conn /\ s.conns \in [Clients -> Conn]
  BY DEF Good, State
<1>2. q.retries + 1 \in 0..MaxRetries
  <2>1. q.retries \in 0..MaxRetries /\ MaxRetries \in Nat
    BY <1>1, FilesAssumption DEF Conn
  <2> QED BY <2>1
<1>3. /\ q2 \in Conn /\ q2.st = q.st /\ q2.name = q.name /\ q2.size = q.size
      /\ q2.left = q.left /\ q2.chunks = q.chunks /\ q2.handle = q.handle
  BY <1>1, <1>2 DEF Conn
<1>4. t = Retried(s, c)
  BY Zenon DEF Retried, WithConn
<1> HIDE DEF q2
<1>5. /\ t \in State /\ t.conns = [s.conns EXCEPT ![c] = q2] /\ t.conns[c] = q2
      /\ t.files = s.files /\ t.write = s.write /\ t.reads = s.reads /\ t.wrong = s.wrong
  BY <1>1, <1>3, SetConn
<1> HIDE DEF t
<1>6. \A d \in Clients : t.conns[d] = IF d = c THEN q2 ELSE s.conns[d]
  BY <1>1, <1>5
<1>7. Uploads(t) = Uploads(s) /\ \A d \in Uploads(s) : t.conns[d] = s.conns[d]
  BY <1>3, <1>6 DEF Uploads, ConnHeld
<1>8. Writing(t, m)
  BY <1>5, <1>7 DEF Good, Writing
<1>9. Reading(t)
  <2>1. \A d \in Clients : /\ t.conns[d].st = s.conns[d].st /\ t.conns[d].name = s.conns[d].name
                           /\ t.conns[d].size = s.conns[d].size
                           /\ t.conns[d].left = s.conns[d].left
                           /\ t.conns[d].chunks = s.conns[d].chunks
                           /\ t.conns[d].handle = s.conns[d].handle
    BY <1>3, <1>6
  <2> QED BY <1>5, <2>1 DEF Good, Reading
<1>10. Good(t, m)
  BY <1>1, <1>5, <1>8, <1>9 DEF Good
<1> QED BY <1>3, <1>4, <1>5, <1>10

\* A connection given up after its last retry: as if it had not been counted.
LEMMA RetriedDrop ==
    ASSUME NEW s \in State, NEW c \in Clients, ConnHeld(s, c)
    PROVE  Drop(Retried(s, c), c) = Drop(s, c)
<1> DEFINE q == s.conns[c]
           q2 == [q EXCEPT !.retries = q.retries + 1]
           C == [s.conns EXCEPT ![c] = q2]
           t == Retried(s, c)
<1>1. s.conns \in [Clients -> Conn] /\ q \in Conn
  BY DEF State
<1>2. q2.st = q.st /\ q2.handle = q.handle
  BY <1>1 DEF Conn
<1>3. t = [s EXCEPT !.conns = C]
  BY Zenon DEF Retried
<1> HIDE DEF q2
<1>4. C[c] = q2 /\ [C EXCEPT ![c] = NoConn] = [s.conns EXCEPT ![c] = NoConn]
  BY <1>1
<1> HIDE DEF C
<1>5. t.conns = C /\ t.reads = s.reads
  BY <1>3 DEF State
<1>6. \A r : Reset(EndRead(t, r), c) = Reset(EndRead(s, r), c)
  <2> SUFFICES ASSUME NEW r PROVE Reset(EndRead(t, r), c) = Reset(EndRead(s, r), c)
    OBVIOUS
  <2> DEFINE R == [s.reads EXCEPT ![r] = NoRead]
             D == [s.conns EXCEPT ![c] = NoConn]
             x == EndRead(t, r)
             y == EndRead(s, r)
  <2>1. x = [t EXCEPT !.reads = R] /\ y = [s EXCEPT !.reads = R]
    BY <1>5, Zenon DEF EndRead
  <2> HIDE DEF R
  <2>2. x.conns = C /\ y.conns = s.conns
    BY <1>3, <2>1 DEF State
  <2>3. Reset(x, c) = [x EXCEPT !.conns = D]
    BY <1>4, <2>2, Zenon DEF Reset
  <2>4. Reset(y, c) = [y EXCEPT !.conns = D]
    BY <2>2, Zenon DEF Reset
  <2> HIDE DEF D
  <2>5. [x EXCEPT !.conns = D] = [y EXCEPT !.conns = D]
    BY <1>3, <2>1 DEF State
  <2> QED BY <2>3, <2>4, <2>5
<1>7. Reset(t, c) = Reset(s, c)
  <2> DEFINE D == [s.conns EXCEPT ![c] = NoConn]
  <2>1. Reset(t, c) = [t EXCEPT !.conns = D]
    BY <1>4, <1>5, Zenon DEF Reset
  <2>2. Reset(s, c) = [s EXCEPT !.conns = D]
    BY Zenon DEF Reset
  <2> HIDE DEF D
  <2>3. [t EXCEPT !.conns = D] = [s EXCEPT !.conns = D]
    BY <1>3 DEF State
  <2> QED BY <2>1, <2>2, <2>3
<1> HIDE DEF t
<1>8. q.st # "put" /\ t.conns[c].st = q.st /\ t.conns[c].handle = q.handle
  BY <1>2, <1>4, <1>5 DEF ConnHeld
<1>9. CASE q.st = "file"
  <2>1. Drop(t, c) = Reset(EndRead(t, q.handle), c)
    BY <1>8, <1>9, Zenon DEF Drop, Cleanup
  <2>2. Drop(s, c) = Reset(EndRead(s, q.handle), c)
    BY <1>8, <1>9, Zenon DEF Drop, Cleanup
  <2> QED BY <1>6, <2>1, <2>2 DEF t
<1>10. CASE q.st # "file"
  <2>1. Drop(t, c) = Reset(t, c) /\ Drop(s, c) = Reset(s, c)
    BY <1>8, <1>10, Zenon DEF Drop, Cleanup
  <2> QED BY <1>7, <2>1 DEF t
<1> QED BY <1>9, <1>10

-----------------------------------------------------------------------------
(* The invariant                                                           *)

\* Nobody is connected, no handle is open, no file is there.
LEMMA FilesInvInit == Init => FilesInv
<1> SUFFICES ASSUME Init PROVE FilesInv
  OBVIOUS
<1>1. NoConn \in Conn /\ NoConn.st = "none"
  BY FreeConn
<1>2. NoWrite \in WriteHandle /\ ~NoWrite.open
  BY FilesAssumption DEF NoWrite, WriteHandle
<1>3. NoRead \in ReadHandle /\ ~NoRead.open
  BY FilesAssumption DEF NoRead, ReadHandle
<1>4. Absent \in File /\ Absent.stored = Absent.of
  BY AbsentFile DEF Absent
<1>5. /\ h.conns = [c \in Clients |-> NoConn] /\ h.files = [f \in Names |-> Absent]
      /\ h.write = NoWrite /\ h.reads = [r \in 1..Reads |-> NoRead] /\ h.wrong = {}
      /\ h \in State /\ mpc = "idle"
  BY <1>1, <1>2, <1>3, <1>4 DEF Init, State
<1>6. Uploads(h) = {}
  BY <1>1, <1>5 DEF Uploads
<1>7. Writing(h, mpc)
  BY <1>2, <1>5, <1>6 DEF Writing
<1>8. Reading(h)
  BY <1>1, <1>3, <1>5 DEF Reading
<1>9. Whole(h.files)
  BY <1>4, <1>5 DEF Whole
<1>10. dirty \in BOOLEAN /\ kick \in [on : BOOLEAN, tried : SUBSET Clients]
  BY DEF Init, NotKicking
<1> QED BY <1>5, <1>7, <1>8, <1>9, <1>10 DEF FilesInv, Good

\* The two ways in which a callback leaves the state behind.
LEMMA PlainStep ==
    ASSUME FilesInv, NEW s, Plain(s), mpc' = mpc, Good(s, mpc)
    PROVE  FilesInv'
BY DEF FilesInv, Plain

\* A step that takes one of its good outcomes keeps the invariant.
LEMMA OutcomeStep ==
    ASSUME FilesInv, NEW results, Outcome(results), mpc' = mpc,
           \A o \in results : Good(o[1], mpc) /\ o[2] \in BOOLEAN
    PROVE  FilesInv'
<1>1. PICK o \in results : h' = o[1] /\ kick' = IF o[2] THEN Kicking({}) ELSE NotKicking
  BY DEF Outcome
<1>2. Kicking({}) \in [on : BOOLEAN, tried : SUBSET Clients]
      /\ NotKicking \in [on : BOOLEAN, tried : SUBSET Clients]
  BY DEF Kicking, NotKicking
<1>3. dirty' = dirty /\ Good(h', mpc')
  BY <1>1 DEF Outcome
<1>4. kick' \in [on : BOOLEAN, tried : SUBSET Clients]
  BY <1>1, <1>2
<1> QED BY <1>3, <1>4 DEF FilesInv

\* http_kick_pending
LEMMA KickInv ==
    ASSUME FilesInv, KickStep
    PROVE  FilesInv'
<1> DEFINE parked == {c \in Clients : h.conns[c].st = "pending"} \ kick.tried
           K == [on : BOOLEAN, tried : SUBSET Clients]
<1>1. mpc' = mpc /\ dirty' = dirty /\ Good(h, mpc) /\ kick \in K
  BY DEF KickStep, FilesInv
<1>2. CASE parked = {}
  <2>1. h' = h /\ kick' = NotKicking
    BY <1>2 DEF KickStep
  <2>2. NotKicking \in K
    BY DEF NotKicking
  <2> QED BY <1>1, <2>1, <2>2 DEF FilesInv
<1>3. CASE parked # {}
  <2>1. PICK c \in parked : \E o \in StartFile(h, c, h.conns[c].name) :
           /\ h' = o[1]
           /\ kick' = IF o[2] THEN Kicking({})
                      ELSE IF h'.conns[c].st = "pending" THEN Kicking(kick.tried \union {c})
                      ELSE NotKicking
    BY <1>3, Zenon DEF KickStep
  <2>2. PICK o \in StartFile(h, c, h.conns[c].name) :
           /\ h' = o[1]
           /\ kick' = IF o[2] THEN Kicking({})
                      ELSE IF h'.conns[c].st = "pending" THEN Kicking(kick.tried \union {c})
                      ELSE NotKicking
    BY <2>1
  <2>3. c \in Clients /\ h.conns[c].st = "pending"
    BY <2>1
  <2>4. h.conns[c].name \in Names
    BY <1>1, <2>3 DEF Good, Reading
  <2>5. Good(o[1], mpc)
    BY <1>1, <2>3, <2>4, StartFileKeeps
  <2>6. Kicking({}) \in K /\ NotKicking \in K /\ Kicking(kick.tried \union {c}) \in K
    BY <1>1, <2>3 DEF Kicking, NotKicking
  <2>7. kick' \in K
    BY <2>2, <2>6, Zenon
  <2> QED BY <1>1, <2>2, <2>5, <2>7 DEF FilesInv
<1> QED BY <1>2, <1>3

\* Requests without a body.
LEMMA RequestInv ==
    ASSUME FilesInv, NEW c \in Clients,
           \/ RecvPartial(c) \/ HeaderTooLarge(c) \/ RecvSave(c) \/ Gone(c)
           \/ \E f \in Names : RecvGet(c, f) \/ RecvDelete(c, f)
           \/ \E f, g \in Names : RecvRename(c, f, g)
    PROVE  FilesInv'
<1>1. Good(h, mpc) /\ Good(Drop(h, c), mpc)
  BY DropKeeps DEF FilesInv
<1>2. CASE RecvPartial(c)
  <2> DEFINE q == [h.conns[c] EXCEPT !.st = "hdr"]
             t == WithConn(h, c, q)
  <2>1. h \in State /\ h.wrong = {} /\ h.conns[c] \in Conn
    BY <1>1 DEF Good, State
  <2>2. q \in Conn /\ q.st = "hdr"
    BY <2>1 DEF Conn
  <2>3. t = [h EXCEPT !.conns[c].st = "hdr"]
    BY Zenon DEF WithConn
  <2>4. Plain(t) /\ mpc' = mpc /\ h.conns[c].st = "none"
    BY <1>2, <2>3 DEF RecvPartial, Callback
  <2> HIDE DEF q
  <2>5. /\ t \in State /\ t.conns = [h.conns EXCEPT ![c] = q]
        /\ t.files = h.files /\ t.write = h.write /\ t.reads = h.reads /\ t.wrong = {}
    BY <2>1, <2>2, SetConn
  <2> HIDE DEF t
  <2>6. SameReads(t.reads, h.reads) /\ SameWrite(t.write, h.write) /\ Whole(t.files)
    BY <1>1, <2>5 DEF SameReads, SameWrite, Good
  <2>7. Good(t, mpc)
    BY <1>1, <2>2, <2>4, <2>5, <2>6, PlainConn
  <2> QED BY <2>4, <2>7, PlainStep
<1>3. CASE HeaderTooLarge(c)
  BY <1>1, <1>3, PlainStep DEF HeaderTooLarge, Callback
<1>4. CASE Gone(c)
  BY <1>1, <1>4, PlainStep DEF Gone, Callback
<1>5. CASE RecvSave(c)
  BY <1>1, <1>5 DEF RecvSave, Header, Callback, FilesInv
<1>6. ASSUME NEW f \in Names, RecvGet(c, f)
      PROVE  FilesInv'
  <2>1. mpc' = mpc /\ h.conns[c].st \notin {"put", "file"}
    BY <1>6 DEF RecvGet, Header, Callback
  <2>2. CASE Exists(h, f)
    <3>1. Outcome(StartFile(h, c, f))
      BY <1>6, <2>2 DEF RecvGet
    <3>2. \A o \in StartFile(h, c, f) : Good(o[1], mpc) /\ o[2] \in BOOLEAN
      BY <1>1, <2>1, StartFileKeeps
    <3> QED BY <2>1, <3>1, <3>2, OutcomeStep
  <2>3. CASE ~Exists(h, f)
    <3>1. Plain(Drop(h, c))
      BY <1>6, <2>3 DEF RecvGet
    <3> QED BY <1>1, <2>1, <3>1, PlainStep
  <2> QED BY <2>2, <2>3
<1>7. ASSUME NEW f \in Names, RecvDelete(c, f)
      PROVE  FilesInv'
  <2>1. mpc' = mpc /\ Plain(Drop(Delete(h, f), c))
    BY <1>7 DEF RecvDelete, Header, Callback
  <2>2. Good(Delete(h, f), mpc)
    BY <1>1, DeleteKeeps
  <2>3. Good(Drop(Delete(h, f), c), mpc)
    BY <2>2, DropKeeps
  <2> QED BY <2>1, <2>3, PlainStep
<1>8. ASSUME NEW f \in Names, NEW g \in Names, RecvRename(c, f, g)
      PROVE  FilesInv'
  <2> DEFINE s == IF Exists(h, f) /\ ~Exists(h, g) /\ f # g THEN Rename(h, f, g) ELSE h
  <2>1. mpc' = mpc /\ Plain(Drop(s, c))
    BY <1>8 DEF RecvRename, Header, Callback
  <2>2. Good(s, mpc)
    BY <1>1, RenameKeeps
  <2> HIDE DEF s
  <2>3. Good(Drop(s, c), mpc)
    BY <2>2, DropKeeps
  <2> QED BY <2>1, <2>3, PlainStep
<1> QED BY <1>2, <1>3, <1>4, <1>5, <1>6, <1>7, <1>8

\* Uploads.
LEMMA UploadInv ==
    ASSUME FilesInv, NEW c \in Clients, NEW n \in 0..MaxSize, NEW err \in BOOLEAN,
           \/ \E f \in Names, size \in 0..(MaxSize + 1) : RecvPut(c, f, size, n, err)
           \/ RecvBody(c, n, err)
    PROVE  FilesInv'
<1>1. Good(h, mpc) /\ h.conns[c] \in Conn /\ n \in Nat /\ MaxSize \in Nat
  BY FilesAssumption DEF FilesInv, Good, State
<1>2. ASSUME NEW f \in Names, NEW size \in 0..(MaxSize + 1), RecvPut(c, f, size, n, err)
      PROVE  FilesInv'
  <2> DEFINE s == BeginPut(h, c, f, size)
             t == IF s.conns[c].st = "put" THEN TakeBody(s, c, n, err) ELSE s
  <2>1. /\ mpc' = mpc /\ n <= size /\ size \in Nat /\ Plain(t)
        /\ h.conns[c].st \notin {"put", "file"}
    BY <1>1, <1>2 DEF RecvPut, Header, Callback
  <2>2. /\ Good(s, mpc)
        /\ s.conns[c].st = "put" => s.conns[c].size = size /\ s.conns[c].body = 0
    BY <1>1, <2>1, BeginPutKeeps
  <2> HIDE DEF s
  <2>3. s.conns[c].st = "put" => Good(TakeBody(s, c, n, err), mpc)
    <3> SUFFICES ASSUME s.conns[c].st = "put" PROVE Good(TakeBody(s, c, n, err), mpc)
      OBVIOUS
    <3>1. n <= s.conns[c].size - s.conns[c].body
      BY <1>1, <2>1, <2>2
    <3> QED BY <1>1, <2>2, <3>1, TakeBodyKeeps
  <2>4. Good(t, mpc)
    BY <2>2, <2>3
  <2> HIDE DEF t
  <2> QED BY <2>1, <2>4, PlainStep
<1>3. CASE RecvBody(c, n, err)
  <2>1. mpc' = mpc /\ h.conns[c].st = "put" /\ Plain(TakeBody(h, c, n, err))
        /\ n \in 1..(h.conns[c].size - h.conns[c].body)
    BY <1>3 DEF RecvBody, Callback
  <2>2. n <= h.conns[c].size - h.conns[c].body
    <3>1. h.conns[c].size \in Nat /\ h.conns[c].body \in Nat
      BY <1>1 DEF Conn
    <3> QED BY <2>1, <3>1
  <2>3. Good(TakeBody(h, c, n, err), mpc)
    BY <1>1, <2>1, <2>2, TakeBodyKeeps
  <2> QED BY <2>1, <2>3, PlainStep
<1> QED BY <1>2, <1>3

\* A download goes on: http_sent and http_poll.
LEMMA DownloadInv ==
    ASSUME FilesInv, NEW c \in Clients, Sent(c) \/ Poll(c)
    PROVE  FilesInv'
<1> DEFINE Ends(s) == {<<t, FALSE>> : t \in TryClose(s, c)}
<1>1. Good(h, mpc) /\ mpc' = mpc /\ h \in State
  BY DEF FilesInv, Good, Sent, Poll, Callback
<1>2. ASSUME NEW s, Good(s, mpc), s.conns[c].st = "closing"
      PROVE  \A o \in Ends(s) : Good(o[1], mpc) /\ o[2] \in BOOLEAN
  <2> SUFFICES ASSUME NEW o \in Ends(s) PROVE Good(o[1], mpc) /\ o[2] \in BOOLEAN
    OBVIOUS
  <2>1. PICK t \in TryClose(s, c) : o = <<t, FALSE>>
    OBVIOUS
  <2>2. Good(t, mpc)
    BY <1>2, TryCloseKeeps
  <2> QED BY <2>1, <2>2
<1>3. ASSUME NEW s, Good(s, mpc), s.conns[c].st = "file"
      PROVE  \A o \in SendFile(s, c) : Good(o[1], mpc) /\ o[2] \in BOOLEAN
  BY <1>3, SendFileKeeps
<1>4. CASE Sent(c)
  <2>1. CASE h.conns[c].st = "closing"
    <3>1. Outcome(Ends(h))
      BY <1>4, <2>1 DEF Sent
    <3> HIDE DEF Ends
    <3> QED BY <1>1, <1>2, <2>1, <3>1, OutcomeStep
  <2>2. CASE h.conns[c].st = "file"
    <3>1. Outcome(SendFile(h, c))
      BY <1>4, <2>2 DEF Sent
    <3> QED BY <1>1, <1>3, <2>2, <3>1, OutcomeStep
  <2> QED BY <1>4, <2>1, <2>2 DEF Sent
<1>5. CASE Poll(c)
  <2> DEFINE s == Retried(h, c)
             q == s.conns[c]
             all == CASE q.st = "pending" -> StartFile(s, c, q.name)
                      [] q.st = "file" -> SendFile(s, c)
                      [] OTHER -> Ends(s)
  <2>1. ConnHeld(h, c) /\ IF q.retries > MaxRetries THEN Plain(Drop(s, c)) ELSE Outcome(all)
    BY <1>5, Zenon DEF Poll, Retried
  <2>2. CASE q.retries > MaxRetries
    <3>1. Plain(Drop(h, c))
      BY <1>1, <2>1, <2>2, RetriedDrop
    <3>2. Good(Drop(h, c), mpc)
      BY <1>1, DropKeeps
    <3> QED BY <1>1, <3>1, <3>2, PlainStep
  <2>3. CASE ~(q.retries > MaxRetries)
    <3>1. h.conns[c].retries + 1 <= MaxRetries
      <4>1. h.conns \in [Clients -> Conn] /\ h.conns[c] \in Conn
        BY <1>1 DEF State
      <4>2. h.conns[c].retries \in Nat /\ MaxRetries \in Nat
        BY <4>1, FilesAssumption DEF Conn
      <4>3. q.retries = h.conns[c].retries + 1
        <5> DEFINE q2 == [h.conns[c] EXCEPT !.retries = h.conns[c].retries + 1]
                   C == [h.conns EXCEPT ![c] = q2]
        <5>1. s = [h EXCEPT !.conns = C]
          BY Zenon DEF Retried
        <5>2. q2.retries = h.conns[c].retries + 1
          BY <4>1 DEF Conn
        <5> HIDE DEF q2
        <5>3. C[c] = q2
          BY <4>1
        <5> HIDE DEF C
        <5>4. s.conns = C
          BY <1>1, <5>1 DEF State
        <5> QED BY <5>2, <5>3, <5>4
      <4> QED BY <2>3, <4>2, <4>3
    <3>2. /\ Good(s, mpc) /\ q.st = h.conns[c].st /\ q.name = h.conns[c].name
      BY <1>1, <2>1, <3>1, RetryKeeps
    <3>3. q.st \in {"file", "closing", "pending"}
      BY <2>1, <3>2 DEF ConnHeld
    <3>4. Outcome(all)
      BY <2>1, <2>3
    <3> HIDE DEF Ends, s
    <3>5. CASE q.st = "pending"
      <4>1. all = StartFile(s, c, q.name)
        BY <3>5, Zenon
      <4>2. q.name \in Names
        BY <3>2, <3>5 DEF Good, Reading
      <4>3. \A o \in StartFile(s, c, q.name) : Good(o[1], mpc) /\ o[2] \in BOOLEAN
        BY <3>2, <3>5, <4>2, StartFileKeeps
      <4> HIDE DEF all
      <4> QED BY <1>1, <3>4, <4>1, <4>3, OutcomeStep
    <3>6. CASE q.st = "file"
      <4>1. all = SendFile(s, c)
        BY <3>6, Zenon
      <4> HIDE DEF all
      <4> QED BY <1>1, <1>3, <3>2, <3>4, <3>6, <4>1, OutcomeStep
    <3>7. CASE q.st = "closing"
      <4>1. all = Ends(s)
        BY <3>7, Zenon
      <4> HIDE DEF all
      <4> QED BY <1>1, <1>2, <3>2, <3>4, <3>7, <4>1, OutcomeStep
    <3> QED BY <3>3, <3>5, <3>6, <3>7
  <2> QED BY <2>2, <2>3
<1> QED BY <1>4, <1>5

\* The main loop's save holds the write handle from its begin to its end.
LEMMA MainInv ==
    ASSUME FilesInv, MainStep
    PROVE  FilesInv'
<1>1. /\ Good(h, mpc) /\ h \in State /\ h.wrong = {} /\ Whole(h.files)
      /\ Known \in Names /\ 1 \in 0..MaxSize
  BY FilesAssumption DEF FilesInv, Good
<1>2. CASE SaveStart
  BY <1>2 DEF SaveStart, Main, MainGoes, FilesInv, Good, Writing
<1>3. CASE SaveBegin
  <2>1. mpc = "begin" /\ kick' = kick /\ dirty' = dirty
    BY <1>3 DEF SaveBegin, Main, MainGoes
  <2>2. CASE h.write.open
    <3>1. h' = h /\ mpc' = "idle"
      BY <1>3, <2>2 DEF SaveBegin, MainGoes
    <3> QED BY <2>1, <3>1 DEF FilesInv, Good, Writing
  <2>3. CASE ~h.write.open
    <3> DEFINE t == BeginWrite(h, Known, 1)
    <3>1. h' = t /\ mpc' = "write"
      BY <1>3, <2>3 DEF SaveBegin, MainGoes
    <3>2. /\ t \in State /\ t.conns = h.conns /\ t.reads = h.reads /\ t.wrong = {}
          /\ Whole(t.files) /\ t.write.open /\ t.write.of = 1 /\ t.write.stored = 0
      BY <1>1, BeginWriteWrites
    <3> HIDE DEF t
    <3>3. Uploads(h) = {} /\ Uploads(t) = Uploads(h)
      BY <1>1, <2>1, <2>3, <3>2 DEF Good, Writing, Uploads
    <3>4. Writing(t, "write")
      BY <3>2, <3>3 DEF Writing
    <3>5. Reading(t)
      BY <1>1, <3>2 DEF Good, Reading
    <3>6. Good(h', mpc')
      BY <3>1, <3>2, <3>4, <3>5 DEF Good
    <3> QED BY <2>1, <3>1, <3>6 DEF FilesInv
  <2> QED BY <2>2, <2>3
<1>4. CASE SaveWrite
  <2> DEFINE w == [h.write EXCEPT !.stored = h.write.stored + 1]
             t == WriteChunks(h, 1)
  <2>1. mpc = "write" /\ kick' = kick /\ dirty' = dirty /\ h' = t /\ mpc' = "end"
    BY <1>4 DEF SaveWrite, Main, MainGoes
  <2>2. h.write.stored = 0 /\ h.write.of = 1 /\ h.write.open /\ Uploads(h) = {}
    BY <1>1, <2>1 DEF Good, Writing
  <2>3. w \in WriteHandle /\ w.stored = 1 /\ w.of = 1 /\ w.open
    BY <1>1, <2>2 DEF State, WriteHandle
  <2>4. t = [h EXCEPT !.write = w]
    BY Zenon DEF WriteChunks
  <2> HIDE DEF w
  <2>5. /\ t \in State /\ t.conns = h.conns /\ t.reads = h.reads /\ t.wrong = {}
        /\ t.files = h.files /\ t.write = w
    BY <1>1, <2>3, <2>4 DEF State
  <2> HIDE DEF t
  <2>6. Writing(t, "end")
    BY <2>2, <2>3, <2>5 DEF Writing, Uploads
  <2>7. Reading(t)
    BY <1>1, <2>5 DEF Good, Reading
  <2>8. Good(h', mpc')
    BY <1>1, <2>1, <2>5, <2>6, <2>7 DEF Good
  <2> QED BY <2>1, <2>8 DEF FilesInv
<1>5. CASE SaveEnd
  <2> DEFINE t == CloseWrite(h)
             w == h.write
             file == [stored |-> w.stored, of |-> w.of, there |-> TRUE]
  <2>1. mpc = "end" /\ kick' = kick /\ dirty' = dirty /\ h' = t /\ mpc' = "idle"
    BY <1>5 DEF SaveEnd, Main, MainGoes
  <2>2. w.stored = w.of /\ Uploads(h) = {}
    BY <1>1, <2>1 DEF Good, Writing
  <2>3. /\ t \in State /\ t.conns = h.conns /\ t.write = NoWrite /\ t.wrong = {}
        /\ SameReads(t.reads, h.reads)
        /\ t.files = IF w.dead THEN h.files ELSE [h.files EXCEPT ![w.name] = file]
    BY <1>1, CloseWriteWrites
  <2> HIDE DEF t
  <2>4. Whole(t.files)
    <3>1. file.stored = file.of /\ h.files \in [Names -> File]
      BY <1>1, <2>2 DEF State
    <3> HIDE DEF file
    <3>2. Whole([h.files EXCEPT ![w.name] = file])
      BY <1>1, <3>1, WholeStays
    <3> QED BY <1>1, <2>3, <3>2
  <2>5. Writing(t, "idle")
    BY <2>2, <2>3 DEF Writing, Uploads, NoWrite
  <2>6. Reading(t)
    <3>1. h.conns \in [Clients -> Conn]
      BY <1>1 DEF State
    <3> QED BY <1>1, <2>3, <3>1 DEF Good, Reading, SameReads
  <2>7. Good(h', mpc')
    BY <2>1, <2>3, <2>4, <2>5, <2>6 DEF Good
  <2> QED BY <2>1, <2>7 DEF FilesInv
<1> QED BY <1>2, <1>3, <1>4, <1>5 DEF MainStep

\* The handles have their owners and files and downloads are whole, always.
THEOREM FilesInvariant == Spec => []FilesInv
<1>1. Init => FilesInv
  BY FilesInvInit
<1>2. FilesInv /\ [Next]_vars => FilesInv'
  <2> SUFFICES ASSUME FilesInv, [Next]_vars PROVE FilesInv'
    OBVIOUS
  <2>1. ASSUME NEW c \in Clients, Peer(c)
        PROVE  FilesInv'
    BY <2>1, RequestInv, UploadInv, Zenon DEF Peer
  <2>2. CASE UNCHANGED vars
    BY <2>2 DEF vars, FilesInv
  <2> QED BY <2>1, <2>2, DownloadInv, KickInv, MainInv DEF Next
<1> QED BY <1>1, <1>2, PTL DEF Spec

\* Every slot, file and handle is of its type.
THEOREM FilesTyped == Spec => []TypeOK
<1>1. FilesInv => TypeOK
  BY DEF FilesInv, Good, State, Conn, File, WriteHandle, ReadHandle, TypeOK
<1> QED BY <1>1, FilesInvariant, PTL

\* A set with no two elements has at most one, one with an element exactly one.
LEMMA AtMostOne ==
    ASSUME NEW S, \A x, y \in S : x = y
    PROVE  /\ Cardinality(S) \in {0, 1}
           /\ S # {} => Cardinality(S) = 1
<1>1. CASE S = {}
  BY <1>1, FS_EmptySet
<1>2. CASE S # {}
  <2>1. PICK x : S = {x}
    BY <1>2
  <2> QED BY <1>2, <2>1, FS_Singleton
<1> QED BY <1>1, <1>2

\* The write handle has one owner, an upload or the main loop's save, and is open
\* exactly while it has one.
THEOREM OneWriter == Spec => []WriterOwned
<1>1. FilesInv => WriterOwned
  <2> SUFFICES ASSUME FilesInv PROVE WriterOwned
    OBVIOUS
  <2> DEFINE U == {c \in Clients : h.conns[c].st = "put"}
  <2>1. Writing(h, mpc) /\ U = Uploads(h)
    BY DEF FilesInv, Good, Uploads
  <2>2. CASE mpc \in {"write", "end"}
    BY <2>1, <2>2 DEF Writing, WriterOwned
  <2>3. CASE mpc \notin {"write", "end"}
    <3>1. /\ h.write.open <=> U # {}
          /\ \A c, d \in U : c = d
          /\ \A c \in U : h.write.name = h.conns[c].name /\ h.write.stored = h.conns[c].body
      BY <2>1, <2>3 DEF Writing
    <3> HIDE DEF U
    <3>2. Cardinality(U) <= 1
      <4>1. \A x, y \in U : x = y
        BY <3>1
      <4>2. Cardinality(U) \in {0, 1}
        BY <4>1, AtMostOne, Zenon
      <4> QED BY <4>2
    <3> QED BY <2>3, <3>1, <3>2, Zenon DEF U, WriterOwned
  <2> QED BY <2>2, <2>3
<1> QED BY <1>1, FilesInvariant, PTL

\* Every download has an open read handle of its own, and no handle is open
\* without one: none is shared, none leaks.
THEOREM OneReader == Spec => []ReadsOwned
<1>1. FilesInv => ReadsOwned
  <2> SUFFICES ASSUME FilesInv PROVE ReadsOwned
    OBVIOUS
  <2>1. Reading(h) /\ DOMAIN h.reads = 1..Reads
    BY DEF FilesInv, Good, State
  <2>2. ASSUME NEW r \in 1..Reads, h.reads[r].open
        PROVE  Cardinality({c \in Clients : h.conns[c].st = "file" /\ h.conns[c].handle = r}) = 1
    <3> DEFINE S == {c \in Clients : h.conns[c].st = "file" /\ h.conns[c].handle = r}
    <3>1. S # {} /\ \A x, y \in S : x = y
      BY <2>1, <2>2 DEF Reading
    <3> HIDE DEF S
    <3>2. Cardinality(S) = 1
      BY <3>1, AtMostOne
    <3> QED BY <3>2 DEF S
  <2>3. \A c \in Clients : h.conns[c].st = "file" => h.reads[h.conns[c].handle].open
    BY <2>1 DEF Reading
  <2> QED BY <2>1, <2>2, <2>3, Zenon DEF ReadsOwned
<1> QED BY <1>1, FilesInvariant, PTL

\* A file is never a part of what was uploaded, whichever way an upload ends.
THEOREM FilesWhole == Spec => []StoredWhole
<1>1. FilesInv => StoredWhole
  BY DEF FilesInv, Good, Whole, StoredWhole
<1> QED BY <1>1, FilesInvariant, PTL

\* A download that ends without an error gave the file's chunks once and in order,
\* through refused writes, retries and parking.
THEOREM DownloadsWhole == Spec => []DownloadWhole
<1>1. FilesInv => DownloadWhole
  BY DEF FilesInv, Good, DownloadWhole
<1> QED BY <1>1, FilesInvariant, PTL
=============================================================================
