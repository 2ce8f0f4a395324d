------------------------------ MODULE LfsTags ------------------------------
(***************************************************************************)
(* The tag log of a littlefs directory, lfs.c.  A directory is a log of    *)
(* tags; a file is known by its id, its place in the sorted directory, and *)
(* creating or deleting a file moves the ids behind it.  The code never    *)
(* replays the log: it looks for a name forwards, reads a file backwards   *)
(* and compacts by filtering each tag against the later ones, and each of  *)
(* the three corrects ids as it goes.  Names are compared as numbers.      *)
(* These operators are pure; LfsDir drives them with the logs littlefs     *)
(* really writes.                                                          *)
(***************************************************************************)
EXTENDS Integers, Sequences

NoId == 1023                    \* 0x3ff, the id of besttag = -1
NoTag == [type |-> "noop", id |-> NoId, val |-> 0]

Tag(type, id, val) == [type |-> type, id |-> id, val |-> val]
IsSplice(tag) == tag.type \in {"create", "delete"}
Splice(tag) == IF tag.type = "create" THEN 1 ELSE -1

\* Mutant: the ids from the one after tag on.
MovedBehind(tag, id) == IF IsSplice(tag) /\ tag.id < id THEN id + Splice(tag) ELSE id

\* The id a file has after tag, when it had id before.
Moved(tag, id) == IF IsSplice(tag) /\ tag.id <= id THEN id + Splice(tag) ELSE id

----------------------------------------------------------------------------
(* lfs_dir_fetchmatch with lfs_dir_find_match: the best match so far is the *)
(* name, or the first greater name (where the name would be inserted).     *)

FindStep(n, s, tag) ==
    LET killed == tag.type = "delete" /\ tag.id = s.id
        best   == IF killed THEN [s EXCEPT !.found = FALSE]
                  ELSE IF s.id = NoId THEN s
                  ELSE [s EXCEPT !.id = Moved(tag, @)]
        count  == IF tag.type = "name" /\ tag.id >= s.count THEN tag.id + 1
                  ELSE IF IsSplice(tag) THEN s.count + Splice(tag)
                  ELSE s.count
    IN  IF tag.type # "name" THEN [best EXCEPT !.count = count]
        ELSE IF tag.val = n THEN [found |-> TRUE, id |-> tag.id, count |-> count]
        ELSE IF tag.id = best.id THEN [found |-> FALSE, id |-> NoId, count |-> count]
        ELSE IF tag.val > n /\ tag.id <= best.id
             THEN [found |-> FALSE, id |-> tag.id, count |-> count]
        ELSE [best EXCEPT !.count = count]

NoMatch == [found |-> FALSE, id |-> NoId, count |-> 0]

Scan(log, n) ==
    LET scan[k \in 0..Len(log)] ==
            IF k = 0 THEN NoMatch ELSE FindStep(n, scan[k - 1], log[k])
    IN  scan[Len(log)]

Find(log, n) ==
    LET s == Scan(log, n)
    IN  [s EXCEPT !.id = IF @ < s.count THEN @ ELSE s.count]

(* lfs_dir_getslice: from the end of the log to its start.  The last tag     *)
(* decides, or the tags before it do (got) for the id the file had by then;  *)
(* the creation of the file ends the search.                                 *)

GetStep(type, got, tag) ==
    [id \in Nat |->
        IF IsSplice(tag) /\ tag.id <= id
        THEN IF tag.type = "create" /\ tag.id = id THEN NoTag ELSE got[id - Splice(tag)]
        ELSE IF tag.type = type /\ tag.id = id THEN tag
        ELSE got[id]]

NothingYet == [id \in Nat |-> NoTag]

Got(log, type) ==
    LET got[k \in 0..Len(log)] ==
            IF k = 0 THEN NothingYet ELSE GetStep(type, got[k - 1], log[k])
    IN  got[Len(log)]

Get(log, type, id) == Got(log, type)[id]

(* lfs_dir_traverse with lfs_dir_traverse_filter: what a compaction writes. *)

FilterStep(f, tag) ==
    IF \/ f = NoTag
       \/ tag.id = f.id /\ tag.type \in {f.type, "delete"}
    THEN NoTag
    ELSE [f EXCEPT !.id = Moved(tag, @)]

\* The tags of a log as a compaction writes them, NoTag for those it leaves out: a
\* tag more is kept itself, and each tag before it meets it in the filter.
KeptStep(kept, tag) ==
    Append([k \in DOMAIN kept |-> FilterStep(kept[k], tag)],
           IF IsSplice(tag) THEN NoTag ELSE tag)

Kept(log) ==
    LET kept[k \in 0..Len(log)] == IF k = 0 THEN << >> ELSE KeptStep(kept[k - 1], log[k])
    IN  kept[Len(log)]

WrittenStep(out, tag) == IF tag = NoTag THEN out ELSE Append(out, tag)

Written(kept) ==
    LET out[k \in 0..Len(kept)] == IF k = 0 THEN << >> ELSE WrittenStep(out[k - 1], kept[k])
    IN  out[Len(kept)]

Compacted(log) == Written(Kept(log))

----------------------------------------------------------------------------
(* What littlefs appends for each change of a directory.                   *)

CreateAttrs(log, n) ==
    LET id == Find(log, n).id
    IN  << Tag("create", id, 0), Tag("name", id, n), Tag("struct", id, 0) >>

RemoveAttrs(log, n) == << Tag("delete", Find(log, n).id, 0) >>

\* Within one directory; LFS_FROM_MOVE copies the struct of the old id.
RenameAttrs(log, n, n2) ==
    LET oldid    == Find(log, n).id
        newid    == Find(log, n2).id
        newoldid == IF newid <= oldid THEN oldid + 1 ELSE oldid
    IN  << Tag("create", newid, 0), Tag("name", newid, n2),
           Tag("struct", newid, Get(log, "struct", oldid).val),
           Tag("delete", newoldid, 0) >>

\* Mutant: a deletion before the file is not counted.
HeldStepKeepsPlace(i, tag) ==
    IF tag.type = "delete" THEN (IF tag.id = i THEN -1 ELSE i) ELSE Moved(tag, i)

\* The id an open file keeps when others change the directory: -1 when its
\* entry is deleted (the code clears the pair of the handle).
HeldStep(i, tag) == IF tag.type = "delete" /\ tag.id = i THEN -1 ELSE Moved(tag, i)

HeldId(id, attrs) ==
    LET held[k \in 0..Len(attrs)] == IF k = 0 THEN id ELSE HeldStep(held[k - 1], attrs[k])
    IN  held[Len(attrs)]

----------------------------------------------------------------------------
(* The reference: the log replayed from its start, as a sequence of files. *)

Replay(dir, tag) ==
    LET at   == tag.id + 1
        file == [name |-> 0, val |-> 0]
        there(i) == IF i <= Len(dir) THEN dir[i] ELSE file
        size == IF at <= Len(dir) THEN Len(dir) ELSE at
    IN  CASE tag.type = "create" ->
                 [i \in 1..(Len(dir) + 1) |-> IF i < at THEN there(i)
                                              ELSE IF i = at THEN file ELSE dir[i - 1]]
          [] tag.type = "delete" ->
                 [i \in 1..(Len(dir) - 1) |-> IF i < at THEN dir[i] ELSE dir[i + 1]]
          [] tag.type = "name" ->
                 [i \in 1..size |-> IF i = at THEN [name |-> tag.val, val |-> there(i).val]
                                    ELSE there(i)]
          [] tag.type = "struct" ->
                 [i \in 1..size |-> IF i = at THEN [name |-> there(i).name, val |-> tag.val]
                                    ELSE there(i)]

Replayed(log) ==
    LET dir[k \in 0..Len(log)] == IF k = 0 THEN << >> ELSE Replay(dir[k - 1], log[k])
    IN  dir[Len(log)]
=============================================================================
