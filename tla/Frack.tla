------------------------------- MODULE Frack --------------------------------
(***************************************************************************)
(* The crash tester frack: its model of a volume and its checker, its      *)
(* workloads, and its runs in do mode and in check mode.                   *)
(***************************************************************************)
EXTENDS Integers, Sequences, SequencesExt, FiniteSets, FiniteSetsExt, Functions

(***************************************************************************)
(* frack (userland/testbin/frack), the crash tester of file systems: do    *)
(* mode runs a workload against the volume (do.c); check mode runs the     *)
(* same workload against a log of changes (ops.c, check.c) and then looks  *)
(* for the version of the log that the volume shows.                       *)
(*                                                                         *)
(* A tree is a record: ent maps <<directory, name>> to the object there,   *)
(* parent gives the directories' parents, len the lengths of the files.    *)
(* The volume has data in place of len: the bytes of each file.  A byte of *)
(* test data is <<code, seq, offset in the write>>.  A change record keeps *)
(* the links the checker follows (prev, to the file's previous record);    *)
(* its links to previous records of directories are read by nothing.       *)
(***************************************************************************)

CONSTANTS BLOCKSIZE, DATA_MAXSIZE

ASSUME FrackAssumption == BLOCKSIZE \in Nat \ {0} /\ DATA_MAXSIZE \in Nat \ {0}

ROOT == 0
ZERO == <<>>
POISON_VAL == <<"poison">>
TRASH == <<"trash">>

Put(f, k, v) == (k :> v) @@ f
Drop(f, k) == <<>> @@ Restrict(f, DOMAIN f \ {k})
AFile(id) == [isdir |-> FALSE, id |-> id]
ADir(id) == [isdir |-> TRUE, id |-> id]
Larger(a, b) == IF a < b THEN b ELSE a

----------------------------------------------------------------------------
(* The current state in check mode.  finddir and findfile search the tree; *)
(* what is not found, and every failed assertion, is the end: dead.        *)
fsobject_create_root == [ent |-> <<>>, parent |-> (ROOT :> ROOT), len |-> <<>>, dead |-> FALSE]
die(s) == [s EXCEPT !.dead = TRUE]

EntriesIn(s, d) == {e \in DOMAIN s.ent : e[1] = d}
finddir(s, d) == d = ROOT \/ ADir(d) \in Range(s.ent)
findfile_maybe(s, f) == AFile(f) \in Range(s.ent)
fsdir_find_entry(s, d, name) == finddir(s, d) /\ <<d, name>> \in DOMAIN s.ent

fsdir_add_entry(s, d, name, obj) ==
    IF ~finddir(s, d) \/ <<d, name>> \in DOMAIN s.ent THEN die(s)
    ELSE [s EXCEPT !.ent = Put(@, <<d, name>>, obj)]

(* Removing needs the entry there, for the object the record names. *)
fsdir_remove_entry(s, d, name, obj) ==
    IF ~fsdir_find_entry(s, d, name) THEN die(s)
    ELSE IF s.ent[<<d, name>>] # obj THEN die(s)
    ELSE [s EXCEPT !.ent = Drop(@, <<d, name>>)]

apply_change(s, c) ==
    CASE c.type = "newfs" -> s
      [] c.type = "truncate" -> IF findfile_maybe(s, c.obj) THEN [s EXCEPT !.len[c.obj] = c.len] ELSE s
      [] c.type = "write" ->
            IF findfile_maybe(s, c.obj) THEN [s EXCEPT !.len[c.obj] = Larger(@, c.pos + c.len)] ELSE s
      [] c.type = "creat" ->
            [fsdir_add_entry(s, c.dir, c.name, AFile(c.obj)) EXCEPT !.len = Put(@, c.obj, 0)]
      [] c.type = "mkdir" ->
            [fsdir_add_entry(s, c.dir, c.name, ADir(c.obj)) EXCEPT !.parent = Put(@, c.obj, c.dir)]
      [] c.type = "rmdir" ->
            IF EntriesIn(s, c.obj) # {} \/ s.parent[c.obj] # c.dir THEN die(s)
            ELSE fsdir_remove_entry(s, c.dir, c.name, ADir(c.obj))
      [] c.type = "unlink" -> fsdir_remove_entry(s, c.dir, c.name, AFile(c.obj))
      [] c.type = "link" ->
            IF ~fsdir_find_entry(s, c.dir, c.name) THEN die(s)
            ELSE IF s.ent[<<c.dir, c.name>>] # AFile(c.obj) THEN die(s)
            ELSE fsdir_add_entry(s, c.todir, c.toname, AFile(c.obj))
      [] c.type = "renamefile" ->
            fsdir_add_entry(fsdir_remove_entry(s, c.dir, c.name, AFile(c.obj)), c.todir, c.toname, AFile(c.obj))
      [] c.type = "renamedir" ->
            IF s.parent[c.obj] # c.dir THEN die(s)
            ELSE [fsdir_add_entry(fsdir_remove_entry(s, c.dir, c.name, ADir(c.obj)),
                                  c.todir, c.toname, ADir(c.obj))
                    EXCEPT !.parent[c.obj] = c.todir]

----------------------------------------------------------------------------
(* Check mode as a state: the log, the tree, the working directory, and    *)
(* the next numbers of files and directories.                              *)
fc_create(type, dir, name, obj) ==
    [type |-> type, dir |-> dir, name |-> name, todir |-> dir, toname |-> name, obj |-> obj,
     pos |-> 0, len |-> 0, oldfilesize |-> 0, code |-> 0, seq |-> 0, prev |-> 0, partial |-> FALSE]

check_setup ==
    [log |-> <<fc_create("newfs", 0, 0, 0)>>, state |-> fsobject_create_root, cwd |-> ROOT,
     nextfilenum |-> 0, nextdirnum |-> 1]

fc_attach(m, c) == [m EXCEPT !.log = Append(@, c), !.state = apply_change(@, c)]
model_die(m) == [m EXCEPT !.state = die(@)]

FileRecords == {"truncate", "write", "creat", "unlink", "link", "renamefile"}
changes_findprevfile(m, f) ==
    Max({0} \cup {i \in 1 .. Len(m.log) : m.log[i].type \in FileRecords /\ m.log[i].obj = f})

model_isfile(m, d, name) == fsdir_find_entry(m.state, d, name) /\ ~m.state.ent[<<d, name>>].isdir
model_isdir(m, d, name) == fsdir_find_entry(m.state, d, name) /\ m.state.ent[<<d, name>>].isdir
model_find(m, d, name) == m.state.ent[<<d, name>>].id
model_getfilesize(m, f) == IF findfile_maybe(m.state, f) THEN m.state.len[f] ELSE 0

(* check_createfile and check_openfile; the new handle is the file's number. *)
check_createfile(m, name) ==
    fc_attach([m EXCEPT !.nextfilenum = @ + 1], fc_create("creat", m.cwd, name, m.nextfilenum))
check_openfile(m, name) == IF model_isfile(m, m.cwd, name) THEN m ELSE model_die(m)

check_write(m, f, code, seq, pos, len) ==
    fc_attach(m, [fc_create("write", 0, 0, f) EXCEPT
                    !.pos = pos, !.len = len, !.oldfilesize = model_getfilesize(m, f),
                    !.code = code, !.seq = seq, !.prev = changes_findprevfile(m, f)])
check_truncate(m, f, len) ==
    fc_attach(m, [fc_create("truncate", 0, 0, f) EXCEPT
                    !.len = len, !.prev = changes_findprevfile(m, f)])
check_mkdir(m, name) ==
    fc_attach([m EXCEPT !.nextdirnum = @ + 1], fc_create("mkdir", m.cwd, name, m.nextdirnum))
check_rmdir(m, name) ==
    IF ~model_isdir(m, m.cwd, name) THEN model_die(m)
    ELSE fc_attach(m, fc_create("rmdir", m.cwd, name, model_find(m, m.cwd, name)))
fc_create_unlink(m, d, name) ==
    LET f == model_find(m, d, name)
    IN  [fc_create("unlink", d, name, f) EXCEPT !.prev = changes_findprevfile(m, f)]
check_unlink(m, name) ==
    IF ~model_isfile(m, m.cwd, name) THEN model_die(m)
    ELSE fc_attach(m, fc_create_unlink(m, m.cwd, name))
check_link(m, from, to) ==
    IF ~model_isfile(m, m.cwd, from) THEN model_die(m)
    ELSE LET f == model_find(m, m.cwd, from)
         IN  fc_attach(m, [fc_create("link", m.cwd, from, f) EXCEPT
                             !.toname = to, !.prev = changes_findprevfile(m, f)])

(* Fault: the record of the target's removal is not posted. *)
common_rename_over(m, d, name, todir, toname) == m

(* A rename over something is logged as two changes, the first of which    *)
(* is marked partial.                                                      *)
rename_victim(m, d, name, todir, toname) ==
    IF model_isfile(m, todir, toname)
    THEN IF ~model_isfile(m, d, name) THEN model_die(m)
         ELSE fc_attach(m, [fc_create_unlink(m, todir, toname) EXCEPT !.partial = TRUE])
    ELSE IF model_isdir(m, todir, toname)
    THEN IF ~model_isdir(m, d, name) THEN model_die(m)
         ELSE fc_attach(m, [fc_create("rmdir", todir, toname, model_find(m, todir, toname))
                              EXCEPT !.partial = TRUE])
    ELSE m

common_rename(m, d, name, todir, toname) ==
    LET n == rename_victim(m, d, name, todir, toname)
        record(type, f) == [fc_create(type, d, name, f) EXCEPT
                              !.todir = todir, !.toname = toname,
                              !.prev = IF type = "renamefile" THEN changes_findprevfile(n, f) ELSE 0]
    IN  IF n.state.dead THEN n
        ELSE IF model_isfile(n, d, name) THEN fc_attach(n, record("renamefile", model_find(n, d, name)))
        ELSE IF model_isdir(n, d, name) THEN fc_attach(n, record("renamedir", model_find(n, d, name)))
        ELSE model_die(n)

check_rename(m, from, to) == common_rename(m, m.cwd, from, m.cwd, to)
check_renamexd(m, fromdir, from, todir, to) ==
    IF ~model_isdir(m, m.cwd, fromdir) \/ ~model_isdir(m, m.cwd, todir) THEN model_die(m)
    ELSE common_rename(m, model_find(m, m.cwd, fromdir), from, model_find(m, m.cwd, todir), to)
check_chdir(m, name) ==
    IF ~model_isdir(m, m.cwd, name) THEN model_die(m) ELSE [m EXCEPT !.cwd = model_find(m, m.cwd, name)]
check_chdirup(m) == [m EXCEPT !.cwd = m.state.parent[@]]

-----------------------------------------------------------------------------
(***************************************************************************)
(* What frack's check mode says of a volume (check.c from inspectfs on,    *)
(* and data.c).  The result is the set of what it prints: "FAILURE" (no    *)
(* version has this tree), "ERROR", "NOMATCH" (no version of a file        *)
(* matches), "MISSING", "WARNING", and "EXIT" when it stops before the end *)
(* (errx, or an assertion of its own).                                     *)
(***************************************************************************)

(* inspectdir: the names, kinds and lengths on the volume. *)
inspectfs(disk) == [ent |-> disk.ent, len |-> [f \in DOMAIN disk.data |-> Len(disk.data[f])]]

NamesIn(s, d) == {e[2] : e \in EntriesIn(s, d)}
SumOver(S, f(_)) == MapThenSumSet(f, S)

RECURSIVE count_subtree(_, _)
count_subtree(s, x) ==
    IF ~x.isdir THEN 1
    ELSE 1 + SumOver(NamesIn(s, x.id), LAMBDA n : count_subtree(s, s.ent[<<x.id, n>>]))

(* One point for each name that is missing, extra or of another kind, and  *)
(* for each file of another length.                                        *)
RECURSIVE compare_objects(_, _, _, _)
compare_objects(s, x, t, y) ==
    IF x.isdir # y.isdir THEN IF x.isdir THEN count_subtree(s, x) ELSE count_subtree(t, y)
    ELSE IF ~x.isdir THEN IF s.len[x.id] # t.len[y.id] THEN 1 ELSE 0
    ELSE LET a == NamesIn(s, x.id)
             b == NamesIn(t, y.id)
             lone(u, d, n) == 1 + (IF u.ent[<<d, n>>].isdir THEN count_subtree(u, u.ent[<<d, n>>]) ELSE 0)
         IN  SumOver(a \cap b, LAMBDA n : compare_objects(s, s.ent[<<x.id, n>>], t, t.ent[<<y.id, n>>]))
             + SumOver(a \ b, LAMBDA n : lone(s, x.id, n))
             + SumOver(b \ a, LAMBDA n : lone(t, y.id, n))

----------------------------------------------------------------------------
(* data_matches: the write [off, off + len) of (code, seq) against the     *)
(* bytes read, from a to b of it, in pieces cut at the blocks and at zero, *)
(* the first offset that may be zeros instead.                             *)
RangePieces(off, zero, a, b) ==
    LET cuts == {a, b} \cup {p \in a .. b : (off + p) % BLOCKSIZE = 0 \/ p = zero}
    IN  {<<p, q>> \in cuts \X cuts : p < q /\ \A r \in cuts : ~(p < r /\ r < q)}

piece_result(bytes, off, code, seq, zero, piece) ==
    LET all(v(_)) == \A p \in piece[1] .. piece[2] - 1 : bytes[off + p + 1] = v(p)
    IN  IF all(LAMBDA p : <<code, seq, p>>) THEN {}
        ELSE IF all(LAMBDA p : ZERO) THEN IF piece[1] >= zero THEN {"WARNING"} ELSE {"differs"}
        ELSE IF all(LAMBDA p : POISON_VAL) THEN IF piece[1] >= zero THEN {"ERROR"} ELSE {"differs"}
        ELSE {"differs"}

data_matches(bytes, off, code, seq, zero, a, b) ==
    UNION {piece_result(bytes, off, code, seq, zero, p) : p \in RangePieces(off, zero, a, b)}

data_check(bytes, off, code, seq, zero, a, b) ==
    {IF r = "differs" THEN "ERROR" ELSE r : r \in data_matches(bytes, off, code, seq, zero, a, b)}

(* Reading from start to end: a read that comes short fails the assertion  *)
(* in readfiledata, one at the end of the file is an unexpected EOF.       *)
readable(bytes, start, end) == start >= end \/ end <= Len(bytes)

checkfilezeros(bytes, start, end) ==
    IF ~readable(bytes, start, end) THEN {"EXIT"}
    ELSE IF \E p \in start + 1 .. end : bytes[p] # ZERO THEN {"ERROR"} ELSE {}

(* The two ends are passed to readfiledata in the wrong order: it reads to *)
(* the end of the region.                                                  *)
checkfiledata(bytes, c, zerostart, start, end) ==
    LET regionend == c.pos + c.len
        checkstart == Larger(start, c.pos)
        checkend == IF end > regionend THEN regionend ELSE end
    IN  IF ~readable(bytes, checkstart, regionend) THEN {"EXIT"}
        ELSE data_check(bytes, c.pos, c.code, c.seq, zerostart - c.pos, checkstart - c.pos, checkend - c.pos)

(* The first offset of a write that may be found zero. *)
write_zerostart(c) ==
    IF c.oldfilesize < c.pos THEN c.pos
    ELSE IF c.oldfilesize < c.pos + c.len THEN c.oldfilesize ELSE c.pos + c.len

(* Fault: what lies beyond a write is not looked at. *)
checkfilerange_short(log, i, bytes, start, end) ==
    LET c == log[i]
    IN  IF c.type = "write" /\ ~(end <= c.pos \/ start >= c.pos + c.len)
        THEN checkfiledata(bytes, c, write_zerostart(c), start, end) ELSE {}

RECURSIVE checkfilerange(_, _, _, _, _)
checkfilerange(log, i, bytes, start, end) ==
    LET c == log[i]
        before(a, b) == checkfilerange(log, c.prev, bytes, a, b)
    IN  IF start >= end THEN {"EXIT"}
        ELSE CASE c.type = "truncate" ->
                    (IF c.len < start THEN checkfilezeros(bytes, start, end)
                     ELSE IF c.len < end THEN before(start, c.len) \cup checkfilezeros(bytes, c.len, end)
                     ELSE before(start, end))
               [] c.type = "write" ->
                    (IF end <= c.pos \/ start >= c.pos + c.len THEN before(start, end)
                     ELSE (IF start < c.pos THEN before(start, c.pos) ELSE {})
                          \cup checkfiledata(bytes, c, write_zerostart(c), start, end)
                          \cup (IF end > c.pos + c.len THEN before(c.pos + c.len, end) ELSE {}))
               [] c.type = "renamefile" -> before(start, end)
               [] c.type = "creat" -> checkfilezeros(bytes, start, end)
               [] OTHER -> {"EXIT"}

----------------------------------------------------------------------------
(* The latest change at or before i of the contents of file f, or 0. *)
backup_for_file(log, i, f) ==
    Max({0} \cup {j \in 1 .. i : log[j].obj = f /\ log[j].type \in {"truncate", "write", "creat"}})
(* The oldest version with the directory structure of i. *)
findokversion(log, i) == Max({j \in 1 .. i : log[j].type \notin {"truncate", "write"}})

(* "differs" when the change is not there. *)
change_is_present(c, bytes) ==
    CASE c.type = "truncate" -> (IF Len(bytes) = c.len THEN {} ELSE {"differs"})
      [] c.type = "write" -> (IF ~readable(bytes, c.pos, c.pos + c.len) THEN {"EXIT"}
                              ELSE data_matches(bytes, c.pos, c.code, c.seq, write_zerostart(c) - c.pos, 0, c.len))
      [] OTHER -> {}

(* Back through the file's changes to one that is present. *)
RECURSIVE checkversions(_, _, _, _, _)
checkversions(log, i, f, okversion, bytes) ==
    LET there == change_is_present(log[i], bytes)
        older == backup_for_file(log, i - 1, f)
    IN  IF "EXIT" \in there THEN there
        ELSE IF "differs" \notin there THEN there \cup checkfilerange(log, i, bytes, 0, Len(bytes))
        ELSE (there \ {"differs"}) \cup (IF i < okversion THEN {"MISSING"} ELSE {})
             \cup (IF older = 0 THEN {"NOMATCH"} ELSE checkversions(log, older, f, okversion, bytes))

checkonefilecontents(log, best, f, bytes) ==
    LET i == backup_for_file(log, best, f)
    IN  IF i = 0 THEN {"EXIT"}
        ELSE IF Len(bytes) = 0
        THEN (IF log[i].type = "creat" THEN {}
              ELSE IF log[i].type = "truncate" THEN IF log[i].len = 0 THEN {} ELSE {"EXIT"}
              ELSE {"ERROR"})
        ELSE IF log[i].type = "creat" THEN {"ERROR"}
        ELSE checkversions(log, i, f, findokversion(log, best), bytes)

RECURSIVE checkallfilecontents(_, _, _, _, _, _)
checkallfilecontents(log, best, s, d, disk, e) ==
    UNION {LET x == s.ent[<<d, n>>] y == disk.ent[<<e, n>>]
           IN  IF x.isdir THEN checkallfilecontents(log, best, s, x.id, disk, y.id)
               ELSE checkonefilecontents(log, best, x.id, disk.data[y.id])
           : n \in NamesIn(s, d)}

(* The states of the versions: rewindstate, then one change after another. *)
Versions(log) ==
    FoldLeft(LAMBDA acc, c : Append(acc, apply_change(Last(acc), c)),
             <<fsobject_create_root>>, Tail(log))

(* Fault: the earliest of the best versions is taken. *)
best_first(scores) == Min({i \in DOMAIN scores : scores[i] = Min(Range(scores))})

(* The last of the versions with the lowest score. *)
best_version(scores) == Max({i \in DOMAIN scores : scores[i] = Min(Range(scores))})

checkfs(log, disk) ==
    LET versions == Versions(log)
        found == inspectfs(disk)
        scores == [i \in DOMAIN log |-> compare_objects(versions[i], ADir(ROOT), found, ADir(ROOT))]
        best == best_version(scores)
    IN  IF scores[best] > 0 THEN {"FAILURE"}
        ELSE (IF log[best].partial THEN {"PARTIAL"} ELSE {})
             \cup checkallfilecontents(log, best, versions[best], ROOT, disk, ROOT)

(* What counts as a complaint about the volume. *)
Complaints == {"FAILURE", "ERROR", "NOMATCH", "EXIT"}

-----------------------------------------------------------------------------
(***************************************************************************)
(* frack's workloads (workloads.c): each is a sequence of operations, with *)
(* random choices where the code calls random().  The numbers of files,    *)
(* blocks and random operations are scaled down by the constants.          *)
(***************************************************************************)

CONSTANTS NUMFILES, NUMLINKS, NUMTHINGS, NUMOPS, Sizeblocks

ASSUME WorkloadsAssumption ==
    /\ NUMFILES \in Nat /\ NUMFILES >= 4 /\ NUMLINKS \in Nat \ {0}
    /\ NUMTHINGS \in Nat \ {0} /\ NUMOPS \in Nat
    /\ DOMAIN Sizeblocks = {"one", "small", "medium", "large", "largeplus"}

sizebytes(sz) == BLOCKSIZE * Sizeblocks[sz]
nextsmallersize(sz) == CASE sz = "small" -> "one" [] sz = "medium" -> "small" [] sz = "large" -> "medium"
nextlargersize(sz) == CASE sz = "small" -> "medium" [] sz = "medium" -> "large" [] sz = "large" -> "largeplus"

(* The operations of ops.h.  h is the variable that holds the handle: an   *)
(* index of the array files or dirs, or one of the locals f and d.         *)
f == -1
d == -2
OpenFile(h, code, name, flags) == <<[op |-> "open", h |-> h, code |-> code, x |-> name, flags |-> flags]>>
Close(h) == <<[op |-> "close", h |-> h]>>
Write(h, pos, len) == <<[op |-> "write", h |-> h, pos |-> pos, len |-> len]>>
Truncate(h, len) == <<[op |-> "truncate", h |-> h, len |-> len]>>
Op(op, x) == <<[op |-> op, x |-> x]>>
Mkdir(x) == Op("mkdir", x)
Rmdir(x) == Op("rmdir", x)
Unlink(x) == Op("unlink", x)
Chdir(x) == Op("chdir", x)
Chdirup == Op("chdirup", 0)
Sync == Op("sync", 0)
Link(x, y) == <<[op |-> "link", x |-> x, y |-> y]>>
Rename(x, y) == <<[op |-> "rename", x |-> x, y |-> y]>>
Renamexd(from, x, to, y) == <<[op |-> "renamexd", from |-> from, x |-> x, to |-> to, y |-> y]>>
Opendir(h, x) == <<[op |-> "opendir", h |-> h, x |-> x]>>
Closedir(h) == <<[op |-> "closedir", h |-> h]>>
Random(kind, code, n) == <<[op |-> "random", kind |-> kind, code |-> code, n |-> n]>>
(* for (i=0; i<n; i++) ... *)
Each(n, ops(_)) == FlattenSeq([k \in 1 .. n |-> ops(k - 1)])

----------------------------------------------------------------------------
writeemptyfile(x) == OpenFile(f, 0, x, "creat") \o Close(f)
writeoutfile(code, x, flags, sz) == OpenFile(f, code, x, flags) \o Write(f, 0, sizebytes(sz)) \o Close(f)
writenewfile(code, x, sz) == writeoutfile(code, x, "creat", sz)
writeholeyfile(code, x, sz) ==
    OpenFile(f, code, x, "creat") \o Write(f, 0, BLOCKSIZE)
    \o Write(f, sizebytes(sz) - BLOCKSIZE, BLOCKSIZE) \o Close(f)
createfiles(code, n, sz) == Each(n, LAMBDA i : writenewfile(code, i, sz))

makesubtree(code, x) ==
    LET new(i) == writenewfile(code, i, "one")
    IN  Mkdir(x) \o Chdir(x)
        \o Each(7, LAMBDA i : IF i \in {2, 5} THEN Mkdir(i) ELSE new(i))
        \o Chdir(2) \o Each(4, LAMBDA i : new(i + 3)) \o Chdirup
        \o Chdir(5) \o Each(5, LAMBDA i : IF i = 3 THEN Mkdir(6) ELSE new(i + 3))
        \o Chdir(6) \o Each(2, LAMBDA i : new(i + 7)) \o Chdirup \o Chdirup \o Chdirup

(* file_randomwrite: the blocks are chosen as the operations run. *)
RandomWrite(sz, startskip, endskip) ==
    <<[op |-> "randomwrite", n |-> Larger(2, Sizeblocks[sz] \div 6),
       blocks |-> startskip .. Sizeblocks[sz] - endskip - 1]>>

reopen(code, ops) == Sync \o OpenFile(f, code, 0, "none") \o ops \o Close(f)

writing(w, sz) ==
    LET size == sizebytes(sz)
    IN  CASE w = "createwrite" -> writenewfile(1, 0, sz)
          [] w = "rewrite" -> writenewfile(2, 0, sz) \o Sync \o writeoutfile(3, 0, "none", sz)
          [] w = "randupdate" -> writenewfile(4, 0, sz) \o reopen(5, RandomWrite(sz, 0, 0))
          [] w = "truncwrite" -> writenewfile(6, 0, sz) \o Sync \o writeoutfile(6, 0, "trunc", sz)
          [] w = "makehole" -> writeholeyfile(8, 0, sz)
          [] w = "fillhole" -> writeholeyfile(9, 0, sz) \o reopen(10, RandomWrite(sz, 1, 1))
          [] w = "truncfill" -> OpenFile(f, 11, 0, "creat") \o Truncate(f, size) \o Close(f)
                                \o reopen(11, RandomWrite(sz, 0, 0))
          [] w = "append" -> writenewfile(11, 0, sz) \o reopen(12, Write(f, size, BLOCKSIZE * 4))

truncating(w, sz) ==
    LET size == sizebytes(sz)
    IN  CASE w = "trunczero" -> writenewfile(50, 0, sz) \o reopen(50, Truncate(f, 0))
          [] w = "trunconeblock" -> writenewfile(50, 0, sz) \o reopen(50, Truncate(f, size - BLOCKSIZE))
          [] w = "truncsmallersize" ->
                writenewfile(50, 0, sz) \o reopen(50, Truncate(f, sizebytes(nextsmallersize(sz))))
          [] w = "trunclargersize" ->
                writenewfile(50, 0, sz) \o reopen(50, Truncate(f, sizebytes(nextlargersize(sz))))
          [] w = "appendandtrunczero" ->
                writenewfile(50, 0, sz) \o reopen(50, Write(f, size, BLOCKSIZE * 4) \o Truncate(f, 0))
          [] w = "appendandtruncpartly" ->
                writenewfile(50, 0, sz) \o reopen(50, Write(f, size, BLOCKSIZE * 4)
                                                      \o Truncate(f, size + BLOCKSIZE * 2))

----------------------------------------------------------------------------
(* The canned tree: depth files, and below each of the others a subtree. *)
RECURSIVE wl_mktree_sub(_, _)
wl_mktree_sub(code, depth) ==
    Each(NUMTHINGS, LAMBDA i :
        IF i < depth THEN writenewfile(code, i, "one")
        ELSE Mkdir(i) \o (IF depth < NUMTHINGS THEN Chdir(i) \o wl_mktree_sub(code, depth + 1) \o Chdirup
                          ELSE <<>>))
RECURSIVE wl_rmtree_sub(_)
wl_rmtree_sub(depth) ==
    Each(NUMTHINGS, LAMBDA i :
        IF i < depth THEN Unlink(i)
        ELSE (IF depth < NUMTHINGS THEN Chdir(i) \o wl_rmtree_sub(depth + 1) \o Chdirup ELSE <<>>)
             \o Rmdir(i))

(* The random trees; what is removed follows the same random numbers. *)
RandTree(op, code) == <<[op |-> op, code |-> code, depth |-> 0, here |-> 0]>>

creating(w) ==
    CASE w = "mkfile" -> writenewfile(100, 0, "one")
      [] w = "mkdir" -> Mkdir(0)
      [] w = "mkmanyfile" -> createfiles(101, NUMFILES, "one")
      [] w = "mkmanydir" -> Each(NUMFILES, LAMBDA i : Mkdir(i))
      [] w = "mktree" -> wl_mktree_sub(102, 0)
      [] w = "mkrandtree" -> RandTree("mkrandtree", 103)

(* The order of appends and closes of rmmanyfiledelayedandappend, from i   *)
(* files appended to and j closed.                                         *)
RECURSIVE AppendAndReclaim(_, _)
AppendAndReclaim(i, j) ==
    IF j >= NUMFILES THEN <<>>
    ELSE LET more == i < NUMFILES
             i2 == IF more THEN i + 1 ELSE i
             two == j + 1 < i2
         IN  (IF more THEN Write(i, sizebytes("small"), 6 * BLOCKSIZE) ELSE <<>>)
             \o Close(j) \o (IF two THEN Close(j + 1) ELSE <<>>)
             \o AppendAndReclaim(i2, IF two THEN j + 2 ELSE j + 1)

deletingone(w) ==
    LET one(code, sz) == writenewfile(code, 0, sz) \o writeemptyfile(1) \o Sync
    IN  CASE w = "rmfile" -> one(150, "one") \o Unlink(0)
          [] w = "rmdir" -> Mkdir(0) \o writeemptyfile(1) \o Sync \o Rmdir(0)
          [] w = "rmfiledelayed" -> one(151, "one") \o OpenFile(f, 151, 0, "none") \o Unlink(0) \o Close(f)
          [] w = "rmfiledelayedappend" ->
                one(152, "small") \o OpenFile(f, 152, 0, "none") \o Unlink(0)
                \o Write(f, sizebytes("small"), 6 * BLOCKSIZE) \o Close(f)
          [] w = "rmdirdelayed" ->
                Mkdir(0) \o writeemptyfile(1) \o Sync \o Opendir(d, 0) \o Rmdir(0) \o Closedir(d)

deletingmany(w) ==
    LET N == NUMFILES
        files(code, sz) == createfiles(code, N, sz) \o writeemptyfile(N) \o Sync
        dirs == Each(N, LAMBDA i : Mkdir(i)) \o writeemptyfile(N) \o Sync
        openall(code) == Each(N, LAMBDA i : OpenFile(i, code, i, "none"))
        unlinkall == Each(N, LAMBDA i : Unlink(i))
    IN  CASE w = "rmmanyfile" -> files(153, "one") \o unlinkall
          [] w = "rmmanyfiledelayed" ->
                files(154, "one") \o openall(154) \o unlinkall \o Each(N, LAMBDA i : Close(i))
          [] w = "rmmanyfiledelayedandappend" ->
                files(155, "small") \o openall(155) \o unlinkall
                \o Each(N \div 2, LAMBDA i : Write(i, sizebytes("small"), 6 * BLOCKSIZE))
                \o Each(N \div 4, LAMBDA j : Close(j)) \o AppendAndReclaim(N \div 2, N \div 4)
          [] w = "rmmanydir" -> dirs \o Each(N, LAMBDA i : Rmdir(i))
          [] w = "rmmanydirdelayed" ->
                dirs \o Each(N, LAMBDA i : Opendir(i, i)) \o Each(N, LAMBDA i : Rmdir(i))
                     \o Each(N, LAMBDA i : Closedir(i))

deletingtree(w) ==
    IF w = "rmtree" THEN wl_mktree_sub(156, 0) \o Sync \o wl_rmtree_sub(0)
    ELSE RandTree("mkrandtree", 157) \o Sync \o Op("srandom", 0) \o RandTree("rmrandtree", 157)

linking(w) ==
    LET N == NUMLINKS
        many(code) == createfiles(code, N, "one")
        linkall == Each(N, LAMBDA i : Link(i, N + i))
    IN  CASE w = "linkfile" -> writenewfile(200, 0, "one") \o Sync \o Link(0, 1)
          [] w = "linkmanyfile" -> many(201) \o Sync \o linkall
          [] w = "unlinkfile" ->
                writenewfile(202, 0, "one") \o Link(0, 1) \o writeemptyfile(2) \o Sync \o Unlink(1)
          [] w = "unlinkmanyfile" ->
                many(203) \o linkall \o writeemptyfile(N * 2) \o Sync
                \o Each(N, LAMBDA i : Unlink(IF i < N \div 2 THEN i ELSE N + i))
          [] w = "linkunlinkfile" -> writenewfile(204, 0, "one") \o Sync \o Link(0, 1) \o Unlink(1)

renaming(w) ==
    LET N == NUMLINKS
        renameall == writeemptyfile(N * 2) \o Sync \o Each(N, LAMBDA i : Rename(i, N + i))
        across(make) == Mkdir(0) \o Mkdir(1) \o Chdir(0) \o make \o Chdirup \o Sync \o Renamexd(0, 2, 1, 3)
        one == writeemptyfile(2) \o Sync \o Rename(0, 1)
    IN  CASE w = "renamefile" -> writenewfile(250, 0, "one") \o one
          [] w = "renamedir" -> Mkdir(0) \o one
          [] w = "renamesubtree" -> makesubtree(251, 0) \o one
          [] w = "renamexdfile" -> across(writenewfile(252, 2, "one"))
          [] w = "renamexddir" -> across(Mkdir(2))
          [] w = "renamexdsubtree" -> across(makesubtree(253, 2))
          [] w = "renamemanyfile" -> createfiles(254, N, "one") \o renameall
          [] w = "renamemanydir" -> Each(N, LAMBDA i : Mkdir(i)) \o renameall
          [] w = "renamemanysubtree" -> Each(N, LAMBDA i : makesubtree(255, i)) \o renameall

(* compile and cvsupdate are not implemented. *)
combined(w) ==
    IF w = "untar" THEN makesubtree(302, 0)
    ELSE writenewfile(300, 0, "medium") \o writeemptyfile(2) \o Sync
         \o writenewfile(301, 1, "medium") \o Rename(1, 0)

(* The random sequences: first the files that are there beforehand. *)
sequences(w) ==
    LET half == NUMFILES \div 2
        openfiles(code) == Each(half, LAMBDA i : OpenFile(i, code + 1, i, "none"))
    IN  CASE w = "writefileseq" -> createfiles(350, half, "medium") \o Sync \o openfiles(350)
                                   \o Random(w, 351, NUMOPS)
          [] w = "writetruncseq" -> createfiles(352, half, "medium") \o Sync \o openfiles(352)
                                    \o Random(w, 353, NUMOPS)
          [] w = "mkrmseq" -> Random(w, 354, NUMOPS)
          [] w = "linkunlinkseq" -> createfiles(355, NUMLINKS, "one") \o Sync \o Random(w, 355, NUMOPS)
          [] w = "renameseq" -> createfiles(356, NUMFILES \div 3, "one") \o Sync \o Random(w, 356, NUMOPS)

prep(code) ==
    createfiles(code, NUMFILES \div 4, "one")
    \o Each(NUMFILES \div 3, LAMBDA i : Mkdir((NUMFILES \div 4) + i))
mixing(w) ==
    LET code == IF w = "diropseq" THEN 357 ELSE 358
    IN  prep(code) \o Sync \o Random(w, code, NUMOPS)

----------------------------------------------------------------------------
WritingWorkloads == {"createwrite", "rewrite", "randupdate", "truncwrite", "makehole", "fillhole",
    "truncfill", "append"}
TruncatingWorkloads == {"trunczero", "trunconeblock", "truncsmallersize", "trunclargersize",
    "appendandtrunczero", "appendandtruncpartly"}
CreatingWorkloads == {"mkfile", "mkdir", "mkmanyfile", "mkmanydir", "mktree", "mkrandtree"}
DeletingOneWorkloads == {"rmfile", "rmdir", "rmfiledelayed", "rmfiledelayedappend", "rmdirdelayed"}
DeletingManyWorkloads == {"rmmanyfile", "rmmanyfiledelayed", "rmmanyfiledelayedandappend",
    "rmmanydir", "rmmanydirdelayed"}
DeletingTreeWorkloads == {"rmtree", "rmrandtree"}
LinkingWorkloads == {"linkfile", "linkmanyfile", "unlinkfile", "unlinkmanyfile", "linkunlinkfile"}
RenamingWorkloads == {"renamefile", "renamedir", "renamesubtree", "renamexdfile", "renamexddir",
    "renamexdsubtree", "renamemanyfile", "renamemanydir", "renamemanysubtree"}
CombinedWorkloads == {"copyandrename", "untar"}
SequenceWorkloads == {"writefileseq", "writetruncseq", "mkrmseq", "linkunlinkseq", "renameseq"}
MixingWorkloads == {"diropseq", "genseq"}

workload(w, sz) ==
    CASE w \in WritingWorkloads -> writing(w, sz)
      [] w \in TruncatingWorkloads -> truncating(w, sz)
      [] w \in CreatingWorkloads -> creating(w)
      [] w \in DeletingOneWorkloads -> deletingone(w)
      [] w \in DeletingManyWorkloads -> deletingmany(w)
      [] w \in DeletingTreeWorkloads -> deletingtree(w)
      [] w \in LinkingWorkloads -> linking(w)
      [] w \in RenamingWorkloads -> renaming(w)
      [] w \in CombinedWorkloads -> combined(w)
      [] w \in SequenceWorkloads -> sequences(w)
      [] w \in MixingWorkloads -> mixing(w)

-----------------------------------------------------------------------------
(***************************************************************************)
(* Running frack: the same workload in do mode, against the volume (do.c), *)
(* and in check mode (ops.c), operation by operation; the volumes the do   *)
(* run passes through are kept in fr.disks.  Then the do run is said to    *)
(* have crashed on one of them, whole or damaged in one place, and the     *)
(* check mode is asked about it (complete).                                *)
(***************************************************************************)

CONSTANTS Workloads, WorkloadSizes, RandPositions, RandLengths, Damage, DamagedNames

VARIABLE fr

----------------------------------------------------------------------------
(* The volume as the system calls promise it; a failing call ends do mode. *)
EmptyDisk == [ent |-> <<>>, parent |-> (ROOT :> ROOT), data |-> <<>>, cwd |-> ROOT, dead |-> FALSE]
Err(v) == [v EXCEPT !.dead = TRUE]
Here(v, x) == <<v.cwd, x>>
Lookup(v, e, isdir) == e \in DOMAIN v.ent /\ v.ent[e].isdir = isdir
NewInode(v) == Cardinality(DOMAIN v.data)
DirInode(v) == Cardinality(DOMAIN v.parent)
Zeros(n) == [k \in 1 .. n |-> ZERO]

do_createfile(v, x) ==
    IF Here(v, x) \in DOMAIN v.ent THEN Err(v)
    ELSE [v EXCEPT !.ent = Put(@, Here(v, x), AFile(NewInode(v))), !.data = Put(@, NewInode(v), <<>>)]
do_openfile(v, x, dotrunc) ==
    IF ~Lookup(v, Here(v, x), FALSE) THEN Err(v)
    ELSE IF dotrunc THEN [v EXCEPT !.data[v.ent[Here(v, x)].id] = <<>>] ELSE v
do_write(v, i, code, seq, pos, len) ==
    [v EXCEPT !.data[i] = [k \in 1 .. Larger(Len(@), pos + len) |->
        IF k > pos /\ k <= pos + len THEN <<code, seq, k - pos - 1>>
        ELSE IF k <= Len(@) THEN @[k] ELSE ZERO]]
do_truncate(v, i, len) ==
    [v EXCEPT !.data[i] = SubSeq(@ \o Zeros(len), 1, len)]
do_mkdir(v, x) ==
    IF Here(v, x) \in DOMAIN v.ent THEN Err(v)
    ELSE [v EXCEPT !.ent = Put(@, Here(v, x), ADir(DirInode(v))), !.parent = Put(@, DirInode(v), v.cwd)]
do_rmdir(v, x) ==
    IF ~Lookup(v, Here(v, x), TRUE) \/ EntriesIn(v, v.ent[Here(v, x)].id) # {} THEN Err(v)
    ELSE [v EXCEPT !.ent = Drop(@, Here(v, x))]
do_unlink(v, x) ==
    IF ~Lookup(v, Here(v, x), FALSE) THEN Err(v) ELSE [v EXCEPT !.ent = Drop(@, Here(v, x))]
do_link(v, x, y) ==
    IF ~Lookup(v, Here(v, x), FALSE) \/ Here(v, y) \in DOMAIN v.ent THEN Err(v)
    ELSE [v EXCEPT !.ent = Put(@, Here(v, y), v.ent[Here(v, x)])]
(* rename replaces its target in one step; a directory must be empty. *)
RenameEntry(v, a, b) ==
    IF a \notin DOMAIN v.ent THEN Err(v)
    ELSE IF /\ b \in DOMAIN v.ent
            /\ (v.ent[a].isdir # v.ent[b].isdir \/ (v.ent[b].isdir /\ EntriesIn(v, v.ent[b].id) # {}))
    THEN Err(v)
    ELSE [v EXCEPT !.ent = Drop(Put(@, b, v.ent[a]), a),
                   !.parent = IF v.ent[a].isdir THEN Put(@, v.ent[a].id, b[1]) ELSE @]
do_rename(v, x, y) == RenameEntry(v, Here(v, x), Here(v, y))
do_renamexd(v, from, x, to, y) ==
    IF ~Lookup(v, Here(v, from), TRUE) \/ ~Lookup(v, Here(v, to), TRUE) THEN Err(v)
    ELSE RenameEntry(v, <<v.ent[Here(v, from)].id, x>>, <<v.ent[Here(v, to)].id, y>>)
do_chdir(v, x) == IF ~Lookup(v, Here(v, x), TRUE) THEN Err(v) ELSE [v EXCEPT !.cwd = v.ent[Here(v, x)].id]
do_chdirup(v) == [v EXCEPT !.cwd = v.parent[@]]

----------------------------------------------------------------------------
(* One operation, in both modes: m is the checker's model, v the volume.   *)
(* A handle remembers the file in both, the code and the sequence number.  *)
FrackDead == fr.m.state.dead \/ fr.v.dead
Both(m, v, todo) ==
    fr' = [fr EXCEPT !.m = m, !.v = v, !.todo = todo,
                     !.disks = IF v.dead \/ v = fr.v THEN @ ELSE Append(@, v)]

op_open(o) ==
    LET m == IF o.flags = "creat" THEN check_createfile(fr.m, o.x) ELSE check_openfile(fr.m, o.x)
        v == IF o.flags = "creat" THEN do_createfile(fr.v, o.x) ELSE do_openfile(fr.v, o.x, o.flags = "trunc")
        file == IF o.flags = "creat" THEN fr.m.nextfilenum ELSE model_find(fr.m, fr.m.cwd, o.x)
        handle == [file |-> file, inode |-> v.ent[Here(v, o.x)].id, code |-> o.code, seq |-> 0]
    IN  IF m.state.dead \/ v.dead THEN fr' = [fr EXCEPT !.m = m, !.v = v]
        ELSE fr' = [fr EXCEPT !.m = IF o.flags = "trunc" THEN check_truncate(m, file, 0) ELSE m,
                              !.v = v, !.todo = Tail(@), !.hand = Put(@, o.h, handle),
                              !.disks = IF v = fr.v THEN @ ELSE Append(@, v)]

op_close(o) == fr' = [fr EXCEPT !.hand = Drop(@, o.h), !.todo = Tail(@)]

(* A long write is done in parts, each with its own sequence number. *)
op_write(o) ==
    LET h == fr.hand[o.h]
        amount == IF o.len > DATA_MAXSIZE THEN DATA_MAXSIZE ELSE o.len
    IN  fr' = [fr EXCEPT
            !.m = check_write(@, h.file, h.code, h.seq, o.pos, amount),
            !.v = do_write(@, h.inode, h.code, h.seq, o.pos, amount),
            !.disks = Append(@, do_write(fr.v, h.inode, h.code, h.seq, o.pos, amount)),
            !.hand[o.h].seq = @ + 1,
            !.todo = IF o.len > amount THEN Write(o.h, o.pos + amount, o.len - amount) \o Tail(@) ELSE Tail(@)]

op_truncate(o) ==
    Both(check_truncate(fr.m, fr.hand[o.h].file, o.len), do_truncate(fr.v, fr.hand[o.h].inode, o.len), Tail(fr.todo))

op_dirop(o) ==
    LET m == fr.m v == fr.v t == Tail(fr.todo)
    IN  \/ o.op = "mkdir" /\ Both(check_mkdir(m, o.x), do_mkdir(v, o.x), t)
        \/ o.op = "rmdir" /\ Both(check_rmdir(m, o.x), do_rmdir(v, o.x), t)
        \/ o.op = "unlink" /\ Both(check_unlink(m, o.x), do_unlink(v, o.x), t)
        \/ o.op = "link" /\ Both(check_link(m, o.x, o.y), do_link(v, o.x, o.y), t)
        \/ o.op = "rename" /\ Both(check_rename(m, o.x, o.y), do_rename(v, o.x, o.y), t)
        \/ o.op = "renamexd" /\ Both(check_renamexd(m, o.from, o.x, o.to, o.y),
                                     do_renamexd(v, o.from, o.x, o.to, o.y), t)
        \/ o.op = "chdir" /\ Both(check_chdir(m, o.x), do_chdir(v, o.x), t)
        \/ o.op = "chdirup" /\ Both(check_chdirup(m), do_chdirup(v), t)
        \/ o.op \in {"sync", "opendir", "closedir"} /\ Both(m, v, t)

----------------------------------------------------------------------------
(* The random parts: choose, and put the chosen operations before the rest. *)
Then(ops) == fr' = [fr EXCEPT !.todo = ops \o Tail(@)]

file_randomwrite(o) ==
    /\ o.op = "randomwrite"
    /\ IF o.n = 0 THEN Then(<<>>)
       ELSE \E b \in o.blocks : Then(Write(f, BLOCKSIZE * b, BLOCKSIZE) \o <<[o EXCEPT !.n = @ - 1]>>)

(* The random tree: fr.ct things made so far, fr.rnd the choices. *)
mkrandtree_sub(o) ==
    LET below == [o EXCEPT !.depth = @ + 1, !.here = 0]
        next == [o EXCEPT !.here = @ + 1]
        more(c, ops) == fr' = [fr EXCEPT !.ct = IF c = "return" THEN @ ELSE @ + 1,
                                         !.rnd = Append(@, c), !.todo = ops \o Tail(@)]
    IN  /\ o.op = "mkrandtree"
        /\ \/ fr.ct = NUMTHINGS /\ Then(<<>>)
           \/ /\ fr.ct < NUMTHINGS
              /\ more("dir", Mkdir(o.here) \o Chdir(o.here) \o <<below>> \o Chdirup \o <<next>>)
           \/ fr.ct < NUMTHINGS /\ o.depth > 0 /\ more("return", <<>>)
           \/ fr.ct < NUMTHINGS /\ more("file", writenewfile(o.code, o.here, "one") \o <<next>>)

rmrandtree_sub(o) ==
    LET below == [o EXCEPT !.depth = @ + 1, !.here = 0]
        next == [o EXCEPT !.here = @ + 1]
        c == Head(fr.rnd)
    IN  /\ o.op = "rmrandtree"
        /\ IF fr.ct = NUMTHINGS THEN Then(<<>>)
           ELSE fr' = [fr EXCEPT !.ct = IF c = "return" THEN @ ELSE @ + 1, !.rnd = Tail(@),
                    !.todo = (CASE c = "dir" -> Chdir(o.here) \o <<below>> \o Chdirup \o Rmdir(o.here) \o <<next>>
                                [] c = "return" -> <<>>
                                [] c = "file" -> Unlink(o.here) \o <<next>>) \o Tail(@)]

(* srandom(seednum) again: the same choices from the start. *)
srandom_again(o) == o.op = "srandom" /\ fr' = [fr EXCEPT !.ct = 0, !.todo = Tail(@)]

RandWrites(h) == {Write(h, pos, len) : pos \in RandPositions, len \in RandLengths}
Kind(x) == IF ~Lookup(fr.v, <<ROOT, x>>, FALSE) /\ ~Lookup(fr.v, <<ROOT, x>>, TRUE) THEN "isnt"
           ELSE IF fr.v.ent[<<ROOT, x>>].isdir THEN "dir" ELSE "file"
FileNums == 0 .. NUMFILES - 1
LinkNums == 0 .. NUMLINKS - 1
OpenIfNot(x, code, flags) == IF x \in DOMAIN fr.hand THEN <<>> ELSE OpenFile(x, code, x, flags)

(* randop; exists[] is what the root directory holds. *)
randop(code, dofileops) ==
    {writenewfile(code, x, sz) :
        x \in {y \in FileNums : Kind(y) = "isnt"}, sz \in IF dofileops THEN {"one", "small", "medium"} ELSE {"one"}}
    \cup {Mkdir(x) : x \in {y \in FileNums : Kind(y) = "isnt"}}
    \cup {Unlink(x) \o (IF x \in DOMAIN fr.hand THEN Close(x) ELSE <<>>) : x \in {y \in FileNums : Kind(y) = "file"}}
    \cup {Rmdir(x) : x \in {y \in FileNums : Kind(y) = "dir"}}
    \cup {Rename(p[1], p[2]) : p \in {q \in FileNums \X FileNums :
            q[1] # q[2] /\ Kind(q[1]) # "isnt" /\ Kind(q[2]) \in {"isnt", Kind(q[1])}}}
    \cup (IF ~dofileops THEN {}
          ELSE UNION {{OpenIfNot(x, code, "none") \o w : w \in RandWrites(x)} :
                        x \in {y \in FileNums : Kind(y) = "file"}})

RandomOps(kind, code) ==
    CASE kind = "writefileseq" ->
            UNION {{OpenIfNot(x, code, "creat") \o w : w \in RandWrites(x)} : x \in FileNums}
      [] kind = "writetruncseq" ->
            UNION {{OpenIfNot(x, code, "none") \o w :
                      w \in RandWrites(x) \cup {Truncate(x, len) : len \in 0 .. sizebytes("medium") - 1}}
                   : x \in FileNums}
      [] kind = "mkrmseq" ->
            {IF Kind(x) = "file" THEN Unlink(x) ELSE writenewfile(code, x, "one") : x \in FileNums}
      [] kind = "linkunlinkseq" ->
            UNION {IF Kind(NUMLINKS + x) = "file" THEN {Unlink(NUMLINKS + x)}
                   ELSE {Link(y, NUMLINKS + x) : y \in LinkNums} : x \in LinkNums}
      [] kind = "renameseq" ->
            {Rename(p[1], p[2]) : p \in {q \in FileNums \X FileNums :
                Kind(q[1]) = "file" /\ Kind(q[2]) = "isnt"}}
      [] kind = "diropseq" -> randop(code, FALSE)
      [] kind = "genseq" -> randop(code, TRUE)

random_op(o) ==
    /\ o.op = "random"
    /\ IF o.n = 0 THEN Then(<<>>)
       ELSE \E ops \in RandomOps(o.kind, o.code) : Then(ops \o <<[o EXCEPT !.n = @ - 1]>>)

----------------------------------------------------------------------------
FrackStart(ops) ==
    fr = [todo |-> ops, m |-> check_setup, v |-> EmptyDisk, disks |-> <<EmptyDisk>>,
          hand |-> <<>>, ct |-> 0, rnd |-> <<>>, found |-> EmptyDisk, said |-> {}, phase |-> "run",
          whole |-> TRUE]

FrackInit == \E w \in Workloads, sz \in WorkloadSizes : FrackStart(workload(w, sz))

frack_step ==
    /\ fr.phase = "run" /\ fr.todo # <<>> /\ ~FrackDead
    /\ LET o == Head(fr.todo)
       IN  \/ o.op = "open" /\ op_open(o)
           \/ o.op = "close" /\ op_close(o)
           \/ o.op = "write" /\ op_write(o)
           \/ o.op = "truncate" /\ op_truncate(o)
           \/ op_dirop(o) \/ file_randomwrite(o) \/ mkrandtree_sub(o) \/ rmrandtree_sub(o)
           \/ srandom_again(o) \/ random_op(o)

(* The ways a volume can be damaged in one place: a block of a file holds  *)
(* something else, or a name is lost.  Volumes of more than DamagedNames   *)
(* names are only checked whole.                                           *)
DamagedVolumes(v) ==
    UNION {{[v EXCEPT !.data[i] = [k \in DOMAIN @ |-> IF (k - 1) \div BLOCKSIZE = b THEN x ELSE @[k]]] :
                b \in 0 .. ((Len(v.data[i]) - 1) \div BLOCKSIZE), x \in Damage}
           : i \in {j \in DOMAIN v.data : AFile(j) \in Range(v.ent) /\ v.data[j] # <<>>}}
    \cup {[v EXCEPT !.ent = Drop(@, e)] : e \in {e \in DOMAIN v.ent : ~v.ent[e].isdir /\ Damage # {}}}

complete(v, whole) ==
    /\ fr.phase = "run" /\ fr.todo = <<>>
    /\ fr' = [fr EXCEPT !.phase = "checked", !.found = v, !.said = checkfs(fr.m.log, v), !.whole = whole]

FrackNext ==
    \/ frack_step
    \/ \E k \in DOMAIN fr.disks : complete(fr.disks[k], TRUE)
    \/ \E k \in DOMAIN fr.disks :
          /\ Cardinality(DOMAIN fr.disks[k].ent) <= DamagedNames
          /\ \E v \in DamagedVolumes(fr.disks[k]) : complete(v, FALSE)

----------------------------------------------------------------------------
(* The model the checker builds is the volume do mode leaves (names, kinds *)
(* and lengths), after every operation, and neither mode dies.             *)
ModelFollowsVolume ==
    /\ ~FrackDead
    /\ fr.phase = "run" =>
          compare_objects(fr.m.state, ADir(ROOT), inspectfs(fr.v), ADir(ROOT)) = 0

(* The volume's names, kinds and lengths are those of no state in which a  *)
(* name belongs to another file: the checker cannot tell such states apart *)
(* and takes the last.                                                     *)
Unambiguous ==
    \A k \in DOMAIN fr.disks :
        fr.disks[k].ent # fr.found.ent =>
            compare_objects(inspectfs(fr.found), ADir(ROOT), inspectfs(fr.disks[k]), ADir(ROOT)) > 0

(* "Ideally, the check mode run will find the resulting on-disk state      *)
(* after recovery to exactly match some valid state the workload reached": *)
(* about a volume do mode really passed through the checker has no         *)
(* complaint.                                                              *)
VersionsAccepted ==
    fr.phase = "checked" /\ fr.whole /\ Unambiguous => fr.said \cap Complaints = {}

(* Check mode follows do mode: its model is the volume at every moment of  *)
(* the workload, so that it accepts every volume the workload went         *)
(* through.                                                                *)
CheckerFollowsWorkload == ModelFollowsVolume /\ VersionsAccepted

(* Where the checker has nothing to say, every file on the volume has the  *)
(* contents the workload gave it at some time, and the names are those of  *)
(* one of its states.                                                      *)
SilenceMeansVersion ==
    fr.phase = "checked" /\ fr.said \subseteq {"MISSING"} =>
        /\ \E k \in DOMAIN fr.disks :
              compare_objects(inspectfs(fr.found), ADir(ROOT), inspectfs(fr.disks[k]), ADir(ROOT)) = 0
        /\ \A i \in {j \in DOMAIN fr.found.data : AFile(j) \in Range(fr.found.ent)} :
              \E k \in DOMAIN fr.disks :
                 i \in DOMAIN fr.disks[k].data /\ fr.disks[k].data[i] = fr.found.data[i]
=============================================================================
