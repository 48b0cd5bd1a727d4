--------------------------------- MODULE Sfs ---------------------------------
(***************************************************************************)
(* The kernel's SFS file system (kern/fs/sfs) with the vnode reference     *)
(* counts of kern/vfs/vnode.c.                                             *)
(*                                                                         *)
(* Every SFS routine runs under vfs_biglock and does its disk I/O          *)
(* synchronously, so a call is one step.  The step is computed by running  *)
(* the routines on a record S, the state of the file system in the call:   *)
(*   disk, freemap, freemapdirty, vnodes   as the variables of Volume      *)
(*   torn     every volume the disk has held since the call began: a power *)
(*            failure during the call leaves one of them                   *)
(*   writes   block writes done so far                                     *)
(*   fault    what goes wrong in this call: block write number fault.write *)
(*            fails, reads of block fault.read fail (after the ten retries *)
(*            of sfs_rwblock), or, if fault.mem, kmalloc fails             *)
(*   panicked a panic() or KASSERT() was reached                           *)
(*   crossed  a block was freed that the volume still names                *)
(* A routine returns a record with the new S in s and its result in r.     *)
(* What it does with the result of a call is an operator of that result    *)
(* (Took, Mapped, Linked, ...), named for the point it has reached.        *)
(***************************************************************************)
EXTENDS SfsDisk, Sequences, SequencesExt

OK == "0"
EIO == "EIO"
ENOSPC == "ENOSPC"
ENOMEM == "ENOMEM"
ENOENT == "ENOENT"
EEXIST == "EEXIST"
EFBIG == "EFBIG"
EINVAL == "EINVAL"
EBUSY == "EBUSY"

NoFault == [write |-> 0, read |-> -1, mem |-> FALSE]

Ret(S, r) == [s |-> S, r |-> r]
Panic(S, when) == [S EXCEPT !.panicked = @ \/ when]

(***************************************************************************)
(* Block I/O (sfs_io.c) and block allocation (sfs_balloc.c, bitmap.c).     *)
(***************************************************************************)
sfs_readblock(S, b) == IF b = S.fault.read THEN EIO ELSE OK

sfs_writeblock(S, b, c) ==
  LET disk2 == [S.disk EXCEPT ![b] = c]
      S2 == [S EXCEPT !.writes = @ + 1]
  IN  IF S2.writes = S.fault.write THEN Ret(S2, EIO)
      ELSE Ret([S2 EXCEPT !.disk = disk2, !.torn = @ \cup {disk2}], OK)

(* A number out of range is a panic here, a clear bit one in every caller:  *)
(* neither is a block in use.                                               *)
sfs_bused(S, b) == b < NBLOCKS /\ b \in S.freemap

bitmap_unmark(S, b) ==
  Panic([S EXCEPT !.freemap = @ \ {b}], b \notin S.freemap)

sfs_bfree(S, b) == [bitmap_unmark(S, b) EXCEPT !.freemapdirty = TRUE]

\* Fault: the block is handed out with what it held before.
sfs_balloc_uncleared(S) ==
  LET free == FreemapBits \ S.freemap
  IN  IF free = {} THEN [s |-> S, r |-> ENOSPC, b |-> 0]
      ELSE [s |-> [S EXCEPT !.freemap = @ \cup {Min(free)}, !.freemapdirty = TRUE],
            r |-> OK, b |-> Min(free)]

(* bitmap_alloc takes the lowest clear bit; the block is cleared on disk    *)
(* before it is handed out, and given back if that fails.                   *)
sfs_balloc(S) ==
  LET free == FreemapBits \ S.freemap
  IN  IF free = {} THEN [s |-> S, r |-> ENOSPC, b |-> 0]
      ELSE LET b == Min(free)
               S1 == Panic([S EXCEPT !.freemap = @ \cup {b},
                                     !.freemapdirty = TRUE], b >= NBLOCKS)
               Cleared(w) == [s |-> IF w.r = OK THEN w.s ELSE bitmap_unmark(w.s, b),
                              r |-> w.r, b |-> b]
           IN  Cleared(sfs_writeblock(S1, b, Zeroed))

(***************************************************************************)
(* Block mapping (sfs_bmap.c).                                             *)
(***************************************************************************)
SetInode(S, ino, i) ==
  [S EXCEPT !.vnodes[ino].i = i, !.vnodes[ino].dirty = TRUE]

(* "Data block marked free" *)
HandBack(S, b) ==
  [s |-> Panic(S, b # 0 /\ ~sfs_bused(S, b)), r |-> OK, b |-> b]

BmapDirect(S, ino, fb, doalloc) ==
  LET i == S.vnodes[ino].i
      Took(a) ==
        IF a.r # OK THEN a
        ELSE HandBack(SetInode(a.s, ino, [i EXCEPT !.direct[fb] = a.b]), a.b)
  IN  IF i.direct[fb] # 0 \/ ~doalloc THEN HandBack(S, i.direct[fb])
      ELSE Took(sfs_balloc(S))

(* The indirect block, allocated if need be; idbuf is its contents. *)
IndirectBlock(S, ino) ==
  LET i == S.vnodes[ino].i
      Took(a) ==
        [s |-> IF a.r = OK
               THEN SetInode(a.s, ino, [i EXCEPT !.indirect = a.b]) ELSE a.s,
         r |-> a.r, b |-> a.b, idbuf |-> NoBlocks(DBPERIDB)]
  IN  IF i.indirect # 0
      THEN [s |-> S, r |-> sfs_readblock(S, i.indirect), b |-> i.indirect,
            idbuf |-> AsIndirect(S.disk[i.indirect], 0)]
      ELSE Took(sfs_balloc(S))

\* Fault: the new block number is not written to the indirect block.
BmapIndirectUnwritten(S, ino, off, doalloc) ==
  LET Took(a) == IF a.r # OK THEN a ELSE HandBack(a.s, a.b)
      Found(ib) ==
        IF ib.r # OK THEN ib
        ELSE IF ib.idbuf[off] # 0 \/ ~doalloc THEN HandBack(ib.s, ib.idbuf[off])
        ELSE Took(sfs_balloc(ib.s))
  IN  IF S.vnodes[ino].i.indirect = 0 /\ ~doalloc
      THEN [s |-> S, r |-> OK, b |-> 0]
      ELSE Found(IndirectBlock(S, ino))

BmapIndirect(S, ino, off, doalloc) ==
  LET Entered(w, b) ==
        IF w.r # OK THEN [s |-> w.s, r |-> w.r, b |-> 0] ELSE HandBack(w.s, b)
      Took(a, ib) ==
        IF a.r # OK THEN a
        ELSE Entered(sfs_writeblock(a.s, ib.b, Indirect([ib.idbuf EXCEPT ![off] = a.b])), a.b)
      Found(ib) ==
        IF ib.r # OK THEN ib
        ELSE IF ib.idbuf[off] # 0 \/ ~doalloc THEN HandBack(ib.s, ib.idbuf[off])
        ELSE Took(sfs_balloc(ib.s), ib)
  IN  IF S.vnodes[ino].i.indirect = 0 /\ ~doalloc
      THEN [s |-> S, r |-> OK, b |-> 0]
      ELSE Found(IndirectBlock(S, ino))

sfs_bmap(S, ino, fb, doalloc) ==
  CASE fb < NDIRECT -> BmapDirect(S, ino, fb, doalloc)
    [] fb >= NDIRECT + DBPERIDB -> [s |-> S, r |-> EFBIG, b |-> 0]
    [] OTHER -> BmapIndirect(S, ino, fb - NDIRECT, doalloc)

FreeAll(S, set) == FoldSet(LAMBDA b, s : sfs_bfree(s, b), S, set)

(* Truncation to len units.  The direct blocks from the new end on go; in   *)
(* the indirect block the code compares with "<", so it keeps the one block *)
(* that is exactly at the new end.                                          *)
PastEnd(blocklen, fb) == blocklen < fb

sfs_itrunc(S, ino, len) ==
  LET blocklen == DivRoundUp(len, BLOCKUNITS)
      i == S.vnodes[ino].i
      cut == {j \in 0 .. NDIRECT - 1 : j >= blocklen /\ i.direct[j] # 0}
      i1 == [i EXCEPT !.direct = [j \in 0 .. NDIRECT - 1 |->
                                    IF j \in cut THEN 0 ELSE i.direct[j]]]
      S1 == LET F == FreeAll(S, {i.direct[j] : j \in cut})
            IN  IF cut = {} THEN F ELSE SetInode(F, ino, i1)
      idbuf == AsIndirect(S1.disk[i.indirect], 0)
      icut == {j \in 0 .. DBPERIDB - 1 :
                 PastEnd(blocklen, NDIRECT + j) /\ idbuf[j] # 0}
      idbuf1 == [j \in 0 .. DBPERIDB - 1 |-> IF j \in icut THEN 0 ELSE idbuf[j]]
      S2 == FreeAll(S1, {idbuf[j] : j \in icut})
      empty == \A j \in DOMAIN idbuf1 : idbuf1[j] = 0
      w == sfs_writeblock(S2, i.indirect, Indirect(idbuf1))
      Sized(T, inode) == Ret(SetInode(T, ino, [inode EXCEPT !.size = len]), OK)
  IN  IF i.indirect = 0 \/ blocklen >= NDIRECT + DBPERIDB - 1 THEN Sized(S1, i1)
      ELSE IF sfs_readblock(S1, i.indirect) # OK THEN Ret(S1, EIO)
      ELSE IF empty THEN Sized(sfs_bfree(S2, i.indirect), [i1 EXCEPT !.indirect = 0])
      ELSE IF icut = {} THEN Sized(S2, i1)
      ELSE IF w.r # OK THEN Ret([w.s EXCEPT !.crossed = TRUE], w.r)
      ELSE Sized(w.s, i1)

(***************************************************************************)
(* File I/O (sfs_io.c).  A write of len units of value v at offset off is  *)
(* cut at the block boundaries: sfs_partialio for a piece of a block,      *)
(* which reads the block first, and sfs_blockio for a whole one.           *)
(***************************************************************************)
Pieces(off, len) ==
  LET first == off \div BLOCKUNITS
      last == (off + len - 1) \div BLOCKUNITS
  IN  [k \in 1 .. last - first + 1 |->
         LET fb == first + k - 1
             from == IF fb = first THEN off % BLOCKUNITS ELSE 0
             to == IF fb = last THEN (off + len - 1) % BLOCKUNITS
                   ELSE BLOCKUNITS - 1
         IN  [fb |-> fb, from |-> from, to |-> to]]

(* One piece; W is the progress of the write: s, r, and the units moved.   *)
(* sfs_partialio has moved the data before it writes the block back, so a   *)
(* failure of that write counts as progress.                                *)
WritePiece(W, ino, p, v) ==
  LET len == p.to - p.from + 1
      whole == len = BLOCKUNITS
      Merged(c) == Data([u \in 0 .. BLOCKUNITS - 1 |->
                           IF u \in p.from .. p.to THEN v ELSE AsData(c)[u]])
      Wrote(w) == [s |-> w.s, r |-> w.r,
                   done |-> W.done + IF whole /\ w.r # OK THEN 0 ELSE len]
      Mapped(m) ==
        IF m.r # OK THEN [W EXCEPT !.s = m.s, !.r = m.r]
        ELSE IF ~whole /\ sfs_readblock(m.s, m.b) # OK
             THEN [W EXCEPT !.s = m.s, !.r = EIO]
        ELSE Wrote(sfs_writeblock(m.s, m.b, Merged(m.s.disk[m.b])))
  IN  Mapped(sfs_bmap(W.s, ino, p.fb, TRUE))

sfs_write(S, ino, off, len, v) ==
  LET Wrote(W) ==
        IF W.done > 0 /\ off + W.done > W.s.vnodes[ino].i.size
        THEN Ret(SetInode(W.s, ino, [W.s.vnodes[ino].i EXCEPT !.size = off + W.done]), W.r)
        ELSE Ret(W.s, W.r)
  IN  Wrote(FoldLeft(LAMBDA acc, p :
                       IF acc.r # OK THEN acc ELSE WritePiece(acc, ino, p, v),
                     [s |-> S, r |-> OK, done |-> 0], Pieces(off, len)))

(* Reading an object to its end changes nothing, but it maps every block.  *)
ReadThrough(S, ino) ==
  LET i == S.vnodes[ino].i
      Mapped(m) == Ret(m.s, IF m.r = OK /\ m.b # 0
                            THEN sfs_readblock(m.s, m.b) ELSE m.r)
  IN  FoldLeft(LAMBDA acc, k :
                 IF acc.r # OK THEN acc
                 ELSE Mapped(sfs_bmap(acc.s, ino, k - 1, FALSE)),
               Ret(S, OK), [k \in 1 .. DivRoundUp(i.size, UnitsOf(i)) |-> k])

sfs_read(S, ino) == ReadThrough(S, ino)

(***************************************************************************)
(* Directories (sfs_dir.c, sfs_metaio).  The only directory is the root.   *)
(***************************************************************************)
Root == SFS_ROOTDIR_INO

sfs_writedir(S, slot, entry) ==
  LET Wrote(w) ==
        IF w.r = OK /\ slot + 1 > w.s.vnodes[Root].i.size
        THEN Ret(SetInode(w.s, Root, [w.s.vnodes[Root].i EXCEPT !.size = slot + 1]), OK)
        ELSE w
      Mapped(m) ==
        IF m.r # OK THEN Ret(m.s, m.r)
        ELSE IF sfs_readblock(m.s, m.b) # OK THEN Ret(m.s, EIO)
        ELSE Wrote(sfs_writeblock(m.s, m.b,
                     DirBlock([AsDir(m.s.disk[m.b]) EXCEPT ![slot % DIRPERBLOCK] = entry])))
  IN  Mapped(sfs_bmap(S, Root, slot \div DIRPERBLOCK, TRUE))

(* The whole directory is read even when the name is found early; the last  *)
(* empty slot is the one reported.                                          *)
sfs_dir_findname(S, name) ==
  LET Slots(entries, Wanted(_)) == {k \in DOMAIN entries : Wanted(entries[k])}
      IsName(e) == e.ino # SFS_NOINO /\ e.name = name
      IsEmpty(e) == e.ino = SFS_NOINO
      LastOf(slots) == IF slots = {} THEN -1 ELSE Max(slots)
      Found(rd, entries, found) ==
        [s |-> Panic(S, Cardinality(found) > 1 \/ rd.s.panicked),
         r |-> IF rd.r # OK THEN rd.r ELSE IF found = {} THEN ENOENT ELSE OK,
         slot |-> LastOf(found),
         ino |-> IF found = {} THEN SFS_NOINO ELSE entries[Max(found)].ino,
         emptyslot |-> LastOf(Slots(entries, IsEmpty))]
      Read(rd, entries) == Found(rd, entries, Slots(entries, IsName))
  IN  Read(ReadThrough(S, Root), dumpdir(S.disk, S.vnodes[Root].i))

sfs_dir_link(S, name, ino) ==
  LET Wrote(w, slot) == [s |-> w.s, r |-> w.r, slot |-> slot]
      Enter(T, slot) == Wrote(sfs_writedir(T, slot, [ino |-> ino, name |-> name]), slot)
      Looked(f) ==
        CASE f.r = OK -> [s |-> f.s, r |-> EEXIST, slot |-> -1]
          [] f.r = ENOENT ->
               Enter(f.s, IF f.emptyslot < 0 THEN S.vnodes[Root].i.size ELSE f.emptyslot)
          [] OTHER -> [s |-> f.s, r |-> f.r, slot |-> -1]
  IN  Looked(sfs_dir_findname(S, name))

sfs_dir_unlink(S, slot) == sfs_writedir(S, slot, NoEntry)

(***************************************************************************)
(* Inodes in memory (sfs_inode.c) and their reference counts (vnode.c).    *)
(***************************************************************************)
AddLinks(S, ino, n) ==
  LET i == S.vnodes[ino].i
  IN  Panic(SetInode(S, ino, [i EXCEPT !.links = @ + n]), i.links + n < 0)

sfs_sync_inode(S, ino) ==
  LET Wrote(w) == IF w.r # OK THEN w
                  ELSE Ret([w.s EXCEPT !.vnodes[ino].dirty = FALSE], OK)
  IN  IF ~S.vnodes[ino].dirty THEN Ret(S, OK)
      ELSE Wrote(sfs_writeblock(S, ino, S.vnodes[ino].i))

VOP_INCREF(S, ino) == [S EXCEPT !.vnodes[ino].refcount = @ + 1]

sfs_loadvnode(S, ino, forcetype) ==
  LET strayed == \E k \in DOMAIN S.vnodes : ~sfs_bused(S, k)
      i == AsInode(S.disk[ino])
      forced == forcetype # "inval"
      i1 == IF forced THEN [i EXCEPT !.type = forcetype] ELSE i
  IN  IF ino \in DOMAIN S.vnodes
      THEN Ret(Panic(VOP_INCREF(S, ino), strayed \/ forced), OK)
      ELSE IF S.fault.mem THEN Ret(Panic(S, strayed), ENOMEM)
      ELSE IF sfs_readblock(S, ino) # OK
           THEN Ret(Panic(S, strayed \/ ~sfs_bused(S, ino)), EIO)
      ELSE Ret(Panic([S EXCEPT !.vnodes = (ino :> [i |-> i1, dirty |-> forced,
                                                   refcount |-> 1]) @@ @],
                     \/ strayed \/ ~sfs_bused(S, ino)
                     \/ forced /\ i.type # "inval"
                     \/ i1.type \notin {"file", "dir"}),
               OK)

(* sfs_makeobj for a regular file *)
sfs_makeobj(S) ==
  LET Loaded(v, b) == [s |-> IF v.r = OK THEN v.s ELSE sfs_bfree(v.s, b),
                       r |-> v.r, ino |-> b]
      Took(a) == IF a.r # OK THEN [s |-> a.s, r |-> a.r, ino |-> 0]
                 ELSE Loaded(sfs_loadvnode(a.s, a.b, "file"), a.b)
  IN  Took(sfs_balloc(S))

(* The rest of sfs_reclaim: the blocks and the inode of a file without links *)
(* are freed.  An error leaves the vnode in the table.                      *)
Reclaimed(S, ino) ==
  LET unlinked == S.vnodes[ino].i.links = 0
      Synced(w) ==
        IF w.r # OK THEN w
        ELSE Ret([(IF unlinked THEN sfs_bfree(w.s, ino) ELSE w.s)
                    EXCEPT !.vnodes = Restrict(@, DOMAIN @ \ {ino})], OK)
      Truncated(t) == IF t.r # OK THEN t ELSE Synced(sfs_sync_inode(t.s, ino))
  IN  Truncated(IF unlinked THEN sfs_itrunc(S, ino, 0) ELSE Ret(S, OK))


(* The count is looked at again: since vnode_decref decided to reclaim, a   *)
(* lookup may have picked the vnode up.  An error leaves the vnode in the   *)
(* table, with the reference nobody holds any more.                         *)
sfs_reclaim(S, ino) ==
  IF S.vnodes[ino].refcount # 1
  THEN Ret([S EXCEPT !.vnodes[ino].refcount = @ - 1], EBUSY)
  ELSE Reclaimed(S, ino)

(* VOP_DECREF by a caller that holds vfs_biglock. *)
VOP_DECREF(S, ino) ==
  IF S.vnodes[ino].refcount > 1
  THEN [S EXCEPT !.vnodes[ino].refcount = @ - 1]
  ELSE sfs_reclaim(S, ino).s

sfs_lookonce(S, name) ==
  LET Loaded(v, f) ==
        [s |-> Panic(v.s, v.r = OK /\ v.s.vnodes[f.ino].i.links = 0), r |-> v.r,
         ino |-> f.ino, slot |-> f.slot]
      Looked(f) ==
        IF f.r # OK THEN [s |-> f.s, r |-> f.r, ino |-> 0, slot |-> -1]
        ELSE Loaded(sfs_loadvnode(f.s, f.ino, "inval"), f)
  IN  Looked(sfs_dir_findname(S, name))

(***************************************************************************)
(* The vnode operations of the directory (sfs_vnops.c).  ino is the vnode  *)
(* the call hands back, if it does.                                        *)
(***************************************************************************)
sfs_creat(S, name, excl) ==
  LET Loaded(v, ino) == [s |-> v.s, r |-> v.r, ino |-> ino]
      Linked(l, ino) ==
        IF l.r # OK THEN [s |-> VOP_DECREF(l.s, ino), r |-> l.r, ino |-> 0]
        ELSE [s |-> AddLinks(l.s, ino, 1), r |-> OK, ino |-> ino]
      Made(n) == IF n.r # OK THEN [s |-> n.s, r |-> n.r, ino |-> 0]
                 ELSE Linked(sfs_dir_link(n.s, name, n.ino), n.ino)
      Looked(f) ==
        CASE f.r = OK /\ excl -> [s |-> f.s, r |-> EEXIST, ino |-> 0]
          [] f.r = OK /\ ~excl -> Loaded(sfs_loadvnode(f.s, f.ino, "inval"), f.ino)
          [] f.r = ENOENT -> Made(sfs_makeobj(f.s))
          [] OTHER -> [s |-> f.s, r |-> f.r, ino |-> 0]
  IN  Looked(sfs_dir_findname(S, name))

sfs_link(S, name, ino) ==
  LET Linked(l) == IF l.r # OK THEN Ret(l.s, l.r) ELSE Ret(AddLinks(l.s, ino, 1), OK)
  IN  IF S.vnodes[ino].i.type = "dir" THEN Ret(S, EINVAL)
      ELSE Linked(sfs_dir_link(S, name, ino))

sfs_remove(S, name) ==
  LET Unlinked(u, ino) ==
        Ret(VOP_DECREF(IF u.r = OK THEN AddLinks(u.s, ino, -1) ELSE u.s, ino), u.r)
      Looked(v) == IF v.r # OK THEN Ret(v.s, v.r)
                   ELSE Unlinked(sfs_dir_unlink(v.s, v.slot), v.ino)
  IN  Looked(sfs_lookonce(S, name))

sfs_rename(S, n1, n2) ==
  LET Undone(undo) == Panic(undo.s, undo.r # OK)
      Unlinked(u, g1, slot2) ==
        Ret(VOP_DECREF(AddLinks(IF u.r = OK THEN u.s ELSE Undone(sfs_dir_unlink(u.s, slot2)),
                                g1.ino, -1),
                       g1.ino), u.r)
      Linked(l, g1) ==
        IF l.r # OK THEN Ret(VOP_DECREF(l.s, g1.ino), l.r)
        ELSE Unlinked(sfs_dir_unlink(AddLinks(l.s, g1.ino, 1), g1.slot), g1, l.slot)
      Looked(g1) ==
        IF g1.r # OK THEN Ret(g1.s, g1.r)
        ELSE Linked(sfs_dir_link(Panic(g1.s, g1.s.vnodes[g1.ino].i.type # "file"),
                                 n2, g1.ino), g1)
  IN  Looked(sfs_lookonce(S, n1))

(* sfs_lookup *)
sfs_lookup(S, name) == sfs_lookonce(S, name)

(***************************************************************************)
(* Whole-volume operations (sfs_fsops.c).                                  *)
(***************************************************************************)
(* The free-block bitmap is written if it has changed. *)
sync_freemap(S) ==
  LET Wrote(w) == IF w.r # OK THEN w
                  ELSE Ret([w.s EXCEPT !.freemapdirty = FALSE], OK)
  IN  IF ~S.freemapdirty THEN Ret(S, OK)
      ELSE Wrote(sfs_writeblock(S, SFS_FREEMAP_START, Bitmap(S.freemap)))

\* Fault: the loop over the table stops one vnode short.
sfs_sync_short(S, order) ==
  sync_freemap(FoldLeft(LAMBDA s, ino : sfs_sync_inode(s, ino).s, S,
                        SubSeq(order, 1, Len(order) - 1)))

(* order is the table of vnodes, in the order they were loaded.  The        *)
(* results of VOP_FSYNC are not looked at.                                  *)
sfs_sync(S, order) ==
  sync_freemap(FoldLeft(LAMBDA s, ino : sfs_sync_inode(s, ino).s, S, order))
=============================================================================
