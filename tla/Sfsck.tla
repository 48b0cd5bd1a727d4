-------------------------------- MODULE Sfsck --------------------------------
(***************************************************************************)
(* sfsck, the program that repairs an SFS volume (userland/sbin/sfsck).    *)
(*                                                                         *)
(* The routines work on a record F:                                        *)
(*   disk, torn    the volume, and every volume the disk held on the way   *)
(*   used, tofree  freemapdata and tofreedata of freemap.c                 *)
(*   inodes        the table of inode.c: inode number to type              *)
(*   badness       the exit code so far                                    *)
(*   uid           uniqueid()                                              *)
(*   g             the words of a block that is not what it should be      *)
(* The kernel makes no subdirectory, so the root is the only directory the *)
(* walk enters, and a second way to it is a crosslink.                     *)
(***************************************************************************)
EXTENDS SfsDisk, Sequences, SequencesExt

EXIT_CLEAN == 0
EXIT_RECOV == 1
EXIT_UNRECOV == 2

(* The name sfsck gives an entry that needs one. *)
FsckName(ino, uid) == <<"FSCK", ino, uid>>

setbadness(F, code) == [F EXCEPT !.badness = Max({@, code})]

diskwrite(F, b, c) ==
  [F EXCEPT !.disk[b] = c, !.torn = @ \cup {[F.disk EXCEPT ![b] = c]}]

(***************************************************************************)
(* freemap.c                                                               *)
(***************************************************************************)
freemap_setup ==
  (FreemapBits \ Blocks) \cup {SFS_SUPER_BLOCK, SFS_FREEMAP_START}

freemap_blockinuse(F, b) ==
  LET F1 == [F EXCEPT !.tofree = @ \ {b}, !.used = @ \cup {b}]
  IN  IF b \in F.used THEN setbadness(F1, EXIT_UNRECOV) ELSE F1

freemap_blockfree(F, b) ==
  IF b \in F.used THEN F ELSE [F EXCEPT !.tofree = @ \cup {b}]

(* The bitmap on disk becomes what pass 1 found in use.  A difference that  *)
(* comes from a block sfsck itself freed is corrected without a report.     *)
freemap_check(F) ==
  LET actual == LET c == F.disk[SFS_FREEMAP_START]
                IN  IF c.kind = "freemap" THEN c.set ELSE {}
      F1 == diskwrite(F, SFS_FREEMAP_START, Bitmap(F.used))
  IN  IF actual = F.used THEN F
      ELSE IF actual \ F.tofree = F.used THEN F1
      ELSE setbadness(F1, EXIT_RECOV)

(***************************************************************************)
(* pass1.c: blocks and sizes.                                              *)
(***************************************************************************)
(* One block pointer of an inode or of an indirect block, for block fb of   *)
(* an object with fileblocks blocks: it is cleared if it leads outside the  *)
(* volume or is past the end.  The result has the pointer in p.             *)
CheckPointer(F, p, fb, fileblocks) ==
  CASE p >= NBLOCKS -> [s |-> setbadness(F, EXIT_RECOV), p |-> 0]
    [] p = 0 -> [s |-> F, p |-> 0]
    [] p \in 1 .. NBLOCKS - 1 /\ fb < fileblocks ->
         [s |-> freemap_blockinuse(F, p), p |-> p]
    [] OTHER -> [s |-> freemap_blockfree(setbadness(F, EXIT_RECOV), p), p |-> 0]

(* CheckPointer on each of the pointers v[0], v[1], ..., the first of which  *)
(* is for block base of the object.                                         *)
CheckPointers(F, v, base, fileblocks) ==
  LET Store(c, w, i) == [s |-> c.s, v |-> [w EXCEPT ![i] = c.p]]
  IN  FoldLeft(LAMBDA acc, i :
                 Store(CheckPointer(acc.s, v[i - 1], base + i - 1, fileblocks), acc.v, i - 1),
               [s |-> F, v |-> v], [i \in 1 .. Cardinality(DOMAIN v) |-> i])

(* An indirect block that is left empty is dropped; it has just been marked  *)
(* in use, so freemap_blockfree does not free it.                           *)
check_indirect_block(F, ientry, fileblocks) ==
  LET Checked(c, entries) ==
        IF \A i \in DOMAIN c.v : c.v[i] = 0
        THEN [s |-> freemap_blockfree(setbadness(c.s, EXIT_RECOV), ientry), p |-> 0]
        ELSE [s |-> IF c.v = entries THEN c.s
                    ELSE diskwrite(c.s, ientry, Indirect(c.v)), p |-> ientry]
      Check(entries) ==
        Checked(CheckPointers(freemap_blockinuse(F, ientry), entries, NDIRECT, fileblocks),
                entries)
  IN  CASE ientry >= NBLOCKS -> [s |-> setbadness(F, EXIT_RECOV), p |-> 0]
        [] ientry = 0 -> [s |-> F, p |-> 0]
        [] OTHER -> Check(AsIndirect(F.disk[ientry], F.g))

check_inode_blocks(F, sfi) ==
  LET fileblocks == DivRoundUp(sfi.size, UnitsOf(sfi))
      Checked(i, v) == [s |-> i.s, sfi |-> [sfi EXCEPT !.direct = v, !.indirect = i.p]]
      Direct(d) == Checked(check_indirect_block(d.s, sfi.indirect, fileblocks), d.v)
  IN  Direct(CheckPointers(F, sfi.direct, 0, fileblocks))

(* seen: the inode is in the table already. *)
pass1_inode(F, ino, sfi) ==
  LET F1 == [F EXCEPT !.inodes = (ino :> sfi.type) @@ @]
      Checked(c) == IF c.sfi = sfi THEN c.s ELSE diskwrite(c.s, ino, c.sfi)
  IN  IF ino \in DOMAIN F.inodes THEN F
      ELSE Checked(check_inode_blocks(freemap_blockinuse(F1, ino), sfi))

(* Entry of a directory: s, and the entry as it should be in e. *)
pass1_direntry(F, e) ==
  CASE e.ino = SFS_NOINO /\ e.name # NoName ->
         [s |-> setbadness(F, EXIT_RECOV), e |-> NoEntry]
    [] e.ino >= NBLOCKS -> [s |-> setbadness(F, EXIT_RECOV), e |-> NoEntry]
    [] e.ino \in 1 .. NBLOCKS - 1 /\ e.name = NoName ->
         [s |-> [setbadness(F, EXIT_RECOV) EXCEPT !.uid = @ + 1],
          e |-> [e EXCEPT !.name = FsckName(e.ino, F.uid)]]
    [] OTHER -> [s |-> F, e |-> e]

(* The object an entry names.  An object with an invalid type is removed. *)
Pass1Object(F, e) ==
  LET sub == AsInode(F.disk[e.ino])
  IN  CASE e.ino = SFS_NOINO \/ e.name \in {Dot, DotDot} -> [s |-> F, e |-> e]
        [] OTHER ->
             IF sub.type \in {"file", "dir"}
             THEN [s |-> pass1_inode(F, e.ino, sub), e |-> e]
             ELSE [s |-> setbadness(F, EXIT_RECOV), e |-> NoEntry]

(* A step on every entry of a directory in turn. *)
EachEntry(F, entries, Step(_, _)) ==
  LET Store(c, v, k) == [s |-> c.s, v |-> [v EXCEPT ![k] = c.e]]
  IN  FoldLeft(LAMBDA acc, k : Store(Step(acc.s, acc.v[k - 1]), acc.v, k - 1),
               [s |-> F, v |-> entries],
               [k \in 1 .. Cardinality(DOMAIN entries) |-> k])

(* The directory is written a block at a time; the rest of the last block   *)
(* is zeroed.  There is no block to write to in a hole of a sparse          *)
(* directory.                                                               *)
sfs_writedir(F, sfi, entries) ==
  LET nd == Cardinality(DOMAIN entries)
      Block(k) == [j \in 0 .. DIRPERBLOCK - 1 |->
                     IF k * DIRPERBLOCK + j < nd
                     THEN entries[k * DIRPERBLOCK + j] ELSE NoEntry]
  IN  FoldLeft(LAMBDA acc, k :
                 LET b == BlockOf(acc.disk, sfi, k - 1)
                 IN  IF b # 0 THEN diskwrite(acc, b, DirBlock(Block(k - 1)))
                     ELSE IF Block(k - 1) = NoEntries THEN acc
                     ELSE setbadness(acc, EXIT_UNRECOV),
               F, [k \in 1 .. DivRoundUp(nd, DIRPERBLOCK) |-> k])

pass1(F) ==
  LET RootOf(G) == AsInode(G.disk[SFS_ROOTDIR_INO])
      IsDir(G) ==
        IF RootOf(G).type = "dir" THEN G
        ELSE setbadness(diskwrite(G, SFS_ROOTDIR_INO, [RootOf(G) EXCEPT !.type = "dir"]),
                        EXIT_RECOV)
      Inode1(G) == pass1_inode(G, SFS_ROOTDIR_INO, RootOf(G))
      Objects(c) == EachEntry(c.s, c.v, Pass1Object)
      Write(c, sfi, entries) ==
        IF c.v = entries THEN c.s ELSE sfs_writedir(c.s, sfi, c.v)
      Walk(G, entries) ==
        Write(Objects(EachEntry(G, entries, pass1_direntry)), RootOf(G), entries)
      Tree(G) == Walk(G, dumpdir(G.disk, RootOf(G)))
  IN  Tree(Inode1(IsDir(F)))

(***************************************************************************)
(* pass2.c: the directory tree.                                            *)
(***************************************************************************)
(* Of entries with the same name all but the last are dropped, if they name  *)
(* the inode the next one names, or else renamed.                           *)
NextSame(v, k) ==
  {j \in DOMAIN v : j > k /\ v[j].ino # SFS_NOINO /\ v[j].name = v[k].name}

Duplicate(F, v, k) ==
  LET later == NextSame(v, k)
      other == v[Min(later)]
  IN  CASE v[k].ino = SFS_NOINO \/ later = {} -> [s |-> F, e |-> v[k]]
        [] OTHER ->
             IF other.ino = v[k].ino
             THEN [s |-> setbadness(F, EXIT_RECOV), e |-> NoEntry]
             ELSE [s |-> [setbadness(F, EXIT_RECOV) EXCEPT !.uid = @ + 1],
                   e |-> [v[k] EXCEPT !.name = FsckName(v[k].ino, F.uid)]]

MergeDuplicates(F, entries) ==
  LET Store(c, v, k) == [s |-> c.s, v |-> [v EXCEPT ![k] = c.e]]
  IN  FoldLeft(LAMBDA acc, k : Store(Duplicate(acc.s, acc.v, k - 1), acc.v, k - 1),
               [s |-> F, v |-> entries],
               [k \in 1 .. Cardinality(DOMAIN entries) |-> k])

(* "." and ".." lead to the root.  A missing one goes into an empty entry,   *)
(* or into the room left in the last block, which makes the directory       *)
(* longer; with neither it stays missing.                                   *)
FixDot(acc, name) ==
  LET v == acc.v
      n == Cardinality(DOMAIN v)
      at == {k \in DOMAIN v : v[k].name = name}
      empty == {k \in DOMAIN v : v[k].ino = SFS_NOINO}
      dot == [ino |-> SFS_ROOTDIR_INO, name |-> name]
  IN  IF at # {}
      THEN IF \A k \in at : v[k].ino = SFS_ROOTDIR_INO THEN acc
           ELSE [s |-> setbadness(acc.s, EXIT_RECOV),
                 v |-> [k \in DOMAIN v |-> IF k \in at THEN dot ELSE v[k]]]
      ELSE IF empty # {}
      THEN [s |-> setbadness(acc.s, EXIT_RECOV), v |-> [v EXCEPT ![Min(empty)] = dot]]
      ELSE IF n % DIRPERBLOCK # 0
      THEN [s |-> setbadness(acc.s, EXIT_RECOV), v |-> (n :> dot) @@ v]
      ELSE [acc EXCEPT !.s = setbadness(@, EXIT_UNRECOV)]

(* A second entry for the root is removed. *)
Pass2Object(F, e) ==
  IF e.ino # SFS_NOINO /\ e.name \notin {Dot, DotDot}
     /\ AsInode(F.disk[e.ino]).type # "file"
  THEN [s |-> setbadness(F, EXIT_RECOV), e |-> NoEntry]
  ELSE [s |-> F, e |-> e]

pass2(F) ==
  LET sfi == AsInode(F.disk[SFS_ROOTDIR_INO])
      entries == dumpdir(F.disk, sfi)
      Objects(c) == EachEntry(c.s, c.v, Pass2Object)
      Counted(G) == IF sfi.links = 2 THEN G ELSE setbadness(G, EXIT_RECOV)
      Write(G, v, sfi1) == IF v = entries THEN G ELSE sfs_writedir(G, sfi1, v)
      WriteRoot(G, sfi1) == IF sfi1 = sfi THEN G ELSE diskwrite(G, SFS_ROOTDIR_INO, sfi1)
      Put(c, sfi1) == WriteRoot(Write(Counted(c.s), c.v, sfi1), sfi1)
      Fixed(c) == Put(c, [sfi EXCEPT !.size = Cardinality(DOMAIN c.v), !.links = 2])
  IN  Fixed(Objects(FixDot(FixDot(MergeDuplicates(F, entries), Dot), DotDot)))

(***************************************************************************)
(* inode_adjust_filelinks: link counts.                                    *)
(***************************************************************************)
LinksTo(entries, ino) ==
  Cardinality({k \in DOMAIN entries :
    entries[k].ino = ino /\ entries[k].name \notin {Dot, DotDot}})

\* Fault: a wrong link count is reported and not written back.
inode_report_filelinks(F) ==
  LET entries == dumpdir(F.disk, AsInode(F.disk[SFS_ROOTDIR_INO]))
  IN  IF \A ino \in DOMAIN F.inodes :
           F.inodes[ino] = "file"
             => AsInode(F.disk[ino]).links = LinksTo(entries, ino)
      THEN F ELSE setbadness(F, EXIT_RECOV)

inode_adjust_filelinks(F) ==
  LET entries == dumpdir(F.disk, AsInode(F.disk[SFS_ROOTDIR_INO]))
      Adjust(acc, ino) ==
        LET sfi == AsInode(acc.disk[ino])
            n == LinksTo(entries, ino)
        IN  IF sfi.links = n THEN acc
            ELSE setbadness(diskwrite(acc, ino, [sfi EXCEPT !.links = n]), EXIT_RECOV)
  IN  FoldSet(LAMBDA ino, acc : Adjust(acc, ino), F,
              {ino \in DOMAIN F.inodes : F.inodes[ino] = "file"})

(* main *)
sfsck(disk, g) ==
  LET F == [disk |-> disk, torn |-> {disk}, used |-> freemap_setup,
            tofree |-> {}, inodes |-> <<>>, badness |-> EXIT_CLEAN,
            uid |-> 0, g |-> g]
  IN  inode_adjust_filelinks(pass2(freemap_check(pass1(F))))
=============================================================================
