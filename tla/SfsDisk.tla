------------------------------- MODULE SfsDisk -------------------------------
(***************************************************************************)
(* The on-disk format of an SFS volume (kern/include/kern/sfs.h), as the   *)
(* kernel, mksfs, sfsck and dumpsfs share it.                              *)
(*                                                                         *)
(* A volume is a function from block numbers to block contents.  Block 0   *)
(* is the superblock, block 1 the inode of the root directory and block 2  *)
(* the free-block bitmap; an inode's number is the block it is in.  The    *)
(* contents are tagged with what was last written there, because that is   *)
(* all that is needed to say what a reader who expects something else      *)
(* finds.  The size of a regular file is counted in units, BLOCKUNITS to   *)
(* the block, and the size of the directory in entries, DIRPERBLOCK to the *)
(* block: each unit stands for a run of bytes that calls read and write    *)
(* together.                                                               *)
(***************************************************************************)
EXTENDS Integers, FiniteSets, FiniteSetsExt, Functions

CONSTANTS
  NBLOCKS,        \* sb_nblocks, the size of the volume
  NDIRECT,        \* SFS_NDIRECT, direct blocks of an inode
  DBPERIDB,       \* SFS_DBPERIDB, block numbers in an indirect block
  DIRPERBLOCK,    \* directory entries in a block
  BLOCKUNITS,     \* units in a block of a regular file
  Names           \* the file names programs use

(* A name is a tuple, so that sfsck can make a new one from a number.       *)
NoName == <<>>
Dot == <<".">>
DotDot == <<"..">>

ASSUME FormatAssumption ==
  /\ NBLOCKS \in Nat /\ NBLOCKS > 3
  /\ {NDIRECT, DBPERIDB, DIRPERBLOCK, BLOCKUNITS} \subseteq Nat \ {0}
  /\ {NoName, Dot, DotDot} \cap Names = {}

SFS_SUPER_BLOCK == 0
SFS_ROOTDIR_INO == 1
SFS_FREEMAP_START == 2
SFS_NOINO == 0

Blocks == 0 .. NBLOCKS - 1

(* The blocks mksfs sets aside. *)
SystemBlocks == {SFS_SUPER_BLOCK, SFS_ROOTDIR_INO, SFS_FREEMAP_START}

(* DIVROUNDUP and SFS_ROUNDUP(a, b) / b. *)
DivRoundUp(a, b) == (a + b - 1) \div b

(* SFS_FREEMAPBITS: one bit for every block, rounded up to whole bitmap     *)
(* blocks.  Here the bitmap has one block, of one bit more than the volume. *)
FreemapBits == 0 .. NBLOCKS

(***************************************************************************)
(* Block contents.                                                         *)
(***************************************************************************)
Zeroed == [kind |-> "zero"]
Super == [kind |-> "super"]
Bitmap(set) == [kind |-> "freemap", set |-> set]
Indirect(e) == [kind |-> "indirect", e |-> e]
DirBlock(e) == [kind |-> "dir", e |-> e]
Data(u) == [kind |-> "data", u |-> u]
Inode(type, size, links, direct, indirect) ==
  [kind |-> "inode", type |-> type, size |-> size, links |-> links,
   direct |-> direct, indirect |-> indirect]

NoBlocks(n) == [i \in 0 .. n - 1 |-> 0]
NoEntry == [ino |-> SFS_NOINO, name |-> NoName]
NoEntries == [i \in 0 .. DIRPERBLOCK - 1 |-> NoEntry]
NoUnits == [i \in 0 .. BLOCKUNITS - 1 |-> 0]

(* What a reader that expects an inode, an indirect block, a directory      *)
(* block or file data makes of a block.  A zeroed block is a proper one of  *)
(* each.  In any other block an inode has an invalid type: the two bytes at *)
(* sfi_type are part of a small block number or of a file name.  The other  *)
(* words are taken to be g, which the caller lets range over the numbers.   *)
AsInode(c) ==
  IF c.kind = "inode" THEN c
  ELSE Inode("inval", 0, 0, NoBlocks(NDIRECT), 0)
AsIndirect(c, g) ==
  CASE c.kind = "indirect" -> c.e
    [] c.kind = "zero" -> NoBlocks(DBPERIDB)
    [] OTHER -> [i \in 0 .. DBPERIDB - 1 |-> g]
AsDir(c) == IF c.kind = "dir" THEN c.e ELSE NoEntries
AsData(c) == IF c.kind = "data" THEN c.u ELSE NoUnits

(***************************************************************************)
(* dumpsfs: what a program that reads the volume itself finds in it.       *)
(***************************************************************************)
(* Units, or entries, of a block of the object. *)
UnitsOf(sfi) == IF sfi.type = "dir" THEN DIRPERBLOCK ELSE BLOCKUNITS

(* The disk block of block fb of an object, 0 for a hole (bmap, ibmap). *)
BlockOf(disk, sfi, fb) ==
  CASE fb < NDIRECT -> sfi.direct[fb]
    [] fb >= NDIRECT /\ fb < NDIRECT + DBPERIDB /\ sfi.indirect # 0 ->
         AsIndirect(disk[sfi.indirect], 0)[fb - NDIRECT]
    [] OTHER -> 0

(* The disk blocks of the object, in file order. *)
traverse(disk, sfi) ==
  [fb \in 0 .. DivRoundUp(sfi.size, UnitsOf(sfi)) - 1 |->
     BlockOf(disk, sfi, fb)]

(* The entries of the root directory, by slot. *)
dumpdir(disk, sfi) ==
  [i \in 0 .. sfi.size - 1 |->
     LET b == BlockOf(disk, sfi, i \div DIRPERBLOCK)
     IN  IF b = 0 THEN NoEntry ELSE AsDir(disk[b])[i % DIRPERBLOCK]]

(* The units of a regular file; a hole is full of zeroes. *)
dumpfile(disk, sfi) ==
  [i \in 0 .. sfi.size - 1 |->
     LET b == BlockOf(disk, sfi, i \div BLOCKUNITS)
     IN  IF b = 0 THEN 0 ELSE AsData(disk[b])[i % BLOCKUNITS]]

(***************************************************************************)
(* mksfs: a new volume.  The bits past the end of the volume are set, and  *)
(* the root directory is empty and has link count 1.                       *)
(***************************************************************************)
initfreemap == SystemBlocks \cup (FreemapBits \ Blocks)
writerootdir == Inode("dir", 0, 1, NoBlocks(NDIRECT), 0)
mksfs ==
  [b \in Blocks |->
     CASE b = SFS_SUPER_BLOCK -> Super
       [] b = SFS_FREEMAP_START -> Bitmap(initfreemap)
       [] b = SFS_ROOTDIR_INO -> writerootdir
       [] OTHER -> Zeroed]

(***************************************************************************)
(* What makes a volume consistent.                                         *)
(***************************************************************************)
InRange(b) == b \in Blocks

(* The blocks an inode names, as pairs of a role and a block, so that a     *)
(* block named twice shows up twice.                                        *)
Named(disk, sfi) ==
  {<<"d", i, sfi.direct[i]>> : i \in {j \in 0 .. NDIRECT - 1 : sfi.direct[j] # 0}}
  \cup (IF sfi.indirect = 0 THEN {}
        ELSE {<<"i", 0, sfi.indirect>>}
             \cup LET e == AsIndirect(disk[sfi.indirect], 0)
                  IN  {<<"e", i, e[i]>> : i \in {j \in 0 .. DBPERIDB - 1 : e[j] # 0}})
=============================================================================
