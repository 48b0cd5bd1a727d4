------------------------------- MODULE Volume -------------------------------
(***************************************************************************)
(* The life of an SFS volume: made by mksfs, mounted, used by programs     *)
(* through the vnode operations, synced, unmounted, cut off by power       *)
(* failures, damaged on the medium, and repaired by sfsck.                 *)
(*                                                                         *)
(* One system call is one step (all of SFS runs under vfs_biglock), except *)
(* that the last VOP_DECREF of a vnode is two: vnode_decref decides under  *)
(* the count's spinlock to call VOP_RECLAIM, and sfs_reclaim runs when it  *)
(* gets vfs_biglock.  During a call one disk or memory fault can happen,   *)
(* or the power can fail after any of the call's block writes.             *)
(***************************************************************************)
EXTENDS Sfs

CONSTANTS
  Writes,         \* the <<offset, length>> of the writes programs do
  Lengths,        \* the lengths programs truncate files to
  MaxOpen,        \* bound: references programs hold to one vnode
  MaxCalls,       \* bound: calls to the file system
  MaxTroubles,    \* bound: failing calls, power failures, damages
  Volumes,        \* the volumes to start from
  Working         \* mounted volumes to start from, with the vnodes programs hold

VARIABLES
  phase,          \* what the volume is doing, see Phases
  disk,           \* the blocks of the volume
  freemap,        \* sfs_freemap, the set of blocks marked in use
  freemapdirty,   \* sfs_freemapdirty
  vnodes,         \* sfs_vnodes: [i: the inode, dirty, refcount] by number
  open,           \* open[ino]: references programs hold to a loaded vnode
  reclaiming,     \* vnodes that vnode_decref has decided to reclaim
  panicked,       \* a panic() or KASSERT() was reached
  calls,          \* how many calls there have been
  troubles,       \* what has gone wrong so far, a sequence
  slack,          \* how exact the allocation is, see Slacks
  saved           \* what sfs_sync has put on the disk, by file name

mounted == <<freemap, freemapdirty, vnodes, open, reclaiming>>
vars == <<phase, disk, mounted, panicked, calls, troubles, slack, saved>>

FSCK == INSTANCE Sfsck

Phases == {"up", "clean", "crashed", "repaired", "unrecoverable", "halted"}

(* Nothing marked that is not named; perhaps some blocks marked that        *)
(* nothing names; perhaps blocks freed that something names.                *)
Slacks == {"exact", "leaks", "crossed"}

Nothing == <<>>

Init ==
  /\ \/ /\ phase = "clean" /\ disk \in Volumes
        /\ freemap = {} /\ freemapdirty = FALSE /\ vnodes = Nothing
        /\ open = Nothing
     \/ \E S \in Working :
          /\ phase = "up" /\ disk = S.disk
          /\ freemap = S.freemap /\ freemapdirty = S.freemapdirty
          /\ vnodes = S.vnodes /\ open = [ino \in DOMAIN S.vnodes |-> 1]
  /\ reclaiming = {} /\ panicked = FALSE /\ calls = 0 /\ troubles = <<>>
  /\ slack = "exact" /\ saved = Nothing

(***************************************************************************)
(* Calls.                                                                  *)
(***************************************************************************)
Trouble == Len(troubles) < MaxTroubles
Goes(wrong) == Trouble /\ troubles' = Append(troubles, wrong)

Faults ==
  {[NoFault EXCEPT !.write = n] : n \in 1 .. 4}
  \cup {[NoFault EXCEPT !.read = b] : b \in Blocks \ {SFS_SUPER_BLOCK}}
  \cup {[NoFault EXCEPT !.mem = TRUE]}

Entered(f) ==
  [disk |-> disk, freemap |-> freemap, freemapdirty |-> freemapdirty,
   vnodes |-> vnodes, torn |-> {disk}, writes |-> 0, fault |-> f,
   panicked |-> panicked, crossed |-> FALSE]

(* The results of a routine, with no fault and with each one it meets. *)
Outcomes(Routine(_)) ==
  LET fine == Routine(Entered(NoFault))
      Met(c) == [c EXCEPT !.s.fault = NoFault] # fine
  IN  {fine} \cup (IF Trouble THEN {c \in {Routine(Entered(f)) : f \in Faults} : Met(c)}
                   ELSE {})

(* A call that leaves the file system as it is in S, the programs with the  *)
(* references in opened, and reclaims still to be done.                     *)
Done(S, opened, reclaims) ==
  /\ disk' = S.disk /\ freemap' = S.freemap
  /\ freemapdirty' = S.freemapdirty /\ vnodes' = S.vnodes
  /\ panicked' = S.panicked /\ open' = opened /\ reclaiming' = reclaims
  /\ IF S.fault = NoFault THEN UNCHANGED <<troubles, slack>>
     ELSE /\ Goes("fault")
          /\ slack' = IF S.crossed \/ slack = "crossed" THEN "crossed" ELSE "leaks"
  /\ UNCHANGED phase

Down ==
  /\ freemap' = {} /\ freemapdirty' = FALSE /\ vnodes' = Nothing
  /\ open' = Nothing /\ reclaiming' = {}

(* The power fails after some of the call's block writes. *)
PowerFails(torn) ==
  /\ Goes("crash")
  /\ disk' \in torn
  /\ phase' = "crashed" /\ Down
  /\ UNCHANGED <<panicked, slack>>

(* The kernel stops in a call that has written nothing. *)
Halts(where) ==
  /\ Goes(where)
  /\ panicked' = TRUE /\ phase' = "halted"
  /\ UNCHANGED <<disk, mounted, slack, saved>>

(* names: the files that are not as saved once the call has begun. *)
Call(S, opened, reclaims, names) ==
  /\ calls' = calls + 1
  /\ saved' = Restrict(saved, DOMAIN saved \ names)
  /\ \/ Done(S, opened, reclaims)
     \/ S.fault = NoFault /\ PowerFails(S.torn)

NamesOf(ino) ==
  LET d == dumpdir(disk, AsInode(disk[Root]))
  IN  {n \in DOMAIN saved :
         \E k \in DOMAIN d : d[k] = [ino |-> ino, name |-> n]}

Up == phase = "up" /\ ~panicked
Calling == Up /\ calls < MaxCalls
Opened(ino) == IF ino \in DOMAIN open THEN open[ino] ELSE 0
Open(r, ino) == IF r = OK THEN (ino :> Opened(ino) + 1) @@ open ELSE open
Shut(ino) ==
  IF open[ino] = 1 THEN Restrict(open, DOMAIN open \ {ino})
  ELSE [open EXCEPT ![ino] = @ - 1]
Files == DOMAIN open \ {Root}

(* A directory call is made with a reference to the root. *)
InRoot == Calling /\ Root \in DOMAIN open

(* A root that cannot be loaded, or that is no directory, is a panic. *)
sfs_getroot ==
  /\ Calling /\ Opened(Root) < MaxOpen
  /\ \E v \in Outcomes(LAMBDA S : sfs_loadvnode(S, Root, "inval")) :
       \/ /\ v.r = OK
          /\ Call(Panic(v.s, v.s.vnodes[Root].i.type # "dir"), Open(OK, Root), reclaiming, {})
       \/ v.r # OK /\ Halts("getroot") /\ UNCHANGED calls

creat(name, excl) ==
  /\ InRoot
  /\ \E c \in Outcomes(LAMBDA S : sfs_creat(S, name, excl)) :
       /\ Opened(c.ino) < MaxOpen
       /\ Call(c.s, Open(c.r, c.ino), reclaiming, {})

lookup(name) ==
  /\ InRoot
  /\ \E c \in Outcomes(LAMBDA S : sfs_lookup(S, name)) :
       /\ Opened(c.ino) < MaxOpen
       /\ Call(c.s, Open(c.r, c.ino), reclaiming, {})

remove(name) ==
  /\ InRoot
  /\ \E c \in Outcomes(LAMBDA S : sfs_remove(S, name)) :
       Call(c.s, open, reclaiming, {name})

rename(n1, n2) ==
  /\ InRoot
  /\ \E c \in Outcomes(LAMBDA S : sfs_rename(S, n1, n2)) :
       Call(c.s, open, reclaiming, {n1})

link(name, ino) ==
  /\ InRoot /\ ino \in Files
  /\ \E c \in Outcomes(LAMBDA S : sfs_link(S, name, ino)) :
       Call(c.s, open, reclaiming, {})

write(ino, off, len) ==
  /\ Calling /\ ino \in Files
  /\ \E c \in Outcomes(LAMBDA S : sfs_write(S, ino, off, len, 1)) :
       Call(c.s, open, reclaiming, NamesOf(ino))

read(ino) ==
  /\ Calling /\ ino \in Files
  /\ \E c \in Outcomes(LAMBDA S : sfs_read(S, ino)) :
       Call(c.s, open, reclaiming, {})

truncate(ino, len) ==
  /\ Calling /\ ino \in Files
  /\ \E c \in Outcomes(LAMBDA S : sfs_itrunc(S, ino, len)) :
       Call(c.s, open, reclaiming, NamesOf(ino))

fsync(ino) ==
  /\ Calling /\ ino \in DOMAIN open
  /\ \E c \in Outcomes(LAMBDA S : sfs_sync_inode(S, ino)) :
       Call(c.s, open, reclaiming, {})

(* vnode_decref by a program: the last reference goes to VOP_RECLAIM. *)
decref(ino) ==
  /\ Up /\ ino \in DOMAIN open
  /\ open' = Shut(ino)
  /\ IF vnodes[ino].refcount > 1
     THEN /\ vnodes' = [vnodes EXCEPT ![ino].refcount = @ - 1]
          /\ UNCHANGED reclaiming
     ELSE /\ reclaiming' = reclaiming \cup {ino}
          /\ UNCHANGED vnodes
  /\ UNCHANGED <<phase, disk, freemap, freemapdirty, panicked, calls,
                 troubles, slack, saved>>

reclaim(ino) ==
  /\ Calling /\ ino \in reclaiming
  /\ \E c \in Outcomes(LAMBDA S : sfs_reclaim(S, ino)) :
       Call(c.s, open, reclaiming \ {ino}, {})

(* The files by name, as seen with the inodes in the table vn: what         *)
(* programs see if it is the table of vnodes, what is on the volume if it   *)
(* is empty.                                                                *)
InodeIn(d, vn, ino) == IF ino \in DOMAIN vn THEN vn[ino].i ELSE AsInode(d[ino])
View(d, vn) ==
  LET dir == dumpdir(d, InodeIn(d, vn, Root))
      good == {k \in DOMAIN dir : dir[k].ino # SFS_NOINO
                                 /\ InodeIn(d, vn, dir[k].ino).type = "file"}
  IN  [n \in {dir[k].name : k \in good} |->
         LET k == CHOOSE k \in good : dir[k].name = n
         IN  dumpfile(d, InodeIn(d, vn, dir[k].ino))]

(* The order of the table of vnodes is not kept: any order is possible. *)
sync ==
  /\ Calling /\ calls' = calls + 1
  /\ \E c \in UNION {Outcomes(LAMBDA S : sfs_sync(S, order)) :
                      order \in SetToSeqs(DOMAIN vnodes)} :
       \/ /\ Done(c.s, open, reclaiming)
          /\ saved' = IF c.s.fault = NoFault THEN View(c.s.disk, c.s.vnodes) ELSE saved
       \/ c.s.fault = NoFault /\ PowerFails(c.s.torn) /\ UNCHANGED saved

(* vfs_unmount: sync, then sfs_unmount, which refuses if a vnode is loaded.  *)
unmount ==
  /\ Up
  /\ DOMAIN vnodes = {}
  /\ \E c \in Outcomes(LAMBDA S : sfs_sync(S, <<>>)) :
       /\ IF c.r # OK THEN Done(c.s, open, reclaiming)
          ELSE /\ phase' = "clean" /\ disk' = c.s.disk /\ Down
               /\ panicked' = c.s.freemapdirty
               /\ UNCHANGED <<troubles, slack>>
       /\ UNCHANGED <<calls, saved>>

(* sfs_domount.  When there is no memory for the struct sfs_fs the call      *)
(* fails.  When the superblock or the bitmap cannot be read, or there is no *)
(* memory for the bitmap, sfs_fs_destroy is called with sfs_device set,     *)
(* which its KASSERT does not allow.                                        *)
sfs_domount ==
  /\ phase \in {"clean", "repaired"} /\ ~panicked
  /\ \/ /\ phase' = "up"
        /\ freemap' = disk[SFS_FREEMAP_START].set /\ freemapdirty' = FALSE
        /\ vnodes' = Nothing /\ open' = Nothing /\ reclaiming' = {}
        /\ UNCHANGED <<disk, panicked, troubles, slack, saved>>
     \/ Goes("fault") /\ UNCHANGED <<phase, disk, mounted, panicked, slack, saved>>
     \/ Halts("mount")
  /\ UNCHANGED calls

(***************************************************************************)
(* Damage and repair.                                                      *)
(***************************************************************************)
DamagedInode(i) ==
  {[i EXCEPT !.links = @ + 1], [i EXCEPT !.direct[0] = NBLOCKS],
   [i EXCEPT !.indirect = NBLOCKS], Zeroed}
DamagedEntries(e) ==
  UNION {{[e EXCEPT ![k].name = NoName], [e EXCEPT ![k].ino = SFS_NOINO],
          [e EXCEPT ![k].ino = NBLOCKS], [e EXCEPT ![k].ino = Root],
          [e EXCEPT ![k] = e[0]]} : k \in {j \in DOMAIN e : e[j] # NoEntry}}
Damaged(c) ==
  CASE c.kind = "inode" -> DamagedInode(c)
    [] c.kind = "dir" -> {DirBlock(e) : e \in DamagedEntries(c.e)}
    [] c.kind = "freemap" -> {Bitmap(c.set \ {b}) : b \in c.set}
                             \cup {Bitmap(c.set \cup {b}) : b \in FreemapBits}
    [] c.kind = "indirect" -> {Indirect([c.e EXCEPT ![0] = NBLOCKS]), Zeroed}
    [] OTHER -> {}

MediumFails ==
  /\ phase \in {"clean", "crashed"} /\ Goes("damage")
  /\ \E b \in Blocks : \E c \in Damaged(disk[b]) : disk' = [disk EXCEPT ![b] = c]
  /\ phase' = "crashed" /\ saved' = Nothing
  /\ UNCHANGED <<mounted, panicked, calls, slack>>

Garbage == {0, NBLOCKS - 1, NBLOCKS}

sfsck ==
  /\ phase \in {"clean", "crashed"}
  /\ \E r \in {FSCK!sfsck(disk, g) : g \in Garbage} :
       \/ /\ disk' = r.disk
          /\ phase' = IF r.badness <= FSCK!EXIT_RECOV THEN "repaired"
                      ELSE "unrecoverable"
          /\ slack' = IF r.badness = FSCK!EXIT_CLEAN THEN "exact" ELSE "leaks"
          /\ saved' = IF slack = "crossed" THEN Nothing ELSE saved
          /\ UNCHANGED <<mounted, panicked, calls, troubles>>
       \/ PowerFails(r.torn) /\ UNCHANGED <<calls, saved>>

Next ==
  \/ sfs_domount \/ sfs_getroot \/ sync \/ unmount
  \/ \E n \in Names : \/ \E excl \in BOOLEAN : creat(n, excl)
                       \/ lookup(n) \/ remove(n)
                       \/ \E n2 \in Names : rename(n, n2)
                       \/ \E ino \in Files : link(n, ino)
  \/ \E ino \in DOMAIN open : \/ decref(ino) \/ fsync(ino) \/ read(ino)
                             \/ \E w \in Writes : write(ino, w[1], w[2])
                             \/ \E len \in Lengths : truncate(ino, len)
  \/ \E ino \in reclaiming : reclaim(ino)
  \/ MediumFails \/ sfsck

Spec == Init /\ [][Next]_vars

(***************************************************************************)
(* Properties.                                                             *)
(***************************************************************************)
Current(ino) == InodeIn(disk, vnodes, ino)
Entries == dumpdir(disk, Current(Root))
EntriesFor(ino) == {k \in DOMAIN Entries : Entries[k].ino = ino
                                          /\ Entries[k].name \notin {Dot, DotDot}}
Objects == ({Root} \cup DOMAIN vnodes \cup {Entries[k].ino : k \in DOMAIN Entries})
           \ {SFS_NOINO}

(* Every block the volume names, with what names it. *)
NamedBlocks ==
  {<<ino, "inode", 0, ino>> : ino \in Objects}
  \cup UNION {{<<ino>> \o n : n \in Named(disk, Current(ino))} : ino \in Objects}

(* While the volume is mounted no block has two uses and none in use is     *)
(* marked free, so the allocator (sfs_balloc) never hands out a block that   *)
(* a file, the directory or an inode still needs; every file's link count   *)
(* is the number of its directory entries; and as long as no disk fault and *)
(* no repair has happened, no block is leaked either.                       *)
VolumeAccounted ==
  phase = "up" /\ slack # "crossed" =>
    /\ \A m, n \in NamedBlocks : m[4] = n[4] => m = n
    /\ LET inuse == {n[4] : n \in NamedBlocks}
       IN  /\ inuse \subseteq freemap
           /\ inuse \cap {SFS_SUPER_BLOCK, SFS_FREEMAP_START} = {}
           /\ slack = "exact" => freemap = inuse \cup initfreemap
    /\ \A ino \in Objects \ {Root} :
         Current(ino).links = Cardinality(EntriesFor(ino))

(* A vnode a program holds, or that vnode_decref is about to reclaim, is in *)
(* the table of vnodes, and vn_refcount counts exactly those uses, unless a *)
(* reclaim has failed: a lookup that takes the vnode between vnode_decref's *)
(* decision and sfs_reclaim never finds it gone.                            *)
ReferencesCounted ==
  phase = "up" =>
    \A ino \in DOMAIN open \cup reclaiming \cup DOMAIN vnodes :
      LET uses == Opened(ino) + (IF ino \in reclaiming THEN 1 ELSE 0)
      IN  /\ ino \in DOMAIN vnodes
          /\ vnodes[ino].refcount >= uses
          /\ "fault" \notin Range(troubles) => vnodes[ino].refcount = uses

(* SFS panics in two calls only, in that very call, and only when one of    *)
(* its block reads or allocations has failed: sfs_getroot, which says so,   *)
(* and sfs_domount, whose cleanup calls sfs_fs_destroy with the device set. *)
(* Whatever else fails in any other call, and wherever the power went, no   *)
(* KASSERT or panic is reached, on volumes that are unmounted cleanly or    *)
(* that sfsck has repaired; unless a block sfs_itrunc freed is still named  *)
(* because its write of the indirect block failed.                          *)
PanicsOnlyUnloadable ==
  panicked /\ slack # "crossed" =>
    phase = "halted" /\ Last(troubles) \in {"getroot", "mount"}


(* What programs saw when a sync without fault returned is on the volume     *)
(* from then on: calls on other files, failing calls, a power failure at    *)
(* any block write and sfsck's repairs, complete or interrupted, leave it   *)
(* as it is.                                                                *)
Durable ==
  slack # "crossed" =>
    \A n \in DOMAIN saved :
      n \in DOMAIN View(disk, Nothing) /\ View(disk, Nothing)[n] = saved[n]

(* When sfsck says it could repair the volume (EXIT_CLEAN or EXIT_RECOV), it *)
(* has: running it again changes no file, and from the second run on there  *)
(* is nothing to repair.  The second run may still find a block marked that *)
(* the first one took from a file.                                          *)
FsckRepairs ==
  phase = "repaired" =>
    \E again \in {FSCK!sfsck(disk, 0)} :
      /\ again.badness <= FSCK!EXIT_RECOV
      /\ View(again.disk, Nothing) = View(disk, Nothing)
      /\ FSCK!sfsck(again.disk, 0).badness = FSCK!EXIT_CLEAN
=============================================================================
