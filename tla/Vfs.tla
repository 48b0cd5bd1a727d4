-------------------------------- MODULE Vfs --------------------------------
(***************************************************************************)
(* The VFS layer, kern/vfs: the device table, file systems mounted and     *)
(* unmounted, path names, current directories, the boot file system, and   *)
(* the references to vnodes that the calls of several processes take and   *)
(* drop.                                                                   *)
(*                                                                         *)
(* What runs under vfs_biglock is one step; the calls that take the lock   *)
(* several times (vfs_open, vfs_rename, vfs_chdir...) are several.  The    *)
(* file systems are the ones of this kernel: one directory of files.       *)
(***************************************************************************)
EXTENDS Naturals, Sequences, FiniteSets

CONSTANTS
  VfsProcs,     \* user processes
  kproc,        \* the kernel process, which runs the menu
  None,         \* no process, no vnode, no name
  Devices,      \* the device table: a sequence of
                \* [kd_name, mountable, fs: has a file system of its own,
                \*  volname: the name on the volume, or None]
  Paths,        \* the path names processes use, see below
  VfsNames,     \* names of files
  Inodes,       \* numbers of the inodes of files
  VfsMaxCalls,  \* bound: calls in a behaviour
  MaxMounts     \* bound: mounts of one device

rootino == 0
ASSUME VfsAssumption ==
  /\ kproc \notin VfsProcs /\ rootino \notin Inodes /\ Inodes \subseteq Nat
  /\ VfsMaxCalls \in Nat /\ MaxMounts \in Nat \ {0}

VARIABLES
  kd_fs,        \* kd_fs[d]: which mount of the device it is, 0 if none
  mounts,       \* mounts[d]: how often it was mounted
  files,        \* files[d][n]: the inode with this name, or None
  vn_refcount,  \* of every vnode, 0 for one that is not loaded
  leaked,       \* history: vnodes whose reclaim failed, with a reference nobody has
  bootfs_vnode,
  p_cwd,        \* by process
  fd,           \* the vnode a process has open
  run,          \* what a process does in the kernel
  alive,        \* the processes there are
  vfs_calls,
  vfs_panicked  \* KASSERT(vn_refcount > 0) or a use of a file system gone

vfs_vars == <<kd_fs, mounts, files, vn_refcount, leaked, bootfs_vnode, p_cwd, fd, run, alive,
          vfs_calls, vfs_panicked>>

Users == VfsProcs \cup {kproc}
Devs == DOMAIN Devices

(* A vnode: of a device (fs 0), or of a file of a mounted file system.     *)
Vnode(d, fs, i) == [dev |-> d, fs |-> fs, ino |-> i]
DevVnode(d) == Vnode(d, 0, rootino)
Vnodes == {Vnode(d, fs, i) : d \in Devs, fs \in 0 .. MaxMounts, i \in Inodes \cup {rootino}}
IsDir(v) == v.fs # 0 /\ v.ino = rootino

(* What a process does next, the call, the vnodes it has found, those it   *)
(* must drop, and where it goes on after that.                             *)
User == [pc |-> "user", op |-> None, name |-> None, path2 |-> None, flags |-> {},
         a |-> None, b |-> None, drops |-> <<>>, then |-> "user"]

(* After vfs_bootstrap and the probing of devices.                         *)
vfs_bootstrap ==
  /\ kd_fs = [d \in Devs |-> IF Devices[d].fs THEN 1 ELSE 0]
  /\ mounts = kd_fs
  /\ files = [d \in Devs |-> [n \in VfsNames |-> None]]
  /\ vn_refcount = [v \in Vnodes |-> IF v \in {DevVnode(d) : d \in Devs} THEN 1 ELSE 0]
  /\ bootfs_vnode = None
  /\ p_cwd = [p \in Users |-> None]
  /\ alive = {kproc}

(* Later: a volume with a file is mounted.  Either nothing uses it, or it  *)
(* is the boot file system and every process runs in its root directory.   *)
Booted(d, used) ==
  LET dir == IF used THEN Vnode(d, 1, rootino) ELSE None IN
  /\ kd_fs = [e \in Devs |-> IF Devices[e].fs \/ e = d THEN 1 ELSE 0]
  /\ mounts = kd_fs
  /\ \E n \in VfsNames, i \in Inodes :
       files = [e \in Devs |-> [m \in VfsNames |-> IF e = d /\ m = n THEN i ELSE None]]
  /\ vn_refcount = [v \in Vnodes |-> IF v = dir THEN Cardinality(Users) + 1
                                     ELSE IF v.fs = 0 /\ v.ino = rootino THEN 1 ELSE 0]
  /\ bootfs_vnode = dir
  /\ p_cwd = [p \in Users |-> dir]
  /\ alive = Users

VfsInit ==
  /\ vfs_bootstrap \/ \E d \in Devs, used \in BOOLEAN : Devices[d].mountable /\ Booted(d, used)
  /\ fd = [p \in Users |-> None] /\ run = [p \in Users |-> User]
  /\ leaked = {} /\ vfs_calls = 0 /\ vfs_panicked = FALSE

(***************************************************************************)
(* References.  The last VOP_DECREF calls VOP_RECLAIM; under vfs_biglock   *)
(* that is one step, otherwise the reclaim has to get the lock first.  The *)
(* reclaim of a disk's vnode may fail, with the disk: vnode_decref warns,  *)
(* and the reference stays with nobody to drop it.  A step works on refs,  *)
(* the counts, the leaked vnodes and whether reclaims fail in it.          *)
(***************************************************************************)
Refs(failing) == [count |-> vn_refcount, lost |-> leaked, failing |-> failing]
RefsBecome(refs) == vn_refcount' = refs.count /\ leaked' = refs.lost

vnode_incref(refs, v) == [refs EXCEPT !.count[v] = @ + 1]
ReclaimFails(refs, v) == refs.failing /\ refs.count[v] = 1 /\ v.fs # 0 /\ Devices[v.dev].mountable
LockedDecref(refs, v) ==
  IF ReclaimFails(refs, v) THEN [refs EXCEPT !.lost = @ \cup {v}]
  ELSE [refs EXCEPT !.count[v] = @ - 1]

(***************************************************************************)
(* Path names: [start: "cwd", "/", ":" or "dev", dev: a name, sub: the     *)
(* rest, None if it is empty].  Results are [err, vn, refs].               *)
(***************************************************************************)
VfsFails(e, refs) == [err |-> e, vn |-> None, refs |-> refs]
Finds(v, refs) == [err |-> "ok", vn |-> v, refs |-> vnode_incref(refs, v)]

Root(d) == Vnode(d, kd_fs[d], rootino)

mkrawname(n) == Append(n, "raw")

(* The first entry of the table one of whose names is n, 0 if none is.     *)
Volname(d) == IF kd_fs[d] = 0 THEN None ELSE Devices[d].volname
NamesOf(d) == {Devices[d].kd_name, Volname(d)} \cup
              (IF Devices[d].mountable THEN {mkrawname(Devices[d].kd_name)} ELSE {})
Lowest(S) == CHOOSE i \in S : \A j \in S : i <= j
FirstNamed(n) == LET S == {d \in Devs : n \in NamesOf(d)} IN IF S = {} THEN 0 ELSE Lowest(S)

vfs_getroot(n, refs) ==
  LET RootOf(d) ==
        IF d = 0 THEN VfsFails("ENODEV", refs)
        ELSE IF kd_fs[d] # 0 /\ n \in {Devices[d].kd_name, Volname(d)} THEN Finds(Root(d), refs)
        ELSE IF Devices[d].mountable /\ n = Devices[d].kd_name THEN VfsFails("ENXIO", refs)
        ELSE Finds(DevVnode(d), refs)
  IN RootOf(FirstNamed(n))

vfs_getcurdir(p, refs) ==
  IF p_cwd[p] = None THEN VfsFails("ENOENT", refs) ELSE Finds(p_cwd[p], refs)

getdevice(p, path, refs) ==
  CASE path.start = "cwd" -> vfs_getcurdir(p, refs)
    [] path.start = "dev" -> vfs_getroot(path.dev, refs)
    [] path.start = "/" ->
         IF bootfs_vnode = None THEN VfsFails("ENOENT", refs) ELSE Finds(bootfs_vnode, refs)
    [] path.start = ":" ->
         LET RootFrom(cwd) ==
               IF cwd.err # "ok" THEN cwd
               ELSE [Finds(Vnode(cwd.vn.dev, cwd.vn.fs, rootino), cwd.refs)
                       EXCEPT !.refs = LockedDecref(@, cwd.vn)]
         IN RootFrom(vfs_getcurdir(p, refs))

(* VOP_LOOKUP by the kind of vnode it starts at.                           *)
VOP_LOOKUP(v, n, refs) ==
  IF ~IsDir(v) THEN VfsFails(IF v.fs = 0 THEN "ENOENT" ELSE "ENOTDIR", refs)
  ELSE IF files[v.dev][n] = None THEN VfsFails("ENOENT", refs)
  ELSE Finds(Vnode(v.dev, v.fs, files[v.dev][n]), refs)

vfs_lookup(p, path, refs) ==
  LET LookFrom(start) ==
        IF start.err # "ok" \/ path.sub = None THEN start
        ELSE [VOP_LOOKUP(start.vn, path.sub, start.refs)
                EXCEPT !.refs = LockedDecref(@, start.vn)]
  IN LookFrom(getdevice(p, path, refs))

vfs_lookparent(p, path, refs) ==
  LET ParentIn(start) ==
        IF path.sub = None THEN VfsFails("EINVAL", start.refs)
        ELSE IF ~IsDir(start.vn) THEN VfsFails("ENOTDIR", start.refs)
        ELSE Finds(start.vn, start.refs)
      LookFrom(start) ==
        IF start.err # "ok" THEN start
        ELSE [ParentIn(start) EXCEPT !.refs = LockedDecref(@, start.vn)]
  IN LookFrom(getdevice(p, path, refs))

(***************************************************************************)
(* Calls.  A process keeps every vnode it has to drop in drops.            *)
(***************************************************************************)
Running(p) == p \in alive /\ ~vfs_panicked /\ \A q \in Users : run[q].pc # "halted"
VfsAt(p, pc) == Running(p) /\ run[p].pc = pc

VfsCall(p, first) ==
  /\ VfsAt(p, "user") /\ vfs_calls < VfsMaxCalls /\ vfs_calls' = vfs_calls + 1
  /\ run' = [run EXCEPT ![p] = first]

(* The call goes on at pc once the vnodes in drops are dropped.            *)
DropThen(p, drops, pc) ==
  run' = [run EXCEPT ![p].pc = "drop", ![p].drops = drops, ![p].then = pc]
Return(p) == DropThen(p, run[p].drops, "user")

(* The file system of a directory or file that is about to be used.        *)
VfsUses(v) == vfs_panicked' = (v.fs # 0 /\ kd_fs[v.dev] # v.fs)

(* The first path: vfs_lookparent for the calls that change a directory.   *)
Begin(p, op, path, path2, flags) ==
  LET parent == op \in {"remove", "rename"} \/ "creat" \in flags
      call == [User EXCEPT !.op = op, !.name = path.sub, !.path2 = path2, !.flags = flags] IN
  /\ VfsAt(p, "user") /\ vfs_calls < VfsMaxCalls
  /\ op = "open" => fd[p] = None
  /\ \E refs \in {Refs(failing) : failing \in BOOLEAN} :
     \E r \in {IF parent THEN vfs_lookparent(p, path, refs) ELSE vfs_lookup(p, path, refs)} :
       /\ VfsCall(p, IF r.err # "ok" THEN User
                  ELSE IF op = "open" /\ ~parent THEN [call EXCEPT !.pc = "opened", !.b = r.vn]
                  ELSE [call EXCEPT !.pc = IF path2 # None THEN "lookup2" ELSE "act",
                                    !.a = r.vn, !.drops = <<r.vn>>])
       /\ RefsBecome(r.refs)
  /\ UNCHANGED <<kd_fs, mounts, files, bootfs_vnode, p_cwd, fd, alive, vfs_panicked>>

\* Fault: the first vnode is not dropped when the second path is not found.
LookSecond_leak(p) ==
  /\ VfsAt(p, "lookup2")
  /\ \E failing \in BOOLEAN : \E r \in {vfs_lookparent(p, run[p].path2, Refs(failing))} :
       /\ RefsBecome(r.refs)
       /\ run' = IF r.err # "ok" THEN [run EXCEPT ![p] = User]
                 ELSE [run EXCEPT ![p].pc = "act", ![p].b = r.vn, ![p].drops = <<r.vn>> \o @]
  /\ UNCHANGED <<kd_fs, mounts, files, bootfs_vnode, p_cwd, fd, alive, vfs_calls, vfs_panicked>>

LookSecond(p) ==
  /\ VfsAt(p, "lookup2")
  /\ \E failing \in BOOLEAN : \E r \in {vfs_lookparent(p, run[p].path2, Refs(failing))} :
       /\ RefsBecome(r.refs)
       /\ IF r.err # "ok" THEN Return(p)
          ELSE run' = [run EXCEPT ![p].pc = "act", ![p].b = r.vn, ![p].drops = <<r.vn>> \o @]
  /\ UNCHANGED <<kd_fs, mounts, files, bootfs_vnode, p_cwd, fd, alive, vfs_calls, vfs_panicked>>

(* VOP_CREAT: the file with this name, a new one if there is none.         *)
NewInodes(d) ==
  {i \in Inodes : /\ \A n \in VfsNames : files[d][n] # i
                  /\ vn_refcount[Vnode(d, kd_fs[d], i)] = 0}
vop_creat(p) ==
  LET dir == run[p].a
      n == run[p].name
      old == files[dir.dev][n] IN
  /\ VfsAt(p, "act") /\ run[p].op = "open"
  /\ VfsUses(dir)
  /\ IF old # None
     THEN LET v == Vnode(dir.dev, dir.fs, old) IN
          /\ RefsBecome(vnode_incref(Refs(FALSE), v))
          /\ run' = [run EXCEPT ![p].pc = "drop", ![p].b = v, ![p].then = "opened"]
          /\ UNCHANGED files
     ELSE IF NewInodes(dir.dev) = {}
     THEN Return(p) /\ UNCHANGED <<files, vn_refcount, leaked>>
     ELSE LET i == Lowest(NewInodes(dir.dev))
              v == Vnode(dir.dev, dir.fs, i) IN
          /\ files' = [files EXCEPT ![dir.dev][n] = i]
          /\ RefsBecome(vnode_incref(Refs(FALSE), v))
          /\ run' = [run EXCEPT ![p].pc = "drop", ![p].b = v, ![p].then = "opened"]
  /\ UNCHANGED <<kd_fs, mounts, bootfs_vnode, p_cwd, fd, alive, vfs_calls>>

(* vfs_open after the vnode is found: VOP_EACHOPEN, then VOP_TRUNCATE.     *)
OpenRefused(v, flags) ==
  \/ v.fs = 0 /\ flags \cap {"creat", "trunc"} # {}
  \/ IsDir(v) /\ flags \cap {"write", "trunc"} # {}
  \/ "trunc" \in flags /\ "write" \notin flags

vfs_open(p) ==
  /\ VfsAt(p, "opened")
  /\ VfsUses(run[p].b)
  /\ IF OpenRefused(run[p].b, run[p].flags)
     THEN DropThen(p, <<run[p].b>>, "user") /\ UNCHANGED fd
     ELSE fd' = [fd EXCEPT ![p] = run[p].b] /\ run' = [run EXCEPT ![p] = User]
  /\ UNCHANGED <<kd_fs, mounts, files, vn_refcount, leaked, bootfs_vnode, p_cwd, alive, vfs_calls>>

(* VOP_REMOVE, VOP_RENAME and VOP_LINK of one file system; its own file    *)
(* system (semfs) has neither links nor renames.                           *)
Changed(p) ==
  LET d == run[p].a.dev
      old == files[d][run[p].name]
      new == files[d][run[p].path2.sub] IN
  CASE run[p].op = "remove" -> [files EXCEPT ![d][run[p].name] = None]
    [] run[p].op = "rename" /\ old # None /\ new = None ->
         [files EXCEPT ![d][run[p].path2.sub] = old, ![d][run[p].name] = None]
    [] run[p].op = "link" /\ ~IsDir(run[p].a) /\ new = None ->
         [files EXCEPT ![d][run[p].path2.sub] = run[p].a.ino]
    [] OTHER -> files

ChangeDirectory(p) ==
  LET crossing == run[p].op # "remove" /\
                  (run[p].a.fs = 0 \/ run[p].a.dev # run[p].b.dev \/ run[p].a.fs # run[p].b.fs) IN
  /\ VfsAt(p, "act") /\ run[p].op \in {"remove", "rename", "link"}
  /\ VfsUses(run[p].a)
  /\ files' = IF crossing \/ (run[p].op # "remove" /\ Devices[run[p].a.dev].fs) THEN files
              ELSE Changed(p)
  /\ Return(p)
  /\ UNCHANGED <<kd_fs, mounts, vn_refcount, leaked, bootfs_vnode, p_cwd, fd, alive, vfs_calls>>

Old(v) == IF v = None THEN <<>> ELSE <<v>>

(* vfs_setcurdir takes a reference of its own and drops the old one.       *)
vfs_setcurdir(p) ==
  /\ VfsAt(p, "act") /\ run[p].op = "chdir"
  /\ IF ~IsDir(run[p].a) THEN Return(p) /\ UNCHANGED <<vn_refcount, leaked, p_cwd>>
     ELSE /\ RefsBecome(vnode_incref(Refs(FALSE), run[p].a))
          /\ p_cwd' = [p_cwd EXCEPT ![p] = run[p].a]
          /\ DropThen(p, Old(p_cwd[p]) \o run[p].drops, "user")
  /\ VfsUses(run[p].a)
  /\ UNCHANGED <<kd_fs, mounts, files, bootfs_vnode, fd, alive, vfs_calls>>

(* VOP_DECREF outside vfs_biglock.                                         *)
Popped(p) ==
  LET rest == Tail(run[p].drops) IN
  run' = [run EXCEPT ![p] = IF rest # <<>> THEN [@ EXCEPT !.pc = "drop", !.drops = rest]
                            ELSE IF @.then = "user" THEN User
                            ELSE [@ EXCEPT !.pc = run[p].then, !.drops = rest]]

vnode_decref(p) ==
  LET v == Head(run[p].drops) IN
  /\ VfsAt(p, "drop")
  /\ IF vn_refcount[v] > 1
     THEN vn_refcount' = [vn_refcount EXCEPT ![v] = @ - 1] /\ Popped(p)
     ELSE run' = [run EXCEPT ![p].pc = "reclaim"] /\ UNCHANGED vn_refcount
  /\ vfs_panicked' = (vn_refcount[v] = 0)
  /\ UNCHANGED <<leaked, kd_fs, mounts, files, bootfs_vnode, p_cwd, fd, alive, vfs_calls>>

\* Fault: the vnode is thrown away although it was found again meanwhile.
VOP_RECLAIM_unchecked(p) ==
  /\ VfsAt(p, "reclaim")
  /\ VfsUses(Head(run[p].drops))
  /\ vn_refcount' = [vn_refcount EXCEPT ![Head(run[p].drops)] = 0]
  /\ Popped(p)
  /\ UNCHANGED <<leaked, kd_fs, mounts, files, bootfs_vnode, p_cwd, fd, alive, vfs_calls>>

(* With more than one reference, the one passed on is consumed (EBUSY).    *)
VOP_RECLAIM(p) ==
  /\ VfsAt(p, "reclaim")
  /\ VfsUses(Head(run[p].drops))
  /\ \E failing \in BOOLEAN : RefsBecome(LockedDecref(Refs(failing), Head(run[p].drops)))
  /\ Popped(p)
  /\ UNCHANGED <<kd_fs, mounts, files, bootfs_vnode, p_cwd, fd, alive, vfs_calls>>

vfs_close(p) ==
  /\ fd[p] # None
  /\ VfsCall(p, [User EXCEPT !.pc = "drop", !.drops = <<fd[p]>>])
  /\ fd' = [fd EXCEPT ![p] = None]
  /\ UNCHANGED <<kd_fs, mounts, files, vn_refcount, leaked, bootfs_vnode, p_cwd, alive, vfs_panicked>>

(* vfs_getcwd: the directory's file system must still be there when its    *)
(* name is asked for.                                                      *)
vfs_getcwd(p) ==
  /\ p_cwd[p] # None
  /\ VfsCall(p, [User EXCEPT !.pc = "getcwd", !.a = p_cwd[p], !.drops = <<p_cwd[p]>>])
  /\ RefsBecome(vnode_incref(Refs(FALSE), p_cwd[p]))
  /\ UNCHANGED <<kd_fs, mounts, files, bootfs_vnode, p_cwd, fd, alive, vfs_panicked>>

vfs_getdevname(p) ==
  /\ VfsAt(p, "getcwd")
  /\ VfsUses(run[p].a)
  /\ Return(p)
  /\ UNCHANGED <<kd_fs, mounts, files, vn_refcount, leaked, bootfs_vnode, p_cwd, fd, alive, vfs_calls>>

(* vfs_setbootfs, all of it under vfs_biglock: vfs_chdir, and one more     *)
(* reference for bootfs_vnode.                                             *)
DropLocked(refs, v) == IF v = None THEN refs ELSE LockedDecref(refs, v)
vfs_setbootfs(p, n) ==
  /\ p = kproc /\ VfsCall(p, User)
  /\ \E failing \in BOOLEAN : \E r \in {vfs_getroot(n, Refs(failing))} :
       IF r.err = "ok" /\ IsDir(r.vn)
       THEN /\ p_cwd' = [p_cwd EXCEPT ![p] = r.vn]
            /\ bootfs_vnode' = r.vn
            /\ RefsBecome(DropLocked(DropLocked(vnode_incref(r.refs, r.vn), p_cwd[p]),
                                     bootfs_vnode))
       ELSE /\ RefsBecome(IF r.err = "ok" THEN LockedDecref(r.refs, r.vn) ELSE r.refs)
            /\ UNCHANGED <<p_cwd, bootfs_vnode>>
  /\ UNCHANGED <<kd_fs, mounts, files, fd, alive, vfs_panicked>>

(***************************************************************************)
(* mount and unmount.  FSOP_UNMOUNT refuses while a vnode is loaded.       *)
(***************************************************************************)
vfs_mount(p, d) ==
  /\ p = kproc /\ VfsCall(p, User)
  /\ Devices[d].mountable /\ kd_fs[d] = 0 /\ mounts[d] < MaxMounts
  /\ kd_fs' = [kd_fs EXCEPT ![d] = mounts[d] + 1]
  /\ mounts' = [mounts EXCEPT ![d] = @ + 1]
  /\ UNCHANGED <<files, vn_refcount, leaked, bootfs_vnode, p_cwd, fd, alive, vfs_panicked>>

Busy(d) == \E v \in Vnodes : v.dev = d /\ v.fs # 0 /\ v.fs = kd_fs[d] /\ vn_refcount[v] > 0

(* Files no name is left for are gone with the last vnode, so the rest is  *)
(* what the next mount finds.                                              *)
vfs_unmount(p, d) ==
  /\ p = kproc /\ VfsCall(p, User)
  /\ Devices[d].mountable /\ kd_fs[d] # 0 /\ ~Busy(d)
  /\ kd_fs' = [kd_fs EXCEPT ![d] = 0]
  /\ UNCHANGED <<mounts, files, vn_refcount, leaked, bootfs_vnode, p_cwd, fd, alive, vfs_panicked>>

(* shutdown: vfs_clearbootfs, vfs_clearcurdir, vfs_unmountall.             *)
\* Fault: the reference is not dropped.
vfs_clearbootfs_kept(p) ==
  /\ VfsCall(p, [User EXCEPT !.pc = "clearcurdir"])
  /\ bootfs_vnode' = None
  /\ UNCHANGED <<kd_fs, mounts, files, vn_refcount, leaked, p_cwd, fd, alive, vfs_panicked>>

vfs_clearbootfs(p) ==
  /\ VfsCall(p, [User EXCEPT !.pc = "clearcurdir"])
  /\ \E failing \in BOOLEAN : RefsBecome(DropLocked(Refs(failing), bootfs_vnode))
  /\ bootfs_vnode' = None
  /\ UNCHANGED <<kd_fs, mounts, files, p_cwd, fd, alive, vfs_panicked>>

vfs_clearcurdir(p) ==
  /\ VfsAt(p, "clearcurdir")
  /\ IF p_cwd[p] = None THEN run' = [run EXCEPT ![p].pc = "unmountall"]
     ELSE DropThen(p, <<p_cwd[p]>>, "unmountall")
  /\ p_cwd' = [p_cwd EXCEPT ![p] = None]
  /\ UNCHANGED <<kd_fs, mounts, files, vn_refcount, leaked, bootfs_vnode, fd, alive, vfs_calls, vfs_panicked>>

vfs_unmountall(p) ==
  /\ VfsAt(p, "unmountall")
  /\ kd_fs' = [d \in Devs |-> IF Devices[d].mountable /\ ~Busy(d) THEN 0 ELSE kd_fs[d]]
  /\ run' = [run EXCEPT ![p].pc = "halted"]
  /\ UNCHANGED <<mounts, files, vn_refcount, leaked, bootfs_vnode, p_cwd, fd, alive, vfs_calls, vfs_panicked>>

(* A new process starts in the directory of its parent; an old one drops   *)
(* its directory and closes its file (proc_destroy).                       *)
proc_create_fork(p, q) ==
  /\ VfsCall(p, User) /\ q \in VfsProcs \ alive
  /\ p_cwd' = [p_cwd EXCEPT ![q] = p_cwd[p]]
  /\ RefsBecome(IF p_cwd[p] = None THEN Refs(FALSE) ELSE vnode_incref(Refs(FALSE), p_cwd[p]))
  /\ alive' = alive \cup {q}
  /\ UNCHANGED <<kd_fs, mounts, files, bootfs_vnode, fd, vfs_panicked>>

proc_destroy(p) ==
  LET drops == Old(p_cwd[p]) \o Old(fd[p]) IN
  /\ p # kproc
  /\ VfsCall(p, IF drops = <<>> THEN [User EXCEPT !.pc = "dead"]
             ELSE [User EXCEPT !.pc = "drop", !.drops = drops, !.then = "dead"])
  /\ p_cwd' = [p_cwd EXCEPT ![p] = None] /\ fd' = [fd EXCEPT ![p] = None]
  /\ UNCHANGED <<kd_fs, mounts, files, vn_refcount, leaked, bootfs_vnode, alive, vfs_panicked>>

Gone(p) ==
  /\ VfsAt(p, "dead")
  /\ alive' = alive \ {p} /\ run' = [run EXCEPT ![p] = User]
  /\ UNCHANGED <<kd_fs, mounts, files, vn_refcount, leaked, bootfs_vnode, p_cwd, fd, vfs_calls, vfs_panicked>>

-----------------------------------------------------------------------------
VfsStep(p) ==
  \/ LookSecond(p)
  \/ vop_creat(p)
  \/ vfs_open(p)
  \/ ChangeDirectory(p)
  \/ vfs_setcurdir(p)
  \/ vnode_decref(p)
  \/ VOP_RECLAIM(p)
  \/ vfs_getdevname(p)
  \/ vfs_clearcurdir(p)
  \/ vfs_unmountall(p)
  \/ Gone(p)

Files == {path \in Paths : path.sub # None}

VfsNext ==
  \E p \in Users :
    \/ \E path \in Paths :
         \/ \E flags \in SUBSET {"write", "trunc"} : Begin(p, "open", path, None, flags)
         \/ Begin(p, "chdir", path, None, {})
    \/ \E path \in Files :
         \/ Begin(p, "open", path, None, {"creat", "write"})
         \/ Begin(p, "remove", path, None, {})
         \/ \E path2 \in Files : \E op \in {"rename", "link"} : Begin(p, op, path, path2, {})
    \/ vfs_close(p)
    \/ vfs_getcwd(p)
    \/ \E d \in Devs :
         \/ vfs_setbootfs(p, Devices[d].kd_name)
         \/ vfs_mount(p, d)
         \/ vfs_unmount(p, d)
    \/ vfs_clearbootfs(p)
    \/ \E q \in VfsProcs : proc_create_fork(p, q)
    \/ proc_destroy(p)
    \/ VfsStep(p)

VfsSpec == VfsInit /\ [][VfsNext]_vfs_vars

-----------------------------------------------------------------------------
(* How often a process, the table or the boot file system refers to v.     *)
Held(p, v) ==
  Cardinality({i \in DOMAIN run[p].drops : run[p].drops[i] = v})
    + (IF "opened" \in {run[p].pc, run[p].then} /\ run[p].pc # "user" /\ run[p].b = v THEN 1 ELSE 0)
    + (IF p_cwd[p] = v THEN 1 ELSE 0) + (IF fd[p] = v THEN 1 ELSE 0)
HeldByAll(v) ==
  LET count[S \in SUBSET Users] ==
        IF S = {} THEN 0 ELSE LET p == CHOOSE p \in S : TRUE IN Held(p, v) + count[S \ {p}]
  IN count[Users]

(* vn_refcount is the number of references there are: every path through   *)
(* vfs_open, vfs_rename, vfs_chdir..., failing ones included, drops what   *)
(* it took, and what a process or bootfs_vnode keeps is counted once.  A   *)
(* reclaim that fails leaves one reference too many, and never a second.   *)
ReferencesExact ==
  ~vfs_panicked =>
    \A v \in Vnodes :
      vn_refcount[v] = HeldByAll(v) + (IF bootfs_vnode = v THEN 1 ELSE 0)
                       + (IF v \in {DevVnode(d) : d \in Devs} THEN 1 ELSE 0)
                       + (IF v \in leaked THEN 1 ELSE 0)

(* A file system is unmounted only when nothing refers to its vnodes: no   *)
(* call that has found a directory or file, no current directory and no    *)
(* open file is left with a file system that is gone (vfs_unmount against  *)
(* all the calls that let go of vfs_biglock half way).                     *)
NoDanglingFs ==
  /\ ~vfs_panicked
  /\ \A v \in Vnodes : vn_refcount[v] > 0 /\ v.fs # 0 => kd_fs[v.dev] = v.fs

(* Shutdown leaves a volume mounted only if some process still uses it, or *)
(* has made it the boot file system again meanwhile, or the reclaim of one *)
(* of its vnodes has failed: the references that bootfs_vnode and the      *)
(* caller's own directory held are gone by then.                           *)
ShutdownUnmounts ==
  (\E p \in Users : run[p].pc = "halted") =>
    \A d \in Devs : Devices[d].mountable /\ kd_fs[d] # 0 =>
      \E v \in Vnodes :
        /\ v.dev = d /\ v.fs # 0
        /\ (v = bootfs_vnode \/ v \in leaked \/ \E p \in Users : Held(p, v) > 0)

(* References to vnodes are counted exactly but for those that a failing   *)
(* reclaim leaves, keep their file system mounted, and do not outlive a    *)
(* shutdown.                                                               *)
VnodesSound == ReferencesExact /\ NoDanglingFs /\ ShutdownUnmounts
=============================================================================
