-------------------------------- MODULE Emu --------------------------------
(***************************************************************************)
(* The emulator file system kern/dev/lamebus/emu.c: hardware file handles  *)
(* behind vnodes.  A file must be opened on the card before it can be      *)
(* looked at, so a handle exists before the vnode that will own it, and    *)
(* it is closed when the vnode is reclaimed.                               *)
(*                                                                         *)
(* e_lock serialises the card; emu_reg is the request on its registers,    *)
(* emu_open the handles it has open (fresh for every open), e_sem and      *)
(* e_result what the interrupt handler hands to the waiting thread.  The   *)
(* big lock of the VFS layer is recursive: vfs_lookup holds it around      *)
(* VOP_LOOKUP, VOP_CREAT is called without it.  Lock and semaphore calls   *)
(* are atomic (see CondVar and Semaphore).                                 *)
(***************************************************************************)
EXTENDS Naturals, FiniteSets, TLC

CONSTANTS EmuThreads,
          NoOwner,       \* holder of a free lock
          Handles,       \* bound: handles of the card; 0 is the root directory
          EmuFiles,      \* names on the host: [name -> isdir]
          EmuRetries,    \* emu_close tries again this often (10 in the code)
          MaxEmuCalls,   \* bound: system calls in a behaviour
          MaxEmuErrors   \* bound: failures of the card or of kmalloc

ASSUME EmuAssumption == 0 \in Handles /\ NoOwner \notin EmuThreads /\ EmuRetries \in Nat

VARIABLES e_lock, e_sem, e_result, emu_reg, emu_open,
          big,           \* [holder, depth] of vfs_biglock
          ef_vnodes,     \* vnodes in the table: handle -> [ref, isdir]
          emu_th,        \* the call each thread is in
          held,          \* vnodes (handles) each thread has a reference to
          emu_lost,      \* handles and references given up after errors
          emu_calls, emu_errors, emu_panic

emuVars == <<e_lock, e_sem, e_result, emu_reg, emu_open, big, ef_vnodes, emu_th, held, emu_lost,
             emu_calls, emu_errors, emu_panic>>
emu_card == <<e_sem, e_result, emu_reg, emu_open>>
counts == <<emu_lost, emu_calls, emu_errors, emu_panic>>

ROOT == 0
Ready == [pc |-> "idle", op |-> "none", handle |-> ROOT, isdir |-> FALSE, retries |-> 0, nolock |-> TRUE]
Quiet == [state |-> "quiet"]

\* config_emu and emufs_addtovfs: the root vnode is loaded and kept.
EmuInit ==
  /\ e_lock = NoOwner /\ e_sem = 0 /\ e_result = "none" /\ emu_reg = Quiet
  /\ emu_open = {ROOT}
  /\ big = [holder |-> NoOwner, depth |-> 0]
  /\ ef_vnodes = [h \in {ROOT} |-> [ref |-> 1, isdir |-> TRUE]]
  /\ emu_th = [t \in EmuThreads |-> Ready]
  /\ held = [t \in EmuThreads |-> {}]
  /\ emu_lost = {}
  /\ emu_calls = 0 /\ emu_errors = 0 /\ emu_panic = FALSE

-----------------------------------------------------------------------------
(* What a vnode answers by itself: the tables emufs_fileops and            *)
(* emufs_dirops.  "card" marks the operations that go to the card.         *)
\* eachopen by the flags of the open: a directory is opened to be read only.
OpenModes == {"O_RDONLY", "O_WRONLY", "O_RDWR", "O_APPEND"}
emufs_eachopen == [mode \in OpenModes |-> "0"]
emufs_eachopendir == [mode \in OpenModes |-> IF mode = "O_RDONLY" THEN "0" ELSE "EISDIR"]

emufs_fileops ==
  emufs_eachopen @@
  [op \in {"read", "write", "stat", "truncate"} |-> "card"]
  @@ [op \in {"gettype", "isseekable", "fsync"} |-> "0"]
  @@ [op \in {"readlink", "ioctl"} |-> "EINVAL"]
  @@ [op \in {"mmap"} |-> "ENOSYS"]
  @@ [op \in {"readdir", "namefile", "creat", "lookup", "symlink", "mkdir", "link", "remove", "rmdir",
              "rename"} |-> "ENOTDIR"]

emufs_dirops ==
  emufs_eachopendir @@
  [op \in {"readdir", "stat", "creat", "lookup"} |-> "card"]
  @@ [op \in {"gettype", "isseekable"} |-> "0"]
  @@ [op \in {"ioctl"} |-> "EINVAL"]
  @@ [op \in {"truncate"} |-> "ENOTDIR"]
  @@ [op \in {"namefile", "symlink", "mkdir", "link", "remove", "rmdir", "rename"} |-> "ENOSYS"]
  @@ [op \in {"read", "readlink", "write", "fsync", "mmap"} |-> "EISDIR"]

\* The root has a name: the empty one (emufs_namefile).
vn_ops(h) ==
  IF ~ef_vnodes[h].isdir THEN emufs_fileops
  ELSE IF h = ROOT THEN [emufs_dirops EXCEPT !["namefile"] = "0"] ELSE emufs_dirops

\* A call begins, on a vnode the thread has a reference to or on the root.
vop(t) ==
  \E h \in held[t] \cup {ROOT}, op \in DOMAIN emufs_fileops :
    /\ emu_th[t].pc = "idle"
    /\ emu_calls < MaxEmuCalls
    /\ vn_ops(h)[op] = "card"
    /\ emu_calls' = emu_calls + 1
    /\ emu_th' = [emu_th EXCEPT ![t] =
         [Ready EXCEPT !.op = op, !.handle = h, !.pc = IF op = "lookup" THEN "big" ELSE "lock"]]
    /\ UNCHANGED <<e_lock, emu_card, big, ef_vnodes, held, emu_lost, emu_errors, emu_panic>>

-----------------------------------------------------------------------------
(* vfs_biglock_acquire and vfs_biglock_release                             *)
AcquireBig(t) ==
  /\ big.holder \in {NoOwner, t}
  /\ big' = [holder |-> t, depth |-> big.depth + 1]

ReleaseBig(t) ==
  big' = IF big.depth = 1 THEN [holder |-> NoOwner, depth |-> 0] ELSE [big EXCEPT !.depth = @ - 1]

\* vfs_lookup around VOP_LOOKUP
lookup_big(t) ==
  /\ emu_th[t].pc = "big"
  /\ AcquireBig(t)
  /\ emu_th' = [emu_th EXCEPT ![t].pc = "lock"]
  /\ UNCHANGED <<e_lock, emu_card, ef_vnodes, held, counts>>

\* The end of a call; vfs_lookup releases its big lock.
Done(t) ==
  /\ emu_th' = [emu_th EXCEPT ![t] = Ready]
  /\ IF emu_th[t].op = "lookup" THEN ReleaseBig(t) ELSE UNCHANGED big

-----------------------------------------------------------------------------
(* The card.  emu_waitdone is P(e_sem) and translate_err.                  *)
Request(op, h) == emu_reg' = [state |-> "busy", op |-> op, handle |-> h]

\* emu_open, emu_doread, emu_write, emu_getsize, emu_trunc: e_lock is taken and
\* the registers are written.  The uiomove of emu_write may fail first.
emu_start(t) ==
  /\ emu_th[t].pc = "lock"
  /\ e_lock = NoOwner
  /\ e_lock' = t
  /\ Request(emu_th[t].op, emu_th[t].handle)
  /\ emu_th' = [emu_th EXCEPT ![t].pc = "wait"]
  /\ UNCHANGED <<e_sem, e_result, emu_open, big, ef_vnodes, held, counts>>

emu_write_fault(t) ==
  /\ emu_th[t].pc = "lock"
  /\ emu_th[t].op = "write"
  /\ e_lock = NoOwner
  /\ Done(t)
  /\ UNCHANGED <<e_lock, emu_card, ef_vnodes, held, counts>>

\* A read or a write past the largest offset returns without asking the card.
emu_doread_beyond(t) ==
  /\ emu_th[t].pc = "lock"
  /\ emu_th[t].op \in {"read", "readdir", "write"}
  /\ Done(t)
  /\ UNCHANGED <<e_lock, emu_card, ef_vnodes, held, counts>>

Free == Handles \ emu_open

\* The card finishes what is on its registers.
EmuCard ==
  /\ emu_reg.state = "busy"
  /\ LET op == emu_reg.op
         h == emu_reg.handle
         Answer(result, handle, isdir) ==
           emu_reg' = [state |-> "done", result |-> result, handle |-> handle, isdir |-> isdir]
     IN \/ /\ h \notin emu_open
           /\ Answer("EMU_RES_BADHANDLE", h, FALSE)
           /\ UNCHANGED <<emu_open, emu_errors>>
        \/ /\ h \in emu_open /\ op \in {"lookup", "creat"} /\ Free # {}
           /\ \E n \in DOMAIN EmuFiles :
                LET new == CHOOSE x \in Free : \A y \in Free : x <= y IN
                /\ Answer("EMU_RES_SUCCESS", new, EmuFiles[n])
                /\ emu_open' = emu_open \cup {new}
           /\ UNCHANGED emu_errors
        \/ /\ op \in {"lookup", "creat"} /\ Free = {}
           /\ Answer("EMU_RES_NOHANDLES", h, FALSE)
           /\ UNCHANGED <<emu_open, emu_errors>>
        \/ /\ h \in emu_open /\ op = "close"
           /\ Answer("EMU_RES_SUCCESS", h, FALSE)
           /\ emu_open' = emu_open \ {h}
           /\ UNCHANGED emu_errors
        \/ /\ h \in emu_open /\ op \notin {"lookup", "creat", "close"}
           /\ Answer("EMU_RES_SUCCESS", h, FALSE)
           /\ UNCHANGED <<emu_open, emu_errors>>
        \/ /\ emu_errors < MaxEmuErrors
           /\ Answer("EMU_RES_MEDIA", h, FALSE)
           /\ emu_errors' = emu_errors + 1
           /\ UNCHANGED emu_open
  /\ UNCHANGED <<e_lock, e_sem, e_result, big, ef_vnodes, emu_th, held, emu_lost, emu_calls, emu_panic>>

emu_irq ==
  /\ emu_reg.state = "done"
  /\ e_result' = emu_reg.result
  /\ emu_reg' = [emu_reg EXCEPT !.state = "answered"]
  /\ e_sem' = e_sem + 1
  /\ UNCHANGED <<e_lock, emu_open, big, ef_vnodes, emu_th, held, counts>>

\* translate_err: panic for what would be an error of the driver itself
Fatal(code) == code \in {"EMU_RES_BADHANDLE", "EMU_RES_BADOP", "EMU_RES_BADSIZE"}

\* emu_waitdone of an operation on an open handle, and of a failed open; the
\* uiomove of a read may fail, which makes no difference here.
emu_finish(t) ==
  /\ emu_th[t].pc = "wait"
  /\ e_sem > 0
  /\ emu_th[t].op \in {"lookup", "creat"} => e_result # "EMU_RES_SUCCESS"
  /\ e_sem' = e_sem - 1
  /\ emu_panic' = (emu_panic \/ Fatal(e_result))
  /\ e_lock' = NoOwner
  /\ emu_reg' = Quiet
  /\ Done(t)
  /\ UNCHANGED <<e_result, emu_open, ef_vnodes, held, emu_lost, emu_calls, emu_errors>>

\* emufs_read and emufs_write go round again until all is transferred.
emu_again(t) ==
  /\ emu_th[t].pc = "wait"
  /\ e_sem > 0
  /\ emu_th[t].op \in {"read", "write"}
  /\ e_result = "EMU_RES_SUCCESS"
  /\ emu_th[t].retries = 0
  /\ e_sem' = e_sem - 1
  /\ e_lock' = NoOwner
  /\ emu_reg' = Quiet
  /\ emu_th' = [emu_th EXCEPT ![t].pc = "lock", ![t].retries = 1]
  /\ UNCHANGED <<e_result, emu_open, big, ef_vnodes, held, counts>>

\* emu_open has a handle; e_lock is released before the vnode is loaded.
emu_opened(t) ==
  /\ emu_th[t].pc = "wait"
  /\ e_sem > 0
  /\ emu_th[t].op \in {"lookup", "creat"}
  /\ e_result = "EMU_RES_SUCCESS"
  /\ e_sem' = e_sem - 1
  /\ e_lock' = NoOwner
  /\ emu_reg' = Quiet
  /\ emu_th' = [emu_th EXCEPT ![t].pc = "load", ![t].handle = emu_reg.handle, ![t].isdir = emu_reg.isdir]
  /\ UNCHANGED <<e_result, emu_open, big, ef_vnodes, held, counts>>

-----------------------------------------------------------------------------
(* emufs_loadvnode                                                         *)
load_big(t) ==
  /\ emu_th[t].pc = "load"
  /\ AcquireBig(t)
  /\ emu_th' = [emu_th EXCEPT ![t].pc = "load_lock"]
  /\ UNCHANGED <<e_lock, emu_card, ef_vnodes, held, counts>>

\* A vnode in the table, or a new one; both locks are released, and the one of
\* vfs_lookup with them.
emufs_loadvnode(t) ==
  LET h == emu_th[t].handle IN
  /\ emu_th[t].pc = "load_lock"
  /\ e_lock = NoOwner
  /\ ef_vnodes' = IF h \in DOMAIN ef_vnodes THEN [ef_vnodes EXCEPT ![h].ref = @ + 1]
                  ELSE ef_vnodes @@ (h :> [ref |-> 1, isdir |-> emu_th[t].isdir])
  /\ held' = [held EXCEPT ![t] = @ \cup {h}]
  /\ emu_th' = [emu_th EXCEPT ![t] = Ready]
  /\ LET depth == big.depth - (IF emu_th[t].op = "lookup" THEN 2 ELSE 1) IN
     big' = IF depth = 0 THEN [holder |-> NoOwner, depth |-> 0] ELSE [big EXCEPT !.depth = depth]
  /\ UNCHANGED <<e_lock, emu_card, counts>>

\* kmalloc fails: the big lock is kept.  vnodearray_add fails: it is not.
emufs_loadvnode_nomem(t) ==
  /\ emu_th[t].pc = "load_lock"
  /\ e_lock = NoOwner
  /\ emu_th[t].handle \notin DOMAIN ef_vnodes
  /\ emu_errors < MaxEmuErrors
  /\ emu_errors' = emu_errors + 1
  /\ emu_th' = [emu_th EXCEPT ![t].pc = "close"]
  /\ ReleaseBig(t) \/ UNCHANGED big
  /\ UNCHANGED <<e_lock, emu_card, ef_vnodes, held, emu_lost, emu_calls, emu_panic>>

-----------------------------------------------------------------------------
(* vnode_decref, emufs_reclaim and emu_close                               *)
vnode_decref(t) ==
  \E h \in held[t] :
    /\ emu_th[t].pc = "idle"
    /\ held' = [held EXCEPT ![t] = @ \ {h}]
    /\ IF ef_vnodes[h].ref > 1
       THEN ef_vnodes' = [ef_vnodes EXCEPT ![h].ref = @ - 1] /\ UNCHANGED emu_th
       ELSE /\ emu_th' = [emu_th EXCEPT ![t] = [Ready EXCEPT !.pc = "reclaim", !.op = "reclaim", !.handle = h]]
            /\ UNCHANGED ef_vnodes
    /\ UNCHANGED <<e_lock, emu_card, big, counts>>

\* Fault: a lookup that failed does not close its handle.
close_start_forgotten(t) ==
  /\ emu_th[t].pc = "close"
  /\ e_lock = NoOwner
  /\ Done(t)
  /\ UNCHANGED <<e_lock, emu_card, ef_vnodes, held, counts>>

\* A failed lookup or creat closes the handle it has opened.
close_start(t) ==
  /\ emu_th[t].pc = "close"
  /\ e_lock = NoOwner
  /\ e_lock' = t
  /\ Request("close", emu_th[t].handle)
  /\ emu_th' = [emu_th EXCEPT ![t].pc = "close_wait"]
  /\ UNCHANGED <<e_sem, e_result, emu_open, big, ef_vnodes, held, counts>>

reclaim_big(t) ==
  /\ emu_th[t].pc = "reclaim"
  /\ AcquireBig(t)
  /\ emu_th' = [emu_th EXCEPT ![t].pc = "reclaim_lock"]
  /\ UNCHANGED <<e_lock, emu_card, ef_vnodes, held, counts>>

\* The last reference is checked under all three locks; if there is another by
\* now the one passed here is dropped.
emufs_reclaim(t) ==
  LET h == emu_th[t].handle IN
  /\ emu_th[t].pc = "reclaim_lock"
  /\ e_lock = NoOwner
  /\ IF ef_vnodes[h].ref > 1
     THEN /\ ef_vnodes' = [ef_vnodes EXCEPT ![h].ref = @ - 1]
          /\ ReleaseBig(t)
          /\ emu_th' = [emu_th EXCEPT ![t] = Ready]
          /\ UNCHANGED <<e_lock, emu_reg>>
     ELSE /\ e_lock' = t
          /\ Request("close", h)
          /\ emu_th' = [emu_th EXCEPT ![t].pc = "close_wait"]
          /\ UNCHANGED <<ef_vnodes, big>>
  /\ UNCHANGED <<e_sem, e_result, emu_open, held, counts>>

emu_close_retry(t) ==
  /\ emu_th[t].pc = "close_wait"
  /\ e_sem > 0
  /\ e_result = "EMU_RES_MEDIA"
  /\ emu_th[t].retries < EmuRetries
  /\ e_sem' = e_sem - 1
  /\ Request("close", emu_th[t].handle)
  /\ emu_th' = [emu_th EXCEPT ![t].retries = @ + 1]
  /\ UNCHANGED <<e_lock, e_result, emu_open, big, ef_vnodes, held, counts>>

\* Fault: the vnode is taken out of the table though its file is still open.
emu_closed_anyway(t) ==
  LET h == emu_th[t].handle
      reclaiming == emu_th[t].op = "reclaim"
  IN /\ emu_th[t].pc = "close_wait"
     /\ e_sem > 0
     /\ e_result = "EMU_RES_MEDIA" => emu_th[t].retries >= EmuRetries
     /\ e_sem' = e_sem - 1
     /\ e_lock' = NoOwner
     /\ emu_reg' = Quiet
     /\ emu_panic' = (emu_panic \/ Fatal(e_result))
     /\ ef_vnodes' = IF reclaiming THEN [v \in DOMAIN ef_vnodes \ {h} |-> ef_vnodes[v]] ELSE ef_vnodes
     /\ emu_th' = [emu_th EXCEPT ![t] = Ready]
     /\ IF reclaiming \/ emu_th[t].op = "lookup" THEN ReleaseBig(t) ELSE UNCHANGED big
     /\ UNCHANGED <<e_result, emu_open, held, emu_lost, emu_calls, emu_errors>>

\* The file is closed and its vnode leaves the table, or the error is returned
\* and nobody owns what is left.
emu_close(t) ==
  LET h == emu_th[t].handle
      reclaiming == emu_th[t].op = "reclaim"
      ok == e_result = "EMU_RES_SUCCESS"
  IN /\ emu_th[t].pc = "close_wait"
     /\ e_sem > 0
     /\ e_result = "EMU_RES_MEDIA" => emu_th[t].retries >= EmuRetries
     /\ e_sem' = e_sem - 1
     /\ e_lock' = NoOwner
     /\ emu_reg' = Quiet
     /\ emu_panic' = (emu_panic \/ Fatal(e_result))
     /\ ef_vnodes' = IF reclaiming /\ ok THEN [v \in DOMAIN ef_vnodes \ {h} |-> ef_vnodes[v]]
                     ELSE ef_vnodes
     /\ emu_lost' = IF ok THEN emu_lost ELSE emu_lost \cup {h}
     /\ emu_th' = [emu_th EXCEPT ![t] = Ready]
     /\ IF reclaiming \/ emu_th[t].op = "lookup" THEN ReleaseBig(t) ELSE UNCHANGED big
     /\ UNCHANGED <<e_result, emu_open, held, emu_calls, emu_errors>>

-----------------------------------------------------------------------------
EmuStep(t) ==
  \/ lookup_big(t) \/ emu_start(t) \/ emu_write_fault(t) \/ emu_doread_beyond(t) \/ emu_finish(t)
  \/ emu_again(t) \/ emu_opened(t)
  \/ load_big(t) \/ emufs_loadvnode(t) \/ emufs_loadvnode_nomem(t)
  \/ close_start(t) \/ reclaim_big(t) \/ emufs_reclaim(t) \/ emu_close_retry(t) \/ emu_close(t)

EmuNext ==
  \/ \E t \in EmuThreads : vop(t) \/ vnode_decref(t) \/ EmuStep(t)
  \/ EmuCard \/ emu_irq

EmuSpec == EmuInit /\ [][EmuNext]_emuVars

-----------------------------------------------------------------------------
\* References to a vnode that someone will drop: of the file system for its
\* root, of the threads, and of a thread in reclaim
Owners(h) ==
  Cardinality({t \in EmuThreads : h \in held[t]})
  + Cardinality({t \in EmuThreads : emu_th[t].op = "reclaim" /\ emu_th[t].handle = h})
  + (IF h = ROOT THEN 1 ELSE 0)

\* The threads that will load or close a handle they have opened
Carriers(h) ==
  {t \in EmuThreads : /\ emu_th[t].pc \in {"load", "load_lock", "close", "close_wait"}
                      /\ emu_th[t].op \in {"lookup", "creat"}
                      /\ emu_th[t].handle = h}

\* The handle the card has opened but the thread has not seen yet
Announced(h) == emu_reg.state \in {"done", "answered"} /\ emu_reg.result = "EMU_RES_SUCCESS"
                /\ emu_reg.handle = h
                /\ \E t \in EmuThreads : emu_th[t].pc = "wait" /\ emu_th[t].op \in {"lookup", "creat"}

\* The handle a close has just closed
JustClosed(h) == emu_reg.state \in {"done", "answered"} /\ emu_reg.handle = h
                 /\ \E t \in EmuThreads : emu_th[t].pc = "close_wait"

\* Every file open on the card belongs to exactly one vnode in the table or to
\* one call that will load or close it, and every vnode's file is open and its
\* count is the number of its references, however lookups, failed loads,
\* reclaims and retried closes interleave (emufs_lookup, emufs_loadvnode,
\* emufs_reclaim); only a close that failed for good loses one.
HandlesOwned ==
  /\ \A h \in emu_open \ emu_lost :
       Cardinality(Carriers(h)) + (IF h \in DOMAIN ef_vnodes THEN 1 ELSE 0)
         + (IF Announced(h) THEN 1 ELSE 0) = 1
  /\ \A h \in DOMAIN ef_vnodes \ emu_lost :
       /\ h \in emu_open \/ JustClosed(h)
       /\ ef_vnodes[h].ref = Owners(h)
  /\ \A t \in EmuThreads : held[t] \subseteq DOMAIN ef_vnodes

\* No request on the card names a handle that is not open: the panics of
\* translate_err, "cases that indicate a programming error in emu.c", never
\* happen.
EmuNeverPanics == ~emu_panic
=============================================================================
