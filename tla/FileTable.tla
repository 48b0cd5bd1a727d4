----------------------------- MODULE FileTable -----------------------------
(***************************************************************************)
(* The file tables of the processes and the file handles they share:       *)
(* sys_open, sys_read, sys_write, sys_lseek, sys_close and sys_dup2 of     *)
(* kern/syscall/file_syscalls.c, and the loops over file_table in          *)
(* proc_create_fork and proc_destroy of kern/proc/proc.c.                  *)
(*                                                                         *)
(* A process has one thread.  A handle's sleep lock is lk; what is done    *)
(* under it in one go is one step, except that a transfer sleeps inside    *)
(* the file system, and that a change of d_count is a load and a store.    *)
(* proc_create_fork changes d_count without the handle's lock, so its load *)
(* and store may enclose others.  A handle whose count is used up goes in  *)
(* steps, lock_release, lock_destroy, vfs_close and kfree, and others may  *)
(* take the lock or read the count in between.  The structure is handed    *)
(* out again once freed.  A process that touches a freed handle or lock,   *)
(* or fails an assertion, is undefined and stays where it is.              *)
(***************************************************************************)
EXTENDS Integers, FiniteSets, FiniteSetsExt

CONSTANTS Procs,        \* processes
          first,        \* the process that is there at the beginning
          OPEN_MAX,     \* descriptors per process
          FirstFd,      \* where sys_open starts to look (3)
          Handles,      \* file_handler structures
          FileSize,     \* the size of every file
          Modes,        \* the access modes that programs open files with
          MaxOffset,    \* bound on the offsets
          MaxFileCalls, \* bound on the system calls of a behaviour
          Destroyed,    \* in place of the holder of a lock that lock_destroy has freed
          NULL

FDs == 0 .. OPEN_MAX - 1
Offsets == 0 .. MaxOffset

ASSUME FileTableAssumption ==
  /\ first \in Procs
  /\ OPEN_MAX \in Nat /\ FirstFd \in FDs
  /\ FileSize \in Offsets /\ MaxFileCalls \in Nat
  /\ Modes \subseteq {"rdonly", "wronly", "rdwr"}
  /\ NULL \notin Procs \cup Handles /\ Destroyed \notin Procs \cup {NULL}

VARIABLES file_table,  \* each process's table
          inUse,       \* the programs' view: descriptors opened and not closed
          allocated,   \* handles that are not free
          d_count, offset, mode,  \* fields of the handles
          lk,          \* holder of each handle's lock
          pc,          \* where each process is
          loc,         \* locals of its system call
          filecalls,   \* bound: the system calls so far
          counted,     \* history: the entries of the tables that d_count counts
          raced,       \* history: handles whose count was changed by two at once
          reused       \* history: handles that a process used after it had given them back

history == <<counted, raced, reused>>
vars == <<file_table, inUse, allocated, d_count, offset, mode, lk, pc, loc, filecalls, history>>
fields == <<d_count, offset, mode>>

Idle == [h |-> NULL, fd |-> 0, n |-> 0, to |-> NULL]

\* proc_create_runprogram: descriptor 0 stands for the three consoles.
Init ==
  \E h \in Handles :
    /\ file_table = [p \in Procs |-> [fd \in FDs |-> IF p = first /\ fd = 0 THEN h ELSE NULL]]
    /\ inUse = [p \in Procs |-> IF p = first THEN {0} ELSE {}]
    /\ allocated = {h}
    /\ d_count = [g \in Handles |-> IF g = h THEN 1 ELSE 0]
    /\ offset = [g \in Handles |-> 0]
    /\ mode = [g \in Handles |-> "rdwr"]
    /\ lk = [g \in Handles |-> NULL]
    /\ pc = [p \in Procs |-> IF p = first THEN "user" ELSE "none"]
    /\ loc = [p \in Procs |-> Idle]
    /\ filecalls = 0
    /\ counted = {<<first, 0>>}
    /\ raced = {} /\ reused = {}

-----------------------------------------------------------------------------
Goto(p, label, l) ==
  /\ pc' = [pc EXCEPT ![p] = label]
  /\ loc' = [loc EXCEPT ![p] = l]

\* A descriptor that the system calls accept, and the handle behind it: one
\* that is closed keeps its entry while others share the handle.
Names(p, fd, h) ==
  /\ pc[p] = "user"
  /\ h = file_table[p][fd]
  /\ h # NULL

lock_acquire(p, h) ==
  /\ h \in allocated
  /\ lk[h] = NULL
  /\ lk' = [lk EXCEPT ![h] = p]

\* It is the holder's, or an assertion fails.
lock_release(p, h) ==
  /\ h \in allocated
  /\ lk[h] = p
  /\ lk' = [lk EXCEPT ![h] = NULL]

\* Whether somebody holds the lock is not looked at.
lock_destroy(h) ==
  /\ h \in allocated
  /\ lk[h] # Destroyed
  /\ lk' = [lk EXCEPT ![h] = Destroyed]

\* vfs_close and kfree
Free(h) ==
  /\ h \in allocated
  /\ allocated' = allocated \ {h}
  /\ lk' = [lk EXCEPT ![h] = NULL]
  /\ d_count' = [d_count EXCEPT ![h] = 0]
  /\ offset' = [offset EXCEPT ![h] = 0]
  /\ mode' = [mode EXCEPT ![h] = "rdwr"]

-----------------------------------------------------------------------------
\* The lowest free descriptor from FirstFd on, a fresh handle, and the offset at
\* the end of the file for O_APPEND.  Every failure leaves all as it was.
sys_open(p) ==
  \E h \in Handles \ allocated, m \in Modes, append \in BOOLEAN :
    LET free == {i \in FDs : i >= FirstFd /\ file_table[p][i] = NULL} IN
    /\ pc[p] = "user"
    /\ free # {}
    /\ file_table' = [file_table EXCEPT ![p][Min(free)] = h]
    /\ inUse' = [inUse EXCEPT ![p] = @ \cup {Min(free)}]
    /\ allocated' = allocated \cup {h}
    /\ d_count' = [d_count EXCEPT ![h] = 1]
    /\ offset' = [offset EXCEPT ![h] = IF append THEN FileSize ELSE 0]
    /\ mode' = [mode EXCEPT ![h] = m]
    /\ UNCHANGED <<lk, pc, loc>>

\* sys_read and sys_write: check the mode, take the lock, enter the file system
StartTransfer(p, forbidden) ==
  \E fd \in FDs, h \in Handles :
    /\ Names(p, fd, h)
    /\ mode[h] # forbidden
    /\ lock_acquire(p, h)
    /\ Goto(p, "io", [Idle EXCEPT !.h = h, !.n = offset[h]])
    /\ UNCHANGED <<file_table, inUse, allocated, fields>>

sys_read(p) == StartTransfer(p, "wronly")
sys_write(p) == StartTransfer(p, "rdonly")

\* The file system moved the uio's offset; an error leaves the handle's alone.
transfer_done(p) ==
  LET h == loc[p].h IN
  /\ pc[p] = "io"
  /\ \E moved \in {offset[h]} \cup (loc[p].n .. MaxOffset) :
       offset' = [offset EXCEPT ![h] = moved]
  /\ lock_release(p, h)
  /\ Goto(p, "user", Idle)
  /\ UNCHANGED <<file_table, inUse, allocated, d_count, mode>>

\* Fault: the offset is moved without the lock.
sys_lseek_unlocked(p) ==
  \E fd \in FDs, h \in Handles, to \in Offsets :
    /\ Names(p, fd, h)
    /\ offset' = [offset EXCEPT ![h] = to]
    /\ UNCHANGED <<file_table, inUse, allocated, d_count, mode, lk, pc, loc>>

\* SEEK_SET, SEEK_CUR and SEEK_END by a signed distance; EINVAL below zero
sys_lseek(p) ==
  \E fd \in FDs, h \in Handles, dist \in -MaxOffset .. MaxOffset :
    /\ Names(p, fd, h)
    /\ h \in allocated /\ lk[h] = NULL
    /\ \E from \in {0, offset[h], FileSize} :
         /\ from + dist \in Offsets
         /\ offset' = [offset EXCEPT ![h] = from + dist]
    /\ UNCHANGED <<file_table, inUse, allocated, d_count, mode, lk, pc, loc>>

-----------------------------------------------------------------------------
(* sys_close *)
sys_close(p) ==
  \E fd \in FDs, h \in Handles :
    /\ Names(p, fd, h)
    /\ lock_acquire(p, h)
    /\ Goto(p, "close_dec", [Idle EXCEPT !.h = h, !.fd = fd, !.n = d_count[h]])
    /\ UNCHANGED <<file_table, inUse, allocated, fields>>

\* Others still refer to the handle: only the count changes.
close_shared(p) ==
  LET h == loc[p].h IN
  /\ pc[p] = "close_dec"
  /\ loc[p].n - 1 > 0
  /\ d_count' = [d_count EXCEPT ![h] = loc[p].n - 1]
  /\ lock_release(p, h)
  /\ inUse' = [inUse EXCEPT ![p] = @ \ {loc[p].fd}]
  /\ Goto(p, "user", Idle)
  /\ UNCHANGED <<file_table, allocated, offset, mode>>

\* Nobody else does, by the count: the lock is released, ...
close_last(p) ==
  LET h == loc[p].h IN
  /\ pc[p] = "close_dec"
  /\ loc[p].n - 1 <= 0
  /\ d_count' = [d_count EXCEPT ![h] = loc[p].n - 1]
  /\ lock_release(p, h)
  /\ Goto(p, "close_destroy", loc[p])
  /\ UNCHANGED <<file_table, inUse, allocated, offset, mode>>

\* ... destroyed, ...
close_destroy(p) ==
  /\ pc[p] = "close_destroy"
  /\ lock_destroy(loc[p].h)
  /\ Goto(p, "close_free", loc[p])
  /\ UNCHANGED <<file_table, inUse, allocated, fields>>

\* ... and the handle freed.
close_free(p) ==
  /\ pc[p] = "close_free"
  /\ Free(loc[p].h)
  /\ file_table' = [file_table EXCEPT ![p][loc[p].fd] = NULL]
  /\ inUse' = [inUse EXCEPT ![p] = @ \ {loc[p].fd}]
  /\ Goto(p, "user", Idle)

-----------------------------------------------------------------------------
(* sys_dup2(oldfd, newfd); to holds oldfd's handle *)
\* newfd has a handle: give up that reference first
sys_dup2_onto(p) ==
  \E oldfd, newfd \in FDs, old, new \in Handles :
    /\ Names(p, oldfd, old)
    /\ oldfd # newfd
    /\ new = file_table[p][newfd]
    /\ lock_acquire(p, new)
    /\ Goto(p, "dup_dec", [h |-> new, fd |-> newfd, n |-> d_count[new], to |-> old])
    /\ UNCHANGED <<file_table, inUse, allocated, fields>>

sys_dup2(p) ==
  \E oldfd, newfd \in FDs, old \in Handles :
    /\ Names(p, oldfd, old)
    /\ oldfd # newfd
    /\ file_table[p][newfd] = NULL
    /\ Goto(p, "dup_lock", [Idle EXCEPT !.fd = newfd, !.to = old])
    /\ UNCHANGED <<file_table, inUse, allocated, fields, lk>>

dup_shared(p) ==
  /\ pc[p] = "dup_dec"
  /\ loc[p].n - 1 # 0
  /\ d_count' = [d_count EXCEPT ![loc[p].h] = loc[p].n - 1]
  /\ lock_release(p, loc[p].h)
  /\ Goto(p, "dup_lock", [Idle EXCEPT !.fd = loc[p].fd, !.to = loc[p].to])
  /\ UNCHANGED <<file_table, inUse, allocated, offset, mode>>

\* The lock is destroyed while it is held; the table still points to the handle.
dup_last(p) ==
  /\ pc[p] = "dup_dec"
  /\ loc[p].n - 1 = 0
  /\ d_count' = [d_count EXCEPT ![loc[p].h] = 0]
  /\ lock_destroy(loc[p].h)
  /\ Goto(p, "dup_free", loc[p])
  /\ UNCHANGED <<file_table, inUse, allocated, offset, mode>>

dup_free(p) ==
  /\ pc[p] = "dup_free"
  /\ Free(loc[p].h)
  /\ Goto(p, "dup_lock", [Idle EXCEPT !.fd = loc[p].fd, !.to = loc[p].to])
  /\ UNCHANGED <<file_table, inUse>>

dup_lock(p) ==
  LET old == loc[p].to IN
  /\ pc[p] = "dup_lock"
  /\ lock_acquire(p, old)
  /\ file_table' = [file_table EXCEPT ![p][loc[p].fd] = old]
  /\ Goto(p, "dup_inc", [Idle EXCEPT !.h = old, !.fd = loc[p].fd, !.n = d_count[old]])
  /\ UNCHANGED <<inUse, allocated, fields>>

dup_inc(p) ==
  /\ pc[p] = "dup_inc"
  /\ d_count' = [d_count EXCEPT ![loc[p].h] = loc[p].n + 1]
  /\ lock_release(p, loc[p].h)
  /\ inUse' = [inUse EXCEPT ![p] = @ \cup {loc[p].fd}]
  /\ Goto(p, "user", Idle)
  /\ UNCHANGED <<file_table, allocated, offset, mode>>

-----------------------------------------------------------------------------
(* proc_create_fork: under p_lock of the parent, which no one else takes *)
\* The entries that the loop from loc[p].fd on still has to visit.
Left(p) == {fd \in FDs : fd >= loc[p].fd /\ file_table[p][fd] # NULL}

sys_fork(p) ==
  \E child \in Procs :
    /\ pc[p] = "user"
    /\ pc[child] = "none"
    /\ pc' = [pc EXCEPT ![p] = "fork", ![child] = "new"]
    /\ loc' = [loc EXCEPT ![p].to = child]
    /\ UNCHANGED <<file_table, inUse, allocated, fields, lk>>

fork_load(p) ==
  LET h == file_table[p][Min(Left(p))] IN
  /\ pc[p] = "fork"
  /\ Left(p) # {}
  /\ h \in allocated
  /\ Goto(p, "fork_inc", [loc[p] EXCEPT !.h = h, !.fd = Min(Left(p)), !.n = d_count[h]])
  /\ UNCHANGED <<file_table, inUse, allocated, fields, lk>>

\* Fault: a descriptor is counted, but left out of the child's table.
fork_inc_uncopied(p) ==
  /\ pc[p] = "fork_inc"
  /\ d_count' = [d_count EXCEPT ![loc[p].h] = loc[p].n + 1]
  /\ Goto(p, "fork", [Idle EXCEPT !.to = loc[p].to, !.fd = loc[p].fd + 1])
  /\ UNCHANGED <<file_table, inUse, allocated, offset, mode, lk>>

fork_inc(p) ==
  /\ pc[p] = "fork_inc"
  /\ d_count' = [d_count EXCEPT ![loc[p].h] = loc[p].n + 1]
  /\ file_table' = [file_table EXCEPT ![loc[p].to][loc[p].fd] = loc[p].h]
  /\ Goto(p, "fork", [Idle EXCEPT !.to = loc[p].to, !.fd = loc[p].fd + 1])
  /\ UNCHANGED <<inUse, allocated, offset, mode, lk>>

fork_done(p) ==
  /\ pc[p] = "fork"
  /\ Left(p) = {}
  /\ pc' = [pc EXCEPT ![p] = "user", ![loc[p].to] = "user"]
  /\ loc' = [loc EXCEPT ![p] = Idle]
  /\ inUse' = [inUse EXCEPT ![loc[p].to] = inUse[p]]
  /\ UNCHANGED <<file_table, allocated, fields, lk>>

-----------------------------------------------------------------------------
(* proc_destroy, called for the process once it has exited *)
exit(p) ==
  /\ pc[p] = "user"
  /\ inUse' = [inUse EXCEPT ![p] = {}]
  /\ Goto(p, "exit", Idle)
  /\ UNCHANGED <<file_table, allocated, fields, lk>>

exit_load(p) ==
  LET h == file_table[p][Min(Left(p))] IN
  /\ pc[p] = "exit"
  /\ Left(p) # {}
  /\ lock_acquire(p, h)
  /\ Goto(p, "exit_dec", [loc[p] EXCEPT !.h = h, !.fd = Min(Left(p)), !.n = d_count[h]])
  /\ UNCHANGED <<file_table, inUse, allocated, fields>>

\* d_count-- yields the old value: the handle is kept when that is positive.
exit_kept(p) ==
  /\ pc[p] = "exit_dec"
  /\ loc[p].n > 0
  /\ d_count' = [d_count EXCEPT ![loc[p].h] = loc[p].n - 1]
  /\ lock_release(p, loc[p].h)
  /\ file_table' = [file_table EXCEPT ![p][loc[p].fd] = NULL]
  /\ Goto(p, "exit", [Idle EXCEPT !.fd = loc[p].fd + 1])
  /\ UNCHANGED <<inUse, allocated, offset, mode>>

exit_last(p) ==
  /\ pc[p] = "exit_dec"
  /\ loc[p].n <= 0
  /\ d_count' = [d_count EXCEPT ![loc[p].h] = loc[p].n - 1]
  /\ lock_release(p, loc[p].h)
  /\ Goto(p, "exit_destroy", loc[p])
  /\ UNCHANGED <<file_table, inUse, allocated, offset, mode>>

exit_destroy(p) ==
  /\ pc[p] = "exit_destroy"
  /\ lock_destroy(loc[p].h)
  /\ Goto(p, "exit_free", loc[p])
  /\ UNCHANGED <<file_table, inUse, allocated, fields>>

exit_free(p) ==
  /\ pc[p] = "exit_free"
  /\ Free(loc[p].h)
  /\ file_table' = [file_table EXCEPT ![p][loc[p].fd] = NULL]
  /\ Goto(p, "exit", [Idle EXCEPT !.fd = loc[p].fd + 1])
  /\ UNCHANGED inUse

exit_done(p) ==
  /\ pc[p] = "exit"
  /\ Left(p) = {}
  /\ Goto(p, "none", Idle)
  /\ UNCHANGED <<file_table, inUse, allocated, fields, lk>>

\* Processes between the load of a handle's count and its store
Changing(h) ==
  {p \in Procs : /\ pc[p] \in {"fork_inc", "close_dec", "dup_dec", "dup_inc", "exit_dec"}
                 /\ loc[p].h = h}

Step(p) ==
  \/ sys_open(p) \/ sys_read(p) \/ sys_write(p) \/ transfer_done(p) \/ sys_lseek(p)
  \/ sys_close(p) \/ close_shared(p) \/ close_last(p) \/ close_destroy(p) \/ close_free(p)
  \/ sys_dup2_onto(p) \/ sys_dup2(p) \/ dup_shared(p) \/ dup_last(p) \/ dup_free(p)
  \/ dup_lock(p) \/ dup_inc(p)
  \/ sys_fork(p) \/ fork_load(p) \/ fork_inc(p) \/ fork_done(p)
  \/ exit(p) \/ exit_load(p) \/ exit_kept(p)
  \/ exit_last(p) \/ exit_destroy(p) \/ exit_free(p) \/ exit_done(p)

\* The entries that process p begins to give back in this step: close_dec and
\* the like hold the entry's handle and descriptor.
GivingBack(p) ==
  IF pc[p] # pc'[p] /\ pc'[p] \in {"close_dec", "dup_dec", "exit_dec"}
  THEN {<<p, loc'[p].fd>>} ELSE {}

\* The entries that it fills: fork fills one of its child, dup2 may put back
\* the handle that was there.
FilledBy(p) ==
  {e \in Procs \X FDs :
    \/ file_table'[e[1]][e[2]] \notin {NULL, file_table[e[1]][e[2]]}
    \/ pc'[p] = "dup_inc" /\ e = <<p, loc'[p].fd>>}

\* The handles that it is at work with through none of its counted entries.
Borrowed(p) ==
  {h \in Handles :
    /\ \/ pc[p] \in {"io", "fork_inc"} /\ loc[p].h = h
       \/ pc[p] \in {"dup_dec", "dup_free", "dup_lock"} /\ loc[p].to = h
    /\ ~\E fd \in FDs : file_table[p][fd] = h /\ <<p, fd>> \in counted}

\* The book-keeping of the history variables.
Next ==
  \E p \in Procs :
    /\ Step(p)
    /\ filecalls' = filecalls + (IF pc[p] = "user" THEN 1 ELSE 0)
    /\ filecalls' <= MaxFileCalls
    /\ counted' = (counted \ GivingBack(p)) \cup FilledBy(p)
    /\ raced' = raced \cup {h \in Handles : Cardinality(Changing(h)') > 1}
    /\ reused' = reused \cup Borrowed(p)'
                  \cup {file_table[e[1]][e[2]] : e \in GivingBack(p) \ counted}

Spec == Init /\ [][Next]_vars

-----------------------------------------------------------------------------
(* Properties *)
\* The handle's count can be wrong: fork's unlocked increment met another
\* change of it, or a process went on to use an entry that it had given back.
Miscounted == raced \cup reused

\* While a read or a write is in the file system its handle is not freed, no
\* other process has the handle's lock, and the offset it started from is
\* still the handle's: processes that share an open never read or overwrite
\* the same bytes, and none closes the file under the other.  (A miscounted
\* handle may be freed in the middle of a transfer: lock_destroy does not mind
\* a lock that was taken after the release before it.)
TransferAtOffset ==
  \A p \in Procs : pc[p] = "io" =>
    LET h == loc[p].h IN
    \/ h \in Miscounted
    \/ h \in allocated /\ lk[h] = p /\ offset[h] = loc[p].n

References(h) == {<<p, fd>> \in Procs \X FDs : file_table[p][fd] = h}

\* A handle's count never exceeds the table entries that point to it, unless
\* fork's unlocked increment has met another change of that count: every
\* reference that fork and dup2 count is given back by close, dup2 or exit.
CountNeverAboveReferences ==
  \A h \in allocated \ raced : d_count[h] <= Cardinality(References(h))

\* Nobody works with a handle that is being taken apart or is freed, whatever
\* processes share it and however they fork, close, dup2 and exit, unless it
\* was miscounted.
NoUseAfterClose ==
  \A p \in Procs : pc[p] \in {"io", "close_dec", "dup_dec", "dup_inc", "exit_dec", "fork_inc"} =>
    loc[p].h \in Miscounted \/ (loc[p].h \in allocated /\ lk[loc[p].h] # Destroyed)

\* What sharing handles between processes must keep: a transfer has its handle,
\* its lock and its offset to itself, and counts are given back.
DescriptorsSound == TransferAtOffset /\ NoUseAfterClose /\ CountNeverAboveReferences

-----------------------------------------------------------------------------
(* What a manual page says, and the code does not do *)
\* close(2): "Other file handles are not affected in any way, even if they are
\* attached to the same file".  Every descriptor a program has open has a handle.
OpenDescriptorsHaveHandles ==
  \A p \in Procs : \A fd \in inUse[p] :
    pc[p] = "user" => file_table[p][fd] \in allocated
=============================================================================
