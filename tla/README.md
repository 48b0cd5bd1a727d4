# A verification of the kernel in TLA+

This directory holds TLA+ models of the system under `src` (an OS/161 kernel with its
own locks, processes, files and virtual memory, its libraries, drivers, file systems and
tools), the TLC configurations that check them on small instances, and TLAPS proofs of
the parts everything else stands on, for every size. Paths below are relative to
`src/kern` unless they say otherwise.

`PROJECT.json` is the index: the components and how far each is modelled, the runs, the
source lines behind each definition, for each property a plausible bug that it catches,
the hazards of the code and the properties that would show them, the findings, and the
theorems.

## The system and its parts

```
   user programs, libc (Libc, Stdlib), frack (Frack), sfsck (Sfsck)
        |  system calls, faults and interrupts: Traps
   +----v---------------------------------------------------------------+
   | fork waitpid _exit | open read write   | execv       | page faults  |
   | ProcTable          | close dup2 lseek  | runprogram  | sbrk, TLB    |
   |                    | FileTable         | Exec        | AddrSpace    |
   +--------------------|-------------------+-------------|--------------+
                        | VFS, vnodes: Vfs                |
                        | semfs: Semfs   SFS: Sfs, Volume | coremap: Coremap
                        | emufs: Emu                      | kmalloc: Kmalloc
                        | disk: Lhd -> BlockDevice        |
                        | console: Console  bus: Lamebus  |
   sleep locks and CVs: CondVar -> Monitor       semaphores: Semaphore
   +--------------------------------------------------------------------+
   | wait channels, run queues, migration: Sched      IPIs: Ipi         |
   | spinlocks, spl, interrupt entry: Spinlock                          |
   +--------------------------------------------------------------------+
```

| Part | Source | Modules | |
|---|---|---|---|
| Spinlocks, interrupt level | `thread/spinlock.c`, `thread/spl.c`, `arch/mips/locore/trap.c` | `Spinlock` | checked |
| Trap entry and exit, fault recovery | `arch/mips/locore`, `arch/mips/syscall`, `vm/copyinout.c` | `Traps` | checked |
| Scheduler, wait channels | `thread/thread.c`, `thread/clock.c` | `Sched`, `SchedControl`, `SchedMoves`, `SchedProofs` | proved |
| Interprocessor interrupts | `thread/thread.c`, `arch/sys161/dev/lamebus_machdep.c` | `Ipi` | finding |
| Sleep locks, condition variables | `thread/synch.c` | `CondVar`, `Monitor`, `CondVarProofs` | proved, refines |
| Semaphores | `thread/synch.c` | `Semaphore`, `ServicesProofs` | proved |
| Process table, fork, waitpid, exit | `proc/proc.c`, `syscall/proc_syscalls.c`, `main/menu.c` | `ProcTable`, `ProcTableInv`, `ProcTableSteps`, `ProcTableProofs` | proved |
| execv, program loading, copyin | `syscall/loadelf.c`, `syscall/runprogram.c`, `syscall/proc_syscalls.c`, `vm/copyinout.c` | `Exec` | checked |
| File tables and handles | `syscall/file_syscalls.c`, `proc/proc.c` | `FileTable` | checked, finding |
| VFS, vnodes | `vfs/` | `Vfs` | checked |
| User semaphores | `fs/semfs/` | `Semfs` | checked |
| SFS, mksfs, sfsck | `fs/sfs/`, `../userland/sbin` | `SfsDisk`, `Sfs`, `Sfsck`, `Volume` | checked |
| Crash tester | `../userland/testbin/frack` | `Frack` | checked |
| Physical pages | `vm/vm.c` | `Coremap`, `ServicesProofs` | proved |
| Address spaces, faults, TLB, sbrk | `vm/vm.c`, `vm/addrspace.c`, `syscall/proc_syscalls.c` | `AddrSpace` | checked |
| Kernel heap | `vm/kmalloc.c` | `Kmalloc` | checked |
| Disk | `dev/lamebus/lhd.c`, `vfs/device.c` | `Lhd`, `BlockDevice`, `ServicesProofs` | proved, refines |
| Emulator file system | `dev/lamebus/emu.c` | `Emu` | checked |
| Console, serial port | `dev/generic/console.c`, `dev/lamebus/lser.c`, `lib/kprintf.c`, `lib/kgets.c` | `Console` | checked |
| Bus, timer, clock | `dev/lamebus/lamebus.c`, `dev/lamebus/ltimer.c`, `thread/clock.c` | `Lamebus` | checked |
| Kernel library | `lib/`, `thread/threadlist.c` | `KernLib`, `ContainerTests` | checked |
| C library, gcc support | `../common`, `../userland/lib/libc` | `Libc`, `Stdlib` | checked |
| airballoon, kernel tests | `synchprobs/airballoon.c`, `test/` | `AirBalloon`, `KernelTests`, `ContainerTests` | checked |

How they are put together:

- `Kmalloc` extends `Coremap`: the heap's page requests are steps of the coremap's own
  actions, interleaved with those of processes. `AddrSpace` instantiates `Coremap` and is
  checked to keep its contract (`UsesCoremap`), so that what is proved of the coremap holds
  under it.
- `ProcTable`, `FileTable`, `Semfs`, `Vfs`, `Emu`, `AirBalloon` and `KernelTests` take a
  section under a sleep lock as one step and a wait on a condition variable as a return to
  the loop's test. The refinement of `Monitor` by `CondVar`, which is proved, is what allows
  them to. `Lhd`, `Console`, `Emu` and the tests use semaphores as `SemaphoreSound` lets them.
- `Sched` and `Spinlock` are two views of `thread_switch`: the first has the queues and takes
  interrupt masking as given, the second has the interrupt level, the lock words and the call
  stacks, and keeps the run queue as a set. `Traps` has the stacks below them.
- `Volume` runs the routines of `Sfs` on the disk format of `SfsDisk` and the passes of
  `Sfsck` over what a crash leaves.
- The `MC...` modules put components that share no state side by side, one of them active
  in each behaviour, so that one run asks one question of one layer of the system.

## Conventions

- An action is named after the function it models, or after the function and the place
  in it (`acq_`, `rel_`, `sw_`, `mg_`, `fork_`...). `pc` says where a thread, CPU or
  process is; what nobody else can see or influence is one step.
- A failed `KASSERT` or a panic stops the one it hits at its label: the property about
  it says that the label is never reached with the assertion false. In `Kmalloc`
  a failed assertion stops the machine.
- Where the code reads freed or foreign memory its behaviour is undefined. The model
  stops whoever would do it, and makes no claim about that thread or process from there
  on. A structure that is freed is handed out again, so that stale pointers
  meet new owners. `lock_create` does not set `lk_holder`: it starts arbitrary.
- Definitions called "Fault" are plausible bugs; none of them is part of a specification.

## The modules

**CondVar, Monitor.** Variables are the fields of `struct lock` and `struct cv`, with
`lk_spinlock` and `cv_spinlock` as their holders and the wait channels as sequences; `link`
is the return address of a call and `inside` the callers' view of who holds the lock. Every
statement between two spinlock operations is a step; `wchan_sleep` queues the thread and
releases the spinlock at once, which `Sched` justifies (the spinlock is released after the
thread is on the channel). `Monitor` is the promise of `include/synch.h`: atomic acquire,
release, release-and-wait, signal, broadcast.

**Semaphore.** `P` and `V` with the spinlock, the channel and two history counters:
`posted` (calls of V) and `passed` (returns of P).

**Sched.** Control is per CPU: `pc[c]` is where CPU `c` is, on the stack of
`c_curthread[c]`; `resume` is where a thread goes on when it is switched to. The
run queue locks are variables because `thread_switch` takes one on one stack and releases
it on another. `newstate`, `list`, `victims` and `mig` are locals of `thread_switch`,
`wchan_wakeall` and `thread_consider_migration`. Interrupts (timer, IPI, device) arrive
while a thread runs or in `cpu_idle`.

**Ipi.** The pending bits under `c_ipi_lock` and the interrupt line, which is raised and
cleared outside it, for unidle and offline.

**Spinlock.** `stack[t]` is the call stack of thread `t`; a frame remembers the lock it
works on, the locks its code holds and the spl it saved. `irq` is the enable bit of a CPU,
`t_curspl` and `t_iplhigh_count` travel with the thread. Interrupts arrive whenever the bit
is set.

**Traps.** A kernel stack is the sequence of its trap frames. A processor finds its stack and
its thread in `cpustacks` and `cputhreads`, which a return from a trap refreshes. Threads
fault, call, are interrupted, move, fork and are killed; a bus error stops the machine.

**ProcTable.** The arrays of `struct proc_table`, the proc structures that are
allocated, their children, and one thread for each process. `answer` and `exitcode` are
history. Memory may run out at every step of the creation of a process that allocates,
`MaxFailures` times in a behaviour; when it is `array_add` of the new child that fails,
`proc_table_add` goes on and the process runs without being anybody's child. A fork that
finds the table full changes nothing and has no step. The scan for the next free pid runs
past the last prepared entry when there is none; `OutOfTable` stands for where it stops, and
waitpid may be called with it.

**Exec.** The argument vector cell by cell from the old memory to the new stack; images are
sets of segments that begin and end anywhere in a page; each allocation, copy and read of
the file may fail. The pointers to the arguments are stored without a recovery: where one of
them starts a page, and there is none for it, the machine stops.

**FileTable.** Tables, handles, their counts, locks, modes and offsets; `inUse` is the
programs' view of which descriptors are open. A change of `d_count` is a load and a
store; `proc_create_fork` does it without the handle's lock. The last close, dup2 and exit
take a handle apart in steps (release, `lock_destroy`, `vfs_close` and `kfree`), and a
structure that is freed is handed out again. History variables are `counted`, the table
entries that `d_count` counts, `raced`, the handles whose count two processes have been
changing at once, and `reused`, the handles that a process went on to use through an entry it
had given back (the finding below). `Miscounted` is the last two together.

**Vfs, Semfs.** Vnodes with their counts, the device table, working directories and the
recursive big lock; a call is as many steps as it takes the lock. A reclaim may fail with the
disk, which leaves a reference that nobody has (`leaked`). Semaphores and vnodes of
semfs are never renumbered, so that a use after `kfree` shows.

**Coremap.** `coremap`, the usage count, and `chunks`, the history of the runs that
`alloc_kpages` has handed out and that have not come back.

**Kmalloc.** The roots with their bitmaps, the page references, the list for each block
type and the list of all; `live` are the blocks that callers hold. `kmalloc_spinlock` is not a
variable: what happens between taking and dropping it is one step, and each drop (for
`alloc_kpages` and `free_kpages`) ends a step.

**AddrSpace.** A page table is the sequence of its entries; `pages` are the contents of
physical pages, one value each; `tlb[c]` is the TLB of a CPU as a set of pairs; `memory` is
history, what each program should find. `dying` is an address space that `as_destroy` is
taking apart. A call of `kmalloc` may fail at any time. A process may be
preempted and may migrate between any two steps.

**SfsDisk, Sfs, Sfsck, Volume.** A volume is a record of inodes, directories, block maps and
a bitmap. All of SFS runs under the big lock, so a call is one step, computed by running the
routines on a record that also collects every state the disk went through: a power failure
leaves one of them. `fault` is the write, read or allocation that fails in the call, and
every one that the call meets is tried. `saved` is history, what a sync without fault has
promised. Behaviours begin with a volume that is not mounted, or mounted with files already
made and open (`Working`, computed by the model's own calls), so that the calls of a behaviour
are spent on what comes after.

**Frack.** The workloads of the crash tester in do mode, every volume they pass through, and
check mode over each of these volumes.

**Lhd, BlockDevice.** Registers and buffer of the card, the two semaphores and the handler;
sector numbers are cut off to a machine word. `BlockDevice` is the promise of `DEVOP_IO`:
sectors are read or written one at a time, in order, each in one step.

**Emu, Console, Lamebus.** Handles and vnodes behind one card; characters sent by interrupt
and by polling, the ring of typed ones, which a program's read and the menu's `kgets` empty;
probing and attaching with interrupts on, dispatch, also of lines that no slot has raised and
to handlers whose device is not set up, the clock's two registers and `clocksleep`.

**Libc, Stdlib, KernLib.** Pure functions against reference definitions, on words of a few
bits; the user heap, `random`, arrays, bitmaps and lists as state machines.

**AirBalloon, KernelTests, ContainerTests.** The programs of the kernel menu as clients of
what the parts promise. The balloon is run any number of times, over the same locks and
semaphores, with two killers.

## The runs

Passing runs and what they show:

| Run | Instance | States | Shows |
|---|---|---|---|
| `cond_var` | 3 threads | 73 thousand | exclusion, exact `lock_do_i_hold`, no KASSERT fails (`LockSound`); no lost wakeup or signal (`WakeupsKept`); spinlocks come back, sleepers progress; refinement of `Monitor` |
| `sched` | 2 CPUs, 5 threads | 1.2 million | no thread lost or in two places, `t_cpu` exact, migration's victims exist (`ThreadsAccounted`); no stack shared or freed in use; no unidle interrupt lost |
| `spinlocks` | 2 CPUs, 3 threads, 1 lock and the run queue locks; 2 CPUs, 3 threads with traps | 3.3 million | exclusion, masking, no assertion of spl, spinlock or trap entry fails; interrupts come back; a trap lands on its own thread's stack |
| `proc_table` | 3 pids, 3 processes, 2 failures; images of 2 segments, up to 3 short arguments, 10 and 11 empty ones | 693 thousand | unique pids, statuses that agree with the parents, no panic in exit (`TableSound`); own exit codes; no exit missed; execv delivers arguments and image or leaves nothing behind, and stops the machine only when the pointers fill a page (`ExecSound`) |
| `files` | 3 processes, 2 handles, 2 descriptors, 5 calls; 1 process in the VFS; 3 threads in semfs | 680 thousand | unless a handle was miscounted, transfers keep handle, lock and offset, nobody works with a handle that is taken apart and its count never exceeds the references; a vnode has as many references as users, and one more after a failed reclaim; a user semaphore lives while named or open, and counts exactly |
| `user_memory` | 2 CPUs, 2 processes, 2 frames, 3 virtual pages, 2 TLB entries | 1.2 million | memory is private, TLBs are current and unique, pages are accounted for, the coremap's contract is kept |
| `library` | words of 4 bits, heaps of a few blocks; 2 threads and 4 page frames in the kernel heap | 411 thousand | the C library and the kernel's containers against their definitions, and where `%X`, `bswap64` and `setstate` of the current array part from theirs; the user heap; the kernel heap's blocks, lists and pages; the coremap under it |
| `volume` | 9 blocks, 2 names, 3 calls after the start, 2 troubles; 4 files in frack | 264 thousand | blocks, links and references counted, panics in `sfs_getroot` and a mount that fails only; synced data survives crashes and repairs; sfsck's verdict is true; frack's checker follows its workloads and its silence means a version |
| `devices` | 2 disk threads, 2 emufs threads, 3 console threads, a ring of 3, 2 cards | 274 thousand | refinement of `BlockDevice`, handles owned once, output and input exact, times and sleeps right, nothing stuck |
| `kernel_tests` | 4 threads for the semaphore; 2 ropes, 2 killers, any number of runs; 3 test threads | 77 thousand | `SemaphoreSound`; the balloon is freed by the last cut, once in each run, and no two threads wait for each other; the tests pass and return |

Why the bounds are enough: in each instance every action fires and every bug listed
under `mutants` is found. Three threads are the least for a lock that
is stolen between wakeup and acquisition; four semaphore threads for two sleepers and two
posters; five threads on two CPUs for a migration that moves a thread and skips the running
one while another sleeps; three pids for a table that is full with a parent,
a child and an orphan; three processes for two that give a handle back while a third
inherits it; two handles for a dup2 from one to the other; fewer frames than two
processes want for every failure to happen; two references to a root for two threads that
fill it before it has a page; nine blocks for a file with an indirect block beside a
directory and room for one more; four keys for a ring of three that is full, is
emptied and wraps; two killers for ropes that are locked in two orders; a word that holds a few more values than the disk has
sectors for a sum that wraps.

Deadlock is checked in `sched`, `spinlocks` and `user_memory`. It is not checked where
threads may simply stop calling (`cond_var`, `kernel_tests`, `devices`), where processes may
all be gone or stopped by undefined behaviour (`proc_table`, `files`), where the calls of a
behaviour are bounded (`volume`), and in `library`, where the heap stops at a failed assertion.

Fairness is assumed in `cond_var`, `devices`, `kernel_tests` and `lost_ipi` only:

- threads: strong fairness of a thread's steps inside an operation. This stands for a
  spinlock that is not held for ever against one spinner and for a scheduler that
  runs ready threads; the code's `spinlock_acquire` has no queue, so that this is a
  property of the hardware's test-and-set and not of the code;
- clients: a holder eventually releases the lock, a duty of callers;
- hardware (`devices`): a card answers, an interrupt that is raised is taken;
- `random()` comes to each value again and again (airballoon's ropes, threadtest3's channels).

`SpinlocksReleased`, `SleepersProgress`, `DevicesProgress` and `KernelTestsReturn` rest on it;
all other passing properties are safety and rest on none.

Runs that end in a violation, each a place where the code does not do what
a comment or a manual page says:

| Run | What is said | What the code does |
|---|---|---|
| `file_close_others` | close(2): other file handles are not affected | close of a shared descriptor lowers the count and keeps the table entry, so that a second close, a later dup2 or exit lowers it again and frees a handle others have open |
| `lost_ipi` | `thread_shutdown`: stop the other CPUs | `mainbus_interrupt` clears the line after `interprocessor_interrupt` has released `c_ipi_lock`; an IPI sent in between stays pending with the line low |

## The proofs

TLAPS checks eight modules. Nothing in them is assumed but the named assumptions on the
constants, which TLC evaluates in the runs. A proof has one lemma for each action; the
theorem at the end combines them.

**CondVarProofs**, for every set of threads (`NoThread` is not one of them). Exclusion
alone is not inductive, since nothing in it says why `acq_take` finds `lk_lock` clear
only when nobody is inside. `IInv` adds, for each thread, that it owns a spinlock exactly at
the labels inside that spinlock's section (cv_wait's call of `lock_release` is one for
`cv_spinlock`), that `lk_lock` and `lk_holder` name exactly the thread that is inside or
on its way in or out, that calls return to places that fit them, and that the answer of
`lock_do_i_hold` is right; and, for the queues, that they hold sleeping threads, each once.
Results: `TypeCorrect`, `LockIsSound`, `WakeupsAreKept`, and `Refinement`: the initial states
map to initial states of `Monitor`, and each step to a step or a stutter (`acq_take` is
Acquire or Return, `rel_clear` is Release or Wait, `sig_wake` is Signal, a stutter when the
channel is empty, and `bc_wake` is Broadcast).

**SchedControl, SchedMoves, SchedProofs**, for every number of CPUs (at least one,
`CPUAssumption`) and every set of thread structures. That a thread is in one place is not
inductive: the run queue lock is dropped while migration holds threads on a private list, and
`t_cpu` is read before the lock is taken. `IInv` says, for each CPU, what its label implies
about the locks it holds, its private list and its counters; that a run queue, a private
list and the zombie list hold threads of their own CPU only, `t_cpu` naming it, each once; and
for each thread that `t_state` and `t_cpu` together tell the one place it is in. Results:
`InductiveInvariant`, `NoThreadIsLost`, `StacksAreApart`, `WakeupsReachIdleCPUs`,
`StacksOutliveTheirUse`: the safety properties of the run, all of them.

**ProcTableInv, ProcTableSteps, ProcTableProofs**, for every number of processes, threads and
table entries and any number of creations that fail half-way (`ProcTableAssumption`: there is
a kernel process and a menu thread, the table has an entry). `IInv` is: types; `OwnersInv`,
which says that each process that runs or is being created owns its structure and its
entry, that a freed pid has no structure, that a zombie's entry still names its structure and
that `pid_available` counts the free entries; `CleanInv`, which holds until memory runs out
under a creation and says that living processes share out the entries among them, each in the children
array of its parent once; and `CallsInv`, which says what is true at each label of waitpid
and _exit. `CleanInv` has to be conditional because of what the code does then: a failed fork
leaves its structure among the parent's children, and a child that `array_add` had no room for
runs without a parent. The rest of `IInv`, and with it the uniqueness of pids and the answers
of waitpid, holds after any number of such failures. Facts on least members and on counting
(`TableFacts`) are hypotheses of the lemmas and are proved in `ProcTableProofs`. Results:
`InductiveInvariant`, `TableIsSound`, `AnswersAreExitCodes`, `ExitsAreNotMissed`.

**ServicesProofs** has three parts that share nothing but the file.

*The disk*, for every size of it, every set of threads and all requests whose offset and
length are natural numbers (`LhdAssumption`: a sector has a size, and the disk has fewer
sectors than a machine word has values). The driver has one buffer, one pair of registers and
one result for everybody, so the refinement needs to know whose they are. `LhdInv` says that
`lh_clear` is a lock on the card; that a command or an answer on it belongs to the one thread
that waits; that there is one answer to a command, either still in the status register or in
`lh_result` with `lh_done` posted; that the card was told the direction, sector and data of
that thread's request; and that the sectors done are sectors of the disk, so that the
truncation to a word never changes the number given to the card, although the check at the top
of `lhd_io` overflows. Results: `DriverInvariant`, and `DiskIsBlockDevice`: the initial states
map to initial states of `BlockDevice`, and each step to a step or a stutter. The card's
completion of an operation is Transfer; the driver's own steps are Call, Fail, Finish or
stutters, since `CallOf` counts a sector from the moment the card has transferred it.

*Physical pages*, for every size of memory (`CoremapAssumption`: the coremap begins after page
0 and does not end before it begins, and NULL is no address space). `CoremapInv` is the type, `ChunksDisjoint`, `NoPageLeaked`, `UsageExact` and
`SizesRecorded`: the `chunk_size` of a run's first page is the size that was handed out, which
is all `free_kpages` goes by, and without which a free could reach into the next run. Results:
`TypeCorrect`, `MemoryIsSound`, `NothingLeaks`.

*Semaphores*, for every finite set of threads, initial count and number of posts
(`SemaphoreAssumption`). `SemInv` has `Conserved`, which counts all units: those passed, those
in `sem_count`, those a P has taken without having returned, and those a V has begun
to add; `Queue`: the channel holds sleeping threads, each once; and `SleepersCovered`: nobody
sleeps while a unit is free unless enough threads are awake to take it. Result:
`SemaphoreIsSound`.

Only model-checked, and why:

- liveness (`SpinlocksReleased`, `SleepersProgress`, `DevicesProgress`, `KernelTestsReturn`),
  which is out of the prover's reach;
- what recursive definitions compute: the libraries, SFS, sfsck, frack, execv's copies. The
  prover has no induction over data, and `Sfs`, `Sfsck`, `Frack`, `Libc`, `Stdlib` and
  `KernLib` are such computations;
- the other state machines: `Spinlock` and `Traps`, whose call stacks are sequences of frames,
  `FileTable`, `Vfs`, `Semfs`, `AddrSpace`, `Kmalloc`, `Emu`, `Console`, `Lamebus`,
  `AirBalloon` and the kernel tests. Nothing about them is out of reach in principle; they come
  after the parts they stand on.

## Observations that no run is about

Met while modelling; the models contain the behaviour.

Processes and memory:

- `pid_next` only moves when a pid is given out or a process exits, and a table that fills
  up sets it behind the last entry. `sys_waitpid` leaves the zombie's entry in the table
  until the parent exits.
- A fork whose `as_copy` fails leaves its entry RUNNING. A fork that fails half-way also leaves
  the freed structure in the parent's children array: once it is allocated again, that
  parent's exit can orphan or reap another's child.
- `proc_table_add` ignores ENOMEM of `array_add` (`proc/proc.c:575`): the new process runs, but
  its parent cannot wait for it, and when it exits as a zombie nobody reaps its entry.
- The thread of a program that cannot be loaded returns without `sys__exit`; whoever
  waits for it waits for ever. An orphan destroys its own structure in `sys__exit`, and
  `thread_exit` uses it afterwards (comment at `proc_destroy`: the only reference).
- execv destroys the old address space before the new program is loaded, so that a failure
  has nothing to return to. It counts arguments from `args[1]`, does not check all its
  allocations, and accepts empty arguments after ARG_MAX is used up. It stores the new `argv`
  without copyout (`syscall/proc_syscalls.c:386`): when memory runs out there, the kernel
  stops instead of failing the call. That takes pointers that fill a page, 1023 arguments.
- `vm_fault` frees a new entry without unlinking it when there is no page for it.
  `as_define_region` masks the address before it adds its page offset (`vm/addrspace.c:247`,
  comment at 233). Copies of length 0 always fail with EFAULT.
- `allocpageref` marks a reference before the root has a page and keeps it marked when none can
  be had, against the assertion in `freepageref` (`vm/kmalloc.c:318`).

Files:

- `proc_destroy` tests a handle's count before the decrement, so that the last owner's exit
  keeps the handle allocated. `proc_create_fork` increments `d_count` without the handle's lock,
  and an increment can be lost; `raced` sets such handles apart. The lock of a handle is
  released before it is destroyed, and `lock_destroy` does not assert that it is free: once a
  handle is miscounted, it is freed under whoever took the lock in between.
- `vfs_setbootfs` refuses names with a colon; `vfs_doadd` leaks on EEXIST; `vfs_mount` does not
  check volume names; a reboot by a user process clears only that process's working directory.
- semfs: a wakeup can be lost (`fs/semfs/semfs_vnops.c:145`, comment at 136); remove against
  reclaim frees twice; `semfs_creat` can return 0 without a vnode; the table keeps NULL holes.
- SFS: `sfs_itrunc` keeps the block exactly at the new end in the indirect block, leaves freed
  blocks named when its write fails, and does not zero the tail; `sfs_sync` ignores errors of
  VOP_FSYNC; a failed reclaim leaves a reference nobody owns (emufs too), and with it a volume
  that cannot be unmounted. `sfs_getroot` panics when the root's inode cannot be read or there
  is no memory for its vnode. An `sfs_domount` that fails after `sfs_device` is set runs into the
  KASSERT of `sfs_fs_destroy`. A fresh volume of mksfs makes sfsck exit UNRECOV; an emptied indirect block
  is freed by the second run of sfsck only; blocks in two files are not fixed; `dumpsfs -r`
  loops on ".".
- frack: a workload that shortens a file to part of it makes check mode stop or complain
  (`../userland/testbin/frack/check.c:2071`), so that those workloads are left out of the run;
  copyandrename reports a false error; writetruncseq opens files it never created; a truncation
  to where a write starts, and a write after link and unlink, fail assertions; a rename onto
  itself ends the program; checking a file's contents leaks its descriptor.
- emufs: `emufs_loadvnode` returns with the big lock held when memory runs out;
  `emufs_addtovfs` leaks; truncating a directory gives ENOTDIR.

Devices and libraries:

- The console's callbacks are set before `config_con`, and an interrupt handler can run before
  its device is configured (`Unset` in `Lamebus`); a failed configuration leaves the slot marked,
  and when it fails after `the_console` was set, a second console meets the KASSERT there. A read
  from the console loses a character when the copy fails; it shares no lock with `kgets`.
  IPI_TLBSHOOTDOWN_ALL is not handled, and nothing sends it.
- `bswap64` shifts bytes 4 and 5 the wrong way, against the comment at `lib/bswap.c:36`;
  `setstate` with the current array rewinds it, against the comment in
  `../userland/lib/libc/stdlib/random.c`; printf has no `%X`, which its manual page lists. The
  properties of `library` say what happens instead. `%-05d` pads with zeros on the right;
  malloc's rounding wraps near SIZE_MAX.
- cvtest's "too fast" exit keeps the lock; a failed allocation in km1 and km2 leaks two older
  blocks; fstest leaves its file when a read fails. `test/kmalloctest.c` is not compiled.

## What is not modelled

- Swap: `evict_page` has no caller, so entries are never SWAPPED. dumbvm is not compiled
  with `vm.c`.
- In the scheduler: panics on other CPUs, starting CPUs, TLB shootdown IPIs
  (nothing sends them), and liveness.
- `sys_sbrk` with increments near the limits of a long: the code relies on signed overflow,
  which is undefined. Increments in `AddrSpace` are whole pages.
- `sem_count` at 2^32, offsets beyond the bound, guard bands and labels of `kmalloc`, logging.
- `chdir` and `__getcwd` at the system call, which pass their argument to the VFS; symbolic
  links and subdirectories, which no file system here has.
- The contents of emufs files, register access, the power button.
- stdio, time, getopt and the other user programs; frack's seeding of its random workloads.
- TLB instructions and the context switch are single steps; machine start-up is assembly
  that runs once.
