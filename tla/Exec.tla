-------------------------------- MODULE Exec --------------------------------
(***************************************************************************)
(* Replacing a program: sys_execv of kern/syscall/proc_syscalls.c,         *)
(* runprogram.c, load_elf and load_segment of loadelf.c, the parts of      *)
(* kern/vm/addrspace.c and vm_fault that decide which addresses are        *)
(* valid, and the copies of kern/vm/copyinout.c.                           *)
(*                                                                         *)
(* Memory is a function from addresses to bytes.  A pointer takes          *)
(* PTR_SIZE cells: its address in the first, PTR in the others.  A string  *)
(* in memory ends with NUL.  The caller's argument list is a sequence of   *)
(* strings, its terminating NULL left out, and is never empty: the code    *)
(* does not look for the NULL at index 0.                                  *)
(*                                                                         *)
(* An image is [ok, segs, length]: whether its header is that of an        *)
(* executable, its program headers, and the length of the file.  Byte k of *)
(* the file is FileByte(k).                                                *)
(***************************************************************************)
EXTENDS Integers, Sequences, SequencesExt, FiniteSets, FiniteSetsExt

CONSTANTS VM_PAGE,        \* PAGE_SIZE
          USERTOP,        \* USERSPACETOP, where the stack starts
          ADDRESSES,      \* how many addresses there are
          STACKPAGES,     \* VM_STACKPAGES
          PTR_SIZE,       \* sizeof(char *)
          ARG_MAX,
          ArgLists,       \* the argument lists of the caller
          Images          \* the files that may be executed

ASSUME ExecAssumption ==
  /\ {VM_PAGE, USERTOP, ADDRESSES, PTR_SIZE, ARG_MAX} \subseteq Nat \ {0}
  /\ USERTOP < ADDRESSES /\ STACKPAGES * VM_PAGE <= USERTOP
  /\ \A a \in ArgLists : a # <<>>

VARIABLE ex  \* the call in progress

NUL == 0
PTR == -1
FileByte(k) == 1 + (k % 7)

-----------------------------------------------------------------------------
(* copyinout.c.  Addresses wrap around at ADDRESSES. *)
Wrap(a) == a % ADDRESSES

\* Fault: the end of the block is one too far.
copycheck_long(bot, len) ==
  LET top == Wrap(bot + len)
  IN IF top < bot \/ bot >= USERTOP THEN [err |-> "EFAULT", stoplen |-> len]
     ELSE [err |-> "none", stoplen |-> IF top >= USERTOP THEN USERTOP - bot ELSE len]

copycheck(bot, len) ==
  LET top == Wrap(bot + len - 1)
  IN IF top < bot \/ bot >= USERTOP THEN [err |-> "EFAULT", stoplen |-> len]
     ELSE [err |-> "none", stoplen |-> IF top >= USERTOP THEN USERTOP - bot ELSE len]

\* copyin and copyout of a block: which error, when memory holds the cells.
copyblock(mem, bot, len) ==
  LET check == copycheck(bot, len)
  IN IF check.err # "none" \/ check.stoplen # len THEN "EFAULT"
     ELSE IF bot .. bot + len - 1 \subseteq DOMAIN mem THEN "none" ELSE "EFAULT"

\* copyinstr: the string found, of at most maxlen cells with its NUL.
copystr(mem, bot, maxlen) ==
  LET check == copycheck(bot, maxlen)
      limit == Min({maxlen, check.stoplen})
      nuls == {i \in 0 .. limit - 1 : bot + i \in DOMAIN mem /\ mem[bot + i] = NUL}
      end == IF nuls = {} THEN limit ELSE Min(nuls)
      touched == bot .. bot + (IF nuls = {} THEN end - 1 ELSE end)
  IN CASE check.err # "none" -> [err |-> check.err, str |-> <<>>]
       [] check.err = "none" /\ ~(touched \subseteq DOMAIN mem) -> [err |-> "EFAULT", str |-> <<>>]
       [] check.err = "none" /\ touched \subseteq DOMAIN mem /\ nuls # {} ->
            [err |-> "none", str |-> [i \in 1 .. end |-> mem[bot + i - 1]]]
       [] OTHER -> [err |-> IF check.stoplen < maxlen THEN "EFAULT" ELSE "ENAMETOOLONG",
                    str |-> <<>>]

-----------------------------------------------------------------------------
(* The address space of the new program. *)
PageOf(a) == a - (a % VM_PAGE)
RoundUp(n) == PageOf(n + VM_PAGE - 1)

\* The base is aligned before its offset in the page is taken.
as_define_region(seg) == [start |-> PageOf(seg.vaddr), size |-> RoundUp(seg.memsz)]

as_prepare_load(regions) ==
  RoundUp(Max({0} \cup {regions[i].start + regions[i].size : i \in DOMAIN regions}))

\* The addresses that vm_fault accepts: the stack and the regions; the heap
\* is empty until the program asks for memory.
ValidAddresses(regions) ==
  LET InRegion(a) == \E i \in DOMAIN regions :
                       PageOf(a) >= regions[i].start
                       /\ PageOf(a) < regions[i].start + regions[i].size
  IN {a \in 0 .. USERTOP - 1 : a >= USERTOP - STACKPAGES * VM_PAGE \/ InRegion(a)}

Skipped == {"PT_NULL", "PT_PHDR", "PT_MIPS_REGINFO"}
Loadable(image) == SelectSeq(image.segs, LAMBDA s : s.type = "PT_LOAD")

\* load_segment: the file's bytes over zeroed pages; the file may end early,
\* the addresses may not be valid.
load_segment(mem, image, seg) ==
  LET size == Min({seg.filesz, seg.memsz})
      there == Max({0, Min({size, image.length - seg.offset})})
  IN CASE there > 0 /\ copyblock(mem, seg.vaddr, there) # "none" -> [err |-> "EFAULT", mem |-> mem]
       [] there < size /\ (there = 0 \/ copyblock(mem, seg.vaddr, there) = "none") ->
            [err |-> "ENOEXEC", mem |-> mem]
       [] OTHER ->
            [err |-> "none",
             mem |-> [a \in DOMAIN mem |->
                        IF a >= seg.vaddr /\ a < seg.vaddr + size
                        THEN FileByte(seg.offset + a - seg.vaddr) ELSE mem[a]]]

\* load_elf: all regions first, then the segments in turn.
load_elf(image) ==
  LET regions == [i \in DOMAIN Loadable(image) |-> as_define_region(Loadable(image)[i])]
      empty == [a \in ValidAddresses(regions) |-> 0]
      next(seg, r) == IF r.err = "none" THEN load_segment(r.mem, image, seg) ELSE r
      loaded == FoldLeft(LAMBDA r, seg : next(seg, r), [err |-> "none", mem |-> empty],
                         Loadable(image))
      unknown == \E i \in DOMAIN image.segs : image.segs[i].type \notin Skipped \cup {"PT_LOAD"}
  IN [err |-> IF ~image.ok \/ unknown THEN "ENOEXEC" ELSE loaded.err,
      mem |-> loaded.mem, heap_start |-> as_prepare_load(regions)]

-----------------------------------------------------------------------------
Idle == [at |-> "idle", args |-> <<>>, argc |-> 0, args_in |-> <<>>, left |-> 0, held |-> {},
         as |-> "old", image |-> [ok |-> FALSE, segs |-> <<>>, length |-> 0],
         mem |-> <<>>, heap |-> 0, arg_addr |-> 0, argv |-> 0, out |-> 0, err |-> "none"]

ExecInit == ex = Idle

Args(n) == {<<"arg", i>> : i \in 1 .. n}
Arrays == {<<"args_in", 0>>, <<"size", 0>>}
Progname == {<<"progname", 0>>}
Vnode == {<<"vnode", 0>>}

\* An error path: the error, and what it frees.
Fail(err, freed) == ex' = [ex EXCEPT !.at = "failed", !.err = err, !.held = @ \ freed]

\* The program's name is copied in; a missing buffer faults in the copy.
sys_execv(args) ==
  /\ ex.at = "idle"
  /\ \/ ex' = [ex EXCEPT !.at = "count", !.args = args, !.held = Progname]
     \/ \E err \in {"EFAULT", "ENAMETOOLONG"} : Fail(err, Progname)

\* The pointers are counted from index 1; then the two arrays.
execv_count ==
  /\ ex.at = "count"
  /\ \/ /\ Len(ex.args) <= ARG_MAX
        /\ ex' = [ex EXCEPT !.at = "copy", !.argc = Len(ex.args), !.left = ARG_MAX,
                            !.held = @ \cup Arrays]
     \/ Len(ex.args) > ARG_MAX /\ Fail("E2BIG", Progname)
     \/ Fail("EFAULT", Progname)
     \/ Fail("ENOMEM", Progname \cup Arrays)

\* One argument n: its length within what is left, a block, the copy.  When
\* the copy fails the block is there and is freed with those before it.
execv_copy ==
  /\ ex.at = "copy" /\ Len(ex.args_in) < ex.argc
  /\ LET n == Len(ex.args_in) + 1
         fits == Len(ex.args[n]) <= Max({0, ex.left - 1})
     IN \/ /\ fits
           /\ ex' = [ex EXCEPT !.args_in = Append(@, ex.args[n]),
                               !.left = @ - (Len(ex.args[n]) + 1), !.held = @ \cup {<<"arg", n>>}]
        \/ ~fits /\ Fail("E2BIG", Progname \cup Arrays \cup Args(n - 1))
        \/ Fail("EFAULT", Progname \cup Arrays \cup Args(n - 1))
        \/ fits /\ ex' = [ex EXCEPT !.at = "failed", !.err = "EFAULT",
              !.held = (@ \cup {<<"arg", n>>}) \ (Progname \cup Arrays \cup Args(n))]

execv_open ==
  /\ ex.at = "copy" /\ Len(ex.args_in) = ex.argc
  /\ \/ ex' = [ex EXCEPT !.at = "as", !.held = (@ \ Progname) \cup Vnode]
     \/ Fail("ENOENT", Progname \cup Arrays \cup Args(ex.argc))

\* as_create; proc_setas, and as_destroy of the old address space.
execv_setas ==
  /\ ex.at = "as"
  /\ \/ ex' = [ex EXCEPT !.at = "load", !.as = "new"]
     \/ Fail("ENOMEM", Vnode \cup Arrays \cup Args(ex.argc))

\* Fault: a program that cannot be loaded leaves its file open.
AfterLoad_open(err) ==
  ex' = [ex EXCEPT !.at = "failed", !.err = err, !.as = "destroyed",
                   !.held = @ \ (Arrays \cup Args(ex.argc))]

\* The errors after the switch destroy the new address space.
AfterLoad(err) ==
  ex' = [ex EXCEPT !.at = "failed", !.err = err, !.as = "destroyed",
                   !.held = @ \ (Vnode \cup Arrays \cup Args(ex.argc))]

\* load_elf, vfs_close, as_define_stack, and where the arguments go.
execv_load(image) ==
  /\ ex.at = "load"
  /\ LET r == load_elf(image)
         base == USERTOP - (ex.argc + 1) * PTR_SIZE
     IN \/ /\ r.err = "none"
           /\ ex' = [ex EXCEPT !.at = "out", !.image = image, !.held = @ \ Vnode, !.mem = r.mem,
                               !.heap = r.heap_start, !.arg_addr = base, !.argv = base]
        \/ \E err \in {r.err, "EIO", "ENOMEM"} \ {"none"} : AfterLoad(err)

StorePtr(mem, a, value) ==
  [c \in DOMAIN mem |-> IF c = a THEN value
                        ELSE IF c \in a + 1 .. a + PTR_SIZE - 1 THEN PTR ELSE mem[c]]
StoreStr(mem, a, s) ==
  [c \in DOMAIN mem |-> IF c \in a .. a + Len(s) - 1 THEN s[c - a + 1]
                        ELSE IF c = a + Len(s) THEN NUL ELSE mem[c]]

\* Fault: the terminating NUL is not counted when the next string is placed.
PlaceBelow_short(addr, s) == addr - Len(s)
PlaceBelow(addr, s) == addr - (Len(s) + 1)

\* The cells below a pointer are written before it, and a page that is there
\* stays: storing the pointer needs a page only where it starts one.
StartsPage(slot) == slot % VM_PAGE = 0

\* One argument onto the new stack: the string, then the pointer to it.  The
\* pointer is stored without copyout: when vm_fault has no page for it, no
\* recovery is armed and the fault is fatal.
execv_out ==
  /\ ex.at = "out" /\ ex.out < ex.argc
  /\ LET s == ex.args_in[ex.out + 1]
         at == PlaceBelow(ex.arg_addr, s)
         slot == ex.argv + ex.out * PTR_SIZE
         copied == copyblock(ex.mem, at, Len(s) + 1) = "none"
         valid == slot .. slot + PTR_SIZE - 1 \subseteq DOMAIN ex.mem
     IN \/ /\ copied /\ valid
           /\ ex' = [ex EXCEPT !.mem = StorePtr(StoreStr(@, at, s), slot, at),
                               !.arg_addr = at, !.out = @ + 1]
        \/ copied /\ (~valid \/ StartsPage(slot)) /\ ex' = [ex EXCEPT !.at = "panic"]
        \/ AfterLoad("EFAULT")

enter_new_process ==
  /\ ex.at = "out" /\ ex.out = ex.argc
  /\ ex' = [ex EXCEPT !.at = "entered", !.held = @ \ (Arrays \cup Args(ex.argc)),
                      !.mem = StorePtr(@, ex.argv + ex.argc * PTR_SIZE, NUL),
                      !.arg_addr = @ - (@ % PTR_SIZE)]

\* runprogram, from the menu: no arguments.  When loading fails the address
\* space goes away with the process.
runprogram(image) ==
  /\ ex.at = "idle"
  /\ \/ Fail("ENOENT", {}) \/ Fail("ENOMEM", {})
     \/ LET r == load_elf(image)
        IN IF r.err = "none"
           THEN ex' = [ex EXCEPT !.at = "entered", !.as = "new", !.image = image, !.mem = r.mem,
                                 !.heap = r.heap_start, !.arg_addr = USERTOP]
           ELSE ex' = [ex EXCEPT !.at = "failed", !.err = r.err, !.as = "new"]

ExecNext ==
  \/ \E args \in ArgLists : sys_execv(args)
  \/ execv_count \/ execv_copy \/ execv_open \/ execv_setas \/ execv_out \/ enter_new_process
  \/ \E image \in Images : execv_load(image) \/ runprogram(image)

ExecSpec == ExecInit /\ [][ExecNext]_ex

-----------------------------------------------------------------------------
(* copyin and copyout accept exactly the blocks of at least one byte that  *)
(* lie below USERSPACETOP, also when the end wraps around; a string that   *)
(* runs into the kernel is a bad address and one that is merely long is    *)
(* not (copycheck, copystr).                                               *)
CopiesExact ==
  LET all == [a \in 0 .. USERTOP - 1 |-> 1]
  IN \A bot \in 0 .. ADDRESSES - 1, len \in 0 .. ADDRESSES - 1 :
       /\ copyblock(all, bot, len) = "none" <=> len > 0 /\ bot + len <= USERTOP
       /\ bot < USERTOP /\ len > 0 /\ bot + len <= ADDRESSES =>
            copystr(all, bot, len).err = (IF bot + len <= USERTOP THEN "ENAMETOOLONG" ELSE "EFAULT")

\* What the new program reads from its memory.
PointerAt(a) == ex.mem[a]
IsPointer(a) == a \in DOMAIN ex.mem /\ \A i \in 1 .. PTR_SIZE - 1 : ex.mem[a + i] = PTR
Argument(i) == LET a == PointerAt(ex.argv + (i - 1) * PTR_SIZE)
               IN copystr(ex.mem, a, USERTOP - a)

(* The new program finds argc arguments: argv[0 .. argc-1] point to the    *)
(* strings the old program passed, argv[argc] is NULL, and the stack       *)
(* pointer is aligned and below all of them (sys_execv).                   *)
ArgumentsArrive ==
  ex.at = "entered" =>
    /\ \A i \in 1 .. ex.argc : /\ IsPointer(ex.argv + (i - 1) * PTR_SIZE)
                               /\ Argument(i) = [err |-> "none", str |-> ex.args[i]]
                               /\ ex.arg_addr <= PointerAt(ex.argv + (i - 1) * PTR_SIZE)
    /\ ex.argc = Len(ex.args)
    /\ ex.argc > 0 => /\ PointerAt(ex.argv + ex.argc * PTR_SIZE) = NUL
                      /\ IsPointer(ex.argv + ex.argc * PTR_SIZE)
    /\ ex.arg_addr % PTR_SIZE = 0

(* The arguments taken, up to the last that is not empty, are ARG_MAX      *)
(* bytes at most; empty ones are taken even when nothing is left.          *)
ArgumentsBounded ==
  \A n \in DOMAIN ex.args_in : ex.args_in[n] # <<>> =>
    FoldLeft(LAMBDA sum, s : sum + Len(s) + 1, 0, SubSeq(ex.args_in, 1, n)) <= ARG_MAX

\* The segment ends on a page that its region has.
RegionCovers(seg) == (seg.vaddr % VM_PAGE) + seg.memsz <= RoundUp(seg.memsz)

(* A program that starts has its file's bytes at the addresses the file    *)
(* names, zeros behind them, every page of a segment that starts on a page *)
(* boundary, and a heap that starts behind all of them (load_elf,          *)
(* as_define_region, as_prepare_load).                                     *)
ImageLoaded ==
  ex.at = "entered" =>
    /\ ex.heap % VM_PAGE = 0
    /\ \A i \in DOMAIN Loadable(ex.image) :
         LET seg == Loadable(ex.image)[i]
             size == Min({seg.filesz, seg.memsz})
         IN /\ \A k \in 0 .. size - 1 : ex.mem[seg.vaddr + k] = FileByte(seg.offset + k)
            /\ \A k \in size .. seg.memsz - 1 :
                 seg.vaddr + k \in DOMAIN ex.mem => ex.mem[seg.vaddr + k] = 0
            /\ RegionCovers(seg) =>
                 /\ seg.vaddr .. seg.vaddr + seg.memsz - 1 \subseteq DOMAIN ex.mem
                 /\ seg.vaddr + seg.memsz <= ex.heap

(* However execv ends, no kernel buffer and no open file is left.          *)
NothingLeft == ex.at \in {"failed", "entered"} => ex.held = {}

(* The pointers of execv, stored without a recovery, can stop the machine  *)
(* only when they fill a page: with fewer arguments the strings copied out *)
(* before them have brought in every page they are on (sys_execv).         *)
FewPointersStored == ex.at = "panic" => (ex.argc + 1) * PTR_SIZE >= VM_PAGE

(* A program is replaced as its arguments and its file say, and a failing  *)
(* call leaves nothing behind (sys_execv, load_elf, copycheck).            *)
ExecSound ==
  /\ ex.at = "idle" => CopiesExact
  /\ ArgumentsArrive /\ ArgumentsBounded /\ ImageLoaded /\ NothingLeft /\ FewPointersStored
=============================================================================
