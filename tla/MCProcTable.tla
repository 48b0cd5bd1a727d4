---------------------------- MODULE MCProcTable ----------------------------
(***************************************************************************)
(* Processes: the process table, and a program replaced by another.  The   *)
(* two share no state, so a behaviour runs one of them, the part, and the  *)
(* other keeps its first state.                                            *)
(***************************************************************************)
EXTENDS ProcTable, Exec, TLC

VARIABLE part

mcVars == <<vars, ex, part>>

MCInit == Init /\ ExecInit /\ part \in {"table", "exec"}
MCNext ==
  \/ part = "table" /\ Next /\ UNCHANGED <<ex, part>>
  \/ part = "exec" /\ ExecNext /\ UNCHANGED <<vars, part>>
MCSpec == MCInit /\ [][MCNext]_mcVars

\* Structures and threads differ only in kproc and menu, wait codes not at all.
Symmetry == Permutations(Procs \ {kproc}) \cup Permutations(Threads \ {menu}) \cup Permutations(Codes)

\* One to three arguments of up to three characters; as many as are taken,
\* all empty, and one more.
MCArgLists ==
  UNION {[1 .. n -> {<<>>, <<1>>, <<2, 1>>, <<1, 2, 1>>}] : n \in 1 .. 3}
  \cup UNION {[1 .. n -> {<<>>}] : n \in {ARG_MAX, ARG_MAX + 1}}

(* Files of two program headers: a segment that starts inside a page or on *)
(* its boundary, whose bytes in the file are fewer or more than in memory, *)
(* and one of another kind; files that end early; files that are refused.  *)
Header(type, vaddr, memsz, filesz, offset) ==
  [type |-> type, vaddr |-> vaddr, memsz |-> memsz, filesz |-> filesz, offset |-> offset]
MCSegments == {Header("PT_LOAD", v, m, f, 1) : v \in {0, 6}, m \in {0, 8, 9}, f \in {0, 3, 9}}
MCImages ==
  {[ok |-> TRUE, segs |-> <<s, Header(type, 17, 2, 1, 0)>>, length |-> n] :
     s \in MCSegments, type \in {"PT_LOAD", "PT_PHDR"}, n \in {1, 4, 10}}
  \cup {[ok |-> good, segs |-> <<Header("PT_DYNAMIC", 0, 4, 4, 0)>>, length |-> 4] : good \in BOOLEAN}
=============================================================================
