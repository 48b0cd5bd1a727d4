------------------------------ MODULE MCVolume ------------------------------
(***************************************************************************)
(* File systems that crash, on small instances: Volume with two names,     *)
(* files of up to three blocks and volumes to start from that earlier      *)
(* calls have left, and frack, the program that judges volumes after       *)
(* recovery.  vol_part says which of the two the behaviour runs.           *)
(***************************************************************************)
EXTENDS Volume, Frack

MCNames == {<<"a">>, <<"b">>}
MCWrites == {<<1, 3>>, <<4, 1>>}
MCLengths == {0, 2}

(* A volume after calls on a new one: a file a, written from 0 to len, and  *)
(* another name for it.                                                     *)
Mounted(v) ==
  [disk |-> v, freemap |-> v[SFS_FREEMAP_START].set, freemapdirty |-> FALSE,
   vnodes |-> <<>>, torn |-> {}, writes |-> 0, fault |-> NoFault,
   panicked |-> FALSE, crossed |-> FALSE]
InRootOf(v) == sfs_loadvnode(Mounted(v), Root, "inval").s

Used(len, linked) ==
  LET Closed(S, ino) == sfs_sync(VOP_DECREF(VOP_DECREF(S, ino), Root), <<>>).s.disk
      Written(S, ino) ==
        Closed(IF linked THEN sfs_link(S, <<"b">>, ino).s ELSE S, ino)
      Created(c) == Written(sfs_write(c.s, c.ino, 0, len, 1).s, c.ino)
  IN  Created(sfs_creat(InRootOf(mksfs), <<"a">>, TRUE))

MCVolumes == {mksfs, Used(2, TRUE)}

(* The volume mounted again: a long file a open, or a short file a and a new *)
(* file b.                                                                  *)
Reopened(len) == sfs_lookup(InRootOf(Used(len, FALSE)), <<"a">>).s
MCWorking == {Reopened(5), VOP_DECREF(sfs_creat(Reopened(2), <<"b">>, TRUE).s, Root)}

(* frack on small files: blocks of two bytes, writes of at most two blocks. *)
MCSizes == [one |-> 1, small |-> 2, medium |-> 3, large |-> 4, largeplus |-> 5]

(* The workloads that shorten a file to something stop the checker (see    *)
(* the README); writetruncseq opens files that were never made;            *)
(* renamemanysubtree is renamesubtree several times over.                  *)
MCWorkloads ==
    (WritingWorkloads \cup {"trunczero", "trunclargersize", "appendandtrunczero"}
     \cup CreatingWorkloads \cup DeletingOneWorkloads \cup DeletingManyWorkloads
     \cup DeletingTreeWorkloads \cup LinkingWorkloads \cup RenamingWorkloads
     \cup CombinedWorkloads \cup SequenceWorkloads \cup MixingWorkloads)
    \ {"writetruncseq", "renamemanysubtree"}

MCDamage == {ZERO, POISON_VAL, TRASH}

VARIABLE vol_part
vol_vars == <<vol_part, vars, fr>>

CrashInit ==
  /\ Init
  /\ \/ vol_part = "volume" /\ FrackStart(<<>>)
     \/ vol_part = "frack" /\ disk = mksfs /\ FrackInit

CrashNext ==
  /\ UNCHANGED vol_part
  /\ \/ vol_part = "volume" /\ Next /\ UNCHANGED fr
     \/ vol_part = "frack" /\ FrackNext /\ UNCHANGED vars

CrashSpec == CrashInit /\ [][CrashNext]_vol_vars
=============================================================================
