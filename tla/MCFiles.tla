------------------------------ MODULE MCFiles ------------------------------
(***************************************************************************)
(* Files as processes see them, on small instances: the file tables of     *)
(* processes, the references to vnodes below them, and the file system of  *)
(* user semaphores.  fl_part says which of them the behaviour runs.        *)
(***************************************************************************)
EXTENDS FileTable, Vfs, Semfs, TLC

VARIABLE fl_part
fl_vars == <<fl_part, vars, vfs_vars, semfs_vars>>

(* A disk, a file system without a device, and a device without one.       *)
MCDevices ==
  << [kd_name |-> <<"null">>, mountable |-> FALSE, fs |-> FALSE, volname |-> None],
     [kd_name |-> <<"sem">>, mountable |-> FALSE, fs |-> TRUE, volname |-> <<"sem">>],
     [kd_name |-> <<"lhd0">>, mountable |-> TRUE, fs |-> FALSE, volname |-> <<"vol">>] >>

MCPaths ==
  {[start |-> w, dev |-> None, sub |-> n] : w \in {"cwd", "/", ":"}, n \in VfsNames}
    \cup {[start |-> "dev", dev |-> <<"sem">>, sub |-> n] : n \in VfsNames \cup {None}}
    \cup {[start |-> "dev", dev |-> d, sub |-> None] : d \in {<<"lhd0", "raw">>, <<"vol">>}}

(* Processes of FileTable differ only in the first; handles, and the       *)
(* threads of Semfs, do not differ.                                        *)
Symmetry ==
  Permutations(Procs \ {first}) \cup Permutations(Handles) \cup Permutations(SemfsThreads)

FilesInit ==
  /\ fl_part \in {"file table", "vfs", "semfs"}
  /\ Init /\ VfsInit /\ SemfsInit
  /\ fl_part # "vfs" => alive = {kproc}

FilesNext ==
  /\ UNCHANGED fl_part
  /\ \/ fl_part = "file table" /\ Next /\ UNCHANGED <<vfs_vars, semfs_vars>>
     \/ fl_part = "vfs" /\ VfsNext /\ UNCHANGED <<vars, semfs_vars>>
     \/ fl_part = "semfs" /\ SemfsNext /\ UNCHANGED <<vars, vfs_vars>>

FilesSpec == FilesInit /\ [][FilesNext]_fl_vars

-----------------------------------------------------------------------------
(* Processes that share an open file never disturb each other's transfers, *)
(* and the handle's count never claims a reference that is not there       *)
(* (sys_read, sys_write, sys_close, sys_dup2, sys_fork, sys__exit).        *)
DescriptorsHold == fl_part = "file table" => DescriptorsSound

(* Every vnode has as many references as it has users, on every path       *)
(* through the VFS layer; nothing is left of a file system that was        *)
(* unmounted; and a shutdown unmounts what nobody uses.                    *)
VnodesHold == fl_part = "vfs" => VnodesSound

(* A user semaphore lives while it has a name or is open, is destroyed     *)
(* once (semfs_getvnode, semfs_reclaim, semfs_remove), and its count is    *)
(* what the writers added less what the readers took (semfs_write,         *)
(* semfs_read).                                                            *)
SemfsHolds == fl_part = "semfs" => SemfsSound
=============================================================================
