----------------------------- MODULE MCMinodeCache -----------------------------
(***************************************************************************)
(* Instances of MinodeCache for TLC: the root inode and two more compete   *)
(* for two slots, with the two processes main starts and two local         *)
(* pointers in the running command.                                        *)
(***************************************************************************)
EXTENDS MinodeCache

CONSTANTS rootInode, inodeA, inodeB, old, new, parentMInode, childMInode

MCKeys == {rootInode, inodeA, inodeB}
MCValues == {old, new}
MCLocals == {parentMInode, childMInode}
===============================================================================
