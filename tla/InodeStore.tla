------------------------------ MODULE InodeStore ------------------------------
(***************************************************************************)
(* What the in-memory inode table of level-3 (util.c: iget and iput)       *)
(* promises to the commands built on it: there is one current value of     *)
(* every inode, whichever slot of minode[] it is looked up through, and a  *)
(* stable value on the disk.  A write changes the current value only; the  *)
(* current value may be copied to the disk at any time; a crash loses what *)
(* was not copied; an orderly quit copies everything.                      *)
(***************************************************************************)

CONSTANTS
    Keys,       \* the [dev, ino] pairs
    Values      \* the contents an INODE can have

VARIABLES
    inode,      \* the value a command sees when it looks the inode up
    stable      \* the value in the inode table of the disk

vars == <<inode, stable>>

Init ==
    /\ stable \in [Keys -> Values]
    /\ inode = stable

Write(k, v) ==
    /\ inode' = [inode EXCEPT ![k] = v]
    /\ UNCHANGED stable

Persist(k) ==
    /\ stable' = [stable EXCEPT ![k] = inode[k]]
    /\ UNCHANGED inode

Shutdown ==
    /\ stable' = inode
    /\ UNCHANGED inode

Crash ==
    /\ inode' = stable
    /\ UNCHANGED stable

Next ==
    \/ \E k \in Keys, v \in Values : Write(k, v)
    \/ \E k \in Keys : Persist(k)
    \/ Shutdown
    \/ Crash

Spec == Init /\ [][Next]_vars

===============================================================================
