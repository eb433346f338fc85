----------------------------- MODULE MCOpenFiles -----------------------------
EXTENDS OpenFiles

\* Two files of the root device, and one of a mounted device with the inode number of
\* the first.
MCFiles == {[dev |-> 0, ino |-> 3], [dev |-> 0, ino |-> 4], [dev |-> 1, ino |-> 3]}

\* The file that has no other with its number is still to be created.
MCAbsent == {[dev |-> 0, ino |-> 4]}
=============================================================================
