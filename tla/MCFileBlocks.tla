------------------------------ MODULE MCFileBlocks ------------------------------
(***************************************************************************)
(* Instances of FileBlocks for TLC: i_block[] with one direct entry, two   *)
(* entries in a table and two bytes in a block, so that a file of fourteen *)
(* bytes needs seven blocks and four tables.                               *)
(***************************************************************************)
EXTENDS FileBlocks

CONSTANTS fileA, fileB
MCFiles == {fileA, fileB}

\* The two files play the same part; no property counts steps.
MCSymmetry == Permutations(MCFiles)
================================================================================
