------------------------------ MODULE MCFileServer ------------------------------
(***************************************************************************)
(* Instances of FileServer for TLC: lines of two units, so that a line can *)
(* be cut in the middle, a file of three units, which takes a whole line   *)
(* and a part of one, and a file of one unit.                              *)
(***************************************************************************)
EXTENDS FileServer

CONSTANTS first, second

MCClients == {first, second}
\* The first client does everything; the second one gets in its way.
MCCommands == [c \in Clients |-> IF c = first THEN Requests \cup Careless ELSE {"put", "rm"}]
MCFirst == {first}
MCSize == [c \in Clients |-> IF c = first THEN 3 ELSE 1]
================================================================================
