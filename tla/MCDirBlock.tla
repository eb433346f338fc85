------------------------------- MODULE MCDirBlock -------------------------------
(***************************************************************************)
(* Instances of DirBlock for TLC: three lengths of names, a hidden name    *)
(* with "." as a prefix, a pair of names where one is a prefix of the      *)
(* other, and blocks that hold two or three names besides "." and "..".    *)
(***************************************************************************)
EXTENDS DirBlock

CONSTANTS dot, dotdot, hidden, a, ab, longer, longest

MCNames == {a, ab, hidden, longer, longest}
MCPlainNames == {a, longest}

MCNameLen == [n \in AllNames |-> CASE n = longest -> 9
                                   [] n = longer -> 5
                                   [] OTHER -> 2]

MCPrefix == {<<dot, dotdot>>, <<dot, hidden>>, <<a, ab>>} \cap (AllNames \X AllNames)
MCNoPrefix == {<<dot, dotdot>>}
================================================================================
