------------------------------- MODULE NameTree -------------------------------
(***************************************************************************)
(* What a file system owes its user as far as names go: the paths that     *)
(* exist form a tree, one command adds one path below one that exists, or  *)
(* removes one path with all that is below it, and a command that fails, or*)
(* is cut short by a crash, does one of these or nothing.  An image that a *)
(* crash has damaged is given up and made anew.                            *)
(***************************************************************************)
EXTENDS Naturals, SequencesExt

VARIABLE tree

\* The step from the paths t to the paths u adds one, or removes one.
Adds(t, u) == \E p \in u \ t : u = t \cup {p} /\ Front(p) \in t \cup {<<>>}
Deletes(t, u) == \E p \in t \ u : u = {q \in t : ~IsPrefix(p, q)}

Formats(t, u) == u = {}

Step(t, u) == Adds(t, u) \/ Deletes(t, u) \/ Formats(t, u)

Init == tree = {}

Next == Step(tree, tree')

Spec == Init /\ [][Next]_tree
===============================================================================
