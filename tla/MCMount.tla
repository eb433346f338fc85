-------------------------------- MODULE MCMount --------------------------------
EXTENDS Mount, TLC

\* Disks with a directory a that has a directory b and a file f in it, with the directory
\* only, and with a file only.
Deep(a, b, f) ==
    (ROOTINO :> << <<".", ROOTINO>>, <<"..", ROOTINO>>, <<"a", a>> >>)
    @@ (a :> << <<".", a>>, <<"..", ROOTINO>>, <<"b", b>>, <<"f", f>> >>)
    @@ (b :> << <<".", b>>, <<"..", a>> >>)
Wide(a) ==
    (ROOTINO :> << <<".", ROOTINO>>, <<"..", ROOTINO>>, <<"a", a>> >>)
    @@ (a :> << <<".", a>>, <<"..", ROOTINO>> >>)
Flat(f) == ROOTINO :> << <<".", ROOTINO>>, <<"..", ROOTINO>>, <<"f", f>> >>

\* Disks on which no two files have the same number but the roots; and disks that are alike.
MCTreeApart == ("root" :> Deep(11, 12, 13)) @@ ("one" :> Wide(21)) @@ ("two" :> Flat(31))
               @@ ("three" :> Flat(41))
MCTreeAlike == [d \in {"root", "one", "two"} |-> Wide(11)]

Abs(names) == [absolute |-> TRUE, names |-> names]
Rel(names) == [absolute |-> FALSE, names |-> names]

\* The names of the root, of directories, of a file, and a way up.
MCPaths == {Abs(<<>>), Abs(<<"a">>), Abs(<<"a", "b">>), Rel(<<"a">>), Rel(<<"f">>), Rel(<<"..">>)}
================================================================================
