------------------------------ MODULE MCLevelOne ------------------------------
EXTENDS LevelOne

\* A name in the root, a name in the directory /a, and one in the cwd.
MCPaths == {[abs |-> TRUE, comps |-> <<"a">>], [abs |-> TRUE, comps |-> <<"a", "b">>],
            [abs |-> FALSE, comps |-> <<"b">>]}
===============================================================================
