--------------------------- MODULE MCPersistence ---------------------------
(* A project directory and a package manager's cache, one file in each.    *)
EXTENDS Persistence, TLC
MCPath == {<<"d">>, <<"d", "f">>, <<"e">>, <<"e", "f">>}
MCDir == {<<"d">>, <<"e">>}
MCLow == {<<"e">>, <<"e", "f">>}
MCSaved == {{}, {<<"d">>, <<"d", "f">>}}
Symmetry == Permutations(Tab)
=============================================================================
