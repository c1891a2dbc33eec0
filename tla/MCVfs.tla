--------------------------------- MODULE MCVfs ---------------------------------
(* Two names, one level deep, with one link that may point to itself or     *)
(* nowhere; files of up to two bytes, of which the cache holds one.        *)
EXTENDS Vfs

MCPaths == {<<"a">>, <<"b">>, <<"a", "b">>}
MCTargets == {[abs |-> TRUE, comps |-> <<"b">>]}
MCBodies == {<<1>>}
===============================================================================
