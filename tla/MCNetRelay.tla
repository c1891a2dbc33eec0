------------------------------ MODULE MCNetRelay ------------------------------
(* Two processes that contend for one port. *)
EXTENDS NetRelay

CONSTANTS a, b

MCProcs == {a, b}
MCPorts == {1}
Sym == Permutations(MCProcs)
===============================================================================
