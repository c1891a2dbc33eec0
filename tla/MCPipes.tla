-------------------------------- MODULE MCPipes --------------------------------
(* Two processes, one TCP port and one UNIX socket path. *)
EXTENDS Pipes

CONSTANTS a, b, sock

MCProcs == {a, b}
MCPorts == {1}
MCPaths == {sock}
Sym == Permutations(MCProcs)
================================================================================
