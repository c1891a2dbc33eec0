----------------------------- MODULE MCFileLocks -----------------------------
(* FileLocks with two clients of two connections each on two databases.     *)
EXTENDS FileLocks, TLC

Symmetry == Permutations(Client) \union Permutations(Conn) \union Permutations(Path)
==============================================================================
