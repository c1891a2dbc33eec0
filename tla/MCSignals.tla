------------------------------ MODULE MCSignals ------------------------------
(* Signals with two catchable signals. *)
EXTENDS Signals, TLC

Symmetry == Permutations(Sig)
==============================================================================
