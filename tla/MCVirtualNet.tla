---------------------------- MODULE MCVirtualNet ----------------------------
(* Two processes, one port, an inline request with a response of two       *)
(* frames and one whose body is spilled.                                   *)
EXTENDS VirtualNet
CONSTANTS small, large
MCTotal == [r \in Req |-> IF r = small THEN 2 ELSE 1]
=============================================================================
