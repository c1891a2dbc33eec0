------------------------------ MODULE DbAccess -------------------------------
(***************************************************************************)
(* What the lock table promises SQLite, with the five levels forgotten:    *)
(* many connections may read a database, one may write it, and it writes   *)
(* alone.  A connection may only write a database it is reading.           *)
(***************************************************************************)
CONSTANTS Client, Conn, Path

VARIABLES
  reading,  (* reading[p]: the connections that may read p                 *)
  writing   (* writing[p]: the connections that may write p                *)

vars == <<reading, writing>>

Owner == Client \X Conn

Init ==
  /\ reading = [p \in Path |-> {}]
  /\ writing = [p \in Path |-> {}]

BeginRead(o, p) ==
  /\ writing[p] = {}
  /\ reading' = [reading EXCEPT ![p] = @ \union {o}]
  /\ UNCHANGED writing

BeginWrite(o, p) ==
  /\ reading[p] = {o}
  /\ writing' = [writing EXCEPT ![p] = {o}]
  /\ UNCHANGED reading

EndWrite(o, p) ==
  /\ writing' = [writing EXCEPT ![p] = @ \ {o}]
  /\ UNCHANGED reading

EndRead(o, p) ==
  /\ reading' = [reading EXCEPT ![p] = @ \ {o}]
  /\ writing' = [writing EXCEPT ![p] = @ \ {o}]

(* A process goes away with everything its connections were doing. *)
Depart(c) ==
  /\ reading' = [p \in Path |-> {o \in reading[p] : o[1] # c}]
  /\ writing' = [p \in Path |-> {o \in writing[p] : o[1] # c}]

Next ==
  \/ \E o \in Owner, p \in Path :
       BeginRead(o, p) \/ BeginWrite(o, p) \/ EndWrite(o, p) \/ EndRead(o, p)
  \/ \E c \in Client : Depart(c)

Spec == Init /\ [][Next]_vars
==============================================================================
