-------------------------------- MODULE Stream --------------------------------
(***************************************************************************)
(* What a socket promises its reader, whatever carries the bytes: chunks   *)
(* arrive in the order they were written, none missing and none twice, and *)
(* the end of the stream is announced after the last chunk, unless the     *)
(* writer was cut off.  Chunks of a stream are numbered by its writer.     *)
(*                                                                         *)
(* Several streams may move in one step: a process that dies ends all of   *)
(* its own at once.                                                        *)
(***************************************************************************)
EXTENDS Naturals

CONSTANT Ids

VARIABLES
  sent,    (* the last chunk the writer handed over                        *)
  writer,  (* "open", "ended" (after its last chunk), or "cut"             *)
  got,     (* the last chunk the reader took in                            *)
  reader   (* "reading", or what it was told at the end: "eof" or "error"  *)

vars == <<sent, writer, got, reader>>

Init ==
  /\ sent = [i \in Ids |-> 0]
  /\ writer = [i \in Ids |-> "open"]
  /\ got = [i \in Ids |-> 0]
  /\ reader = [i \in Ids |-> "reading"]

(* A writer writes, ends in good order, or is cut off before or after that; *)
(* it may not know that it was, and write on.                               *)
Writes(i) ==
  \/ sent'[i] = sent[i] /\ writer'[i] = writer[i]
  \/ /\ writer[i] \in {"open", "cut"}
     /\ sent'[i] = sent[i] + 1 /\ writer'[i] = writer[i]
  \/ writer[i] = "open" /\ sent'[i] = sent[i] /\ writer'[i] = "ended"
  \/ sent'[i] = sent[i] /\ writer'[i] = "cut"

(* A reader takes the next chunk, or learns how the stream ended. *)
Reads(i) ==
  \/ got'[i] = got[i] /\ reader'[i] = reader[i]
  \/ /\ reader[i] = "reading" /\ reader'[i] = "reading"
     /\ got[i] < sent[i] /\ got'[i] = got[i] + 1
  \/ /\ reader[i] = "reading" /\ reader'[i] = "eof"
     /\ got'[i] = got[i]
     /\ writer[i] = "cut" \/ (writer[i] = "ended" /\ got[i] = sent[i])
  \/ /\ reader[i] = "reading" /\ reader'[i] = "error"
     /\ got'[i] = got[i]
     /\ writer[i] = "cut"

Next == \A i \in Ids : Writes(i) /\ Reads(i)

Spec == Init /\ [][Next]_vars
===============================================================================
