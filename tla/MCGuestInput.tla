----------------------------- MODULE MCGuestInput -----------------------------
(* One process with two numbered commands, the second of which never fits,   *)
(* two chunks of input, two pauses and an impatient studio.                  *)
EXTENDS GuestInput

MCOversized == {2}
===============================================================================
