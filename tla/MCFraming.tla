------------------------------- MODULE MCFraming -------------------------------
(***************************************************************************)
(* Two payload bits to a byte and integers of five bits, so that lengths   *)
(* take up to three bytes, the third partly unused.  The bodies are empty, *)
(* one byte, and the longest, whose length takes two bytes; their bytes    *)
(* are themselves possible lengths, in range and out of it.                *)
(***************************************************************************)
EXTENDS Framing

MCBodies == {<<>>, <<5>>, <<1, 4, 7, 3, 2>>}
=============================================================================
