-------------------------------- MODULE MCWorld --------------------------------
(***************************************************************************)
(* The world on two blocks, one on each side of the x = 0 chunk border,    *)
(* where rounding towards zero and flooring differ.  Of the two states 0   *)
(* is air: a broken block.                                                 *)
(***************************************************************************)
EXTENDS World

MCPositions == {<<-1, 64, 0>>, <<0, 64, 0>>}
MCChunks    == {<<-1, 0>>, <<0, 0>>}
MCStates    == 0 .. 1
=============================================================================
