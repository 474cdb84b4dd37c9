--------------------------------- MODULE Faces ---------------------------------
(***************************************************************************)
(* The faces of a block, offset_block in crates/server/src/play.rs.        *)
(***************************************************************************)
EXTENDS Integers, Sequences

\* bottom, top, north, south, west, east.
Normal == <<<<0, -1, 0>>, <<0, 1, 0>>, <<0, 0, -1>>, <<0, 0, 1>>, <<-1, 0, 0>>, <<1, 0, 0>>>>

\* The block one step along a face; a face that is none of the six leaves p.
neighbour(p, face) ==
  LET n == IF face \in 0 .. 5 THEN Normal[face + 1] ELSE <<0, 0, 0>>
  IN  <<p[1] + n[1], p[2] + n[2], p[3] + n[3]>>
=============================================================================
