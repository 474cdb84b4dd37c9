--------------------------------- MODULE MCPlay ---------------------------------
(***************************************************************************)
(* A strip of chunks along x with a block on each side of a chunk border,  *)
(* so that one connection can place a block into a chunk another one is    *)
(* being sent or does not have.                                            *)
(***************************************************************************)
EXTENDS Play

MCPositions == {<<15, 64, 0>>, <<16, 64, 0>>}
OnePosition == {<<16, 64, 0>>}
Strip(n)    == {<<x, 0>> : x \in 0..n}
MCChunks    == Strip(1)
LongStrip   == Strip(3)
MCStates    == {0, 1}
MCItems     == {1}
Symmetry    == Permutations(Clients)
MCItemToBlock == [i \in MCItems |-> 1]
=============================================================================
