----------------------------- MODULE MCLeatherServer -----------------------------
(***************************************************************************)
(* One block in one chunk: two connections that edit and are sent the same *)
(* block, and the saver.  There are no items, so the one edit is to break  *)
(* the block: what is at stake here is whether there is an edit, and where *)
(* it is kept.  Which state it is, is the business of MCPlay and MCWorld.  *)
(***************************************************************************)
EXTENDS LeatherServer, TLC

MCPositions == {<<0, 64, 0>>}
MCChunks    == {<<0, 0>>}
MCStates    == {0}
MCItems     == {}
MCItemToBlock == [i \in MCItems |-> 0]
Symmetry    == Permutations(Clients)
=============================================================================
