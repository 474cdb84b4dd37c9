------------------------------ MODULE WorldEdits ------------------------------
(***************************************************************************)
(* The in-memory half of crates/server/src/world.rs: the edit map that     *)
(* every connection shares behind one mutex.  The code keys the edits by   *)
(* chunk and stores only what differs from the flat base world.            *)
(*                                                                         *)
(* Each method takes the lock, does its work and releases it without an    *)
(* await in between, so each is one atomic step.  A missing HashMap entry  *)
(* (chunk or position) is the value NoEdit.                                *)
(***************************************************************************)
EXTENDS Integers, FiniteSets

CONSTANTS
  Positions,  \* block positions <<x, y, z>> that are ever edited
  Chunks,     \* chunk coordinates <<cx, cz>> in play
  States,     \* block state ids
  NoEdit      \* no entry for this position: the base world shows

VARIABLE
  edits       \* World::edits

ASSUME PositionsAssumption == Positions \subseteq Int \X Int \X Int
ASSUME NoEditAssumption == NoEdit \notin States

BlockMap == [Positions -> States \cup {NoEdit}]
NoEdits  == [p \in Positions |-> NoEdit]

\* A mutant of chunk_of_block: Rust's `/`, which rounds towards zero.
chunk_of_block_truncating(p) ==
  LET quot(n) == IF n >= 0 THEN n \div 16 ELSE -((-n) \div 16)
  IN  <<quot(p[1]), quot(p[3])>>

\* div_euclid by 16 is the floor, as \div is for a positive divisor.
chunk_of_block(p) == <<p[1] \div 16, p[3] \div 16>>

ASSUME ChunksAssumption ==
  /\ Chunks \subseteq Int \X Int
  /\ \A p \in Positions : <<p[1] \div 16, p[3] \div 16>> \in Chunks

EditsInit == edits = [c \in Chunks |-> NoEdits]

set_block(p, s) == edits' = [edits EXCEPT ![chunk_of_block(p)][p] = s]

chunk_edits(c) == edits[c]

\* The state set_block last left at p, or NoEdit.
BlockAt(p) == edits[chunk_of_block(p)][p]

\* All edits as one flat map.  A walk over every chunk's map, as save() does
\* under the lock, meets p only in the chunk that set_block files it under.
AllEdits == [p \in Positions |-> BlockAt(p)]

-----------------------------------------------------------------------------
EditsTypeOK == edits \in [Chunks -> BlockMap]

\* p lies in the 16x16 column of chunk c.
InChunk(p, c) == /\ 16 * c[1] <= p[1] /\ p[1] < 16 * c[1] + 16
                 /\ 16 * c[2] <= p[3] /\ p[3] < 16 * c[2] + 16

\* A chunk's map holds only blocks of that chunk, also west and north of the
\* origin.  chunk_edits(cx, cz) is all that flat_chunk gets for a chunk, and it
\* reduces the positions modulo 16: a block filed under the wrong chunk would
\* never be sent, or would overwrite another block of the chunk it is sent in.
ChunkKeyed ==
  \A c \in Chunks, p \in Positions : edits[c][p] # NoEdit => InChunk(p, c)
=============================================================================
