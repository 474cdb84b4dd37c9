------------------------------ MODULE WorldProofs ------------------------------
(***************************************************************************)
(* Proofs about World for every set of positions, chunks and states: its   *)
(* types, that edits are filed under the chunk they lie in, what an Ok     *)
(* from save() is worth, and that World implements BlockStore.             *)
(*                                                                         *)
(* The inductive invariant IInv adds two facts to the properties.  Keyed   *)
(* says that an edit of p sits in the map of chunk_of_block(p) and nowhere *)
(* else, so the flat view AllEdits loses nothing.  SaveInProgress ties a   *)
(* running save to the world it copied and the file it writes: edits are   *)
(* never removed, so what the buffer holds is still edited when the write  *)
(* ends, and the file never holds a record that the buffer does not.       *)
(***************************************************************************)
EXTENDS World, TLAPS

\* An edit of p sits in the map of chunk_of_block(p) and nowhere else.
Keyed ==
  \A c \in Chunks, p \in Positions :
    edits[c][p] # NoEdit => c = chunk_of_block(p)

SaveInProgress ==
  /\ saver \in {"opening", "writing"} =>
       \A p \in Positions :
         /\ buf[p] # NoEdit => BlockAt(p) # NoEdit
         /\ damaged = {} /\ saved[p] # NoEdit => buf[p] # NoEdit
  /\ saver = "writing" =>
       \A p \in Positions : file[p] \in {NoEdit, buf[p]}

IInv == TypeOK /\ Keyed /\ SaveInProgress /\ DurableUnlessTorn

-----------------------------------------------------------------------------
\* div_euclid takes every position to a chunk in play.
LEMMA ChunkOfBlockInChunks ==
  ASSUME NEW p \in Positions
  PROVE  chunk_of_block(p) \in Chunks
  BY ChunksAssumption DEF chunk_of_block

\* Floor division by 16, for every integer.
LEMMA FloorDiv16 ==
  ASSUME NEW n \in Int
  PROVE  /\ n \div 16 \in Int
         /\ 16 * (n \div 16) <= n
         /\ n < 16 * (n \div 16) + 16
  OBVIOUS

\* A block lies in the column of the chunk it is filed under.
LEMMA ChunkOfBlockContainsBlock ==
  ASSUME NEW p \in Positions
  PROVE  InChunk(p, chunk_of_block(p))
<1>1. p[1] \in Int /\ p[3] \in Int
  BY PositionsAssumption
<1>2. chunk_of_block(p)[1] = p[1] \div 16 /\ chunk_of_block(p)[2] = p[3] \div 16
  BY DEF chunk_of_block
<1> QED
  BY <1>1, <1>2, FloorDiv16 DEF InChunk

\* set_block changes one block of the flat map.
LEMMA SetBlockChangesOneBlock ==
  ASSUME NEW p \in Positions, NEW s \in States, EditsTypeOK, set_block(p, s)
  PROVE  /\ EditsTypeOK'
         /\ Keyed => Keyed'
         /\ \A q \in Positions : BlockAt(q)' = IF q = p THEN s ELSE BlockAt(q)
<1>1. chunk_of_block(p) \in Chunks
  BY ChunkOfBlockInChunks
<1>2. edits' = [edits EXCEPT ![chunk_of_block(p)] =
                   [edits[chunk_of_block(p)] EXCEPT ![p] = s]]
  BY DEF set_block
<1>3. EditsTypeOK'
  BY <1>1, <1>2 DEF EditsTypeOK, BlockMap
<1>4. Keyed => Keyed'
  BY <1>1, <1>2 DEF Keyed, EditsTypeOK, BlockMap
<1>5. \A q \in Positions : BlockAt(q)' = IF q = p THEN s ELSE BlockAt(q)
  BY <1>1, <1>2, ChunkOfBlockInChunks DEF BlockAt, EditsTypeOK, BlockMap
<1> QED
  BY <1>3, <1>4, <1>5

\* The flat map is well typed.
LEMMA AllEditsType ==
  ASSUME EditsTypeOK
  PROVE  AllEdits \in BlockMap
  BY ChunkOfBlockInChunks DEF AllEdits, BlockAt, EditsTypeOK, BlockMap

-----------------------------------------------------------------------------
\* What load() reads is filed under the blocks' own chunks, and BlockAt reads it
\* back.
LEMMA LoadFilesEveryRecord ==
  ASSUME NEW r \in BlockMap, load(r)
  PROVE  /\ EditsTypeOK'
         /\ Keyed'
         /\ \A p \in Positions : BlockAt(p)' = r[p]
  BY ChunkOfBlockInChunks DEF load, EditsTypeOK, Keyed, BlockAt, BlockMap

-----------------------------------------------------------------------------
\* The invariant holds initially.
LEMMA InitIInv == Init => IInv
<1> SUFFICES ASSUME Init PROVE IInv
  OBVIOUS
<1> USE DEF Init, EditsInit, NoEdits
<1>1. TypeOK
  BY DEF TypeOK, EditsTypeOK, BlockMap, SaverPhases
<1>2. Keyed
  BY DEF Keyed
<1>3. SaveInProgress
  BY DEF SaveInProgress
<1>4. DurableUnlessTorn
  BY DEF DurableUnlessTorn
<1> QED
  BY <1>1, <1>2, <1>3, <1>4 DEF IInv

\* Every step keeps the invariant.
LEMMA NextIInv == IInv /\ [Next]_vars => IInv'
<1> SUFFICES ASSUME IInv, [Next]_vars PROVE IInv'
  OBVIOUS
<1> NoEdits \in BlockMap
  BY DEF NoEdits, BlockMap
<1> USE DEF IInv
<1>1. CASE serve
  <2> USE <1>1 DEF serve
  <2>1. /\ EditsTypeOK'
        /\ Keyed'
        /\ \A p \in Positions : BlockAt(p)' = file[p]
    BY LoadFilesEveryRecord DEF TypeOK
  <2>2. TypeOK'
    BY <2>1 DEF TypeOK, SaverPhases
  <2>3. SaveInProgress'
    BY DEF SaveInProgress
  <2>4. DurableUnlessTorn'
    BY <2>1 DEF DurableUnlessTorn, TypeOK
  <2> QED
    BY <2>1, <2>2, <2>3, <2>4
<1>2. CASE serve_unreadable
  <2> USE <1>2 DEF serve_unreadable
  <2>1. EditsTypeOK' /\ Keyed'
    BY LoadFilesEveryRecord
  <2>2. TypeOK'
    BY <2>1 DEF TypeOK, SaverPhases
  <2>3. SaveInProgress'
    BY DEF SaveInProgress
  <2>4. DurableUnlessTorn'
    BY DEF DurableUnlessTorn
  <2> QED
    BY <2>1, <2>2, <2>3, <2>4
<1>3. ASSUME NEW p \in Positions, NEW s \in States, edit(p, s) PROVE IInv'
  <2> USE <1>3 DEF edit, history
  <2>1. /\ EditsTypeOK'
        /\ Keyed'
        /\ \A q \in Positions : BlockAt(q)' = IF q = p THEN s ELSE BlockAt(q)
    BY SetBlockChangesOneBlock DEF TypeOK
  <2>2. \A q \in Positions : BlockAt(q) # NoEdit => BlockAt(q)' # NoEdit
    BY <2>1, NoEditAssumption
  <2>3. TypeOK'
    BY <2>1 DEF TypeOK
  <2>4. SaveInProgress'
    BY <2>2 DEF SaveInProgress
  <2>5. DurableUnlessTorn'
    BY <2>2 DEF DurableUnlessTorn
  <2> QED
    BY <2>1, <2>3, <2>4, <2>5
<1>4. CASE save
  <2> USE <1>4 DEF save, history
  <2>1. /\ Keyed'
        /\ \A q \in Positions : BlockAt(q)' = BlockAt(q)
    BY DEF Keyed, BlockAt
  <2>2. TypeOK'
    BY AllEditsType DEF TypeOK, SaverPhases, EditsTypeOK
  <2>3. SaveInProgress'
    BY <2>1 DEF SaveInProgress, DurableUnlessTorn, AllEdits, TypeOK
  <2>4. DurableUnlessTorn'
    BY <2>1 DEF DurableUnlessTorn
  <2> QED
    BY <2>1, <2>2, <2>3, <2>4
<1>5. CASE write_open
  <2> USE <1>5 DEF write_open
  <2>1. /\ Keyed'
        /\ \A q \in Positions : BlockAt(q)' = BlockAt(q)
    BY DEF Keyed, BlockAt
  <2>2. TypeOK'
    BY DEF TypeOK, SaverPhases, EditsTypeOK
  <2>3. SaveInProgress'
    BY <2>1 DEF SaveInProgress, NoEdits
  <2>4. DurableUnlessTorn'
    BY <2>1 DEF DurableUnlessTorn
  <2> QED
    BY <2>1, <2>2, <2>3, <2>4
<1>6. ASSUME NEW p \in Positions, write_record(p) PROVE IInv'
  <2> USE <1>6 DEF write_record, history
  <2>1. /\ Keyed'
        /\ \A q \in Positions : BlockAt(q)' = BlockAt(q)
    BY DEF Keyed, BlockAt
  <2>2. TypeOK'
    BY DEF TypeOK, SaverPhases, EditsTypeOK, BlockMap
  <2>3. SaveInProgress'
    BY <2>1 DEF SaveInProgress, TypeOK, BlockMap
  <2>4. DurableUnlessTorn'
    \* A saved record is in the buffer, so the file had it wrong and torn holds.
    BY <2>1 DEF DurableUnlessTorn, SaveInProgress, TypeOK, BlockMap
  <2> QED
    BY <2>1, <2>2, <2>3, <2>4
<1>7. CASE write_done
  <2> USE <1>7 DEF write_done
  <2>1. /\ Keyed'
        /\ \A q \in Positions : BlockAt(q)' = BlockAt(q)
    BY DEF Keyed, BlockAt
  <2>2. TypeOK'
    BY DEF TypeOK, SaverPhases, EditsTypeOK, BlockMap
  <2>3. SaveInProgress'
    BY DEF SaveInProgress
  <2>4. DurableUnlessTorn'
    BY <2>1 DEF DurableUnlessTorn, SaveInProgress
  <2> QED
    BY <2>1, <2>2, <2>3, <2>4
<1>8. CASE write_fails
  <2> USE <1>8 DEF write_fails, history
  <2>1. /\ Keyed'
        /\ \A q \in Positions : BlockAt(q)' = BlockAt(q)
    BY DEF Keyed, BlockAt
  <2>2. TypeOK'
    BY DEF TypeOK, SaverPhases, EditsTypeOK
  <2>3. SaveInProgress'
    BY DEF SaveInProgress
  <2>4. DurableUnlessTorn'
    BY <2>1 DEF DurableUnlessTorn
  <2> QED
    BY <2>1, <2>2, <2>3, <2>4
<1>9. CASE stop
  <2> USE <1>9 DEF stop, history
  <2>1. Keyed'
    BY DEF Keyed, NoEdits
  <2>2. TypeOK'
    BY DEF TypeOK, SaverPhases, EditsTypeOK
  <2>3. SaveInProgress'
    BY DEF SaveInProgress
  <2>4. DurableUnlessTorn'
    BY DEF DurableUnlessTorn
  <2> QED
    BY <2>1, <2>2, <2>3, <2>4
<1>10. CASE UNCHANGED vars
  BY <1>10 DEF vars, history, TypeOK, EditsTypeOK, Keyed, SaveInProgress,
     DurableUnlessTorn, BlockAt
<1> QED
  BY <1>1, <1>2, <1>3, <1>4, <1>5, <1>6, <1>7, <1>8, <1>9, <1>10 DEF Next

\* So every reachable state satisfies it.
LEMMA SpecIInv == Spec => []IInv
  BY InitIInv, NextIInv, PTL DEF Spec

\* Type correctness, with the saver's phase consistent with the process and the
\* buffer, for any set of positions, chunks and states.
THEOREM TypeCorrect == Spec => []TypeOK
<1>1. IInv => TypeOK
  BY DEF IInv
<1> QED
  BY <1>1, SpecIInv, PTL

\* world.rs:26: every edit is filed under the chunk that contains its block, for
\* negative coordinates too, however edits, saves and restarts interleave.
THEOREM ChunkKeyedAlways == Spec => []ChunkKeyed
<1>1. IInv => ChunkKeyed
  BY ChunkOfBlockContainsBlock DEF IInv, Keyed, ChunkKeyed
<1> QED
  BY <1>1, SpecIInv, PTL

\* world.rs:68-79: what an Ok from save() is worth.
THEOREM Durability == Spec => []DurableUnlessTorn
<1>1. IInv => DurableUnlessTorn
  BY DEF IInv
<1> QED
  BY <1>1, SpecIInv, PTL

-----------------------------------------------------------------------------
\* Every step of the world is a step of the flat store or leaves it unchanged.
LEMMA StoreInit == Init => Store!Init
  BY ChunkOfBlockInChunks DEF Init, EditsInit, Store!Init, Store!None, NoEdits, AllEdits,
     BlockAt

\* Every step is one of the abstract store, or none of it.
LEMMA StoreNext ==
  IInv /\ [Next]_vars => [Store!Next]_<<AllEdits, buf, file, up>>
<1> SUFFICES ASSUME IInv, [Next]_vars
             PROVE  [Store!Next]_<<AllEdits, buf, file, up>>
  OBVIOUS
<1> USE DEF IInv, history
<1> NoEdits \in BlockMap /\ Store!None = NoEdits /\ Store!Map = BlockMap
  BY DEF NoEdits, BlockMap, Store!None, Store!Map
<1>1. CASE serve
  <2>1. \A p \in Positions : BlockAt(p)' = file[p]
    BY <1>1, LoadFilesEveryRecord DEF serve, TypeOK
  <2>2. AllEdits' = file
    BY <2>1 DEF AllEdits, TypeOK, BlockMap
  <2> QED
    BY <1>1, <2>2 DEF serve, Store!Next, Store!Recover
<1>2. CASE serve_unreadable
  <2>1. \A p \in Positions : BlockAt(p)' = NoEdits[p]
    BY <1>2, LoadFilesEveryRecord DEF serve_unreadable
  <2>2. AllEdits' = NoEdits
    BY <2>1 DEF AllEdits, NoEdits
  <2> QED
    BY <1>2, <2>2 DEF serve_unreadable, Store!Next, Store!Recover
<1>3. ASSUME NEW p \in Positions, NEW s \in States, edit(p, s)
      PROVE  Store!Next
  <2>1. \A q \in Positions : BlockAt(q)' = IF q = p THEN s ELSE BlockAt(q)
    BY <1>3, SetBlockChangesOneBlock DEF edit, TypeOK
  <2>2. AllEdits' = [AllEdits EXCEPT ![p] = s]
    BY <2>1 DEF AllEdits
  <2>3. Store!Put
    BY <1>3, <2>2 DEF edit, Store!Put
  <2> QED
    BY <2>3 DEF Store!Next
<1>4. CASE save
  <2>1. AllEdits' = AllEdits
    BY <1>4 DEF save, AllEdits, BlockAt
  <2>2. Store!BeginFlush
    BY <1>4, <2>1 DEF save, Store!BeginFlush, TypeOK
  <2> QED
    BY <2>2 DEF Store!Next
<1>5. CASE write_open
  <2>1. AllEdits' = AllEdits
    BY <1>5 DEF write_open, AllEdits, BlockAt
  <2>2. Store!FlushStep
    BY <1>5, <2>1 DEF write_open, Store!FlushStep, Store!PartOf, TypeOK, NoEdits
  <2> QED
    BY <2>2 DEF Store!Next
<1>6. ASSUME NEW p \in Positions, write_record(p)
      PROVE  Store!Next
  <2>1. AllEdits' = AllEdits
    BY <1>6 DEF write_record, AllEdits, BlockAt
  <2>2. file' \in BlockMap /\ Store!PartOf(file', buf)
    BY <1>6 DEF write_record, Store!PartOf, TypeOK, BlockMap, SaveInProgress
  <2>3. Store!FlushStep
    BY <1>6, <2>1, <2>2 DEF write_record, Store!FlushStep, TypeOK
  <2> QED
    BY <2>3 DEF Store!Next
<1>7. CASE write_done
  <2>1. AllEdits' = AllEdits
    BY <1>7 DEF write_done, AllEdits, BlockAt
  <2>2. Store!EndFlush
    BY <1>7, <2>1 DEF write_done, Store!EndFlush, TypeOK
  <2> QED
    BY <2>2 DEF Store!Next
<1>8. CASE write_fails
  <2>1. AllEdits' = AllEdits
    BY <1>8 DEF write_fails, AllEdits, BlockAt
  <2>2. Store!EndFlush
    BY <1>8, <2>1 DEF write_fails, Store!EndFlush, TypeOK
  <2> QED
    BY <2>2 DEF Store!Next
<1>9. CASE stop
  <2>1. AllEdits' = NoEdits
    BY <1>9, ChunkOfBlockInChunks DEF stop, AllEdits, BlockAt, NoEdits
  <2>2. Store!Crash
    BY <1>9, <2>1 DEF stop, Store!Crash
  <2> QED
    BY <2>2 DEF Store!Next
<1>10. CASE UNCHANGED vars
  BY <1>10 DEF vars, AllEdits, BlockAt
<1> QED
  BY <1>1, <1>2, <1>3, <1>4, <1>5, <1>6, <1>7, <1>8, <1>9, <1>10 DEF Next

\* world.rs implements the flat store: chunk keying, the record file and the
\* copy that save() takes are invisible to whoever uses the world.
THEOREM WorldImplementsBlockStore == Spec => ImplementsBlockStore
  BY StoreInit, StoreNext, SpecIInv, PTL
     DEF Spec, ImplementsBlockStore, Store!Spec
=============================================================================
