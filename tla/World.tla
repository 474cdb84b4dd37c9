--------------------------------- MODULE World ---------------------------------
(***************************************************************************)
(* The life of the shared world: loaded when the server starts, edited by  *)
(* the connections, written to world_file by the periodic saver task, and  *)
(* lost with the process.  crates/server/src/world.rs and the task that    *)
(* serve() in crates/server/src/lib.rs spawns.                             *)
(*                                                                         *)
(* save() builds its whole buffer under the lock, then hands it to         *)
(* std::fs::write without the lock.  std::fs::write truncates the file and *)
(* writes it in place, so edits and a crash can fall between those steps.  *)
(*                                                                         *)
(* The file is a sequence of (x, y, z, state) records in HashMap order.    *)
(* load() keeps the records before the first one that does not decode, and *)
(* every position occurs once, so a file is the map of its whole records:  *)
(* cut anywhere it is some part of the buffer, whichever order was used.   *)
(***************************************************************************)
EXTENDS WorldEdits

VARIABLES
  up,       \* the server process runs
  file,     \* the records of world_file (none: empty or missing)
  saver,    \* where the saver task stands
  buf,      \* save()'s buffer; NoEdits when save() is not running
  \* History, read by properties only:
  saved,    \* the last state a completed save wrote for each position
  torn,     \* the file is not a whole snapshot: truncated and not completed
  damaged   \* what starts have met so far: a torn file, an unreadable one

vars == <<edits, up, file, saver, buf, saved, torn, damaged>>
history == <<saved, torn, damaged>>

SaverPhases == {"off", "sleeping", "opening", "writing"}

\* Before the first start there is no world file.
Init ==
  /\ EditsInit
  /\ up = FALSE /\ saver = "off"
  /\ file = NoEdits /\ buf = NoEdits
  /\ saved = NoEdits /\ torn = FALSE /\ damaged = {}

-----------------------------------------------------------------------------
\* A mutant of load: a reader that stops one record early.
load_drops_one(records) ==
  \E q \in Positions :
    /\ edits' = [c \in Chunks |->
                  [p \in Positions |-> IF c = chunk_of_block(p) /\ p # q
                                       THEN records[p] ELSE NoEdit]]

\* World::load: every record goes through set_block into an empty world.
load(records) ==
  edits' = [c \in Chunks |->
             [p \in Positions |-> IF c = chunk_of_block(p)
                                  THEN records[p] ELSE NoEdit]]

\* serve(): load the world, then spawn the saver.  Its first interval tick is
\* consumed, so the first save is a full period away.
serve ==
  /\ ~up /\ up' = TRUE
  /\ load(file)
  /\ saver' = "sleeping"
  /\ damaged' = damaged \cup (IF torn THEN {"torn"} ELSE {})
  /\ UNCHANGED <<file, buf, saved, torn>>

\* std::fs::read fails: load() treats every error like a missing file.
serve_unreadable ==
  /\ ~up /\ up' = TRUE
  /\ load(NoEdits)
  /\ saver' = "sleeping"
  /\ damaged' = damaged \cup {"unreadable"}
  /\ UNCHANGED <<file, buf, saved, torn>>

\* A connection breaks or places a block.
edit(p, s) ==
  /\ up
  /\ set_block(p, s)
  /\ UNCHANGED <<up, file, saver, buf, history>>

-----------------------------------------------------------------------------
\* The interval ticks: save() copies the edits into its buffer, locked
\* throughout (the guard is a temporary of the `for` loop's iterator).
save ==
  /\ saver = "sleeping" /\ saver' = "opening"
  /\ buf' = AllEdits
  /\ UNCHANGED <<edits, up, file, history>>

\* A mutant of write_open: the file is kept and written over.
write_open_keeps_records ==
  /\ saver = "opening" /\ saver' = "writing"
  /\ torn' = TRUE
  /\ UNCHANGED <<edits, up, file, buf, saved, damaged>>

\* std::fs::write opens world_file, which truncates it.
write_open ==
  /\ saver = "opening" /\ saver' = "writing"
  /\ file' = NoEdits /\ torn' = TRUE
  /\ UNCHANGED <<edits, up, buf, saved, damaged>>

\* Further records of the buffer reach the file.
write_record(p) ==
  /\ saver = "writing"
  /\ file[p] # buf[p]
  /\ file' = [file EXCEPT ![p] = buf[p]]
  /\ UNCHANGED <<edits, up, saver, buf, history>>

\* A mutant of write_done: save() reports success before all is written.
write_done_early ==
  /\ saver = "writing" /\ saver' = "sleeping"
  /\ torn' = FALSE /\ buf' = NoEdits
  /\ saved' = [p \in Positions |-> IF buf[p] = NoEdit THEN saved[p] ELSE buf[p]]
  /\ UNCHANGED <<edits, up, file, damaged>>

\* The whole buffer is written: save() returns Ok.
write_done ==
  /\ saver = "writing" /\ saver' = "sleeping"
  /\ file = buf
  /\ torn' = FALSE /\ buf' = NoEdits
  /\ saved' = [p \in Positions |-> IF buf[p] = NoEdit THEN saved[p] ELSE buf[p]]
  /\ UNCHANGED <<edits, up, file, damaged>>

\* A mutant of write_fails: an error ends save() with its buffer kept.
write_fails_keeps_buffer ==
  /\ saver \in {"opening", "writing"} /\ saver' = "sleeping"
  /\ UNCHANGED <<edits, up, file, buf, history>>

\* Opening or writing fails: save() returns Err, which is logged, and the task
\* sleeps until its next tick.  What was truncated or written stays.
write_fails ==
  /\ saver \in {"opening", "writing"} /\ saver' = "sleeping"
  /\ buf' = NoEdits
  /\ UNCHANGED <<edits, up, file, history>>

\* The process ends, at any point: nothing saves on the way out.
stop ==
  /\ up /\ up' = FALSE
  /\ saver' = "off" /\ buf' = NoEdits
  /\ edits' = [c \in Chunks |-> NoEdits]
  /\ UNCHANGED <<file, history>>

Saver == save \/ write_open \/ (\E p \in Positions : write_record(p)) \/ write_done

Next ==
  \/ serve
  \/ serve_unreadable
  \/ \E p \in Positions, s \in States : edit(p, s)
  \/ save
  \/ write_open
  \/ \E p \in Positions : write_record(p)
  \/ write_done
  \/ write_fails
  \/ stop

Spec == Init /\ [][Next]_vars

\* The saver task is scheduled for as long as the process runs.
FairSpec == Spec /\ WF_vars(Saver)

-----------------------------------------------------------------------------
\* The types, and how the saver's phase goes with the rest: it exists while the
\* process runs and its buffer while save() runs.
TypeOK ==
  /\ EditsTypeOK
  /\ up \in BOOLEAN /\ torn \in BOOLEAN /\ damaged \subseteq {"torn", "unreadable"}
  /\ saver \in SaverPhases
  /\ file \in BlockMap /\ buf \in BlockMap /\ saved \in BlockMap
  /\ up <=> saver # "off"
  /\ saver \in {"off", "sleeping"} => buf = NoEdits

\* What an Ok from save() is worth.  A position that a completed save wrote
\* stays edited while the server runs, and the file holds exactly what the last
\* completed save wrote for it, except between a save's truncation of the file
\* and its completion.  So edits that were on disk are lost only by a start
\* that meets the file in that window or cannot read it: no other order of
\* edits, saves, failed saves, crashes and restarts loses one.
DurableUnlessTorn ==
  damaged = {} => \A p \in Positions : saved[p] # NoEdit =>
                /\ up => BlockAt(p) # NoEdit
                /\ ~torn => file[p] = saved[p]

\* world.rs implements the flat store with a partial-snapshot disk: keying the
\* edits by chunk, writing them as records and reading those back never moves,
\* merges or invents an edit.
Store == INSTANCE BlockStore
           WITH mem <- AllEdits, flush <- buf, disk <- file, up <- up
ImplementsBlockStore == Store!Spec

\* Writing may fail any number of times.  Once it stops failing, an edit that
\* stays in place gets to the file if the server stays up, however many other
\* edits keep coming.
EditsReachDisk ==
  <>[][~write_fails]_vars =>
    \A p \in Positions, s \in States :
      (up /\ BlockAt(p) = s) ~> (~up \/ BlockAt(p) # s \/ file[p] = s)

\* README.md:9-10 says of edits that they persist, saved to disk.  Claim: what a
\* completed save wrote is there after every restart that can read the file.  A
\* crash while the file is being rewritten in place refutes it.
SavedEditsSurvive ==
  up /\ "unreadable" \notin damaged =>
    \A p \in Positions : saved[p] # NoEdit => BlockAt(p) # NoEdit
=============================================================================
