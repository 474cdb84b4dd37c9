------------------------------ MODULE LeatherServer ------------------------------
(***************************************************************************)
(* The server process, serve() in crates/server/src/lib.rs: one World that *)
(* the saver task and the play task of every connection share.  World      *)
(* leaves open who edits, Play has a world without a disk; here the edits  *)
(* are those that the connections make, and a stop of the process ends the *)
(* saver and every connection.                                             *)
(***************************************************************************)
EXTENDS Play

VARIABLES  \* of World
  up, file, saver, buf, saved, torn, damaged

W == INSTANCE World

disk == <<up, file, saver, buf, saved, torn, damaged>>
connections == <<ses, out, cli, stale>>

ServerInit == W!Init /\ Init

\* A mutant of Connections: they are accepted before the world is loaded.
Connections_before_load == Next /\ UNCHANGED disk

\* A connection's task or its client takes a step; the task of a connection
\* starts when the accept loop gets it, in a process that runs.
Connections == up /\ Next /\ UNCHANGED disk

\* serve() loads the world before it accepts; then the saver's steps.
SharedWorld ==
  /\ W!serve \/ W!serve_unreadable \/ W!Saver \/ W!write_fails
  /\ UNCHANGED connections

\* The process ends, and every connection with it.
Stop ==
  /\ W!stop
  /\ ses' = [c \in Clients |-> Session("out")]
  /\ out' = [c \in Clients |-> <<>>]
  /\ cli' = [c \in Clients |-> FreshClient]
  /\ stale' = [c \in Clients |-> {}]

ServerNext == Connections \/ SharedWorld \/ Stop

ServerSpec == ServerInit /\ [][ServerNext]_<<edits, connections, disk>>

-----------------------------------------------------------------------------
\* The connections use the world as World has it used: whatever they do, one
\* step of theirs is at most one edit, while the process runs.  So all that is
\* proved of World holds of the server.
ImplementsWorld == W!Spec

\* README.md:9-10: edits persist, saved to disk and sent again on reconnect.  A
\* client to which all that was sent has arrived sees an edit wherever a
\* completed save wrote one, however often it or the process went away in
\* between; but for blocks another connection changed since, and a start that
\* met a torn or unreadable file.
ResentOnReconnect ==
  damaged = {} =>
    \A c \in Clients : Quiet(c) =>
      \A p \in Positions :
        saved[p] # NoEdit /\ chunk_of_block(p) \in cli[c].held /\ p \notin stale[c]
          => cli[c].view[p] # NoEdit
=============================================================================
