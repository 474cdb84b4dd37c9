------------------------------ MODULE BlockStore ------------------------------
(***************************************************************************)
(* What the world promises its users, without chunks, records or files: a  *)
(* flat map from positions to block states, and a disk that holds part of  *)
(* one moment of it.                                                       *)
(*                                                                         *)
(*   mem    the map while the server runs (no edits while it is down)      *)
(*   flush  the moment being written out (no edits when none is)           *)
(*   disk   what a restart would read back                                 *)
(*   up     the server runs                                                *)
(***************************************************************************)
CONSTANTS Positions, States, NoEdit
VARIABLES mem, flush, disk, up

Map  == [Positions -> States \cup {NoEdit}]
None == [p \in Positions |-> NoEdit]
PartOf(f, g) == \A p \in Positions : f[p] \in {NoEdit, g[p]}

Init == mem = None /\ flush = None /\ disk = None /\ up = FALSE

\* The last write to a position wins and disturbs no other position.
Put == /\ up
       /\ \E p \in Positions, s \in States : mem' = [mem EXCEPT ![p] = s]
       /\ UNCHANGED <<flush, disk, up>>

\* A flush captures one moment of the whole map ...
BeginFlush == up /\ flush' = mem /\ UNCHANGED <<mem, disk, up>>

\* ... while it runs the disk holds any part of that moment ...
FlushStep == /\ up
             /\ disk' \in Map /\ PartOf(disk', flush)
             /\ UNCHANGED <<mem, flush, up>>

\* ... and it ends by completing or by giving up.
EndFlush == up /\ flush' = None /\ UNCHANGED <<mem, disk, up>>

Crash == up /\ up' = FALSE /\ mem' = None /\ flush' = None /\ UNCHANGED disk

\* A restart has what the disk holds, or nothing if it cannot be read.
Recover == /\ ~up /\ up' = TRUE
           /\ mem' \in {disk, None}
           /\ UNCHANGED <<flush, disk>>

Next == Put \/ BeginFlush \/ FlushStep \/ EndFlush \/ Crash \/ Recover

Spec == Init /\ [][Next]_<<mem, flush, disk, up>>
=============================================================================
