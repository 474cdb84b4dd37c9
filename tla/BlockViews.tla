------------------------------- MODULE BlockViews -------------------------------
(***************************************************************************)
(* A block as it travels: clicked by a client (a packed position and a     *)
(* face), stored by the server, announced as an update, and sent as part   *)
(* of its chunk to whoever comes later.  Composes Position and             *)
(* ChunkEncoding with the edits of the world, here one flat map (World     *)
(* implements it: BlockStore) from the edited positions to their states.   *)
(***************************************************************************)
EXTENDS Position, ChunkEncoding

CONSTANTS
  Worlds,    \* edits that a world file may hold when the server starts
  Clicks,    \* blocks that clients click
  Held,      \* states of the blocks they hold
  Area,      \* the chunks of interest
  MaxEdits   \* bound on the edits of one run

\* The height of the world and its border keep clients away from the ends of
\* the fields.
ASSUME ClicksAssumption == Clicks \subseteq Interior

\* Items place, and a world file holds, states of the table of blocks, and they
\* fit a direct entry.
ASSUME StatesAssumption ==
  /\ Held \subseteq States
  /\ \A w \in Worlds : /\ DOMAIN w \subseteq Int \X Int \X Int
                       /\ \A p \in DOMAIN w : w[p] \in States

ASSUME AreaAssumption == Area \subseteq Int \X Int

VARIABLES
  edits,  \* World::edits
  shown,  \* what a client shows that has been there from the start
  count   \* edits so far

vars == <<edits, shown, count>>

chunk_of_block(p) == <<p[1] \div SIDE, p[3] \div SIDE>>
chunk_edits(c) == RestrictDomain(edits, LAMBDA p : chunk_of_block(p) = c)

set_block(p, s) == edits' = [q \in DOMAIN edits \cup {p} |-> IF q = p THEN s ELSE edits[q]]

Init == edits \in Worlds /\ shown = edits /\ count = 0

\* The client applies an update where it decodes the position to.
Announce(packed, s) ==
  LET p == decode_position(packed)
  IN  shown' = [q \in DOMAIN shown \cup {p} |-> IF q = p THEN s ELSE shown[q]]

\* The update repeats the word that the client sent.
Break(packed) ==
  /\ count < MaxEdits /\ count' = count + 1
  /\ set_block(decode_position(packed), STATE_AIR)
  /\ Announce(packed, STATE_AIR)

\* A mutant of Place: announced at the block that was clicked.
Place_announces_clicked(packed, face, s) ==
  /\ count < MaxEdits /\ count' = count + 1
  /\ set_block(offset_block(packed, face), s)
  /\ Announce(packed, s)

Place(packed, face, s) ==
  LET t == offset_block(packed, face)
  IN  /\ count < MaxEdits /\ count' = count + 1
      /\ set_block(t, s)
      /\ Announce(encode_position(t[1], t[2], t[3]), s)

Next ==
  \E p \in Clicks : LET packed == encode_position(p[1], p[2], p[3])
                    IN  \/ Break(packed)
                        \/ \E face \in 0 .. 6, s \in Held : Place(packed, face, s)

Spec == Init /\ [][Next]_vars

-----------------------------------------------------------------------------
Shown(p, s) == IF p \in DOMAIN shown THEN shown[p] ELSE base(s)

\* An edit is announced exactly where it is stored, with the state that is
\* stored: the clicked word, the face and the word of the update name the same
\* block to the server and to the client.
UpdatesFollowEdits == shown = edits

\* Whoever is sent a chunk sees in it, block by block, what a client shows that
\* has followed the updates since the start: a click, its face, the position's
\* fields, the chunk and the section it is filed under, the palette and the
\* packing agree with each other, for uniform, indirect and direct sections and
\* for blocks at the borders of chunks and sections.  Blocks above and below
\* the sections are stored and announced but are in no chunk.
ViewsAgree ==
  \A c \in Area : LET sent == flat_chunk(chunk_edits(c)) IN \A s \in Sections :
    LET container == sent[s].container
    IN  /\ client_accepts(container)
        /\ LET seen == client_reads(container)
           IN  \A i \in Index : seen[i] = Shown(client_position(c, s, i), s)

\* A section's count of blocks that are not air is that of the blocks in it,
\* for sections with and without edits; clients skip sections that count none.
CountsMatch ==
  \A c \in Area : LET sent == flat_chunk(chunk_edits(c)) IN \A s \in Sections :
    sent[s].non_air =
      Cardinality({i \in Index : Shown(client_position(c, s, i), s) # STATE_AIR})
=============================================================================
