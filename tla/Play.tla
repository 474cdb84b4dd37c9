---------------------------------- MODULE Play ----------------------------------
(***************************************************************************)
(* The play state, crates/server/src/play.rs: one task per connection that *)
(* streams chunks around its player and applies the player's edits to the  *)
(* world all connections share.                                            *)
(*                                                                         *)
(* A task handles one packet at a time.  Every write is an await, so other *)
(* connections run between any two writes of a handler, and between        *)
(* set_block and the reply to it.  A keep-alive is sent only by the task   *)
(* itself, between two packets.                                            *)
(*                                                                         *)
(* The client is external: it decides what to send, applies what arrives   *)
(* in order, and when its chunk cache is re-centred it drops the chunks    *)
(* beyond KeepRadius.  Of the packets, only what the properties tell apart *)
(* is kept; their fields, and bodies that do not decode, are those of      *)
(* PlayPackets.                                                            *)
(***************************************************************************)
EXTENDS WorldEdits, Faces, SequencesExt

CONSTANTS
  Clients,        \* connections
  Items,          \* item ids a client may put in its hotbar
  item_to_block,  \* Registries::item_to_block: the block state of some items
  Slots,          \* container slots the client edits
  Hotbar,         \* hotbar indices the client selects
  Empty,          \* no item in a slot, no block for an item
  VIEW_DISTANCE,  \* the view distance announced to the client
  KeepRadius,     \* the client keeps chunks this far from its cache's centre
  OutBound,       \* packets a connection holds before a write waits
  Seqs            \* sequence numbers: unanswered actions a client may have

ASSUME ItemsAssumption ==
  item_to_block \in [Items -> States \cup {Empty}] /\ Empty \notin Items \cup States
ASSUME RadiusAssumption == VIEW_DISTANCE \in Nat /\ KeepRadius \in Nat
ASSUME OutBoundAssumption == OutBound \in Nat \ {0}
ASSUME OriginAssumption == <<0, 0>> \in Chunks
ASSUME HotbarAssumption == Hotbar \subseteq Nat /\ 0 \in Hotbar /\ Slots \subseteq Nat
ASSUME AirAssumption == 0 \in States

VARIABLES
  ses,     \* ses[c]: the locals of c's handle()
  out,     \* out[c]: packets written to c and not yet received
  cli,     \* cli[c]: the client's side
  stale    \* history: positions another connection changed since c was told

vars == <<edits, ses, out, cli, stale>>

SEND_RADIUS == VIEW_DISTANCE + 1
STATE_AIR == 0
HOTBAR_OFFSET == 36

Distance(a, b) ==
  LET abs(n) == IF n < 0 THEN -n ELSE n
      dx == abs(a[1] - b[1])
      dz == abs(a[2] - b[2])
  IN  IF dx > dz THEN dx ELSE dz

\* A mutant of Around: `..` for `..=`.
Around_exclusive(c) ==
  {d \in Chunks : /\ c[1] - SEND_RADIUS <= d[1] /\ d[1] < c[1] + SEND_RADIUS
                  /\ c[2] - SEND_RADIUS <= d[2] /\ d[2] < c[2] + SEND_RADIUS}

\* The square of chunks load_around walks over, as far as it is in play.
Around(c) ==
  {d \in Chunks : /\ c[1] - SEND_RADIUS <= d[1] /\ d[1] <= c[1] + SEND_RADIUS
                  /\ c[2] - SEND_RADIUS <= d[2] /\ d[2] <= c[2] + SEND_RADIUS}

\* The order of load_around's two loops.
FirstChunk(S) ==
  CHOOSE a \in S : \A b \in S : a[1] < b[1] \/ (a[1] = b[1] /\ a[2] <= b[2])

NoReply == [pos |-> Empty]
NoBatch == -1

Session(pc) ==
  [pc |-> pc, center |-> <<0, 0>>, loaded |-> {}, pending |-> {}, total |-> 0,
   reply |-> NoReply, selected |-> 0, inventory |-> [s \in Slots |-> Empty]]
FreshClient ==
  [held |-> {}, view |-> NoEdits, batch |-> NoBatch, waiting |-> {}]

Init ==
  /\ EditsInit
  /\ ses = [c \in Clients |-> Session("out")]
  /\ out = [c \in Clients |-> <<>>]
  /\ cli = [c \in Clients |-> FreshClient]
  /\ stale = [c \in Clients |-> {}]

-----------------------------------------------------------------------------
\* write_frame: waits while the connection is full.
write_frame(c, m) ==
  /\ Len(out[c]) < OutBound
  /\ out' = [out EXCEPT ![c] = Append(@, m)]

\* handle() up to its first load_around: the join packets, no chunk sent yet.
Join(c) ==
  /\ ses[c].pc = "out"
  /\ ses' = [ses EXCEPT ![c] = Session("recenter")]
  /\ UNCHANGED <<edits, out, cli, stale>>

\* A mutant of Recenter: chunks are sent and not remembered.
Recenter_forgets(c) ==
  LET new == Around(ses[c].center) \ ses[c].loaded IN
  /\ ses[c].pc = "recenter"
  /\ write_frame(c, [k |-> "center", chunk |-> ses[c].center])
  /\ ses' = [ses EXCEPT ![c].pending = new,
                        ![c].total = Cardinality(new),
                        ![c].pc = IF new = {} THEN "idle" ELSE "start"]
  /\ UNCHANGED <<edits, cli, stale>>

\* load_around: re-centre the client's cache; then collect what is not loaded,
\* marking it loaded at once.
Recenter(c) ==
  LET new == Around(ses[c].center) \ ses[c].loaded IN
  /\ ses[c].pc = "recenter"
  /\ write_frame(c, [k |-> "center", chunk |-> ses[c].center])
  /\ ses' = [ses EXCEPT ![c].loaded = @ \cup new,
                        ![c].pending = new,
                        ![c].total = Cardinality(new),
                        ![c].pc = IF new = {} THEN "idle" ELSE "start"]
  /\ UNCHANGED <<edits, cli, stale>>

StartBatch(c) ==
  /\ ses[c].pc = "start"
  /\ write_frame(c, [k |-> "start"])
  /\ ses' = [ses EXCEPT ![c].pc = "chunks"]
  /\ UNCHANGED <<edits, cli, stale>>

\* A mutant of SendChunk: the base world, without edits.
SendChunk_base(c) ==
  LET d == FirstChunk(ses[c].pending) IN
  /\ ses[c].pc = "chunks" /\ ses[c].pending # {}
  /\ write_frame(c, [k |-> "chunk", chunk |-> d, edits |-> NoEdits])
  /\ ses' = [ses EXCEPT ![c].pending = @ \ {d}]
  /\ stale' = [stale EXCEPT ![c] = {p \in @ : chunk_of_block(p) # d}]
  /\ UNCHANGED <<edits, cli>>

\* One turn of the sending loop: the chunk as it is now.
SendChunk(c) ==
  LET d == FirstChunk(ses[c].pending) IN
  /\ ses[c].pc = "chunks" /\ ses[c].pending # {}
  /\ write_frame(c, [k |-> "chunk", chunk |-> d, edits |-> chunk_edits(d)])
  /\ ses' = [ses EXCEPT ![c].pending = @ \ {d}]
  /\ stale' = [stale EXCEPT ![c] = {p \in @ : chunk_of_block(p) # d}]
  /\ UNCHANGED <<edits, cli>>

FinishBatch(c) ==
  /\ ses[c].pc = "chunks" /\ ses[c].pending = {}
  /\ write_frame(c, [k |-> "finished", count |-> ses[c].total])
  /\ ses' = [ses EXCEPT ![c].pc = "idle"]
  /\ UNCHANGED <<edits, cli, stale>>

-----------------------------------------------------------------------------
\* A mutant of Move: the new centre is noted and nothing is loaded.
Move_loads_nothing(c, to) ==
  /\ ses[c].pc = "idle" /\ to # ses[c].center
  /\ ses' = [ses EXCEPT ![c].center = to]
  /\ UNCHANGED <<edits, out, cli, stale>>

\* S_MOVE_POS, S_MOVE_POS_ROT: the player is in another chunk than before.
Move(c, to) ==
  /\ ses[c].pc = "idle" /\ to # ses[c].center
  /\ ses' = [ses EXCEPT ![c].center = to, ![c].pc = "recenter"]
  /\ UNCHANGED <<edits, out, cli, stale>>

\* A block changes: c answers its own client, and no other connection learns
\* of it.
Change(c, p, s, q) ==
  /\ set_block(p, s)
  /\ ses' = [ses EXCEPT ![c].pc = "update",
                        ![c].reply = [pos |-> p, state |-> s, seq |-> q]]
  /\ stale' = [d \in Clients |-> IF d = c THEN stale[d] \ {p} ELSE stale[d] \cup {p}]

\* The client sends an action with a sequence number it has not in use.
Ask(c, q) ==
  /\ ses[c].pc = "idle" /\ q \notin cli[c].waiting
  /\ cli' = [cli EXCEPT ![c].waiting = @ \cup {q}]

\* S_PLAYER_ACTION with status 0 or 2: break a block.
Break(c, p, q) ==
  /\ Ask(c, q)
  /\ Change(c, p, STATE_AIR, q)
  /\ UNCHANGED out

\* The block state of the selected hotbar item, or Empty: the slot may be empty,
\* never set, or hold an item that is no block.
Held(c) ==
  LET slot == HOTBAR_OFFSET + ses[c].selected
      item == IF slot \in Slots THEN ses[c].inventory[slot] ELSE Empty
  IN  IF item = Empty THEN Empty ELSE item_to_block[item]

\* A mutant of Place: the block lands on the face, the update names the block
\* that was clicked.
Place_updates_clicked(c, p, face, q) ==
  /\ Ask(c, q) /\ Held(c) # Empty
  /\ neighbour(p, face) \in Positions
  /\ set_block(neighbour(p, face), Held(c))
  /\ ses' = [ses EXCEPT ![c].pc = "update",
                        ![c].reply = [pos |-> p, state |-> Held(c), seq |-> q]]
  /\ stale' = [d \in Clients |-> IF d = c THEN stale[d] \ {neighbour(p, face)}
                                 ELSE stale[d] \cup {neighbour(p, face)}]
  /\ UNCHANGED out

\* S_USE_ITEM_ON with a block in hand: it goes next to the clicked face.
Place(c, p, face, q) ==
  /\ Ask(c, q) /\ Held(c) # Empty
  /\ neighbour(p, face) \in Positions
  /\ Change(c, neighbour(p, face), Held(c), q)
  /\ UNCHANGED out

\* A mutant of PlaceNothing: no acknowledgement when nothing was placed.
PlaceNothing_unanswered(c, q) ==
  /\ Ask(c, q) /\ Held(c) = Empty
  /\ UNCHANGED <<edits, ses, out, stale>>

\* S_USE_ITEM_ON with no block in hand is acknowledged all the same.
PlaceNothing(c, q) ==
  /\ Ask(c, q) /\ Held(c) = Empty
  /\ ses' = [ses EXCEPT ![c].pc = "ack",
                        ![c].reply = [pos |-> Empty, state |-> Empty, seq |-> q]]
  /\ UNCHANGED <<edits, out, stale>>

\* A mutant of SendUpdate: the acknowledgement is written first.
SendUpdate_acks_first(c) ==
  LET r == ses[c].reply IN
  /\ ses[c].pc = "update"
  /\ Len(out[c]) + 1 < OutBound
  /\ out' = [out EXCEPT ![c] = @ \o <<
       [k |-> "ack", seq |-> r.seq],
       [k |-> "update", pos |-> r.pos, state |-> r.state, seq |-> r.seq]>>]
  /\ ses' = [ses EXCEPT ![c].pc = "idle", ![c].reply = NoReply]
  /\ UNCHANGED <<edits, cli, stale>>

SendUpdate(c) ==
  LET r == ses[c].reply IN
  /\ ses[c].pc = "update"
  /\ write_frame(c, [k |-> "update", pos |-> r.pos, state |-> r.state, seq |-> r.seq])
  /\ ses' = [ses EXCEPT ![c].pc = "ack"]
  /\ UNCHANGED <<edits, cli, stale>>

SendAck(c) ==
  /\ ses[c].pc = "ack"
  /\ write_frame(c, [k |-> "ack", seq |-> ses[c].reply.seq])
  /\ ses' = [ses EXCEPT ![c].pc = "idle", ![c].reply = NoReply]
  /\ UNCHANGED <<edits, cli, stale>>

\* S_SET_CARRIED_ITEM.
SetCarried(c, index) ==
  /\ ses[c].pc = "idle"
  /\ ses' = [ses EXCEPT ![c].selected = index]
  /\ UNCHANGED <<edits, out, cli, stale>>

\* S_SET_CREATIVE_SLOT: a stack of an item, or an empty one.
SetCreativeSlot(c, slot, item) ==
  /\ ses[c].pc = "idle"
  /\ ses' = [ses EXCEPT ![c].inventory[slot] = item]
  /\ UNCHANGED <<edits, out, cli, stale>>

\* S_CHAT: the line is echoed.
Chat(c) ==
  /\ ses[c].pc = "idle"
  /\ write_frame(c, [k |-> "notice"])
  /\ UNCHANGED <<edits, ses, cli, stale>>

\* A mutant of KeepAlive: keep-alives come from a task of their own.
KeepAlive_any_time(c) ==
  /\ ses[c].pc # "out"
  /\ write_frame(c, [k |-> "notice"])
  /\ UNCHANGED <<edits, ses, cli, stale>>

\* The interval ticks while the task waits for a packet.
KeepAlive(c) ==
  /\ ses[c].pc = "idle"
  /\ write_frame(c, [k |-> "notice"])
  /\ UNCHANGED <<edits, ses, cli, stale>>

\* The connection ends: end of input, or a failed write, at any point.
Leave(c) ==
  /\ ses[c].pc # "out"
  /\ ses' = [ses EXCEPT ![c] = Session("out")]
  /\ out' = [out EXCEPT ![c] = <<>>]
  /\ cli' = [cli EXCEPT ![c] = FreshClient]
  /\ stale' = [stale EXCEPT ![c] = {}]
  /\ UNCHANGED edits

-----------------------------------------------------------------------------
Kept(held, center) == {d \in held : Distance(d, center) <= KeepRadius}
ViewOf(view, held) ==
  [p \in Positions |-> IF chunk_of_block(p) \in held THEN view[p] ELSE NoEdit]

\* The external client applies one packet.
Received(k, m) ==
  CASE m.k = "center"   -> LET keep == Kept(k.held, m.chunk) IN
                           [k EXCEPT !.held = keep, !.view = ViewOf(@, keep)]
    [] m.k = "start"    -> [k EXCEPT !.batch = 0]
    [] m.k = "chunk"    -> [k EXCEPT !.batch = @ + 1,
                                     !.held = @ \cup {m.chunk},
                                     !.view = [p \in Positions |->
                                                 IF chunk_of_block(p) = m.chunk
                                                 THEN m.edits[p] ELSE @[p]]]
    [] m.k = "finished" -> [k EXCEPT !.batch = NoBatch]
    [] m.k = "update"   -> IF chunk_of_block(m.pos) \in k.held
                           THEN [k EXCEPT !.view[m.pos] = m.state] ELSE k
    [] m.k = "ack"      -> [k EXCEPT !.waiting = @ \ {m.seq}]
    [] m.k = "notice"   -> k

Deliver(c) ==
  /\ out[c] # <<>>
  /\ cli' = [cli EXCEPT ![c] = Received(@, Head(out[c]))]
  /\ out' = [out EXCEPT ![c] = Tail(@)]
  /\ UNCHANGED <<edits, ses, stale>>

\* What a task does without waiting for its client to ask.
Work(c) ==
  \/ Recenter(c) \/ StartBatch(c) \/ SendChunk(c) \/ FinishBatch(c)
  \/ SendUpdate(c) \/ SendAck(c)

Next ==
  \E c \in Clients :
    \/ Join(c)
    \/ Recenter(c)
    \/ StartBatch(c)
    \/ SendChunk(c)
    \/ FinishBatch(c)
    \/ \E to \in Chunks : Move(c, to)
    \/ \E p \in Positions, q \in Seqs : Break(c, p, q)
    \/ \E p \in Positions, face \in 0..6, q \in Seqs : Place(c, p, face, q)
    \/ \E q \in Seqs : PlaceNothing(c, q)
    \/ SendUpdate(c)
    \/ SendAck(c)
    \/ \E index \in Hotbar : SetCarried(c, index)
    \/ \E slot \in Slots, item \in Items \cup {Empty} : SetCreativeSlot(c, slot, item)
    \/ Chat(c)
    \/ KeepAlive(c)
    \/ Leave(c)
    \/ Deliver(c)

Spec == Init /\ [][Next]_vars

\* The runtime polls every task, and a client reads what it is sent.
FairSpec == Spec /\ \A c \in Clients : WF_vars(Work(c)) /\ WF_vars(Deliver(c))

-----------------------------------------------------------------------------
PCs == {"out", "recenter", "start", "chunks", "idle", "update", "ack"}

Packets ==
  [k : {"center"}, chunk : Chunks] \cup [k : {"start", "notice"}]
  \cup [k : {"chunk"}, chunk : Chunks, edits : BlockMap]
  \cup [k : {"finished"}, count : Nat]
  \cup [k : {"update"}, pos : Positions, state : States, seq : Seqs]
  \cup [k : {"ack"}, seq : Seqs]

\* The types, and what goes with a session's place in its handler: chunks wait
\* to be sent only in load_around and are marked loaded before, and an answer
\* is owed exactly while an action is handled.
TypeOK ==
  /\ EditsTypeOK
  /\ DOMAIN ses = Clients /\ DOMAIN cli = Clients
  /\ \A c \in Clients :
       /\ ses[c].pc \in PCs
       /\ ses[c].center \in Chunks
       /\ ses[c].loaded \subseteq Chunks
       /\ ses[c].pending \subseteq ses[c].loaded
       /\ ses[c].pending # {} => ses[c].pc \in {"start", "chunks"}
       /\ ses[c].reply # NoReply <=> ses[c].pc \in {"update", "ack"}
       /\ ses[c].selected \in Hotbar
       /\ ses[c].inventory \in [Slots -> Items \cup {Empty}]
       /\ cli[c].held \subseteq Chunks
       /\ cli[c].view \in BlockMap
       /\ cli[c].batch \in Nat \cup {NoBatch}
       /\ cli[c].waiting \subseteq Seqs
       /\ Len(out[c]) <= OutBound
       /\ \A i \in 1..Len(out[c]) : out[c][i] \in Packets
  /\ stale \in [Clients -> SUBSET Positions]

\* A chunk batch reaches the client whole: chunks come only between a batch's
\* start and its finish, nothing else comes there, and the finish counts them
\* right.  The client measures its batch rate by this framing.
BatchesWellFormed ==
  \A c \in Clients : out[c] # <<>> =>
    LET m == Head(out[c])
        inBatch == cli[c].batch # NoBatch
    IN  /\ inBatch <=> m.k \in {"chunk", "finished"}
        /\ m.k = "finished" => m.count = cli[c].batch

Quiet(c) == ses[c].pc = "idle" /\ out[c] = <<>>

\* What a client sees once all that was sent has arrived is the shared world, in
\* every chunk it holds, but for blocks that another connection changed after
\* this one was last told of them: the snapshots taken while a batch is being
\* sent and the updates of its own edits never leave it with an older state.
ViewCoherent ==
  \A c \in Clients : Quiet(c) =>
    \A p \in Positions :
      chunk_of_block(p) \in cli[c].held /\ p \notin stale[c]
        => cli[c].view[p] = BlockAt(p)

\* A chunk is rendered when the client holds it and all its neighbours
\* (play.rs:47-49).
Rendered(c, d) ==
  \A e \in Chunks : Distance(d, e) <= 1 => e \in cli[c].held

\* The world feels endless, with no visible edge (play.rs:1-2): once all that
\* was sent has arrived, every chunk in the view distance is rendered.  This
\* holds of a client whose cache drops nothing, KeepRadius being large enough;
\* with a bounded cache it is refuted, since `loaded` is never pruned and a
\* chunk that the client dropped is not sent again when the player returns.
NoVisibleEdge ==
  \A c \in Clients : Quiet(c) =>
    \A d \in Chunks : Distance(d, ses[c].center) <= VIEW_DISTANCE => Rendered(c, d)

\* An acknowledgement never overtakes the block update it vouches for: when the
\* client drops its prediction it already has the server's answer.
AckAfterUpdate ==
  \A c \in Clients : \A i \in 1..Len(out[c]) : out[c][i].k = "ack" =>
    /\ \A j \in i + 1..Len(out[c]) :
         out[c][j].k = "update" => out[c][j].seq # out[c][i].seq
    /\ ses[c].pc = "update" => ses[c].reply.seq # out[c][i].seq

\* Every action the client waits for is acknowledged, also when nothing could
\* be placed, unless the connection ends.
EveryActionAcked ==
  \A c \in Clients, q \in Seqs :
    q \in cli[c].waiting ~> q \notin cli[c].waiting

\* After a move the client gets to see the chunk it stands in, unless it moves
\* on or leaves.
ViewCatchesUp ==
  \A c \in Clients, d \in Chunks :
    (ses[c].pc # "out" /\ ses[c].center = d)
      ~> (ses[c].pc = "out" \/ ses[c].center # d \/ Rendered(c, d))
=============================================================================
