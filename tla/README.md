# LeatherMC in TLA+

A verification development of LeatherMC (`src/`), a Minecraft server in Rust: TLA+ models of its parts,
TLC runs that check them on small instances, and TLAPS proofs for every instance.

- [Inventory](#inventory)
- [Modules](#modules)
- [Runs](#runs)
- [Fairness](#fairness)
- [Proofs](#proofs)
- [What the runs found](#what-the-runs-found)
- [Not modelled](#not-modelled)
- [What is left](#what-is-left)

## Inventory

The program is a tokio server (`crates/server`), its wire-protocol crate (`crates/protocol`) and an offline
tool that prepares the data the server streams (`crates/datagen`).

| Component | State | Operations | Talks to |
| --- | --- | --- | --- |
| World (`world.rs`) | `edits`: chunk -> (block -> state), behind one mutex | `set_block`, `chunk_edits`, `load`, `save` | every play task; the saver task of `lib.rs`; `world_file` |
| Server (`lib.rs`) | listener, shared registries and world | load, spawn the saver (every 30 s), accept, one task per connection | world, connections |
| Connection (`connection.rs`, `status.rs`, `login.rs`, `configuration.rs`) | how far the connection is; `sent_registries` | handshake, status and ping, login, configuration | the client, the registries |
| Play (`play.rs`) | `loaded`, the centre chunk, hotbar, keep-alive counter | move, break, place, hotbar packets, chat, keep-alive, `load_around` | the client, the world |
| Chunk encoding (`chunk.rs`) | none | `flat_chunk`: sections, palettes, packing | play |
| Registries (`registries.rs`) | the streamed entries, tags, item table | `load`, `index_of` | files of datagen; configuration, play |
| Framing (`packet.rs`) | a half-read frame | `read_frame`, `write_frame`, field readers and writers | every task |
| VarInt (`varint.rs`) | none | encode, decode, length | framing, world file, chunks, datagen |
| NBT (`nbt.rs`) | none | `write_network_nbt` | chat, datagen |
| Datagen (`crates/datagen`) | none | convert registries, resolve tags, item table | files the server loads |

What is hard in it, and what makes each part correct:

- **World.** Connections edit while a save copies and writes, the process can stop anywhere, `std::fs::write`
  truncates in place, and chunk keys of negative coordinates must floor. Correct: edits stay under their own
  chunk; the chunk-keyed map behaves as one flat map; a file is part of one moment of it; what a save
  completed is lost only in the one window the code leaves open; edits get to the file eventually.
- **Play.** Every write is an await between which other connections run; a slow client holds up its task;
  replies of a handler must not be reordered or split; the set of loaded chunks must follow the client's.
  Correct: a client ends up with the world's blocks where nobody else changed them since; batches arrive
  whole; updates precede acknowledgements; every action is acknowledged; the view distance gets rendered.
- **Connection.** Both ends change protocol state on their own while packets are under way. Correct: each
  packet is read in the state it was written for, the join sequence arrives once and in order, and completes.
- **Framing.** TCP cuts frames anywhere, and the play loop reads inside a `tokio::select!` that may drop the
  reader. Correct: whole packets, each once, in order.
- **VarInt, fields, NBT.** Sign, width and the fifth byte of a VarInt; fields that are read in the order and of
  the widths in which they were written, skipped ones included; bodies and files that end early; typed lists and
  16-bit string lengths. Correct: what is read is what was written, a cut makes no value out of parts of others,
  and a client decodes what NBT can say at all.
- **Chunk encoding and positions.** Signed bit fields, faces, three orders of axes, palettes whose size decides
  the width and the kind of a container. Correct: an edit is announced where it is stored, and whoever is sent
  the chunk later sees the same blocks.
- **Datagen and registries.** Indices computed on two sides, recursive expansion with a cycle guard and a cache,
  JSON whose types NBT does not have, interrupted and repeated runs. Correct: a tag lists what it leads to, its
  indices name those entries, entries decode to what their JSON says, items are placed as the block of their name.
- **Server.** Connections, the saver and the end of the process meet in one world. Correct: all that is true of the
  world alone stays true with connections on it, and a saved edit is sent again to whoever comes back.

`PROJECT.json` lists every hazard at its line with the properties that cover it, or says why none does.

## Modules

**`WorldEdits`** is the in-memory half of `world.rs`. `edits[c][p]` is the state recorded for block `p` in the
map of chunk `c`, or `NoEdit` where the HashMaps have no entry. `set_block` and `chunk_edits` are single steps:
the code holds the mutex for all of each and never awaits inside. `\div` by 16 is `div_euclid` by 16.

**`World`** adds the process, `world_file` and the saver task. `serve` loads and spawns the saver, `edit` is
`set_block` called from a connection, `save` is the locked copy into the buffer; then `write_open` (truncation),
`write_record`, and `write_done` or `write_fails` are what `std::fs::write` does outside the lock. `stop` ends
the process at any point. The file is modelled as the map of its whole records: `load` keeps the records before
the first that does not decode, every block occurs once, and a HashMap iterates in any order, so a file cut
anywhere is some part of the buffer. `saved`, `torn` and `damaged` are history for the properties.

**`BlockStore`** is what the world promises: one flat map, a flush that captures one moment of it, a disk that
holds part of that moment while a flush runs and after a crash. `World!Store` is the refinement mapping: the
map is `AllEdits`, the flush is the saver's buffer, the disk is the file.

**`Play`** extends `WorldEdits` with the play tasks. `ses[c]` holds the locals of `handle`, `out[c]` the
packets on their way, `cli[c]` what the client has made of them, and `stale[c]` (history) the blocks that
another connection changed since `c` was last told. A handler is a chain of steps, one per `write_frame`
(`pc`): `Move`, `Recenter`, `StartBatch`, `SendChunk`..., `FinishBatch` for a move; `Break` or `Place`, `SendUpdate`,
`SendAck` for an edit. A chunk's snapshot and its write are one step, since only this task writes to this
client and it does nothing in between. Packets that do not decode or that the server ignores change nothing.
The client is external: it applies packets in order and keeps the chunks within `KeepRadius` of the centre it
was given.

**`Connection`** is one connection from accept to the join packets. Between two reads a handler only writes,
so the server is `pc` (where it reads next) and `todo` (what it has yet to write). The client is external and
follows the protocol, may send packets nobody asked for and may go away.

**`LeatherServer`** is `serve`: it extends `Play` and instantiates `World` on the same `edits`. The edits that
`World` leaves open are those that connections make (`Connections`), the world is loaded before the first of them
is accepted, the saver runs beside them (`SharedWorld`), and a stop ends them all (`Stop`). `ImplementsWorld` is the
refinement back to `World`. **`Faces`** has the directions of a placement, which `Play` and `Position` share.

**`VarInt`** has the codec with the group size and the integer range as parameters (2^7 and 2^32 in the code).
**`PacketFields`** has `PacketReader` and `PacketWriter` on top of it, on sequences of bytes: a reader is a body and
a position, each `read` returns a value or fails, and the widths of the fixed types are parameters. `read_turn` is a turn
of `read_varint`'s loop. A tuple of reads is made to its end whatever becomes of the first, as in Rust. `load_rows`, whose
turns are `load_row`, and `save_rows` are the files of `World` and of the item table. **`NbtStrings`** has
the tags and strings of NBT, and the text that is a chat line; **`Nbt`** has the rest of `write_network_nbt`. Both have,
external, a client's reader for what they write.

**`PlayPackets`** puts them to use: each behaviour is one packet body or file, written by the client or the program,
perhaps `cut` short, and read by the handler (`OnMove`, `OnChat`, ...) or loader that it is for. `Play` starts from
decoded packets, and this is why it may. **`PlayReplies`** adds the client that decodes the handlers'
answers in turn.

**`Framing`** composes that codec into `read_frame` over a byte stream: `ReadLength` takes a byte of the length,
`ReadBody` takes any number of the bytes that have arrived, `Tick` is the `select!` that drops an unfinished
`read_frame`. **`FrameChannel`** is what framing promises, a reliable channel of whole packets.

**`Position`** has the packed 64-bit position (as the number its bits spell, with the field sizes as
parameters), the placement target and the chunk of a player. **`ChunkEncoding`** is `flat_chunk`, section by
section down to the packed longs, with the client's reader of that format (external) next to it; sizes are
parameters. **`BlockViews`** composes the two with the world's edits, here the flat map that `World` is shown to
implement: `Break` and `Place` decode the clicked word, store and announce; `shown` is what a client makes of
the announcements. One connection is enough, since `Play` covers the interleaving.

**`TagResolve`** is `resolve` with its cache and cycle guard: a table of its calls by the set of tags that are not on
the stack, which shrinks from call to call, so that the recursion is a function and can be proved about. `Reach` and
`EntriesOf` say beside it what a tag means. **`Datagen`** is a run of the tool on one streamed registry, interrupted,
repeated or upgraded by the operator: one entry after another, then `tags.bin`, then `item_to_block.bin`, and each
of them as `std::fs::write` does it, created or emptied first (`ConvertEntry`, `create_tags`, `create_item_blocks`) and
then written piece by piece (`WriteEntry`, `write_tags`, `write_item_blocks`). Beside it, at any time, the server loads
the directory, one step per file: `load` opens it, `collect` reads an entry, `read_tags` and `read_items` follow when the
listing is at its end (`collected`), and a file that cannot be read makes `serve` go on with nothing (`collect_fails`).
A listing is sure to give what was there all along (`due`) and may give what is added. Entries are numbers ordered as
their names are; entries and the item table are bytes, and of `tags.bin` the model says whether none, part or all of it
is written. Next to a file stands, as history, the JSON or jar it was made from; `mixed` records that a newer jar
followed an older one into the same directory, and `server.settled` that a load began with just the entries of the jar
at hand and no other jar's `tags.bin`, and that this jar stayed. What bytes an entry's JSON becomes is the constant
`entry_nbt`, to which **`RegistryData`** gives its meaning: it has the packet in which the server sends a registry and
the client that decodes it. **`JsonToNbt`** is `json_to_nbt`, with `Meaning` (what a JSON value is to tell a client) and
`Sayable` (what this NBT can say) for the property.

`MCWorld`, `MCPlay`, `MCLeatherServer`, `MCConnection`, `MCPlayPackets`, `MCFraming`, `MCBlockViews` and `MCDatagen`
give the constants their values for TLC; the modules that end in `Proofs` hold the proofs. Definitions commented
"A mutant of ..." are plausible bugs that the property of the same mutant entry in `PROJECT.json` detects; no
specification uses them.

## Runs

| Run | Instance and bounds | Shows |
| --- | --- | --- |
| `world` | 2 blocks, one on each side of x = 0; states 0 (air) and 1 | `TypeOK`, `ChunkKeyed`, `DurableUnlessTorn`, `ImplementsBlockStore`, `EditsReachDisk` |
| `world_crash` | the same | `SavedEditsSurvive` is violated |
| `play` | 2 connections, 2 chunks with a block on each side of their border, 1 packet in flight each | `TypeOK`, `ViewCoherent` |
| `session` | 1 connection, 4 chunks in a row, view distance 0 (so 3 chunks are sent), 1 block, 2 sequence numbers, 3 packets in flight | `BatchesWellFormed`, `NoVisibleEdge`, `AckAfterUpdate`, `EveryActionAcked`, `ViewCatchesUp` |
| `play_edge` | as `session`, with a client that keeps only chunks at distance 1 | `NoVisibleEdge` is violated |
| `connection` | 2 registries and tags, 3 packets in flight per direction | `TypeOK`, `InStep`, `DeliveredInOrder`, `Completes`, `TasksEnd` |
| `packets` | bytes of 4 bits, integers of 10; packets of all seven kinds, files of 0 to 3 rows of 2 or 4 integers, each whole or cut anywhere; all bodies of up to 3 bytes, and those of 4 to 6 over 6 of the 16 bytes (the longest encoding has 4) | `DecodedAsMeant`, `CutNeverMisread`, `WholeRows`, `Bounded`, `ChatEchoed` |
| `framing` | 3 frames of lengths 0, 1 and 5 (the maximum), 5-bit lengths in 2-bit groups | `TypeOK`, `NoFalseError`, `ImplementsFrameChannel`, `FramesArrive` |
| `framing_tick` | the same | `FramesIntact` is violated |
| `block_views` | sides of 3, 2 sections, 16-bit longs, palettes of 2 or 3 bits, 5-bit states, 2 chunks; 25 worlds to start from, 3 clicked blocks, 2 edits | `UpdatesFollowEdits`, `ViewsAgree`, `CountsMatch` |
| `datagen` | 1 streamed registry of 1 or 2 entries; about 320 webs of 2 or 3 tags, or about 190 JSON values in an entry, or tables of items and blocks; files of entries and items seen at 0, 6 or all bytes; 2 upgrades | `TagsComplete`, `TagsNameEntries`, `EntriesReadable`, `ItemsNameBlocks` |
| `server` | 1 block that can be broken, 2 connections, 2 packets in flight each, the saver | `ResentOnReconnect`, `ImplementsWorld` |

Why these bounds are enough to be interesting:

- *World.* The two blocks are the pair that truncating division would put into one chunk; overwriting, breaking
  and a stale file all need two states. Saves, faults, crashes and restarts are unbounded.
- *Play.* In `play` a placement from one chunk lands in the other, and chunk snapshots, edits of both
  connections, departures and returns interleave freely; the order of packets to one client is what `session`
  examines with several packets in flight and overlapping actions. With view distance 0 the sent square is the
  chunk and its neighbours, the smallest instance where "one ring more than is seen" means something, and on
  four chunks the player can walk out of reach of where it started.
- *Framing and packets.* The groups and widths keep the shape of the real sizes: the last byte of a VarInt has
  unused bits, the packet ids fit, a length takes one byte or more, bytes of a body are also lengths in and out of
  range; a VarInt may go on beyond its longest encoding, in bodies that go on as well. Chat lines go beyond the length of an NBT string (15 with one byte for the code's two) and contain the lead
  byte of a character that Java's reader refuses; sequence numbers go through all values of an integer.
- *BlockViews.* 27 blocks in a section allow palettes of 1 (uniform), of 2 to 4 (the minimum width), of 5 to 8
  (a wider palette) and beyond (direct); long sizes leave unused bits for two of the widths, as the real ones
  do. The clicked blocks are next to another chunk, another section, and the outside of the sections.
- *Datagen.* Two tags with up to two values each are the smallest instance where a list cached while its cycle
  is open is wrong for another tag. A run of the tool may fall anywhere between the files that the server reads, and
  any number of runs may. The upgrades leave an entry of the older jar behind, or put one before those there were.
  Six bytes are a row and a half of the table of items, and less than most entries. JSON values are every type, then
  arrays and objects of two of them, then those inside others, among them arrays of mixed numbers and integers too wide
  for an Int.
- *Server.* One block is enough to be edited, saved, lost, loaded and sent; that other blocks and states do not
  matter is the business of `world` and `play`, and of the proofs.

`CHECK_DEADLOCK FALSE` is set where the system may really stop: a connection that is closed, a value that has
been read, a bounded number of frames or clicks.

## Fairness

- `World`: weak fairness of the saver's own steps; tokio runs the saver task as long as the process runs.
  `EditsReachDisk` assumes in its statement that writing eventually stops failing; nothing forces that.
- `Play`: weak fairness of each task's writes and of each client's reading. Nothing is assumed of what a client
  asks for, of keep-alives or of departures.
- `Connection`: weak fairness of the server's task and of the client's opening; strong fairness of the client's
  receiving, since its own unsolicited packets can fill the connection and keep an answer from fitting, now
  and then. A client may still go away at any time.
- `Framing`: weak fairness of the reader, which the runtime polls while bytes are there.

## Proofs

Eight modules prove theorems about every instance.

`WorldProofs` starts with the lemmas about the edit map that other proofs share. It proves, for any sets of
positions, chunks and states that satisfy the named assumptions of `WorldEdits` (positions are integer triples, every position's chunk is in play, `NoEdit` is no state):

- `TypeCorrect`: `Spec => []TypeOK`;
- `ChunkKeyedAlways`: `Spec => []ChunkKeyed`;
- `Durability`: `Spec => []DurableUnlessTorn`;
- `WorldImplementsBlockStore`: `Spec => ImplementsBlockStore`, the refinement.

The inductive invariant is `IInv == TypeOK /\ Keyed /\ SaveInProgress /\ DurableUnlessTorn`. `DurableUnlessTorn`
alone is not inductive: when a save ends, one has to know that the buffer held every block that an earlier save
had completed, which is so because edits are never removed while the process runs; `SaveInProgress` carries
that from the copy to the end of the write, and also that the file never holds a record the buffer does not,
which the refinement needs. `Keyed` says that a block's edit sits in the map of its own chunk only, so that the
flat view reads back what `load` and `set_block` wrote. The lemmas `LoadFilesEveryRecord` and
`SetBlockChangesOneBlock` state what those two operations do to the flat view.

`FieldFacts` has what the proofs about encodings share: quotients and remainders by a divisor that is a symbol
(`DivModUnique`, which the SMT solver needs spelled out), powers of two, the digits of a number, and induction. The
library's induction theorems take a predicate as a parameter, which no installed prover can be given, so
`LeastNatural`, `ForAllNaturals` and `ForAllSubsets` state induction for a set instead, and `SubsetRecursion` gives a
recursion over the subsets of a finite set its function: this is what the folds of the community modules are.
`CountedRecursion` does so for a recursion along `0 .. N`: this is what a loop is.

It proves, for any sizes of groups and integers, `VarIntLength` and `VarIntRoundTrip`: the length of an encoding, and
that the read loop takes back each integer; and of fields and rows of any width the same, whole or cut. On it
`FramingProofs` proves, for any maximum length and any bodies,

- `FramingTypeCorrect`: `Spec => []TypeOK`;
- `NoFalseErrors`: `Spec => []NoFalseError`;
- `FramingImplementsChannel`: `Spec => ImplementsFrameChannel`, the refinement.

`FramingInv` says what the reader has yet to take: the rest of the frame it is at, then all that was written from the
next one on (`Stream`). Between two frames that is a whole frame; inside a length, the groups still to come complete
the length with those it has (`InLength`); inside a body, the bytes still to come complete the buffer (`InBody`). What
has arrived is a beginning of it, and all of it unless the connection broke (`OnStream`). Once a tick has cut a frame
none of this holds, and the abstract channel has stopped.

`BlockViewsProofs` proves of positions, for all even field sizes, `DecodeEncode` and `EncodeDecode` (the two conversions
are inverse to each other), `PlacedWhereAnnounced`, and `SentSquareInRange`, for every player coordinate. Of chunks,
for every size of section, palette and long,

- `SectionHoldsEdits`: each edit of a chunk sits in its section where the client looks for it;
- `PackRoundTrip`: values that fit their width come back from their slots, in as many longs as the client expects. A
  long is a sum in an order that nobody knows, so the induction is over the subsets of its entries: adding a value at
  an empty slot sets that digit and carries nothing over (`PackedDigits`);
- `SectionRoundTrip`: the client accepts the container of any section and reads the same states from it. The palette
  holds every state (`PaletteHoldsAll`, an induction along the section) and its width has room for the indices.

And of the clicks, edits and chunks together, from the invariant `EditsTyped` (edits are at block positions and of
states that fit a direct entry) and from `EditsAnnounced`,

- `EditsAnnounced`: `Spec => []UpdatesFollowEdits`, under `ClicksAssumption`: clients click blocks that have
  neighbours within the fields (the world border is at 29,999,984 of 33,554,432, the world 384 of 4096 high);
- `ViewsNeverDiffer`: `Spec => []ViewsAgree`;
- `CountsAgree`: `Spec => []CountsMatch`.

`StatesAssumption` is that items place, and a file holds, states below 2^15, as the block table has them;
`LengthAssumption` that a section's blocks can be counted in a long (4096 and 2^64).

`PlayProofs` proves, for any number of connections, set of blocks, view distance and queue length,

- `PlayTypeCorrect`: `Spec => []TypeOK`;
- `CoherentViews`: `Spec => []ViewCoherent`.

`ViewCoherent` speaks of connections at rest, so its inductive invariant has to say what is true on the way there.
For a block that nobody else changed behind the client's back, `Arriving` says that the last packet in flight that
touches the block tells its state now, and that if none does the client's own view is right already. Between an
edit and the write of its update there is no packet yet; `Told` then looks at the reply the handler owes, which
`Handling` ties to the handler's place. `IInv` is the three with the types. One lemma per action shows that it is
kept, through `OneMoves`: a step moves one connection, and the others are informed no worse as long as every block
they may be wrong about is in `stale`.

And what depends on the order in the queue:

- `BatchFraming`: `Spec => []BatchesWellFormed`. `Framed` runs the client's batch counter over all packets in
  flight and requires it to end at what the handler has sent of the current batch.
- `AcksFollowUpdates`: `Spec => []AckAfterUpdate`. `Answers` says that every sequence number in flight is one the
  client still waits for, and that nothing that carries it comes after its acknowledgement.
- `EndlessWorld`: `KeepsAll` implies `Spec => []NoVisibleEdge`. `Streamed` follows every chunk that the session
  counts as loaded: it is pending, in flight or held. `KeepsAll`, a client that drops no chunk, is needed: run
  `play_edge` is the counterexample without it.

and, with `WorldProofs`, of the two halves together, `LeatherServer`:

- `ServerImplementsWorld`: `ServerSpec => ImplementsWorld`, since a step of any connection is at most one
  `set_block` (`NextEdits`); from it and `WorldProofs`, `ServerDurability`;
- `ServerCoherentViews`: `ServerSpec => []ViewCoherent`; a start changes all edits at once, but only before anybody
  is connected, and a stop ends every connection;
- `SavedEditsResent`: `ServerSpec => []ResentOnReconnect`, from the two.

`ConnectionProofs` proves, for any list of registries (`RegistryAssumption`: their ids, `minecraft:...`, are none of
the other packets), with or without tags, and for any number of packets on the way,

- `ConnectionTypeCorrect`: `Spec => []TypeOK`;
- `StatesInStep`: `Spec => []InStep`;
- `JoinDelivered`: `Spec => []DeliveredInOrder`.

On the way up, `Chain` says that each packet was written in the state that the one before it leads to, from the
state the server reads in to the one the client is in; that is `InStep` at the server whatever the packets are. On
the way down, `Told` says that what the client has, what is in flight and what the handler still owes are consecutive
parts of one `Script`. For that to last, `Reached` says how much of the script has begun at each place of a
handler, and `Asked` that a packet which makes the server move on (`request`, `ping`, `finish_ack`) is on its way only
when the script is just that far, a request only once: this is why the server may take an acknowledgement of the finish
without looking at `sent_registries` (`configuration.rs:53`), as long as the client is one that follows the protocol.
One lemma per action; the reading ones share `ReadKeeps`.

`PlayPacketsProofs` proves, for any sizes of groups and integers and any widths of the fixed types, for any packets whose
fields have values of their types (`PacketsAssumption`), any rows (`FilesAssumption`) and any bytes that nobody wrote,

- `PacketsDecoded`: `Spec => []DecodedAsMeant`;
- `CutsNotMisread`: `Spec => []CutNeverMisread`;
- `FilesGiveWholeRows`: `Spec => []WholeRows`;
- `VarIntsBounded`: `Spec => []Bounded`;
- `RepliesHeard`: `Spec => []ChatEchoed`.

The inductive invariant `PacketsInv` only says where a body comes from, that the result is what its reader makes of
it and the reply what is answered to that; the work is in the readers. What a loop has after each turn is a function of the bytes so far (`Turns`, `Reads`,
`Loads`). Fields written one after another each stand where the one before ends (`Joined`), and from there are taken back
(`VarIntBack`, `FieldBack`, `StringBack`, `RowBack`); `WordRoundTrip` is the big-endian part of that. What can be read
from the front of a body is what would be read from all of it (`SameFields`), so that, up to the first field that a cut
took, a handler has its packet's fields (`SentReadsAs`). This is where it matters that `OnUseItemOn` drops the results of
some reads: after them only the `ok` of its last read is known, and nothing about its value. A loader takes one row per
turn as long as they are all there, and stops at the first that is not (`LoadTurn`, `FileLoads`). `IdsAssumption` says that
integers are wide enough for packet ids, `WidthsAssumption` that a flag is read as the byte it is written as.

`RepliesHeard` is about the other direction, and about answers to any bytes at all: what a handler makes of them is one
effect (`Effects`) whose position and number are within their types (`WordRange`), so that they come back from the
answer. A chat line comes back if NBT can say it (`TextBack`); a longer one has a length that is smaller by a multiple
of 2^16, after which there are more bytes than the one flag that the client expects (`LineHeard`).
`TagsAssumption` is that tags are bytes.

`DatagenProofs` proves, for any jars and upgrades, from `JarsAssumption` (reports give 32-bit ids and each item its own,
an entry is no tag), `TagNamesAssumption` (there are finitely many tags) and `NotCachedAssumption`,

- `DatagenInvariant`: `Spec => []IInv`;
- `TagsAlwaysComplete`: `Spec => []TagsComplete`;
- `TagsAlwaysNameEntries`: `Spec => []TagsNameEntries`;
- `ItemsAlwaysNameBlocks`: `Spec => []ItemsNameBlocks`.

The first needs to know what `resolve` promises inside a cycle, where its list is not all that the tag leads to and is
cached nevertheless. `Resolves` is true of every call, by induction over the sets of tags that are not on the stack
(`CallsResolve`): a list has nothing twice and nothing that its tag does not lead to (`Fair`); what the tags that the call
adds to the cache name themselves is in its list (`Adds`); and what the tags in the cache refer to is in the cache too, or
on the stack (`Ready`). Each value of a tag keeps that (`FollowStep`). A call with an empty stack and an empty cache ends
with a cache that is closed under references, and so its list is complete (`Resolved`). With one cache for all tags of a
registry that would be false, as the mutant `resolve_all_shared_cache` shows.

`IInv` says which jar `tags.bin` and the item table are of, on disk and as the server has read them (`Tables`), however
runs are interrupted and repeated, and that the entries on disk are the jar's, all of them as soon as there is a `tags.bin`,
unless a newer jar has followed another into the directory (`Progress`, `Unmixed`): tags are numbered by the entries of
the run, and looked up by those that the server listed. For a load that began in a settled directory, `Served` says that
what the listing has given and what it is still sure to give are together the jar's entries (`Underway`), so that they
are when `tags.bin` is read, which may be another file by then but is of the same jar. `ItemsNameBlocks` also rests on what
the server reads from part of the table, the first so many rows (`ItemsLoad`, by `FileLoads` of `FieldFacts`).

Only model-checked: `EntriesReadable`, because JSON and the NBT made of it are of any depth: their codecs are `RECURSIVE`
operators, which the prover cannot reason about. And everything about liveness
(`EditsReachDisk`, `EveryActionAcked`, `ViewCatchesUp`, `Completes`, `TasksEnd`, `FramesArrive`), which is outside its reach.

## What the runs found

1. `world_crash`: a crash while `world_file` is rewritten in place loses edits that an earlier save had
   completed (`world.rs:78`; README.md:9-10 promises that edits persist).
2. `framing_tick`: a keep-alive tick that falls inside a packet makes the play loop lose the bytes it had read
   and continue in the middle of the packet (`play.rs:86`; `packet.rs:25` promises one complete packet body).
3. `play_edge`: the server never sends a chunk twice on one connection, so a client with a bounded chunk cache
   that walks away and returns has holes (`play.rs:216`; `play.rs:1-2` promises no visible edge). The bounded
   cache is an assumption about the client.

The conditions of properties that hold are limits of the code, too.

- `TagsNameEntries` needs a `settled` load: one that begins with just the entries of the jar at hand and no other jar's
  `tags.bin`. The server reads the entries first and `tags.bin` afterwards (`registries.rs:47-51`), and the tool writes
  them in that order; so a server that starts during the first run for a jar can stream some of the entries with the
  tags of all of them. And `convert_registries` removes nothing (`crates/datagen/src/main.rs:156`), so a run for a newer
  jar into the same directory can leave entries that `tags.bin` does not count. Without the condition (`IndicesAgree` as
  an invariant of the same instance) TLC finds the first of these, with one jar.
- `DurableUnlessTorn` needs starts that met no torn file, by 1, and none that is there but cannot be read (`damaged`): the
  latter counts as missing (`world.rs:53`), the server runs without the saved edits, and its next save overwrites
  them. Like all properties of the world it says nothing of edits that no save has completed.
- `ViewCoherent` leaves out the blocks that another connection changed (`stale`): updates go only to the connection that
  caused them (`play.rs:126`).
- `ChatEchoed` and `EntriesReadable` need strings whose length fits 16 bits and whose characters Java's modified UTF-8
  writes like Rust's UTF-8 (`nbt.rs:58-61`), and arrays of one type (`convert.rs:73-83`); `EntriesReadable` is an
  equivalence, so it also says that an entry outside these limits, or one whose file was read before all of it was
  written, spoils its registry's packet.

`main.rs:5-6` and `tests/login.rs:1-3` describe an earlier milestone (a disconnect at login) and disagree with
the code; no run is needed to see it.

## Not modelled

The wording of the status JSON, error texts, logging, `block_count` (a number in a log line), configuration
defaults, opening the jar and matching its paths, walking the directory of registries (library calls on names),
the bytes of `tags.bin` (so, what a client makes of part of it), a read of one file that falls across two writes of it
and sees some of both, the contents of the join packets and the height maps, light and biomes of a chunk (constants),
the limits of an `i32` sum in `offset_block` (positions are 26 bits), timeouts (there are none: a silent peer holds its
task), clients that break the protocol otherwise than by stray packets (an acknowledgement of a finish that nobody
sent; writing without reading), CI and the container image.

## What is left

- The bytes of the tags packet, and several streamed registries, in `Datagen`.
