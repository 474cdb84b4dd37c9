-------------------------------- MODULE Datagen --------------------------------
(***************************************************************************)
(* leather-datagen (crates/datagen/src/main.rs, tags.rs, items.rs), the    *)
(* directory it writes to, the server that loads it (crates/server/src/    *)
(* registries.rs), for one streamed registry.  Its entries are numbers,    *)
(* ordered like their names.  The tool may be interrupted, run again, and  *)
(* run with a newer jar; the server may load the directory at any time.    *)
(*                                                                         *)
(* std::fs::write empties a file or creates it, then writes its bytes in   *)
(* as many steps as it takes; whoever reads meanwhile, or afterwards if    *)
(* the tool stops there, gets as much as has been written.  And the server *)
(* reads one file after another.                                           *)
(*                                                                         *)
(* A jar has the JSON of the entries, the tags of some registries, and the *)
(* reports of its data generator: protocol ids of items, and states of     *)
(* blocks, by name.                                                        *)
(***************************************************************************)
EXTENDS TagResolve, PacketFields

CONSTANTS
  Jars,     \* jars to begin with
  Upgrades, \* pairs of a jar and one of a later version
  Stops,    \* sizes at which a file may be seen before all of it is written
  entry_nbt(_)  \* the files there can be for the JSON of an entry, see RegistryData

\* The streamed registry.
Streamed == "biome"

\* Reports give 32-bit ids, and each item its own.  A value of a tag that begins
\* with # names a tag and no entry.
ASSUME JarsAssumption ==
  \A j \in Jars \cup {u[2] : u \in Upgrades} :
    /\ IsFiniteSet(DOMAIN j.entries) /\ DOMAIN j.entries \subseteq Int \ TagNames
    /\ IsFiniteSet(DOMAIN j.items) /\ DOMAIN j.items \subseteq Int \ TagNames
    /\ (\A i \in DOMAIN j.items : j.items[i] \in Signed) /\ IsInjective(j.items)
    /\ \A b \in DOMAIN j.blocks : j.blocks[b] \in Seq([id : Signed, default : BOOLEAN])
    /\ \A r \in DOMAIN j.tags :
         /\ DOMAIN j.tags[r] \subseteq TagNames
         /\ \A t \in DOMAIN j.tags[r] : j.tags[r][t] \in Seq(TagNames \cup Int)

VARIABLES
  jar,     \* the jar at hand
  phase,   \* what the tool does: "idle", "convert", and "tags" or "items", with
           \* "tags_open" and "items_open" while it writes the file
  todo,    \* entries it has yet to convert
  open,    \* the one of them whose file it writes, if any
  dir,     \* the output directory: nbt files, tags.bin and item_to_block.bin
  made,    \* history: the jar of tags.bin and of item_to_block.bin
  mixed,   \* history: did a jar follow another without the directory being emptied?
  server   \* how far the server has loaded, and what

tool == <<jar, phase, todo, open>>
vars == <<tool, dir, made, mixed, server>>

\* Of tags.bin, how much is written counts, and what it says when it all is.
NoTags == [written |-> "none", tags |-> <<>>]
Nothing == [entries |-> <<>>, tags |-> NoTags, items |-> <<>>]
Fresh(j) == [tags |-> j, items |-> j]
put(files, e, file) == [x \in DOMAIN files \cup {e} |-> IF x = e THEN file ELSE files[x]]

\* What can be next in a file that has `now` and is to have `whole`.
grown(now, whole) ==
  {whole} \cup {SubSeq(whole, 1, n) : n \in Stops \cap Len(now) + 1 .. Len(whole)}

\* The index of entry e in the sorted list of the entries es.
index_of(es, e) == Cardinality({x \in es : x < e})

\* The streamed registry: the position in the sorted list of ids.
positions(es) == [e \in es |-> index_of(es, e)]

\* By registry; what is streamed goes before what is reported.
build_index(j) ==
  [r \in {Streamed, "item"} |-> IF r = Streamed THEN positions(DOMAIN j.entries) ELSE j.items]

\* Tags of registries without an index are left out.
resolve_tags(j) ==
  [r \in DOMAIN j.tags \cap DOMAIN build_index(j) |-> resolve_all(j.tags[r], build_index(j)[r])]

\* A mutant of block_state: the first state.
block_state_first(states) == Head(states).id

\* The default state of a block, or else its first.
block_state(states) ==
  LET i == SelectInSeq(states, LAMBDA s : s.default)
  IN  states[IF i = 0 THEN 1 ELSE i].id

\* An item is placed as the block of the same name.
item_rows(j) ==
  LET names == SetToSeq(DOMAIN j.items \cap {b \in DOMAIN j.blocks : j.blocks[b] # <<>>})
  IN  [i \in DOMAIN names |-> <<j.items[names[i]], block_state(j.blocks[names[i]])>>]

Init ==
  /\ jar \in Jars
  /\ phase = "idle" /\ todo = {} /\ open = {} /\ dir = Nothing
  /\ made = Fresh(jar) /\ mixed = FALSE
  /\ server = [pc |-> "off", due |-> {}, dir |-> Nothing, made |-> made, settled |-> FALSE]

\* A mutant of Start: the tool removes the entries that are there first.
Start_empties ==
  /\ phase = "idle"
  /\ phase' = "convert" /\ todo' = DOMAIN jar.entries
  /\ dir' = [dir EXCEPT !.entries = <<>>]
  /\ server' = [server EXCEPT !.due = {}]
  /\ UNCHANGED <<jar, open, made, mixed>>

\* The tool runs, over whatever the directory holds.
Start ==
  /\ phase = "idle"
  /\ phase' = "convert" /\ todo' = DOMAIN jar.entries
  /\ UNCHANGED <<jar, open, dir, made, mixed, server>>

\* convert_registries: one file per entry, over whatever is there.  With the
\* bytes of a file goes, as history, the JSON they are made from.
ConvertEntry(e) ==
  /\ phase = "convert" /\ e \in todo /\ open = {}
  /\ entry_nbt(jar.entries[e]) # {}
  /\ open' = {e}
  /\ dir' = [dir EXCEPT !.entries = put(@, e, [nbt |-> <<>>, from |-> jar.entries[e]])]
  /\ UNCHANGED <<jar, phase, todo, made, mixed, server>>

WriteEntry(e) ==
  /\ e \in open
  /\ \E whole \in entry_nbt(jar.entries[e]) : \E b \in grown(dir.entries[e].nbt, whole) :
       /\ dir' = [dir EXCEPT !.entries = put(@, e, [nbt |-> b, from |-> jar.entries[e]])]
       /\ IF b = whole THEN open' = {} /\ todo' = todo \ {e} ELSE UNCHANGED <<open, todo>>
  /\ UNCHANGED <<jar, phase, made, mixed, server>>

\* It fails on a jar without entries; without a registries.json the tool is done.
Converted ==
  /\ phase = "convert" /\ todo = {}
  /\ phase' \in IF jar.entries = <<>> THEN {"idle"} ELSE {"idle", "tags"}
  /\ UNCHANGED <<jar, todo, open, dir, made, mixed, server>>

create_tags ==
  /\ phase = "tags" /\ phase' = "tags_open"
  /\ dir' = [dir EXCEPT !.tags = NoTags]
  /\ made' = [made EXCEPT !.tags = jar]
  /\ UNCHANGED <<jar, todo, open, mixed, server>>

\* The positions come from the entries of this run, not from the directory.
write_tags ==
  /\ phase = "tags_open"
  /\ \E w \in {"part", "all"} :
       /\ dir' = [dir EXCEPT !.tags = [written |-> w, tags |-> resolve_tags(jar)]]
       /\ phase' = IF w = "all" THEN "items" ELSE phase
  /\ UNCHANGED <<jar, todo, open, made, mixed, server>>

create_item_blocks ==
  /\ phase = "items" /\ phase' = "items_open"
  /\ dir' = [dir EXCEPT !.items = <<>>]
  /\ made' = [made EXCEPT !.items = jar]
  /\ UNCHANGED <<jar, todo, open, mixed, server>>

write_item_blocks ==
  /\ phase = "items_open"
  /\ LET whole == save_rows(item_rows(jar)) IN
     \E b \in grown(dir.items, whole) :
       /\ dir' = [dir EXCEPT !.items = b]
       /\ phase' = IF b = whole THEN "idle" ELSE phase
  /\ UNCHANGED <<jar, todo, open, made, mixed, server>>

\* The tool is stopped, or gives up: on the JSON null of an entry, or on a file.
Interrupt ==
  /\ phase # "idle"
  /\ phase' = "idle" /\ todo' = {} /\ open' = {}
  /\ UNCHANGED <<jar, dir, made, mixed, server>>

\* A newer jar.  Nothing tells the operator to empty the directory for it.  A
\* load under way is no longer of one jar, and need not find what is removed.
Upgrade(j) ==
  /\ phase = "idle" /\ <<jar, j>> \in Upgrades
  /\ jar' = j
  /\ \/ dir' = Nothing /\ mixed' = FALSE /\ made' = Fresh(j)
     \/ dir # Nothing /\ dir' = dir /\ mixed' = TRUE /\ made' = made
  /\ server' = IF server.pc \in {"off", "loaded"} THEN server
               ELSE [server EXCEPT !.settled = FALSE,
                                   !.due = @ \cap DOMAIN dir'.entries]
  /\ UNCHANGED <<phase, todo, open>>

-----------------------------------------------------------------------------
\* Registries::load, of a server that starts or starts again.  Listing a
\* directory is sure to return what is there throughout (due), and may return
\* what is added meanwhile.  History: does the load begin with just the entries
\* of the jar at hand, and no tags.bin of another jar, as is always so if there is
\* a tags.bin and never was another jar; and does that jar stay (settled)?
load ==
  /\ server' = [pc |-> "collect", due |-> DOMAIN dir.entries, dir |-> Nothing, made |-> made,
                settled |-> \/ ~mixed /\ dir.tags # NoTags
                            \/ made.tags = jar /\ DOMAIN dir.entries = DOMAIN jar.entries]
  /\ UNCHANGED <<tool, dir, made, mixed>>

collect(e) ==
  /\ server.pc = "collect" /\ e \in DOMAIN dir.entries \ DOMAIN server.dir.entries
  /\ server' = [server EXCEPT !.dir.entries = put(@, e, dir.entries[e]), !.due = @ \ {e}]
  /\ UNCHANGED <<tool, dir, made, mixed>>

collected ==
  /\ server.pc = "collect" /\ server.due = {}
  /\ server' = [server EXCEPT !.pc = "tags"]
  /\ UNCHANGED <<tool, dir, made, mixed>>

\* A file that was listed cannot be read: serve goes on with nothing.
collect_fails ==
  /\ server.pc = "collect"
  /\ server' = [server EXCEPT !.pc = "loaded", !.dir = Nothing]
  /\ UNCHANGED <<tool, dir, made, mixed>>

\* These two are optional: one that cannot be read is as good as missing.
read_tags ==
  /\ server.pc = "tags"
  /\ \E tags \in {dir.tags, NoTags} :
       server' = [server EXCEPT !.pc = "items", !.dir.tags = tags, !.made.tags = made.tags]
  /\ UNCHANGED <<tool, dir, made, mixed>>

read_items ==
  /\ server.pc = "items"
  /\ \E items \in {dir.items, <<>>} :
       server' = [server EXCEPT !.pc = "loaded", !.dir.items = items, !.made.items = made.items]
  /\ UNCHANGED <<tool, dir, made, mixed>>

Next ==
  \/ Start \/ Converted \/ Interrupt
  \/ \E e \in todo : ConvertEntry(e) \/ WriteEntry(e)
  \/ create_tags \/ write_tags \/ create_item_blocks \/ write_item_blocks
  \/ \E u \in Upgrades : Upgrade(u[2])
  \/ load \/ collected \/ collect_fails \/ read_tags \/ read_items
  \/ \E e \in DOMAIN dir.entries : collect(e)

Spec == Init /\ [][Next]_vars

-----------------------------------------------------------------------------
\* A map of pairs: a later one of an item goes before an earlier.
map_of(rows) ==
  LET last(i) == Max({k \in DOMAIN rows : rows[k][1] = i})
  IN  [i \in {row[1] : row \in ToSet(rows)} |-> rows[last(i)][2]]

\* What the server makes of the pairs in item_to_block.bin.
item_to_block(d) == map_of(load_rows(2, d.items, 0))

-----------------------------------------------------------------------------
\* A tag on disk lists each entry it leads to once, whatever cycles, repeated
\* references and unknown names there are on the way, and there is no tag of a
\* registry that the client could not look up.
TagsComplete ==
  \A r \in DOMAIN dir.tags.tags :
    LET index == build_index(made.tags)[r] IN
    \A t \in DOMAIN dir.tags.tags[r] :
      /\ ToSet(dir.tags.tags[r][t]) = {index[e] : e \in EntriesOf(made.tags.tags[r], index, t)}
      /\ IsInjective(dir.tags.tags[r][t])

\* The client, which looks an index up in the list of entries that the server
\* streams, finds there the entries that the tag named in the jar, no other.
IndicesAgree ==
  /\ server.pc = "loaded" /\ server.dir.tags.written = "all"
  /\ Streamed \in DOMAIN server.dir.tags.tags
  =>
    LET tags == server.dir.tags.tags[Streamed]
        here == DOMAIN server.dir.entries
        j    == server.made.tags
    IN  \A t \in DOMAIN tags :
          {e \in here : index_of(here, e) \in ToSet(tags[t])}
            = EntriesOf(j.tags[Streamed], build_index(j)[Streamed], t)

\* main.rs:80-81: "we and the server agree on the index a tag refers to".  They do
\* if the load begins with just the entries of the jar at hand and no other jar's
\* tags.bin; so, too, if all it finds is a tags.bin that may not be whole, in a
\* directory without another jar's files.  Whatever runs of the tool write, or
\* are interrupted, while the server reads file after file.  A load that begins
\* before all entries are there, and ends after tags.bin is, may mix indices.
TagsNameEntries == server.settled => IndicesAgree

\* A map that places, of the items of jar j, some that are blocks, or all of them
\* if it is whole, as the default state that the reports name, if any, or another.
PlacesItems(map, j, whole) ==
  LET known == {n \in DOMAIN j.items : n \in DOMAIN j.blocks /\ j.blocks[n] # <<>>}
  IN  /\ DOMAIN map \subseteq {j.items[n] : n \in known}
      /\ whole => {j.items[n] : n \in known} \subseteq DOMAIN map
      /\ \A n \in known :
           j.items[n] \in DOMAIN map =>
             LET states == ToSet(j.blocks[n])
             IN  \E s \in states :
                   /\ map[j.items[n]] = s.id
                   /\ (\E x \in states : x.default) => s.default

\* The server places an item as a state of the block of its name: the default
\* one, where the reports name one; and it places no other item.  A table read
\* before all of it was written places some of the items, as the same blocks.
ItemsNameBlocks ==
  server.pc = "loaded" =>
    LET j == server.made.items
    IN  PlacesItems(item_to_block(server.dir), j, server.dir.items = save_rows(item_rows(j)))
================================================================================
