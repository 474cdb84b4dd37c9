------------------------------ MODULE RegistryData ------------------------------
(***************************************************************************)
(* The registry of Datagen on its way to the client: the NBT files that    *)
(* leather-datagen makes of the JSON of its entries, the packet in which   *)
(* configuration.rs streams them, and the client that decodes it.          *)
(***************************************************************************)
EXTENDS Datagen, JsonToNbt

\* The registry's id on the wire.
StreamedId == <<2>>

\* There is no file for a JSON null.
json_nbt(json) == {write_network_nbt(n) : n \in ToSet(json_to_nbt(json))}

-----------------------------------------------------------------------------
\* What the server streams: the entries in the order of their names.
entries_sorted(d) == SetToSortSeq(DOMAIN d.entries, <)
name(e) == <<e>>

\* send_registries: the packet of the registry.
C_REGISTRY_DATA == 7
registry_data(d) ==
  LET es == entries_sorted(d)
  IN  write_all(<<<<"varint", C_REGISTRY_DATA>>, <<"string", StreamedId>>, <<"varint", Len(es)>>>>
                \o Concat(Len(es), LAMBDA i :
                     <<<<"string", name(es[i])>>, <<"bool", 1>>,
                       <<"bytes", d.entries[es[i]].nbt>>>>))

\* The client's reading of an entry, of what follows, and of n of them, which
\* must end with the body.
joined(id, nbt, rest) ==
  IF AllOk(id, 1..2) /\ id[2].val = 1 /\ nbt.ok /\ rest.ok
  THEN [rest EXCEPT !.val = <<[name |-> id[1].val, value |-> nbt.val]>> \o @]
  ELSE Failed(rest.pos)

RECURSIVE client_entries(_, _, _)
client_entries(n, b, pos) ==
  LET id  == read_all(<<"string", "bool">>, b, pos)
      nbt == client_nbt(b, id[2].pos)
  IN  IF n = 0 THEN [ok |-> pos = Len(b), val |-> <<>>, pos |-> pos]
      ELSE joined(id, nbt, client_entries(n - 1, b, nbt.pos))

client_registry(b) ==
  LET head == read_all(<<"varint", "string", "varint">>, b, 0)
  IN  client_entries(head[3].val, b, head[3].pos)

-----------------------------------------------------------------------------
\* A file that has all of an entry, which NBT can say.
Sound(file) == Sayable(file.from) /\ file.nbt \in json_nbt(file.from)

\* The client heard what the JSON of the entries says, in their order.
HeardAll(heard, d) ==
  LET es == entries_sorted(d)
  IN  heard.ok /\ heard.val = [i \in DOMAIN es |->
                                 [name |-> name(es[i]), value |-> Meaning(d.entries[es[i]].from)]]

\* The client decodes the registry's packet, to its last byte, as the entries
\* in the order that the indices count, each with what its JSON says, whatever
\* files of whichever runs it was put together from; provided that each file
\* was all written when it was read, and that NBT can say what its JSON does.
\* One entry of which this is not true spoils the packet.
EntriesReadable ==
  server.pc = "loaded" =>
    ((\A e \in DOMAIN server.dir.entries : Sound(server.dir.entries[e]))
       <=> HeardAll(client_registry(registry_data(server.dir)), server.dir))
=============================================================================
