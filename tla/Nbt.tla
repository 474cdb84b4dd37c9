---------------------------------- MODULE Nbt ----------------------------------
(***************************************************************************)
(* write_network_nbt, crates/protocol/src/nbt.rs, and the reader that a    *)
(* client has for it (external).                                           *)
(*                                                                         *)
(* An Nbt value is a record with one field, named like the enum's variant. *)
(* A float counts halves.                                                  *)
(***************************************************************************)
EXTENDS NbtStrings

TAG_END == 0

NumberWidth == [Byte |-> Width["i8"], Short |-> Width["u16"], Int |-> Width["i32"],
                Long |-> Width["i64"], Float |-> Width["f32"], Double |-> Width["f64"]]
ElementWidth == [ByteArray |-> Width["i8"], IntArray |-> Width["i32"], LongArray |-> Width["i64"]]

variant(n) == CHOOSE k \in DOMAIN n : TRUE
tag_id(n) == TagId[variant(n)]

\* The element type of a list is that of its first item.
list_type(items) == IF items = <<>> THEN TAG_END ELSE tag_id(Head(items))

RECURSIVE write_payload(_)
write_payload(n) ==
  LET k == variant(n)
      v == n[k]
  IN CASE k \in DOMAIN NumberWidth -> be(v, NumberWidth[k])
       [] k \in DOMAIN ElementWidth ->
            be(Len(v), Width["i32"]) \o Concat(Len(v), LAMBDA i : be(v[i], ElementWidth[k]))
       [] k = "String" -> write_string(v)
       [] k = "List" ->
            <<list_type(v)>> \o be(Len(v), Width["i32"])
              \o Concat(Len(v), LAMBDA i : write_payload(v[i]))
       [] k = "Compound" ->
            Concat(Len(v), LAMBDA i : <<tag_id(v[i].value)>> \o write_string(v[i].name)
                                        \o write_payload(v[i].value)) \o <<TAG_END>>

write_network_nbt(n) == <<tag_id(n)>> \o write_payload(n)

-----------------------------------------------------------------------------
(* The client.  Its codecs take any number for any other, so what it reads *)
(* is a number of halves, a string, a list or named fields.                *)

signed(bytes) ==
  LET u == word(bytes)
      m == words[Len(bytes)]
  IN  IF 2 * u < m THEN u ELSE u - m

RECURSIVE client_payload(_, _, _), client_items(_, _, _, _), client_fields(_, _)
client_items(tag, n, data, pos) ==
  IF n <= 0 THEN [ok |-> TRUE, val |-> <<>>, pos |-> pos]
  ELSE LET x    == client_payload(tag, data, pos)
           rest == client_items(tag, n - 1, data, x.pos)
       IN  IF x.ok /\ rest.ok THEN [rest EXCEPT !.val = <<x.val>> \o @] ELSE Failed(pos)

client_fields(data, pos) ==
  LET tag == take(data, pos, 1) IN
  IF ~tag.ok THEN Failed(pos)
  ELSE IF tag.val = <<TAG_END>> THEN [tag EXCEPT !.val = <<>>]
  ELSE LET name == client_string(data, tag.pos)
           x    == client_payload(tag.val[1], data, name.pos)
           rest == client_fields(data, x.pos)
       IN  IF name.ok /\ x.ok /\ rest.ok
           THEN [rest EXCEPT !.val = <<[name |-> name.val.string, value |-> x.val]>> \o @]
           ELSE Failed(pos)

client_payload(tag, data, pos) ==
  LET number(k) == LET t == take(data, pos, NumberWidth[k])
                   IN  [t EXCEPT !.val = [number |-> (IF k = "Double" THEN 1 ELSE 2) * signed(@)]]
  IN CASE \E k \in {"Byte", "Int", "Long", "Double"} : tag = TagId[k] ->
            number(CHOOSE k \in DOMAIN NumberWidth : tag = TagId[k])
       [] tag = TagId["String"] -> client_string(data, pos)
       [] tag = TagId["List"] ->
            LET type  == take(data, pos, 1)
                size  == take(data, type.pos, Width["i32"])
                items == client_items(type.val[1], signed(size.val), data, size.pos)
            IN  IF type.ok /\ size.ok /\ items.ok
                THEN [items EXCEPT !.val = [list |-> @]] ELSE Failed(pos)
       [] tag = TagId["Compound"] ->
            LET fields == client_fields(data, pos)
            IN  IF fields.ok THEN [fields EXCEPT !.val = [fields |-> @]] ELSE Failed(pos)
       [] OTHER -> Failed(pos)

client_nbt(data, pos) ==
  LET tag == take(data, pos, 1)
  IN  IF tag.ok THEN client_payload(tag.val[1], data, tag.pos) ELSE Failed(pos)
=============================================================================
