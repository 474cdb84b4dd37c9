------------------------------- MODULE NbtStrings -------------------------------
(***************************************************************************)
(* The tags and the strings of network NBT, crates/protocol/src/nbt.rs,    *)
(* and the reader that a client has for them (external).  A string is the  *)
(* sequence of its bytes.                                                  *)
(***************************************************************************)
EXTENDS PacketFields

TagId == [Byte |-> 1, Short |-> 2, Int |-> 3, Long |-> 4, Float |-> 5, Double |-> 6,
          ByteArray |-> 7, String |-> 8, List |-> 9, Compound |-> 10,
          IntArray |-> 11, LongArray |-> 12]
ASSUME TagsAssumption == \A k \in DOMAIN TagId : TagId[k] \in Byte

\* The length is cast to 16 bits.
write_string(s) == be(Len(s), Width["u16"]) \o s

\* A mutant of write_network_string: a root with an (empty) name, as files have it.
write_named_string(s) == <<TagId["String"]>> \o write_string(<<>>) \o write_string(s)

\* write_network_nbt of a string.
write_network_string(s) == <<TagId["String"]>> \o write_string(s)

-----------------------------------------------------------------------------
\* Of what is UTF-8, a Java reader wants the modified form, in which the lead
\* byte of a four-byte sequence does not occur.
ModifiedUtf8(s) == Utf8(s) /\ ~Contains(s, BASE - 2)

client_string(data, pos) ==
  LET size == take(data, pos, Width["u16"])
      s   == take(data, size.pos, word(size.val))
  IN  IF size.ok /\ s.ok /\ ModifiedUtf8(s.val)
      THEN [s EXCEPT !.val = [string |-> @]] ELSE Failed(pos)

\* A root that is a string.
client_text(data, pos) ==
  LET tag == take(data, pos, 1)
  IN  IF tag.val = <<TagId["String"]>> THEN client_string(data, tag.pos) ELSE Failed(pos)
=============================================================================
