------------------------------ MODULE PacketFields ------------------------------
(***************************************************************************)
(* PacketWriter and PacketReader, crates/protocol/src/packet.rs: the typed *)
(* fields of a packet body.  A body is a sequence of bytes; a reader is a  *)
(* body and the number of bytes read.  Fixed-width fields are big-endian   *)
(* words, whose bits the properties need not tell from an integer's, a     *)
(* float's or a UUID's; their widths are parameters.                       *)
(***************************************************************************)
EXTENDS VarInt, SequencesExt

CONSTANT Width  \* bytes of the fixed-width types

FixedTypes == {"u8", "bool", "i8", "u16", "i32", "f32", "i64", "f64", "uuid"}
ASSUME WidthsAssumption ==
  Width \in [FixedTypes -> Nat \ {0}] /\ Width["bool"] = Width["u8"]

BASE == 2 * SEGMENT

\* Values of a word of n bytes.
words[n \in Nat] == IF n = 0 THEN 1 ELSE BASE * words[n - 1]

Words(type) == 0 .. words[Width[type]] - 1

\* to_be_bytes, from_be_bytes; a negative integer is its two's complement.
be(v, w) == [i \in 1..w |-> (v \div words[w - i]) % BASE]
word(bytes) ==
  LET value[n \in 0 .. Len(bytes)] == IF n = 0 THEN 0 ELSE value[n - 1] * BASE + bytes[n]
  IN  value[Len(bytes)]

Concat(n, f(_)) == FlattenSeq([i \in 1..n |-> f(i)])

\* One write_* call.
write(type, v) ==
  CASE type = "varint"      -> write_varint(v)
    [] type = "string"      -> write_varint(Len(v)) \o v
    [] type = "bytes"       -> v
    [] type \in FixedTypes  -> be(v, Width[type])

\* A chain of them, from pairs of a type and a value; the first is the id.
write_all(fields) == Concat(Len(fields), LAMBDA i : write(fields[i][1], fields[i][2]))

-----------------------------------------------------------------------------
Failed(pos) == [ok |-> FALSE, val |-> <<>>, pos |-> pos]

\* A mutant of take: what is left will do.
take_short(data, pos, n) ==
  LET m == IF pos + n > Len(data) THEN Len(data) ELSE pos + n
  IN  [ok |-> TRUE, val |-> SubSeq(data, pos + 1, m), pos |-> m]

\* The next n bytes; where there are fewer, an error that takes none.
take(data, pos, n) ==
  IF pos + n > Len(data) THEN Failed(pos)
  ELSE [ok |-> TRUE, val |-> SubSeq(data, pos + 1, pos + n), pos |-> pos + n]

\* Bytes of the longest encoding.
MaxBytes == varint_len(-1)

\* PacketReader::read_varint: the state of its loop before its first byte, ...
ReadVarInt == [r |-> ReadStart, next |-> "more", n |-> 0]

\* ... a turn of the loop, on byte b, ...
read_turn(s, b) ==
  IF s.next # "more" THEN s
  ELSE [r |-> take_byte(s.r, b), n |-> s.n + 1,
        next |-> IF ~continues(b) THEN "value" ELSE IF too_big(s.r) THEN "too_big" ELSE "more"]

\* ... and where it leaves off, at the end of the body at the latest.
read_varint(data, pos) ==
  LET turn[n \in 0 .. Len(data) - pos] ==
        IF n = 0 THEN ReadVarInt ELSE read_turn(turn[n - 1], data[pos + n])
      s == turn[Len(data) - pos]
  IN  [ok |-> s.next = "value", val |-> as_signed(s.r.value), pos |-> pos + s.n]

\* Bytes that String::from_utf8 refuses, by the one that never occurs in UTF-8.
Utf8(bytes) == ~Contains(bytes, BASE - 1)

\* Strings that a VarInt can give the length of.
Texts == {s \in Seq(Byte) : Utf8(s) /\ Len(s) \in Signed}

read_string(data, pos) ==
  LET size == read_varint(data, pos)
      s   == take(data, size.pos, size.val)
  IN  IF ~size.ok \/ size.val < 0 THEN Failed(size.pos)
      ELSE [s EXCEPT !.ok = s.ok /\ Utf8(s.val)]

\* One read_* call.
read(type, data, pos) ==
  CASE type = "varint"      -> read_varint(data, pos)
    [] type = "string"      -> read_string(data, pos)
    [] type \in FixedTypes  -> LET t == take(data, pos, Width[type])
                               IN  [t EXCEPT !.val = word(t.val)]

\* The results of a tuple of calls: each is made, whatever became of the ones
\* before it.
read_all(types, data, pos) ==
  LET got[i \in DOMAIN types] ==
        read(types[i], data, IF i = 1 THEN pos ELSE got[i - 1].pos)
  IN  got

AllOk(results, is) == \A i \in is : results[i].ok

-----------------------------------------------------------------------------
\* World::save and write_item_blocks: VarInts one after another.
save_rows(rows) ==
  Concat(Len(rows), LAMBDA i : Concat(Len(rows[i]), LAMBDA j : write_varint(rows[i][j])))

Columns(n) == [i \in 1..n |-> "varint"]

\* A mutant of load_row: a row goes by its first integer.
load_row_lenient(s, n, b) ==
  LET g == read_all(Columns(n), b, s.pos)
  IN  IF g[1].ok THEN [s EXCEPT !.rows = Append(@, [i \in 1..n |-> g[i].val]), !.pos = g[n].pos]
      ELSE [s EXCEPT !.more = FALSE]

\* A turn of the loop in state s.
load_row(s, n, b) ==
  LET g == read_all(Columns(n), b, s.pos)
  IN  IF AllOk(g, 1..n)
      THEN [s EXCEPT !.rows = Append(@, [i \in 1..n |-> g[i].val]), !.pos = g[n].pos]
      ELSE [s EXCEPT !.more = FALSE]

\* World::load (rows of four) and load_item_to_block (rows of two): up to the
\* first row with an integer that does not decode.  A turn takes a byte at least.
load_rows(n, b, pos) ==
  LET turn[k \in 0 .. Len(b) + 1] ==
        IF k = 0 THEN [rows |-> <<>>, pos |-> pos, more |-> TRUE]
        ELSE LET s == turn[k - 1] IN IF s.more THEN load_row(s, n, b) ELSE s
  IN  turn[Len(b) + 1].rows
=============================================================================
