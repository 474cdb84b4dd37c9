--------------------------------- MODULE VarInt ---------------------------------
(***************************************************************************)
(* VarInts, crates/protocol/src/varint.rs: a 32-bit integer in groups of 7 *)
(* bits, the lowest first, each in a byte whose top bit says that another  *)
(* byte follows.  Group and integer sizes are parameters: the code has     *)
(* SEGMENT = 2^7 and RANGE = 2^32, for which an encoding takes at most     *)
(* five bytes and the fifth has room for bits that an i32 has not.         *)
(***************************************************************************)
EXTENDS Integers, Sequences

CONSTANTS
  SEGMENT,  \* values of one byte's payload
  RANGE     \* values of the integer

ASSUME SegmentAssumption == SEGMENT \in Nat /\ SEGMENT > 1
ASSUME RangeAssumption == RANGE \in Nat /\ RANGE > 1 /\ RANGE % 2 = 0

Byte == 0 .. 2 * SEGMENT - 1
Unsigned == 0 .. RANGE - 1
Signed == -(RANGE \div 2) .. RANGE \div 2 - 1

as_unsigned(v) == v % RANGE
as_signed(u) == IF u < RANGE \div 2 THEN u ELSE u - RANGE

\* A mutant of payload: the continue bit is not masked off.
payload_unmasked(b) == b
payload(b) == b % SEGMENT
continues(b) == b >= SEGMENT

\* write_varint's loop on the unsigned value.
encode[u \in Unsigned] ==
  IF u < SEGMENT THEN <<u>>
  ELSE <<(u % SEGMENT) + SEGMENT>> \o encode[u \div SEGMENT]

write_varint(v) == encode[as_unsigned(v)]

len[u \in Unsigned] == IF u < SEGMENT THEN 1 ELSE 1 + len[u \div SEGMENT]
varint_len(v) == len[as_unsigned(v)]

-----------------------------------------------------------------------------
\* read_varint keeps the value so far and the weight of the next payload.
ReadStart == [value |-> 0, weight |-> 1]

\* A mutant of too_big: one byte more is allowed.
too_big_late(r) == r.weight >= RANGE

\* After a byte that continues: no bit position is left for another one.
too_big(r) == r.weight * SEGMENT >= RANGE

\* Bits that the shift pushes out of the integer are dropped.
take_byte(r, b) ==
  [value |-> (r.value + payload(b) * r.weight) % RANGE, weight |-> r.weight * SEGMENT]
=============================================================================
