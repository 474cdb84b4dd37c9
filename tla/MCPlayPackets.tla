------------------------------ MODULE MCPlayPackets ------------------------------
(***************************************************************************)
(* Bytes of 3 + 1 bits and integers of 10, which the real packet ids fit.  *)
(***************************************************************************)
EXTENDS PlayReplies

MCWidth ==
  [u8 |-> 1, bool |-> 1, i8 |-> 1, u16 |-> 1, i32 |-> 4, f32 |-> 4, i64 |-> 3, f64 |-> 3, uuid |-> 4]

Longs == {0, 1365, 4095}
Ints == {-512, -1, 0, 2, 7, 8, 63, 511}
Lines ==
  {[i \in 1..n |-> 1 + (i % 7)] : n \in 0..18} \cup {[i \in 1..n |-> 14] : n \in 1..2}

MCPackets ==
  [k : {"move"}, x : Longs, y : {81}, z : Longs]
    \cup [k : {"chat"}, text : Lines]
    \cup [k : {"action"}, status : 0..2, pos : {1365}, face : {1}, seq : Signed]
    \cup [k : {"action"}, status : {0, -1}, pos : Longs, face : {15}, seq : {0}]
    \cup [k : {"place"}, pos : Longs, face : {0, 5}, cursor : {0, 2184}, seq : Ints]
    \cup [k : {"carried"}, slot : 0..8]
    \cup [k : {"creative"}, slot : {0, 15}, count : {-1, 0, 1, 64}, item : Ints]

Pairs == {<<0, -1>>, <<1, 511>>, <<64, 8>>}
Edits == {<<-1, 64, -512, 0>>, <<511, -64, 7, 9>>, <<0, 0, 0, 0>>}

MCFiles ==
  UNION {[k : {"file"}, n : {2}, rows : [1..n -> Pairs]]
           \cup [k : {"file"}, n : {4}, rows : [1..n -> Edits]] : n \in 0..3}

\* All of up to 3 bytes; longer ones, beyond the 4 bytes of the longest VarInt,
\* of bytes that continue it or end it, with payload on either side of its room.
MCStrays ==
  UNION {[1..n -> Byte] : n \in 0..3} \cup UNION {[1..n -> {0, 1, 7, 8, 10, 15}] : n \in 4..6}
MCPrefix == <<3, 5>>
=============================================================================
