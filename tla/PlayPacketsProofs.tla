--------------------------- MODULE PlayPacketsProofs ---------------------------
(***************************************************************************)
(* What is proved about PlayPackets and PlayReplies, for every size of the *)
(* groups and of the integers of VarInts, every width of the fixed types,  *)
(* any packets with values of their fields' types, and files of any rows.  *)
(*                                                                         *)
(* PacketsInv says that a body is what was written, or the front of it,    *)
(* and that the result is what its reader makes of it.  A handler's fields *)
(* are its packet's up to the first one that the cut took (SentReadsAs),   *)
(* and its effect is the packet's (Understood).  Of any bytes it makes one *)
(* effect (Effects), whose answer the client decodes (AnswerHeard).  The   *)
(* facts about the readers and the writers are in FieldFacts.              *)
(***************************************************************************)
EXTENDS PlayReplies, FieldFacts

-----------------------------------------------------------------------------
(***************************************************************************)
(* The invariant: where the body comes from, and what its reader made of   *)
(* it.                                                                     *)
(***************************************************************************)
Written(m) == IF m.k = "file" THEN save_rows(m.rows) ELSE write_all(client_fields_of(m))

Answered(effects) == IF effects = {} THEN <<>> ELSE answer(CHOOSE e \in effects : TRUE)

PacketsInv ==
  /\ meant \in Packets \cup Files \cup {Stray}
  /\ cut \in BOOLEAN /\ done \in BOOLEAN
  /\ meant.k = "stray" => body \in Strays /\ ~cut
  /\ meant.k # "stray" =>
       /\ ~cut => body = Written(meant)
       /\ cut => \E n \in 0 .. Len(Written(meant)) - 1 : body = SubSeq(Written(meant), 1, n)
  /\ done => result = IF meant.k = "file" THEN load_rows(meant.n, body, 0) ELSE handle(body)
  /\ done /\ meant.k # "file" => reply = Answered(result)

\* What a body was written for tells its kind.
LEMMA Kinds ==
  /\ \A m \in Packets : m.k \in {"move", "chat", "action", "place", "carried", "creative"}
  /\ \A m \in Files : m.k = "file"
  /\ Stray.k = "stray"
<1>1. ASSUME NEW m \in Packets
      PROVE  m.k \in {"move", "chat", "action", "place", "carried", "creative"}
  BY PacketsAssumption
<1>2. \A m \in Files : m.k = "file"
  BY FilesAssumption
<1> QED BY <1>1, <1>2 DEF Stray

LEMMA PacketsInit == Init => PacketsInv
<1> SUFFICES ASSUME Init PROVE PacketsInv
  OBVIOUS
<1>1. cut = FALSE /\ done = FALSE
  BY DEF Init
<1>2. CASE meant \in Packets /\ body = write_all(client_fields_of(meant))
  <2>1. meant.k # "file" /\ meant.k # "stray"
    BY <1>2, Kinds
  <2> QED BY <1>1, <1>2, <2>1 DEF PacketsInv, Written
<1>3. CASE meant \in Files /\ body = save_rows(meant.rows)
  BY <1>1, <1>3, Kinds DEF PacketsInv, Written
<1>4. CASE meant = Stray /\ body \in Strays
  BY <1>1, <1>4, Kinds DEF PacketsInv
<1> QED BY <1>2, <1>3, <1>4 DEF Init

LEMMA PacketsStep == PacketsInv /\ [Next]_vars => PacketsInv'
<1> SUFFICES ASSUME PacketsInv, [Next]_vars PROVE PacketsInv'
  OBVIOUS
<1>1. CASE Cut
  <2>1. /\ ~cut /\ ~done /\ meant.k # "stray" /\ cut' = TRUE /\ done' = done /\ meant' = meant
        /\ \E n \in 0 .. Len(body) - 1 : body' = SubSeq(body, 1, n)
    BY <1>1 DEF Cut
  <2>2. body = Written(meant)
    BY <2>1 DEF PacketsInv
  <2> QED BY <2>1, <2>2 DEF PacketsInv
<1>2. CASE Load
  BY <1>2 DEF Load, PacketsInv
<1>3. CASE Handle
  BY <1>3 DEF Handle, PacketsInv, Answered
<1>4. CASE UNCHANGED vars
  BY <1>4 DEF vars, PacketsInv
<1> QED BY <1>1, <1>2, <1>3, <1>4 DEF Next

LEMMA PacketsInvariant == Spec => []PacketsInv
<1>1. Init => PacketsInv
  BY PacketsInit
<1>2. PacketsInv /\ [Next]_vars => PacketsInv'
  BY PacketsStep
<1> QED BY <1>1, <1>2, PTL DEF Spec

(***************************************************************************)
(* PacketReader::read_varint, packet.rs: whatever bytes arrive, it takes   *)
(* no more of them than the longest encoding has or than there are, and    *)
(* returns an integer of its range or an error; an error only where the    *)
(* body ended or where the last byte that has room still continues.        *)
(***************************************************************************)
THEOREM VarIntsBounded == Spec => []Bounded
<1>1. PacketsInv => Bounded
  <2> SUFFICES ASSUME PacketsInv, meant.k = "stray"
               PROVE  LET r == read_varint(body, 0)
                      IN  /\ r.pos <= MaxBytes /\ r.pos <= Len(body)
                          /\ r.ok => r.val \in Signed
                          /\ ~r.ok => /\ \A i \in 1 .. r.pos : continues(body[i])
                                     /\ r.pos \in {Len(body), MaxBytes}
    BY DEF Bounded
  <2> DEFINE r == read_varint(body, 0)
  <2>1. body \in Seq(Byte)
    BY StraysAssumption DEF PacketsInv
  <2>2. 0 \in 0 .. Len(body)
    BY <2>1, LenProperties
  <2>3. Within(r, body, 0)
    BY <2>1, <2>2, ReadVarIntWithin
  <2> HIDE DEF r
  <2>4. r.pos \in Nat /\ r.pos - 0 = r.pos /\ Len(body) \in Nat
    BY <2>1, <2>3, LenProperties DEF Within
  <2>5. ASSUME ~r.ok PROVE \A i \in 1 .. r.pos : continues(body[i])
    <3> SUFFICES ASSUME NEW i \in 1 .. r.pos PROVE continues(body[i])
      OBVIOUS
    <3>1. continues(body[0 + i]) /\ 0 + i = i
      BY <2>3, <2>4, <2>5 DEF Within
    <3> QED BY <3>1
  <2> QED BY <2>3, <2>4, <2>5 DEF Within, r
<1> QED BY <1>1, PacketsInvariant, PTL

-----------------------------------------------------------------------------
\* The handler that a packet id leads to.
LEMMA Dispatch ==
  ASSUME NEW b, NEW id, NEW p, read_varint(b, 0) = [ok |-> TRUE, val |-> id, pos |-> p]
  PROVE  /\ id = S_MOVE_POS => handle(b) = OnMove(b, p)
         /\ id = S_CHAT => handle(b) = OnChat(b, p)
         /\ id = S_PLAYER_ACTION => handle(b) = OnPlayerAction(b, p)
         /\ id = S_USE_ITEM_ON => handle(b) = OnUseItemOn(b, p)
         /\ id = S_SET_CARRIED_ITEM => handle(b) = OnSetCarriedItem(b, p)
         /\ id = S_SET_CREATIVE_SLOT => handle(b) = OnSetCreativeSlot(b, p)
<1> DEFINE r == read_varint(b, 0)
<1>1. r.ok = TRUE /\ r.val = id /\ r.pos = p
  OBVIOUS
<1>2. handle(b) =
        IF ~r.ok THEN {} ELSE
        CASE r.val \in {S_MOVE_POS, S_MOVE_POS_ROT}  -> OnMove(b, r.pos)
          [] r.val = S_CHAT                          -> OnChat(b, r.pos)
          [] r.val = S_PLAYER_ACTION                 -> OnPlayerAction(b, r.pos)
          [] r.val = S_USE_ITEM_ON                   -> OnUseItemOn(b, r.pos)
          [] r.val = S_SET_CARRIED_ITEM              -> OnSetCarriedItem(b, r.pos)
          [] r.val = S_SET_CREATIVE_SLOT             -> OnSetCreativeSlot(b, r.pos)
          [] OTHER                                   -> {}
  BY Zenon DEF handle
<1> HIDE DEF r
<1> QED BY <1>1, <1>2 DEF S_MOVE_POS, S_MOVE_POS_ROT, S_CHAT, S_PLAYER_ACTION, S_USE_ITEM_ON,
           S_SET_CARRIED_ITEM, S_SET_CREATIVE_SLOT

\* A packet whose id was cut is ignored.
LEMMA IdCut ==
  ASSUME NEW b, ~ read_varint(b, 0).ok
  PROVE  handle(b) = {}
BY Zenon DEF handle

\* What can be written gives bytes.
Sendable(type, v) ==
  \/ type = "varint" /\ v \in Signed
  \/ type \in FixedTypes /\ v \in Nat
  \/ type = "string" /\ v \in Texts

LEMMA WriteType ==
  ASSUME NEW type, NEW v, Sendable(type, v)
  PROVE  write(type, v) \in Seq(Byte)
<1>1. ASSUME NEW n \in Int PROVE write_varint(n) \in Seq(Byte)
  BY AsUnsigned, EncodeType DEF write_varint
<1>2. CASE type = "varint" /\ v \in Signed
  <2>1. write(type, v) = write_varint(v)
    <3>1. "varint" \notin FixedTypes /\ "varint" # "string" /\ "varint" # "bytes"
      BY DEF FixedTypes
    <3> QED BY <1>2, <3>1, Zenon DEF write
  <2>2. v \in Int
    BY <1>2, IntSizes DEF Signed
  <2> QED BY <1>1, <2>1, <2>2
<1>3. CASE type \in FixedTypes /\ v \in Nat
  <2>1. write(type, v) = be(v, Width[type])
    <3>1. type # "bytes" /\ type # "varint" /\ type # "string"
      BY <1>3 DEF FixedTypes
    <3> QED BY <1>3, <3>1, Zenon DEF write
  <2>2. Width[type] \in Nat
    BY <1>3, WidthFacts
  <2> QED BY <1>3, <2>1, <2>2, BeBytes
<1>4. CASE type = "string" /\ v \in Texts
  <2> DEFINE x == write_varint(Len(v))
  <2>1. write(type, v) = x \o v
    <3>1. "string" \notin FixedTypes /\ "string" # "varint" /\ "string" # "bytes"
      BY DEF FixedTypes
    <3> QED BY <1>4, <3>1, Zenon DEF write
  <2>2. v \in Seq(Byte) /\ Len(v) \in Int
    BY <1>4, LenProperties DEF Texts
  <2>3. x \in Seq(Byte)
    BY <1>1, <2>2
  <2> HIDE DEF x
  <2>4. x \o v \in Seq(Byte)
    BY <2>2, <2>3, ConcatProperties
  <2> QED BY <2>1, <2>4, Zenon
<1> QED BY <1>2, <1>3, <1>4 DEF Sendable

\* The values of a word are naturals, 0 among them.
LEMMA WordValues ==
  ASSUME NEW type \in FixedTypes
  PROVE  Words(type) \subseteq Nat /\ 0 \in Words(type)
<1>1. words[Width[type]] \in Nat \ {0}
  BY WidthFacts, WordsDef
<1> QED BY <1>1 DEF Words

\* Small integers can be said in a VarInt, packet ids among them.
LEMMA SmallInts == 0 .. 121 \subseteq Signed
<1>1. 121 <= RANGE \div 2 - 1 /\ RANGE \div 2 \in Nat
  BY IdsAssumption, IntSizes DEF P_SYSTEM_CHAT, Signed
<1> QED BY <1>1 DEF Signed

\* The fields are of the types that a handler reads, a flag being a byte to it.
Agrees(fields, id, types, n) ==
  /\ types \in Seq(IntTypes) /\ n \in 0 .. Len(types) /\ id \in Signed
  /\ Len(fields) \in Nat /\ Len(fields) > n /\ fields[1] = <<"varint", id>>
  /\ \A i \in 1 .. Len(fields) : Sendable(fields[i][1], fields[i][2])
  /\ \A i \in 1 .. n : /\ Fits(types[i], fields[i + 1][2])
                      /\ \/ types[i] = fields[i + 1][1]
                         \/ types[i] = "u8" /\ fields[i + 1][1] = "bool"

LEMMA AgreesSends ==
  ASSUME NEW fields, NEW id, NEW types, NEW n, Agrees(fields, id, types, n)
  PROVE  Sends(fields, id, types, n)
<1>0. /\ types \in Seq(IntTypes) /\ n \in 0 .. Len(types) /\ id \in Signed
      /\ Len(fields) \in Nat /\ Len(fields) > n /\ fields[1] = <<"varint", id>>
  BY DEF Agrees
<1>1. \A i \in 1 .. Len(fields) : Piece(fields, i) \in Seq(Byte)
  BY WriteType DEF Piece, Agrees
<1>2. Piece(fields, 1) = write_varint(id)
  <2>1. "varint" \notin FixedTypes /\ "varint" # "string" /\ "varint" # "bytes"
    BY DEF FixedTypes
  <2>2. fields[1][1] = "varint" /\ fields[1][2] = id
    BY <1>0
  <2>3. write("varint", id) = write_varint(id)
    BY <2>1, Zenon DEF write
  <2> QED BY <2>2, <2>3 DEF Piece
<1>3. ASSUME NEW v PROVE write("u8", v) = write("bool", v)
  <2>1. /\ "u8" \in FixedTypes /\ "u8" # "varint" /\ "u8" # "string" /\ "u8" # "bytes"
        /\ "bool" \in FixedTypes /\ "bool" # "varint" /\ "bool" # "string" /\ "bool" # "bytes"
    BY DEF FixedTypes
  <2>2. write("u8", v) = be(v, Width["u8"]) /\ write("bool", v) = be(v, Width["bool"])
    BY <2>1, Zenon DEF write
  <2> QED BY <2>2, WidthsAssumption, Zenon
<1>4. ASSUME NEW i \in 1 .. n PROVE write(types[i], fields[i + 1][2]) = Piece(fields, i + 1)
  <2> DEFINE v == fields[i + 1][2]
  <2>1. CASE types[i] = fields[i + 1][1]
    BY <2>1 DEF Piece
  <2>2. CASE types[i] = "u8" /\ fields[i + 1][1] = "bool"
    <3>1. write("u8", v) = write("bool", v)
      BY <1>3
    <3> QED BY <2>2, <3>1 DEF Piece
  <2>3. types[i] = fields[i + 1][1] \/ (types[i] = "u8" /\ fields[i + 1][1] = "bool")
    BY DEF Agrees
  <2> QED BY <2>1, <2>2, <2>3
<1>5. \A i \in 1 .. n : Fits(types[i], fields[i + 1][2])
  BY DEF Agrees
<1> QED BY <1>0, <1>1, <1>2, <1>4, <1>5 DEF Sends

\* A body with a packet of this kind, whole or cut.
LEMMA MoveSent ==
  ASSUME NEW m \in Packets, m.k = "move"
  PROVE  Sends(client_fields_of(m), S_MOVE_POS, <<"f64", "f64", "f64">>, 3)
<1> DEFINE fields == <<<<"varint", S_MOVE_POS>>, <<"f64", m.x>>, <<"f64", m.y>>, <<"f64", m.z>>, <<"u8", 1>>>>
           types == <<"f64", "f64", "f64">>
<1>1. client_fields_of(m) = fields
  BY Zenon DEF client_fields_of
<1>2. m.x \in Words("f64") /\ m.y \in Words("f64") /\ m.z \in Words("f64")
  BY PacketsAssumption
<1>3. "f64" \in FixedTypes /\ "u8" \in FixedTypes
  BY DEF FixedTypes
<1>4. S_MOVE_POS \in Signed
  BY SmallInts DEF S_MOVE_POS
<1>5. /\ Len(fields) = 5 /\ fields[1] = <<"varint", S_MOVE_POS>> /\ fields[2] = <<"f64", m.x>>
      /\ fields[3] = <<"f64", m.y>> /\ fields[4] = <<"f64", m.z>> /\ fields[5] = <<"u8", 1>>
  OBVIOUS
<1>6. types \in Seq(IntTypes) /\ Len(types) = 3 /\ \A i \in 1 .. 3 : types[i] = "f64"
  BY <1>3 DEF IntTypes
<1> HIDE DEF fields, types
<1>7. \A i \in 1 .. 3 : Fits(types[i], fields[i + 1][2]) /\ types[i] = fields[i + 1][1]
  BY <1>2, <1>3, <1>5, <1>6 DEF Fits
<1>8. \A i \in 1 .. Len(fields) : Sendable(fields[i][1], fields[i][2])
  <2>1. Words("f64") \subseteq Nat
    BY <1>3, WordValues
  <2> QED BY <1>2, <1>3, <1>4, <1>5, <2>1 DEF Sendable
<1>9. Agrees(fields, S_MOVE_POS, types, 3)
  BY <1>4, <1>5, <1>6, <1>7, <1>8 DEF Agrees
<1>10. Sends(fields, S_MOVE_POS, types, 3)
  BY <1>9, AgreesSends
<1> QED BY <1>1, <1>10 DEF types
LEMMA ActionSent ==
  ASSUME NEW m \in Packets, m.k = "action"
  PROVE  Sends(client_fields_of(m), S_PLAYER_ACTION, <<"varint", "i64", "u8", "varint">>, 4)
<1> DEFINE fields == <<<<"varint", S_PLAYER_ACTION>>, <<"varint", m.status>>, <<"i64", m.pos>>, <<"u8", m.face>>, <<"varint", m.seq>>>>
           types == <<"varint", "i64", "u8", "varint">>
<1>1. client_fields_of(m) = fields
  BY Zenon DEF client_fields_of
<1>2. m.status \in Signed /\ m.pos \in Words("i64") /\ m.face \in Words("u8") /\ m.seq \in Signed
  BY PacketsAssumption
<1>3. "i64" \in FixedTypes /\ "u8" \in FixedTypes
  BY DEF FixedTypes
<1>4. S_PLAYER_ACTION \in Signed /\ 0 \in Signed
  BY SmallInts DEF S_PLAYER_ACTION
<1>5. /\ Len(fields) = 5
      /\ fields[1] = <<"varint", S_PLAYER_ACTION>>
      /\ fields[2] = <<"varint", m.status>>
      /\ fields[3] = <<"i64", m.pos>>
      /\ fields[4] = <<"u8", m.face>>
      /\ fields[5] = <<"varint", m.seq>>
  OBVIOUS
<1>6. /\ types \in Seq(IntTypes) /\ Len(types) = 4
      /\ types[1] = "varint" /\ types[2] = "i64" /\ types[3] = "u8" /\ types[4] = "varint"
  BY <1>3 DEF IntTypes
<1>7. /\ Words("i64") \subseteq Nat /\ 0 \in Words("i64")
      /\ Words("u8") \subseteq Nat /\ 0 \in Words("u8")
  BY <1>3, WordValues
<1> HIDE DEF fields, types
<1>8. \A i \in 1 .. 4 : /\ Fits(types[i], fields[i + 1][2])
                      /\ \/ types[i] = fields[i + 1][1]
                         \/ types[i] = "u8" /\ fields[i + 1][1] = "bool"
  BY <1>2, <1>3, <1>4, <1>5, <1>6, <1>7 DEF Fits
<1>9. \A i \in 1 .. Len(fields) : Sendable(fields[i][1], fields[i][2])
  BY <1>2, <1>3, <1>4, <1>5, <1>7 DEF Sendable
<1>10. Agrees(fields, S_PLAYER_ACTION, types, 4)
  BY <1>4, <1>5, <1>6, <1>8, <1>9 DEF Agrees
<1>11. Sends(fields, S_PLAYER_ACTION, types, 4)
  BY <1>10, AgreesSends
<1> QED BY <1>1, <1>11 DEF types

LEMMA PlaceSent ==
  ASSUME NEW m \in Packets, m.k = "place"
  PROVE  Sends(client_fields_of(m), S_USE_ITEM_ON, <<"varint", "i64", "varint", "f32", "f32", "f32", "u8", "u8", "varint">>, 9)
<1> DEFINE fields == <<<<"varint", S_USE_ITEM_ON>>, <<"varint", 0>>, <<"i64", m.pos>>, <<"varint", m.face>>, <<"f32", m.cursor>>, <<"f32", m.cursor>>, <<"f32", m.cursor>>, <<"bool", 0>>, <<"bool", 0>>, <<"varint", m.seq>>>>
           types == <<"varint", "i64", "varint", "f32", "f32", "f32", "u8", "u8", "varint">>
<1>1. client_fields_of(m) = fields
  BY Zenon DEF client_fields_of
<1>2. m.pos \in Words("i64") /\ m.face \in Signed /\ m.cursor \in Words("f32") /\ m.seq \in Signed
  BY PacketsAssumption
<1>3. "i64" \in FixedTypes /\ "f32" \in FixedTypes /\ "bool" \in FixedTypes /\ "u8" \in FixedTypes
  BY DEF FixedTypes
<1>4. S_USE_ITEM_ON \in Signed /\ 0 \in Signed
  BY SmallInts DEF S_USE_ITEM_ON
<1>5. /\ Len(fields) = 10
      /\ fields[1] = <<"varint", S_USE_ITEM_ON>>
      /\ fields[2] = <<"varint", 0>>
      /\ fields[3] = <<"i64", m.pos>>
      /\ fields[4] = <<"varint", m.face>>
      /\ fields[5] = <<"f32", m.cursor>>
      /\ fields[6] = <<"f32", m.cursor>>
      /\ fields[7] = <<"f32", m.cursor>>
      /\ fields[8] = <<"bool", 0>>
      /\ fields[9] = <<"bool", 0>>
      /\ fields[10] = <<"varint", m.seq>>
  OBVIOUS
<1>6. /\ types \in Seq(IntTypes) /\ Len(types) = 9
      /\ types[1] = "varint" /\ types[2] = "i64" /\ types[3] = "varint" /\ types[4] = "f32" /\ types[5] = "f32" /\ types[6] = "f32" /\ types[7] = "u8" /\ types[8] = "u8" /\ types[9] = "varint"
  BY <1>3 DEF IntTypes
<1>7. /\ Words("bool") \subseteq Nat /\ 0 \in Words("bool")
      /\ Words("f32") \subseteq Nat /\ 0 \in Words("f32")
      /\ Words("i64") \subseteq Nat /\ 0 \in Words("i64")
      /\ Words("u8") \subseteq Nat /\ 0 \in Words("u8")
  BY <1>3, WordValues
<1> HIDE DEF fields, types
<1>8. \A i \in 1 .. 9 : /\ Fits(types[i], fields[i + 1][2])
                      /\ \/ types[i] = fields[i + 1][1]
                         \/ types[i] = "u8" /\ fields[i + 1][1] = "bool"
  BY <1>2, <1>3, <1>4, <1>5, <1>6, <1>7 DEF Fits
<1>9. \A i \in 1 .. Len(fields) : Sendable(fields[i][1], fields[i][2])
  BY <1>2, <1>3, <1>4, <1>5, <1>7 DEF Sendable
<1>10. Agrees(fields, S_USE_ITEM_ON, types, 9)
  BY <1>4, <1>5, <1>6, <1>8, <1>9 DEF Agrees
<1>11. Sends(fields, S_USE_ITEM_ON, types, 9)
  BY <1>10, AgreesSends
<1> QED BY <1>1, <1>11 DEF types

LEMMA CarriedSent ==
  ASSUME NEW m \in Packets, m.k = "carried"
  PROVE  Sends(client_fields_of(m), S_SET_CARRIED_ITEM, <<"u16">>, 1)
<1> DEFINE fields == <<<<"varint", S_SET_CARRIED_ITEM>>, <<"u16", m.slot>>>>
           types == <<"u16">>
<1>1. client_fields_of(m) = fields
  BY Zenon DEF client_fields_of
<1>2. m.slot \in Words("u16")
  BY PacketsAssumption
<1>3. "u16" \in FixedTypes
  BY DEF FixedTypes
<1>4. S_SET_CARRIED_ITEM \in Signed /\ 0 \in Signed
  BY SmallInts DEF S_SET_CARRIED_ITEM
<1>5. /\ Len(fields) = 2
      /\ fields[1] = <<"varint", S_SET_CARRIED_ITEM>>
      /\ fields[2] = <<"u16", m.slot>>
  OBVIOUS
<1>6. /\ types \in Seq(IntTypes) /\ Len(types) = 1
      /\ types[1] = "u16"
  BY <1>3 DEF IntTypes
<1>7. /\ Words("u16") \subseteq Nat /\ 0 \in Words("u16")
  BY <1>3, WordValues
<1> HIDE DEF fields, types
<1>8. \A i \in 1 .. 1 : /\ Fits(types[i], fields[i + 1][2])
                      /\ \/ types[i] = fields[i + 1][1]
                         \/ types[i] = "u8" /\ fields[i + 1][1] = "bool"
  BY <1>2, <1>3, <1>4, <1>5, <1>6, <1>7 DEF Fits
<1>9. \A i \in 1 .. Len(fields) : Sendable(fields[i][1], fields[i][2])
  BY <1>2, <1>3, <1>4, <1>5, <1>7 DEF Sendable
<1>10. Agrees(fields, S_SET_CARRIED_ITEM, types, 1)
  BY <1>4, <1>5, <1>6, <1>8, <1>9 DEF Agrees
<1>11. Sends(fields, S_SET_CARRIED_ITEM, types, 1)
  BY <1>10, AgreesSends
<1> QED BY <1>1, <1>11 DEF types

LEMMA InsertSent ==
  ASSUME NEW m \in Packets, m.k = "creative",
         m.count > 0
  PROVE  Sends(client_fields_of(m), S_SET_CREATIVE_SLOT, <<"u16", "varint", "varint">>, 3)
<1> DEFINE fields == <<<<"varint", S_SET_CREATIVE_SLOT>>, <<"u16", m.slot>>, <<"varint", m.count>>, <<"varint", m.item>>, <<"varint", 0>>>>
           types == <<"u16", "varint", "varint">>
<1>1. client_fields_of(m) = fields
  BY Zenon DEF client_fields_of
<1>2. m.slot \in Words("u16") /\ m.count \in Signed /\ m.item \in Signed
  BY PacketsAssumption
<1>3. "u16" \in FixedTypes
  BY DEF FixedTypes
<1>4. S_SET_CREATIVE_SLOT \in Signed /\ 0 \in Signed
  BY SmallInts DEF S_SET_CREATIVE_SLOT
<1>5. /\ Len(fields) = 5
      /\ fields[1] = <<"varint", S_SET_CREATIVE_SLOT>>
      /\ fields[2] = <<"u16", m.slot>>
      /\ fields[3] = <<"varint", m.count>>
      /\ fields[4] = <<"varint", m.item>>
      /\ fields[5] = <<"varint", 0>>
  OBVIOUS
<1>6. /\ types \in Seq(IntTypes) /\ Len(types) = 3
      /\ types[1] = "u16" /\ types[2] = "varint" /\ types[3] = "varint"
  BY <1>3 DEF IntTypes
<1>7. /\ Words("u16") \subseteq Nat /\ 0 \in Words("u16")
  BY <1>3, WordValues
<1> HIDE DEF fields, types
<1>8. \A i \in 1 .. 3 : /\ Fits(types[i], fields[i + 1][2])
                      /\ \/ types[i] = fields[i + 1][1]
                         \/ types[i] = "u8" /\ fields[i + 1][1] = "bool"
  BY <1>2, <1>3, <1>4, <1>5, <1>6, <1>7 DEF Fits
<1>9. \A i \in 1 .. Len(fields) : Sendable(fields[i][1], fields[i][2])
  BY <1>2, <1>3, <1>4, <1>5, <1>7 DEF Sendable
<1>10. Agrees(fields, S_SET_CREATIVE_SLOT, types, 3)
  BY <1>4, <1>5, <1>6, <1>8, <1>9 DEF Agrees
<1>11. Sends(fields, S_SET_CREATIVE_SLOT, types, 3)
  BY <1>10, AgreesSends
<1> QED BY <1>1, <1>11 DEF types

LEMMA RemoveSent ==
  ASSUME NEW m \in Packets, m.k = "creative",
         ~ (m.count > 0)
  PROVE  Sends(client_fields_of(m), S_SET_CREATIVE_SLOT, <<"u16", "varint", "varint">>, 2)
<1> DEFINE fields == <<<<"varint", S_SET_CREATIVE_SLOT>>, <<"u16", m.slot>>, <<"varint", m.count>>>>
           types == <<"u16", "varint", "varint">>
<1>1. client_fields_of(m) = fields
  BY Zenon DEF client_fields_of
<1>2. m.slot \in Words("u16") /\ m.count \in Signed
  BY PacketsAssumption
<1>3. "u16" \in FixedTypes
  BY DEF FixedTypes
<1>4. S_SET_CREATIVE_SLOT \in Signed /\ 0 \in Signed
  BY SmallInts DEF S_SET_CREATIVE_SLOT
<1>5. /\ Len(fields) = 3
      /\ fields[1] = <<"varint", S_SET_CREATIVE_SLOT>>
      /\ fields[2] = <<"u16", m.slot>>
      /\ fields[3] = <<"varint", m.count>>
  OBVIOUS
<1>6. /\ types \in Seq(IntTypes) /\ Len(types) = 3
      /\ types[1] = "u16" /\ types[2] = "varint" /\ types[3] = "varint"
  BY <1>3 DEF IntTypes
<1>7. /\ Words("u16") \subseteq Nat /\ 0 \in Words("u16")
  BY <1>3, WordValues
<1> HIDE DEF fields, types
<1>8. \A i \in 1 .. 2 : /\ Fits(types[i], fields[i + 1][2])
                      /\ \/ types[i] = fields[i + 1][1]
                         \/ types[i] = "u8" /\ fields[i + 1][1] = "bool"
  BY <1>2, <1>3, <1>4, <1>5, <1>6, <1>7 DEF Fits
<1>9. \A i \in 1 .. Len(fields) : Sendable(fields[i][1], fields[i][2])
  BY <1>2, <1>3, <1>4, <1>5, <1>7 DEF Sendable
<1>10. Agrees(fields, S_SET_CREATIVE_SLOT, types, 2)
  BY <1>4, <1>5, <1>6, <1>8, <1>9 DEF Agrees
<1>11. Sends(fields, S_SET_CREATIVE_SLOT, types, 2)
  BY <1>10, AgreesSends
<1> QED BY <1>1, <1>11 DEF types

(***************************************************************************)
(* The handlers: what they do about a packet, whole or cut.                *)
(***************************************************************************)
\* e is what is to be done about m, but for the number of a placement.
Faithful(e, m) ==
  \/ e \in Effect(m)
  \/ e.k = "place" /\ [e EXCEPT !.seq = m.seq] \in Effect(m)

Handled(b, m, g, n) ==
  /\ \A e \in handle(b) : Faithful(e, m)
  /\ AllOk(g, 1 .. n) => handle(b) = Effect(m)

\* The whole packet means what it was written for, and so does what is left of it.
Understood(m) ==
  /\ Written(m) \in Seq(Byte)
  /\ handle(Written(m)) = Effect(m)
  /\ \A c : FrontOf(c, Written(m)) => \A e \in handle(c) : Faithful(e, m)

LEMMA HandledUnderstood ==
  ASSUME NEW m \in Packets, NEW id, NEW types, NEW n,
         Sends(client_fields_of(m), id, types, n),
         \A b, p : ReadsAs(b, client_fields_of(m), id, types, n, p)
                     => Handled(b, m, read_all(types, b, p), n)
  PROVE  Understood(m)
<1> DEFINE z == write_all(client_fields_of(m))
<1>1. Written(m) = z
  BY Kinds DEF Written
<1>2. handle(z) = Effect(m)
  <2>1. PICK p : /\ ReadsAs(z, client_fields_of(m), id, types, n, p)
                 /\ AllOk(read_all(types, z, p), 1 .. n)
    BY SentReadsAs
  <2> QED BY <2>1 DEF Handled
<1>3. ASSUME NEW c, FrontOf(c, z), NEW e \in handle(c) PROVE Faithful(e, m)
  <2>1. read_varint(c, 0).ok
    BY <1>3, IdCut
  <2>2. PICK p : ReadsAs(c, client_fields_of(m), id, types, n, p)
    BY <1>3, <2>1, SentReadsAs
  <2> QED BY <1>3, <2>2 DEF Handled
<1>4. z \in Seq(Byte)
  BY SentRead
<1> HIDE DEF z
<1> QED BY <1>1, <1>2, <1>3, <1>4 DEF Understood


LEMMA MoveUnderstood ==
  ASSUME NEW m \in Packets, m.k = "move"
  PROVE  Understood(m)
<1> DEFINE fields == client_fields_of(m)
           types == <<"f64", "f64", "f64">>
<1>1. ASSUME NEW b, NEW p, ReadsAs(b, fields, S_MOVE_POS, types, 3, p)
      PROVE  Handled(b, m, read_all(types, b, p), 3)
  <2> DEFINE g == read_all(types, b, p)
  <2>1. handle(b) = OnMove(b, p)
    BY <1>1, Dispatch DEF ReadsAs
  <2>2. OnMove(b, p) =
          When(AllOk(g, 1..3), [k |-> "move", x |-> g[1].val, z |-> g[3].val])
    BY Zenon DEF OnMove
  <2>3. fields = <<<<"varint", S_MOVE_POS>>, <<"f64", m.x>>, <<"f64", m.y>>, <<"f64", m.z>>, <<"u8", 1>>>>
    BY Zenon DEF client_fields_of
  <2>4. fields[2][2] = m.x /\ fields[3][2] = m.y /\ fields[4][2] = m.z
    BY <2>3
  <2>5. Effect(m) = {[k |-> "move", x |-> m.x, z |-> m.z]}
    BY Zenon DEF Effect
  <2>6. AllOk(g, 1 .. 3) => g[1].val = m.x /\ g[3].val = m.z
    <3>1. AllOk(g, 1 .. 3) => \A i \in 1 .. 3 : g[i].val = fields[i + 1][2]
      BY <1>1 DEF ReadsAs
    <3> HIDE DEF g, fields
    <3> QED BY <2>4, <3>1
  <2> HIDE DEF g, fields
  <2>7. AllOk(g, 1 .. 3) => handle(b) = Effect(m)
    BY <2>1, <2>2, <2>5, <2>6 DEF When
  <2>8. ~ AllOk(g, 1 .. 3) => handle(b) = {}
    BY <2>1, <2>2 DEF When
  <2>9. Handled(b, m, g, 3)
    BY <2>7, <2>8 DEF Handled, Faithful
  <2> QED BY <2>9 DEF g
<1> HIDE DEF fields, types
<1>2. Sends(fields, S_MOVE_POS, types, 3)
  BY MoveSent DEF fields, types
<1> QED BY <1>1, <1>2, HandledUnderstood DEF fields

LEMMA ActionUnderstood ==
  ASSUME NEW m \in Packets, m.k = "action"
  PROVE  Understood(m)
<1> DEFINE fields == client_fields_of(m)
           types == <<"varint", "i64", "u8", "varint">>
<1>1. ASSUME NEW b, NEW p, ReadsAs(b, fields, S_PLAYER_ACTION, types, 4, p)
      PROVE  Handled(b, m, read_all(types, b, p), 4)
  <2> DEFINE g == read_all(types, b, p)
  <2>1. handle(b) = OnPlayerAction(b, p)
    BY <1>1, Dispatch DEF ReadsAs
  <2>2. OnPlayerAction(b, p) =
          When(AllOk(g, 1..4) /\ g[1].val \in {0, 2},
               [k |-> "break", pos |-> g[2].val, seq |-> g[4].val])
    BY Zenon DEF OnPlayerAction
  <2>3. fields = <<<<"varint", S_PLAYER_ACTION>>, <<"varint", m.status>>, <<"i64", m.pos>>, <<"u8", m.face>>, <<"varint", m.seq>>>>
    BY Zenon DEF client_fields_of
  <2>4. fields[2][2] = m.status /\ fields[3][2] = m.pos /\ fields[4][2] = m.face /\ fields[5][2] = m.seq
    BY <2>3
  <2>5. Effect(m) = When(m.status \in {0, 2}, [k |-> "break", pos |-> m.pos, seq |-> m.seq])
    BY Zenon DEF Effect
  <2>6. AllOk(g, 1 .. 4) => g[1].val = m.status /\ g[2].val = m.pos /\ g[4].val = m.seq
    <3>1. AllOk(g, 1 .. 4) => \A i \in 1 .. 4 : g[i].val = fields[i + 1][2]
      BY <1>1 DEF ReadsAs
    <3> HIDE DEF g, fields
    <3> QED BY <2>4, <3>1
  <2> HIDE DEF g, fields
  <2>7. AllOk(g, 1 .. 4) => handle(b) = Effect(m)
    BY <2>1, <2>2, <2>5, <2>6
  <2>8. ~ AllOk(g, 1 .. 4) => handle(b) = {}
    BY <2>1, <2>2 DEF When
  <2>9. Handled(b, m, g, 4)
    BY <2>7, <2>8 DEF Handled, Faithful
  <2> QED BY <2>9 DEF g
<1> HIDE DEF fields, types
<1>2. Sends(fields, S_PLAYER_ACTION, types, 4)
  BY ActionSent DEF fields, types
<1> QED BY <1>1, <1>2, HandledUnderstood DEF fields

LEMMA PlaceUnderstood ==
  ASSUME NEW m \in Packets, m.k = "place"
  PROVE  Understood(m)
<1> DEFINE fields == client_fields_of(m)
           types == <<"varint", "i64", "varint", "f32", "f32", "f32", "u8", "u8", "varint">>
<1>1. ASSUME NEW b, NEW p, ReadsAs(b, fields, S_USE_ITEM_ON, types, 9, p)
      PROVE  Handled(b, m, read_all(types, b, p), 9)
  <2> DEFINE g == read_all(types, b, p)
  <2>1. handle(b) = OnUseItemOn(b, p)
    BY <1>1, Dispatch DEF ReadsAs
  <2>2. OnUseItemOn(b, p) =
          When(AllOk(g, 1..3) /\ g[9].ok,
               [k |-> "place", pos |-> g[2].val, face |-> g[3].val, seq |-> g[9].val])
    BY Zenon DEF OnUseItemOn
  <2>3. fields = <<<<"varint", S_USE_ITEM_ON>>, <<"varint", 0>>, <<"i64", m.pos>>, <<"varint", m.face>>, <<"f32", m.cursor>>, <<"f32", m.cursor>>, <<"f32", m.cursor>>, <<"bool", 0>>, <<"bool", 0>>, <<"varint", m.seq>>>>
    BY Zenon DEF client_fields_of
  <2>4. fields[2][2] = 0 /\ fields[3][2] = m.pos /\ fields[4][2] = m.face /\ fields[5][2] = m.cursor /\ fields[6][2] = m.cursor /\ fields[7][2] = m.cursor /\ fields[8][2] = 0 /\ fields[9][2] = 0 /\ fields[10][2] = m.seq
    BY <2>3
  <2>5. Effect(m) = {[k |-> "place", pos |-> m.pos, face |-> m.face, seq |-> m.seq]}
    BY Zenon DEF Effect
  <2>6. /\ AllOk(g, 1 .. 3) => g[2].val = m.pos /\ g[3].val = m.face
        /\ AllOk(g, 1 .. 9) => g[9].val = m.seq
    <3>1. /\ AllOk(g, 1 .. 3) => \A i \in 1 .. 3 : g[i].val = fields[i + 1][2]
          /\ AllOk(g, 1 .. 9) => \A i \in 1 .. 9 : g[i].val = fields[i + 1][2]
      BY <1>1 DEF ReadsAs
    <3> HIDE DEF g, fields
    <3> QED BY <2>4, <3>1
  <2> HIDE DEF g, fields
  <2>7. AllOk(g, 1 .. 9) => AllOk(g, 1 .. 3) /\ g[9].ok
    BY DEF AllOk
  <2>8. AllOk(g, 1 .. 9) => handle(b) = Effect(m)
    BY <2>1, <2>2, <2>5, <2>6, <2>7 DEF When
  <2>9. ASSUME NEW e \in handle(b) PROVE Faithful(e, m)
    <3>1. AllOk(g, 1 .. 3) /\ e = [k |-> "place", pos |-> g[2].val, face |-> g[3].val, seq |-> g[9].val]
      BY <2>1, <2>2, <2>9 DEF When
    <3>2. e.k = "place" /\ [e EXCEPT !.seq = m.seq] = [k |-> "place", pos |-> m.pos, face |-> m.face, seq |-> m.seq]
      BY <2>6, <3>1
    <3> QED BY <2>5, <3>2 DEF Faithful
  <2>10. Handled(b, m, g, 9)
    BY <2>8, <2>9 DEF Handled
  <2> QED BY <2>10 DEF g
<1> HIDE DEF fields, types
<1>2. Sends(fields, S_USE_ITEM_ON, types, 9)
  BY PlaceSent DEF fields, types
<1> QED BY <1>1, <1>2, HandledUnderstood DEF fields

LEMMA CarriedUnderstood ==
  ASSUME NEW m \in Packets, m.k = "carried"
  PROVE  Understood(m)
<1> DEFINE fields == client_fields_of(m)
           types == <<"u16">>
<1>1. ASSUME NEW b, NEW p, ReadsAs(b, fields, S_SET_CARRIED_ITEM, types, 1, p)
      PROVE  Handled(b, m, read_all(types, b, p), 1)
  <2> DEFINE g == read_all(types, b, p)
  <2>1. handle(b) = OnSetCarriedItem(b, p)
    BY <1>1, Dispatch DEF ReadsAs
  <2>2. OnSetCarriedItem(b, p) =
          LET slot == read("u16", b, p)
          IN  When(slot.ok, [k |-> "carried", slot |-> slot.val])
    BY Zenon DEF OnSetCarriedItem
  <2>3. fields = <<<<"varint", S_SET_CARRIED_ITEM>>, <<"u16", m.slot>>>>
    BY Zenon DEF client_fields_of
  <2>4. fields[2][2] = m.slot
    BY <2>3
  <2>5. Effect(m) = {m}
    BY Zenon DEF Effect
  <2>6. g[1] = read("u16", b, p)
    <3>1. <<"u16">> \in Seq(IntTypes) /\ Len(<<"u16">>) = 1
      BY DEF IntTypes, FixedTypes
    <3>2. b \in Seq(Byte) /\ p \in 0 .. Len(b)
      BY <1>1 DEF ReadsAs
    <3>3. Reads(g, types, b, p)
      BY <3>1, <3>2, ReadAllRuns
    <3> HIDE DEF g
    <3> QED BY <3>1, <3>3 DEF Reads, From
  <2>7. AllOk(g, 1 .. 1) => g[1].val = m.slot
    <3>1. AllOk(g, 1 .. 1) => \A i \in 1 .. 1 : g[i].val = fields[i + 1][2]
      BY <1>1 DEF ReadsAs
    <3> HIDE DEF g, fields
    <3> QED BY <2>4, <3>1
  <2>8. m = [k |-> "carried", slot |-> m.slot]
    BY PacketsAssumption
  <2> HIDE DEF g, fields
  <2>9. AllOk(g, 1 .. 1) <=> g[1].ok
    BY DEF AllOk
  <2>10. AllOk(g, 1 .. 1) => handle(b) = Effect(m)
    BY <2>1, <2>2, <2>5, <2>6, <2>7, <2>8, <2>9 DEF When
  <2>11. ~ AllOk(g, 1 .. 1) => handle(b) = {}
    BY <2>1, <2>2, <2>6, <2>9 DEF When
  <2>12. Handled(b, m, g, 1)
    BY <2>10, <2>11 DEF Handled, Faithful
  <2> QED BY <2>12 DEF g
<1> HIDE DEF fields, types
<1>2. Sends(fields, S_SET_CARRIED_ITEM, types, 1)
  BY CarriedSent DEF fields, types
<1> QED BY <1>1, <1>2, HandledUnderstood DEF fields

LEMMA InsertUnderstood ==
  ASSUME NEW m \in Packets, m.k = "creative",
         m.count > 0
  PROVE  Understood(m)
<1> DEFINE fields == client_fields_of(m)
           types == <<"u16", "varint", "varint">>
<1>1. ASSUME NEW b, NEW p, ReadsAs(b, fields, S_SET_CREATIVE_SLOT, types, 3, p)
      PROVE  Handled(b, m, read_all(types, b, p), 3)
  <2> DEFINE g == read_all(types, b, p)
  <2>1. handle(b) = OnSetCreativeSlot(b, p)
    BY <1>1, Dispatch DEF ReadsAs
  <2>2. OnSetCreativeSlot(b, p) =
          When(AllOk(g, 1..3) /\ g[2].val > 0, [k |-> "insert", slot |-> g[1].val, item |-> g[3].val])
            \cup When(AllOk(g, 1..2) /\ g[2].val <= 0, [k |-> "remove", slot |-> g[1].val])
    BY Zenon DEF OnSetCreativeSlot
  <2>3. fields = <<<<"varint", S_SET_CREATIVE_SLOT>>, <<"u16", m.slot>>, <<"varint", m.count>>, <<"varint", m.item>>, <<"varint", 0>>>>
    BY Zenon DEF client_fields_of
  <2>4. fields[2][2] = m.slot /\ fields[3][2] = m.count /\ fields[4][2] = m.item
    BY <2>3
  <2>5. Effect(m) = {IF m.count > 0 THEN [k |-> "insert", slot |-> m.slot, item |-> m.item]
                   ELSE [k |-> "remove", slot |-> m.slot]}
    BY Zenon DEF Effect
  <2>6. m.count \in Int /\ (AllOk(g, 1 .. 3) => AllOk(g, 1 .. 2))
    BY PacketsAssumption, IntSizes DEF AllOk, Signed
  <2>7. /\ AllOk(g, 1 .. 2) => g[1].val = m.slot /\ g[2].val = m.count
        /\ AllOk(g, 1 .. 3) => g[3].val = m.item
    <3>1. /\ AllOk(g, 1 .. 2) => \A i \in 1 .. 2 : g[i].val = fields[i + 1][2]
          /\ AllOk(g, 1 .. 3) => \A i \in 1 .. 3 : g[i].val = fields[i + 1][2]
      BY <1>1 DEF ReadsAs
    <3> HIDE DEF g, fields
    <3> QED BY <2>4, <3>1
  <2> HIDE DEF g, fields
  <2>8. AllOk(g, 1 .. 3) => handle(b) = Effect(m)
    BY <2>1, <2>2, <2>5, <2>6, <2>7 DEF When
  <2>9. ~ AllOk(g, 1 .. 3) => handle(b) = {}
    BY <2>1, <2>2, <2>6, <2>7 DEF When
  <2>10. Handled(b, m, g, 3)
    BY <2>8, <2>9 DEF Handled, Faithful
  <2> QED BY <2>10 DEF g
<1> HIDE DEF fields, types
<1>2. Sends(fields, S_SET_CREATIVE_SLOT, types, 3)
  BY InsertSent DEF fields, types
<1> QED BY <1>1, <1>2, HandledUnderstood DEF fields

LEMMA RemoveUnderstood ==
  ASSUME NEW m \in Packets, m.k = "creative",
         ~ (m.count > 0)
  PROVE  Understood(m)
<1> DEFINE fields == client_fields_of(m)
           types == <<"u16", "varint", "varint">>
<1>1. ASSUME NEW b, NEW p, ReadsAs(b, fields, S_SET_CREATIVE_SLOT, types, 2, p)
      PROVE  Handled(b, m, read_all(types, b, p), 2)
  <2> DEFINE g == read_all(types, b, p)
  <2>1. handle(b) = OnSetCreativeSlot(b, p)
    BY <1>1, Dispatch DEF ReadsAs
  <2>2. OnSetCreativeSlot(b, p) =
          When(AllOk(g, 1..3) /\ g[2].val > 0, [k |-> "insert", slot |-> g[1].val, item |-> g[3].val])
            \cup When(AllOk(g, 1..2) /\ g[2].val <= 0, [k |-> "remove", slot |-> g[1].val])
    BY Zenon DEF OnSetCreativeSlot
  <2>3. fields = <<<<"varint", S_SET_CREATIVE_SLOT>>, <<"u16", m.slot>>, <<"varint", m.count>>>>
    BY Zenon DEF client_fields_of
  <2>4. fields[2][2] = m.slot /\ fields[3][2] = m.count
    BY <2>3
  <2>5. Effect(m) = {IF m.count > 0 THEN [k |-> "insert", slot |-> m.slot, item |-> m.item]
                   ELSE [k |-> "remove", slot |-> m.slot]}
    BY Zenon DEF Effect
  <2>6. m.count \in Int /\ (AllOk(g, 1 .. 3) => AllOk(g, 1 .. 2))
    BY PacketsAssumption, IntSizes DEF AllOk, Signed
  <2>7. AllOk(g, 1 .. 2) => g[1].val = m.slot /\ g[2].val = m.count
    <3>1. AllOk(g, 1 .. 2) => \A i \in 1 .. 2 : g[i].val = fields[i + 1][2]
      BY <1>1 DEF ReadsAs
    <3> HIDE DEF g, fields
    <3> QED BY <2>4, <3>1
  <2> HIDE DEF g, fields
  <2>8. AllOk(g, 1 .. 2) => handle(b) = Effect(m)
    BY <2>1, <2>2, <2>5, <2>6, <2>7 DEF When
  <2>9. ~ AllOk(g, 1 .. 2) => handle(b) = {}
    BY <2>1, <2>2, <2>6 DEF When
  <2>10. Handled(b, m, g, 2)
    BY <2>8, <2>9 DEF Handled, Faithful
  <2> QED BY <2>10 DEF g
<1> HIDE DEF fields, types
<1>2. Sends(fields, S_SET_CREATIVE_SLOT, types, 2)
  BY RemoveSent DEF fields, types
<1> QED BY <1>1, <1>2, HandledUnderstood DEF fields

LEMMA ChatUnderstood ==
  ASSUME NEW m \in Packets, m.k = "chat"
  PROVE  Understood(m)
<1> DEFINE fields == <<<<"varint", S_CHAT>>, <<"string", m.text>>, <<"i64", 1>>>>
           z == write_all(fields)
           s == [i \in 1 .. Len(fields) |-> Piece(fields, i)]
           x == write("string", m.text)
           i3 == Piece(fields, 3)
<1>1. client_fields_of(m) = fields
  BY Zenon DEF client_fields_of
<1>2. Written(m) = z
  BY <1>1, Kinds DEF Written
<1>3. m.text \in Texts /\ m = [k |-> "chat", text |-> m.text]
  BY PacketsAssumption
<1>4. Len(fields) = 3 /\ Piece(fields, 1) = write("varint", S_CHAT) /\ Piece(fields, 2) = x
  BY DEF Piece
<1>5. \A i \in 1 .. 3 : Piece(fields, i) \in Seq(Byte)
  <2>1. S_CHAT \in Signed /\ "i64" \in FixedTypes
    BY SmallInts DEF S_CHAT, FixedTypes
  <2>2. /\ Sendable("varint", S_CHAT) /\ Sendable("string", m.text) /\ Sendable("i64", 1)
    BY <1>3, <2>1 DEF Sendable
  <2>3. /\ write("varint", S_CHAT) \in Seq(Byte) /\ write("string", m.text) \in Seq(Byte)
        /\ write("i64", 1) \in Seq(Byte)
    BY <2>2, WriteType
  <2> QED BY <2>3 DEF Piece
<1>6. Piece(fields, 1) = write_varint(S_CHAT)
  <2>1. "varint" \notin FixedTypes /\ "varint" # "string" /\ "varint" # "bytes"
    BY DEF FixedTypes
  <2>2. write("varint", S_CHAT) = write_varint(S_CHAT)
    BY <2>1, Zenon DEF write
  <2> QED BY <1>4, <2>2
<1> HIDE DEF fields
<1>7. \E P : Joined(s, z, P)
  <2>1. Len(fields) \in Nat /\ \A i \in 1 .. Len(fields) : Piece(fields, i) \in Seq(Byte)
    BY <1>4, <1>5
  <2> QED BY <2>1, WriteAllJoins
<1> HIDE DEF z
<1>8. PICK P : Joined(s, z, P)
  BY <1>7
<1>9. Len(s) = 3 /\ s[1] = write_varint(S_CHAT) /\ s[2] = x
  BY <1>4, <1>6
<1>10. s[1] \in Seq(Byte) /\ s[2] \in Seq(Byte)
  BY <1>4, <1>5
<1> HIDE DEF s, x
<1>11. /\ z \in Seq(Byte) /\ P[0] = 0 /\ P[0] \in Nat /\ P[1] \in Nat
       /\ P[1] = P[0] + Len(s[1]) /\ At(z, P[0], s[1]) /\ At(z, P[1], s[2])
  <2>1. z \in Seq(Byte) /\ P[0] = 0 /\ P \in [0 .. 3 -> Nat]
    BY <1>8, <1>9 DEF Joined
  <2>2. /\ 1 \in 1 .. Len(s) /\ 2 \in 1 .. Len(s) /\ 1 - 1 = 0 /\ 2 - 1 = 1
        /\ 0 \in 0 .. 3 /\ 1 \in 0 .. 3
    BY <1>9
  <2>3. /\ P[1] = P[0] + Len(s[1]) /\ At(z, P[0], s[1]) /\ At(z, P[1], s[2])
    BY <1>8, <2>2 DEF Joined
  <2> QED BY <2>1, <2>2, <2>3
<1>12. Len(z) \in Nat /\ P[1] \in 0 .. Len(z)
  <2>1. Len(z) \in Nat /\ Len(s[2]) \in Nat
    BY <1>10, <1>11, LenProperties
  <2>2. P[1] + Len(s[2]) <= Len(z)
    BY <1>11 DEF At
  <2>3. P[1] \in Nat
    BY <1>11
  <2> DEFINE u == P[1]
             w == Len(s[2])
             y == Len(z)
  <2>4. u \in Nat /\ w \in Nat /\ y \in Nat /\ u + w <= y
    BY <2>1, <2>2, <2>3
  <2> HIDE DEF u, w, y
  <2>5. u \in 0 .. y
    BY <2>4
  <2> QED BY <2>4, <2>5 DEF u, y
<1>13. read_varint(z, 0) = [ok |-> TRUE, val |-> S_CHAT, pos |-> P[1]]
  <2>1. S_CHAT \in Signed
    BY SmallInts DEF S_CHAT
  <2>2. At(z, 0, write_varint(S_CHAT)) /\ 0 \in 0 .. Len(z) /\ P[1] = 0 + Len(write_varint(S_CHAT))
    BY <1>9, <1>11, <1>12
  <2> QED BY <1>11, <2>1, <2>2, VarIntBack
<1>14. read_string(z, P[1]).ok /\ read_string(z, P[1]).val = m.text
  BY <1>3, <1>9, <1>11, <1>12, StringBack DEF x
<1>15. ASSUME NEW b, read_varint(b, 0) = [ok |-> TRUE, val |-> S_CHAT, pos |-> P[1]]
       PROVE  handle(b) = When(read_string(b, P[1]).ok, [k |-> "chat", text |-> read_string(b, P[1]).val])
  <2>1. handle(b) = OnChat(b, P[1])
    BY <1>15, Dispatch
  <2>2. OnChat(b, P[1]) = LET text == read_string(b, P[1])
                          IN  When(text.ok, [k |-> "chat", text |-> text.val])
    BY Zenon DEF OnChat
  <2> QED BY <2>1, <2>2
<1>16. Effect(m) = {m}
  BY Zenon DEF Effect
<1>17. handle(z) = Effect(m)
  BY <1>3, <1>13, <1>14, <1>15, <1>16 DEF When
<1>18. ASSUME NEW c, FrontOf(c, z), NEW e \in handle(c) PROVE Faithful(e, m)
  <2>1. read_varint(c, 0).ok
    BY <1>18, IdCut
  <2>2. c \in Seq(Byte) /\ 0 \in 0 .. Len(c)
    BY <1>18, LenProperties DEF FrontOf
  <2>3. read_varint(c, 0) = [ok |-> TRUE, val |-> S_CHAT, pos |-> P[1]]
    BY <1>13, <1>18, <2>1, <2>2, SameVarInt
  <2>4. P[1] \in 0 .. Len(c)
    <3>1. Within(read_varint(c, 0), c, 0)
      BY <2>2, ReadVarIntWithin
    <3> QED BY <2>3, <3>1 DEF Within
  <2>5. /\ handle(c) = When(read_string(c, P[1]).ok, [k |-> "chat", text |-> read_string(c, P[1]).val])
        /\ e \in handle(c)
    BY <1>15, <1>18, <2>3
  <2>6. read_string(c, P[1]).ok /\ e = [k |-> "chat", text |-> read_string(c, P[1]).val]
    BY <2>5 DEF When
  <2>7. read_string(c, P[1]) = read_string(z, P[1])
    BY <1>18, <2>4, <2>6, SameString
  <2> QED BY <1>3, <1>14, <1>16, <2>6, <2>7 DEF Faithful
<1> QED BY <1>2, <1>11, <1>17, <1>18 DEF Understood

\* Every packet is understood.
LEMMA PacketsUnderstood ==
  ASSUME NEW m \in Packets
  PROVE  Understood(m)
BY Kinds, MoveUnderstood, ChatUnderstood, ActionUnderstood, PlaceUnderstood, CarriedUnderstood,
   InsertUnderstood, RemoveUnderstood

-----------------------------------------------------------------------------
\* The body that is read is what was written, or the front of it.
LEMMA BodyFront ==
  ASSUME PacketsInv, meant.k # "stray", Written(meant) \in Seq(Byte)
  PROVE  FrontOf(body, Written(meant)) /\ (~cut => body = Written(meant))
<1>1. CASE cut
  <2>1. Len(Written(meant)) \in Nat
    BY LenProperties
  <2>2. PICK n \in 0 .. Len(Written(meant)) - 1 : body = SubSeq(Written(meant), 1, n)
    BY <1>1 DEF PacketsInv
  <2>3. n \in 0 .. Len(Written(meant))
    BY <2>1
  <2> QED BY <1>1, <2>2, <2>3, CutFront
<1>2. CASE ~cut
  <2>1. body = Written(meant)
    BY <1>2 DEF PacketsInv
  <2>2. Len(Written(meant)) \in Nat
    BY LenProperties
  <2> QED BY <2>1, <2>2 DEF FrontOf
<1> QED BY <1>1, <1>2

\* What was loaded of a file, whose rows stand at P.
Recovered(P) ==
  /\ Saved(meant.rows, meant.n, Written(meant), P)
  /\ \A w \in 0 .. Len(meant.rows) :
       P[w] <= Len(body) /\ (w = Len(meant.rows) \/ P[w + 1] > Len(body))
         => Whole(result, meant.rows, w)
  /\ ~cut => Len(body) = P[Len(meant.rows)]

LEMMA FileRead ==
  ASSUME PacketsInv, done, meant.k = "file"
  PROVE  /\ meant.rows \in Seq(Seq(Signed)) /\ body \in Seq(Byte)
         /\ \E P : Recovered(P)
<1> DEFINE rows == meant.rows
           n == meant.n
<1>1. meant \in Files /\ meant.k # "stray"
  BY Kinds DEF PacketsInv
<1>2. /\ rows \in Seq(Seq(Signed)) /\ n \in Nat \ {0}
      /\ \A i \in DOMAIN rows : Len(rows[i]) = n
  BY <1>1, FilesAssumption
<1>3. Written(meant) = save_rows(rows)
  BY DEF Written
<1>4. result = load_rows(n, body, 0)
  BY DEF PacketsInv
<1> HIDE DEF rows, n
<1>5. PICK P : Saved(rows, n, Written(meant), P)
  BY <1>2, <1>3, SaveIs
<1>6. Written(meant) \in Seq(Byte) /\ P[Len(rows)] = Len(Written(meant))
  BY <1>5 DEF Saved
<1>7. FrontOf(body, Written(meant)) /\ (~cut => body = Written(meant))
  BY <1>1, <1>6, BodyFront
<1>8. body \in Seq(Byte)
  BY <1>7 DEF FrontOf
<1>9. ASSUME NEW w \in 0 .. Len(rows), P[w] <= Len(body), w = Len(rows) \/ P[w + 1] > Len(body)
      PROVE  Whole(result, rows, w)
  BY <1>4, <1>5, <1>7, <1>9, FileLoads
<1>10. ~cut => Len(body) = P[Len(rows)]
  BY <1>6, <1>7
<1>11. Recovered(P)
  BY <1>5, <1>9, <1>10 DEF Recovered, rows, n
<1> QED BY <1>2, <1>8, <1>11 DEF rows

(***************************************************************************)
(* The handlers of play.rs and the loops of World::load and                *)
(* load_item_to_block: whatever the packet and whatever the rows, what was *)
(* written whole is read as what it was written for.                       *)
(***************************************************************************)
THEOREM PacketsDecoded == Spec => []DecodedAsMeant
<1>1. PacketsInv => DecodedAsMeant
  <2> SUFFICES ASSUME PacketsInv, done, ~cut, meant.k # "stray"
               PROVE  result = IF meant.k = "file" THEN meant.rows ELSE Effect(meant)
    BY DEF DecodedAsMeant
  <2>1. CASE meant.k = "file"
    <3> DEFINE rows == meant.rows
    <3>0. PICK P : Recovered(P)
      BY <2>1, FileRead
    <3>1. /\ Saved(rows, meant.n, Written(meant), P)
          /\ \A w \in 0 .. Len(rows) :
               P[w] <= Len(body) /\ (w = Len(rows) \/ P[w + 1] > Len(body))
                 => Whole(result, rows, w)
          /\ Len(body) = P[Len(rows)]
      BY <3>0 DEF Recovered
    <3>2. rows \in Seq(Seq(Signed)) /\ Len(rows) \in Nat /\ body \in Seq(Byte) /\ Len(body) \in Nat
      BY <2>1, FileRead, LenProperties
    <3> HIDE DEF rows
    <3>3. Len(rows) \in 0 .. Len(rows) /\ P[Len(rows)] <= Len(body)
      BY <3>1, <3>2
    <3>4. Whole(result, rows, Len(rows))
      BY <3>1, <3>3
    <3>5. result = rows
      BY <3>2, <3>4, SameRows
    <3> QED BY <2>1, <3>5 DEF rows
  <2>2. CASE meant.k # "file"
    <3>1. meant \in Packets
      BY <2>2, Kinds DEF PacketsInv
    <3>2. Understood(meant)
      BY <3>1, PacketsUnderstood
    <3>3. body = Written(meant)
      BY DEF PacketsInv
    <3>4. result = handle(body)
      BY <2>2 DEF PacketsInv
    <3> QED BY <2>2, <3>2, <3>3, <3>4 DEF Understood
  <2> QED BY <2>1, <2>2
<1> QED BY <1>1, PacketsInvariant, PTL

(***************************************************************************)
(* The handlers of play.rs on a packet that was cut: nothing is made of a  *)
(* part of a field, but for the number of a placement, OnUseItemOn's last. *)
(***************************************************************************)
THEOREM CutsNotMisread == Spec => []CutNeverMisread
<1>1. PacketsInv => CutNeverMisread
  <2> SUFFICES ASSUME PacketsInv, done, cut, meant.k # "file", NEW e \in result
               PROVE  Faithful(e, meant)
    BY DEF CutNeverMisread, Faithful
  <2>1. meant \in Packets /\ meant.k # "stray"
    BY Kinds DEF PacketsInv
  <2>2. Understood(meant)
    BY <2>1, PacketsUnderstood
  <2>3. FrontOf(body, Written(meant))
    BY <2>1, <2>2, BodyFront DEF Understood
  <2>4. result = handle(body)
    BY DEF PacketsInv
  <2> QED BY <2>2, <2>3, <2>4 DEF Understood
<1> QED BY <1>1, PacketsInvariant, PTL

(***************************************************************************)
(* World::load and load_item_to_block on a file whose writer stopped: the  *)
(* rows that are all there, in their order, and no other.                  *)
(***************************************************************************)
THEOREM FilesGiveWholeRows == Spec => []WholeRows
<1>1. PacketsInv => WholeRows
  <2> DEFINE rows == meant.rows
             whole == {n \in 0 .. Len(rows) : Len(save_rows(SubSeq(rows, 1, n))) <= Len(body)}
  <2> SUFFICES ASSUME PacketsInv, done, cut, meant.k = "file"
               PROVE  /\ IsPrefix(result, rows)
                      /\ Len(result) = CHOOSE n \in whole : \A m \in whole : m <= n
    BY Zenon DEF WholeRows
  <2>0. PICK P : Recovered(P)
    BY FileRead
  <2>1. /\ Saved(rows, meant.n, Written(meant), P)
        /\ \A w \in 0 .. Len(rows) :
             P[w] <= Len(body) /\ (w = Len(rows) \/ P[w + 1] > Len(body))
               => Whole(result, rows, w)
    BY <2>0 DEF Recovered
  <2>2. rows \in Seq(Seq(Signed)) /\ Len(rows) \in Nat /\ body \in Seq(Byte) /\ Len(body) \in Nat
    BY FileRead, LenProperties
  <2>3. whole = {n \in 0 .. Len(rows) : P[n] <= Len(body)}
    <3>1. \A n \in 0 .. Len(rows) : Len(save_rows(SubSeq(rows, 1, n))) = P[n]
      <4> HIDE DEF rows
      <4> QED BY <2>1, SavedFront
    <3> HIDE DEF rows
    <3> QED BY <3>1
  <2>4. P[0] = 0 /\ P \in [0 .. Len(rows) -> Nat]
    BY <2>1 DEF Saved
  <2> HIDE DEF rows, whole
  <2>5. PICK w \in whole : \A m \in whole : m <= w
    <3> DEFINE N == Len(rows)
               T == {k \in 0 .. N : N - k \in whole}
    <3>1. T \in SUBSET Nat /\ N \in T
      BY <2>2, <2>3, <2>4
    <3>2. PICK k \in T : \A j \in T : k <= j
      <4> HIDE DEF T, N
      <4> QED BY <3>1, LeastNatural
    <3>3. N - k \in whole /\ k \in 0 .. N
      BY <3>2
    <3>4. ASSUME NEW m \in whole PROVE m <= N - k
      <4>1. m \in 0 .. N
        BY <2>3
      <4>2. N - m \in T
        BY <2>2, <4>1
      <4>3. k <= N - m
        BY <3>2, <4>2
      <4> QED BY <2>2, <3>3, <4>1, <4>3
    <3> QED BY <3>3, <3>4
  <2>6. w \in 0 .. Len(rows) /\ P[w] <= Len(body) /\ w \in Nat
    BY <2>2, <2>3
  <2>7. w = Len(rows) \/ P[w + 1] > Len(body)
    <3> SUFFICES ASSUME w # Len(rows), ~ (P[w + 1] > Len(body)) PROVE FALSE
      OBVIOUS
    <3>1. w + 1 \in 0 .. Len(rows)
      BY <2>2, <2>6
    <3>2. P[w + 1] \in Nat
      BY <2>4, <3>1
    <3>3. w + 1 \in whole
      BY <2>2, <2>3, <3>1, <3>2
    <3> QED BY <2>5, <2>6, <3>3
  <2>8. Whole(result, rows, w)
    BY <2>1, <2>6, <2>7
  <2>9. Len(result) = w /\ result \in Seq(Seq(Int)) /\ \A i \in 1 .. w : result[i] = rows[i]
    BY <2>8 DEF Whole
  <2>10. (CHOOSE n \in whole : \A m \in whole : m <= n) = w
    <3> DEFINE best(n) == n \in whole /\ \A m \in whole : m <= n
    <3>1. best(w) /\ \A n : best(n) => n = w
      <4>1. \A n \in whole : n \in Nat
        BY <2>2, <2>3
      <4>2. ASSUME NEW n, best(n) PROVE n = w
        BY <2>5, <2>6, <4>1, <4>2
      <4> QED BY <2>5, <4>2
    <3>2. (CHOOSE n \in whole : \A m \in whole : m <= n) = CHOOSE n : best(n)
      OBVIOUS
    <3> HIDE DEF best
    <3> QED BY <3>1, <3>2
  <2>11. IsPrefix(result, rows)
    <3>1. Len(result) <= Len(rows)
      BY <2>2, <2>6, <2>9
    <3>2. SubSeq(result, 1, w) = [i \in 1 .. w |-> result[i]]
      BY <2>6, <2>9, SubSeqProperties
    <3>3. SubSeq(rows, 1, w) = [i \in 1 .. w |-> rows[i]]
      BY <2>2, <2>6, SubSeqProperties
    <3>4. SubSeq(result, 1, Len(result)) = SubSeq(rows, 1, Len(result))
      BY <2>9, <3>2, <3>3
    <3> QED BY <3>1, <3>4, Zenon DEF IsPrefix
  <2> QED BY <2>9, <2>10, <2>11 DEF rows, whole
<1> QED BY <1>1, PacketsInvariant, PTL

-----------------------------------------------------------------------------
(***************************************************************************)
(* The answers.                                                            *)
(***************************************************************************)
\* A guarded effect is the only one.
LEMMA OnlyEffect ==
  ASSUME NEW guard, NEW x, NEW e \in When(guard, x)
  PROVE  guard /\ e = x /\ When(guard, x) = {e}
BY DEF When

\* A chat line, whatever the bytes.
LEMMA ChatEffect ==
  ASSUME NEW b \in Seq(Byte), NEW p \in 0 .. Len(b), NEW e \in OnChat(b, p)
  PROVE  OnChat(b, p) = {e} /\ e.k = "chat" /\ e.text \in Seq(Byte)
<1> DEFINE text == read_string(b, p)
           size == read_varint(b, p)
           s == take(b, size.pos, size.val)
<1>1. OnChat(b, p) = When(text.ok, [k |-> "chat", text |-> text.val])
  BY Zenon DEF OnChat
<1>2. text.ok /\ e = [k |-> "chat", text |-> text.val] /\ OnChat(b, p) = {e}
  <2> HIDE DEF text
  <2> QED BY <1>1, OnlyEffect
<1>3. text = IF ~size.ok \/ size.val < 0 THEN Failed(size.pos)
             ELSE [s EXCEPT !.ok = s.ok /\ Utf8(s.val)]
  BY Zenon DEF read_string
<1>4. size.pos \in 0 .. Len(b) /\ size.val \in Int
  <2>1. Within(size, b, p)
    BY ReadVarIntWithin
  <2> HIDE DEF size
  <2>2. size.pos \in p .. Len(b) /\ size.val \in Signed
    BY <2>1 DEF Within
  <2> QED BY <2>2, IntSizes DEF Signed
<1>5. text.val \in Seq(Byte)
  <2>1. ~ (~size.ok \/ size.val < 0)
    <3> HIDE DEF size, s
    <3> QED BY <1>2, <1>3 DEF Failed
  <2>2. size.val \in Nat
    <3> HIDE DEF size
    <3> QED BY <1>4, <2>1
  <2>3. s.val \in Seq(Byte)
    <3> HIDE DEF size
    <3> QED BY <1>4, <2>2, TakeBytes
  <2>4. text = [s EXCEPT !.ok = s.ok /\ Utf8(s.val)]
    BY <1>3, <2>1
  <2>5. s = Failed(size.pos) \/ s = [ok |-> TRUE, val |-> SubSeq(b, size.pos + 1, size.pos + size.val), pos |-> size.pos + size.val]
    <3> HIDE DEF size
    <3> QED BY Zenon DEF take
  <2>6. text.val = s.val
    <3> HIDE DEF s, text, size
    <3> QED BY <2>4, <2>5 DEF Failed
  <2> QED BY <2>3, <2>6
<1> HIDE DEF text
<1> QED BY <1>2, <1>5

\* What a field of a fixed type is read as is a value of the type.
LEMMA WordField ==
  ASSUME NEW type \in FixedTypes, NEW b \in Seq(Byte), NEW pos \in 0 .. Len(b),
         read(type, b, pos).ok
  PROVE  read(type, b, pos).val \in Words(type)
<1> DEFINE t == take(b, pos, Width[type])
<1>1. Width[type] \in Nat
  BY WidthFacts
<1>2. read(type, b, pos).val = word(t.val) /\ t.ok
  BY ReadFixed
<1>3. t.val \in Seq(Byte) /\ Len(t.val) = Width[type]
  BY <1>1, <1>2, TakeBytes
<1> HIDE DEF t
<1>4. word(t.val) \in 0 .. words[Len(t.val)] - 1
  BY <1>3, WordRange
<1> QED BY <1>2, <1>3, <1>4 DEF Words

\* An action breaks one block, or nothing.
LEMMA BreakEffect ==
  ASSUME NEW b \in Seq(Byte), NEW p \in 0 .. Len(b), NEW e \in OnPlayerAction(b, p)
  PROVE  /\ OnPlayerAction(b, p) = {e} /\ e.k = "break"
         /\ e.pos \in Words("i64") /\ e.seq \in Signed
<1> DEFINE types == <<"varint", "i64", "u8", "varint">>
           g == read_all(types, b, p)
<1>1. OnPlayerAction(b, p) =
        When(AllOk(g, 1 .. 4) /\ g[1].val \in {0, 2},
             [k |-> "break", pos |-> g[2].val, seq |-> g[4].val])
  BY Zenon DEF OnPlayerAction
<1>2. "i64" \in FixedTypes /\ "u8" \in FixedTypes
  BY DEF FixedTypes
<1>3. types \in Seq(IntTypes) /\ Len(types) = 4 /\ types[2] = "i64" /\ types[4] = "varint"
  BY <1>2 DEF IntTypes
<1> HIDE DEF types
<1>4. Reads(g, types, b, p)
  BY <1>3, ReadAllRuns
<1> HIDE DEF g
<1>5. /\ AllOk(g, 1 .. 4) /\ e = [k |-> "break", pos |-> g[2].val, seq |-> g[4].val]
      /\ OnPlayerAction(b, p) = {e}
  <2> DEFINE guard == AllOk(g, 1 .. 4) /\ g[1].val \in {0, 2}
             x == [k |-> "break", pos |-> g[2].val, seq |-> g[4].val]
  <2>1. OnPlayerAction(b, p) = When(guard, x)
    BY <1>1
  <2> HIDE DEF guard, x
  <2>2. guard /\ e = x /\ When(guard, x) = {e}
    BY <2>1, OnlyEffect
  <2> QED BY <2>1, <2>2 DEF guard, x
<1>6. /\ g[2] = read("i64", b, From(g, 2, p)) /\ From(g, 2, p) \in 0 .. Len(b)
      /\ g[4] = read("varint", b, From(g, 4, p)) /\ From(g, 4, p) \in 0 .. Len(b)
  BY <1>3, <1>4 DEF Reads
<1>7. g[2].ok
  BY <1>5 DEF AllOk
<1>8. g[2].val \in Words("i64")
  BY <1>2, <1>6, <1>7, WordField
<1>9. g[4].val \in Signed
  <2> DEFINE q == From(g, 4, p)
  <2>1. g[4] = read_varint(b, q) /\ q \in 0 .. Len(b)
    BY <1>6, ReadVarIntField
  <2> HIDE DEF q
  <2>2. Within(read_varint(b, q), b, q)
    BY <2>1, ReadVarIntWithin
  <2> QED BY <2>1, <2>2 DEF Within
<1> QED BY <1>5, <1>8, <1>9

\* A placement is one, or nothing.
LEMMA PlaceEffect ==
  ASSUME NEW b \in Seq(Byte), NEW p \in 0 .. Len(b), NEW e \in OnUseItemOn(b, p)
  PROVE  OnUseItemOn(b, p) = {e} /\ e.k = "place" /\ e.seq \in Signed
<1> DEFINE types == <<"varint", "i64", "varint", "f32", "f32", "f32", "u8", "u8", "varint">>
           g == read_all(types, b, p)
<1>1. OnUseItemOn(b, p) =
        When(AllOk(g, 1 .. 3) /\ g[9].ok,
             [k |-> "place", pos |-> g[2].val, face |-> g[3].val, seq |-> g[9].val])
  BY Zenon DEF OnUseItemOn
<1>2. "i64" \in FixedTypes /\ "f32" \in FixedTypes /\ "u8" \in FixedTypes
  BY DEF FixedTypes
<1>3. types \in Seq(IntTypes) /\ Len(types) = 9 /\ types[9] = "varint"
  BY <1>2 DEF IntTypes
<1> HIDE DEF types
<1>4. Reads(g, types, b, p)
  BY <1>3, ReadAllRuns
<1> HIDE DEF g
<1>5. /\ e = [k |-> "place", pos |-> g[2].val, face |-> g[3].val, seq |-> g[9].val]
      /\ OnUseItemOn(b, p) = {e}
  BY <1>1, OnlyEffect
<1>6. g[9] = read("varint", b, From(g, 9, p)) /\ From(g, 9, p) \in 0 .. Len(b)
  BY <1>3, <1>4 DEF Reads
<1>7. g[9].val \in Signed
  <2> DEFINE q == From(g, 9, p)
  <2>1. g[9] = read_varint(b, q) /\ q \in 0 .. Len(b)
    BY <1>6, ReadVarIntField
  <2> HIDE DEF q
  <2>2. Within(read_varint(b, q), b, q)
    BY <2>1, ReadVarIntWithin
  <2> QED BY <2>1, <2>2 DEF Within
<1> QED BY <1>5, <1>7

\* What can be answered: a line, the place of a block, a sequence number.
Answerable(e) ==
  \/ e.k = "chat" /\ e.text \in Seq(Byte)
  \/ e.k = "break" /\ e.pos \in Words("i64") /\ e.seq \in Signed
  \/ e.k = "place" /\ e.seq \in Signed

\* The other effects are not answered.
Silent(e) == e.k \in {"move", "carried", "insert", "remove"}

\* Whatever the bytes, what is answered is the one effect of its packet.
LEMMA Effects ==
  ASSUME NEW b \in Seq(Byte), NEW e \in handle(b)
  PROVE  Silent(e) \/ (handle(b) = {e} /\ Answerable(e))
<1> DEFINE r == read_varint(b, 0)
<1>1. handle(b) =
        IF ~r.ok THEN {} ELSE
        CASE r.val \in {S_MOVE_POS, S_MOVE_POS_ROT}  -> OnMove(b, r.pos)
          [] r.val = S_CHAT                          -> OnChat(b, r.pos)
          [] r.val = S_PLAYER_ACTION                 -> OnPlayerAction(b, r.pos)
          [] r.val = S_USE_ITEM_ON                   -> OnUseItemOn(b, r.pos)
          [] r.val = S_SET_CARRIED_ITEM              -> OnSetCarriedItem(b, r.pos)
          [] r.val = S_SET_CREATIVE_SLOT             -> OnSetCreativeSlot(b, r.pos)
          [] OTHER                                   -> {}
  BY Zenon DEF handle
<1>2. r.pos \in 0 .. Len(b)
  <2>1. 0 \in 0 .. Len(b)
    BY LenProperties
  <2>2. Within(r, b, 0)
    BY <2>1, ReadVarIntWithin
  <2> HIDE DEF r
  <2> QED BY <2>2 DEF Within
<1> DEFINE p == r.pos
<1> HIDE DEF r
<1>3. \/ handle(b) = OnMove(b, p) \/ handle(b) = OnChat(b, p)
      \/ handle(b) = OnPlayerAction(b, p) \/ handle(b) = OnUseItemOn(b, p)
      \/ handle(b) = OnSetCarriedItem(b, p) \/ handle(b) = OnSetCreativeSlot(b, p)
  BY <1>1
<1> HIDE DEF p
<1>4. CASE handle(b) = OnMove(b, p)
  <2> DEFINE g == read_all(<<"f64", "f64", "f64">>, b, p)
  <2>1. OnMove(b, p) = When(AllOk(g, 1 .. 3), [k |-> "move", x |-> g[1].val, z |-> g[3].val])
    BY Zenon DEF OnMove
  <2> HIDE DEF g
  <2>2. e = [k |-> "move", x |-> g[1].val, z |-> g[3].val]
    BY <1>4, <2>1, OnlyEffect
  <2> QED BY <2>2 DEF Silent
<1>5. CASE handle(b) = OnSetCarriedItem(b, p)
  <2> DEFINE slot == read("u16", b, p)
  <2>1. OnSetCarriedItem(b, p) = When(slot.ok, [k |-> "carried", slot |-> slot.val])
    BY Zenon DEF OnSetCarriedItem
  <2> HIDE DEF slot
  <2>2. e = [k |-> "carried", slot |-> slot.val]
    BY <1>5, <2>1, OnlyEffect
  <2> QED BY <2>2 DEF Silent
<1>6. CASE handle(b) = OnSetCreativeSlot(b, p)
  <2> DEFINE g == read_all(<<"u16", "varint", "varint">>, b, p)
             x == [k |-> "insert", slot |-> g[1].val, item |-> g[3].val]
             y == [k |-> "remove", slot |-> g[1].val]
  <2>1. OnSetCreativeSlot(b, p) = When(AllOk(g, 1 .. 3) /\ g[2].val > 0, x)
                                    \cup When(AllOk(g, 1 .. 2) /\ g[2].val <= 0, y)
    BY Zenon DEF OnSetCreativeSlot
  <2>2. x.k = "insert" /\ y.k = "remove"
    OBVIOUS
  <2> HIDE DEF g, x, y
  <2>3. e = x \/ e = y
    BY <1>6, <2>1 DEF When
  <2> QED BY <2>2, <2>3 DEF Silent
<1>7. CASE handle(b) = OnChat(b, p)
  BY <1>2, <1>7, ChatEffect DEF p, Answerable
<1>8. CASE handle(b) = OnPlayerAction(b, p)
  BY <1>2, <1>8, BreakEffect DEF p, Answerable
<1>9. CASE handle(b) = OnUseItemOn(b, p)
  BY <1>2, <1>9, PlaceEffect DEF p, Answerable
<1> QED BY <1>3, <1>4, <1>5, <1>6, <1>7, <1>8, <1>9

\* The reader that an answer's id leads to.
LEMMA Hears ==
  ASSUME NEW b, NEW id, NEW p, read_varint(b, 0) = [ok |-> TRUE, val |-> id, pos |-> p]
  PROVE  /\ id = P_SYSTEM_CHAT =>
              client_hears(b) =
                LET line == client_text(b, p)
                    flag == read("bool", b, line.pos)
                IN  When(line.ok /\ flag.ok /\ flag.pos = Len(b), [line |-> line.val])
         /\ id = P_BLOCK_UPDATE =>
              client_hears(b) =
                LET g == read_all(<<"i64", "varint">>, b, p)
                IN  When(AllOk(g, 1 .. 2) /\ g[2].pos = Len(b),
                         [pos |-> g[1].val, state |-> g[2].val])
         /\ id = P_BLOCK_CHANGED_ACK =>
              client_hears(b) =
                LET seq == read_varint(b, p)
                IN  When(seq.ok /\ seq.pos = Len(b), [seq |-> seq.val])
<1> DEFINE r == read_varint(b, 0)
           line(q) == client_text(b, q)
           flag(q) == read("bool", b, line(q).pos)
           g(q) == read_all(<<"i64", "varint">>, b, q)
           seq(q) == read_varint(b, q)
           heard(q) == When(line(q).ok /\ flag(q).ok /\ flag(q).pos = Len(b), [line |-> line(q).val])
           update(q) == When(AllOk(g(q), 1 .. 2) /\ g(q)[2].pos = Len(b),
                             [pos |-> g(q)[1].val, state |-> g(q)[2].val])
           ack(q) == When(seq(q).ok /\ seq(q).pos = Len(b), [seq |-> seq(q).val])
<1>1. r.val = id /\ r.pos = p
  OBVIOUS
<1>2. client_hears(b) = CASE r.val = P_SYSTEM_CHAT -> heard(r.pos)
                          [] r.val = P_BLOCK_UPDATE -> update(r.pos)
                          [] r.val = P_BLOCK_CHANGED_ACK -> ack(r.pos)
  BY Zenon DEF client_hears
<1>3. /\ id = P_SYSTEM_CHAT => client_hears(b) = heard(p)
      /\ id = P_BLOCK_UPDATE => client_hears(b) = update(p)
      /\ id = P_BLOCK_CHANGED_ACK => client_hears(b) = ack(p)
  <2> HIDE DEF r, heard, update, ack
  <2> QED BY <1>1, <1>2 DEF P_SYSTEM_CHAT, P_BLOCK_UPDATE, P_BLOCK_CHANGED_ACK
<1> QED BY <1>3, Zenon

\* An acknowledgement.
LEMMA AckHeard ==
  ASSUME NEW seq \in Signed
  PROVE  client_hears(send_block_ack(seq)) = {[seq |-> seq]}
<1> DEFINE fields == <<<<"varint", P_BLOCK_CHANGED_ACK>>, <<"varint", seq>>>>
           types == <<"varint">>
           z == write_all(fields)
<1>1. send_block_ack(seq) = z
  BY Zenon DEF send_block_ack
<1>2. P_BLOCK_CHANGED_ACK \in Signed
  BY SmallInts DEF P_BLOCK_CHANGED_ACK
<1>3. Len(fields) = 2 /\ fields[1] = <<"varint", P_BLOCK_CHANGED_ACK>> /\ fields[2] = <<"varint", seq>>
  OBVIOUS
<1>4. types \in Seq(IntTypes) /\ Len(types) = 1 /\ types[1] = "varint"
  BY DEF IntTypes
<1> HIDE DEF fields, types
<1>5. \A i \in 1 .. 1 : Fits(types[i], fields[i + 1][2]) /\ types[i] = fields[i + 1][1]
  BY <1>3, <1>4 DEF Fits
<1>6. \A i \in 1 .. Len(fields) : Sendable(fields[i][1], fields[i][2])
  BY <1>2, <1>3 DEF Sendable
<1>7. Agrees(fields, P_BLOCK_CHANGED_ACK, types, 1)
  BY <1>2, <1>3, <1>4, <1>5, <1>6 DEF Agrees
<1>8. Sends(fields, P_BLOCK_CHANGED_ACK, types, 1)
  BY <1>7, AgreesSends
<1>9. z \in Seq(Byte)
  BY <1>8, SentRead
<1>10. PICK p \in 0 .. Len(z) :
         /\ read_varint(z, 0) = [ok |-> TRUE, val |-> P_BLOCK_CHANGED_ACK, pos |-> p]
         /\ Took(read_all(types, z, p), fields, 1)
         /\ Exhausts(read_all(types, z, p), fields, 1, z)
  BY <1>8, SentRead
<1> HIDE DEF z
<1> DEFINE g == read_all(types, z, p)
           r == read_varint(z, p)
<1>11. g[1] = r
  <2>1. Reads(g, types, z, p)
    BY <1>4, <1>9, ReadAllRuns
  <2> HIDE DEF g
  <2>2. g[1] = read("varint", z, p)
    BY <1>4, <2>1 DEF Reads, From
  <2> QED BY <2>2, ReadVarIntField
<1>12. r.ok /\ r.val = seq /\ r.pos = Len(z)
  <2> HIDE DEF g, r
  <2> QED BY <1>3, <1>10, <1>11 DEF Took, Exhausts, g
<1>13. client_hears(z) = When(r.ok /\ r.pos = Len(z), [seq |-> r.val])
  BY <1>10, Hears, Zenon
<1> HIDE DEF r
<1> QED BY <1>1, <1>12, <1>13 DEF When

\* A broken block is announced as air.
LEMMA UpdateHeard ==
  ASSUME NEW pos \in Words("i64")
  PROVE  client_hears(send_block_update(pos, STATE_AIR)) = {[pos |-> pos, state |-> STATE_AIR]}
<1> DEFINE fields == <<<<"varint", P_BLOCK_UPDATE>>, <<"i64", pos>>, <<"varint", STATE_AIR>>>>
           types == <<"i64", "varint">>
           z == write_all(fields)
<1>1. send_block_update(pos, STATE_AIR) = z
  BY Zenon DEF send_block_update
<1>2. P_BLOCK_UPDATE \in Signed /\ STATE_AIR \in Signed
  BY SmallInts DEF P_BLOCK_UPDATE, STATE_AIR
<1>3. /\ Len(fields) = 3 /\ fields[1] = <<"varint", P_BLOCK_UPDATE>>
      /\ fields[2] = <<"i64", pos>> /\ fields[3] = <<"varint", STATE_AIR>>
  OBVIOUS
<1>4. "i64" \in FixedTypes
  BY DEF FixedTypes
<1>5. /\ types \in Seq(IntTypes) /\ Len(types) = 2 /\ types[1] = "i64" /\ types[2] = "varint"
      /\ types = <<"i64", "varint">>
  BY <1>4 DEF IntTypes
<1>6. pos \in Nat
  BY <1>4, WordValues
<1> HIDE DEF fields, types
<1>7. \A i \in 1 .. 2 : Fits(types[i], fields[i + 1][2]) /\ types[i] = fields[i + 1][1]
  BY <1>2, <1>3, <1>4, <1>5 DEF Fits
<1>8. \A i \in 1 .. Len(fields) : Sendable(fields[i][1], fields[i][2])
  BY <1>2, <1>3, <1>4, <1>6 DEF Sendable
<1>9. Agrees(fields, P_BLOCK_UPDATE, types, 2)
  BY <1>2, <1>3, <1>5, <1>7, <1>8 DEF Agrees
<1>10. Sends(fields, P_BLOCK_UPDATE, types, 2)
  BY <1>9, AgreesSends
<1>11. PICK p \in 0 .. Len(z) :
         /\ read_varint(z, 0) = [ok |-> TRUE, val |-> P_BLOCK_UPDATE, pos |-> p]
         /\ Took(read_all(types, z, p), fields, 2)
         /\ Exhausts(read_all(types, z, p), fields, 2, z)
  BY <1>10, SentRead
<1> HIDE DEF z
<1> DEFINE g == read_all(types, z, p)
<1>12. AllOk(g, 1 .. 2) /\ g[1].val = pos /\ g[2].val = STATE_AIR /\ g[2].pos = Len(z)
  <2> HIDE DEF g
  <2> QED BY <1>3, <1>11 DEF Took, Exhausts, AllOk, g
<1>13. client_hears(z) = When(AllOk(g, 1 .. 2) /\ g[2].pos = Len(z),
                              [pos |-> g[1].val, state |-> g[2].val])
  <2>1. client_hears(z) =
          LET h == read_all(<<"i64", "varint">>, z, p)
          IN  When(AllOk(h, 1 .. 2) /\ h[2].pos = Len(z), [pos |-> h[1].val, state |-> h[2].val])
    BY <1>11, Hears, Zenon
  <2> QED BY <1>5, <2>1, Zenon
<1> HIDE DEF g
<1> QED BY <1>1, <1>12, <1>13 DEF When

\* What NBT can say, of what write_string writes.
Sayable(line) == Len(line) < words[Width["u16"]] /\ ModifiedUtf8(line)

\* A string that NBT can say is read back, to its end; of another one less is
\* read, if anything.
LEMMA TextBack ==
  ASSUME NEW line \in Seq(Byte), NEW b \in Seq(Byte), NEW pos \in 0 .. Len(b),
         At(b, pos, write_network_string(line))
  PROVE  LET t == client_text(b, pos)
             n == Len(write_network_string(line))
         IN  /\ n \in Nat
             /\ Sayable(line) => t = [ok |-> TRUE, val |-> [string |-> line], pos |-> pos + n]
             /\ ~Sayable(line) => ~t.ok \/ t.pos \in pos .. pos + n - 1
<1> DEFINE w == Width["u16"]
           head == <<TagId["String"]>>
           size == be(Len(line), w)
           y == size \o line
           x == head \o y
           q == pos + 1 + w
<1>1. write_network_string(line) = x
  BY Zenon DEF write_network_string, write_string
<1>2. w \in Nat \ {0}
  <2>1. "u16" \in FixedTypes
    BY DEF FixedTypes
  <2> QED BY <2>1, WidthFacts
<1>3. head \in Seq(Byte) /\ Len(head) = 1
  <2>1. TagId["String"] \in Byte
    BY TagsAssumption DEF TagId
  <2> QED BY <2>1
<1>4. Len(line) \in Nat /\ Len(b) \in Nat /\ pos \in Nat
  BY LenProperties
<1>5. size \in Seq(Byte) /\ Len(size) = w
  BY <1>2, <1>4, BeBytes
<1> HIDE DEF head, size, w
<1>6. y \in Seq(Byte) /\ Len(y) = w + Len(line)
  BY <1>5, ConcatProperties
<1>7. At(b, pos, head) /\ At(b, pos + 1, y)
  <2>1. x = head \o y /\ At(b, pos, x)
    BY <1>1
  <2> HIDE DEF x, y
  <2> QED BY <1>3, <1>4, <1>6, <2>1, AtBoth
<1>8. At(b, pos + 1, size) /\ At(b, q, line)
  <2>1. y = size \o line /\ pos + 1 \in Nat
    BY <1>4
  <2> HIDE DEF y
  <2> QED BY <1>5, <1>7, <2>1, AtBoth
<1>9. Len(x) = 1 + w + Len(line)
  <2>1. Len(x) = Len(head) + Len(y)
    <3> HIDE DEF y
    <3> QED BY <1>3, <1>6, ConcatProperties
  <2> HIDE DEF x, y
  <2> QED BY <1>2, <1>3, <1>4, <1>6, <2>1
<1> HIDE DEF x, y
<1>10. /\ q + Len(line) <= Len(b) /\ q \in 0 .. Len(b) /\ pos + 1 \in 0 .. Len(b)
       /\ pos + Len(x) = q + Len(line) /\ q \in Nat /\ pos < q /\ pos \in Nat
  <2>1. q + Len(line) <= Len(b)
    BY <1>8 DEF At
  <2> QED BY <1>2, <1>4, <1>9, <2>1
<1> HIDE DEF q
<1> DEFINE tag == take(b, pos, 1)
           sz == take(b, pos + 1, w)
           s == take(b, q, word(sz.val))
           t == client_text(b, pos)
<1>11. tag = [ok |-> TRUE, val |-> head, pos |-> pos + 1]
  BY <1>3, <1>7, TakeIs
<1>12. sz = [ok |-> TRUE, val |-> size, pos |-> q]
  <2>1. take(b, pos + 1, Len(size)) = [ok |-> TRUE, val |-> size, pos |-> (pos + 1) + Len(size)]
    BY <1>5, <1>8, <1>10, TakeIs
  <2>2. (pos + 1) + w = q
    BY DEF q
  <2> QED BY <1>5, <2>1, <2>2
<1>13. t = IF s.ok /\ ModifiedUtf8(s.val) THEN [s EXCEPT !.val = [string |-> @]]
           ELSE Failed(pos + 1)
  <2>1. t = IF tag.val = <<TagId["String"]>> THEN client_string(b, tag.pos) ELSE Failed(pos)
    BY Zenon DEF client_text
  <2>2. t = client_string(b, pos + 1)
    <3>1. tag.val = head /\ tag.pos = pos + 1 /\ head = <<TagId["String"]>>
      BY <1>11 DEF head
    <3> HIDE DEF tag
    <3> QED BY <2>1, <3>1, Zenon
  <2>3. client_string(b, pos + 1) =
          LET u == take(b, sz.pos, word(sz.val))
          IN  IF sz.ok /\ u.ok /\ ModifiedUtf8(u.val)
              THEN [u EXCEPT !.val = [string |-> @]] ELSE Failed(pos + 1)
    BY Zenon DEF client_string, w
  <2>4. sz.ok = TRUE /\ sz.pos = q
    BY <1>12
  <2> HIDE DEF sz
  <2> QED BY <2>2, <2>3, <2>4, Zenon
<1> DEFINE r == word(size)
<1>14. s = take(b, q, r)
  BY <1>12
<1>15. r \in 0 .. words[w] - 1 /\ words[w] \in Nat
  <2>1. word(size) \in 0 .. words[Len(size)] - 1
    BY <1>5, WordRange
  <2> QED BY <1>2, <1>5, <2>1, WordsDef
<1> HIDE DEF r, s, t, tag, sz
<1>16. Sayable(line) <=> Len(line) < words[w] /\ ModifiedUtf8(line)
  BY DEF Sayable, w
<1>17. CASE Len(line) < words[w]
  <2>1. r = Len(line)
    <3>1. Len(line) \in 0 .. words[w] - 1 /\ w \in Nat
      BY <1>2, <1>4, <1>15, <1>17
    <3> QED BY <3>1, WordRoundTrip DEF r, size
  <2>2. s = [ok |-> TRUE, val |-> line, pos |-> q + Len(line)]
    BY <1>8, <1>10, <1>14, <2>1, TakeIs
  <2>3. CASE ModifiedUtf8(line)
    <3>1. t = [s EXCEPT !.val = [string |-> @]]
      BY <1>13, <2>2, <2>3
    <3>2. t = [ok |-> TRUE, val |-> [string |-> line], pos |-> q + Len(line)]
      BY <2>2, <3>1
    <3>3. t = [ok |-> TRUE, val |-> [string |-> line], pos |-> pos + Len(x)]
      BY <1>10, <3>2
    <3>4. Len(x) \in Nat /\ Sayable(line)
      BY <1>2, <1>4, <1>9, <1>16, <1>17, <2>3
    <3> QED BY <1>1, <3>3, <3>4, Zenon DEF t
  <2>4. CASE ~ModifiedUtf8(line)
    <3>1. t = Failed(pos + 1)
      BY <1>13, <2>2, <2>4
    <3>2. ~t.ok
      BY <3>1 DEF Failed
    <3> QED BY <1>1, <1>9, <1>16, <2>4, <3>2, <1>2, <1>4 DEF t
  <2> QED BY <2>3, <2>4
<1>18. CASE ~ (Len(line) < words[w])
  <2>1. r \in Nat /\ r < Len(line)
    BY <1>4, <1>15, <1>18
  <2>2. s.ok => s.pos = q + r
    BY <1>10, <1>14, <2>1, TakeBytes
  <2>3. CASE t = Failed(pos + 1)
    <3>1. ~t.ok
      BY <2>3 DEF Failed
    <3> QED BY <1>1, <1>9, <1>16, <1>18, <3>1, <1>2, <1>4 DEF t
  <2>4. CASE s.ok /\ t = [s EXCEPT !.val = [string |-> @]]
    <3>1. s = [ok |-> s.ok, val |-> s.val, pos |-> s.pos]
      <4>1. s = Failed(q) \/ s = [ok |-> TRUE, val |-> SubSeq(b, q + 1, q + r), pos |-> q + r]
        BY <1>14, Zenon DEF take
      <4> QED BY <4>1 DEF Failed
    <3>2. t.pos = s.pos
      BY <2>4, <3>1
    <3>3. t.pos \in pos .. pos + Len(x) - 1
      BY <1>4, <1>9, <1>10, <2>1, <2>2, <2>4, <3>2
    <3> QED BY <1>1, <1>9, <1>16, <1>18, <3>3, <1>2, <1>4 DEF t
  <2> QED BY <1>13, <2>3, <2>4
<1> QED BY <1>17, <1>18

\* A line of chat.
LEMMA LineHeard ==
  ASSUME NEW line \in Seq(Byte)
  PROVE  client_hears(send_system_chat(line)) = When(Sayable(line), [line |-> [string |-> line]])
<1> DEFINE x == write_network_string(line)
           fields == <<<<"varint", P_SYSTEM_CHAT>>, <<"bytes", x>>, <<"bool", 0>>>>
           f == write("bool", 0)
           z == write_all(fields)
           s == [i \in 1 .. Len(fields) |-> Piece(fields, i)]
<1>1. send_system_chat(line) = z
  BY Zenon DEF send_system_chat
<1>2. /\ Len(fields) = 3 /\ Piece(fields, 1) = write("varint", P_SYSTEM_CHAT)
      /\ Piece(fields, 2) = write("bytes", x) /\ Piece(fields, 3) = f
  BY DEF Piece
<1>3. P_SYSTEM_CHAT \in Signed /\ "bool" \in FixedTypes /\ 0 \in Words("bool")
  <2>1. "bool" \in FixedTypes
    BY DEF FixedTypes
  <2> QED BY <2>1, SmallInts, WordValues DEF P_SYSTEM_CHAT
<1>4. write("varint", P_SYSTEM_CHAT) \in Seq(Byte) /\ f \in Seq(Byte)
  <2>1. Sendable("varint", P_SYSTEM_CHAT) /\ Sendable("bool", 0)
    BY <1>3 DEF Sendable
  <2> QED BY <2>1, WriteType
<1>5. x \in Seq(Byte)
  <2> DEFINE head == <<TagId["String"]>>
             size == be(Len(line), Width["u16"])
  <2>1. x = head \o (size \o line)
    BY Zenon DEF write_network_string, write_string
  <2>2. head \in Seq(Byte)
    <3>1. TagId["String"] \in Byte
      BY TagsAssumption DEF TagId
    <3> QED BY <3>1
  <2>3. size \in Seq(Byte)
    <3>1. "u16" \in FixedTypes /\ Len(line) \in Nat
      BY LenProperties DEF FixedTypes
    <3>2. Width["u16"] \in Nat
      BY <3>1, WidthFacts
    <3> QED BY <3>1, <3>2, BeBytes
  <2> HIDE DEF head, size, x
  <2> QED BY <2>1, <2>2, <2>3, ConcatProperties
<1>6. write("varint", P_SYSTEM_CHAT) = write_varint(P_SYSTEM_CHAT) /\ write("bytes", x) = x
  <2>1. /\ "varint" \notin FixedTypes /\ "varint" # "string" /\ "varint" # "bytes"
        /\ "bytes" \notin FixedTypes /\ "bytes" # "string"
    BY DEF FixedTypes
  <2> HIDE DEF x
  <2> QED BY <2>1, Zenon DEF write
<1> HIDE DEF x, f, fields
<1>7. \A i \in 1 .. 3 : Piece(fields, i) \in Seq(Byte)
  BY <1>2, <1>4, <1>5, <1>6
<1>8. \E P : Joined(s, z, P)
  <2>1. Len(fields) \in Nat /\ \A i \in 1 .. Len(fields) : Piece(fields, i) \in Seq(Byte)
    BY <1>2, <1>7
  <2> QED BY <2>1, WriteAllJoins
<1> HIDE DEF z
<1>9. PICK P : Joined(s, z, P)
  BY <1>8
<1>10. Len(s) = 3 /\ s[1] = write_varint(P_SYSTEM_CHAT) /\ s[2] = x /\ s[3] = f
  BY <1>2, <1>6
<1>11. s[1] \in Seq(Byte) /\ s[2] \in Seq(Byte) /\ s[3] \in Seq(Byte)
  BY <1>2, <1>7
<1> HIDE DEF s
<1>12. /\ z \in Seq(Byte) /\ P[0] = 0 /\ P[1] \in Nat /\ P[2] \in Nat /\ P[3] \in Nat
       /\ P[1] = P[0] + Len(s[1]) /\ At(z, P[0], s[1])
       /\ P[2] = P[1] + Len(x) /\ At(z, P[1], x)
       /\ P[3] = P[2] + Len(f) /\ At(z, P[2], f) /\ P[3] = Len(z)
  <2>1. z \in Seq(Byte) /\ P[0] = 0 /\ P \in [0 .. 3 -> Nat] /\ P[3] = Len(z)
    BY <1>9, <1>10 DEF Joined
  <2>2. /\ 1 \in 1 .. Len(s) /\ 2 \in 1 .. Len(s) /\ 3 \in 1 .. Len(s)
        /\ 1 - 1 = 0 /\ 2 - 1 = 1 /\ 3 - 1 = 2
        /\ 1 \in 0 .. 3 /\ 2 \in 0 .. 3 /\ 3 \in 0 .. 3
    BY <1>10
  <2>3. /\ P[1] = P[0] + Len(s[1]) /\ At(z, P[0], s[1])
        /\ P[2] = P[1] + Len(s[2]) /\ At(z, P[1], s[2])
        /\ P[3] = P[2] + Len(s[3]) /\ At(z, P[2], s[3])
    BY <1>9, <2>2 DEF Joined
  <2> QED BY <1>10, <2>1, <2>2, <2>3
<1> DEFINE p == P[1]
           q == P[2]
           e == P[3]
<1>13. /\ p \in 0 .. Len(z) /\ q \in 0 .. Len(z) /\ 0 \in 0 .. Len(z) /\ e = Len(z) /\ e \in Nat
       /\ Len(x) \in Nat /\ Len(f) \in Nat /\ q = p + Len(x) /\ e = q + Len(f)
  <2>1. Len(x) \in Nat /\ Len(f) \in Nat
    BY <1>4, <1>5, LenProperties
  <2>2. /\ p \in Nat /\ q \in Nat /\ e \in Nat /\ e = Len(z)
        /\ q = p + Len(x) /\ e = q + Len(f)
    BY <1>12
  <2> HIDE DEF p, q, e
  <2> QED BY <2>1, <2>2
<1>14. read_varint(z, 0) = [ok |-> TRUE, val |-> P_SYSTEM_CHAT, pos |-> p]
  <2>1. At(z, 0, write_varint(P_SYSTEM_CHAT)) /\ p = 0 + Len(write_varint(P_SYSTEM_CHAT))
    BY <1>10, <1>12
  <2> QED BY <1>3, <1>12, <1>13, <2>1, VarIntBack
<1> DEFINE t == client_text(z, p)
           flag == read("bool", z, t.pos)
<1>15. client_hears(z) = When(t.ok /\ flag.ok /\ flag.pos = Len(z), [line |-> t.val])
  BY <1>14, Hears, Zenon
<1>16. /\ Sayable(line) => t = [ok |-> TRUE, val |-> [string |-> line], pos |-> p + Len(x)]
       /\ ~Sayable(line) => ~t.ok \/ t.pos \in p .. p + Len(x) - 1
  BY <1>12, <1>13, TextBack DEF x
<1> HIDE DEF t
<1>17. CASE Sayable(line)
  <2>1. t.ok = TRUE /\ t.val = [string |-> line] /\ t.pos = q
    BY <1>13, <1>16, <1>17
  <2>2. read("bool", z, q) = [ok |-> TRUE, val |-> 0, pos |-> q + Len(f)]
    <3>1. "bool" \in IntTypes /\ Fits("bool", 0) /\ At(z, q, write("bool", 0))
      BY <1>3, <1>12 DEF IntTypes, Fits, f
    <3> QED BY <1>12, <1>13, <3>1, FieldBack DEF f
  <2>3. flag.ok /\ flag.pos = Len(z)
    BY <1>13, <2>1, <2>2
  <2> HIDE DEF flag
  <2> QED BY <1>1, <1>15, <1>17, <2>1, <2>3 DEF When
<1>18. CASE ~Sayable(line)
  <2>1. ~ (t.ok /\ flag.ok /\ flag.pos = Len(z))
    <3> SUFFICES ASSUME t.ok, flag.ok, flag.pos = Len(z) PROVE FALSE
      OBVIOUS
    <3>1. t.pos \in p .. p + Len(x) - 1
      BY <1>16, <1>18
    <3>2. t.pos \in 0 .. Len(z) /\ t.pos < q
      <4> HIDE DEF p, q, e
      <4> QED BY <1>13, <3>1
    <3>3. Width["bool"] \in Nat /\ Len(f) = Width["bool"]
      <4>1. Width["bool"] \in Nat
        BY <1>3, WidthFacts
      <4>2. f = be(0, Width["bool"])
        <5>1. "bool" # "varint" /\ "bool" # "string" /\ "bool" # "bytes"
          OBVIOUS
        <5> QED BY <1>3, <5>1, Zenon DEF write, f
      <4> QED BY <4>1, <4>2, BeBytes
    <3>4. flag.pos = t.pos + Width["bool"]
      <4>1. /\ flag.ok = take(z, t.pos, Width["bool"]).ok
            /\ flag.pos = take(z, t.pos, Width["bool"]).pos
        BY <1>3, ReadFixed
      <4> HIDE DEF flag
      <4> QED BY <1>12, <3>2, <3>3, <4>1, TakeBytes
    <3> HIDE DEF flag, p, q, e
    <3> QED BY <1>13, <3>2, <3>3, <3>4
  <2> HIDE DEF flag
  <2> QED BY <1>1, <1>15, <1>18, <2>1 DEF When
<1> QED BY <1>17, <1>18

\* What the handlers write about an effect is heard as it was meant.
Heard(e, out) ==
  LET heard == [i \in DOMAIN out |-> client_hears(out[i])]
  IN  /\ e.k = "chat" =>
           heard = <<When(Sayable(Prefix \o e.text), [line |-> [string |-> Prefix \o e.text]])>>
      /\ e.k = "break" => heard = <<{[pos |-> e.pos, state |-> STATE_AIR]}, {[seq |-> e.seq]}>>
      /\ e.k = "place" => heard = <<{[seq |-> e.seq]}>>

\* So it is for each effect.
LEMMA AnswerHeard ==
  ASSUME NEW e, Answerable(e)
  PROVE  Heard(e, answer(e))
<1> DEFINE out == answer(e)
           heard == [i \in DOMAIN out |-> client_hears(out[i])]
<1>1. CASE e.k = "chat" /\ e.text \in Seq(Byte)
  <2> DEFINE line == Prefix \o e.text
             x == send_system_chat(line)
             y == When(Sayable(line), [line |-> [string |-> line]])
  <2>1. out = <<x>>
    BY <1>1, Zenon DEF answer
  <2>2. line \in Seq(Byte)
    BY <1>1, PrefixAssumption, ConcatProperties
  <2>3. client_hears(x) = y
    <3> HIDE DEF line
    <3> QED BY <2>2, LineHeard
  <2> HIDE DEF x, y
  <2>4. heard = <<y>>
    BY <2>1, <2>3
  <2>5. e.k # "break" /\ e.k # "place"
    BY <1>1
  <2> HIDE DEF heard
  <2> QED BY <2>4, <2>5, Zenon DEF Heard, y, heard
<1>2. CASE e.k = "break" /\ e.pos \in Words("i64") /\ e.seq \in Signed
  <2> DEFINE x == send_block_update(e.pos, STATE_AIR)
             a == send_block_ack(e.seq)
             y == {[pos |-> e.pos, state |-> STATE_AIR]}
             c == {[seq |-> e.seq]}
  <2>1. out = <<x, a>>
    <3>1. e.k # "chat"
      BY <1>2
    <3> QED BY <1>2, <3>1, Zenon DEF answer
  <2>2. client_hears(x) = y /\ client_hears(a) = c
    BY <1>2, UpdateHeard, AckHeard
  <2> HIDE DEF x, a, y, c
  <2>3. heard = <<y, c>>
    BY <2>1, <2>2
  <2>4. e.k # "chat" /\ e.k # "place"
    BY <1>2
  <2> HIDE DEF heard
  <2> QED BY <2>3, <2>4, Zenon DEF Heard, y, c, heard
<1>3. CASE e.k = "place" /\ e.seq \in Signed
  <2> DEFINE a == send_block_ack(e.seq)
             c == {[seq |-> e.seq]}
  <2>1. out = <<a>>
    <3>1. e.k # "chat" /\ e.k # "break"
      BY <1>3
    <3> QED BY <1>3, <3>1, Zenon DEF answer
  <2>2. client_hears(a) = c
    BY <1>3, AckHeard
  <2> HIDE DEF a, c
  <2>3. heard = <<c>>
    BY <2>1, <2>2
  <2>4. e.k # "chat" /\ e.k # "break"
    BY <1>3
  <2> HIDE DEF heard
  <2> QED BY <2>3, <2>4, Zenon DEF Heard, c, heard
<1> QED BY <1>1, <1>2, <1>3 DEF Answerable

(***************************************************************************)
(* The answers of play.rs to whatever bytes it handles: the client decodes *)
(* the chat line, if NBT can say it, the update of a broken block and the  *)
(* acknowledgement, each body to its last byte.                            *)
(***************************************************************************)
THEOREM RepliesHeard == Spec => []ChatEchoed
<1>1. PacketsInv => ChatEchoed
  <2> SUFFICES ASSUME PacketsInv, done, ~cut, meant.k # "file", NEW e \in result
               PROVE  Heard(e, reply)
    BY Zenon DEF ChatEchoed, Heard, Sayable
  <2>1. body \in Seq(Byte)
    <3>1. CASE meant.k = "stray"
      BY <3>1, StraysAssumption DEF PacketsInv
    <3>2. CASE meant.k # "stray"
      <4>1. meant \in Packets
        BY <3>2, Kinds DEF PacketsInv
      <4>2. Written(meant) \in Seq(Byte)
        BY <4>1, PacketsUnderstood DEF Understood
      <4>3. body = Written(meant)
        BY <3>2 DEF PacketsInv
      <4> QED BY <4>2, <4>3
    <3> QED BY <3>1, <3>2
  <2>2. result = handle(body) /\ reply = Answered(result)
    BY DEF PacketsInv
  <2>3. CASE Silent(e)
    <3>1. e.k # "chat" /\ e.k # "break" /\ e.k # "place"
      BY <2>3 DEF Silent
    <3> QED BY <3>1, Zenon DEF Heard
  <2>4. CASE handle(body) = {e} /\ Answerable(e)
    <3>1. reply = answer(e)
      <4>1. result # {} /\ (CHOOSE x \in result : TRUE) = e
        BY <2>2, <2>4
      <4> QED BY <2>2, <4>1, Zenon DEF Answered
    <3> QED BY <2>4, <3>1, AnswerHeard
  <2> QED BY <2>1, <2>2, <2>3, <2>4, Effects
<1> QED BY <1>1, PacketsInvariant, PTL
=============================================================================
