---------------------------- MODULE BlockViewsProofs ----------------------------
(***************************************************************************)
(* What is proved about Position, ChunkEncoding and BlockViews for every   *)
(* value of the constants.                                                 *)
(***************************************************************************)
EXTENDS BlockViews, FieldFacts

-----------------------------------------------------------------------------
(***************************************************************************)
(* Position.  Every proof puts a number in the form that DivModUnique and  *)
(* QuotientBelow ask for.                                                  *)
(***************************************************************************)

\* What the provers need to be told of half of a symbolic even number.
LEMMA HalfOfEven ==
  ASSUME NEW n \in Nat \ {0}, n % 2 = 0
  PROVE  n \div 2 \in Nat /\ n = 2 * (n \div 2) /\ n \div 2 >= 1
  OBVIOUS

\* The two's complement of a number that fits its field extends to it.
LEMMA SignExtendInverse ==
  ASSUME NEW n \in Nat \ {0}, n % 2 = 0,
         NEW v \in -(n \div 2) .. n \div 2 - 1
  PROVE  sign_extend(v % n, n) = v
<1> DEFINE h == n \div 2
<1>1. h \in Nat /\ n = 2 * h /\ v \in Int /\ -h <= v /\ v < h
  BY HalfOfEven
<1> HIDE DEF h
<1>2. CASE v >= 0
  <2>1. (0 * n + v) % n = v
    BY <1>1, <1>2, DivModUnique
  <2>2. v % n = v
    BY <1>1, <2>1
  <2> QED BY <1>1, <1>2, <2>2 DEF sign_extend, h
<1>3. CASE v < 0
  <2>1. ((-1) * n + (v + n)) % n = v + n
    <3>1. v + n \in 0 .. n - 1 BY <1>1, <1>3
    <3> QED BY <3>1, DivModUnique
  <2>2. v % n = v + n
    BY <1>1, <2>1
  <2> QED BY <1>1, <1>3, <2>2 DEF sign_extend, h
<1> QED BY <1>1, <1>2, <1>3

\* Every content of a field is that of the number it extends to.
LEMMA SignExtendField ==
  ASSUME NEW n \in Nat \ {0}, n % 2 = 0, NEW f \in 0 .. n - 1
  PROVE  /\ sign_extend(f, n) \in -(n \div 2) .. n \div 2 - 1
         /\ sign_extend(f, n) % n = f
<1> DEFINE h == n \div 2
<1>1. h \in Nat /\ n = 2 * h
  BY HalfOfEven
<1> HIDE DEF h
<1>2. CASE f < h
  <2>1. (0 * n + f) % n = f
    BY DivModUnique
  <2> QED BY <1>1, <1>2, <2>1 DEF sign_extend, h
<1>3. CASE f >= h
  <2>1. f - n = (-1) * n + f
    OBVIOUS
  <2>2. (f - n) % n = f
    BY <2>1, DivModUnique
  <2>3. sign_extend(f, n) = f - n
    BY <1>1, <1>3 DEF sign_extend, h
  <2>4. f - n \in -h .. h - 1
    BY <1>1, <1>3
  <2> QED BY <2>2, <2>3, <2>4 DEF h
<1> QED BY <1>1, <1>2, <1>3

\* The fields of a word put together from them.
LEMMA Fields ==
  ASSUME NEW a \in 0 .. XZ_VALUES - 1, NEW b \in 0 .. XZ_VALUES - 1,
         NEW c \in 0 .. Y_VALUES - 1
  PROVE  LET w == (a * XZ_VALUES + b) * Y_VALUES + c
         IN  /\ w \in Packed
             /\ w \div (XZ_VALUES * Y_VALUES) = a
             /\ (w \div Y_VALUES) % XZ_VALUES = b
             /\ w % Y_VALUES = c
<1> DEFINE w == (a * XZ_VALUES + b) * Y_VALUES + c
           n == XZ_VALUES * Y_VALUES
           r == b * Y_VALUES + c
<1>1. XZ_VALUES \in Nat \ {0} /\ Y_VALUES \in Nat \ {0}
  BY FieldsAssumption
<1>2. /\ w \div Y_VALUES = a * XZ_VALUES + b
      /\ w % Y_VALUES = c
  <2>1. a * XZ_VALUES + b \in Int BY <1>1
  <2> QED BY <1>1, <2>1, DivModUnique
<1>3. (a * XZ_VALUES + b) % XZ_VALUES = b
  BY <1>1, DivModUnique
<1>4. r \in 0 .. n - 1 /\ n \in Nat \ {0}
  <2>1. b * Y_VALUES >= 0 /\ b * Y_VALUES <= (XZ_VALUES - 1) * Y_VALUES
    BY <1>1
  <2>2. (XZ_VALUES - 1) * Y_VALUES = n - Y_VALUES
    BY <1>1
  <2>3. n \in Nat \ {0}
    BY <1>1
  <2> QED BY <1>1, <2>1, <2>2, <2>3
<1>5. w = a * n + r
  BY <1>1
<1>6. w \div n = a
  <2> HIDE DEF w, r, n
  <2> QED BY <1>4, <1>5, DivModUnique
<1>7. w \in Packed
  <2>1. a * n >= 0 /\ a * n <= (XZ_VALUES - 1) * n
    BY <1>1, <1>4
  <2>2. (XZ_VALUES - 1) * n = XZ_VALUES * XZ_VALUES * Y_VALUES - n
    BY <1>1
  <2>3. a * n \in Int /\ XZ_VALUES * XZ_VALUES * Y_VALUES \in Int
    BY <1>1
  <2> HIDE DEF w, r, n
  <2> QED BY <1>4, <1>5, <2>1, <2>2, <2>3 DEF Packed
<1> QED BY <1>2, <1>3, <1>6, <1>7

(***************************************************************************)
(* encode_position and decode_position (play.rs:254-265): for any field    *)
(* sizes, a position that fits the fields survives the trip through the    *)
(* word.                                                                   *)
(***************************************************************************)
THEOREM DecodeEncode ==
  ASSUME NEW x \in XZField, NEW y \in YField, NEW z \in XZField
  PROVE  /\ encode_position(x, y, z) \in Packed
         /\ decode_position(encode_position(x, y, z)) = <<x, y, z>>
<1> DEFINE a == x % XZ_VALUES
           b == z % XZ_VALUES
           c == y % Y_VALUES
<1>1. XZ_VALUES \in Nat \ {0} /\ Y_VALUES \in Nat \ {0} /\ x \in Int /\ y \in Int /\ z \in Int
  BY FieldsAssumption, HalfOfEven DEF XZField, YField
<1>2. a \in 0 .. XZ_VALUES - 1 /\ b \in 0 .. XZ_VALUES - 1 /\ c \in 0 .. Y_VALUES - 1
  BY <1>1, DivModFacts
<1>3. sign_extend(a, XZ_VALUES) = x /\ sign_extend(b, XZ_VALUES) = z
  BY FieldsAssumption, SignExtendInverse DEF XZField
<1>4. sign_extend(c, Y_VALUES) = y
  BY FieldsAssumption, SignExtendInverse DEF YField
<1>5. encode_position(x, y, z) = (a * XZ_VALUES + b) * Y_VALUES + c
  BY DEF encode_position
<1> HIDE DEF a, b, c
<1> QED BY <1>2, <1>3, <1>4, <1>5, Fields DEF decode_position

(***************************************************************************)
(* The converse: every word names a position that fits the fields, and is  *)
(* the word of that position.  Break announces the word as it came.        *)
(***************************************************************************)
THEOREM EncodeDecode ==
  ASSUME NEW packed \in Packed
  PROVE  LET p == decode_position(packed)
         IN  /\ p \in Packable
             /\ encode_position(p[1], p[2], p[3]) = packed
<1> DEFINE n == XZ_VALUES * Y_VALUES
           a == packed \div n
           u == packed \div Y_VALUES
           b == u % XZ_VALUES
           c == packed % Y_VALUES
<1>1. XZ_VALUES \in Nat \ {0} /\ Y_VALUES \in Nat \ {0} /\ packed \in Int
  BY FieldsAssumption DEF Packed
<1>2. n \in Nat \ {0}
  BY <1>1
<1>3. c \in 0 .. Y_VALUES - 1 /\ u \in Int /\ packed = Y_VALUES * u + c
  BY <1>1, DivModFacts
<1>4. b \in 0 .. XZ_VALUES - 1
  BY <1>1, <1>3, DivModFacts
<1>5. u = XZ_VALUES * (u \div XZ_VALUES) + b /\ u \div XZ_VALUES \in Int
  BY <1>1, <1>3, DivModFacts
<1>6. u \div XZ_VALUES = a
  <2> DEFINE q == u \div XZ_VALUES
             r == b * Y_VALUES + c
  <2>1. packed = q * n + r
    <3>1. packed = Y_VALUES * (XZ_VALUES * q + b) + c
      BY <1>3, <1>5
    <3>2. b \in Int /\ c \in Int /\ q \in Int
      BY <1>3, <1>4, <1>5
    <3> HIDE DEF q, b, c
    <3> QED BY <1>1, <3>1, <3>2
  <2>2. r \in 0 .. n - 1
    <3>1. b \in Int /\ 0 <= b /\ b <= XZ_VALUES - 1 /\ c \in Int /\ 0 <= c /\ c <= Y_VALUES - 1
      BY <1>1, <1>3, <1>4
    <3> HIDE DEF b, c
    <3>2. b * Y_VALUES >= 0 /\ b * Y_VALUES <= (XZ_VALUES - 1) * Y_VALUES
      BY <1>1, <3>1
    <3>3. (XZ_VALUES - 1) * Y_VALUES = n - Y_VALUES
      BY <1>1
    <3> QED BY <1>1, <1>2, <3>1, <3>2, <3>3
  <2>3. q \in Int
    BY <1>5
  <2> HIDE DEF q, r, n
  <2>4. packed \div n = q
    BY <1>2, <2>1, <2>2, <2>3, DivModUnique
  <2> QED BY <2>4 DEF q
<1>7. a \in 0 .. XZ_VALUES - 1
  <2>1. XZ_VALUES * n = XZ_VALUES * XZ_VALUES * Y_VALUES
    BY <1>1
  <2>2. packed \in 0 .. XZ_VALUES * n - 1
    BY <2>1 DEF Packed
  <2> HIDE DEF n
  <2> QED BY <1>1, <1>2, <2>2, QuotientBelow
<1>8. packed = (a * XZ_VALUES + b) * Y_VALUES + c
  <2> HIDE DEF a, b, c, u
  <2> QED BY <1>1, <1>3, <1>4, <1>5, <1>6, <1>7
<1>9. /\ sign_extend(a, XZ_VALUES) \in XZField /\ sign_extend(a, XZ_VALUES) % XZ_VALUES = a
      /\ sign_extend(b, XZ_VALUES) \in XZField /\ sign_extend(b, XZ_VALUES) % XZ_VALUES = b
  <2> HIDE DEF a, b
  <2> QED BY <1>4, <1>7, FieldsAssumption, SignExtendField DEF XZField
<1>10. sign_extend(c, Y_VALUES) \in YField /\ sign_extend(c, Y_VALUES) % Y_VALUES = c
  <2> HIDE DEF c
  <2> QED BY <1>3, FieldsAssumption, SignExtendField DEF YField
<1>11. decode_position(packed) =
         <<sign_extend(a, XZ_VALUES), sign_extend(c, Y_VALUES), sign_extend(b, XZ_VALUES)>>
  BY DEF decode_position
<1> HIDE DEF a, b, c
<1> QED BY <1>8, <1>9, <1>10, <1>11 DEF Packable, encode_position

-----------------------------------------------------------------------------
(***************************************************************************)
(* S_USE_ITEM_ON (play.rs:144-148): a block placed against one that is not *)
(* at the end of a field is announced exactly where set_block stores it,   *)
(* whatever the face.                                                      *)
(***************************************************************************)
THEOREM PlacedWhereAnnounced ==
  ASSUME NEW packed, decode_position(packed) \in Interior, NEW face
  PROVE  LET t == offset_block(packed, face)
         IN  decode_position(encode_position(t[1], t[2], t[3])) = t
<1> DEFINE p == decode_position(packed)
           t == offset_block(packed, face)
<1>1. XZ_VALUES \div 2 \in Int /\ Y_VALUES \div 2 \in Int
  BY FieldsAssumption, HalfOfEven
<1>2. p = <<p[1], p[2], p[3]>>
  BY DEF decode_position
<1>3. PICK dx \in {-1, 0, 1}, dy \in {-1, 0, 1}, dz \in {-1, 0, 1} :
        t = <<p[1] + dx, p[2] + dy, p[3] + dz>>
  <2>1. ASSUME NEW k \in 1 .. 6
        PROVE  \A j \in {1, 2, 3} : Normal[k][j] \in {-1, 0, 1}
    BY DEF Normal
  <2> HIDE DEF p
  <2>2. CASE face \in 0 .. 5
    <3>1. face + 1 \in 1 .. 6
      BY <2>2
    <3>2. t = <<p[1] + Normal[face + 1][1], p[2] + Normal[face + 1][2], p[3] + Normal[face + 1][3]>>
      BY <2>2 DEF offset_block, neighbour, p
    <3> HIDE DEF t
    <3> QED BY <2>1, <3>1, <3>2
  <2>3. CASE face \notin 0 .. 5
    <3>1. t = <<p[1] + 0, p[2] + 0, p[3] + 0>>
      BY <2>3 DEF offset_block, neighbour, p
    <3> HIDE DEF t
    <3> QED BY <3>1
  <2> QED BY <2>2, <2>3
<1>4. t[1] \in XZField /\ t[2] \in YField /\ t[3] \in XZField
  <2>1. p \in Interior OBVIOUS
  <2> HIDE DEF p, t
  <2> QED BY <1>1, <1>3, <2>1 DEF Interior, XZField, YField
<1>5. t = <<t[1], t[2], t[3]>>
  <2> HIDE DEF p, t
  <2> QED BY <1>3
<1> QED
  <2> HIDE DEF p, t
  <2>1. decode_position(encode_position(t[1], t[2], t[3])) = t
    BY <1>4, <1>5, DecodeEncode
  <2> QED BY <2>1 DEF t

(***************************************************************************)
(* chunk_of and the square that load_around walks (play.rs:192-197, 214):  *)
(* however far away a client claims to be, the bounds of the square around *)
(* its chunk stay in the range of an i32.  9 is SEND_RADIUS.               *)
(***************************************************************************)
THEOREM SentSquareInRange ==
  ASSUME NEW x \in Int, NEW z \in Int, NEW i \in {1, 2}
  PROVE  chunk_of(x, z)[i] - 9 >= I32_MIN /\ chunk_of(x, z)[i] + 9 <= I32_MAX
<1>1. ASSUME NEW n \in Int
      PROVE  as_i32(n) \div 16 - 9 >= I32_MIN /\ as_i32(n) \div 16 + 9 <= I32_MAX
  <2>1. as_i32(n) \in I32_MIN .. I32_MAX
    BY WidthAssumption DEF as_i32, I32_MIN
  <2> QED BY <2>1, WidthAssumption DEF I32_MIN
<1> QED BY <1>1 DEF chunk_of

\* The word of a block away from the ends of the fields names one that is too.
LEMMA InteriorClick ==
  ASSUME NEW p \in Interior
  PROVE  decode_position(encode_position(p[1], p[2], p[3])) \in Interior
<1>1. p = <<p[1], p[2], p[3]>> /\ XZ_VALUES \div 2 \in Int /\ Y_VALUES \div 2 \in Int
  BY FieldsAssumption, HalfOfEven DEF Interior
<1>2. p[1] \in XZField /\ p[2] \in YField /\ p[3] \in XZField
  BY <1>1 DEF Interior, XZField, YField
<1> QED BY <1>1, <1>2, DecodeEncode

-----------------------------------------------------------------------------
(***************************************************************************)
(* play.rs:115-150: wherever clients click inside the world, and whatever  *)
(* they hold, every edit is announced where and as it is stored.           *)
(***************************************************************************)
THEOREM EditsAnnounced == Spec => []UpdatesFollowEdits
<1>1. Init => UpdatesFollowEdits
  BY DEF Init, UpdatesFollowEdits
<1>2. UpdatesFollowEdits /\ [Next]_vars => UpdatesFollowEdits'
  <2> SUFFICES ASSUME UpdatesFollowEdits, [Next]_vars
               PROVE  UpdatesFollowEdits'
    OBVIOUS
  <2>1. CASE UNCHANGED vars
    BY <2>1 DEF UpdatesFollowEdits, vars
  <2>2. CASE Next
    <3>1. PICK p \in Clicks :
            LET packed == encode_position(p[1], p[2], p[3])
            IN  \/ Break(packed)
                \/ \E face \in 0 .. 6, s \in Held : Place(packed, face, s)
      BY <2>2 DEF Next
    <3> DEFINE packed == encode_position(p[1], p[2], p[3])
    <3>2. decode_position(packed) \in Interior
      BY <3>1, ClicksAssumption, InteriorClick
    <3>3. CASE Break(packed)
      BY <3>3 DEF Break, set_block, Announce, UpdatesFollowEdits
    <3>4. ASSUME NEW face \in 0 .. 6, NEW s \in Held, Place(packed, face, s)
          PROVE  UpdatesFollowEdits'
      <4> DEFINE t == offset_block(packed, face)
      <4>1. decode_position(encode_position(t[1], t[2], t[3])) = t
        BY <3>2, PlacedWhereAnnounced
      <4>2. set_block(t, s) /\ Announce(encode_position(t[1], t[2], t[3]), s)
        BY <3>4 DEF Place
      <4> HIDE DEF t
      <4> QED BY <4>1, <4>2 DEF set_block, Announce, UpdatesFollowEdits
    <3> HIDE DEF packed
    <3> QED BY <3>1, <3>3, <3>4 DEF packed
  <2> QED BY <2>1, <2>2 DEF Next
<1> QED BY <1>1, <1>2, PTL DEF Spec

-----------------------------------------------------------------------------
\* A client finds entry local_index(p, s) of chunk c at p: no two blocks of a
\* section share an entry.
LEMMA IndexNamesBlock ==
  ASSUME NEW s \in Sections, NEW p \in Int \X Int \X Int, in_section(p, s)
  PROVE  /\ local_index(p, s) \in Index
         /\ client_position(chunk_of_block(p), s, local_index(p, s)) = p
<1> DEFINE lx == p[1] % SIDE
           ly == p[2] - section_min_y(s)
           lz == p[3] % SIDE
           row == ly * SIDE + lz
<1>1. SIDE \in Nat \ {0} /\ MIN_Y \in Int /\ s \in Int
  BY SizesAssumption DEF Sections
<1>2. p[1] \in Int /\ p[2] \in Int /\ p[3] \in Int
  OBVIOUS
<1>3. lx \in 0 .. SIDE - 1 /\ lz \in 0 .. SIDE - 1
  BY <1>1, <1>2, DivModFacts
<1>4. section_min_y(s) \in Int /\ ly \in 0 .. SIDE - 1
  BY <1>1, <1>2 DEF section_min_y, in_section
<1>5. /\ p[1] = SIDE * (p[1] \div SIDE) + lx
      /\ p[3] = SIDE * (p[3] \div SIDE) + lz
  BY <1>1, <1>2, DivModFacts
<1>6. local_index(p, s) = row * SIDE + lx
  BY DEF local_index
<1>7. p[2] = section_min_y(s) + ly
  BY <1>2, <1>4
<1> HIDE DEF lx, ly, lz
<1>8. row \in Nat /\ row <= SIDE * SIDE - 1
  <2>1. ly * SIDE >= 0 /\ ly * SIDE <= (SIDE - 1) * SIDE
    BY <1>1, <1>4
  <2>2. (SIDE - 1) * SIDE = SIDE * SIDE - SIDE
    BY <1>1
  <2> QED BY <1>1, <1>3, <1>4, <2>1, <2>2
<1>9. row \div SIDE = ly /\ row % SIDE = lz
  <2>1. SIDE \in Nat \ {0} /\ ly \in Int /\ lz \in 0 .. SIDE - 1
    BY <1>1, <1>3, <1>4
  <2> QED BY ONLY <2>1, DivModUnique
<1> DEFINE i == row * SIDE + lx
<1>10. i \div SIDE = row /\ i % SIDE = lx
  <2>1. SIDE \in Nat \ {0} /\ row \in Int /\ lx \in 0 .. SIDE - 1
    BY <1>1, <1>3, <1>8
  <2> HIDE DEF row
  <2> QED BY ONLY <2>1, DivModUnique
<1>11. i \div (SIDE * SIDE) = ly
  <2> DEFINE n == SIDE * SIDE
             r == lz * SIDE + lx
  <2>1. n \in Nat \ {0}
    BY <1>1
  <2>2. r \in 0 .. n - 1
    <3>1. lz * SIDE >= 0 /\ lz * SIDE <= (SIDE - 1) * SIDE
      BY <1>1, <1>3
    <3>2. (SIDE - 1) * SIDE = n - SIDE
      BY <1>1
    <3> QED BY <1>1, <1>3, <2>1, <3>1, <3>2
  <2>3. i = ly * n + r
    BY <1>1, <1>3, <1>4
  <2> HIDE DEF n, r, i
  <2>4. ly \in Int
    BY <1>1, <1>4
  <2>5. i \div n = ly
    BY ONLY <2>1, <2>2, <2>3, <2>4, DivModUnique
  <2> QED BY <2>5 DEF n
<1>12. i \in Index
  <2>1. row * SIDE >= 0 /\ row * SIDE <= (SIDE * SIDE - 1) * SIDE
    BY <1>1, <1>8
  <2>2. (SIDE * SIDE - 1) * SIDE = SIDE * SIDE * SIDE - SIDE
    BY <1>1
  <2>3. SIDE * SIDE * SIDE \in Int /\ row * SIDE \in Int
    BY <1>1, <1>8
  <2> HIDE DEF row
  <2> QED BY <1>1, <1>3, <2>1, <2>2, <2>3 DEF Index
<1> HIDE DEF row, i
<1>13. client_position(chunk_of_block(p), s, i) =
         <<SIDE * (p[1] \div SIDE) + lx, section_min_y(s) + ly, SIDE * (p[3] \div SIDE) + lz>>
  BY <1>9, <1>10, <1>11 DEF client_position, chunk_of_block
<1>14. p = <<p[1], p[2], p[3]>>
  OBVIOUS
<1>15. local_index(p, s) = i
  BY <1>6 DEF i
<1> QED BY <1>5, <1>7, <1>12, <1>13, <1>14, <1>15

(***************************************************************************)
(* flat_chunk (chunk.rs:60-81): for sections of any size, every edit of a  *)
(* chunk is in the section that its height selects, at the entry where the *)
(* client looks for it; none overwrites another.                           *)
(***************************************************************************)
THEOREM SectionHoldsEdits ==
  ASSUME NEW c, NEW s \in Sections, NEW f,
         DOMAIN f \subseteq Int \X Int \X Int,
         \A q \in DOMAIN f : chunk_of_block(q) = c,
         NEW p \in DOMAIN f, in_section(p, s)
  PROVE  /\ section_blocks(s, f)[local_index(p, s)] = f[p]
         /\ client_position(c, s, local_index(p, s)) = p
<1> DEFINE local == {q \in DOMAIN f : in_section(q, s)}
           at(i) == CHOOSE q \in local : local_index(q, s) = i
<1>1. \A q \in local : /\ local_index(q, s) \in Index
                       /\ client_position(c, s, local_index(q, s)) = q
  BY IndexNamesBlock
<1>2. p \in local
  OBVIOUS
<1>3. at(local_index(p, s)) = p
  <2>1. \E q \in local : local_index(q, s) = local_index(p, s)
    BY <1>2
  <2>2. /\ at(local_index(p, s)) \in local
        /\ local_index(at(local_index(p, s)), s) = local_index(p, s)
    <3> HIDE DEF local
    <3> QED BY <2>1
  <2> HIDE DEF local, at
  <2> QED BY <1>1, <1>2, <2>2
<1>4. section_blocks(s, f)[local_index(p, s)] = f[at(local_index(p, s))]
  BY <1>1, <1>2 DEF section_blocks
<1> QED BY <1>1, <1>2, <1>3, <1>4

-----------------------------------------------------------------------------
\* The converse of IndexNamesBlock: the block at which a client shows entry i of
\* section s of chunk c is in that section and chunk, and is filed under i.
LEMMA PositionOfIndex ==
  ASSUME NEW c \in Int \X Int, NEW s \in Sections, NEW i \in Index
  PROVE  LET p == client_position(c, s, i)
         IN  /\ p \in Int \X Int \X Int
             /\ in_section(p, s)
             /\ chunk_of_block(p) = c
             /\ local_index(p, s) = i
<1> DEFINE lx == i % SIDE
           row == i \div SIDE
           lz == row % SIDE
           ly == row \div SIDE
           y0 == section_min_y(s)
<1>1. SIDE \in Nat \ {0} /\ MIN_Y \in Int /\ s \in Int /\ i \in Int
  BY SizesAssumption DEF Sections, Index
<1>2. y0 \in Int
  BY <1>1 DEF section_min_y
<1>3. lx \in 0 .. SIDE - 1 /\ row \in Int /\ i = SIDE * row + lx
  BY <1>1, DivModFacts
<1>4. lz \in 0 .. SIDE - 1 /\ ly \in Int /\ row = SIDE * ly + lz
  BY <1>1, <1>3, DivModFacts
<1>5. row \in 0 .. SIDE * SIDE - 1
  <2>1. i \in 0 .. (SIDE * SIDE) * SIDE - 1 /\ SIDE * SIDE \in Nat
    BY <1>1 DEF Index
  <2> QED BY <1>1, <2>1, QuotientBelow
<1>6. ly \in 0 .. SIDE - 1
  BY <1>1, <1>5, QuotientBelow
<1>7. i \div (SIDE * SIDE) = ly
  <2> DEFINE n == SIDE * SIDE
             r == lz * SIDE + lx
  <2> HIDE DEF lx, row, lz, ly
  <2>1. n \in Nat \ {0}
    BY <1>1
  <2>2. r \in 0 .. n - 1
    <3>1. lz * SIDE >= 0 /\ lz * SIDE <= (SIDE - 1) * SIDE
      BY <1>1, <1>4
    <3>2. (SIDE - 1) * SIDE = n - SIDE
      BY <1>1
    <3> QED BY <1>1, <1>3, <1>4, <2>1, <3>1, <3>2
  <2>3. i = ly * n + r
    BY <1>1, <1>3, <1>4
  <2>4. ly \in Int
    BY <1>4
  <2> HIDE DEF n, r
  <2>5. i \div n = ly
    BY ONLY <2>1, <2>2, <2>3, <2>4, DivModUnique
  <2> QED BY <2>5 DEF n
<1> DEFINE p == client_position(c, s, i)
<1>8. p = <<SIDE * c[1] + lx, y0 + ly, SIDE * c[2] + lz>>
  BY <1>7 DEF client_position
<1>9. c[1] \in Int /\ c[2] \in Int /\ c = <<c[1], c[2]>>
  OBVIOUS
<1> HIDE DEF lx, row, lz, ly, y0
<1>10. p \in Int \X Int \X Int
  BY <1>1, <1>2, <1>3, <1>6, <1>4, <1>8, <1>9
<1>11. in_section(p, s)
  <2>1. p[2] = y0 + ly /\ y0 <= y0 + ly /\ y0 + ly < y0 + SIDE
    BY <1>1, <1>2, <1>6, <1>8
  <2> QED BY <2>1 DEF in_section, y0
<1>12. /\ (SIDE * c[1] + lx) \div SIDE = c[1] /\ (SIDE * c[1] + lx) % SIDE = lx
       /\ (SIDE * c[2] + lz) \div SIDE = c[2] /\ (SIDE * c[2] + lz) % SIDE = lz
  <2>1. SIDE * c[1] + lx = c[1] * SIDE + lx /\ SIDE * c[2] + lz = c[2] * SIDE + lz
    BY <1>1, <1>3, <1>4, <1>9
  <2>2. (c[1] * SIDE + lx) \div SIDE = c[1] /\ (c[1] * SIDE + lx) % SIDE = lx
    BY ONLY <1>1, <1>3, <1>9, DivModUnique
  <2>3. (c[2] * SIDE + lz) \div SIDE = c[2] /\ (c[2] * SIDE + lz) % SIDE = lz
    BY ONLY <1>1, <1>4, <1>9, DivModUnique
  <2> QED BY ONLY <2>1, <2>2, <2>3
<1>13. chunk_of_block(p) = c
  BY <1>8, <1>9, <1>12 DEF chunk_of_block
<1>14. local_index(p, s) = i
  <2>1. local_index(p, s) = (ly * SIDE + lz) * SIDE + lx
    <3>1. p[2] - section_min_y(s) = ly
      BY <1>2, <1>6, <1>8 DEF y0
    <3> QED BY <3>1, <1>8, <1>12 DEF local_index
  <2> QED BY <1>1, <1>3, <1>4, <2>1
<1> HIDE DEF p
<1> QED BY <1>10, <1>11, <1>13, <1>14 DEF p

\* The edits of chunk c among the edits e of a world.
ChunkEdits(e, c) == [p \in {q \in DOMAIN e : chunk_of_block(q) = c} |-> e[p]]

\* chunk_edits of the running world are ChunkEdits of its edits.
LEMMA ChunkEditsAre ==
  ASSUME NEW c
  PROVE  chunk_edits(c) = ChunkEdits(edits, c)
<1>1. chunk_edits(c) = Restrict(edits, {p \in DOMAIN edits : chunk_of_block(p) = c})
  BY Zenon DEF chunk_edits, RestrictDomain
<1> QED BY <1>1 DEF Restrict, ChunkEdits

\* A section with the edits f applied holds the edit at p.
HoldsAt(f, s, p) == section_blocks(s, f)[local_index(p, s)] = f[p]

\* SectionHoldsEdits with its equation kept closed.
LEMMA SectionHoldsAt ==
  ASSUME NEW c, NEW s \in Sections, NEW f,
         DOMAIN f \subseteq Int \X Int \X Int,
         \A q \in DOMAIN f : chunk_of_block(q) = c,
         NEW p \in DOMAIN f, in_section(p, s)
  PROVE  HoldsAt(f, s, p) /\ client_position(c, s, local_index(p, s)) = p
BY SectionHoldsEdits DEF HoldsAt

\* What a world with the edits e has at p, in section s.
StateAt(e, p, s) == IF p \in DOMAIN e THEN e[p] ELSE base(s)

\* A section with the chunk's edits applied holds, entry by entry, what the world
\* has at the block that the entry stands for.
LEMMA SectionShows ==
  ASSUME NEW c \in Int \X Int, NEW s \in Sections, NEW e,
         DOMAIN e \subseteq Int \X Int \X Int
  PROVE  section_blocks(s, ChunkEdits(e, c)) =
           [i \in Index |-> StateAt(e, client_position(c, s, i), s)]
<1> DEFINE f == ChunkEdits(e, c)
           local == {q \in DOMAIN f : in_section(q, s)}
<1>1. /\ DOMAIN f = {q \in DOMAIN e : chunk_of_block(q) = c}
      /\ \A q \in DOMAIN f : f[q] = e[q]
  BY DEF ChunkEdits
<1>2. DOMAIN f \subseteq Int \X Int \X Int /\ \A q \in DOMAIN f : chunk_of_block(q) = c
  BY <1>1
<1> HIDE DEF f
<1>3. section_blocks(s, f) = [i \in Index |-> section_blocks(s, f)[i]]
  BY DEF section_blocks
<1>4. ASSUME NEW i \in Index
      PROVE  section_blocks(s, f)[i] = StateAt(e, client_position(c, s, i), s)
  <2> DEFINE p == client_position(c, s, i)
  <2>1. /\ p \in Int \X Int \X Int /\ in_section(p, s)
        /\ chunk_of_block(p) = c /\ local_index(p, s) = i
    BY PositionOfIndex
  <2> HIDE DEF p
  <2>2. CASE p \in DOMAIN e
    <3>1. p \in DOMAIN f /\ f[p] = e[p]
      BY <1>1, <2>1, <2>2
    <3>2. HoldsAt(f, s, p)
      BY <1>2, <2>1, <3>1, SectionHoldsAt
    <3>3. section_blocks(s, f)[i] = f[p]
      BY <2>1, <3>2, Zenon DEF HoldsAt
    <3> QED BY <2>2, <3>1, <3>3 DEF StateAt, p
  <2>3. CASE p \notin DOMAIN e
    <3>1. i \notin {local_index(q, s) : q \in local}
      <4> SUFFICES ASSUME NEW q \in local, i = local_index(q, s) PROVE FALSE
        OBVIOUS
      <4>1. client_position(c, s, local_index(q, s)) = q
        BY <1>2, SectionHoldsAt
      <4>2. q = p
        BY <4>1 DEF p
      <4> QED BY <1>1, <2>3, <4>2
    <3>2. section_blocks(s, f)[i] = base(s)
      BY <3>1 DEF section_blocks
    <3> QED BY <2>3, <3>2 DEF StateAt, p
  <2> QED BY <2>2, <2>3
<1>5. section_blocks(s, f) = [i \in Index |-> StateAt(e, client_position(c, s, i), s)]
  BY <1>3, <1>4
<1> QED BY <1>5 DEF f

\* A section in which the chunk has no edit is all of the base.
LEMMA SectionPlain ==
  ASSUME NEW c \in Int \X Int, NEW s \in Sections, NEW e,
         \A p \in DOMAIN ChunkEdits(e, c) : ~ in_section(p, s)
  PROVE  \A i \in Index : StateAt(e, client_position(c, s, i), s) = base(s)
<1> SUFFICES ASSUME NEW i \in Index
             PROVE  client_position(c, s, i) \notin DOMAIN e
  BY DEF StateAt
<1>1. /\ in_section(client_position(c, s, i), s)
      /\ chunk_of_block(client_position(c, s, i)) = c
  BY PositionOfIndex
<1> QED BY <1>1 DEF ChunkEdits

-----------------------------------------------------------------------------
\* The edits of the world are at block positions and of known states.
EditsTyped == DOMAIN edits \subseteq Int \X Int \X Int /\ \A p \in DOMAIN edits : edits[p] \in States

\* The generated terrain is of known states.
LEMMA BaseStates ==
  ASSUME NEW s
  PROVE  STATE_AIR \in States /\ base(s) \in States
<1>1. DIRECT_BITS \in Nat \ {0}
  BY SizesAssumption
<1> DEFINE n == 2 ^ DIRECT_BITS
<1>2. n \in Nat /\ n >= 2
  <2>1. 2 ^ (0 + 1) = 2 * 1
    BY PowerNext, PowerZero
  <2>2. 2 ^ 1 = 2 /\ 1 <= DIRECT_BITS
    BY <1>1, <2>1
  <2>3. 2 ^ 1 <= n
    BY <1>1, <2>2, PowerGrows
  <2> QED BY <1>1, <2>2, <2>3, PowerPositive
<1> HIDE DEF n
<1>3. 0 \in 0 .. n - 1 /\ 1 \in 0 .. n - 1
  BY <1>2
<1> QED BY <1>3 DEF n, States, base, STATE_AIR, STATE_STONE

\* A word names a block position, and so does its neighbour.
LEMMA ClickTyped ==
  ASSUME NEW p \in Clicks
  PROVE  LET packed == encode_position(p[1], p[2], p[3])
         IN  /\ decode_position(packed) \in Int \X Int \X Int
             /\ \A face \in 0 .. 6 : offset_block(packed, face) \in Int \X Int \X Int
<1> DEFINE d == decode_position(encode_position(p[1], p[2], p[3]))
<1>1. d \in Interior
  BY ClicksAssumption, InteriorClick
<1>2. d \in Int \X Int \X Int
  BY <1>1, FieldsAssumption, HalfOfEven DEF Interior
<1> HIDE DEF d
<1>3. ASSUME NEW face \in 0 .. 6
      PROVE  neighbour(d, face) \in Int \X Int \X Int
  <2>1. \A k \in 1 .. 6 : \A j \in {1, 2, 3} : Normal[k][j] \in Int
    BY DEF Normal
  <2>2. d[1] \in Int /\ d[2] \in Int /\ d[3] \in Int
    BY <1>2
  <2> QED BY <2>1, <2>2 DEF neighbour
<1> QED BY <1>2, <1>3 DEF d, offset_block

\* set_block keeps positions and states what they are.
LEMMA EditKeepsTypes ==
  ASSUME EditsTyped, NEW t \in Int \X Int \X Int, NEW s \in States, set_block(t, s)
  PROVE  EditsTyped'
BY DEF EditsTyped, set_block

\* Every edit that a handler makes is one of those.
LEMMA Types == Spec => []EditsTyped
<1>1. Init => EditsTyped
  BY StatesAssumption DEF Init, EditsTyped
<1>2. EditsTyped /\ [Next]_vars => EditsTyped'
  <2> SUFFICES ASSUME EditsTyped, [Next]_vars
               PROVE  EditsTyped'
    OBVIOUS
  <2>1. CASE UNCHANGED vars
    BY <2>1 DEF EditsTyped, vars
  <2>2. CASE Next
    <3>1. PICK p \in Clicks :
            LET packed == encode_position(p[1], p[2], p[3])
            IN  \/ Break(packed)
                \/ \E face \in 0 .. 6, s \in Held : Place(packed, face, s)
      BY <2>2 DEF Next
    <3> DEFINE packed == encode_position(p[1], p[2], p[3])
    <3>2. /\ decode_position(packed) \in Int \X Int \X Int
          /\ \A face \in 0 .. 6 : offset_block(packed, face) \in Int \X Int \X Int
      BY ClickTyped
    <3> HIDE DEF packed
    <3>3. CASE Break(packed)
      BY <3>2, <3>3, BaseStates, EditKeepsTypes DEF Break
    <3>4. ASSUME NEW face \in 0 .. 6, NEW s \in Held, Place(packed, face, s)
          PROVE  EditsTyped'
      <4>1. s \in States /\ set_block(offset_block(packed, face), s)
        BY <3>4, StatesAssumption DEF Place
      <4> QED BY <3>2, <4>1, EditKeepsTypes
    <3> QED BY <3>1, <3>3, <3>4 DEF packed
  <2> QED BY <2>1, <2>2
<1> QED BY <1>1, <1>2, PTL DEF Spec

(***************************************************************************)
(* flat_chunk's non-air counts (chunk.rs:75-90, 107): a section is counted *)
(* from the blocks with the edits applied, or by its base when it has      *)
(* none, and both agree with what a client shows that was there all along. *)
(***************************************************************************)
THEOREM CountsAgree == Spec => []CountsMatch
<1>1. EditsTyped /\ UpdatesFollowEdits => CountsMatch
  <2> SUFFICES ASSUME EditsTyped, UpdatesFollowEdits, NEW c \in Area, NEW s \in Sections
               PROVE  flat_chunk(chunk_edits(c))[s].non_air =
                        Cardinality({i \in Index : Shown(client_position(c, s, i), s) # STATE_AIR})
    BY DEF CountsMatch
  <2> DEFINE f == ChunkEdits(edits, c)
             blocks == section_blocks(s, f)
             seen(i) == Shown(client_position(c, s, i), s)
  <2>1. c \in Int \X Int /\ DOMAIN edits \subseteq Int \X Int \X Int
    BY AreaAssumption DEF EditsTyped
  <2>2. \A i \in Index : seen(i) = StateAt(edits, client_position(c, s, i), s)
    BY DEF UpdatesFollowEdits, Shown, StateAt
  <2>3. flat_chunk(chunk_edits(c))[s] = section(s, f)
    BY ChunkEditsAre DEF flat_chunk
  <2> HIDE DEF f
  <2>4. CASE \E p \in DOMAIN f : in_section(p, s)
    <3>1. \A i \in Index : blocks[i] = seen(i)
      <4>1. blocks = [i \in Index |-> StateAt(edits, client_position(c, s, i), s)]
        BY <2>1, SectionShows DEF f
      <4> HIDE DEF blocks, seen
      <4> QED BY <2>2, <4>1
    <3>2. section(s, f).non_air = non_air(blocks)
      BY <2>4 DEF section
    <3> HIDE DEF blocks, seen
    <3>3. {i \in Index : blocks[i] # STATE_AIR} = {i \in Index : seen(i) # STATE_AIR}
      BY <3>1
    <3> QED BY <2>3, <3>2, <3>3 DEF non_air, seen
  <2>5. CASE \A p \in DOMAIN f : ~ in_section(p, s)
    <3>1. \A i \in Index : seen(i) = base(s)
      BY <2>1, <2>2, <2>5, SectionPlain DEF f
    <3>2. section(s, f).non_air = IF base(s) = STATE_AIR THEN 0 ELSE SIDE * SIDE * SIDE
      BY <2>5 DEF section
    <3>3. Cardinality(Index) = SIDE * SIDE * SIDE
      <4>1. SIDE * SIDE * SIDE \in Nat \ {0}
        BY SizesAssumption
      <4> DEFINE n == SIDE * SIDE * SIDE
      <4> HIDE DEF n
      <4>2. Cardinality(0 .. n - 1) = n
        <5>1. Cardinality(0 .. n - 1) = IF 0 > n - 1 THEN 0 ELSE (n - 1) - 0 + 1
          BY <4>1, FS_Interval DEF n
        <5> QED BY <4>1, <5>1 DEF n
      <4> QED BY <4>2 DEF n, Index
    <3> HIDE DEF seen
    <3>4. CASE base(s) = STATE_AIR
      <4>1. {i \in Index : seen(i) # STATE_AIR} = {}
        BY <3>1, <3>4
      <4>2. Cardinality({}) = 0
        BY FS_EmptySet
      <4> QED BY <2>3, <3>2, <3>4, <4>1, <4>2 DEF seen
    <3>5. CASE base(s) # STATE_AIR
      <4>1. {i \in Index : seen(i) # STATE_AIR} = Index
        BY <3>1, <3>5
      <4> QED BY <2>3, <3>2, <3>3, <3>5, <4>1 DEF seen
    <3> QED BY <3>4, <3>5
  <2> QED BY <2>4, <2>5
<1> QED BY <1>1, Types, EditsAnnounced, PTL

-----------------------------------------------------------------------------
(***************************************************************************)
(* The palette.  The fold of palette_of goes through a section entry by    *)
(* entry and appends a state that it has not seen.                         *)
(***************************************************************************)
Take(palette, b) == IF Contains(palette, b) THEN palette ELSE Append(palette, b)

\* iter is the recursion of the fold over the sequence F.
PaletteSteps(iter, F) ==
  iter = [s \in SUBSET DOMAIN F |->
            IF s = {} THEN <<>> ELSE Take(iter[s \ {Max(s)}], F[Max(s)])]

\* palette_of is the fold over all the entries.
LEMMA PaletteFold ==
  ASSUME NEW F
  PROVE  FoldLeft(LAMBDA palette, b : IF Contains(palette, b) THEN palette ELSE Append(palette, b),
                  <<>>, F)
           = (CHOOSE iter : PaletteSteps(iter, F))[DOMAIN F]
BY Zenon DEF FoldLeft, MapThenFoldSet, PaletteSteps, Take

\* Max of some numbers up to n is the largest of them.
LEMMA MaxOfSome ==
  ASSUME NEW n \in Nat, NEW s \in SUBSET (1 .. n), s # {}
  PROVE  Max(s) \in s /\ \A y \in s : Max(s) >= y
<1> DEFINE T == {m \in Nat : \A y \in s : m >= y}
<1>1. n \in T
  OBVIOUS
<1>2. PICK m \in T : \A k \in T : m <= k
  <2>1. T \in SUBSET Nat /\ T # {}
    BY <1>1
  <2> HIDE DEF T
  <2> QED BY <2>1, LeastNatural
<1>3. m \in s
  <2> SUFFICES ASSUME m \notin s PROVE FALSE
    OBVIOUS
  <2>1. PICK z \in s : TRUE
    OBVIOUS
  <2>2. \A y \in s : y \in Nat /\ y >= 1 /\ m >= y /\ m # y
    BY <1>2
  <2>3. m \in Nat /\ m - 1 \in Nat
    BY <1>2, <2>1, <2>2
  <2>4. m - 1 \in T
    BY <2>2, <2>3
  <2> HIDE DEF T
  <2> QED BY <1>2, <2>3, <2>4
<1>4. \E x \in s : \A y \in s : x >= y
  BY <1>2, <1>3
<1> QED BY <1>4 DEF Max

\* The recursion has a solution, whose values are palettes.
LEMMA PaletteStepsExist ==
  ASSUME NEW n \in Nat, NEW F \in [1 .. n -> States]
  PROVE  \E iter \in [SUBSET (1 .. n) -> Seq(States)] : PaletteSteps(iter, F)
<1> DEFINE S == 1 .. n
           A == Seq(States)
           pick == [s \in SUBSET S |-> Max(s)]
           combine == [x \in S |-> [a \in A |-> Take(a, F[x])]]
<1>1. IsFiniteSet(S)
  BY FS_Interval
<1>2. <<>> \in A
  OBVIOUS
<1>3. \A s \in SUBSET S : s # {} => pick[s] \in s
  BY MaxOfSome
<1>4. \A x \in S, a \in A : combine[x][a] \in A
  <2> SUFFICES ASSUME NEW x \in S, NEW a \in A PROVE Take(a, F[x]) \in A
    OBVIOUS
  <2>1. F[x] \in States
    OBVIOUS
  <2> HIDE DEF S
  <2>2. Append(a, F[x]) \in A
    BY <2>1
  <2> QED BY <2>2 DEF Take
<1>5. PICK g : g \in [SUBSET S -> A] /\ Recursive1(g, S, <<>>, pick, combine)
  <2> HIDE DEF S, A, pick, combine
  <2> QED BY <1>1, <1>2, <1>3, <1>4, SubsetRecursion
<1>6. ASSUME NEW s \in SUBSET S
      PROVE  g[s] = IF s = {} THEN <<>> ELSE Take(g[s \ {Max(s)}], F[Max(s)])
  <2>1. g[s] = Next1(g, s, <<>>, pick, combine)
    BY <1>5 DEF Recursive1
  <2>2. CASE s = {}
    BY <2>1, <2>2 DEF Next1
  <2>3. CASE s # {}
    <3>1. Max(s) \in S /\ pick[s] = Max(s) /\ s \ {Max(s)} \in SUBSET S
      BY <1>3, <2>3
    <3>2. g[s \ {Max(s)}] \in A
      BY <1>5, <3>1
    <3>3. g[s] = combine[Max(s)][g[s \ {Max(s)}]]
      <4> HIDE DEF combine, pick
      <4> QED BY <2>1, <2>3, <3>1 DEF Next1
    <3> HIDE DEF S, A, pick
    <3> QED BY <2>3, <3>1, <3>2, <3>3
  <2> QED BY <2>2, <2>3
<1>7. DOMAIN F = S
  OBVIOUS
<1>8. g = [s \in SUBSET S |-> IF s = {} THEN <<>> ELSE Take(g[s \ {Max(s)}], F[Max(s)])]
  <2> HIDE DEF S, A
  <2> QED BY <1>5, <1>6
<1> HIDE DEF S, A
<1>9. PaletteSteps(g, F)
  BY <1>7, <1>8 DEF PaletteSteps
<1> QED BY <1>5, <1>9 DEF S, A

\* What Take does to the states that a palette holds.
LEMMA TakeFacts ==
  ASSUME NEW a \in Seq(States), NEW b \in States
  PROVE  /\ Take(a, b) \in Seq(States)
         /\ Contains(Take(a, b), b)
         /\ \A c : Contains(a, c) => Contains(Take(a, b), c)
         /\ Len(Take(a, b)) <= Len(a) + 1
<1>1. CASE Contains(a, b)
  BY <1>1 DEF Take
<1>2. CASE ~ Contains(a, b)
  <2> DEFINE t == Append(a, b)
  <2>1. Take(a, b) = t
    BY <1>2 DEF Take
  <2>2. t \in Seq(States) /\ Len(t) = Len(a) + 1 /\ t[Len(a) + 1] = b
    OBVIOUS
  <2>3. \A i \in 1 .. Len(a) : t[i] = a[i]
    OBVIOUS
  <2>4. Len(a) \in Nat
    OBVIOUS
  <2> HIDE DEF t
  <2>5. Contains(t, b)
    <3>1. Len(a) + 1 \in 1 .. Len(t)
      BY <2>2, <2>4
    <3> QED BY <2>2, <3>1 DEF Contains
  <2>6. ASSUME NEW c, Contains(a, c) PROVE Contains(t, c)
    <3>1. PICK i \in 1 .. Len(a) : a[i] = c
      BY <2>6 DEF Contains
    <3>2. i \in 1 .. Len(t) /\ t[i] = c
      BY <2>2, <2>3, <2>4, <3>1
    <3> QED BY <3>2 DEF Contains
  <2> QED BY <2>1, <2>2, <2>4, <2>5, <2>6
<1> QED BY <1>1, <1>2

\* Every state of a section is in its palette, which has at least one entry and
\* at most as many as the section has blocks.
LEMMA PaletteHoldsAll ==
  ASSUME NEW blocks \in [Index -> States]
  PROVE  LET palette == palette_of(blocks)
         IN  /\ palette \in Seq(States)
             /\ Len(palette) \in 1 .. SIDE * SIDE * SIDE
             /\ \A i \in Index : \E k \in 1 .. Len(palette) : palette[k] = blocks[i]
<1> DEFINE n == SIDE * SIDE * SIDE
           F == [k \in 1 .. n |-> blocks[k - 1]]
           iter == CHOOSE it : PaletteSteps(it, F)
<1>1. n \in Nat \ {0}
  BY SizesAssumption
<1>2. F \in [1 .. n -> States]
  <2>1. \A k \in 1 .. n : k - 1 \in Index
    BY <1>1 DEF Index
  <2> HIDE DEF n
  <2> QED BY <2>1
<1>3. palette_of(blocks) = iter[1 .. n]
  <2>1. palette_of(blocks) = iter[DOMAIN F]
    BY PaletteFold, Zenon DEF palette_of
  <2> QED BY <2>1
<1>4. \E k \in 1 .. n : TRUE
  BY <1>1
<1>5. \A i \in Index : i + 1 \in 1 .. n /\ F[i + 1] = blocks[i]
  <2> SUFFICES ASSUME NEW i \in Index PROVE i + 1 \in 1 .. n /\ F[i + 1] = blocks[i]
    OBVIOUS
  <2>1. i \in Nat /\ i + 1 \in 1 .. n /\ (i + 1) - 1 = i
    BY <1>1 DEF Index
  <2> HIDE DEF n
  <2> QED BY <2>1
<1> HIDE DEF n, F
<1>6. \E it : PaletteSteps(it, F)
  BY <1>1, <1>2, PaletteStepsExist
<1>7. PaletteSteps(iter, F) /\ DOMAIN F = 1 .. n
  BY <1>2, <1>6
<1> HIDE DEF iter
<1>8. \A s \in SUBSET (1 .. n) :
        iter[s] = IF s = {} THEN <<>> ELSE Take(iter[s \ {Max(s)}], F[Max(s)])
  <2>1. iter = [s \in SUBSET (1 .. n) |->
                  IF s = {} THEN <<>> ELSE Take(iter[s \ {Max(s)}], F[Max(s)])]
    BY <1>7 DEF PaletteSteps
  <2> QED BY ONLY <2>1
<1> DEFINE Good(m) == /\ iter[1 .. m] \in Seq(States)
                      /\ Len(iter[1 .. m]) <= m
                      /\ \A k \in 1 .. m : Contains(iter[1 .. m], F[k])
           T == {m \in 0 .. n : Good(m)}
<1>9. 0 \in T
  <2>1. 1 .. 0 = {} /\ {} \in SUBSET (1 .. n)
    OBVIOUS
  <2>2. iter[{}] = <<>>
    BY <1>8, <2>1
  <2>3. <<>> \in Seq(States) /\ Len(<<>>) <= 0
    OBVIOUS
  <2>4. Good(0)
    BY <2>1, <2>2, <2>3
  <2> HIDE DEF Good
  <2> QED BY <1>1, <2>4
<1>10. ASSUME NEW m \in 0 .. n - 1, m \in T PROVE m + 1 \in T
  <2> DEFINE s == 1 .. m + 1
             a == iter[1 .. m]
             b == F[m + 1]
  <2>1. m \in Nat /\ m + 1 \in 0 .. n /\ m + 1 \in 1 .. n
    BY <1>1
  <2>2. Max(s) = m + 1
    <3>1. s \in SUBSET (1 .. m + 1) /\ m + 1 \in s /\ m + 1 \in Nat
      BY <2>1
    <3>2. Max(s) \in s /\ \A y \in s : Max(s) >= y
      <4> HIDE DEF s
      <4> QED BY <3>1, MaxOfSome
    <3> QED BY <2>1, <3>1, <3>2
  <2>3. s \ {m + 1} = 1 .. m /\ s \in SUBSET (1 .. n) /\ s # {}
    <3>1. \A k \in s : k \in 1 .. n /\ (k = m + 1 \/ k \in 1 .. m)
      BY <1>1, <2>1
    <3>2. \A k \in 1 .. m : k \in s /\ k # m + 1
      BY <2>1
    <3>3. m + 1 \in s
      BY <2>1
    <3> HIDE DEF s
    <3> QED BY <3>1, <3>2, <3>3
  <2>4. iter[s] = Take(a, b)
    <3> HIDE DEF s
    <3> QED BY <1>8, <2>2, <2>3
  <2>5. a \in Seq(States) /\ Len(a) <= m /\ (\A k \in 1 .. m : Contains(a, F[k])) /\ b \in States
    BY <1>2, <1>10, <2>1
  <2> HIDE DEF a, b
  <2>6. /\ Take(a, b) \in Seq(States) /\ Contains(Take(a, b), b)
        /\ \A c : Contains(a, c) => Contains(Take(a, b), c)
        /\ Len(Take(a, b)) <= Len(a) + 1
    BY <2>5, TakeFacts
  <2>7. Len(Take(a, b)) <= m + 1
    <3>1. Len(a) \in Nat /\ Len(Take(a, b)) \in Nat
      BY <2>5, <2>6
    <3> QED BY <2>1, <2>5, <2>6, <3>1
  <2>8. ASSUME NEW k \in s PROVE Contains(Take(a, b), F[k])
    <3>1. k \in 1 .. m \/ k = m + 1
      BY <2>1
    <3> QED BY <2>5, <2>6, <3>1 DEF b
  <2>9. Good(m + 1)
    <3> HIDE DEF s
    <3>1. iter[s] \in Seq(States) /\ Len(iter[s]) <= m + 1 /\ \A k \in s : Contains(iter[s], F[k])
      BY <2>4, <2>6, <2>7, <2>8
    <3> QED BY <3>1 DEF s
  <2> HIDE DEF Good
  <2> QED BY <2>1, <2>9
<1>11. Good(n)
  <2>1. 0 .. n \subseteq T
    <3> HIDE DEF T
    <3> QED BY <1>1, <1>9, <1>10, UpTo
  <2>2. n \in 0 .. n
    BY <1>1
  <2> HIDE DEF Good
  <2> QED BY <2>1, <2>2
<1> DEFINE palette == iter[1 .. n]
<1>12. palette \in Seq(States) /\ Len(palette) <= n /\ \A k \in 1 .. n : Contains(palette, F[k])
  BY <1>11
<1> HIDE DEF palette, Good, T
<1>13. \A i \in Index : \E k \in 1 .. Len(palette) : palette[k] = blocks[i]
  BY <1>5, <1>12 DEF Contains
<1>14. Len(palette) \in 1 .. n
  <2>1. Len(palette) \in Nat
    BY <1>12
  <2>2. \E k \in 1 .. Len(palette) : TRUE
    BY <1>4, <1>12 DEF Contains
  <2> QED BY <1>1, <1>12, <2>1, <2>2
<1> QED BY <1>3, <1>12, <1>13, <1>14 DEF palette, n

\* bits_for is wide enough for the indices of its palette, and a width.
LEMMA BitsSuffice ==
  ASSUME NEW n \in 1 .. SIDE * SIDE * SIDE
  PROVE  bits_for(n) \in 0 .. LONG_BITS /\ n <= 2 ^ bits_for(n)
<1> DEFINE B == {b \in 0 .. LONG_BITS : 2 ^ b >= n}
<1>1. LONG_BITS \in Nat \ {0} /\ SIDE * SIDE * SIDE \in Nat
  BY SizesAssumption
<1>2. LONG_BITS \in B
  <2>1. 2 ^ LONG_BITS \in Nat
    BY <1>1, PowerPositive
  <2> DEFINE w == 2 ^ LONG_BITS
  <2>2. SIDE * SIDE * SIDE <= w /\ w \in Nat
    BY <2>1, LengthAssumption
  <2>3. w >= n
    <3> HIDE DEF w
    <3> QED BY <1>1, <2>2
  <2> QED BY <1>1, <2>3
<1>3. \E b \in B : \A y \in B : b <= y
  <2>1. B \in SUBSET Nat /\ B # {}
    BY <1>1, <1>2
  <2> HIDE DEF B
  <2> QED BY <2>1, LeastNatural
<1>4. Min(B) \in B
  <2> HIDE DEF B
  <2> QED BY <1>3 DEF Min
<1>5. bits_for(n) = Min(B)
  BY DEF bits_for
<1> DEFINE m == Min(B)
<1>6. m \in 0 .. LONG_BITS /\ 2 ^ m >= n
  BY <1>4
<1>7. n <= 2 ^ m
  <2>1. 2 ^ m \in Nat
    BY <1>6, PowerPositive
  <2> DEFINE w == 2 ^ m
  <2>2. w \in Nat /\ w >= n
    BY <1>6, <2>1
  <2>3. n <= w
    <3> HIDE DEF w, m
    <3> QED BY <1>1, <2>2
  <2> QED BY <2>3
<1> HIDE DEF m, B
<1> QED BY <1>5, <1>6, <1>7 DEF m

-----------------------------------------------------------------------------
(***************************************************************************)
(* The packing.  A long is the sum of its values, each shifted to its      *)
(* slot.                                                                   *)
(***************************************************************************)
Some(s) == CHOOSE x \in s : TRUE

Shifted(values, bits, i) == (values[i] % 2 ^ bits) * 2 ^ ((i % per_long(bits)) * bits)

\* sum is the recursion of the fold over the entries in G.
SumSteps(sum, G, values, bits) ==
  sum = [s \in SUBSET G |->
           IF s = {} THEN 0 ELSE Shifted(values, bits, Some(s)) + sum[s \ {Some(s)}]]

\* Every width that a container uses leaves room for one entry in a long.
LEMMA PerLong ==
  ASSUME NEW bits \in 1 .. LONG_BITS
  PROVE  per_long(bits) \in Nat \ {0}
<1>1. LONG_BITS \in Nat \ {0} /\ bits \in Nat \ {0} /\ bits <= LONG_BITS
  BY SizesAssumption
<1> DEFINE q == LONG_BITS \div bits
           r == LONG_BITS % bits
<1>2. q \in Int /\ r \in 0 .. bits - 1 /\ LONG_BITS = bits * q + r
  BY <1>1, DivModFacts
<1>3. q >= 1
  <2> SUFFICES ASSUME -q + 1 >= 1 PROVE FALSE
    BY <1>2
  <2> HIDE DEF q, r
  <2>1. bits * (-q + 1) >= bits
    BY <1>1, <1>2, MulPositive
  <2>2. bits * (-q + 1) = bits - bits * q /\ bits * q \in Int
    BY <1>1, <1>2
  <2> QED BY <1>1, <1>2, <2>1, <2>2
<1> QED BY <1>2, <1>3 DEF per_long

\* The recursion has a solution: the shifted values are numbers.
LEMMA SumStepsExist ==
  ASSUME NEW G, IsFiniteSet(G), NEW values, NEW bits,
         \A i \in G : Shifted(values, bits, i) \in Nat
  PROVE  \E sum \in [SUBSET G -> Nat] : SumSteps(sum, G, values, bits)
<1> DEFINE pick == [s \in SUBSET G |-> Some(s)]
           combine == [x \in G |-> [a \in Nat |-> Shifted(values, bits, x) + a]]
<1>1. \A s \in SUBSET G : s # {} => Some(s) \in s
  BY DEF Some
<1>2. \A s \in SUBSET G : s # {} => pick[s] \in s
  BY <1>1
<1>3. \A x \in G, a \in Nat : combine[x][a] \in Nat
  OBVIOUS
<1>4. PICK g : g \in [SUBSET G -> Nat] /\ Recursive1(g, G, 0, pick, combine)
  <2> HIDE DEF pick, combine
  <2> QED BY <1>2, <1>3, SubsetRecursion
<1>5. ASSUME NEW s \in SUBSET G
      PROVE  g[s] = IF s = {} THEN 0 ELSE Shifted(values, bits, Some(s)) + g[s \ {Some(s)}]
  <2>1. g[s] = Next1(g, s, 0, pick, combine)
    BY <1>4 DEF Recursive1
  <2>2. CASE s = {}
    BY <2>1, <2>2 DEF Next1
  <2>3. CASE s # {}
    <3>1. Some(s) \in G /\ pick[s] = Some(s) /\ s \ {Some(s)} \in SUBSET G
      BY <1>1, <2>3
    <3>2. g[s \ {Some(s)}] \in Nat
      BY <1>4, <3>1
    <3>3. g[s] = combine[Some(s)][g[s \ {Some(s)}]]
      <4> HIDE DEF combine, pick
      <4> QED BY <2>1, <2>3, <3>1 DEF Next1
    <3> HIDE DEF pick
    <3> QED BY <2>3, <3>1, <3>2, <3>3
  <2> QED BY <2>2, <2>3
<1>6. SumSteps(g, G, values, bits)
  BY <1>4, <1>5 DEF SumSteps
<1> QED BY <1>4, <1>6

Group(bits, l) == {i \in Index : i \div per_long(bits) = l}

LongOf(values, bits, l) ==
  MapThenSumSet(LAMBDA i : (values[i] % 2 ^ bits) * 2 ^ ((i % per_long(bits)) * bits),
                Group(bits, l))

\* A long is the sum over its group that the recursion SumSteps reaches.
LEMMA LongIsSum ==
  ASSUME NEW values, NEW bits, NEW l
  PROVE  LongOf(values, bits, l)
           = (CHOOSE sum : SumSteps(sum, Group(bits, l), values, bits))[Group(bits, l)]
BY Zenon DEF LongOf, MapThenSumSet, MapThenFoldSet, SumSteps, Shifted, Some

\* A long holds each of its values in its slot.
LEMMA LongHolds ==
  ASSUME NEW bits \in 1 .. LONG_BITS, NEW values \in [Index -> 0 .. 2 ^ bits - 1], NEW l \in Int
  PROVE  \A i \in Group(bits, l) :
           (LongOf(values, bits, l) \div 2 ^ ((i % per_long(bits)) * bits)) % 2 ^ bits = values[i]
<1> DEFINE k == per_long(bits)
           G == Group(bits, l)
           B == 2 ^ bits
           slot == [i \in G |-> i % k]
           v == [i \in G |-> values[i]]
           sum == CHOOSE it : SumSteps(it, G, values, bits)
<1>1. bits \in Nat /\ k \in Nat \ {0} /\ B \in Nat \ {0}
  <2>1. bits \in Nat
    BY SizesAssumption
  <2> QED BY <2>1, PerLong, PowerPositive
<1>2. IsFiniteSet(G) /\ G \subseteq Index /\ \A i \in G : i \in Int /\ i \div k = l
  <2>1. IsFiniteSet(0 .. SIDE * SIDE * SIDE - 1)
    <3> DEFINE n == SIDE * SIDE * SIDE - 1
    <3>1. n \in Int
      BY SizesAssumption
    <3> HIDE DEF n
    <3>2. IsFiniteSet(0 .. n)
      BY <3>1, FS_Interval
    <3> QED BY <3>2 DEF n
  <2>2. IsFiniteSet(Index) /\ G \subseteq Index
    BY <2>1 DEF Index, Group
  <2>3. \A i \in G : i \in Int /\ i \div k = l
    BY DEF Group, Index
  <2> QED BY <2>2, <2>3, FS_Subset
<1> HIDE DEF k, G, B
<1>3. \A i \in G : i % k \in 0 .. k - 1 /\ i = k * l + (i % k)
  <2> SUFFICES ASSUME NEW i \in G PROVE i % k \in 0 .. k - 1 /\ i = k * l + (i % k)
    OBVIOUS
  <2>1. i \in Int /\ i \div k = l
    BY <1>2
  <2> QED BY <1>1, <2>1, DivModFacts
<1>4. slot \in [G -> Nat] /\ \A x, y \in G : slot[x] = slot[y] => x = y
  <2>1. \A i \in G : i % k \in Nat
    BY <1>1, <1>3
  <2>2. ASSUME NEW x \in G, NEW y \in G, x % k = y % k PROVE x = y
    BY <1>3, <2>2
  <2> QED BY <2>1, <2>2
<1>5. v \in [G -> 0 .. B - 1] /\ \A i \in G : v[i] = values[i] /\ slot[i] = i % k
  BY <1>2 DEF B
<1> HIDE DEF v, slot
<1>6. \A i \in G : Shifted(values, bits, i) = v[i] * 2 ^ (slot[i] * bits)
  <2> SUFFICES ASSUME NEW i \in G
               PROVE  Shifted(values, bits, i) = v[i] * 2 ^ (slot[i] * bits)
    OBVIOUS
  <2>1. v[i] % B = v[i]
    <3>1. v[i] \in 0 .. B - 1
      BY <1>5
    <3>2. v[i] = 0 * B + v[i]
      BY <1>1, <3>1
    <3> QED BY ONLY <1>1, <3>1, <3>2, DivModUnique
  <2> QED BY <1>5, <2>1 DEF Shifted, B, k
<1>7. \A i \in G : Shifted(values, bits, i) \in Nat
  <2> SUFFICES ASSUME NEW i \in G PROVE Shifted(values, bits, i) \in Nat
    OBVIOUS
  <2>1. slot[i] * bits \in Nat
    BY <1>1, <1>4
  <2> DEFINE w == 2 ^ (slot[i] * bits)
  <2>2. w \in Nat
    BY <2>1, PowerPositive
  <2>3. v[i] \in Nat
    BY <1>1, <1>5
  <2>4. Shifted(values, bits, i) = v[i] * w
    BY <1>6
  <2> HIDE DEF w
  <2> QED BY <2>2, <2>3, <2>4
<1>8. PICK it \in [SUBSET G -> Nat] : SumSteps(it, G, values, bits)
  BY <1>2, <1>7, SumStepsExist
<1>9. LongOf(values, bits, l) = sum[G] /\ SumSteps(sum, G, values, bits)
  <2>1. LongOf(values, bits, l) = sum[G]
    BY LongIsSum, Zenon DEF G
  <2> QED BY <1>8, <2>1
<1> HIDE DEF sum
<1> DEFINE pick == [s \in SUBSET G |-> Some(s)]
<1>10. \A s \in SUBSET G :
         sum[s] = IF s = {} THEN 0 ELSE Shifted(values, bits, Some(s)) + sum[s \ {Some(s)}]
  <2>1. sum = [s \in SUBSET G |->
                 IF s = {} THEN 0 ELSE Shifted(values, bits, Some(s)) + sum[s \ {Some(s)}]]
    BY <1>9 DEF SumSteps
  <2> QED BY ONLY <2>1
<1>11. \A s \in SUBSET G : s # {} => pick[s] = Some(s) /\ pick[s] \in s
  BY DEF Some
<1> HIDE DEF pick
<1>12. sum[{}] = 0 /\ DOMAIN sum = SUBSET G /\ sum = [s \in SUBSET G |-> sum[s]]
  <2>1. sum[{}] = 0
    BY <1>10
  <2> QED BY <1>9, <2>1 DEF SumSteps
<1>13. \A s \in SUBSET G : s # {} =>
         sum[s] = v[pick[s]] * 2 ^ (slot[pick[s]] * bits) + sum[s \ {pick[s]}]
  BY <1>6, <1>10, <1>11
<1>14. \A s \in SUBSET G : sum[s] \in Nat
  <2> DEFINE F == {s \in SUBSET G : sum[s] \in Nat}
  <2>1. ASSUME NEW s \in SUBSET G, \A x \in s : s \ {x} \in F PROVE s \in F
    <3>1. CASE s = {}
      BY <1>12, <3>1
    <3>2. CASE s # {}
      <4>1. Some(s) \in s /\ sum[s \ {Some(s)}] \in Nat
        BY <1>11, <2>1, <3>2
      <4>2. Shifted(values, bits, Some(s)) \in Nat
        BY <1>7, <4>1
      <4>3. sum[s] = Shifted(values, bits, Some(s)) + sum[s \ {Some(s)}]
        BY <1>10, <3>2
      <4> QED BY <4>1, <4>2, <4>3
    <3> QED BY <3>1, <3>2
  <2>2. \A s \in SUBSET G : s \in F
    <3> HIDE DEF F
    <3> QED BY <1>2, <2>1, ForAllSubsets
  <2> QED BY <2>2
<1>15. sum \in [SUBSET G -> Nat]
  BY <1>12, <1>14
<1>16. \A j \in G : DigitAt(sum[G], slot[j], bits) = v[j]
  <2>1. bits \in Nat /\ IsFiniteSet(G) /\ v \in [G -> 0 .. 2 ^ bits - 1]
    BY <1>1, <1>2, <1>5 DEF B
  <2>2. slot \in [G -> Nat] /\ (\A x, y \in G : slot[x] = slot[y] => x = y)
    BY <1>4
  <2>3. \A s \in SUBSET G : s # {} => pick[s] \in s
    BY <1>11
  <2>4. sum \in [SUBSET G -> Nat] /\ sum[{}] = 0
    BY <1>12, <1>15
  <2>5. PackedBy(G, bits, slot, v, sum, pick)
    BY ONLY <2>1, <2>2, <2>3, <2>4, <1>13, Zenon DEF PackedBy
  <2> QED BY <2>5, PackedDigits
<1>17. \A j \in G : DigitAt(LongOf(values, bits, l), j % k, bits) = values[j]
  BY <1>5, <1>9, <1>16
<1> QED BY <1>17, Zenon DEF G, k, DigitAt

\* Every entry's long is among those that are written.
LEMMA LongsSuffice ==
  ASSUME NEW k \in Nat \ {0}
  PROVE  /\ div_ceil(SIDE * SIDE * SIDE, k) \in Nat
         /\ \A i \in Index : i \div k + 1 \in 1 .. div_ceil(SIDE * SIDE * SIDE, k)
<1> DEFINE n == SIDE * SIDE * SIDE
           a == n + k - 1
           m == a \div k
           r == a % k
<1>1. n \in Nat \ {0}
  BY SizesAssumption
<1> HIDE DEF n
<1>2. m \in Int /\ r \in 0 .. k - 1 /\ n + k - 1 = k * m + r
  <2>1. a \in Int
    BY <1>1
  <2> HIDE DEF a
  <2>2. m \in Int /\ r \in 0 .. k - 1 /\ a = k * m + r
    BY <2>1, DivModFacts
  <2> QED BY <2>2 DEF a
<1> HIDE DEF m, r
<1>3. k * m \in Int /\ k * m = m * k
  BY <1>2
<1>4. m * k >= n
  BY <1>1, <1>2, <1>3
<1>5. m \in Nat
  <2> SUFFICES ASSUME -m >= 1 PROVE FALSE
    BY <1>2
  <2>1. k * (-m) >= k
    BY <1>2, MulPositive
  <2>2. k * (-m) = -(k * m)
    BY <1>2
  <2> QED BY <1>1, <1>3, <1>4, <2>1, <2>2
<1>6. ASSUME NEW i \in Index PROVE i \div k + 1 \in 1 .. m
  <2>1. i \in 0 .. m * k - 1
    BY <1>1, <1>3, <1>4 DEF Index, n
  <2>2. i \div k \in 0 .. m - 1
    BY <1>5, <2>1, QuotientBelow
  <2> DEFINE q == i \div k
  <2>3. q \in 0 .. m - 1
    BY <2>2
  <2> HIDE DEF q
  <2>4. q + 1 \in 1 .. m
    BY <1>5, <2>3
  <2> QED BY <2>4 DEF q
<1> QED BY <1>5, <1>6 DEF div_ceil, m, a, n

(***************************************************************************)
(* pack_into (chunk.rs:163-178): values that fit the width come back, each *)
(* from the slot where a reader of that width looks for it, in as many     *)
(* longs as it expects.                                                    *)
(***************************************************************************)
THEOREM PackRoundTrip ==
  ASSUME NEW bits \in 1 .. LONG_BITS, NEW values \in [Index -> 0 .. 2 ^ bits - 1]
  PROVE  LET longs == pack_into(values, bits)
         IN  /\ Len(longs) = div_ceil(SIDE * SIDE * SIDE, per_long(bits))
             /\ \A i \in Index :
                  (longs[i \div per_long(bits) + 1] \div 2 ^ ((i % per_long(bits)) * bits))
                     % 2 ^ bits = values[i]
<1> DEFINE k == per_long(bits)
           m == div_ceil(SIDE * SIDE * SIDE, k)
           longs == pack_into(values, bits)
<1>1. k \in Nat \ {0}
  BY PerLong
<1>2. m \in Nat /\ \A i \in Index : i \div k + 1 \in 1 .. m
  BY <1>1, LongsSuffice
<1>3. longs = [l \in 1 .. m |-> LongOf(values, bits, l - 1)]
  BY Zenon DEF pack_into, LongOf, Group
<1> HIDE DEF longs, m
<1>4. Len(longs) = m
  BY <1>2, <1>3
<1>5. ASSUME NEW i \in Index
      PROVE  (longs[i \div k + 1] \div 2 ^ ((i % k) * bits)) % 2 ^ bits = values[i]
  <2> DEFINE l == i \div k
  <2>1. l \in Int /\ l + 1 \in 1 .. m
    <3>1. i \in Int
      BY SizesAssumption DEF Index
    <3> QED BY <1>1, <1>2, <3>1, DivModFacts
  <2>2. i \in Group(bits, l)
    BY DEF Group
  <2> HIDE DEF l, k
  <2>3. longs[l + 1] = LongOf(values, bits, l)
    <3>1. (l + 1) - 1 = l
      BY <2>1
    <3> QED BY <1>3, <2>1, <3>1
  <2>4. (LongOf(values, bits, l) \div 2 ^ ((i % per_long(bits)) * bits)) % 2 ^ bits = values[i]
    BY <2>1, <2>2, LongHolds
  <2> QED BY <2>3, <2>4 DEF l, k
<1> QED BY <1>4, <1>5 DEF longs, m

\* The widths of the format, and what the client takes them for.
LEMMA Widths ==
  /\ DIRECT_BITS \in 1 .. LONG_BITS /\ DIRECT_BITS > MAX_BITS
  /\ client_bits(DIRECT_BITS) = DIRECT_BITS
  /\ \A n \in 1 .. SIDE * SIDE * SIDE : bits_for(n) <= MAX_BITS =>
       /\ indirect_bits(n) \in 1 .. LONG_BITS /\ indirect_bits(n) <= MAX_BITS
       /\ client_bits(indirect_bits(n)) = indirect_bits(n)
       /\ n <= 2 ^ indirect_bits(n)
<1>1. /\ {LONG_BITS, MIN_BITS, MAX_BITS, DIRECT_BITS} \subseteq Nat \ {0}
      /\ MIN_BITS <= MAX_BITS /\ MAX_BITS < DIRECT_BITS /\ DIRECT_BITS <= LONG_BITS
  BY SizesAssumption
<1>2. ASSUME NEW a \in Int, NEW b \in Int
      PROVE  Max({a, b}) = IF a >= b THEN a ELSE b
  <2> DEFINE m == IF a >= b THEN a ELSE b
  <2>1. m \in {a, b} /\ \A y \in {a, b} : m >= y
    OBVIOUS
  <2>2. \A x \in {a, b} : (\A y \in {a, b} : x >= y) => x = m
    OBVIOUS
  <2> HIDE DEF m
  <2>3. Max({a, b}) = m
    BY <2>1, <2>2 DEF Max
  <2> QED BY <2>3 DEF m
<1>3. DIRECT_BITS \in 1 .. LONG_BITS /\ DIRECT_BITS > MAX_BITS /\ client_bits(DIRECT_BITS) = DIRECT_BITS
  BY <1>1 DEF client_bits
<1>4. ASSUME NEW n \in 1 .. SIDE * SIDE * SIDE, bits_for(n) <= MAX_BITS
      PROVE  /\ indirect_bits(n) \in 1 .. LONG_BITS /\ indirect_bits(n) <= MAX_BITS
             /\ client_bits(indirect_bits(n)) = indirect_bits(n)
             /\ n <= 2 ^ indirect_bits(n)
  <2> DEFINE a == bits_for(n)
             b == indirect_bits(n)
  <2>1. a \in 0 .. LONG_BITS /\ n <= 2 ^ a /\ a \in Nat
    BY <1>1, BitsSuffice
  <2>2. b = IF a >= MIN_BITS THEN a ELSE MIN_BITS
    <3>1. MIN_BITS \in Int /\ a \in Int
      BY <1>1, <2>1
    <3> HIDE DEF a
    <3> QED BY <1>2, <3>1 DEF indirect_bits, a
  <2>3. a <= MAX_BITS
    BY <1>4
  <2> HIDE DEF a, b
  <2>4. b \in 1 .. LONG_BITS /\ b <= MAX_BITS /\ b >= MIN_BITS /\ b \in Nat /\ a <= b
    BY <1>1, <2>1, <2>2, <2>3
  <2>5. client_bits(b) = b
    <3>1. Max({b, MIN_BITS}) = b
      BY <1>1, <1>2, <2>4
    <3> QED BY <1>1, <2>4, <3>1 DEF client_bits
  <2>6. n <= 2 ^ b
    <3>1. 2 ^ a <= 2 ^ b /\ 2 ^ a \in Nat /\ 2 ^ b \in Nat
      BY <2>1, <2>4, PowerGrows, PowerPositive
    <3> DEFINE x == 2 ^ a
               y == 2 ^ b
    <3>2. n \in Int /\ n <= x /\ x <= y /\ x \in Nat /\ y \in Nat
      BY <2>1, <3>1
    <3>3. n <= y
      <4> HIDE DEF x, y
      <4> QED BY <3>2
    <3> QED BY <3>3
  <2> QED BY <2>4, <2>5, <2>6 DEF b
<1> QED BY <1>3, <1>4

(***************************************************************************)
(* encode_block_section (chunk.rs:104-142): whatever states a section      *)
(* holds, the container is one that a client accepts, and it reads the     *)
(* same states from it: uniform, through a palette, or directly.           *)
(***************************************************************************)
THEOREM SectionRoundTrip ==
  ASSUME NEW blocks \in [Index -> States]
  PROVE  /\ client_accepts(encode_block_section(blocks))
         /\ client_reads(encode_block_section(blocks)) = blocks
<1> DEFINE palette == palette_of(blocks)
           n == Len(palette)
           index_of == [b \in Range(blocks) |-> CHOOSE k \in 0 .. n - 1 : palette[k + 1] = b]
           indices == [i \in Index |-> index_of[blocks[i]]]
           bits == indirect_bits(n)
           container == encode_block_section(blocks)
<1>1. /\ palette \in Seq(States)
      /\ n \in 1 .. SIDE * SIDE * SIDE
      /\ \A i \in Index : \E k \in 1 .. n : palette[k] = blocks[i]
  BY PaletteHoldsAll
<1>2. n \in Nat \ {0}
  BY <1>1, SizesAssumption
<1>3. MAX_BITS \in Nat \ {0} /\ DIRECT_BITS \in Nat \ {0} /\ DIRECT_BITS > MAX_BITS
  BY SizesAssumption
<1>4. container =
        IF n = 1 THEN single_value_container(palette[1])
        ELSE IF bits_for(n) <= MAX_BITS
          THEN [bits |-> bits, palette |-> palette, longs |-> pack_into(indices, bits)]
          ELSE [bits |-> DIRECT_BITS, palette |-> <<>>, longs |-> pack_into(blocks, DIRECT_BITS)]
  <2>1. n = 1 \/ n > 1
    BY <1>2
  <2> DEFINE single   == single_value_container(palette[1])
             indirect == [bits |-> bits, palette |-> palette, longs |-> pack_into(indices, bits)]
             direct   == [bits |-> DIRECT_BITS, palette |-> <<>>,
                          longs |-> pack_into(blocks, DIRECT_BITS)]
             fits     == bits_for(n) <= MAX_BITS
  <2>2. container = CASE n = 1 -> single [] n > 1 /\ fits -> indirect [] OTHER -> direct
    BY DEF encode_block_section
  <2> HIDE DEF container, single, indirect, direct, fits, n
  <2>3. ~ (n = 1 /\ n > 1)
    BY <1>2
  <2>4. container = IF n = 1 THEN single ELSE IF fits THEN indirect ELSE direct
    BY <2>1, <2>2, <2>3
  <2> QED BY <2>4 DEF single, indirect, direct, fits
<1>5. \A i \in Index : indices[i] \in 0 .. n - 1 /\ palette[indices[i] + 1] = blocks[i]
  <2> SUFFICES ASSUME NEW i \in Index
               PROVE  indices[i] \in 0 .. n - 1 /\ palette[indices[i] + 1] = blocks[i]
    OBVIOUS
  <2>1. \E k \in 0 .. n - 1 : palette[k + 1] = blocks[i]
    <3>1. PICK k \in 1 .. n : palette[k] = blocks[i]
      BY <1>1
    <3>2. k - 1 \in 0 .. n - 1 /\ (k - 1) + 1 = k
      BY <1>2
    <3> HIDE DEF palette, n
    <3> QED BY <3>1, <3>2
  <2>2. blocks[i] \in Range(blocks)
    BY DEF Range
  <2>3. indices[i] = CHOOSE k \in 0 .. n - 1 : palette[k + 1] = blocks[i]
    <3> HIDE DEF palette, n
    <3> QED BY <2>2
  <2> HIDE DEF palette, n, indices
  <2> QED BY <2>1, <2>3
<1> HIDE DEF container, palette, n, index_of, indices, bits
<1>6. client_reads(container) = [i \in Index |-> client_reads(container)[i]]
  BY DEF client_reads
<1>7. CASE n = 1
  <2>1. container = single_value_container(palette[1])
    BY <1>4, <1>7
  <2>2. container.bits = 0 /\ container.palette[1] = palette[1]
    BY <2>1 DEF single_value_container
  <2>3. \A i \in Index : palette[1] = blocks[i]
    BY <1>1, <1>7
  <2>4. client_accepts(container)
    BY <2>2 DEF client_accepts
  <2>5. \A i \in Index : client_reads(container)[i] = blocks[i]
    BY <2>2, <2>3 DEF client_reads
  <2> QED BY <1>6, <2>4, <2>5 DEF container
<1>8. CASE n # 1 /\ bits_for(n) <= MAX_BITS
  <2>1. container = [bits |-> bits, palette |-> palette, longs |-> pack_into(indices, bits)]
    BY <1>4, <1>8
  <2>2. /\ bits \in 1 .. LONG_BITS /\ bits <= MAX_BITS
        /\ client_bits(bits) = bits /\ n <= 2 ^ bits
    BY <1>1, <1>8, Widths DEF bits
  <2>3. bits \in Nat /\ bits # 0 /\ ~ (bits > MAX_BITS)
    BY <1>3, <2>2
  <2>4. indices \in [Index -> 0 .. 2 ^ bits - 1]
    <3> DEFINE w == 2 ^ bits
    <3>1. w \in Nat /\ n <= w
      BY <2>2, <2>3, PowerPositive
    <3> HIDE DEF w
    <3>2. \A i \in Index : indices[i] \in 0 .. w - 1
      BY <1>2, <1>5, <3>1
    <3>3. indices \in [Index -> 0 .. w - 1]
      BY <3>2 DEF indices
    <3> QED BY <3>3 DEF w
  <2>5. /\ Len(container.longs) = div_ceil(SIDE * SIDE * SIDE, per_long(bits))
        /\ \A i \in Index : client_entry(container, i) = indices[i]
    <3>1. container.longs = pack_into(indices, bits) /\ container.bits = bits
      BY <2>1
    <3> QED BY <2>2, <2>4, <3>1, PackRoundTrip DEF client_entry
  <2>6. client_accepts(container)
    <3>1. \A i \in Index : indices[i] < n
      BY <1>2, <1>5
    <3>2. container.bits = bits /\ Len(container.palette) = n
      BY <2>1 DEF n
    <3> QED BY <2>2, <2>5, <3>1, <3>2 DEF client_accepts
  <2>7. \A i \in Index : client_reads(container)[i] = blocks[i]
    <3>1. container.bits = bits /\ container.palette = palette
      BY <2>1
    <3> QED BY <1>5, <2>3, <2>5, <3>1 DEF client_reads
  <2> QED BY <1>6, <2>6, <2>7 DEF container
<1>9. CASE n # 1 /\ ~ (bits_for(n) <= MAX_BITS)
  <2>1. container = [bits |-> DIRECT_BITS, palette |-> <<>>, longs |-> pack_into(blocks, DIRECT_BITS)]
    BY <1>4, <1>9
  <2>2. container.bits = DIRECT_BITS /\ container.longs = pack_into(blocks, DIRECT_BITS)
    BY <2>1
  <2>3. DIRECT_BITS \in 1 .. LONG_BITS /\ client_bits(DIRECT_BITS) = DIRECT_BITS
    BY Widths
  <2>4. blocks \in [Index -> 0 .. 2 ^ DIRECT_BITS - 1]
    BY DEF States
  <2>5. /\ Len(container.longs) = div_ceil(SIDE * SIDE * SIDE, per_long(DIRECT_BITS))
        /\ \A i \in Index : client_entry(container, i) = blocks[i]
    BY <2>2, <2>3, <2>4, PackRoundTrip DEF client_entry
  <2>6. ~ (DIRECT_BITS <= MAX_BITS) /\ DIRECT_BITS # 0
    BY <1>3
  <2>7. client_accepts(container)
    BY <2>2, <2>3, <2>5, <2>6 DEF client_accepts
  <2>8. \A i \in Index : client_reads(container)[i] = blocks[i]
    BY <1>3, <2>2, <2>5, <2>6 DEF client_reads
  <2> QED BY <1>6, <2>7, <2>8 DEF container
<1> QED BY <1>7, <1>8, <1>9

\* What a client reads of a section that was sent to it.
LEMMA SectionRead ==
  ASSUME EditsTyped, NEW c \in Int \X Int, NEW s \in Sections
  PROVE  LET container == section(s, ChunkEdits(edits, c)).container
         IN  /\ client_accepts(container)
             /\ \A i \in Index :
                  client_reads(container)[i] = StateAt(edits, client_position(c, s, i), s)
<1> DEFINE f == ChunkEdits(edits, c)
           blocks == section_blocks(s, f)
           container == section(s, f).container
<1>1. DOMAIN edits \subseteq Int \X Int \X Int /\ \A p \in DOMAIN edits : edits[p] \in States
  BY DEF EditsTyped
<1>2. CASE \E p \in DOMAIN f : in_section(p, s)
  <2>1. container = encode_block_section(blocks)
    <3> HIDE DEF f
    <3> QED BY <1>2 DEF section
  <2>2. blocks = [i \in Index |-> StateAt(edits, client_position(c, s, i), s)]
    BY <1>1, SectionShows
  <2> HIDE DEF blocks, container
  <2>3. blocks \in [Index -> States]
    <3>1. \A p : StateAt(edits, p, s) \in States
      BY <1>1, BaseStates DEF StateAt
    <3> QED BY <2>2, <3>1
  <2>4. client_accepts(container) /\ client_reads(container) = blocks
    BY <2>1, <2>3, SectionRoundTrip
  <2> QED BY <2>2, <2>4 DEF container
<1>3. CASE \A p \in DOMAIN f : ~ in_section(p, s)
  <2>1. container = single_value_container(base(s))
    <3> HIDE DEF f
    <3> QED BY <1>3 DEF section
  <2>2. container.bits = 0 /\ container.palette[1] = base(s)
    <3> HIDE DEF container
    <3> QED BY <2>1 DEF single_value_container
  <2>3. \A i \in Index : StateAt(edits, client_position(c, s, i), s) = base(s)
    BY <1>3, SectionPlain
  <2> HIDE DEF container
  <2> QED BY <2>2, <2>3 DEF container, client_accepts, client_reads
<1> QED BY <1>2, <1>3

(***************************************************************************)
(* play.rs:115-150 with chunk.rs: whoever is sent a chunk reads from it,   *)
(* block by block, what a client shows that has followed the updates since *)
(* the start; for every size of the world, of its sections and fields, and *)
(* every number of edits.                                                  *)
(***************************************************************************)
THEOREM ViewsNeverDiffer == Spec => []ViewsAgree
<1>1. EditsTyped /\ UpdatesFollowEdits => ViewsAgree
  <2> SUFFICES ASSUME EditsTyped, UpdatesFollowEdits, NEW c \in Area, NEW s \in Sections
               PROVE  LET container == flat_chunk(chunk_edits(c))[s].container
                      IN  /\ client_accepts(container)
                          /\ \A i \in Index :
                               client_reads(container)[i] = Shown(client_position(c, s, i), s)
    BY DEF ViewsAgree
  <2>1. c \in Int \X Int
    BY AreaAssumption
  <2>2. flat_chunk(chunk_edits(c))[s] = section(s, ChunkEdits(edits, c))
    BY ChunkEditsAre DEF flat_chunk
  <2>3. \A i \in Index :
          Shown(client_position(c, s, i), s) = StateAt(edits, client_position(c, s, i), s)
    BY DEF UpdatesFollowEdits, Shown, StateAt
  <2>4. LET container == section(s, ChunkEdits(edits, c)).container
        IN  /\ client_accepts(container)
            /\ \A i \in Index :
                 client_reads(container)[i] = StateAt(edits, client_position(c, s, i), s)
    BY <2>1, SectionRead
  <2> QED BY <2>2, <2>3, <2>4
<1> QED BY <1>1, Types, EditsAnnounced, PTL
=============================================================================
