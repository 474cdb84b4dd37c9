-------------------------------- MODULE Position --------------------------------
(***************************************************************************)
(* Block and chunk coordinates of crates/server/src/play.rs.  A block      *)
(* position travels as one 64-bit word: x, z and y in fields of 26, 26 and *)
(* 12 bits, each two's complement.  The word is modelled as the unsigned   *)
(* number its bits spell, the field sizes are parameters:                  *)
(* XZ_VALUES = 2^26 and Y_VALUES = 2^12 in the code.                       *)
(***************************************************************************)
EXTENDS Faces

CONSTANTS
  XZ_VALUES,  \* values of the x and z fields
  Y_VALUES,   \* values of the y field
  I32_MAX     \* the largest i32, 2^31 - 1

ASSUME FieldsAssumption ==
  /\ XZ_VALUES \in Nat \ {0} /\ XZ_VALUES % 2 = 0
  /\ Y_VALUES \in Nat \ {0} /\ Y_VALUES % 2 = 0
ASSUME WidthAssumption == I32_MAX \in Nat /\ I32_MAX > 16

XZField == -(XZ_VALUES \div 2) .. XZ_VALUES \div 2 - 1
YField  == -(Y_VALUES \div 2) .. Y_VALUES \div 2 - 1

\* The positions a word can hold.
Packable == XZField \X YField \X XZField

\* Those that have a neighbour on every side among them.
Interior ==
  (-(XZ_VALUES \div 2) + 1 .. XZ_VALUES \div 2 - 2)
    \X (-(Y_VALUES \div 2) + 1 .. Y_VALUES \div 2 - 2)
    \X (-(XZ_VALUES \div 2) + 1 .. XZ_VALUES \div 2 - 2)

Packed == 0 .. XZ_VALUES * XZ_VALUES * Y_VALUES - 1

\* Shifting a field to the top and arithmetically back down.
sign_extend(field, values) == IF field < values \div 2 THEN field ELSE field - values

decode_position(packed) ==
  <<sign_extend(packed \div (XZ_VALUES * Y_VALUES), XZ_VALUES),
    sign_extend(packed % Y_VALUES, Y_VALUES),
    sign_extend((packed \div Y_VALUES) % XZ_VALUES, XZ_VALUES)>>

\* The masks keep the low bits: the value modulo the field's size.
encode_position(x, y, z) ==
  ((x % XZ_VALUES) * XZ_VALUES + (z % XZ_VALUES)) * Y_VALUES + (y % Y_VALUES)

offset_block(packed, face) == neighbour(decode_position(packed), face)

-----------------------------------------------------------------------------
I32_MIN == -I32_MAX - 1

\* `as i32` on a floored float: out of range values saturate.
as_i32(n) == IF n < I32_MIN THEN I32_MIN ELSE IF n > I32_MAX THEN I32_MAX ELSE n

\* The chunk of a player whose coordinates floor to x and z.
chunk_of(x, z) == <<as_i32(x) \div 16, as_i32(z) \div 16>>
=============================================================================
