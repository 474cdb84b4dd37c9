----------------------------- MODULE ChunkEncoding -----------------------------
(***************************************************************************)
(* flat_chunk, crates/server/src/chunk.rs: a column of sections, each a    *)
(* paletted container packed into longs, and the reader that a client has  *)
(* for it.  Sizes are parameters; the code has SIDE = 16, 24 sections from *)
(* y = -64, stone up to 63, longs of 64 bits, palettes of 4 to 8 bits and  *)
(* direct entries of 15.  A long is the number its bits spell.             *)
(***************************************************************************)
EXTENDS Integers, Sequences, SequencesExt, FiniteSetsExt, Functions

CONSTANTS SIDE, SECTION_COUNT, MIN_Y, STONE_TOP_Y,
          LONG_BITS, MIN_BITS, MAX_BITS, DIRECT_BITS

ASSUME SizesAssumption ==
  /\ {SIDE, SECTION_COUNT} \subseteq Nat \ {0}
  /\ {MIN_Y, STONE_TOP_Y} \subseteq Int
  /\ {LONG_BITS, MIN_BITS, MAX_BITS, DIRECT_BITS} \subseteq Nat \ {0}
  /\ MIN_BITS <= MAX_BITS /\ MAX_BITS < DIRECT_BITS /\ DIRECT_BITS <= LONG_BITS

\* bits_for shifts a one left until it covers the palette: it has the room.
ASSUME LengthAssumption == SIDE * SIDE * SIDE <= 2 ^ LONG_BITS

STATE_AIR   == 0
STATE_STONE == 1
States == 0 .. 2 ^ DIRECT_BITS - 1

Sections == 0 .. SECTION_COUNT - 1
Index    == 0 .. SIDE * SIDE * SIDE - 1

section_min_y(s) == MIN_Y + s * SIDE

base(s) == IF section_min_y(s) + SIDE - 1 <= STONE_TOP_Y THEN STATE_STONE ELSE STATE_AIR

in_section(p, s) == section_min_y(s) <= p[2] /\ p[2] < section_min_y(s) + SIDE

\* A mutant of local_index: the order of the axes is x, z, y.
local_index_xzy(p, s) ==
  ((p[1] % SIDE) * SIDE + (p[3] % SIDE)) * SIDE + (p[2] - section_min_y(s))

\* y, z, x from the slowest to the fastest.
local_index(p, s) ==
  ((p[2] - section_min_y(s)) * SIDE + (p[3] % SIDE)) * SIDE + (p[1] % SIDE)

\* The blocks of section s with the chunk's edits applied; edits maps the
\* edited positions of this chunk to their states.
section_blocks(s, edits) ==
  LET local == {p \in DOMAIN edits : in_section(p, s)}
      at    == [i \in {local_index(p, s) : p \in local} |->
                  edits[CHOOSE p \in local : local_index(p, s) = i]]
  IN  [i \in Index |-> IF i \in DOMAIN at THEN at[i] ELSE base(s)]

\* Bits needed to index len entries.
bits_for(len) == Min({b \in 0 .. LONG_BITS : 2 ^ b >= len})

div_ceil(n, d) == (n + d - 1) \div d

\* Entries never straddle two longs: what is left of a long stays empty.
per_long(bits) == LONG_BITS \div bits

pack_into(values, bits) ==
  [l \in 1 .. div_ceil(SIDE * SIDE * SIDE, per_long(bits)) |->
     MapThenSumSet(LAMBDA i : (values[i] % 2 ^ bits) * 2 ^ ((i % per_long(bits)) * bits),
                   {i \in Index : i \div per_long(bits) = l - 1})]

\* The distinct states of a section in the order they are first seen.
palette_of(blocks) ==
  FoldLeft(LAMBDA palette, b : IF Contains(palette, b) THEN palette ELSE Append(palette, b),
           <<>>, [k \in 1 .. SIDE * SIDE * SIDE |-> blocks[k - 1]])

single_value_container(value) == [bits |-> 0, palette |-> <<value>>, longs |-> <<>>]

\* A mutant of indirect_bits: the minimum of the format is not applied.
indirect_bits_unclamped(len) == bits_for(len)
indirect_bits(len) == Max({bits_for(len), MIN_BITS})

encode_block_section(blocks) ==
  LET palette == palette_of(blocks)
      n       == Len(palette)
      index_of == [b \in Range(blocks) |-> CHOOSE k \in 0 .. n - 1 : palette[k + 1] = b]
  IN  CASE n = 1 -> single_value_container(palette[1])
        [] n > 1 /\ bits_for(n) <= MAX_BITS ->
             [bits    |-> indirect_bits(n),
              palette |-> palette,
              longs   |-> pack_into([i \in Index |-> index_of[blocks[i]]], indirect_bits(n))]
        [] OTHER -> [bits |-> DIRECT_BITS, palette |-> <<>>, longs |-> pack_into(blocks, DIRECT_BITS)]

non_air(blocks) == Cardinality({i \in Index : blocks[i] # STATE_AIR})

\* A mutant of section: the count is taken before the edits are applied.
section_counts_base(s, edits) ==
  LET blocks == section_blocks(s, edits)
  IN  [non_air   |-> IF base(s) = STATE_AIR THEN 0 ELSE SIDE * SIDE * SIDE,
       container |-> encode_block_section(blocks)]

\* One section on the wire; one without edits is uniform.
section(s, edits) ==
  IF \E p \in DOMAIN edits : in_section(p, s)
  THEN LET blocks == section_blocks(s, edits)
       IN  [non_air |-> non_air(blocks), container |-> encode_block_section(blocks)]
  ELSE [non_air   |-> IF base(s) = STATE_AIR THEN 0 ELSE SIDE * SIDE * SIDE,
        container |-> single_value_container(base(s))]

flat_chunk(edits) == [s \in Sections |-> section(s, edits)]

-----------------------------------------------------------------------------
\* The client's reader.  It knows the format by the width alone: 0 is a single
\* value, up to MIN_BITS is MIN_BITS, above MAX_BITS is direct.
client_bits(bits) ==
  IF bits > MAX_BITS THEN DIRECT_BITS ELSE Max({bits, MIN_BITS})

\* Entry i of the packed data.
client_entry(container, i) ==
  LET bits == client_bits(container.bits)
      long == container.longs[i \div per_long(bits) + 1]
  IN  (long \div 2 ^ ((i % per_long(bits)) * bits)) % 2 ^ bits

\* It expects as many longs as the width and the number of blocks call for, and
\* no entry beyond the palette.
client_accepts(container) ==
  container.bits # 0 =>
    /\ Len(container.longs) = div_ceil(SIDE * SIDE * SIDE, per_long(client_bits(container.bits)))
    /\ container.bits <= MAX_BITS =>
         \A i \in Index : client_entry(container, i) < Len(container.palette)

\* Blocks come in rows along x, rows along z, layers along y.
client_position(c, s, i) ==
  <<SIDE * c[1] + (i % SIDE), section_min_y(s) + i \div (SIDE * SIDE),
    SIDE * c[2] + ((i \div SIDE) % SIDE)>>

client_reads(container) ==
  [i \in Index |->
     IF container.bits = 0 THEN container.palette[1]
     ELSE IF container.bits > MAX_BITS THEN client_entry(container, i)
     ELSE container.palette[client_entry(container, i) + 1]]
=============================================================================
