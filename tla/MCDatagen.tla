------------------------------- MODULE MCDatagen -------------------------------
(***************************************************************************)
(* Bytes of 3 + 1 bits, an Int of one byte and a Long of two.  The entries *)
(* of a jar are 1 and 3, or only 1.                                        *)
(***************************************************************************)
EXTENDS RegistryData

CONSTANTS ta, tb, tc

MCWidth ==
  [u8 |-> 1, bool |-> 1, i8 |-> 1, u16 |-> 1, i32 |-> 1, f32 |-> 1, i64 |-> 2, f64 |-> 2, uuid |-> 4]

MCTagNames == {ta, tb, tc}

-----------------------------------------------------------------------------
Long16 == [i \in 1..16 |-> 5]
Null == [null |-> 0]
Empty == [object |-> <<>>]
Field(name_, json) == [name |-> name_, value |-> json]

\* Every type, with strings too long and too wide for NBT, and a Long; arrays
\* and objects of up to two of them, and some of those in another.
Scalars ==
  {Null, [bool |-> TRUE], [int |-> -3], [int |-> 20], [real |-> -5],
   [str |-> <<>>], [str |-> <<5, 6>>], [str |-> <<14>>], [str |-> Long16]}
Small == Scalars \cup {Empty, [array |-> <<>>]}
Triples == {[array |-> <<[bool |-> TRUE], x, [real |-> 1]>>] : x \in Scalars}
Arrays == {[array |-> s] : s \in UNION {[1..n -> Small] : n \in 1..2}}
Objects ==
  {[object |-> <<Field(<<1>>, x), Field(<<2, 3>>, [int |-> 20])>>] : x \in Small}
    \cup {[object |-> <<Field(Long16, x)>>] : x \in Small}
Nested ==
  {[object |-> <<Field(<<1>>, [array |-> <<x, [int |-> 20]>>])>>] : x \in Small}
    \cup {[array |-> <<x, Empty>>] : x \in {o \in Objects : Len(o.object) = 1}}
Jsons == Small \cup Triples \cup Arrays \cup Objects \cup Nested

Plain == [object |-> <<Field(<<4>>, [int |-> 3])>>]
Entries(json) == (1 :> json) @@ (3 :> Plain)
Alone(json) == 1 :> json

-----------------------------------------------------------------------------
\* Two names that are indexed, one that is not, and every tag.
Values == {1, 3, 4} \cup MCTagNames

\* Pairs of definitions with cycles, references to an undefined tag and
\* repetitions, and a few webs of three tags.
Webs ==
  LET bodies == {<<>>} \cup {<<v>> : v \in Values} \cup (Values \X Values)
      backs  == {<<>>} \cup ({1, ta} \X {3, ta, tb})
  IN  {[t \in {ta, tb} |-> IF t = ta THEN x ELSE y] : x \in bodies, y \in backs}
        \cup {[t \in MCTagNames |-> IF t = ta THEN <<tb, tc>> ELSE IF t = tb THEN x ELSE y] :
                 x \in {1, ta} \X {3, tc}, y \in {1, ta} \X {3, tb}}
Web == [t \in {ta, tb} |-> IF t = ta THEN <<tb, 1>> ELSE <<ta, 3>>]

\* Reports: items 1 and 9 are blocks, item 3 is not, block 5 is no item.
Items == (1 :> 7) @@ (3 :> 0) @@ (9 :> 200)
State(i, d) == [id |-> i, default |-> d]
Blocks ==
  (1 :> <<State(8, FALSE), State(9, TRUE)>>) @@ (5 :> <<State(1, TRUE)>>)
    @@ (9 :> <<State(100, FALSE), State(101, FALSE)>>)

Jar(entries, tags, items, blocks) ==
  [entries |-> entries, tags |-> tags, items |-> items, blocks |-> blocks]

\* Where only the names of entries matter, their JSON is short.
Short == [bool |-> TRUE]

\* Webs of tags of items; tags of the streamed registry; reports; and a registry
\* of any JSON.
Streams == {Web} \cup {[t \in {ta} |-> x] : x \in {<<1>>, <<3>>, <<tb, 4>>}}
Firsts ==
  {Jar(Alone(Short), [item |-> w], Items, <<>>) : w \in Webs}
    \cup {Jar(Entries(Short), [biome |-> w], <<>>, <<>>) : w \in Streams}
    \cup {Jar(es, [item |-> w, structure |-> w], Items, x) :
             es \in {Alone(Short), <<>>},
             w \in {Web, [t \in {ta} |-> <<9, 4, 3>>]},
             x \in {Blocks, (1 :> <<>>) @@ Blocks, (3 :> <<State(0, TRUE)>>)}}
    \cup {Jar(Alone(x), <<>>, <<>>, <<>>) : x \in Jsons}
    \cup {Jar(Entries(x), <<>>, <<>>, <<>>) : x \in {Null, Empty, [int |-> 20], [str |-> <<14>>]}}

\* The next version of a jar: one gains an entry before all others; one has
\* another entry and renumbers an item.
Told(w) == [biome |-> [t \in {ta} |-> w]]
MCUpgrades ==
  {<<Jar(Alone(Short), Told(<<1>>), <<>>, <<>>),
     Jar((0 :> Short) @@ Alone(Short), Told(<<1>>), <<>>, <<>>)>>,
   <<Jar(Alone(Short), <<>>, (1 :> 7), Blocks), Jar(3 :> Short, <<>>, (1 :> 6), Blocks)>>}
MCJars == Firsts \cup {u[1] : u \in MCUpgrades}
=============================================================================
