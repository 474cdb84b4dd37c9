------------------------------- MODULE JsonToNbt -------------------------------
(***************************************************************************)
(* json_to_nbt, crates/datagen/src/convert.rs.                             *)
(*                                                                         *)
(* A JSON value is a record with one field, named for its type: null,      *)
(* bool, int, real (in halves), str, array, or object, whose fields are in *)
(* the order of serde_json's map.                                          *)
(***************************************************************************)
EXTENDS Nbt

kind(json) == CHOOSE k \in DOMAIN json : TRUE

Fits(i, w) == -words[w] <= 2 * i /\ 2 * i < words[w]

number_to_nbt(json) ==
  IF kind(json) = "real" THEN [Double |-> json.real]
  ELSE IF Fits(json.int, Width["i32"]) THEN [Int |-> json.int] ELSE [Long |-> json.int]

is_numeric(n) == variant(n) \in DOMAIN NumberWidth
as_f64(n) == IF variant(n) \in {"Float", "Double"} THEN n[variant(n)] ELSE 2 * n[variant(n)]

\* A mutant of homogeneous: the elements stay as they are.
homogeneous_never(converted) == converted

\* Numbers of several types become doubles.
homogeneous(converted) ==
  IF /\ \A i \in DOMAIN converted : is_numeric(converted[i])
     /\ \E i \in DOMAIN converted : tag_id(converted[i]) # tag_id(Head(converted))
  THEN [i \in DOMAIN converted |-> [Double |-> as_f64(converted[i])]]
  ELSE converted

\* The NBT of a value as a sequence of one, and nothing for null.  Nulls in
\* arrays and objects are dropped.
RECURSIVE json_to_nbt(_)
json_to_nbt(json) ==
  LET k == kind(json)
      v == json[k]
      field(i) == LET n == json_to_nbt(v[i].value)
                  IN  [j \in DOMAIN n |-> [name |-> v[i].name, value |-> n[j]]]
  IN CASE k = "null"            -> <<>>
       [] k = "bool"            -> <<[Byte |-> IF v THEN 1 ELSE 0]>>
       [] k \in {"int", "real"} -> <<number_to_nbt(json)>>
       [] k = "str"             -> <<[String |-> v]>>
       [] k = "array"           ->
            <<[List |-> homogeneous(Concat(Len(v), LAMBDA i : json_to_nbt(v[i])))]>>
       [] k = "object"          -> <<[Compound |-> Concat(Len(v), field)]>>

-----------------------------------------------------------------------------
\* What a value is to say to a client, in the terms of Nbt!client_payload.
RECURSIVE Meaning(_)
Meaning(json) ==
  LET k == kind(json)
      v == json[k]
      item(i)  == IF kind(v[i]) = "null" THEN <<>> ELSE <<Meaning(v[i])>>
      field(i) == IF kind(v[i].value) = "null" THEN <<>>
                  ELSE <<[name |-> v[i].name, value |-> Meaning(v[i].value)]>>
  IN CASE k = "bool"   -> [number |-> IF v THEN 2 ELSE 0]
       [] k = "int"    -> [number |-> 2 * v]
       [] k = "real"   -> [number |-> v]
       [] k = "str"    -> [string |-> v]
       [] k = "array"  -> [list |-> Concat(Len(v), item)]
       [] k = "object" -> [fields |-> Concat(Len(v), field)]

\* What this NBT can say: strings of a length of 16 bits and of characters of
\* at most three bytes, arrays of numbers or of one other type, in depth.
SayableString(s) == Len(s) < words[Width["u16"]] /\ ModifiedUtf8(s)

RECURSIVE Sayable(_)
Sayable(json) ==
  LET k == kind(json)
      v == json[k]
      family(j) == IF kind(j) \in {"bool", "int", "real"} THEN "number" ELSE kind(j)
  IN CASE k = "str"    -> SayableString(v)
       [] k = "array"  -> /\ \A i \in DOMAIN v : Sayable(v[i])
                          /\ Cardinality({family(v[i]) : i \in DOMAIN v} \ {"null"}) <= 1
       [] k = "object" -> \A i \in DOMAIN v :
                            kind(v[i].value) # "null" =>
                              SayableString(v[i].name) /\ Sayable(v[i].value)
       [] OTHER        -> TRUE
=============================================================================
