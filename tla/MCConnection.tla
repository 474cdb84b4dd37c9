------------------------------ MODULE MCConnection ------------------------------
(***************************************************************************)
(* Two registries and the tags; three packets on the way in one direction, *)
(* so that a stray packet fits behind the two the client opens with.       *)
(***************************************************************************)
EXTENDS Connection

MCRegistry == <<"biome", "dimension_type">>
=============================================================================
