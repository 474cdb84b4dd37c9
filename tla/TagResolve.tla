------------------------------- MODULE TagResolve -------------------------------
(***************************************************************************)
(* resolve, crates/datagen/src/tags.rs:142-184: the entries of a tag with  *)
(* the tags that it refers to expanded, through a cache and a guard        *)
(* against cycles.                                                         *)
(*                                                                         *)
(* tags maps the names of the tags a registry defines to the lists of      *)
(* their values; a value is the name of a tag (the code's "#name") or an   *)
(* entry.  lookup maps the entries of the registry to their indices.       *)
(***************************************************************************)
EXTENDS Integers, SequencesExt

CONSTANTS
  TagNames,
  NotCached  \* the cache has nothing for a tag
ASSUME TagNamesAssumption == IsFiniteSet(TagNames)
ASSUME NotCachedAssumption == NotCached \notin Seq(Int)

Indices(lookup) == {lookup[e] : e \in DOMAIN lookup}

\* resolve's arguments that change from call to call, but for the stack, and
\* what it returns, with the cache afterwards.
Caches(lookup) == [TagNames -> Seq(Indices(lookup)) \cup {NotCached}]
Calls(lookup) == TagNames \X Caches(lookup)
NoCache == [t \in TagNames |-> NotCached]

\* An index goes where it has not been seen.
push(out, idx) == IF Contains(out, idx) THEN out ELSE Append(out, idx)

extend(out, more) ==
  LET pushed[k \in 0 .. Len(more)] ==
        IF k = 0 THEN out ELSE push(pushed[k - 1], more[k])
  IN  pushed[Len(more)]

\* A turn of the loop over a tag's values: s is what the turns before it made of
\* out and the cache, and called is resolve with the tag on its stack.
follow(s, v, lookup, called) ==
  IF v \in TagNames
  THEN LET sub == called[<<v, s.cache>>]
       IN  [out |-> extend(s.out, sub.out), cache |-> sub.cache]
  ELSE IF v \in DOMAIN lookup
  THEN [out |-> push(s.out, lookup[v]), cache |-> s.cache]
  ELSE s

\* The loop, and the tag's own entry in the cache.
expand(tag, cache, tags, lookup, called) ==
  LET values == IF tag \in DOMAIN tags THEN tags[tag] ELSE <<>>
      turn[k \in 0 .. Len(values)] ==
        IF k = 0 THEN [out |-> <<>>, cache |-> cache]
        ELSE follow(turn[k - 1], values[k], lookup, called)
      r == turn[Len(values)]
  IN  [out |-> r.out, cache |-> [r.cache EXCEPT ![tag] = r.out]]

\* The calls of resolve, by the tags that are not on the stack: a call takes
\* its tag from them for the calls it makes.
resolve(tags, lookup) ==
  LET call[free \in SUBSET TagNames] ==
        [c \in Calls(lookup) |->
           IF c[2][c[1]] # NotCached THEN [out |-> c[2][c[1]], cache |-> c[2]]
           ELSE IF c[1] \notin free THEN [out |-> <<>>, cache |-> c[2]]
           ELSE expand(c[1], c[2], tags, lookup, call[free \ {c[1]}])]
  IN  call[TagNames]

\* A mutant of resolve_all: one cache for all tags of a registry.
resolve_all_shared_cache(tags, lookup) ==
  LET step(r, t) ==
        LET sub == resolve(tags, lookup)[<<t, r.cache>>]
        IN  [done |-> [u \in DOMAIN r.done \cup {t} |->
                         IF u = t THEN sub.out ELSE r.done[u]],
             cache |-> sub.cache]
  IN  FoldLeft(step, [done |-> <<>>, cache |-> NoCache], SetToSeq(DOMAIN tags)).done

\* Each tag of a registry is resolved with a cache of its own.
resolve_all(tags, lookup) ==
  [t \in DOMAIN tags |-> resolve(tags, lookup)[<<t, NoCache>>].out]

-----------------------------------------------------------------------------
\* What a tag means: the entries named by it or by a tag it leads to, which are
\* the tags in every set that holds it and what the tags of the set refer to.
Closed(tags, C) == \A t \in C \cap DOMAIN tags : TagNames \cap ToSet(tags[t]) \subseteq C

Reach(tags, tag) ==
  {u \in TagNames : \A C \in SUBSET TagNames : tag \in C /\ Closed(tags, C) => u \in C}

EntriesOf(tags, lookup, tag) ==
  DOMAIN lookup \cap UNION {ToSet(tags[t]) : t \in DOMAIN tags \cap Reach(tags, tag)}
=============================================================================
