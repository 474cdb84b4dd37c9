------------------------------ MODULE PlayProofs ------------------------------
(***************************************************************************)
(* Proofs about Play, and about LeatherServer which runs it, for every     *)
(* number of connections, every set of positions, view distance and queue  *)
(* length: the types, that a client to which all that was sent has arrived *)
(* sees the shared world, that a handler writes batches and                *)
(* acknowledgements in the order they promise, and what of it all holds of *)
(* the server with its disk.                                               *)
(*                                                                         *)
(* ViewCoherent speaks of a quiet connection only, so the invariant IInv   *)
(* says what holds while packets are on their way.  For every block that   *)
(* no other connection changed behind the client's back, the last packet   *)
(* in flight that touches the block tells its state now, and if none does  *)
(* then the client's own view of it is right (Arriving); between a change  *)
(* and the write of its update, the handler's reply holds the state        *)
(* instead (Told).  Handling ties what a session keeps to the place its    *)
(* handler is at.  Each step of a handler moves one connection, so the     *)
(* lemmas that end in Keeps show IInv through OneMoves, one per action.    *)
(***************************************************************************)
EXTENDS LeatherServer, FiniteSetTheorems, WellFoundedInduction, TLAPS

\* The packet tells its client something about block p.
Touches(m, p) ==
  \/ m.k = "chunk" /\ m.chunk = chunk_of_block(p)
  \/ m.k = "update" /\ m.pos = p

\* The packet tells its client that block p is s.
Says(m, p, s) ==
  \/ m.k = "chunk" /\ m.chunk = chunk_of_block(p) /\ m.edits[p] = s
  \/ m.k = "update" /\ m.pos = p /\ m.state = s

\* With the queue o ahead of it, client k will see s at p, or hold no chunk there.
Arriving(o, k, p, s) ==
  \/ \E i \in 1..Len(o) : /\ Says(o[i], p, s)
                          /\ \A j \in i + 1..Len(o) : ~Touches(o[j], p)
  \/ /\ \A j \in 1..Len(o) : ~Touches(o[j], p)
     /\ chunk_of_block(p) \in k.held => k.view[p] = s

\* The types of a client, of a reply that a handler owes, and of a session.
ClientType ==
  [held : SUBSET Chunks, view : BlockMap, batch : Nat \cup {NoBatch}, waiting : SUBSET Seqs]

Replies ==
  {NoReply} \cup [pos : Positions \cup {Empty}, state : States \cup {Empty}, seq : Seqs]

SessionType ==
  [pc : PCs, center : Chunks, loaded : SUBSET Chunks, pending : SUBSET Chunks, total : Nat,
   reply : Replies, selected : Hotbar, inventory : [Slots -> Items \cup {Empty}]]

\* The types of the variables.
Types ==
  /\ EditsTypeOK
  /\ ses \in [Clients -> SessionType]
  /\ out \in [Clients -> Seq(Packets)]
  /\ cli \in [Clients -> ClientType]
  /\ stale \in [Clients -> SUBSET Positions]

\* What a session keeps at each place of its handler, and the send queue's limit.
Handling(s, o, k) ==
  /\ IsFiniteSet(s.pending) /\ s.pending \subseteq s.loaded
  /\ s.pending # {} => s.pc \in {"start", "chunks"}
  /\ s.reply # NoReply <=> s.pc \in {"update", "ack"}
  /\ s.pc = "update" => s.reply.pos \in Positions /\ s.reply.state \in States
  /\ s.pc = "out" => o = <<>> /\ k = FreshClient
  /\ Len(o) <= OutBound

\* The client is going to be told that block p is b.
Told(s, o, k, p, b) ==
  IF s.pc = "update" /\ s.reply.pos = p THEN s.reply.state = b ELSE Arriving(o, k, p, b)

\* No block is forgotten but those that are stale.
Coherent(c) ==
  \A p \in Positions \ stale[c] : Told(ses[c], out[c], cli[c], p, BlockAt(p))

\* The inductive invariant.
IInv ==
  /\ Types
  /\ \A c \in Clients : Handling(ses[c], out[c], cli[c]) /\ Coherent(c)

\* The end of a queue, and its head.
LEMMA AppendFacts ==
  ASSUME NEW S, NEW o \in Seq(S), NEW m \in S
  PROVE  /\ Append(o, m) \in Seq(S)
         /\ Len(Append(o, m)) = Len(o) + 1
         /\ \A i \in 1..Len(o) : Append(o, m)[i] = o[i]
         /\ Append(o, m)[Len(o) + 1] = m
  OBVIOUS

\* The rest of a sequence: its length and its elements.
LEMMA TailFacts ==
  ASSUME NEW S, NEW o \in Seq(S), o # <<>>
  PROVE  /\ Len(o) \in Nat \ {0}
         /\ Tail(o) \in Seq(S)
         /\ Len(Tail(o)) = Len(o) - 1
         /\ \A i \in 1..Len(o) - 1 : Tail(o)[i] = o[i + 1]
         /\ Head(o) = o[1] /\ Head(o) \in S
  OBVIOUS

\* A packet that tells of p settles what arrives there.
LEMMA AppendSays ==
  ASSUME NEW o \in Seq(Packets), NEW m \in Packets, NEW k, NEW p, NEW s, Says(m, p, s)
  PROVE  Arriving(Append(o, m), k, p, s)
<1> DEFINE o2 == Append(o, m)
<1>1. Len(o2) \in 1..Len(o2) /\ o2[Len(o2)] = m
  BY AppendFacts
<1> HIDE DEF o2
<1> QED
  BY <1>1 DEF Arriving

\* One that does not leaves it alone.
LEMMA AppendNeutral ==
  ASSUME NEW o \in Seq(Packets), NEW m \in Packets, NEW k, NEW p, NEW s,
         ~Touches(m, p), Arriving(o, k, p, s)
  PROVE  Arriving(Append(o, m), k, p, s)
<1> DEFINE o2 == Append(o, m)
<1>1. /\ Len(o) \in Nat /\ Len(o2) = Len(o) + 1
      /\ \A i \in 1..Len(o) : o2[i] = o[i]
      /\ o2[Len(o2)] = m
  BY AppendFacts
<1> HIDE DEF o2
<1>2. ASSUME NEW i \in 1..Len(o), Says(o[i], p, s), \A j \in i + 1..Len(o) : ~Touches(o[j], p)
      PROVE  Arriving(o2, k, p, s)
  <2>1. i \in 1..Len(o2) /\ Says(o2[i], p, s)
    BY <1>1, <1>2
  <2>2. \A j \in i + 1..Len(o2) : ~Touches(o2[j], p)
    BY <1>1, <1>2
  <2> QED
    BY <2>1, <2>2 DEF Arriving
<1>3. CASE \A j \in 1..Len(o) : ~Touches(o[j], p)
  <2>1. \A j \in 1..Len(o2) : ~Touches(o2[j], p)
    BY <1>1, <1>3
  <2>2. CASE chunk_of_block(p) \in k.held => k.view[p] = s
    BY <2>1, <2>2 DEF Arriving
  <2>3. CASE \E i \in 1..Len(o) : Says(o[i], p, s)
    BY <1>3, <2>3 DEF Says, Touches
  <2> QED
    BY <2>2, <2>3 DEF Arriving
<1> QED
  BY <1>2, <1>3 DEF Arriving, o2

\* What each kind of packet does to the client that receives it.
LEMMA ReceivedFields ==
  ASSUME NEW k \in ClientType, NEW m \in Packets
  PROVE  LET r == Received(k, m) IN
         /\ r \in ClientType
         /\ m.k = "center" =>
              /\ \A p \in Positions : chunk_of_block(p) \in r.held =>
                   chunk_of_block(p) \in k.held /\ r.view[p] = k.view[p]
              /\ r.held = Kept(k.held, m.chunk)
              /\ r.batch = k.batch /\ r.waiting = k.waiting
         /\ m.k = "start" =>
              r.held = k.held /\ r.view = k.view /\ r.batch = 0 /\ r.waiting = k.waiting
         /\ m.k = "chunk" =>
              /\ r.held = k.held \cup {m.chunk}
              /\ \A p \in Positions :
                   r.view[p] = IF chunk_of_block(p) = m.chunk THEN m.edits[p] ELSE k.view[p]
              /\ r.batch = k.batch + 1 /\ r.waiting = k.waiting
         /\ m.k = "finished" =>
              r.held = k.held /\ r.view = k.view /\ r.batch = NoBatch /\ r.waiting = k.waiting
         /\ m.k = "update" =>
              /\ r.held = k.held
              /\ \A p \in Positions : p # m.pos => r.view[p] = k.view[p]
              /\ chunk_of_block(m.pos) \in k.held => r.view[m.pos] = m.state
              /\ r.batch = k.batch /\ r.waiting = k.waiting
         /\ m.k = "ack" =>
              /\ r.held = k.held /\ r.view = k.view /\ r.batch = k.batch
              /\ r.waiting = k.waiting \ {m.seq}
         /\ m.k = "notice" => r = k
<1> DEFINE r == Received(k, m)
<1>1. CASE m.k = "center"
  <2>1. r = [k EXCEPT !.held = Kept(k.held, m.chunk), !.view = ViewOf(@, Kept(k.held, m.chunk))]
    BY <1>1, Zenon DEF Received
  <2>2. Kept(k.held, m.chunk) \subseteq k.held
    BY DEF Kept
  <2> HIDE DEF r
  <2>3. ViewOf(k.view, Kept(k.held, m.chunk)) \in BlockMap
    BY DEF ViewOf, BlockMap, ClientType
  <2>4. \A p \in Positions : chunk_of_block(p) \in Kept(k.held, m.chunk) =>
          ViewOf(k.view, Kept(k.held, m.chunk))[p] = k.view[p]
    BY DEF ViewOf
  <2> QED
    BY <1>1, <2>1, <2>2, <2>3, <2>4 DEF ClientType, r
<1>2. CASE m.k = "start"
  <2>1. r = [k EXCEPT !.batch = 0]
    BY <1>2, Zenon DEF Received
  <2> QED
    BY <1>2, <2>1 DEF ClientType
<1>3. CASE m.k = "chunk"
  <2> DEFINE v == [q \in Positions |->
                    IF chunk_of_block(q) = m.chunk THEN m.edits[q] ELSE k.view[q]]
  <2>1. r = [k EXCEPT !.batch = k.batch + 1, !.held = k.held \cup {m.chunk}, !.view = v]
    BY <1>3, Zenon DEF Received
  <2>2. m.chunk \in Chunks /\ m.edits \in BlockMap
    BY <1>3 DEF Packets
  <2>3. v \in BlockMap
    BY <2>2 DEF BlockMap, ClientType
  <2>4. \A p \in Positions : v[p] = IF chunk_of_block(p) = m.chunk THEN m.edits[p] ELSE k.view[p]
    OBVIOUS
  <2>5. k.batch + 1 \in Nat \cup {NoBatch}
    BY DEF ClientType, NoBatch
  <2> HIDE DEF r, v
  <2>6. /\ r \in ClientType
        /\ r.held = k.held \cup {m.chunk} /\ r.view = v
        /\ r.batch = k.batch + 1 /\ r.waiting = k.waiting
    BY <2>1, <2>2, <2>3, <2>5 DEF ClientType
  <2> QED
    BY <1>3, <2>4, <2>6 DEF r
<1>4. CASE m.k = "finished"
  <2>1. r = [k EXCEPT !.batch = NoBatch]
    BY <1>4, Zenon DEF Received
  <2> QED
    BY <1>4, <2>1 DEF ClientType
<1>5. CASE m.k = "update"
  <2>1. r = IF chunk_of_block(m.pos) \in k.held THEN [k EXCEPT !.view[m.pos] = m.state] ELSE k
    BY <1>5, Zenon DEF Received
  <2> DEFINE v == [k.view EXCEPT ![m.pos] = m.state]
  <2>2. m.pos \in Positions /\ m.state \in States
    BY <1>5 DEF Packets
  <2>3. /\ v \in BlockMap /\ v[m.pos] = m.state
        /\ \A p \in Positions : p # m.pos => v[p] = k.view[p]
    BY <2>2 DEF ClientType, BlockMap
  <2>4. r = IF chunk_of_block(m.pos) \in k.held THEN [k EXCEPT !.view = v] ELSE k
    BY <2>1
  <2> HIDE DEF r, v
  <2>5. CASE chunk_of_block(m.pos) \in k.held
    BY <1>5, <2>3, <2>4, <2>5 DEF ClientType, r
  <2>6. CASE chunk_of_block(m.pos) \notin k.held
    BY <1>5, <2>4, <2>6 DEF r
  <2> QED
    BY <2>5, <2>6
<1>6. CASE m.k = "ack"
  <2>1. r = [k EXCEPT !.waiting = @ \ {m.seq}]
    BY <1>6, Zenon DEF Received
  <2> QED
    BY <1>6, <2>1 DEF ClientType
<1>7. CASE m.k = "notice"
  <2>1. r = k
    BY <1>7, Zenon DEF Received
  <2> QED
    BY <1>7, <2>1
<1> QED
  BY <1>1, <1>2, <1>3, <1>4, <1>5, <1>6, <1>7 DEF Packets

\* Receiving a packet brings what is on its way nearer and changes none of it.
LEMMA DeliverArriving ==
  ASSUME NEW o \in Seq(Packets), o # <<>>, NEW k \in ClientType, NEW p \in Positions, NEW s,
         Arriving(o, k, p, s)
  PROVE  Arriving(Tail(o), Received(k, Head(o)), p, s)
<1> DEFINE t == Tail(o)
           m == Head(o)
           r == Received(k, m)
<1>1. /\ Len(o) \in Nat \ {0} /\ Len(t) = Len(o) - 1
      /\ \A i \in 1..Len(o) - 1 : t[i] = o[i + 1]
      /\ m = o[1] /\ m \in Packets
  BY TailFacts
<1>0. m \in Packets
  BY <1>1
<1> HIDE DEF t, m
<1>2. ASSUME NEW i \in 1..Len(o), Says(o[i], p, s), \A j \in i + 1..Len(o) : ~Touches(o[j], p),
             i > 1
      PROVE  Arriving(t, r, p, s)
  <2> DEFINE h == i - 1
  <2>1. h \in 1..Len(t) /\ Says(t[h], p, s)
    BY <1>1, <1>2
  <2>2. \A j \in h + 1..Len(t) : ~Touches(t[j], p)
    BY <1>1, <1>2
  <2> QED
    BY <2>1, <2>2 DEF Arriving
<1>3. ASSUME \A j \in 2..Len(o) : ~Touches(o[j], p),
             chunk_of_block(p) \in r.held => r.view[p] = s
      PROVE  Arriving(t, r, p, s)
  <2>1. \A j \in 1..Len(t) : ~Touches(t[j], p)
    BY <1>1, <1>3
  <2> QED
    BY <1>3, <2>1 DEF Arriving
<1> HIDE DEF r
<1>4. ASSUME Says(m, p, s)
      PROVE  chunk_of_block(p) \in r.held => r.view[p] = s
  <2>1. CASE m.k = "chunk"
    BY <1>0, <1>4, <2>1, ReceivedFields DEF r, Says
  <2>2. CASE m.k = "update"
    <3>1. m.pos = p /\ m.state = s
      BY <1>4, <2>2 DEF Says
    <3>2. /\ r.held = k.held
          /\ chunk_of_block(m.pos) \in k.held => r.view[m.pos] = m.state
      BY <1>0, <2>2, ReceivedFields DEF r
    <3> QED
      BY <3>1, <3>2
  <2> QED
    BY <1>4, <2>1, <2>2 DEF Says
<1>5. ASSUME ~Touches(m, p), chunk_of_block(p) \in k.held => k.view[p] = s
      PROVE  chunk_of_block(p) \in r.held => r.view[p] = s
  <2>1. CASE m.k = "chunk"
    <3>1. m.chunk # chunk_of_block(p)
      BY <1>5, <2>1 DEF Touches
    <3>2. /\ r.held = k.held \cup {m.chunk}
          /\ \A q \in Positions :
               r.view[q] = IF chunk_of_block(q) = m.chunk THEN m.edits[q] ELSE k.view[q]
      BY <1>0, <2>1, ReceivedFields DEF r
    <3> QED
      BY <1>5, <3>1, <3>2
  <2>2. CASE m.k = "update"
    <3>1. m.pos # p
      BY <1>5, <2>2 DEF Touches
    <3>2. r.held = k.held /\ \A q \in Positions : q # m.pos => r.view[q] = k.view[q]
      BY <1>0, <2>2, ReceivedFields DEF r
    <3> QED
      BY <1>5, <3>1, <3>2
  <2>3. CASE m.k = "center"
    BY <1>0, <1>5, <2>3, ReceivedFields DEF r
  <2>4. CASE m.k \in {"start", "finished", "ack", "notice"}
    BY <1>0, <1>5, <2>4, ReceivedFields DEF r
  <2> QED
    BY <1>0, <2>1, <2>2, <2>3, <2>4 DEF Packets
<1>6. CASE \A j \in 1..Len(o) : ~Touches(o[j], p)
  <2>1. ~Touches(m, p) /\ \A i \in 1..Len(o) : ~Says(o[i], p, s)
    BY <1>1, <1>6 DEF Says, Touches
  <2> QED
    BY <1>3, <1>5, <1>6, <2>1 DEF Arriving, r, t, m
<1>7. ASSUME NEW i \in 1..Len(o), Says(o[i], p, s), \A j \in i + 1..Len(o) : ~Touches(o[j], p)
      PROVE  Arriving(t, r, p, s)
  <2>1. CASE i > 1
    BY <1>2, <1>7, <2>1
  <2>2. CASE i = 1
    BY <1>1, <1>3, <1>4, <1>7, <2>2
  <2> QED
    BY <1>1, <2>1, <2>2
<1> QED
  BY <1>6, <1>7 DEF Arriving, r, t, m

-----------------------------------------------------------------------------
\* set_block changes one block of the flat map.
LEMMA SetBlockChangesOneBlock ==
  ASSUME NEW p \in Positions, NEW s \in States, EditsTypeOK, set_block(p, s)
  PROVE  /\ EditsTypeOK'
         /\ \A q \in Positions : BlockAt(q)' = IF q = p THEN s ELSE BlockAt(q)
<1>1. \A q \in Positions : chunk_of_block(q) \in Chunks
  BY ChunksAssumption DEF chunk_of_block
<1>2. edits' = [edits EXCEPT ![chunk_of_block(p)] =
                   [edits[chunk_of_block(p)] EXCEPT ![p] = s]]
  BY DEF set_block
<1>3. EditsTypeOK'
  BY <1>1, <1>2 DEF EditsTypeOK, BlockMap
<1>4. \A q \in Positions : BlockAt(q)' = IF q = p THEN s ELSE BlockAt(q)
  BY <1>1, <1>2 DEF BlockAt, EditsTypeOK, BlockMap
<1> QED
  BY <1>3, <1>4

-----------------------------------------------------------------------------
\* A step that moves connection c alone, if the others are no worse informed.
LEMMA OneMoves ==
  ASSUME IInv, NEW c \in Clients,
         NEW s \in SessionType, NEW o \in Seq(Packets), NEW k \in ClientType,
         ses' = [ses EXCEPT ![c] = s], out' = [out EXCEPT ![c] = o], cli' = [cli EXCEPT ![c] = k],
         EditsTypeOK', stale' \in [Clients -> SUBSET Positions],
         Handling(s, o, k),
         \A p \in Positions \ stale'[c] : Told(s, o, k, p, BlockAt(p)'),
         \A d \in Clients \ {c} : \A p \in Positions \ stale'[d] :
           p \notin stale[d] /\ BlockAt(p)' = BlockAt(p)
  PROVE  IInv'
<1>1. Types'
  BY DEF IInv, Types
<1>2. /\ ses'[c] = s /\ out'[c] = o /\ cli'[c] = k
      /\ \A d \in Clients \ {c} : ses'[d] = ses[d] /\ out'[d] = out[d] /\ cli'[d] = cli[d]
  BY DEF IInv, Types
<1>3. Handling(ses[c], out[c], cli[c])' /\ Coherent(c)'
  BY <1>2 DEF Coherent
<1>4. ASSUME NEW d \in Clients \ {c}
      PROVE  Handling(ses[d], out[d], cli[d])' /\ Coherent(d)'
  BY <1>2 DEF IInv, Coherent
<1> QED
  BY <1>1, <1>3, <1>4 DEF IInv

\* One that changes no block.
LEMMA OneMovesQuietly ==
  ASSUME IInv, NEW c \in Clients,
         NEW s \in SessionType, NEW o \in Seq(Packets), NEW k \in ClientType,
         ses' = [ses EXCEPT ![c] = s], out' = [out EXCEPT ![c] = o], cli' = [cli EXCEPT ![c] = k],
         UNCHANGED <<edits, stale>>,
         Handling(s, o, k),
         \A p \in Positions : \A b : Told(ses[c], out[c], cli[c], p, b) => Told(s, o, k, p, b)
  PROVE  IInv'
<1>1. EditsTypeOK' /\ stale' \in [Clients -> SUBSET Positions]
  BY DEF IInv, Types, EditsTypeOK
<1>2. \A p : BlockAt(p)' = BlockAt(p)
  BY DEF BlockAt
<1>3. \A p \in Positions \ stale'[c] : Told(s, o, k, p, BlockAt(p)')
  BY <1>2 DEF IInv, Coherent
<1> QED
  BY <1>1, <1>2, <1>3, OneMoves

-----------------------------------------------------------------------------
\* A connection that is not there has been told nothing wrong.
LEMMA FreshConnection ==
  /\ Session("out") \in SessionType /\ FreshClient \in ClientType
  /\ Handling(Session("out"), <<>>, FreshClient)
  /\ \A p \in Positions : \A b : Told(Session("out"), <<>>, FreshClient, p, b)
<1>1. NoEdits \in BlockMap
  BY DEF NoEdits, BlockMap
<1>2. FreshClient \in ClientType
  BY <1>1 DEF FreshClient, ClientType
<1>3. Session("out") \in SessionType
  BY OriginAssumption, HotbarAssumption DEF Session, SessionType, PCs, Replies
<1>4. Handling(Session("out"), <<>>, FreshClient)
  BY FS_EmptySet, OutBoundAssumption DEF Handling, Session
<1>5. ASSUME NEW p \in Positions, NEW b
      PROVE  Told(Session("out"), <<>>, FreshClient, p, b)
  BY DEF Told, Session, Arriving, FreshClient
<1> QED
  BY <1>2, <1>3, <1>4, <1>5

\* Nobody is connected at first.
LEMMA InitIInv == Init => IInv
<1> SUFFICES ASSUME Init PROVE IInv
  OBVIOUS
<1>1. NoEdits \in BlockMap
  BY DEF NoEdits, BlockMap
<1>2. Types
  BY <1>1, FreshConnection DEF Init, EditsInit, EditsTypeOK, Types
<1> QED
  BY <1>2, FreshConnection DEF IInv, Coherent, Init

-----------------------------------------------------------------------------
\* The order of load_around's loops has a first chunk in every finite set.
LEMMA FirstChunkIn ==
  ASSUME NEW S \in SUBSET (Int \X Int), IsFiniteSet(S), S # {}
  PROVE  FirstChunk(S) \in S
<1> DEFINE Upto(a) == {b \in S : b[1] < a[1] \/ (b[1] = a[1] /\ b[2] <= a[2])}
           T == {Upto(a) : a \in S}
<1>1. \A a \in S : a[1] \in Int /\ a[2] \in Int
  OBVIOUS
<1>2. IsWellFoundedOn(StrictSubsetOrdering(S), SUBSET S)
  BY FS_StrictSubsetOrderingWellFounded, FS_FiniteSubsetsOfFinite
<1>3. T \subseteq SUBSET S /\ T # {}
  <2>1. \A a \in S : Upto(a) \in SUBSET S
    OBVIOUS
  <2> HIDE DEF Upto
  <2> QED
    BY <2>1
<1> HIDE DEF T
<1>4. PICK x \in T : \A y \in T : <<y, x>> \notin StrictSubsetOrdering(S)
  BY <1>2, <1>3, WFMin
<1>5. PICK a \in S : x = Upto(a)
  BY <1>4 DEF T
<1>6. ASSUME NEW b \in S
      PROVE  a[1] < b[1] \/ (a[1] = b[1] /\ a[2] <= b[2])
  <2>1. Upto(b) \in T
    BY DEF T
  <2>2. ~(Upto(b) \subseteq Upto(a) /\ Upto(b) # Upto(a))
    BY <1>4, <1>5, <2>1 DEF StrictSubsetOrdering
  <2>3. SUFFICES ASSUME b[1] < a[1] \/ (b[1] = a[1] /\ b[2] < a[2])
                 PROVE  FALSE
    BY <1>1
  <2>4. Upto(b) \subseteq Upto(a)
    BY <1>1, <2>3
  <2>5. a \in Upto(a) /\ a \notin Upto(b)
    BY <1>1, <2>3
  <2> QED
    BY <2>2, <2>4, <2>5
<1> QED
  BY <1>6 DEF FirstChunk

\* load_around's square is finite.
LEMMA AroundFinite ==
  ASSUME NEW d \in Chunks
  PROVE  IsFiniteSet(Around(d)) /\ Around(d) \subseteq Chunks
<1> DEFINE x == d[1]  z == d[2]  R == SEND_RADIUS
           I == x - R .. x + R
           J == z - R .. z + R
<1>1. Chunks \subseteq Int \X Int
  BY ChunksAssumption
<1>2. x \in Int /\ z \in Int /\ R \in Int
  BY <1>1, RadiusAssumption DEF SEND_RADIUS
<1>3. IsFiniteSet(I \X J)
  <2>1. x - R \in Int /\ x + R \in Int /\ z - R \in Int /\ z + R \in Int
    BY <1>2
  <2>2. IsFiniteSet(I) /\ IsFiniteSet(J)
    BY <2>1, FS_Interval
  <2> QED
    BY <2>2, FS_Product
<1>4. ASSUME NEW e \in Around(d) PROVE e \in I \X J
  <2>1. e \in Int \X Int /\ x - R <= e[1] /\ e[1] <= x + R /\ z - R <= e[2] /\ e[2] <= z + R
    BY <1>1 DEF Around
  <2> QED
    BY <1>2, <2>1
<1>5. IsFiniteSet(Around(d))
  BY <1>3, <1>4, FS_Subset
<1> QED
  BY <1>5 DEF Around

-----------------------------------------------------------------------------
\* What the invariant says of one connection.
LEMMA At ==
  ASSUME IInv, NEW c \in Clients
  PROVE  /\ ses[c] \in SessionType /\ out[c] \in Seq(Packets) /\ cli[c] \in ClientType
         /\ stale[c] \subseteq Positions
         /\ Handling(ses[c], out[c], cli[c])
         /\ ses = [ses EXCEPT ![c] = ses[c]] /\ out = [out EXCEPT ![c] = out[c]]
         /\ cli = [cli EXCEPT ![c] = cli[c]]
  BY DEF IInv, Types

\* A handler's step that writes nothing and leaves what is in flight and what
\* the client holds alone.
LEMMA WritesNothing ==
  ASSUME IInv, NEW c \in Clients, NEW s \in SessionType, NEW k \in ClientType,
         ses' = [ses EXCEPT ![c] = s], cli' = [cli EXCEPT ![c] = k],
         UNCHANGED <<edits, out, stale>>,
         ses[c].pc # "update", s.pc # "update",
         k.held = cli[c].held, k.view = cli[c].view,
         Handling(s, out[c], k)
  PROVE  IInv'
<1>1. out' = [out EXCEPT ![c] = out[c]] /\ out[c] \in Seq(Packets)
  BY At
<1>2. \A p \in Positions : \A b : Told(ses[c], out[c], cli[c], p, b) => Told(s, out[c], k, p, b)
  BY DEF Told, Arriving
<1> QED
  BY <1>1, <1>2, OneMovesQuietly

\* A write that tells the client nothing about blocks.
LEMMA WritesNotice ==
  ASSUME IInv, NEW c \in Clients, NEW s \in SessionType, NEW m \in Packets,
         write_frame(c, m), ses' = [ses EXCEPT ![c] = s],
         UNCHANGED <<edits, cli, stale>>,
         m.k \notin {"chunk", "update"},
         ses[c].pc # "update", s.pc \notin {"update", "out"},
         IsFiniteSet(s.pending), s.pending \subseteq s.loaded,
         s.pending # {} => s.pc \in {"start", "chunks"},
         s.reply # NoReply <=> s.pc = "ack"
  PROVE  IInv'
<1> DEFINE o == Append(out[c], m)
<1>1. /\ out[c] \in Seq(Packets) /\ cli[c] \in ClientType
      /\ cli' = [cli EXCEPT ![c] = cli[c]]
  BY At
<1>2. o \in Seq(Packets) /\ Len(o) = Len(out[c]) + 1
  BY <1>1, AppendFacts
<1>3. Len(o) <= OutBound
  BY <1>1, <1>2, OutBoundAssumption DEF write_frame
<1>4. out' = [out EXCEPT ![c] = o]
  BY DEF write_frame
<1>5. \A p \in Positions : \A b : Arriving(out[c], cli[c], p, b) => Arriving(o, cli[c], p, b)
  BY <1>1, AppendNeutral DEF Touches
<1> HIDE DEF o
<1>6. Handling(s, o, cli[c])
  BY <1>3 DEF Handling
<1>7. \A p \in Positions : \A b : Told(ses[c], out[c], cli[c], p, b) => Told(s, o, cli[c], p, b)
  BY <1>5 DEF Told
<1> QED
  BY <1>1, <1>2, <1>4, <1>6, <1>7, OneMovesQuietly

-----------------------------------------------------------------------------
\* The steps of load_around and of a join.
LEMMA JoinKeeps ==
  ASSUME IInv, NEW c \in Clients, Join(c)
  PROVE  IInv'
<1> DEFINE s == Session("recenter")
<1>1. s \in SessionType
  BY OriginAssumption, HotbarAssumption DEF Session, SessionType, PCs, Replies
<1>2. Handling(s, out[c], cli[c])
  BY At, FS_EmptySet DEF Handling, Join, Session
<1>3. /\ ses' = [ses EXCEPT ![c] = s] /\ s.pc = "recenter" /\ ses[c].pc = "out"
      /\ UNCHANGED <<edits, out, cli, stale>>
  BY DEF Join, Session
<1>4. cli' = [cli EXCEPT ![c] = cli[c]] /\ cli[c] \in ClientType
  BY <1>3, At
<1> HIDE DEF s
<1> QED
  BY <1>1, <1>2, <1>3, <1>4, WritesNothing

\* Recentring the view keeps the invariant.
LEMMA RecenterKeeps ==
  ASSUME IInv, NEW c \in Clients, Recenter(c)
  PROVE  IInv'
<1> DEFINE new == Around(ses[c].center) \ ses[c].loaded
           pc == IF new = {} THEN "idle" ELSE "start"
           s == [ses[c] EXCEPT !.loaded = @ \cup new, !.pending = new,
                               !.total = Cardinality(new), !.pc = pc]
           m == [k |-> "center", chunk |-> ses[c].center]
<1>1. /\ ses[c] \in SessionType /\ Handling(ses[c], out[c], cli[c])
      /\ ses[c].pc = "recenter" /\ ses[c].center \in Chunks
  BY At DEF Recenter, SessionType
<1>2. IsFiniteSet(new) /\ Cardinality(new) \in Nat /\ new \subseteq Chunks
  BY <1>1, AroundFinite, FS_Difference, FS_CardinalityType
<1>3. m \in Packets
  BY <1>1 DEF Packets
<1>4. write_frame(c, m) /\ UNCHANGED <<edits, cli, stale>>
  BY DEF Recenter
<1>5. ses' = [ses EXCEPT ![c] = s]
  BY DEF Recenter
<1>6. pc \in PCs /\ pc \in {"idle", "start"} /\ (new # {} => pc = "start")
  BY DEF PCs
<1> HIDE DEF new, pc
<1>7. /\ s \in SessionType /\ s.pc = pc /\ s.pending = new /\ new \subseteq s.loaded
      /\ s.reply = ses[c].reply
  BY <1>1, <1>2, <1>6 DEF SessionType
<1>8. s.reply = NoReply
  BY <1>1, <1>7 DEF Handling
<1> HIDE DEF s
<1> QED
  BY <1>1, <1>2, <1>3, <1>4, <1>5, <1>6, <1>7, <1>8, WritesNotice

\* The start of a chunk batch keeps the invariant.
LEMMA StartBatchKeeps ==
  ASSUME IInv, NEW c \in Clients, StartBatch(c)
  PROVE  IInv'
<1> DEFINE s == [ses[c] EXCEPT !.pc = "chunks"]
           m == [k |-> "start"]
<1>1. ses[c] \in SessionType /\ Handling(ses[c], out[c], cli[c]) /\ ses[c].pc = "start"
  BY At DEF StartBatch
<1>2. m \in Packets
  BY DEF Packets
<1>3. write_frame(c, m) /\ UNCHANGED <<edits, cli, stale>> /\ ses' = [ses EXCEPT ![c] = s]
  BY DEF StartBatch
<1>4. /\ s \in SessionType /\ s.pc = "chunks" /\ s.pending = ses[c].pending
      /\ s.loaded = ses[c].loaded /\ s.reply = ses[c].reply
  BY <1>1 DEF SessionType, PCs
<1> HIDE DEF s
<1> QED
  BY <1>1, <1>2, <1>3, <1>4, WritesNotice DEF Handling

\* The end of a chunk batch keeps the invariant.
LEMMA FinishBatchKeeps ==
  ASSUME IInv, NEW c \in Clients, FinishBatch(c)
  PROVE  IInv'
<1> DEFINE s == [ses[c] EXCEPT !.pc = "idle"]
           m == [k |-> "finished", count |-> ses[c].total]
<1>1. /\ ses[c] \in SessionType /\ Handling(ses[c], out[c], cli[c])
      /\ ses[c].pc = "chunks" /\ ses[c].pending = {} /\ ses[c].total \in Nat
  BY At DEF FinishBatch, SessionType
<1>2. m \in Packets
  BY <1>1 DEF Packets
<1>3. write_frame(c, m) /\ UNCHANGED <<edits, cli, stale>> /\ ses' = [ses EXCEPT ![c] = s]
  BY DEF FinishBatch
<1>4. /\ s \in SessionType /\ s.pc = "idle" /\ s.pending = {}
      /\ s.loaded = ses[c].loaded /\ s.reply = ses[c].reply
  BY <1>1 DEF SessionType, PCs
<1> HIDE DEF s
<1> QED
  BY <1>1, <1>2, <1>3, <1>4, WritesNotice, FS_EmptySet DEF Handling

\* A chunk is read from the world in the step that writes it, so it tells of
\* every block in it what is there now.
LEMMA SendChunkKeeps ==
  ASSUME IInv, NEW c \in Clients, SendChunk(c)
  PROVE  IInv'
<1> DEFINE d == FirstChunk(ses[c].pending)
           m == [k |-> "chunk", chunk |-> d, edits |-> chunk_edits(d)]
           o == Append(out[c], m)
           s == [ses[c] EXCEPT !.pending = @ \ {d}]
<1>1. /\ ses[c] \in SessionType /\ Handling(ses[c], out[c], cli[c])
      /\ out[c] \in Seq(Packets) /\ cli[c] \in ClientType /\ EditsTypeOK
      /\ cli = [cli EXCEPT ![c] = cli[c]] /\ stale \in [Clients -> SUBSET Positions]
      /\ ses[c].pc = "chunks" /\ ses[c].pending # {}
  BY At DEF SendChunk, IInv, Types
<1>2. d \in ses[c].pending /\ d \in Chunks
  <2>1. ses[c].pending \in SUBSET (Int \X Int) /\ IsFiniteSet(ses[c].pending)
    BY <1>1, ChunksAssumption DEF SessionType, Handling
  <2>2. d \in ses[c].pending
    BY <1>1, <2>1, FirstChunkIn
  <2> QED
    BY <1>1, <2>2 DEF SessionType
<1>3. m \in Packets
  BY <1>1, <1>2 DEF Packets, EditsTypeOK, chunk_edits
<1>4. o \in Seq(Packets) /\ Len(o) = Len(out[c]) + 1
  BY <1>1, <1>3, AppendFacts
<1>5. /\ ses' = [ses EXCEPT ![c] = s] /\ out' = [out EXCEPT ![c] = o]
      /\ cli' = [cli EXCEPT ![c] = cli[c]] /\ edits' = edits
      /\ stale' = [stale EXCEPT ![c] = {p \in stale[c] : chunk_of_block(p) # d}]
  BY <1>1 DEF SendChunk, write_frame
<1>6. Len(o) <= OutBound
  BY <1>1, <1>4, OutBoundAssumption DEF SendChunk, write_frame
<1>7. /\ s \in SessionType /\ s.pc = "chunks" /\ s.pending = ses[c].pending \ {d}
      /\ s.loaded = ses[c].loaded /\ s.reply = ses[c].reply
  BY <1>1 DEF SessionType
<1>8. m.k = "chunk" /\ m.chunk = d /\ m.edits = edits[d]
  BY DEF chunk_edits
<1> HIDE DEF d, m, o, s
<1>9. Handling(s, o, cli[c])
  BY <1>1, <1>6, <1>7, FS_RemoveElement DEF Handling
<1>10. /\ EditsTypeOK' /\ stale' \in [Clients -> SUBSET Positions]
       /\ \A p : BlockAt(p)' = BlockAt(p)
  BY <1>1, <1>5 DEF EditsTypeOK, BlockAt
<1>11. ASSUME NEW p \in Positions \ stale'[c]
       PROVE  Told(s, o, cli[c], p, BlockAt(p)')
  <2>1. CASE chunk_of_block(p) = d
    <3>1. Says(m, p, BlockAt(p))
      BY <1>8, <2>1 DEF Says, BlockAt
    <3>2. Arriving(o, cli[c], p, BlockAt(p))
      BY <1>1, <1>3, <3>1, AppendSays DEF o
    <3> QED
      BY <1>7, <1>10, <3>2 DEF Told
  <2>2. CASE chunk_of_block(p) # d
    <3>1. p \notin stale[c] /\ ~Touches(m, p)
      BY <1>1, <1>5, <1>8, <2>2 DEF Touches
    <3>2. Arriving(out[c], cli[c], p, BlockAt(p))
      BY <1>1, <3>1 DEF IInv, Coherent, Told
    <3>3. Arriving(o, cli[c], p, BlockAt(p))
      BY <1>1, <1>3, <3>1, <3>2, AppendNeutral DEF o
    <3> QED
      BY <1>7, <1>10, <3>3 DEF Told
  <2> QED
    BY <2>1, <2>2
<1>12. \A e \in Clients \ {c} : \A p \in Positions \ stale'[e] :
         p \notin stale[e] /\ BlockAt(p)' = BlockAt(p)
  BY <1>1, <1>5, <1>10
<1> QED
  BY <1>1, <1>4, <1>5, <1>7, <1>9, <1>10, <1>11, <1>12, OneMoves

-----------------------------------------------------------------------------
\* A move into another chunk.
LEMMA MoveKeeps ==
  ASSUME IInv, NEW c \in Clients, NEW to \in Chunks, Move(c, to)
  PROVE  IInv'
<1> DEFINE s == [ses[c] EXCEPT !.center = to, !.pc = "recenter"]
<1>1. /\ ses[c] \in SessionType /\ Handling(ses[c], out[c], cli[c]) /\ cli[c] \in ClientType
      /\ cli = [cli EXCEPT ![c] = cli[c]] /\ ses[c].pc = "idle"
  BY At DEF Move
<1>2. ses' = [ses EXCEPT ![c] = s] /\ UNCHANGED <<edits, out, cli, stale>>
  BY DEF Move
<1>3. /\ s \in SessionType /\ s.pc = "recenter" /\ s.pending = ses[c].pending
      /\ s.loaded = ses[c].loaded /\ s.reply = ses[c].reply
  BY <1>1 DEF SessionType, PCs
<1> HIDE DEF s
<1>4. Handling(s, out[c], cli[c])
  BY <1>1, <1>3 DEF Handling
<1> QED
  BY <1>1, <1>2, <1>3, <1>4, WritesNothing

\* A three-field reply is not NoReply.
LEMMA ReplyOwed ==
  ASSUME NEW p, NEW b, NEW q
  PROVE  [pos |-> p, state |-> b, seq |-> q] # NoReply
<1>1. "seq" \in DOMAIN [pos |-> p, state |-> b, seq |-> q] /\ "seq" \notin DOMAIN NoReply
  BY DEF NoReply
<1> QED
  BY <1>1

\* What asking does to the client.
LEMMA AskFacts ==
  ASSUME IInv, NEW c \in Clients, NEW q \in Seqs, Ask(c, q)
  PROVE  LET k == [cli[c] EXCEPT !.waiting = @ \cup {q}] IN
         /\ ses[c].pc = "idle" /\ cli' = [cli EXCEPT ![c] = k]
         /\ k \in ClientType /\ k.held = cli[c].held /\ k.view = cli[c].view
  BY At DEF Ask, ClientType

\* The connection that changes a block owes its client the new state; all
\* others become stale there.
LEMMA ChangeKeeps ==
  ASSUME IInv, NEW c \in Clients, NEW p \in Positions, NEW b \in States, NEW q \in Seqs,
         Ask(c, q), Change(c, p, b, q), UNCHANGED out
  PROVE  IInv'
<1> DEFINE k == [cli[c] EXCEPT !.waiting = @ \cup {q}]
           s == [ses[c] EXCEPT !.pc = "update",
                               !.reply = [pos |-> p, state |-> b, seq |-> q]]
<1>1. /\ ses[c] \in SessionType /\ Handling(ses[c], out[c], cli[c])
      /\ out[c] \in Seq(Packets) /\ out = [out EXCEPT ![c] = out[c]]
      /\ EditsTypeOK /\ stale \in [Clients -> SUBSET Positions]
  BY At DEF IInv, Types
<1>2. /\ ses[c].pc = "idle" /\ cli' = [cli EXCEPT ![c] = k]
      /\ k \in ClientType /\ k.held = cli[c].held /\ k.view = cli[c].view
  BY AskFacts
<1>3. /\ ses' = [ses EXCEPT ![c] = s] /\ set_block(p, b)
      /\ stale' = [d \in Clients |-> IF d = c THEN stale[d] \ {p} ELSE stale[d] \cup {p}]
  BY DEF Change
<1>4. [pos |-> p, state |-> b, seq |-> q] \in Replies
  BY DEF Replies
<1>5. /\ s \in SessionType /\ s.pc = "update" /\ s.pending = ses[c].pending
      /\ s.loaded = ses[c].loaded /\ s.reply = [pos |-> p, state |-> b, seq |-> q]
  BY <1>1, <1>4 DEF SessionType, PCs
<1>6. s.reply # NoReply /\ s.reply.pos = p /\ s.reply.state = b
  BY <1>5, ReplyOwed
<1> HIDE DEF k, s
<1>7. Handling(s, out[c], k)
  BY <1>1, <1>2, <1>5, <1>6 DEF Handling
<1>8. EditsTypeOK' /\ \A x \in Positions : BlockAt(x)' = IF x = p THEN b ELSE BlockAt(x)
  BY <1>1, <1>3, SetBlockChangesOneBlock
<1>9. stale' \in [Clients -> SUBSET Positions]
  BY <1>1, <1>3
<1>10. ASSUME NEW x \in Positions \ stale'[c]
       PROVE  Told(s, out[c], k, x, BlockAt(x)')
  <2>1. CASE x = p
    BY <1>5, <1>6, <1>8, <2>1 DEF Told
  <2>2. CASE x # p
    <3>1. x \notin stale[c] /\ BlockAt(x)' = BlockAt(x)
      BY <1>1, <1>3, <1>8, <2>2
    <3>2. Arriving(out[c], cli[c], x, BlockAt(x))
      BY <1>2, <3>1 DEF IInv, Coherent, Told
    <3>3. Arriving(out[c], k, x, BlockAt(x))
      BY <1>2, <3>2 DEF Arriving
    <3> QED
      BY <1>6, <2>2, <3>1, <3>3 DEF Told
  <2> QED
    BY <2>1, <2>2
<1>11. \A d \in Clients \ {c} : \A x \in Positions \ stale'[d] :
         x \notin stale[d] /\ BlockAt(x)' = BlockAt(x)
  BY <1>1, <1>3, <1>8
<1>12. out' = [out EXCEPT ![c] = out[c]]
  BY <1>1
<1> QED
  BY <1>1, <1>2, <1>3, <1>5, <1>7, <1>8, <1>9, <1>10, <1>11, <1>12, OneMoves

\* What a client holds in its hand is a block state or nothing.
LEMMA HeldType ==
  ASSUME IInv, NEW c \in Clients
  PROVE  Held(c) \in States \cup {Empty}
<1>1. ses[c].inventory \in [Slots -> Items \cup {Empty}]
  BY At DEF SessionType
<1> QED
  BY <1>1, ItemsAssumption DEF Held

\* An empty hand places nothing and is answered all the same.
LEMMA PlaceNothingKeeps ==
  ASSUME IInv, NEW c \in Clients, NEW q \in Seqs, PlaceNothing(c, q)
  PROVE  IInv'
<1> DEFINE k == [cli[c] EXCEPT !.waiting = @ \cup {q}]
           s == [ses[c] EXCEPT !.pc = "ack",
                               !.reply = [pos |-> Empty, state |-> Empty, seq |-> q]]
<1>1. ses[c] \in SessionType /\ Handling(ses[c], out[c], cli[c])
  BY At
<1>2. /\ ses[c].pc = "idle" /\ cli' = [cli EXCEPT ![c] = k]
      /\ k \in ClientType /\ k.held = cli[c].held /\ k.view = cli[c].view
  BY AskFacts DEF PlaceNothing
<1>3. ses' = [ses EXCEPT ![c] = s] /\ UNCHANGED <<edits, out, stale>>
  BY DEF PlaceNothing
<1>4. [pos |-> Empty, state |-> Empty, seq |-> q] \in Replies
  BY DEF Replies
<1>5. /\ s \in SessionType /\ s.pc = "ack" /\ s.pending = ses[c].pending
      /\ s.loaded = ses[c].loaded /\ s.reply = [pos |-> Empty, state |-> Empty, seq |-> q]
  BY <1>1, <1>4 DEF SessionType, PCs
<1>6. s.reply # NoReply
  BY <1>5, ReplyOwed
<1> HIDE DEF k, s
<1>7. Handling(s, out[c], k)
  BY <1>1, <1>2, <1>5, <1>6 DEF Handling
<1> QED
  BY <1>2, <1>3, <1>5, <1>7, WritesNothing

\* The update that a handler owes tells its client what the block is now.
LEMMA SendUpdateKeeps ==
  ASSUME IInv, NEW c \in Clients, SendUpdate(c)
  PROVE  IInv'
<1> DEFINE r == ses[c].reply
           m == [k |-> "update", pos |-> r.pos, state |-> r.state, seq |-> r.seq]
           o == Append(out[c], m)
           s == [ses[c] EXCEPT !.pc = "ack"]
<1>1. /\ ses[c] \in SessionType /\ Handling(ses[c], out[c], cli[c])
      /\ out[c] \in Seq(Packets) /\ cli[c] \in ClientType
      /\ cli = [cli EXCEPT ![c] = cli[c]] /\ ses[c].pc = "update"
  BY At DEF SendUpdate
<1>2. r \in Replies /\ r # NoReply /\ r.pos \in Positions /\ r.state \in States
  BY <1>1 DEF SessionType, Handling
<1>3. m \in Packets
  BY <1>2 DEF Replies, Packets
<1>4. o \in Seq(Packets) /\ Len(o) = Len(out[c]) + 1
  BY <1>1, <1>3, AppendFacts
<1>5. /\ ses' = [ses EXCEPT ![c] = s] /\ out' = [out EXCEPT ![c] = o]
      /\ cli' = [cli EXCEPT ![c] = cli[c]] /\ UNCHANGED <<edits, stale>>
  BY <1>1 DEF SendUpdate, write_frame
<1>6. Len(o) <= OutBound
  BY <1>1, <1>4, OutBoundAssumption DEF SendUpdate, write_frame
<1>7. /\ s \in SessionType /\ s.pc = "ack" /\ s.pending = ses[c].pending
      /\ s.loaded = ses[c].loaded /\ s.reply = r
  BY <1>1 DEF SessionType, PCs
<1>8. m.k = "update" /\ m.pos = r.pos /\ m.state = r.state
  OBVIOUS
<1> HIDE DEF r, m, o, s
<1>9. Handling(s, o, cli[c])
  BY <1>1, <1>2, <1>6, <1>7 DEF Handling
<1>10. ASSUME NEW p \in Positions, NEW b, Told(ses[c], out[c], cli[c], p, b)
       PROVE  Told(s, o, cli[c], p, b)
  <2>1. CASE r.pos = p
    <3>1. Says(m, p, b)
      BY <1>1, <1>8, <1>10, <2>1 DEF Says, Told, r
    <3> QED
      BY <1>1, <1>3, <1>7, <3>1, AppendSays DEF Told, o
  <2>2. CASE r.pos # p
    <3>1. ~Touches(m, p) /\ Arriving(out[c], cli[c], p, b)
      BY <1>1, <1>8, <1>10, <2>2 DEF Touches, Told, r
    <3> QED
      BY <1>1, <1>3, <1>7, <3>1, AppendNeutral DEF Told, o
  <2> QED
    BY <2>1, <2>2
<1> QED
  BY <1>1, <1>4, <1>5, <1>7, <1>9, <1>10, OneMovesQuietly

\* The acknowledgement ends the handler.
LEMMA SendAckKeeps ==
  ASSUME IInv, NEW c \in Clients, SendAck(c)
  PROVE  IInv'
<1> DEFINE s == [ses[c] EXCEPT !.pc = "idle", !.reply = NoReply]
           m == [k |-> "ack", seq |-> ses[c].reply.seq]
<1>1. ses[c] \in SessionType /\ Handling(ses[c], out[c], cli[c]) /\ ses[c].pc = "ack"
  BY At DEF SendAck
<1>2. ses[c].reply \in Replies /\ ses[c].reply # NoReply
  BY <1>1 DEF Handling, SessionType
<1>3. m \in Packets
  BY <1>2 DEF Packets, Replies
<1>4. write_frame(c, m) /\ UNCHANGED <<edits, cli, stale>> /\ ses' = [ses EXCEPT ![c] = s]
  BY DEF SendAck
<1>5. NoReply \in Replies
  BY DEF Replies
<1>6. /\ s \in SessionType /\ s.pc = "idle" /\ s.pending = ses[c].pending
      /\ s.loaded = ses[c].loaded /\ s.reply = NoReply
  BY <1>1, <1>5 DEF SessionType, PCs
<1>7. m.k = "ack"
  OBVIOUS
<1> HIDE DEF s, m
<1> QED
  BY <1>1, <1>3, <1>4, <1>6, <1>7, WritesNotice DEF Handling

\* What a player holds is no part of the world.
LEMMA SetCarriedKeeps ==
  ASSUME IInv, NEW c \in Clients, NEW index \in Hotbar, SetCarried(c, index)
  PROVE  IInv'
<1> DEFINE s == [ses[c] EXCEPT !.selected = index]
<1>1. /\ ses[c] \in SessionType /\ Handling(ses[c], out[c], cli[c]) /\ cli[c] \in ClientType
      /\ cli = [cli EXCEPT ![c] = cli[c]] /\ ses[c].pc = "idle"
  BY At DEF SetCarried
<1>2. ses' = [ses EXCEPT ![c] = s] /\ UNCHANGED <<edits, out, cli, stale>>
  BY DEF SetCarried
<1>3. /\ s \in SessionType /\ s.pc = "idle" /\ s.pending = ses[c].pending
      /\ s.loaded = ses[c].loaded /\ s.reply = ses[c].reply
  BY <1>1 DEF SessionType
<1> HIDE DEF s
<1>4. Handling(s, out[c], cli[c])
  BY <1>1, <1>3 DEF Handling
<1> QED
  BY <1>1, <1>2, <1>3, <1>4, WritesNothing

\* A change of the creative inventory keeps the invariant.
LEMMA SetCreativeSlotKeeps ==
  ASSUME IInv, NEW c \in Clients, NEW slot \in Slots, NEW item \in Items \cup {Empty},
         SetCreativeSlot(c, slot, item)
  PROVE  IInv'
<1> DEFINE inventory == [ses[c].inventory EXCEPT ![slot] = item]
           s == [ses[c] EXCEPT !.inventory = inventory]
<1>1. /\ ses[c] \in SessionType /\ Handling(ses[c], out[c], cli[c]) /\ cli[c] \in ClientType
      /\ cli = [cli EXCEPT ![c] = cli[c]] /\ ses[c].pc = "idle"
  BY At DEF SetCreativeSlot
<1>2. ses' = [ses EXCEPT ![c] = s] /\ UNCHANGED <<edits, out, cli, stale>>
  BY DEF SetCreativeSlot
<1>3. inventory \in [Slots -> Items \cup {Empty}]
  BY <1>1 DEF SessionType
<1> HIDE DEF inventory
<1>4. /\ s \in SessionType /\ s.pc = "idle" /\ s.pending = ses[c].pending
      /\ s.loaded = ses[c].loaded /\ s.reply = ses[c].reply
  BY <1>1, <1>3 DEF SessionType
<1> HIDE DEF s
<1>5. Handling(s, out[c], cli[c])
  BY <1>1, <1>4 DEF Handling
<1> QED
  BY <1>1, <1>2, <1>4, <1>5, WritesNothing

\* Chat lines and keep-alives are written by an idle handler.
LEMMA NoticeKeeps ==
  ASSUME IInv, NEW c \in Clients, ses[c].pc = "idle", write_frame(c, [k |-> "notice"]),
         UNCHANGED <<edits, ses, cli, stale>>
  PROVE  IInv'
<1> DEFINE m == [k |-> "notice"]
<1>1. /\ ses[c] \in SessionType /\ Handling(ses[c], out[c], cli[c])
      /\ ses' = [ses EXCEPT ![c] = ses[c]]
  BY At
<1>2. m \in Packets /\ m.k = "notice"
  BY DEF Packets
<1>3. write_frame(c, m)
  OBVIOUS
<1> HIDE DEF m
<1> QED
  BY <1>1, <1>2, <1>3, WritesNotice DEF Handling

\* A disconnect forgets the session, its queue and its client.
LEMMA LeaveKeeps ==
  ASSUME IInv, NEW c \in Clients, Leave(c)
  PROVE  IInv'
<1> DEFINE s == Session("out")
<1>1. EditsTypeOK' /\ \A p : BlockAt(p)' = BlockAt(p)
  BY DEF IInv, Types, EditsTypeOK, BlockAt, Leave
<1>2. stale' \in [Clients -> SUBSET Positions]
  BY DEF IInv, Types, Leave
<1>3. \A d \in Clients \ {c} : stale'[d] = stale[d]
  BY DEF IInv, Types, Leave
<1>4. <<>> \in Seq(Packets)
  OBVIOUS
<1>5. /\ ses' = [ses EXCEPT ![c] = s] /\ out' = [out EXCEPT ![c] = <<>>]
      /\ cli' = [cli EXCEPT ![c] = FreshClient]
  BY DEF Leave
<1> HIDE DEF s
<1> QED
  BY <1>1, <1>2, <1>3, <1>4, <1>5, FreshConnection, OneMoves DEF s

\* The client reads the next packet.
LEMMA DeliverKeeps ==
  ASSUME IInv, NEW c \in Clients, Deliver(c)
  PROVE  IInv'
<1> DEFINE o == Tail(out[c])
           k == Received(cli[c], Head(out[c]))
<1>1. /\ ses[c] \in SessionType /\ Handling(ses[c], out[c], cli[c])
      /\ out[c] \in Seq(Packets) /\ out[c] # <<>> /\ cli[c] \in ClientType
      /\ ses = [ses EXCEPT ![c] = ses[c]]
  BY At DEF Deliver
<1>2. /\ o \in Seq(Packets) /\ Head(out[c]) \in Packets
      /\ Len(out[c]) \in Nat /\ Len(o) = Len(out[c]) - 1
  BY <1>1, TailFacts
<1>3. k \in ClientType
  BY <1>1, <1>2, ReceivedFields
<1>4. /\ ses' = [ses EXCEPT ![c] = ses[c]] /\ out' = [out EXCEPT ![c] = o]
      /\ cli' = [cli EXCEPT ![c] = k] /\ UNCHANGED <<edits, stale>>
  BY <1>1 DEF Deliver
<1>5. \A p \in Positions : \A b : Arriving(out[c], cli[c], p, b) => Arriving(o, k, p, b)
  BY <1>1, DeliverArriving
<1> HIDE DEF o, k
<1>6. Handling(ses[c], o, k)
  BY <1>1, <1>2, OutBoundAssumption DEF Handling
<1>7. \A p \in Positions : \A b : Told(ses[c], out[c], cli[c], p, b) => Told(ses[c], o, k, p, b)
  BY <1>5 DEF Told
<1> QED
  BY <1>1, <1>2, <1>3, <1>4, <1>6, <1>7, OneMovesQuietly

-----------------------------------------------------------------------------
\* Every step of every connection keeps the invariant.
LEMMA NextIInv == IInv /\ [Next]_vars => IInv'
<1> SUFFICES ASSUME IInv, [Next]_vars PROVE IInv'
  OBVIOUS
<1>1. ASSUME UNCHANGED vars PROVE IInv'
  BY <1>1 DEF vars, IInv, Types, EditsTypeOK, Coherent, BlockAt
<1>2. ASSUME NEW c \in Clients, NEW p \in Positions, NEW q \in Seqs, Break(c, p, q)
      PROVE  IInv'
  BY <1>2, ChangeKeeps, AirAssumption DEF Break, STATE_AIR
<1>3. ASSUME NEW c \in Clients, NEW p \in Positions, NEW face \in 0..6, NEW q \in Seqs,
             Place(c, p, face, q)
      PROVE  IInv'
  BY <1>3, ChangeKeeps, HeldType DEF Place
<1>4. ASSUME NEW c \in Clients, Chat(c) \/ KeepAlive(c)
      PROVE  IInv'
  BY <1>4, NoticeKeeps DEF Chat, KeepAlive
<1> QED
  BY <1>1, <1>2, <1>3, <1>4, JoinKeeps, RecenterKeeps, StartBatchKeeps, SendChunkKeeps,
     FinishBatchKeeps, MoveKeeps, PlaceNothingKeeps, SendUpdateKeeps, SendAckKeeps,
     SetCarriedKeeps, SetCreativeSlotKeeps, LeaveKeeps, DeliverKeeps DEF Next

\* IInv holds in every reachable state.
LEMMA SpecIInv == Spec => []IInv
  BY InitIInv, NextIInv, PTL DEF Spec

\* Every type of Play, and what goes with a session's place in its handler.
THEOREM PlayTypeCorrect == Spec => []TypeOK
<1>1. IInv => TypeOK
  <2> SUFFICES ASSUME IInv PROVE TypeOK
    OBVIOUS
  <2>1. EditsTypeOK /\ DOMAIN ses = Clients /\ DOMAIN cli = Clients
    BY DEF IInv, Types
  <2>2. stale \in [Clients -> SUBSET Positions]
    BY DEF IInv, Types
  <2>3. ASSUME NEW c \in Clients
        PROVE  /\ ses[c] \in SessionType /\ out[c] \in Seq(Packets) /\ cli[c] \in ClientType
               /\ Handling(ses[c], out[c], cli[c])
    BY At
  <2>4. \A c \in Clients : \A i \in 1..Len(out[c]) : out[c][i] \in Packets
    BY <2>3
  <2> QED
    BY <2>1, <2>2, <2>3, <2>4 DEF TypeOK, SessionType, ClientType, Handling
<1> QED
  BY <1>1, SpecIInv, PTL

\* Once everything has arrived, what was told last is what the client sees.
LEMMA CoherentWhenQuiet == IInv => ViewCoherent
<1> SUFFICES ASSUME IInv, NEW c \in Clients, Quiet(c), NEW p \in Positions,
                    chunk_of_block(p) \in cli[c].held, p \notin stale[c]
             PROVE  cli[c].view[p] = BlockAt(p)
  BY DEF ViewCoherent
<1>1. Arriving(out[c], cli[c], p, BlockAt(p))
  BY DEF IInv, Coherent, Told, Quiet
<1>2. Len(out[c]) = 0
  BY DEF Quiet
<1> QED
  BY <1>1, <1>2 DEF Arriving

\* What a client sees once all that was sent has arrived is the shared world,
\* but for blocks another connection changed after this one was told of them.
THEOREM CoherentViews == Spec => []ViewCoherent
  BY CoherentWhenQuiet, SpecIInv, PTL

-----------------------------------------------------------------------------
(***************************************************************************)
(* Proofs about the order in which a play task writes, for every number of *)
(* connections, view distance and queue: chunk batches reach the client    *)
(* whole and counted right, an acknowledgement never overtakes the block   *)
(* update it vouches for, and a client whose cache drops nothing never     *)
(* sees the edge of the world.                                             *)
(*                                                                         *)
(* All three are about what is in flight, so the invariants follow the     *)
(* queue.  Framed runs the client's batch counter through every packet in  *)
(* flight and ends at the number of chunks the handler has written.        *)
(* Answers ties sequence numbers in flight to actions the client still     *)
(* waits for, each of which is acknowledged once and last.  Streamed says  *)
(* of every chunk that the session counts as loaded that it is yet to be   *)
(* written, in flight, or held.                                            *)
(***************************************************************************)


\* The client's batch counter after a packet, and when it may come.
Turn(b, m) ==
  IF m.k = "start" THEN 0
  ELSE IF m.k = "chunk" THEN b + 1
  ELSE IF m.k = "finished" THEN NoBatch
  ELSE b
Allowed(b, m) ==
  /\ b # NoBatch <=> m.k \in {"chunk", "finished"}
  /\ m.k = "finished" => m.count = b

\* The chunks of the current batch that the handler has written.
Sent(s) == IF s.pc = "chunks" THEN s.total - Cardinality(s.pending) ELSE NoBatch

\* The total of a batch is what it began with.
Counted(s) ==
  /\ s.pc = "start" => s.total = Cardinality(s.pending)
  /\ s.pc = "chunks" => Cardinality(s.pending) <= s.total

\* The client's counter runs through the queue and ends at what was written.
Framed(s, o, k) ==
  \E f \in [0..Len(o) -> Int] :
    /\ f[0] = k.batch /\ f[Len(o)] = Sent(s)
    /\ \A i \in 1..Len(o) : Allowed(f[i - 1], o[i]) /\ f[i] = Turn(f[i - 1], o[i])

\* r is the reply the handler owes, w what the client waits for.
Answers(r, o, w) ==
  /\ \A i \in 1..Len(o) : o[i].k \in {"update", "ack"} => o[i].seq \in w
  /\ r # NoReply => r.seq \in w
  /\ \A i \in 1..Len(o) : o[i].k = "ack" =>
       /\ \A j \in i + 1..Len(o) : o[j].k \in {"update", "ack"} => o[j].seq # o[i].seq
       /\ r # NoReply => r.seq # o[i].seq

\* What the order of writes promises of one connection, and of all of them.
Ordered(s, o, k) == Counted(s) /\ Framed(s, o, k) /\ Answers(s.reply, o, k.waiting)

OInv == \A c \in Clients : Ordered(ses[c], out[c], cli[c])

-----------------------------------------------------------------------------
\* A packet that the counter allows leaves the queue framed.
LEMMA FramedAppend ==
  ASSUME NEW o \in Seq(Packets), NEW m \in Packets, NEW s, NEW s2, NEW k,
         Framed(s, o, k), Sent(s) \in Int, Sent(s2) \in Int,
         Allowed(Sent(s), m), Sent(s2) = Turn(Sent(s), m)
  PROVE  Framed(s2, Append(o, m), k)
<1> DEFINE o2 == Append(o, m)
<1>1. /\ Len(o) \in Nat /\ Len(o2) = Len(o) + 1
      /\ \A i \in 1..Len(o) : o2[i] = o[i]
      /\ o2[Len(o) + 1] = m
  BY AppendFacts
<1>2. PICK f \in [0..Len(o) -> Int] :
        /\ f[0] = k.batch /\ f[Len(o)] = Sent(s)
        /\ \A i \in 1..Len(o) : Allowed(f[i - 1], o[i]) /\ f[i] = Turn(f[i - 1], o[i])
  BY DEF Framed
<1> HIDE DEF o2
<1> DEFINE g == [i \in 0..Len(o2) |-> IF i <= Len(o) THEN f[i] ELSE Sent(s2)]
<1>3. g \in [0..Len(o2) -> Int]
  BY <1>1
<1>4. g[0] = k.batch /\ g[Len(o2)] = Sent(s2) /\ \A i \in 0..Len(o) : g[i] = f[i]
  BY <1>1, <1>2
<1> HIDE DEF g
<1>5. ASSUME NEW i \in 1..Len(o2)
      PROVE  Allowed(g[i - 1], o2[i]) /\ g[i] = Turn(g[i - 1], o2[i])
  <2>1. CASE i <= Len(o)
    <3>1. i \in 1..Len(o) /\ g[i - 1] = f[i - 1] /\ g[i] = f[i] /\ o2[i] = o[i]
      BY <1>1, <1>4, <2>1
    <3> QED
      BY <1>2, <3>1
  <2>2. CASE i = Len(o) + 1
    <3>1. g[i - 1] = Sent(s) /\ g[i] = Sent(s2) /\ o2[i] = m
      BY <1>1, <1>2, <1>4, <2>2
    <3> QED
      BY <3>1
  <2> QED
    BY <1>1, <2>1, <2>2
<1> QED
  BY <1>3, <1>4, <1>5 DEF Framed, o2

\* The client counts as the queue did.
LEMMA FramedTail ==
  ASSUME NEW o \in Seq(Packets), o # <<>>, NEW s, NEW k, NEW k2,
         Framed(s, o, k), k2.batch = Turn(k.batch, Head(o))
  PROVE  Framed(s, Tail(o), k2) /\ Allowed(k.batch, Head(o))
<1> DEFINE t == Tail(o)
<1>1. /\ Len(o) \in Nat \ {0} /\ Len(t) = Len(o) - 1 /\ Head(o) = o[1]
      /\ \A i \in 1..Len(o) - 1 : t[i] = o[i + 1]
  BY TailFacts
<1>2. PICK f \in [0..Len(o) -> Int] :
        /\ f[0] = k.batch /\ f[Len(o)] = Sent(s)
        /\ \A i \in 1..Len(o) : Allowed(f[i - 1], o[i]) /\ f[i] = Turn(f[i - 1], o[i])
  BY DEF Framed
<1> HIDE DEF t
<1>3. Allowed(k.batch, Head(o)) /\ f[1] = k2.batch
  <2>1. Allowed(f[1 - 1], o[1]) /\ f[1] = Turn(f[1 - 1], o[1])
    BY <1>1, <1>2
  <2> QED
    BY <1>1, <1>2, <2>1
<1> DEFINE g == [i \in 0..Len(t) |-> f[i + 1]]
<1>4. g \in [0..Len(t) -> Int] /\ g[0] = k2.batch /\ g[Len(t)] = Sent(s)
  BY <1>1, <1>2, <1>3
<1>5. ASSUME NEW i \in 1..Len(t)
      PROVE  Allowed(g[i - 1], t[i]) /\ g[i] = Turn(g[i - 1], t[i])
  <2>1. g[i - 1] = f[i] /\ g[i] = f[i + 1] /\ t[i] = o[i + 1] /\ i + 1 \in 1..Len(o)
    BY <1>1
  <2>2. Allowed(f[(i + 1) - 1], o[i + 1]) /\ f[i + 1] = Turn(f[(i + 1) - 1], o[i + 1])
    BY <1>2, <2>1
  <2>3. (i + 1) - 1 = i
    OBVIOUS
  <2> HIDE DEF g
  <2> QED
    BY <2>1, <2>2, <2>3
<1> HIDE DEF g
<1> QED
  BY <1>3, <1>4, <1>5 DEF Framed, t

\* A packet keeps the answers in order if a sequence number it carries is that
\* of the reply which is owed, and an acknowledgement settles it.
LEMMA AnswersAppend ==
  ASSUME NEW o \in Seq(Packets), NEW m \in Packets, NEW r, NEW r2, NEW w,
         Answers(r, o, w),
         m.k \in {"update", "ack"} => r # NoReply /\ m.seq = r.seq,
         r2 = NoReply \/ (r2 = r /\ m.k # "ack")
  PROVE  Answers(r2, Append(o, m), w)
<1> DEFINE o2 == Append(o, m)
<1>1. /\ Len(o) \in Nat /\ Len(o2) = Len(o) + 1
      /\ \A i \in 1..Len(o) : o2[i] = o[i]
      /\ o2[Len(o) + 1] = m
  BY AppendFacts
<1> HIDE DEF o2
<1>2. \A i \in 1..Len(o2) : i \in 1..Len(o) \/ (i = Len(o) + 1 /\ o2[i] = m)
  BY <1>1
<1>3. ASSUME NEW i \in 1..Len(o2), o2[i].k \in {"update", "ack"}
      PROVE  o2[i].seq \in w
  <2>1. CASE i \in 1..Len(o)
    BY <1>1, <1>3, <2>1 DEF Answers
  <2>2. CASE o2[i] = m
    BY <1>3, <2>2 DEF Answers
  <2> QED
    BY <1>2, <2>1, <2>2
<1>4. ASSUME NEW i \in 1..Len(o2), o2[i].k = "ack", NEW j \in i + 1..Len(o2),
             o2[j].k \in {"update", "ack"}
      PROVE  o2[j].seq # o2[i].seq
  <2>1. i \in 1..Len(o) /\ o2[i] = o[i] /\ o[i].k = "ack" /\ j \in 1..Len(o2)
    BY <1>1, <1>4
  <2>2. CASE j \in 1..Len(o)
    <3>1. j \in i + 1..Len(o) /\ o2[j] = o[j]
      BY <1>1, <1>4, <2>1, <2>2
    <3> QED
      BY <1>4, <2>1, <3>1 DEF Answers
  <2>3. CASE o2[j] = m
    BY <1>4, <2>1, <2>3 DEF Answers
  <2> QED
    BY <1>2, <2>1, <2>2, <2>3
<1>5. ASSUME NEW i \in 1..Len(o2), o2[i].k = "ack", r2 # NoReply
      PROVE  r2.seq # o2[i].seq
  <2>1. i \in 1..Len(o) /\ o2[i] = o[i] /\ r2 = r
    BY <1>1, <1>2, <1>5
  <2> QED
    BY <1>5, <2>1 DEF Answers
<1>6. r2 # NoReply => r2.seq \in w
  BY DEF Answers
<1> QED
  BY <1>3, <1>4, <1>5, <1>6 DEF Answers, o2

\* An acknowledgement that arrives ends the wait for its sequence number, which
\* nothing behind it and no reply carries.
LEMMA AnswersTail ==
  ASSUME NEW o \in Seq(Packets), o # <<>>, NEW r, NEW w, NEW w2, Answers(r, o, w),
         w2 = IF Head(o).k = "ack" THEN w \ {Head(o).seq} ELSE w
  PROVE  Answers(r, Tail(o), w2)
<1> DEFINE t == Tail(o)
<1>1. /\ Len(o) \in Nat \ {0} /\ Len(t) = Len(o) - 1 /\ Head(o) = o[1]
      /\ \A i \in 1..Len(o) - 1 : t[i] = o[i + 1]
  BY TailFacts
<1> HIDE DEF t
<1>2. \A i \in 1..Len(t) : t[i] = o[i + 1] /\ i + 1 \in 1..Len(o) /\ i + 1 \in 2..Len(o)
  BY <1>1
<1>3. ASSUME NEW i \in 2..Len(o), o[i].k \in {"update", "ack"}
      PROVE  o[i].seq \in w2
  <2>1. i \in 1..Len(o) /\ 1 \in 1..Len(o) /\ i \in 1 + 1..Len(o)
    BY <1>1, <1>3
  <2>2. o[i].seq \in w
    BY <1>3, <2>1 DEF Answers
  <2>3. o[1].k = "ack" => o[i].seq # o[1].seq
    BY <1>3, <2>1 DEF Answers
  <2> QED
    BY <1>1, <2>2, <2>3
<1>4. \A i \in 1..Len(t) : t[i].k \in {"update", "ack"} => t[i].seq \in w2
  BY <1>2, <1>3
<1>5. r # NoReply => r.seq \in w2
  BY <1>1 DEF Answers
<1>6. ASSUME NEW i \in 1..Len(t), t[i].k = "ack", NEW j \in i + 1..Len(t),
             t[j].k \in {"update", "ack"}
      PROVE  t[j].seq # t[i].seq
  <2>1. /\ i + 1 \in 1..Len(o) /\ j + 1 \in (i + 1) + 1..Len(o)
        /\ t[i] = o[i + 1] /\ t[j] = o[j + 1]
    BY <1>1, <1>6
  <2> QED
    BY <1>6, <2>1 DEF Answers
<1>7. \A i \in 1..Len(t) : t[i].k = "ack" => (r # NoReply => r.seq # t[i].seq)
  BY <1>2 DEF Answers
<1> QED
  BY <1>4, <1>5, <1>6, <1>7 DEF Answers, t

-----------------------------------------------------------------------------
\* A step of one connection leaves the others in order.
LEMMA OneOrdered ==
  ASSUME IInv, OInv, NEW c \in Clients, NEW s, NEW o, NEW k,
         ses' = [ses EXCEPT ![c] = s], out' = [out EXCEPT ![c] = o], cli' = [cli EXCEPT ![c] = k],
         Ordered(s, o, k)
  PROVE  OInv'
<1>1. /\ ses'[c] = s /\ out'[c] = o /\ cli'[c] = k
      /\ \A d \in Clients \ {c} : ses'[d] = ses[d] /\ out'[d] = out[d] /\ cli'[d] = cli[d]
  BY DEF IInv, Types
<1> QED
  BY <1>1 DEF OInv

\* A step that writes nothing: the batch and the owed reply stay.
LEMMA SilentOrdered ==
  ASSUME IInv, OInv, NEW c \in Clients, NEW s, ses' = [ses EXCEPT ![c] = s],
         UNCHANGED <<out, cli>>,
         ses[c].pc # "chunks", s.pc \notin {"start", "chunks"}, s.reply = ses[c].reply
  PROVE  OInv'
<1>1. out' = [out EXCEPT ![c] = out[c]] /\ cli' = [cli EXCEPT ![c] = cli[c]]
  BY At
<1>2. Sent(s) = Sent(ses[c]) /\ Counted(s)
  BY DEF Sent, Counted
<1>3. Ordered(ses[c], out[c], cli[c])
  BY DEF OInv
<1>4. Ordered(s, out[c], cli[c])
  BY <1>2, <1>3 DEF Ordered, Framed
<1> QED
  BY <1>1, <1>4, OneOrdered

\* A step that writes a packet.
LEMMA WriteOrdered ==
  ASSUME IInv, OInv, NEW c \in Clients, NEW s, NEW m \in Packets,
         ses' = [ses EXCEPT ![c] = s], write_frame(c, m), UNCHANGED cli,
         Sent(ses[c]) \in Int, Sent(s) \in Int,
         Allowed(Sent(ses[c]), m), Sent(s) = Turn(Sent(ses[c]), m), Counted(s),
         m.k \in {"update", "ack"} => ses[c].reply # NoReply /\ m.seq = ses[c].reply.seq,
         s.reply = NoReply \/ (s.reply = ses[c].reply /\ m.k # "ack")
  PROVE  OInv'
<1> DEFINE o == Append(out[c], m)
<1>1. out' = [out EXCEPT ![c] = o] /\ cli' = [cli EXCEPT ![c] = cli[c]]
  BY At DEF write_frame
<1>2. out[c] \in Seq(Packets)
  BY At
<1>3. Ordered(ses[c], out[c], cli[c])
  BY DEF OInv
<1>4. Framed(s, o, cli[c])
  BY <1>2, <1>3, FramedAppend DEF Ordered
<1>5. Answers(s.reply, o, cli[c].waiting)
  BY <1>2, <1>3, AnswersAppend DEF Ordered
<1> HIDE DEF o
<1> QED
  BY <1>1, <1>4, <1>5, OneOrdered DEF Ordered

\* A step that takes up an action of the client, with a fresh sequence number.
LEMMA AskOrdered ==
  ASSUME IInv, OInv, NEW c \in Clients, NEW s, NEW q \in Seqs, Ask(c, q),
         ses' = [ses EXCEPT ![c] = s], UNCHANGED out,
         s.pc \in {"update", "ack"}, s.reply.seq = q
  PROVE  OInv'
<1> DEFINE k == [cli[c] EXCEPT !.waiting = @ \cup {q}]
<1>1. /\ ses[c].pc = "idle" /\ q \notin cli[c].waiting /\ cli' = [cli EXCEPT ![c] = k]
      /\ cli[c] \in ClientType /\ out' = [out EXCEPT ![c] = out[c]]
      /\ Handling(ses[c], out[c], cli[c])
  BY At DEF Ask
<1>2. k.waiting = cli[c].waiting \cup {q} /\ k.batch = cli[c].batch
  BY <1>1 DEF ClientType
<1>3. Ordered(ses[c], out[c], cli[c])
  BY DEF OInv
<1> HIDE DEF k
<1>4. Sent(s) = Sent(ses[c]) /\ Counted(s)
  BY <1>1 DEF Sent, Counted
<1>5. Framed(s, out[c], k)
  BY <1>2, <1>3, <1>4 DEF Ordered, Framed
<1>6. ses[c].reply = NoReply
  BY <1>1 DEF Handling
<1>7. Answers(s.reply, out[c], k.waiting)
  BY <1>1, <1>2, <1>3, <1>6 DEF Ordered, Answers
<1> QED
  BY <1>1, <1>4, <1>5, <1>7, OneOrdered DEF Ordered

-----------------------------------------------------------------------------
\* Nothing is in flight at first.
LEMMA InitOInv == Init => OInv
<1> SUFFICES ASSUME Init, NEW c \in Clients PROVE Ordered(ses[c], out[c], cli[c])
  BY DEF OInv
<1>1. ses[c] = Session("out") /\ out[c] = <<>> /\ cli[c] = FreshClient
  BY DEF Init
<1>2. Counted(Session("out")) /\ Answers(Session("out").reply, <<>>, FreshClient.waiting)
  BY DEF Counted, Answers, Session, FreshClient
<1> DEFINE f == [i \in 0..0 |-> NoBatch]
<1>3. f \in [0..Len(<<>>) -> Int] /\ f[0] = NoBatch /\ Len(<<>>) = 0
  BY DEF NoBatch
<1>4. Sent(Session("out")) = NoBatch /\ FreshClient.batch = NoBatch
  BY DEF Sent, Session, FreshClient
<1> HIDE DEF f
<1>5. Framed(Session("out"), <<>>, FreshClient)
  BY <1>3, <1>4 DEF Framed
<1> QED
  BY <1>1, <1>2, <1>5 DEF Ordered

\* Steps that write nothing.
LEMMA SilentSteps ==
  ASSUME IInv, OInv, NEW c \in Clients,
         \/ Join(c) \/ \E to \in Chunks : Move(c, to)
         \/ \E index \in Hotbar : SetCarried(c, index)
         \/ \E slot \in Slots, item \in Items \cup {Empty} : SetCreativeSlot(c, slot, item)
  PROVE  OInv'
<1>1. ses[c] \in SessionType /\ Handling(ses[c], out[c], cli[c])
  BY At
<1>2. CASE Join(c)
  <2> DEFINE s == Session("recenter")
  <2>1. /\ ses' = [ses EXCEPT ![c] = s] /\ UNCHANGED <<out, cli>>
        /\ ses[c].pc = "out" /\ s.pc = "recenter" /\ s.reply = NoReply
    BY <1>2 DEF Join, Session
  <2> HIDE DEF s
  <2> QED
    BY <1>1, <2>1, SilentOrdered DEF Handling
<1>3. ASSUME NEW to \in Chunks, Move(c, to) PROVE OInv'
  <2> DEFINE s == [ses[c] EXCEPT !.center = to, !.pc = "recenter"]
  <2>1. ses' = [ses EXCEPT ![c] = s] /\ UNCHANGED <<out, cli>> /\ ses[c].pc = "idle"
    BY <1>3 DEF Move
  <2>2. s.pc = "recenter" /\ s.reply = ses[c].reply
    BY <1>1 DEF SessionType
  <2> HIDE DEF s
  <2> QED
    BY <2>1, <2>2, SilentOrdered
<1>4. ASSUME NEW index \in Hotbar, SetCarried(c, index) PROVE OInv'
  <2> DEFINE s == [ses[c] EXCEPT !.selected = index]
  <2>1. ses' = [ses EXCEPT ![c] = s] /\ UNCHANGED <<out, cli>> /\ ses[c].pc = "idle"
    BY <1>4 DEF SetCarried
  <2>2. s.pc = ses[c].pc /\ s.reply = ses[c].reply
    BY <1>1 DEF SessionType
  <2> HIDE DEF s
  <2> QED
    BY <2>1, <2>2, SilentOrdered
<1>5. ASSUME NEW slot \in Slots, NEW item \in Items \cup {Empty}, SetCreativeSlot(c, slot, item)
      PROVE  OInv'
  <2> DEFINE s == [ses[c] EXCEPT !.inventory[slot] = item]
  <2>1. ses' = [ses EXCEPT ![c] = s] /\ UNCHANGED <<out, cli>> /\ ses[c].pc = "idle"
    BY <1>5 DEF SetCreativeSlot
  <2>2. s.pc = ses[c].pc /\ s.reply = ses[c].reply
    BY <1>1 DEF SessionType
  <2> HIDE DEF s
  <2> QED
    BY <2>1, <2>2, SilentOrdered
<1> QED
  BY <1>2, <1>3, <1>4, <1>5

\* The steps of load_around: one batch, whole and counted.
LEMMA BatchSteps ==
  ASSUME IInv, OInv, NEW c \in Clients,
         Recenter(c) \/ StartBatch(c) \/ SendChunk(c) \/ FinishBatch(c)
  PROVE  OInv'
<1>1. ses[c] \in SessionType /\ Handling(ses[c], out[c], cli[c]) /\ Counted(ses[c])
  BY At DEF OInv, Ordered
<1>2. ses[c].total \in Nat /\ IsFiniteSet(ses[c].pending) /\ Cardinality(ses[c].pending) \in Nat
  BY <1>1, FS_CardinalityType DEF SessionType, Handling
<1>3. CASE Recenter(c)
  <2> DEFINE new == Around(ses[c].center) \ ses[c].loaded
             pc == IF new = {} THEN "idle" ELSE "start"
             s == [ses[c] EXCEPT !.loaded = @ \cup new, !.pending = new,
                                 !.total = Cardinality(new), !.pc = pc]
             m == [k |-> "center", chunk |-> ses[c].center]
  <2>1. /\ ses' = [ses EXCEPT ![c] = s] /\ write_frame(c, m) /\ UNCHANGED cli
        /\ ses[c].pc = "recenter"
    BY <1>3 DEF Recenter
  <2>2. m \in Packets /\ m.k = "center"
    BY <1>1 DEF Packets, SessionType
  <2>3. pc \in {"idle", "start"}
    OBVIOUS
  <2> HIDE DEF new, pc
  <2>4. s.pc = pc /\ s.reply = ses[c].reply /\ s.total = Cardinality(s.pending)
    BY <1>1 DEF SessionType
  <2> HIDE DEF s, m
  <2>5. Sent(ses[c]) = NoBatch /\ Sent(s) = NoBatch /\ Counted(s) /\ NoBatch \in Int
    BY <2>1, <2>3, <2>4 DEF Sent, Counted, NoBatch
  <2>6. Allowed(NoBatch, m) /\ Turn(NoBatch, m) = NoBatch
    BY <2>2 DEF Allowed, Turn
  <2> QED
    BY <2>1, <2>2, <2>4, <2>5, <2>6, WriteOrdered
<1>4. CASE StartBatch(c)
  <2> DEFINE s == [ses[c] EXCEPT !.pc = "chunks"]
             m == [k |-> "start"]
  <2>1. /\ ses' = [ses EXCEPT ![c] = s] /\ write_frame(c, m) /\ UNCHANGED cli
        /\ ses[c].pc = "start"
    BY <1>4 DEF StartBatch
  <2>2. m \in Packets /\ m.k = "start"
    BY DEF Packets
  <2>3. /\ s.pc = "chunks" /\ s.reply = ses[c].reply
        /\ s.total = ses[c].total /\ s.pending = ses[c].pending
    BY <1>1 DEF SessionType
  <2> HIDE DEF s, m
  <2>4. Sent(ses[c]) = NoBatch /\ Sent(s) = 0 /\ Counted(s) /\ NoBatch \in Int
    BY <1>1, <1>2, <2>1, <2>3 DEF Sent, Counted, NoBatch
  <2>5. /\ Allowed(Sent(ses[c]), m) /\ Sent(s) = Turn(Sent(ses[c]), m)
        /\ Sent(ses[c]) \in Int /\ Sent(s) \in Int
    BY <2>2, <2>4 DEF Allowed, Turn
  <2>6. m.k \notin {"update", "ack"} /\ (s.reply = ses[c].reply /\ m.k # "ack")
    BY <2>2, <2>3
  <2> QED
    BY <2>1, <2>2, <2>4, <2>5, <2>6, WriteOrdered
<1>5. CASE SendChunk(c)
  <2> DEFINE d == FirstChunk(ses[c].pending)
             m == [k |-> "chunk", chunk |-> d, edits |-> chunk_edits(d)]
             s == [ses[c] EXCEPT !.pending = @ \ {d}]
  <2>1. /\ ses' = [ses EXCEPT ![c] = s] /\ write_frame(c, m) /\ UNCHANGED cli
        /\ ses[c].pc = "chunks" /\ ses[c].pending # {}
    BY <1>5 DEF SendChunk
  <2>2. d \in ses[c].pending /\ d \in Chunks
    <3>1. ses[c].pending \in SUBSET (Int \X Int) /\ ses[c].pending \subseteq Chunks
      BY <1>1, ChunksAssumption DEF SessionType
    <3> QED
      BY <1>2, <2>1, <3>1, FirstChunkIn
  <2>3. m \in Packets /\ m.k = "chunk"
    BY <2>2 DEF Packets, IInv, Types, EditsTypeOK, chunk_edits
  <2>4. /\ s.pc = "chunks" /\ s.reply = ses[c].reply
        /\ s.total = ses[c].total /\ s.pending = ses[c].pending \ {d}
    BY <1>1, <2>1 DEF SessionType
  <2> HIDE DEF d, s, m
  <2>5. Cardinality(s.pending) = Cardinality(ses[c].pending) - 1
    <3>1. Cardinality(ses[c].pending \ {d}) = Cardinality(ses[c].pending) - 1
      BY <1>2, <2>2, FS_RemoveElement
    <3> QED
      BY <2>4, <3>1
  <2>6. /\ Sent(ses[c]) \in Nat /\ Sent(s) = Sent(ses[c]) + 1 /\ Counted(s)
    BY <1>1, <1>2, <2>1, <2>4, <2>5 DEF Sent, Counted
  <2>7. /\ Allowed(Sent(ses[c]), m) /\ Sent(s) = Turn(Sent(ses[c]), m)
        /\ Sent(ses[c]) \in Int /\ Sent(s) \in Int
    BY <2>3, <2>6 DEF Allowed, Turn, NoBatch
  <2>8. m.k \notin {"update", "ack"} /\ (s.reply = ses[c].reply /\ m.k # "ack")
    BY <2>3, <2>4
  <2> QED
    BY <2>1, <2>3, <2>6, <2>7, <2>8, WriteOrdered
<1>6. CASE FinishBatch(c)
  <2> DEFINE s == [ses[c] EXCEPT !.pc = "idle"]
             m == [k |-> "finished", count |-> ses[c].total]
  <2>1. /\ ses' = [ses EXCEPT ![c] = s] /\ write_frame(c, m) /\ UNCHANGED cli
        /\ ses[c].pc = "chunks" /\ ses[c].pending = {}
    BY <1>6 DEF FinishBatch
  <2>2. m \in Packets /\ m.k = "finished" /\ m.count = ses[c].total
    BY <1>2 DEF Packets
  <2>3. s.pc = "idle" /\ s.reply = ses[c].reply
    BY <1>1 DEF SessionType
  <2> HIDE DEF s, m
  <2>4. Sent(ses[c]) = ses[c].total /\ Sent(s) = NoBatch /\ Counted(s) /\ NoBatch \in Int
    BY <1>2, <2>1, <2>3, FS_EmptySet DEF Sent, Counted, NoBatch
  <2>5. /\ Allowed(Sent(ses[c]), m) /\ Sent(s) = Turn(Sent(ses[c]), m)
        /\ Sent(ses[c]) \in Int /\ Sent(s) \in Int
    BY <1>2, <2>2, <2>4 DEF Allowed, Turn, NoBatch
  <2>6. m.k \notin {"update", "ack"} /\ (s.reply = ses[c].reply /\ m.k # "ack")
    BY <2>2, <2>3
  <2> QED
    BY <2>1, <2>2, <2>4, <2>5, <2>6, WriteOrdered
<1> QED
  BY <1>3, <1>4, <1>5, <1>6

\* Taking up an action, answering it, and what is written besides.
LEMMA ActionSteps ==
  ASSUME IInv, OInv, NEW c \in Clients,
         \/ \E p \in Positions, q \in Seqs : Break(c, p, q)
         \/ \E p \in Positions, face \in 0..6, q \in Seqs : Place(c, p, face, q)
         \/ \E q \in Seqs : PlaceNothing(c, q)
  PROVE  OInv'
<1>1. ses[c] \in SessionType
  BY At
<1>2. ASSUME NEW p, NEW b, NEW q \in Seqs, Ask(c, q), Change(c, p, b, q), UNCHANGED out
      PROVE  OInv'
  <2> DEFINE s == [ses[c] EXCEPT !.pc = "update",
                                 !.reply = [pos |-> p, state |-> b, seq |-> q]]
  <2>1. ses' = [ses EXCEPT ![c] = s]
    BY <1>2 DEF Change
  <2>2. s.pc = "update" /\ s.reply.seq = q
    BY <1>1 DEF SessionType
  <2> HIDE DEF s
  <2> QED
    BY <1>2, <2>1, <2>2, AskOrdered
<1>3. ASSUME NEW q \in Seqs, PlaceNothing(c, q)
      PROVE  OInv'
  <2> DEFINE s == [ses[c] EXCEPT !.pc = "ack",
                                 !.reply = [pos |-> Empty, state |-> Empty, seq |-> q]]
  <2>1. ses' = [ses EXCEPT ![c] = s] /\ Ask(c, q) /\ UNCHANGED out
    BY <1>3 DEF PlaceNothing
  <2>2. s.pc = "ack" /\ s.reply.seq = q
    BY <1>1 DEF SessionType
  <2> HIDE DEF s
  <2> QED
    BY <2>1, <2>2, AskOrdered
<1> QED
  BY <1>2, <1>3 DEF Break, Place

\* The update, the acknowledgement, and what is written besides.
LEMMA AnswerSteps ==
  ASSUME IInv, OInv, NEW c \in Clients,
         SendUpdate(c) \/ SendAck(c) \/ Chat(c) \/ KeepAlive(c)
  PROVE  OInv'
<1>1. ses[c] \in SessionType /\ Handling(ses[c], out[c], cli[c]) /\ NoBatch \in Int
  BY At DEF NoBatch
<1>2. CASE SendUpdate(c)
  <2> DEFINE r == ses[c].reply
             m == [k |-> "update", pos |-> r.pos, state |-> r.state, seq |-> r.seq]
             s == [ses[c] EXCEPT !.pc = "ack"]
  <2>1. /\ ses' = [ses EXCEPT ![c] = s] /\ write_frame(c, m) /\ UNCHANGED cli
        /\ ses[c].pc = "update"
    BY <1>2 DEF SendUpdate
  <2>2. r \in Replies /\ r # NoReply /\ r.pos \in Positions /\ r.state \in States
    BY <1>1, <2>1 DEF SessionType, Handling
  <2>3. m \in Packets /\ m.k = "update" /\ m.seq = r.seq
    BY <2>2 DEF Replies, Packets
  <2>4. s.pc = "ack" /\ s.reply = r
    BY <1>1 DEF SessionType
  <2> HIDE DEF r, m, s
  <2>5. Sent(ses[c]) = NoBatch /\ Sent(s) = NoBatch /\ Counted(s)
    BY <2>1, <2>4 DEF Sent, Counted
  <2>6. Allowed(NoBatch, m) /\ Turn(NoBatch, m) = NoBatch
    BY <2>3 DEF Allowed, Turn
  <2>7. ses[c].reply = r
    BY DEF r
  <2> QED
    BY <1>1, <2>1, <2>2, <2>3, <2>4, <2>5, <2>6, <2>7, WriteOrdered
<1>3. CASE SendAck(c)
  <2> DEFINE m == [k |-> "ack", seq |-> ses[c].reply.seq]
             s == [ses[c] EXCEPT !.pc = "idle", !.reply = NoReply]
  <2>1. /\ ses' = [ses EXCEPT ![c] = s] /\ write_frame(c, m) /\ UNCHANGED cli
        /\ ses[c].pc = "ack"
    BY <1>3 DEF SendAck
  <2>2. ses[c].reply \in Replies /\ ses[c].reply # NoReply
    BY <1>1, <2>1 DEF SessionType, Handling
  <2>3. m \in Packets /\ m.k = "ack" /\ m.seq = ses[c].reply.seq
    BY <2>2 DEF Replies, Packets
  <2>4. s.pc = "idle" /\ s.reply = NoReply
    BY <1>1 DEF SessionType
  <2> HIDE DEF m, s
  <2>5. Sent(ses[c]) = NoBatch /\ Sent(s) = NoBatch /\ Counted(s)
    BY <2>1, <2>4 DEF Sent, Counted
  <2>6. Allowed(NoBatch, m) /\ Turn(NoBatch, m) = NoBatch
    BY <2>3 DEF Allowed, Turn
  <2> QED
    BY <1>1, <2>1, <2>2, <2>3, <2>4, <2>5, <2>6, WriteOrdered
<1>4. CASE Chat(c) \/ KeepAlive(c)
  <2> DEFINE m == [k |-> "notice"]
  <2>1. /\ ses' = [ses EXCEPT ![c] = ses[c]] /\ write_frame(c, m) /\ UNCHANGED cli
        /\ ses[c].pc = "idle"
    BY <1>4, At DEF Chat, KeepAlive
  <2>2. m \in Packets /\ m.k = "notice"
    BY DEF Packets
  <2> HIDE DEF m
  <2>3. Sent(ses[c]) = NoBatch /\ Counted(ses[c])
    BY <2>1 DEF Sent, Counted
  <2>4. Allowed(NoBatch, m) /\ Turn(NoBatch, m) = NoBatch
    BY <2>2 DEF Allowed, Turn
  <2> QED
    BY <1>1, <2>1, <2>2, <2>3, <2>4, WriteOrdered
<1> QED
  BY <1>2, <1>3, <1>4

\* The client reads the next packet.
LEMMA DeliverOrdered ==
  ASSUME IInv, OInv, NEW c \in Clients, Deliver(c)
  PROVE  OInv'
<1> DEFINE o == Tail(out[c])
           m == Head(out[c])
           k == Received(cli[c], m)
<1>1. /\ out[c] \in Seq(Packets) /\ out[c] # <<>> /\ cli[c] \in ClientType
      /\ ses = [ses EXCEPT ![c] = ses[c]] /\ Ordered(ses[c], out[c], cli[c])
  BY At DEF Deliver, OInv
<1>2. /\ ses' = [ses EXCEPT ![c] = ses[c]] /\ out' = [out EXCEPT ![c] = o]
      /\ cli' = [cli EXCEPT ![c] = k]
  BY <1>1 DEF Deliver
<1>3. m \in Packets
  BY <1>1, TailFacts
<1>4. /\ k.batch = Turn(cli[c].batch, m)
      /\ k.waiting = IF m.k = "ack" THEN cli[c].waiting \ {m.seq} ELSE cli[c].waiting
  <2> HIDE DEF m, k
  <2>1. m.k \in {"center", "start", "chunk", "finished", "update", "ack", "notice"}
    BY <1>3 DEF Packets
  <2>2. CASE m.k \in {"center", "start", "chunk"}
    BY <1>1, <1>3, <2>2, ReceivedFields DEF Turn, k
  <2>3. CASE m.k \in {"finished", "update"}
    BY <1>1, <1>3, <2>3, ReceivedFields DEF Turn, k
  <2>4. CASE m.k \in {"ack", "notice"}
    BY <1>1, <1>3, <2>4, ReceivedFields DEF Turn, k
  <2> QED
    BY <2>1, <2>2, <2>3, <2>4
<1>5. Framed(ses[c], o, k)
  BY <1>1, <1>4, FramedTail DEF Ordered
<1>6. Answers(ses[c].reply, o, k.waiting)
  BY <1>1, <1>4, AnswersTail DEF Ordered
<1> HIDE DEF o, m, k
<1> QED
  BY <1>1, <1>2, <1>5, <1>6, OneOrdered DEF Ordered

\* A disconnect forgets the queue and what was waited for.
LEMMA LeaveOrdered ==
  ASSUME IInv, OInv, NEW c \in Clients, Leave(c)
  PROVE  OInv'
<1>1. Ordered(Session("out"), <<>>, FreshClient)
  <2>1. Counted(Session("out")) /\ Answers(Session("out").reply, <<>>, FreshClient.waiting)
    BY DEF Counted, Answers, Session, FreshClient
  <2> DEFINE f == [i \in 0..0 |-> NoBatch]
  <2>2. f \in [0..Len(<<>>) -> Int] /\ f[0] = NoBatch /\ Len(<<>>) = 0
    BY DEF NoBatch
  <2>3. Sent(Session("out")) = NoBatch /\ FreshClient.batch = NoBatch
    BY DEF Sent, Session, FreshClient
  <2> HIDE DEF f
  <2> QED
    BY <2>1, <2>2, <2>3 DEF Ordered, Framed
<1>2. /\ ses' = [ses EXCEPT ![c] = Session("out")] /\ out' = [out EXCEPT ![c] = <<>>]
      /\ cli' = [cli EXCEPT ![c] = FreshClient]
  BY DEF Leave
<1> QED
  BY <1>1, <1>2, OneOrdered

\* OInv holds in every reachable state.
LEMMA SpecOInv == Spec => []OInv
<1>1. IInv /\ OInv /\ [Next]_vars => OInv'
  <2> SUFFICES ASSUME IInv, OInv, [Next]_vars PROVE OInv'
    OBVIOUS
  <2>1. CASE UNCHANGED vars
    BY <2>1 DEF vars, OInv
  <2>2. CASE Next
    BY <2>2, SilentSteps, BatchSteps, ActionSteps, AnswerSteps, DeliverOrdered, LeaveOrdered
       DEF Next
  <2> QED
    BY <2>1, <2>2
<1> QED
  BY <1>1, InitOInv, SpecIInv, PTL DEF Spec

-----------------------------------------------------------------------------
\* Chunk batches arrive whole: chunks only between a batch's start and its
\* finish, nothing else there, and the finish counts them right.
THEOREM BatchFraming == Spec => []BatchesWellFormed
<1>1. IInv /\ OInv => BatchesWellFormed
  <2> SUFFICES ASSUME IInv, OInv, NEW c \in Clients, out[c] # <<>>
               PROVE  Allowed(cli[c].batch, Head(out[c]))
    BY DEF BatchesWellFormed, Allowed
  <2>1. out[c] \in Seq(Packets) /\ Framed(ses[c], out[c], cli[c])
    BY At DEF OInv, Ordered
  <2> DEFINE k == [batch |-> Turn(cli[c].batch, Head(out[c]))]
  <2>2. k.batch = Turn(cli[c].batch, Head(out[c]))
    OBVIOUS
  <2> HIDE DEF k
  <2> QED
    BY <2>1, <2>2, FramedTail
<1> QED
  BY <1>1, SpecIInv, SpecOInv, PTL

\* Each acknowledgement is behind the block update it vouches for.
THEOREM AcksFollowUpdates == Spec => []AckAfterUpdate
<1>1. IInv /\ OInv => AckAfterUpdate
  <2> SUFFICES ASSUME IInv, OInv, NEW c \in Clients, NEW i \in 1..Len(out[c]), out[c][i].k = "ack"
               PROVE  /\ \A j \in i + 1..Len(out[c]) :
                           out[c][j].k = "update" => out[c][j].seq # out[c][i].seq
                      /\ ses[c].pc = "update" => ses[c].reply.seq # out[c][i].seq
    BY DEF AckAfterUpdate
  <2>1. Answers(ses[c].reply, out[c], cli[c].waiting) /\ Handling(ses[c], out[c], cli[c])
    BY At DEF OInv, Ordered
  <2> QED
    BY <2>1 DEF Answers, Handling
<1> QED
  BY <1>1, SpecIInv, SpecOInv, PTL

-----------------------------------------------------------------------------
\* What is loaded is at the client, in flight or still to be sent; and between
\* load_around calls all of the square around the player is loaded.
Streamed(s, o, k) ==
  /\ \A d \in s.loaded :
       \/ d \in s.pending \/ d \in k.held
       \/ \E i \in 1..Len(o) : o[i].k = "chunk" /\ o[i].chunk = d
  /\ s.pc \notin {"out", "recenter"} => Around(s.center) \subseteq s.loaded

EInv == \A c \in Clients : Streamed(ses[c], out[c], cli[c])

\* A cache that drops nothing.
KeepsAll == \A a, b \in Chunks : Distance(a, b) <= KeepRadius

\* A step that moves connection c alone.
LEMMA OneStreamed ==
  ASSUME IInv, EInv, NEW c \in Clients, NEW s, NEW o, NEW k,
         ses' = [ses EXCEPT ![c] = s], out' = [out EXCEPT ![c] = o], cli' = [cli EXCEPT ![c] = k],
         Streamed(s, o, k)
  PROVE  EInv'
<1>1. /\ ses'[c] = s /\ out'[c] = o /\ cli'[c] = k
      /\ \A d \in Clients \ {c} : ses'[d] = ses[d] /\ out'[d] = out[d] /\ cli'[d] = cli[d]
  BY DEF IInv, Types
<1> QED
  BY <1>1 DEF EInv

\* A write: what was in flight still is, and what left pending is written.
LEMMA WriteStreamed ==
  ASSUME IInv, EInv, NEW c \in Clients, NEW s, NEW m \in Packets,
         ses' = [ses EXCEPT ![c] = s], write_frame(c, m), UNCHANGED cli,
         \A d \in s.loaded : \/ d \in s.pending
                             \/ d \in ses[c].loaded /\ d \notin ses[c].pending
                             \/ m.k = "chunk" /\ m.chunk = d,
         s.pc \notin {"out", "recenter"} => Around(s.center) \subseteq s.loaded
  PROVE  EInv'
<1> DEFINE o == Append(out[c], m)
<1>1. /\ out[c] \in Seq(Packets) /\ cli' = [cli EXCEPT ![c] = cli[c]]
      /\ Streamed(ses[c], out[c], cli[c])
  BY At DEF EInv
<1>2. /\ Len(out[c]) \in Nat /\ Len(o) = Len(out[c]) + 1
      /\ \A i \in 1..Len(out[c]) : o[i] = out[c][i]
      /\ o[Len(out[c]) + 1] = m
  BY <1>1, AppendFacts
<1>3. out' = [out EXCEPT ![c] = o]
  BY DEF write_frame
<1> HIDE DEF o
<1>4. ASSUME NEW d \in s.loaded
      PROVE  \/ d \in s.pending \/ d \in cli[c].held
             \/ \E i \in 1..Len(o) : o[i].k = "chunk" /\ o[i].chunk = d
  <2>1. CASE m.k = "chunk" /\ m.chunk = d
    <3>1. Len(out[c]) + 1 \in 1..Len(o)
      BY <1>2
    <3> QED
      BY <1>2, <2>1, <3>1
  <2>2. CASE d \in ses[c].loaded /\ d \notin ses[c].pending
    <3>1. CASE d \in cli[c].held
      BY <3>1
    <3>2. CASE \E i \in 1..Len(out[c]) : out[c][i].k = "chunk" /\ out[c][i].chunk = d
      <4>1. PICK i \in 1..Len(out[c]) : out[c][i].k = "chunk" /\ out[c][i].chunk = d
        BY <3>2
      <4>2. i \in 1..Len(o) /\ o[i] = out[c][i]
        BY <1>2
      <4> QED
        BY <4>1, <4>2
    <3> QED
      BY <1>1, <2>2, <3>1, <3>2 DEF Streamed
  <2> QED
    BY <1>4, <2>1, <2>2
<1>5. Streamed(s, o, cli[c])
  BY <1>4 DEF Streamed
<1> QED
  BY <1>1, <1>3, <1>5, OneStreamed

\* A step that writes nothing and sends nothing.
LEMMA SilentStreamed ==
  ASSUME IInv, EInv, NEW c \in Clients, NEW s, NEW k,
         ses' = [ses EXCEPT ![c] = s], cli' = [cli EXCEPT ![c] = k], UNCHANGED out,
         s.loaded = ses[c].loaded, s.pending = ses[c].pending, k.held = cli[c].held,
         s.pc \notin {"out", "recenter"} => s.center = ses[c].center /\ ses[c].pc = "idle"
  PROVE  EInv'
<1>1. out' = [out EXCEPT ![c] = out[c]] /\ Streamed(ses[c], out[c], cli[c])
  BY At DEF EInv
<1>2. Streamed(s, out[c], k)
  BY <1>1 DEF Streamed
<1> QED
  BY <1>1, <1>2, OneStreamed

\* The steps that write nothing.
LEMMA SilentStepsStreamed ==
  ASSUME IInv, EInv, NEW c \in Clients,
         \/ Join(c) \/ \E to \in Chunks : Move(c, to)
         \/ \E index \in Hotbar : SetCarried(c, index)
         \/ \E slot \in Slots, item \in Items \cup {Empty} : SetCreativeSlot(c, slot, item)
         \/ \E p \in Positions, q \in Seqs : Break(c, p, q)
         \/ \E p \in Positions, face \in 0..6, q \in Seqs : Place(c, p, face, q)
         \/ \E q \in Seqs : PlaceNothing(c, q)
  PROVE  EInv'
<1>1. /\ ses[c] \in SessionType /\ cli[c] \in ClientType /\ cli = [cli EXCEPT ![c] = cli[c]]
      /\ out = [out EXCEPT ![c] = out[c]]
  BY At
<1>2. CASE Join(c)
  <2> DEFINE s == Session("recenter")
  <2>1. ses' = [ses EXCEPT ![c] = s] /\ UNCHANGED <<out, cli>>
    BY <1>2 DEF Join
  <2>2. Streamed(s, out[c], cli[c])
    BY DEF Streamed, Session
  <2> HIDE DEF s
  <2> QED
    BY <1>1, <2>1, <2>2, OneStreamed
<1>3. ASSUME NEW to \in Chunks, Move(c, to) PROVE EInv'
  <2> DEFINE s == [ses[c] EXCEPT !.center = to, !.pc = "recenter"]
  <2>1. ses' = [ses EXCEPT ![c] = s] /\ UNCHANGED <<out, cli>>
    BY <1>3 DEF Move
  <2>2. s.pc = "recenter" /\ s.loaded = ses[c].loaded /\ s.pending = ses[c].pending
    BY <1>1 DEF SessionType
  <2> HIDE DEF s
  <2> QED
    BY <1>1, <2>1, <2>2, SilentStreamed
<1>4. ASSUME NEW index \in Hotbar, SetCarried(c, index) PROVE EInv'
  <2> DEFINE s == [ses[c] EXCEPT !.selected = index]
  <2>1. ses' = [ses EXCEPT ![c] = s] /\ UNCHANGED <<out, cli>> /\ ses[c].pc = "idle"
    BY <1>4 DEF SetCarried
  <2>2. /\ s.loaded = ses[c].loaded /\ s.pending = ses[c].pending
        /\ s.center = ses[c].center
    BY <1>1 DEF SessionType
  <2> HIDE DEF s
  <2> QED
    BY <1>1, <2>1, <2>2, SilentStreamed
<1>5. ASSUME NEW slot \in Slots, NEW item \in Items \cup {Empty}, SetCreativeSlot(c, slot, item)
      PROVE  EInv'
  <2> DEFINE s == [ses[c] EXCEPT !.inventory[slot] = item]
  <2>1. ses' = [ses EXCEPT ![c] = s] /\ UNCHANGED <<out, cli>> /\ ses[c].pc = "idle"
    BY <1>5 DEF SetCreativeSlot
  <2>2. /\ s.loaded = ses[c].loaded /\ s.pending = ses[c].pending
        /\ s.center = ses[c].center
    BY <1>1 DEF SessionType
  <2> HIDE DEF s
  <2> QED
    BY <1>1, <2>1, <2>2, SilentStreamed
<1>6. ASSUME NEW q \in Seqs, Ask(c, q), UNCHANGED out, NEW pc, NEW r,
             ses' = [ses EXCEPT ![c].pc = pc, ![c].reply = r]
      PROVE  EInv'
  <2> DEFINE s == [ses[c] EXCEPT !.pc = pc, !.reply = r]
             k == [cli[c] EXCEPT !.waiting = @ \cup {q}]
  <2>1. /\ ses' = [ses EXCEPT ![c] = s] /\ cli' = [cli EXCEPT ![c] = k]
        /\ UNCHANGED out /\ ses[c].pc = "idle"
    BY <1>6 DEF Ask
  <2>2. /\ s.loaded = ses[c].loaded /\ s.pending = ses[c].pending
        /\ s.center = ses[c].center /\ k.held = cli[c].held
    BY <1>1 DEF SessionType, ClientType
  <2> HIDE DEF s, k
  <2> QED
    BY <2>1, <2>2, SilentStreamed
<1>7. ASSUME NEW p, NEW b, NEW q \in Seqs, Ask(c, q), Change(c, p, b, q), UNCHANGED out
      PROVE  EInv'
  BY <1>6, <1>7 DEF Change
<1>8. ASSUME NEW q \in Seqs, PlaceNothing(c, q) PROVE EInv'
  BY <1>6, <1>8 DEF PlaceNothing
<1> QED
  BY <1>2, <1>3, <1>4, <1>5, <1>7, <1>8 DEF Break, Place

\* The steps that write a packet.
LEMMA WritingStepsStreamed ==
  ASSUME IInv, EInv, NEW c \in Clients,
         \/ Recenter(c) \/ StartBatch(c) \/ SendChunk(c) \/ FinishBatch(c)
         \/ SendUpdate(c) \/ SendAck(c) \/ Chat(c) \/ KeepAlive(c)
  PROVE  EInv'
<1>1. /\ ses[c] \in SessionType /\ Handling(ses[c], out[c], cli[c])
      /\ Streamed(ses[c], out[c], cli[c])
  BY At DEF EInv
<1>2. ASSUME NEW s, NEW m \in Packets,
             ses' = [ses EXCEPT ![c] = s], write_frame(c, m), UNCHANGED cli,
             s.loaded = ses[c].loaded, s.pending = ses[c].pending, s.center = ses[c].center,
             ses[c].pc \notin {"out", "recenter"}
      PROVE  EInv'
  <2>1. \A d \in s.loaded : \/ d \in s.pending
                            \/ d \in ses[c].loaded /\ d \notin ses[c].pending
                            \/ m.k = "chunk" /\ m.chunk = d
    BY <1>2
  <2>2. s.pc \notin {"out", "recenter"} => Around(s.center) \subseteq s.loaded
    BY <1>1, <1>2 DEF Streamed
  <2> QED
    BY <1>2, <2>1, <2>2, WriteStreamed
<1>3. CASE Recenter(c)
  <2> DEFINE new == Around(ses[c].center) \ ses[c].loaded
             pc == IF new = {} THEN "idle" ELSE "start"
             s == [ses[c] EXCEPT !.loaded = @ \cup new, !.pending = new,
                                 !.total = Cardinality(new), !.pc = pc]
             m == [k |-> "center", chunk |-> ses[c].center]
  <2>1. /\ ses' = [ses EXCEPT ![c] = s] /\ write_frame(c, m) /\ UNCHANGED cli
        /\ ses[c].pc = "recenter"
    BY <1>3 DEF Recenter
  <2>2. m \in Packets
    BY <1>1 DEF Packets, SessionType
  <2>3. /\ s.loaded = ses[c].loaded \cup new /\ s.pending = new
        /\ s.center = ses[c].center
    BY <1>1 DEF SessionType
  <2>4. ses[c].pending = {}
    BY <1>1, <2>1 DEF Handling
  <2>5. s.pc \notin {"out", "recenter"} => Around(s.center) \subseteq s.loaded
    BY <2>3
  <2> HIDE DEF new, s, m
  <2>6. \A d \in s.loaded : \/ d \in s.pending
                            \/ d \in ses[c].loaded /\ d \notin ses[c].pending
                            \/ m.k = "chunk" /\ m.chunk = d
    BY <2>3, <2>4
  <2> QED
    BY <2>1, <2>2, <2>5, <2>6, WriteStreamed
<1>4. CASE StartBatch(c)
  <2> DEFINE s == [ses[c] EXCEPT !.pc = "chunks"]
             m == [k |-> "start"]
  <2>1. /\ ses' = [ses EXCEPT ![c] = s] /\ write_frame(c, m) /\ UNCHANGED cli
        /\ ses[c].pc = "start"
    BY <1>4 DEF StartBatch
  <2>2. m \in Packets
    BY DEF Packets
  <2>3. s.loaded = ses[c].loaded /\ s.pending = ses[c].pending /\ s.center = ses[c].center
    BY <1>1 DEF SessionType
  <2> HIDE DEF s, m
  <2> QED
    BY <1>2, <2>1, <2>2, <2>3
<1>5. CASE SendChunk(c)
  <2> DEFINE d == FirstChunk(ses[c].pending)
             m == [k |-> "chunk", chunk |-> d, edits |-> chunk_edits(d)]
             s == [ses[c] EXCEPT !.pending = @ \ {d}]
  <2>1. /\ ses' = [ses EXCEPT ![c] = s] /\ write_frame(c, m) /\ UNCHANGED cli
        /\ ses[c].pc = "chunks" /\ ses[c].pending # {}
    BY <1>5 DEF SendChunk
  <2>2. d \in Chunks
    <3>1. /\ ses[c].pending \in SUBSET (Int \X Int) /\ ses[c].pending \subseteq Chunks
          /\ IsFiniteSet(ses[c].pending)
      BY <1>1, ChunksAssumption DEF SessionType, Handling
    <3> QED
      BY <2>1, <3>1, FirstChunkIn
  <2>3. m \in Packets /\ m.k = "chunk" /\ m.chunk = d
    BY <2>2 DEF Packets, IInv, Types, EditsTypeOK, chunk_edits
  <2>4. /\ s.loaded = ses[c].loaded /\ s.pending = ses[c].pending \ {d}
        /\ s.center = ses[c].center
    BY <1>1 DEF SessionType
  <2>5. Around(s.center) \subseteq s.loaded
    BY <1>1, <2>1, <2>4 DEF Streamed
  <2> HIDE DEF d, s, m
  <2>6. \A e \in s.loaded : \/ e \in s.pending
                            \/ e \in ses[c].loaded /\ e \notin ses[c].pending
                            \/ m.k = "chunk" /\ m.chunk = e
    <3> TAKE e \in s.loaded
    <3>1. CASE e = d
      BY <2>3, <3>1
    <3>2. CASE e # d
      BY <2>4, <3>2
    <3> QED
      BY <3>1, <3>2
  <2> QED
    BY <2>1, <2>3, <2>5, <2>6, WriteStreamed
<1>6. CASE FinishBatch(c)
  <2> DEFINE s == [ses[c] EXCEPT !.pc = "idle"]
             m == [k |-> "finished", count |-> ses[c].total]
  <2>1. /\ ses' = [ses EXCEPT ![c] = s] /\ write_frame(c, m) /\ UNCHANGED cli
        /\ ses[c].pc = "chunks"
    BY <1>6 DEF FinishBatch
  <2>2. m \in Packets
    BY <1>1 DEF Packets, SessionType
  <2>3. s.loaded = ses[c].loaded /\ s.pending = ses[c].pending /\ s.center = ses[c].center
    BY <1>1 DEF SessionType
  <2> HIDE DEF s, m
  <2> QED
    BY <1>2, <2>1, <2>2, <2>3
<1>7. CASE SendUpdate(c)
  <2> DEFINE r == ses[c].reply
             m == [k |-> "update", pos |-> r.pos, state |-> r.state, seq |-> r.seq]
             s == [ses[c] EXCEPT !.pc = "ack"]
  <2>1. /\ ses' = [ses EXCEPT ![c] = s] /\ write_frame(c, m) /\ UNCHANGED cli
        /\ ses[c].pc = "update"
    BY <1>7 DEF SendUpdate
  <2>2. r \in Replies /\ r # NoReply /\ r.pos \in Positions /\ r.state \in States
    BY <1>1, <2>1 DEF SessionType, Handling
  <2>3. m \in Packets
    BY <2>2 DEF Replies, Packets
  <2>4. s.loaded = ses[c].loaded /\ s.pending = ses[c].pending /\ s.center = ses[c].center
    BY <1>1 DEF SessionType
  <2> HIDE DEF s, m
  <2> QED
    BY <1>2, <2>1, <2>3, <2>4
<1>8. CASE SendAck(c)
  <2> DEFINE m == [k |-> "ack", seq |-> ses[c].reply.seq]
             s == [ses[c] EXCEPT !.pc = "idle", !.reply = NoReply]
  <2>1. /\ ses' = [ses EXCEPT ![c] = s] /\ write_frame(c, m) /\ UNCHANGED cli
        /\ ses[c].pc = "ack"
    BY <1>8 DEF SendAck
  <2>2. ses[c].reply \in Replies /\ ses[c].reply # NoReply
    BY <1>1, <2>1 DEF SessionType, Handling
  <2>3. m \in Packets
    BY <2>2 DEF Replies, Packets
  <2>4. s.loaded = ses[c].loaded /\ s.pending = ses[c].pending /\ s.center = ses[c].center
    BY <1>1 DEF SessionType
  <2> HIDE DEF s, m
  <2> QED
    BY <1>2, <2>1, <2>3, <2>4
<1>9. CASE Chat(c) \/ KeepAlive(c)
  <2> DEFINE m == [k |-> "notice"]
  <2>1. /\ ses' = [ses EXCEPT ![c] = ses[c]] /\ write_frame(c, m) /\ UNCHANGED cli
        /\ ses[c].pc = "idle"
    BY <1>9, At DEF Chat, KeepAlive
  <2>2. m \in Packets
    BY DEF Packets
  <2> HIDE DEF m
  <2> QED
    BY <1>2, <2>1, <2>2
<1> QED
  BY <1>3, <1>4, <1>5, <1>6, <1>7, <1>8, <1>9

\* A client that drops nothing holds every chunk that has arrived.
LEMMA DeliverStreamed ==
  ASSUME IInv, EInv, KeepsAll, NEW c \in Clients, Deliver(c)
  PROVE  EInv'
<1> DEFINE o == Tail(out[c])
           m == Head(out[c])
           k == Received(cli[c], m)
<1>1. /\ out[c] \in Seq(Packets) /\ out[c] # <<>> /\ cli[c] \in ClientType
      /\ ses = [ses EXCEPT ![c] = ses[c]] /\ Streamed(ses[c], out[c], cli[c])
  BY At DEF Deliver, EInv
<1>2. /\ ses' = [ses EXCEPT ![c] = ses[c]] /\ out' = [out EXCEPT ![c] = o]
      /\ cli' = [cli EXCEPT ![c] = k]
  BY <1>1 DEF Deliver
<1>3. /\ Len(out[c]) \in Nat \ {0} /\ Len(o) = Len(out[c]) - 1
      /\ \A i \in 1..Len(out[c]) - 1 : o[i] = out[c][i + 1]
      /\ m = out[c][1] /\ m \in Packets
  BY <1>1, TailFacts
<1>4. cli[c].held \subseteq k.held /\ (m.k = "chunk" => m.chunk \in k.held)
  <2> HIDE DEF m, k
  <2>1. m.k \in {"center", "start", "chunk", "finished", "update", "ack", "notice"}
    BY <1>3 DEF Packets
  <2>2. CASE m.k = "center"
    <3>1. m.chunk \in Chunks /\ cli[c].held \subseteq Chunks
      BY <1>1, <1>3, <2>2 DEF Packets, ClientType
    <3>2. Kept(cli[c].held, m.chunk) = cli[c].held
      BY <3>1 DEF Kept, KeepsAll
    <3>3. k.held = Kept(cli[c].held, m.chunk)
      BY <1>1, <1>3, <2>2, ReceivedFields DEF k
    <3> QED
      BY <2>2, <3>2, <3>3
  <2>3. CASE m.k = "chunk"
    <3>1. k.held = cli[c].held \cup {m.chunk}
      BY <1>1, <1>3, <2>3, ReceivedFields DEF k
    <3> QED
      BY <2>3, <3>1
  <2>4. CASE m.k \in {"start", "finished", "update", "ack", "notice"}
    BY <1>1, <1>3, <2>4, ReceivedFields DEF k
  <2> QED
    BY <2>1, <2>2, <2>3, <2>4
<1> HIDE DEF o, m, k
<1>5. ASSUME NEW d \in ses[c].loaded
      PROVE  \/ d \in ses[c].pending \/ d \in k.held
             \/ \E i \in 1..Len(o) : o[i].k = "chunk" /\ o[i].chunk = d
  <2>1. CASE \E i \in 1..Len(out[c]) : out[c][i].k = "chunk" /\ out[c][i].chunk = d
    <3>1. PICK i \in 1..Len(out[c]) : out[c][i].k = "chunk" /\ out[c][i].chunk = d
      BY <2>1
    <3>2. CASE i = 1
      BY <1>3, <1>4, <3>1, <3>2
    <3>3. CASE i # 1
      <4> DEFINE h == i - 1
      <4>1. h \in 1..Len(o) /\ o[h] = out[c][i]
        BY <1>3, <3>3
      <4> QED
        BY <3>1, <4>1
    <3> QED
      BY <3>2, <3>3
  <2> QED
    BY <1>1, <1>4, <2>1 DEF Streamed
<1>6. Streamed(ses[c], o, k)
  BY <1>1, <1>5 DEF Streamed
<1> QED
  BY <1>2, <1>6, OneStreamed

\* EInv holds in every reachable state if no chunk is ever dropped.
LEMMA SpecEInv == ASSUME KeepsAll PROVE Spec => []EInv
<1>1. Init => EInv
  BY DEF Init, EInv, Streamed, Session
<1>2. IInv /\ EInv /\ [Next]_vars => EInv'
  <2> SUFFICES ASSUME IInv, EInv, [Next]_vars PROVE EInv'
    OBVIOUS
  <2>1. CASE UNCHANGED vars
    BY <2>1 DEF vars, EInv
  <2>2. ASSUME NEW c \in Clients, Leave(c) PROVE EInv'
    <3>1. Streamed(Session("out"), <<>>, FreshClient)
      BY DEF Streamed, Session
    <3>2. /\ ses' = [ses EXCEPT ![c] = Session("out")] /\ out' = [out EXCEPT ![c] = <<>>]
          /\ cli' = [cli EXCEPT ![c] = FreshClient]
      BY <2>2 DEF Leave
    <3> QED
      BY <3>1, <3>2, OneStreamed
  <2>3. CASE Next
    BY <2>2, <2>3, SilentStepsStreamed, WritingStepsStreamed, DeliverStreamed DEF Next
  <2> QED
    BY <2>1, <2>3
<1> QED
  BY <1>1, <1>2, SpecIInv, PTL DEF Spec

\* One chunk beyond the view distance is inside the square that load_around
\* walks over.
LEMMA NextToView ==
  ASSUME NEW a \in Chunks, NEW d \in Chunks, NEW e \in Chunks,
         Distance(d, a) <= VIEW_DISTANCE, Distance(d, e) <= 1
  PROVE  e \in Around(a)
<1>1. /\ a[1] \in Int /\ a[2] \in Int /\ d[1] \in Int /\ d[2] \in Int
      /\ e[1] \in Int /\ e[2] \in Int /\ VIEW_DISTANCE \in Int
  BY ChunksAssumption, RadiusAssumption
<1>2. ASSUME NEW x \in Chunks, NEW y \in Chunks, NEW n \in Int, Distance(x, y) <= n,
             x[1] \in Int, x[2] \in Int, y[1] \in Int, y[2] \in Int
      PROVE  /\ x[1] - y[1] <= n /\ y[1] - x[1] <= n
             /\ x[2] - y[2] <= n /\ y[2] - x[2] <= n
  BY <1>2 DEF Distance
<1>3. /\ d[1] - a[1] <= VIEW_DISTANCE /\ a[1] - d[1] <= VIEW_DISTANCE
      /\ d[2] - a[2] <= VIEW_DISTANCE /\ a[2] - d[2] <= VIEW_DISTANCE
  BY <1>1, <1>2
<1>4. /\ d[1] - e[1] <= 1 /\ e[1] - d[1] <= 1
      /\ d[2] - e[2] <= 1 /\ e[2] - d[2] <= 1
  BY <1>1, <1>2
<1> QED
  BY <1>1, <1>3, <1>4 DEF Around, SEND_RADIUS

\* The world has no visible edge for a client whose cache drops nothing.
THEOREM EndlessWorld == ASSUME KeepsAll PROVE Spec => []NoVisibleEdge
<1>1. IInv /\ EInv => NoVisibleEdge
  <2> SUFFICES ASSUME IInv, EInv, NEW c \in Clients, Quiet(c), NEW d \in Chunks,
                      Distance(d, ses[c].center) <= VIEW_DISTANCE,
                      NEW e \in Chunks, Distance(d, e) <= 1
               PROVE  e \in cli[c].held
    BY DEF NoVisibleEdge, Rendered
  <2>1. /\ ses[c] \in SessionType /\ Handling(ses[c], out[c], cli[c])
        /\ Streamed(ses[c], out[c], cli[c])
    BY At DEF EInv
  <2>2. ses[c].center \in Chunks /\ ses[c].pending = {} /\ Len(out[c]) = 0
    BY <2>1 DEF Quiet, SessionType, Handling
  <2>3. e \in ses[c].loaded
    BY <2>1, <2>2, NextToView DEF Streamed, Quiet
  <2> QED
    BY <2>1, <2>2, <2>3 DEF Streamed
<1> QED
  BY <1>1, SpecIInv, SpecEInv, PTL

-----------------------------------------------------------------------------
(***************************************************************************)
(* The whole server: its connections use the world as World has it used,   *)
(* so what is proved of the world and what is proved of the connections    *)
(* holds of both together, and from the two follows what a player who      *)
(* comes back is promised.                                                 *)
(*                                                                         *)
(* SInv joins the inductive invariants of the two halves.  That of World   *)
(* is kept because a step of a connection is at most one edit; that of     *)
(* Play is kept by a start, which fills the edits while no connection has  *)
(* been told anything, and by a stop, which ends them all.                 *)
(***************************************************************************)
WW == INSTANCE WorldProofs

server_vars == <<edits, connections, disk>>

SInv ==
  /\ IInv
  /\ WW!IInv
  /\ ~up => \A c \in Clients : ses[c].pc = "out"

-----------------------------------------------------------------------------
\* The world of LeatherServer is the one its proofs are about.
LEMMA SameNext == W!Next <=> WW!Next
<1> USE DEF W!NoEdits, WW!NoEdits, W!chunk_of_block, WW!chunk_of_block, W!history, WW!history
<1>1. W!serve <=> WW!serve
  BY Zenon DEF W!serve, WW!serve, W!load, WW!load
<1>2. W!serve_unreadable <=> WW!serve_unreadable
  BY Zenon DEF W!serve_unreadable, WW!serve_unreadable, W!load, WW!load
<1>3. \A p, s : W!edit(p, s) <=> WW!edit(p, s)
  BY Zenon DEF W!edit, WW!edit, W!set_block, WW!set_block
<1>4. W!save <=> WW!save
  BY Zenon DEF W!save, WW!save, W!AllEdits, WW!AllEdits, W!BlockAt, WW!BlockAt
<1>5. W!write_open <=> WW!write_open
  BY Zenon DEF W!write_open, WW!write_open
<1>6. \A p : W!write_record(p) <=> WW!write_record(p)
  BY Zenon DEF W!write_record, WW!write_record
<1>7. W!write_done <=> WW!write_done
  BY Zenon DEF W!write_done, WW!write_done
<1>8. W!write_fails <=> WW!write_fails
  BY Zenon DEF W!write_fails, WW!write_fails
<1>9. W!stop <=> WW!stop
  BY Zenon DEF W!stop, WW!stop
<1> QED
  BY <1>1, <1>2, <1>3, <1>4, <1>5, <1>6, <1>7, <1>8, <1>9, Zenon DEF W!Next, WW!Next

\* Their initial states and variables are the same too.
LEMMA SameInit == W!Init <=> WW!Init
  BY Zenon DEF W!Init, WW!Init, W!EditsInit, WW!EditsInit, W!NoEdits, WW!NoEdits

\* The two instances of the world speak of the same variables.
LEMMA SameVars == W!vars = WW!vars
  BY DEF W!vars, WW!vars

\* What the invariant of the world says, in the terms of this module.
LEMMA WorldFacts ==
  ASSUME WW!IInv
  PROVE  /\ EditsTypeOK
         /\ W!DurableUnlessTorn
  BY DEF WW!IInv, WW!TypeOK, WW!EditsTypeOK, EditsTypeOK, WW!BlockMap, BlockMap,
         WW!DurableUnlessTorn, W!DurableUnlessTorn, WW!BlockAt, W!BlockAt,
         WW!chunk_of_block, W!chunk_of_block

\* The types again, of the next state.
LEMMA WorldFactsNext ==
  ASSUME WW!IInv'
  PROVE  EditsTypeOK'
  BY DEF WW!IInv, WW!TypeOK, WW!EditsTypeOK, EditsTypeOK, WW!BlockMap, BlockMap

-----------------------------------------------------------------------------
\* A step of the connections is at most one edit of the world.
LEMMA NextEdits ==
  ASSUME IInv, Next
  PROVE  edits' = edits \/ \E p \in Positions, s \in States : set_block(p, s)
<1>1. ASSUME NEW c \in Clients, NEW p \in Positions, NEW q \in Seqs, Break(c, p, q)
      PROVE  \E x \in Positions, s \in States : set_block(x, s)
  BY <1>1, AirAssumption DEF Break, Change, STATE_AIR
<1>2. ASSUME NEW c \in Clients, NEW p \in Positions, NEW face \in 0..6, NEW q \in Seqs,
             Place(c, p, face, q)
      PROVE  \E x \in Positions, s \in States : set_block(x, s)
  <2>1. /\ neighbour(p, face) \in Positions /\ Held(c) \in States
        /\ set_block(neighbour(p, face), Held(c))
    BY <1>2, HeldType DEF Place, Change
  <2> QED
    BY <2>1
<1>3. ASSUME NEW c \in Clients,
             \/ Join(c) \/ Recenter(c) \/ StartBatch(c) \/ SendChunk(c) \/ FinishBatch(c)
             \/ (\E to \in Chunks : Move(c, to)) \/ (\E q \in Seqs : PlaceNothing(c, q))
             \/ SendUpdate(c) \/ SendAck(c)
             \/ (\E index \in Hotbar : SetCarried(c, index))
             \/ (\E slot \in Slots, item \in Items \cup {Empty} : SetCreativeSlot(c, slot, item))
             \/ Chat(c) \/ KeepAlive(c) \/ Leave(c) \/ Deliver(c)
      PROVE  edits' = edits
  BY <1>3, Zenon DEF Join, Recenter, StartBatch, SendChunk, FinishBatch, Move, PlaceNothing, SendUpdate,
     SendAck, SetCarried, SetCreativeSlot, Chat, KeepAlive, Leave, Deliver
<1> QED
  BY <1>1, <1>2, <1>3, Zenon DEF Next

\* A step of the server is a step of the world or none.
LEMMA ServerStepIsWorldStep ==
  ASSUME IInv, [ServerNext]_server_vars
  PROVE  [W!Next]_(W!vars)
<1>1. CASE Connections
  <2>1. CASE edits' = edits
    BY <1>1, <2>1 DEF Connections, disk, W!vars
  <2>2. ASSUME NEW p \in Positions, NEW s \in States, set_block(p, s)
        PROVE  W!Next
    <3>1. W!edit(p, s)
      BY <1>1, <2>2, Zenon DEF Connections, disk, W!edit, W!set_block, set_block,
         W!chunk_of_block, chunk_of_block, W!history
    <3> QED
      BY <3>1 DEF W!Next
  <2> QED
    BY <1>1, <2>1, <2>2, NextEdits DEF Connections
<1>2. CASE SharedWorld
  BY <1>2, Zenon DEF SharedWorld, W!Next, W!Saver
<1>3. CASE Stop
  BY <1>3 DEF Stop, W!Next
<1>4. CASE UNCHANGED server_vars
  BY <1>4 DEF server_vars, disk, W!vars
<1> QED
  BY <1>1, <1>2, <1>3, <1>4 DEF ServerNext

\* A client that was told nothing yet agrees with every world.
LEMMA ToldNothing ==
  ASSUME NEW s, s.pc = "out", NEW p, NEW b
  PROVE  Told(s, <<>>, FreshClient, p, b)
  BY DEF Told, Arriving, FreshClient

\* A step of the world during which the connections stand still, and nobody is
\* connected if it changes the edits.
LEMMA SharedWorldKeeps ==
  ASSUME SInv, SharedWorld, EditsTypeOK'
  PROVE  IInv' /\ (~up' => \A c \in Clients : ses'[c].pc = "out")
<1>1. UNCHANGED <<ses, out, cli, stale>>
  BY DEF SharedWorld, connections
<1>2. (up /\ up' /\ edits' = edits) \/ (~up /\ up')
  <2>1. CASE W!serve \/ W!serve_unreadable
    BY <2>1 DEF W!serve, W!serve_unreadable
  <2>2. CASE W!Saver \/ W!write_fails
    <3>1. saver # "off" /\ up' = up /\ edits' = edits
      BY <2>2, Zenon DEF W!Saver, W!save, W!write_open, W!write_record, W!write_done, W!write_fails
    <3>2. up
      BY <3>1 DEF SInv, WW!IInv, WW!TypeOK
    <3> QED
      BY <3>1, <3>2 DEF SInv, WW!IInv, WW!TypeOK
  <2> QED
    BY <2>1, <2>2, Zenon DEF SharedWorld
<1>3. CASE edits' = edits /\ up /\ up'
  BY <1>1, <1>3 DEF SInv, IInv, Types, EditsTypeOK, Coherent, BlockAt
<1>4. CASE ~up /\ up'
  <2>1. Types'
    BY <1>1 DEF SInv, IInv, Types
  <2>2. ASSUME NEW c \in Clients
        PROVE  ses[c].pc = "out" /\ out[c] = <<>> /\ cli[c] = FreshClient
    BY <1>4 DEF SInv, IInv, Handling
  <2>3. \A c \in Clients : Handling(ses[c], out[c], cli[c])'
    BY <1>1 DEF SInv, IInv
  <2>4. \A c \in Clients : Coherent(c)'
    BY <1>1, <2>2, ToldNothing DEF Coherent
  <2> QED
    BY <1>4, <2>1, <2>3, <2>4 DEF IInv
<1> QED
  BY <1>2, <1>3, <1>4

\* A stop ends every connection.
LEMMA StopKeeps ==
  ASSUME SInv, Stop, EditsTypeOK'
  PROVE  IInv' /\ \A c \in Clients : ses'[c].pc = "out"
<1>1. /\ ses' = [c \in Clients |-> Session("out")] /\ out' = [c \in Clients |-> <<>>]
      /\ cli' = [c \in Clients |-> FreshClient] /\ stale' = [c \in Clients |-> {}]
  BY DEF Stop
<1>2. Types'
  BY <1>1, FreshConnection DEF Types
<1>3. Session("out").pc = "out"
  BY DEF Session
<1>4. \A c \in Clients : Handling(ses[c], out[c], cli[c])' /\ Coherent(c)'
  BY <1>1, FreshConnection DEF Coherent
<1> QED
  BY <1>1, <1>2, <1>3, <1>4 DEF IInv

\* An accepted connection's step; only a running process has any.
LEMMA ConnectionsKeep ==
  ASSUME SInv, Connections
  PROVE  IInv' /\ up'
  BY NextIInv DEF SInv, Connections, disk

\* At first the process is down.
LEMMA ServerInitSInv == ServerInit => SInv
<1> SUFFICES ASSUME ServerInit PROVE SInv
  OBVIOUS
<1>1. IInv
  BY InitIInv DEF ServerInit
<1>2. WW!IInv
  BY SameInit, WW!InitIInv, PositionsAssumption, NoEditAssumption, ChunksAssumption DEF ServerInit
<1>3. \A c \in Clients : ses[c].pc = "out"
  BY DEF ServerInit, Init, Session
<1> QED
  BY <1>1, <1>2, <1>3 DEF SInv

\* Every step of the server keeps the joint invariant.
LEMMA ServerNextSInv == SInv /\ [ServerNext]_server_vars => SInv'
<1> SUFFICES ASSUME SInv, [ServerNext]_server_vars PROVE SInv'
  OBVIOUS
<1>1. WW!IInv'
  <2>1. [WW!Next]_(WW!vars)
    <3>1. [W!Next]_(W!vars)
      BY ServerStepIsWorldStep DEF SInv
    <3>2. W!vars' = WW!vars'
      BY DEF W!vars, WW!vars
    <3> QED
      BY <3>1, <3>2, SameNext, SameVars
  <2> QED
    BY <2>1, WW!NextIInv, PositionsAssumption, NoEditAssumption, ChunksAssumption DEF SInv
<1>2. EditsTypeOK'
  BY <1>1, WorldFactsNext
<1>3. CASE Connections
  BY <1>1, <1>3, ConnectionsKeep DEF SInv
<1>4. CASE SharedWorld
  BY <1>1, <1>2, <1>4, SharedWorldKeeps DEF SInv
<1>5. CASE Stop
  BY <1>1, <1>2, <1>5, StopKeeps DEF SInv
<1>6. CASE UNCHANGED server_vars
  <2>1. UNCHANGED <<edits, ses, out, cli, stale, up>>
    BY <1>6 DEF server_vars, connections, disk
  <2>2. IInv'
    BY <2>1 DEF SInv, IInv, Types, EditsTypeOK, Coherent, BlockAt
  <2> QED
    BY <1>1, <2>1, <2>2 DEF SInv
<1> QED
  BY <1>3, <1>4, <1>5, <1>6 DEF ServerNext

\* SInv holds in every reachable state.
LEMMA SpecSInv == ServerSpec => []SInv
  BY ServerInitSInv, ServerNextSInv, PTL DEF ServerSpec, server_vars

-----------------------------------------------------------------------------
\* Whatever the connections do, the server's world behaves as World does.
THEOREM ServerImplementsWorld == ServerSpec => ImplementsWorld
<1>1. ServerInit => W!Init
  BY DEF ServerInit
<1>2. SInv /\ [ServerNext]_server_vars => [W!Next]_(W!vars)
  BY ServerStepIsWorldStep DEF SInv
<1> QED
  BY <1>1, <1>2, SpecSInv, PTL DEF ServerSpec, server_vars, ImplementsWorld, W!Spec

\* Durability, proved of World, holds of the server with its connections.
THEOREM ServerDurability == ServerSpec => []W!DurableUnlessTorn
<1>1. SInv => W!DurableUnlessTorn
  BY WorldFacts DEF SInv
<1> QED
  BY <1>1, SpecSInv, PTL

\* So do coherent views, through every stop and start of the process.
THEOREM ServerCoherentViews == ServerSpec => []ViewCoherent
<1>1. SInv => ViewCoherent
  BY CoherentWhenQuiet DEF SInv
<1> QED
  BY <1>1, SpecSInv, PTL

\* README.md:9-10: what a completed save wrote is sent again on reconnect.
THEOREM SavedEditsResent == ServerSpec => []ResentOnReconnect
<1>1. SInv => ResentOnReconnect
  <2> SUFFICES ASSUME SInv, damaged = {}, NEW c \in Clients, Quiet(c), NEW p \in Positions,
                      saved[p] # NoEdit, chunk_of_block(p) \in cli[c].held, p \notin stale[c]
               PROVE  cli[c].view[p] # NoEdit
    BY DEF ResentOnReconnect
  <2>1. up
    BY DEF SInv, Quiet
  <2>2. W!BlockAt(p) # NoEdit
    BY <2>1, WorldFacts DEF SInv, W!DurableUnlessTorn
  <2>3. W!BlockAt(p) = BlockAt(p)
    BY DEF W!BlockAt, BlockAt, W!chunk_of_block, chunk_of_block
  <2>4. cli[c].view[p] = BlockAt(p)
    BY CoherentWhenQuiet DEF SInv, ViewCoherent
  <2> QED
    BY <2>2, <2>3, <2>4
<1> QED
  BY <1>1, SpecSInv, PTL
=============================================================================
