---------------------------- MODULE ConnectionProofs ----------------------------
(***************************************************************************)
(* Proofs about Connection for every list of registries, with and without  *)
(* tags, and every number of packets on the way: its types, that both ends *)
(* read a packet in the state it was written for, and that what the client *)
(* is told arrives once and in order.                                      *)
(*                                                                         *)
(* Chain is about the way up: every packet was written in the state the    *)
(* one before it leads to, from the state the server reads in to the one   *)
(* the client is in.  Told is about the way down: what the client has,     *)
(* what is in flight and what the handler still has to write are           *)
(* consecutive parts of one Script, which the intent of the handshake      *)
(* chooses. Reached says how much of it a handler has begun by the place   *)
(* it reads at, and Asked which packets on the way up depend on how far it *)
(* is.                                                                     *)
(***************************************************************************)
EXTENDS Connection, TLAPS

States == {"handshake", "status", "login", "configuration", "play"}
Kinds ==
  {Registry[i] : i \in 1..Len(Registry)} \cup
  {"status", "login", "transfer", "request", "ping", "login_start", "login_ack",
   "known_packs", "finish_ack", "stray", "response", "pong", "success", "brand",
   "tags", "finish", "join_game", "position", "wait_for_chunks"}
Packet == [st : States, k : Kinds]

\* The types of the variables, as far as TypeOK leaves them open.
Types ==
  /\ todo \in Seq(Packet) /\ up \in Seq(Packet)
  /\ down \in Seq(Packet) /\ got \in Seq(Packet)
  /\ intent \in {"status", "login", "transfer"}

\* The state the sender of a packet is in once it is on the way.
Leads(m) ==
  IF m.k = "status" THEN "status"
  ELSE IF m.k \in {"login", "transfer"} THEN "login"
  ELSE IF m.k = "login_ack" THEN "configuration"
  ELSE IF m.k = "finish_ack" THEN "play"
  ELSE m.st

\* The state in which the client writes next.
End(p, u) == IF Len(u) = 0 THEN StateAt(p) ELSE Leads(u[Len(u)])

Chained(p, u) ==
  /\ Len(u) > 0 => u[1].st = StateAt(p)
  /\ \A i \in 2..Len(u) : u[i].st = Leads(u[i - 1])
Chain ==
  pc # "closed" => Chained(pc, up) /\ (cst # "gone" => cst = End(pc, up))

-----------------------------------------------------------------------------
\* Where the finish comes in the script of a join, and the script: all that a
\* client is told, one packet after the other.
FinishAt == 4 + Len(Registry) + (IF HasTags THEN 1 ELSE 0)

JoinScript ==
  In("login", <<"success">>) \o
  In("configuration", <<"brand", "known_packs">> \o Registry \o
     (IF HasTags THEN <<"tags">> ELSE <<>>) \o <<"finish">>) \o
  JoinPackets
PingScript == In("status", <<"response", "pong">>)
Script ==
  IF intent = "login" THEN JoinScript
  ELSE IF intent = "status" THEN PingScript
  ELSE <<>>

\* What the client has received is the beginning of the script.
Heard ==
  /\ Len(got) <= Len(Script)
  /\ \A i \in 1..Len(got) : got[i] = Script[i]

\* How much of the script the server has begun to write.
Begun == Len(got) + Len(down) + Len(todo)

Told ==
  /\ Begun <= Len(Script)
  /\ \A i \in 1..Len(down) : down[i] = Script[Len(got) + i]
  /\ \A i \in 1..Len(todo) : todo[i] = Script[Len(got) + Len(down) + i]

\* How much that is, by the place at which the handler reads next.
Reached ==
  /\ pc \in {"handshake", "login_start"} => Begun = 0
  /\ pc = "status" => Begun <= 1
  /\ pc = "pinged" => Begun = 2
  /\ pc = "login_ack" => Begun = 1
  /\ pc = "configuration" => Begun = IF sent_registries THEN FinishAt ELSE 3
  /\ pc = "play" => Begun = FinishAt + 3
  /\ pc \in {"login_start", "login_ack", "configuration", "play"} => intent = "login"
  /\ pc \in {"status", "pinged"} => intent = "status"

\* The handshakes on the way are the client's own.
Opened == \A i \in 1..Len(up) : up[i].k \in {"status", "login", "transfer"} => up[i].k = intent

\* What is on the way up depends on how far the script is.
Asked ==
  /\ \A i \in 1..Len(up) :
       /\ up[i].k = "request" => intent = "status" /\ Begun = 0
       /\ up[i].k = "ping" => Begun >= 1
       /\ up[i].k = "finish_ack" => Begun >= FinishAt
  /\ \A i, j \in 1..Len(up) : up[i].k = "request" /\ up[j].k = "request" => i = j

\* The client's state follows from what it has received.
Following ==
  \/ /\ cst = "handshake" /\ pc \in {"handshake", "closed"} /\ Begun = 0
     /\ \A i \in 1..Len(up) : up[i].k = "stray"
  \/ cst = IF intent = "status" THEN "status"
           ELSE IF Len(got) = 0 THEN "login"
           ELSE IF Len(got) < FinishAt THEN "configuration"
           ELSE "play"

Live == cst # "gone" => Told /\ Reached /\ Asked /\ Following

CInv == TypeOK /\ Types /\ Chain /\ Opened /\ Heard /\ Live

-----------------------------------------------------------------------------
\* Sequences as the steps use them.
LEMMA AppendFacts ==
  ASSUME NEW S, NEW o \in Seq(S), NEW m \in S
  PROVE  /\ Append(o, m) \in Seq(S)
         /\ Len(Append(o, m)) = Len(o) + 1 /\ Len(o) \in Nat
         /\ \A i \in 1..Len(o) : Append(o, m)[i] = o[i]
         /\ Append(o, m)[Len(o) + 1] = m
  OBVIOUS

\* The rest of a sequence: its length and its elements.
LEMMA TailFacts ==
  ASSUME NEW S, NEW o \in Seq(S), o # <<>>
  PROVE  /\ Len(o) \in Nat \ {0}
         /\ Tail(o) \in Seq(S)
         /\ Len(Tail(o)) = Len(o) - 1
         /\ \A i \in 1..Len(o) - 1 : Tail(o)[i] = o[i + 1]
         /\ Head(o) = o[1] /\ o[1] \in S
  OBVIOUS

\* The length of two sequences joined.
LEMMA ConcatLength ==
  ASSUME NEW S, NEW s \in Seq(S), NEW t \in Seq(S)
  PROVE  s \o t \in Seq(S) /\ Len(s \o t) = Len(s) + Len(t)
  OBVIOUS

\* The joined sequence starts with the first.
LEMMA ConcatLeft ==
  ASSUME NEW S, NEW s \in Seq(S), NEW t \in Seq(S)
  PROVE  \A i \in 1..Len(s) : (s \o t)[i] = s[i]
  OBVIOUS

\* The joined sequence goes on with the second.
LEMMA ConcatRight ==
  ASSUME NEW S, NEW s \in Seq(S), NEW t \in Seq(S)
  PROVE  \A i \in 1..Len(t) : (s \o t)[Len(s) + i] = t[i]
  OBVIOUS

\* The kinds of packet, and the states they are written in.
LEMMA KindsKnown ==
  /\ Registry \in Seq(Kinds) /\ Len(Registry) \in Nat
  /\ {"status", "login", "transfer", "request", "ping", "login_start", "login_ack",
      "known_packs", "finish_ack", "stray", "response", "pong", "success", "brand",
      "tags", "finish", "join_game", "position", "wait_for_chunks"} \subseteq Kinds
<1>1. Registry \in Seq(STRING) /\ Len(Registry) \in Nat
  BY RegistryAssumption
<1>2. \A i \in 1..Len(Registry) : Registry[i] \in Kinds
  BY DEF Kinds
<1>3. Registry \in Seq(Kinds)
  BY <1>1, <1>2
<1> QED
  BY <1>1, <1>3 DEF Kinds

\* Packets written in one state, one for each kind.
LEMMA InFacts ==
  ASSUME NEW st \in States, NEW ks \in Seq(Kinds)
  PROVE  /\ In(st, ks) \in Seq(Packet)
         /\ Len(In(st, ks)) = Len(ks)
         /\ \A i \in 1..Len(ks) : In(st, ks)[i] = Pkt(st, ks[i])
<1>1. \A i \in 1..Len(ks) : Pkt(st, ks[i]) \in Packet
  BY DEF Pkt, Packet
<1>2. In(st, ks) = [i \in 1..Len(ks) |-> Pkt(st, ks[i])]
  BY DEF In
<1>3. Len(ks) \in Nat
  OBVIOUS
<1>4. In(st, ks) \in [1..Len(ks) -> Packet]
  BY <1>1, <1>2
<1> QED
  BY <1>2, <1>3, <1>4

\* A packet said is a packet appended.
LEMMA SayOne ==
  ASSUME NEW u \in Seq(Packet), NEW st \in States, NEW k \in Kinds
  PROVE  u \o In(st, <<k>>) = Append(u, Pkt(st, k)) /\ Pkt(st, k) \in Packet
<1> DEFINE t == In(st, <<k>>)
<1>1. t \in Seq(Packet) /\ Len(t) = 1 /\ t[1] = Pkt(st, k)
  <2> DEFINE ks == <<k>>
  <2>1. ks \in Seq(Kinds) /\ Len(ks) = 1 /\ ks[1] = k
    OBVIOUS
  <2>2. t = In(st, ks)
    OBVIOUS
  <2> HIDE DEF ks, t
  <2> QED
    BY <2>1, <2>2, InFacts
<1>2. Pkt(st, k) \in Packet
  BY DEF Pkt, Packet
<1> HIDE DEF t
<1>3. u \o t = Append(u, Pkt(st, k))
  <2> DEFINE m == Pkt(st, k)
  <2> HIDE DEF m
  <2>1. m \in Packet /\ t[1] = m /\ Len(t) = 1 /\ t \in Seq(Packet)
    BY <1>1, <1>2 DEF m
  <2>2. /\ u \o t \in Seq(Packet) /\ Len(u \o t) = Len(u) + 1 /\ Len(u) \in Nat
        /\ \A i \in 1..Len(u) : (u \o t)[i] = u[i]
        /\ (u \o t)[Len(u) + 1] = m
    <3>1. t \in Seq(Packet) /\ 1 \in 1..Len(t)
      BY <2>1
    <3>2. u \o t \in Seq(Packet) /\ Len(u \o t) = Len(u) + Len(t)
      BY <3>1, ConcatLength
    <3>3. \A i \in 1..Len(u) : (u \o t)[i] = u[i]
      BY <3>1, ConcatLeft
    <3>4. \A i \in 1..Len(t) : (u \o t)[Len(u) + i] = t[i]
      BY <3>1, ConcatRight
    <3> QED
      BY <2>1, <3>1, <3>2, <3>3, <3>4
  <2>3. /\ Append(u, m) \in Seq(Packet) /\ Len(Append(u, m)) = Len(u) + 1
        /\ \A i \in 1..Len(u) : Append(u, m)[i] = u[i]
        /\ Append(u, m)[Len(u) + 1] = m
    BY <2>1, AppendFacts
  <2>4. u \o t = Append(u, m)
    BY <2>2, <2>3
  <2> QED
    BY <2>4 DEF m
<1> QED
  BY <1>2, <1>3 DEF t

\* Saying nothing leaves the channel as it is.
LEMMA SayNothing ==
  ASSUME NEW u \in Seq(Packet), NEW st \in States
  PROVE  u \o In(st, <<>>) = u
<1> DEFINE t == In(st, <<>>)
<1>1. t \in Seq(Packet) /\ Len(t) = 0
  <2>1. <<>> \in Seq(Kinds) /\ Len(<<>>) = 0
    OBVIOUS
  <2> QED
    BY <2>1, InFacts
<1> HIDE DEF t
<1>2. u \o t = u
  BY <1>1
<1> QED
  BY <1>2 DEF t

\* The state in which a handler reads at each place.
LEMMA StatesRead ==
  /\ StateAt("handshake") = "handshake"
  /\ StateAt("status") = "status" /\ StateAt("pinged") = "status"
  /\ StateAt("login_start") = "login" /\ StateAt("login_ack") = "login"
  /\ StateAt("configuration") = "configuration" /\ StateAt("play") = "play"
  BY DEF StateAt

\* The protocol states are those of the handler's match.
LEMMA StatesKnown ==
  /\ "handshake" \in States /\ "status" \in States /\ "login" \in States
  /\ "configuration" \in States /\ "play" \in States
  BY DEF States

-----------------------------------------------------------------------------
\* The script of a join: its length, and what it says where.
LEMMA JoinFacts ==
  /\ FinishAt \in Nat /\ FinishAt >= 4
  /\ RegistryPackets \in Seq(Packet) /\ Len(RegistryPackets) = FinishAt - 3
  /\ \A i \in 1..FinishAt - 3 :
       /\ RegistryPackets[i].st = "configuration"
       /\ RegistryPackets[i].k \notin {"response", "pong", "success"}
       /\ RegistryPackets[i].k = "finish" <=> i = FinishAt - 3
  /\ Greeting \in Seq(Packet) /\ Len(Greeting) = 2
  /\ Greeting[1] = Pkt("configuration", "brand")
  /\ Greeting[2] = Pkt("configuration", "known_packs")
  /\ JoinPackets \in Seq(Packet) /\ Len(JoinPackets) = 3
  /\ \A i \in 1..3 :
       /\ JoinPackets[i].st = "play"
       /\ JoinPackets[i].k \notin {"response", "pong", "success", "finish"}
  /\ JoinScript \in Seq(Packet) /\ Len(JoinScript) = FinishAt + 3
  /\ JoinScript[1] = Pkt("login", "success")
  /\ \A i \in 1..2 : JoinScript[1 + i] = Greeting[i]
  /\ \A i \in 1..FinishAt - 3 : JoinScript[3 + i] = RegistryPackets[i]
  /\ \A i \in 1..3 : JoinScript[FinishAt + i] = JoinPackets[i]
<1> DEFINE tags == IF HasTags THEN <<"tags">> ELSE <<>>
           tail == (Registry \o tags) \o <<"finish">>
           head == <<"brand", "known_packs">>
<1>1. /\ tags \in Seq(Kinds) /\ Len(tags) = FinishAt - 4 - Len(Registry)
      /\ \A i \in 1..Len(tags) : tags[i] = "tags"
      /\ Len(Registry) \in Nat /\ Registry \in Seq(Kinds) /\ FinishAt \in Nat /\ FinishAt >= 4
  <2>1. Len(Registry) \in Nat /\ Registry \in Seq(Kinds) /\ "tags" \in Kinds
    BY KindsKnown
  <2>2. CASE HasTags
    <3>1. tags = <<"tags">> /\ FinishAt = 5 + Len(Registry)
      BY <2>1, <2>2 DEF FinishAt
    <3> HIDE DEF tags
    <3> QED
      BY <2>1, <3>1
  <2>3. CASE ~HasTags
    <3>1. tags = <<>> /\ FinishAt = 4 + Len(Registry)
      BY <2>1, <2>3 DEF FinishAt
    <3> HIDE DEF tags
    <3> QED
      BY <2>1, <3>1
  <2> QED
    BY <2>2, <2>3
<1> HIDE DEF tags
<1>2. /\ Registry \o tags \in Seq(Kinds) /\ Len(Registry \o tags) = FinishAt - 4
      /\ \A i \in 1..FinishAt - 4 :
           (Registry \o tags)[i] \notin {"response", "pong", "success", "finish"}
  <2>1. /\ Registry \o tags \in Seq(Kinds)
        /\ Len(Registry \o tags) = Len(Registry) + Len(tags)
        /\ \A i \in 1..Len(Registry) : (Registry \o tags)[i] = Registry[i]
        /\ \A i \in 1..Len(tags) : (Registry \o tags)[Len(Registry) + i] = tags[i]
    BY <1>1
  <2>2. ASSUME NEW i \in 1..FinishAt - 4
        PROVE  (Registry \o tags)[i] \notin {"response", "pong", "success", "finish"}
    <3>1. CASE i <= Len(Registry)
      BY <1>1, <2>1, <3>1, RegistryAssumption
    <3>2. CASE i > Len(Registry)
      <4>1. i - Len(Registry) \in 1..Len(tags) /\ Len(Registry) + (i - Len(Registry)) = i
        BY <1>1, <3>2
      <4>2. (Registry \o tags)[i] = "tags"
        BY <1>1, <2>1, <4>1
      <4> QED
        BY <4>2
    <3> QED
      BY <1>1, <3>1, <3>2
  <2> QED
    BY <1>1, <2>1, <2>2
<1> DEFINE front == Registry \o tags
<1> HIDE DEF front
<1>3. /\ tail \in Seq(Kinds) /\ Len(tail) = FinishAt - 3
      /\ \A i \in 1..FinishAt - 3 :
           /\ tail[i] \notin {"response", "pong", "success"}
           /\ tail[i] = "finish" <=> i = FinishAt - 3
  <2>1. front \in Seq(Kinds) /\ Len(front) = FinishAt - 4
        /\ \A i \in 1..FinishAt - 4 : front[i] \notin {"response", "pong", "success", "finish"}
    BY <1>2 DEF front
  <2>2. tail = Append(front, "finish")
    BY <2>1 DEF front
  <2>3. /\ tail \in Seq(Kinds) /\ Len(tail) = FinishAt - 3
        /\ \A i \in 1..FinishAt - 4 : tail[i] = front[i]
        /\ tail[FinishAt - 3] = "finish"
    <3>1. "finish" \in Kinds
      BY KindsKnown
    <3> HIDE DEF tail
    <3> QED
      BY <1>1, <2>1, <2>2, <3>1, AppendFacts
  <2> HIDE DEF tail
  <2>4. \A i \in 1..FinishAt - 3 : i \in 1..FinishAt - 4 \/ i = FinishAt - 3
    BY <1>1
  <2> QED
    BY <1>1, <2>1, <2>3, <2>4
<1>4. RegistryPackets = In("configuration", tail)
  BY DEF RegistryPackets, tags
<1> HIDE DEF tail
<1>5. /\ RegistryPackets \in Seq(Packet) /\ Len(RegistryPackets) = FinishAt - 3
      /\ \A i \in 1..FinishAt - 3 : RegistryPackets[i] = Pkt("configuration", tail[i])
  BY <1>3, <1>4, StatesKnown, InFacts
<1>6. ASSUME NEW i \in 1..FinishAt - 3
      PROVE  /\ RegistryPackets[i].st = "configuration"
             /\ RegistryPackets[i].k \notin {"response", "pong", "success"}
             /\ RegistryPackets[i].k = "finish" <=> i = FinishAt - 3
  <2>1. RegistryPackets[i] = Pkt("configuration", tail[i])
    BY <1>5
  <2>2. RegistryPackets[i].st = "configuration" /\ RegistryPackets[i].k = tail[i]
    BY <2>1 DEF Pkt
  <2>3. /\ tail[i] \notin {"response", "pong", "success"}
        /\ tail[i] = "finish" <=> i = FinishAt - 3
    BY <1>3
  <2> QED
    BY <2>2, <2>3
<1>7. /\ head \in Seq(Kinds) /\ Len(head) = 2 /\ head[1] = "brand" /\ head[2] = "known_packs"
  <2>1. "brand" \in Kinds /\ "known_packs" \in Kinds
    BY KindsKnown
  <2> QED
    BY <2>1
<1>8. /\ Greeting \in Seq(Packet) /\ Len(Greeting) = 2
      /\ Greeting[1] = Pkt("configuration", "brand")
      /\ Greeting[2] = Pkt("configuration", "known_packs")
  <2>1. Greeting = In("configuration", head)
    BY DEF Greeting
  <2> HIDE DEF head
  <2> QED
    BY <1>7, <2>1, StatesKnown, InFacts
<1>9. /\ JoinPackets \in Seq(Packet) /\ Len(JoinPackets) = 3
      /\ \A i \in 1..3 :
           /\ JoinPackets[i].st = "play"
           /\ JoinPackets[i].k \notin {"response", "pong", "success", "finish"}
  <2> DEFINE ks == <<"join_game", "position", "wait_for_chunks">>
  <2>1. /\ ks \in Seq(Kinds) /\ Len(ks) = 3
        /\ ks[1] = "join_game" /\ ks[2] = "position" /\ ks[3] = "wait_for_chunks"
    <3>1. "join_game" \in Kinds /\ "position" \in Kinds /\ "wait_for_chunks" \in Kinds
      BY KindsKnown
    <3> QED
      BY <3>1
  <2>2. JoinPackets = In("play", ks)
    BY DEF JoinPackets
  <2> HIDE DEF ks
  <2>3. \A i \in 1..3 : JoinPackets[i] = Pkt("play", ks[i])
    BY <2>1, <2>2, StatesKnown, InFacts
  <2> QED
    BY <2>1, <2>2, <2>3, StatesKnown, InFacts DEF Pkt
<1> DEFINE all == In("configuration", head \o tail)
           succ == In("login", <<"success">>)
<1>10. /\ head \o tail \in Seq(Kinds) /\ Len(head \o tail) = FinishAt - 1
       /\ \A i \in 1..2 : (head \o tail)[i] = head[i]
       /\ \A i \in 1..FinishAt - 3 : (head \o tail)[2 + i] = tail[i]
  <2> HIDE DEF head
  <2>1. /\ head \o tail \in Seq(Kinds) /\ Len(head \o tail) = Len(head) + Len(tail)
        /\ \A i \in 1..Len(head) : (head \o tail)[i] = head[i]
        /\ \A i \in 1..Len(tail) : (head \o tail)[Len(head) + i] = tail[i]
    <3>1. head \in Seq(Kinds) /\ tail \in Seq(Kinds)
      BY <1>3, <1>7
    <3>2. head \o tail \in Seq(Kinds) /\ Len(head \o tail) = Len(head) + Len(tail)
      BY <3>1, ConcatLength
    <3>3. \A i \in 1..Len(head) : (head \o tail)[i] = head[i]
      BY <3>1, ConcatLeft
    <3>4. \A i \in 1..Len(tail) : (head \o tail)[Len(head) + i] = tail[i]
      BY <3>1, ConcatRight
    <3> QED
      BY <3>2, <3>3, <3>4
  <2> QED
    BY <1>1, <1>3, <1>7, <2>1
<1>11. /\ all \in Seq(Packet) /\ Len(all) = FinishAt - 1
       /\ \A i \in 1..2 : all[i] = Greeting[i]
       /\ \A i \in 1..FinishAt - 3 : all[2 + i] = RegistryPackets[i]
  <2> DEFINE ht == head \o tail
  <2> HIDE DEF head
  <2>1. /\ ht \in Seq(Kinds) /\ Len(ht) = FinishAt - 1
        /\ \A i \in 1..2 : ht[i] = head[i]
        /\ \A i \in 1..FinishAt - 3 : ht[2 + i] = tail[i]
    BY <1>10
  <2> HIDE DEF ht
  <2>2. /\ all \in Seq(Packet) /\ Len(all) = FinishAt - 1
        /\ \A i \in 1..FinishAt - 1 : all[i] = Pkt("configuration", ht[i])
    BY <2>1, StatesKnown, InFacts DEF ht
  <2> HIDE DEF all
  <2>3. \A i \in 1..2 : all[i] = Greeting[i]
    BY <1>1, <1>7, <1>8, <2>1, <2>2
  <2>4. ASSUME NEW i \in 1..FinishAt - 3
        PROVE  all[2 + i] = RegistryPackets[i]
    <3>1. 2 + i \in 1..FinishAt - 1
      BY <1>1
    <3> QED
      BY <1>5, <2>1, <2>2, <3>1
  <2> QED
    BY <2>2, <2>3, <2>4
<1>12. succ \in Seq(Packet) /\ Len(succ) = 1 /\ succ[1] = Pkt("login", "success")
  <2> DEFINE ks == <<"success">>
  <2>1. ks \in Seq(Kinds) /\ Len(ks) = 1 /\ ks[1] = "success"
    <3>1. "success" \in Kinds
      BY KindsKnown
    <3> QED
      BY <3>1
  <2>2. succ = In("login", ks)
    OBVIOUS
  <2> HIDE DEF ks, succ
  <2> QED
    BY <2>1, <2>2, StatesKnown, InFacts
<1>13. JoinScript = (succ \o all) \o JoinPackets
  <2>1. head \o tail = ((head \o Registry) \o tags) \o <<"finish">>
    BY <1>1, <1>7 DEF tail
  <2> QED
    BY <2>1 DEF JoinScript, tags
<1> HIDE DEF all, succ
<1>14. /\ succ \o all \in Seq(Packet) /\ Len(succ \o all) = FinishAt
       /\ (succ \o all)[1] = succ[1]
       /\ \A i \in 1..FinishAt - 1 : (succ \o all)[1 + i] = all[i]
  <2>1. /\ succ \o all \in Seq(Packet) /\ Len(succ \o all) = Len(succ) + Len(all)
        /\ \A i \in 1..Len(succ) : (succ \o all)[i] = succ[i]
        /\ \A i \in 1..Len(all) : (succ \o all)[Len(succ) + i] = all[i]
    <3>1. succ \in Seq(Packet) /\ all \in Seq(Packet)
      BY <1>11, <1>12
    <3>2. succ \o all \in Seq(Packet) /\ Len(succ \o all) = Len(succ) + Len(all)
      BY <3>1, ConcatLength
    <3>3. \A i \in 1..Len(succ) : (succ \o all)[i] = succ[i]
      BY <3>1, ConcatLeft
    <3>4. \A i \in 1..Len(all) : (succ \o all)[Len(succ) + i] = all[i]
      BY <3>1, ConcatRight
    <3> QED
      BY <3>2, <3>3, <3>4
  <2> QED
    BY <1>1, <1>11, <1>12, <2>1
<1> DEFINE conf == succ \o all
<1>15. /\ conf \in Seq(Packet) /\ Len(conf) = FinishAt /\ conf[1] = succ[1]
       /\ \A i \in 1..FinishAt - 1 : conf[1 + i] = all[i]
  BY <1>14
<1> HIDE DEF conf
<1>16. /\ JoinScript \in Seq(Packet) /\ Len(JoinScript) = FinishAt + 3
       /\ \A i \in 1..FinishAt : JoinScript[i] = conf[i]
       /\ \A i \in 1..3 : JoinScript[FinishAt + i] = JoinPackets[i]
  <2>1. JoinScript = conf \o JoinPackets
    BY <1>13 DEF conf
  <2>2. /\ conf \o JoinPackets \in Seq(Packet)
        /\ Len(conf \o JoinPackets) = Len(conf) + Len(JoinPackets)
        /\ \A i \in 1..Len(conf) : (conf \o JoinPackets)[i] = conf[i]
        /\ \A i \in 1..Len(JoinPackets) : (conf \o JoinPackets)[Len(conf) + i] = JoinPackets[i]
    <3>1. conf \in Seq(Packet) /\ JoinPackets \in Seq(Packet)
      BY <1>9, <1>15
    <3>2. /\ conf \o JoinPackets \in Seq(Packet)
          /\ Len(conf \o JoinPackets) = Len(conf) + Len(JoinPackets)
      BY <3>1, ConcatLength
    <3>3. \A i \in 1..Len(conf) : (conf \o JoinPackets)[i] = conf[i]
      BY <3>1, ConcatLeft
    <3>4. \A i \in 1..Len(JoinPackets) : (conf \o JoinPackets)[Len(conf) + i] = JoinPackets[i]
      BY <3>1, ConcatRight
    <3> QED
      BY <3>2, <3>3, <3>4
  <2> QED
    BY <1>1, <1>9, <1>15, <2>1, <2>2
<1>17. JoinScript[1] = Pkt("login", "success")
  BY <1>1, <1>12, <1>15, <1>16
<1>18. \A i \in 1..2 : JoinScript[1 + i] = Greeting[i]
  <2>1. \A i \in 1..2 : 1 + i \in 1..FinishAt /\ i \in 1..FinishAt - 1
    BY <1>1
  <2> QED
    BY <1>11, <1>15, <1>16, <2>1
<1>19. ASSUME NEW i \in 1..FinishAt - 3
       PROVE  JoinScript[3 + i] = RegistryPackets[i]
  <2>1. 3 + i \in 1..FinishAt /\ 2 + i \in 1..FinishAt - 1 /\ 1 + (2 + i) = 3 + i
    BY <1>1
  <2> QED
    BY <1>11, <1>15, <1>16, <2>1
<1> QED
  BY <1>1, <1>5, <1>6, <1>8, <1>9, <1>16, <1>17, <1>18, <1>19

\* The script of either intent, packet by packet.
LEMMA ScriptFacts ==
  ASSUME intent \in {"status", "login", "transfer"}
  PROVE  /\ Script \in Seq(Packet)
         /\ Len(Script) = IF intent = "login" THEN FinishAt + 3
                          ELSE IF intent = "status" THEN 2 ELSE 0
         /\ \A i \in 1..Len(Script) :
              /\ intent = "login" =>
                   /\ Script[i].st = IF i = 1 THEN "login"
                                     ELSE IF i <= FinishAt THEN "configuration" ELSE "play"
                   /\ Script[i].k = "success" <=> i = 1
                   /\ Script[i].k = "finish" <=> i = FinishAt
                   /\ Script[i].k \notin {"response", "pong"}
              /\ intent = "status" =>
                   Script[i] = Pkt("status", IF i = 1 THEN "response" ELSE "pong")
<1>1. CASE intent = "login"
  <2>1. Script = JoinScript
    BY <1>1 DEF Script
  <2>2. /\ Script \in Seq(Packet) /\ Len(Script) = FinishAt + 3 /\ FinishAt \in Nat /\ FinishAt >= 4
        /\ Script[1] = Pkt("login", "success")
    BY <2>1, JoinFacts
  <2>3. ASSUME NEW i \in 1..FinishAt + 3
        PROVE  /\ Script[i].st = IF i = 1 THEN "login"
                                 ELSE IF i <= FinishAt THEN "configuration" ELSE "play"
               /\ Script[i].k = "success" <=> i = 1
               /\ Script[i].k = "finish" <=> i = FinishAt
               /\ Script[i].k \notin {"response", "pong"}
    <3>1. CASE i = 1
      BY <2>2, <3>1 DEF Pkt
    <3>2. CASE i \in 2..3
      <4>1. /\ Script[1 + 1] = Pkt("configuration", "brand")
            /\ Script[1 + 2] = Pkt("configuration", "known_packs")
        BY <2>1, JoinFacts
      <4>2. Script[i] \in {Pkt("configuration", "brand"), Pkt("configuration", "known_packs")}
        BY <3>2, <4>1
      <4> QED
        BY <2>2, <3>2, <4>2 DEF Pkt
    <3>3. CASE i \in 4..FinishAt
      <4>1. i - 3 \in 1..FinishAt - 3 /\ 3 + (i - 3) = i
        BY <2>2, <3>3
      <4>2. Script[i] = RegistryPackets[i - 3]
        BY <2>1, <4>1, JoinFacts
      <4>3. /\ RegistryPackets[i - 3].st = "configuration"
            /\ RegistryPackets[i - 3].k \notin {"response", "pong", "success"}
            /\ RegistryPackets[i - 3].k = "finish" <=> i - 3 = FinishAt - 3
        BY <4>1, JoinFacts
      <4> QED
        BY <2>2, <3>3, <4>2, <4>3
    <3>4. CASE i > FinishAt
      <4>1. i - FinishAt \in 1..3 /\ FinishAt + (i - FinishAt) = i
        BY <2>2, <3>4
      <4>2. Script[i] = JoinPackets[i - FinishAt]
        BY <2>1, <4>1, JoinFacts
      <4>3. /\ JoinPackets[i - FinishAt].st = "play"
            /\ JoinPackets[i - FinishAt].k \notin {"response", "pong", "success", "finish"}
        BY <4>1, JoinFacts
      <4> QED
        BY <2>2, <3>4, <4>2, <4>3
    <3>5. i = 1 \/ i \in 2..3 \/ i \in 4..FinishAt \/ i > FinishAt
      BY <2>2
    <3> QED
      BY <3>1, <3>2, <3>3, <3>4, <3>5
  <2> QED
    BY <1>1, <2>2, <2>3
<1>2. CASE intent = "status"
  <2> DEFINE ks == <<"response", "pong">>
  <2>1. ks \in Seq(Kinds) /\ Len(ks) = 2 /\ ks[1] = "response" /\ ks[2] = "pong"
    <3>1. "response" \in Kinds /\ "pong" \in Kinds
      BY KindsKnown
    <3> QED
      BY <3>1
  <2>2. Script = In("status", ks)
    BY <1>2 DEF Script, PingScript
  <2> HIDE DEF ks
  <2>3. /\ Script \in Seq(Packet) /\ Len(Script) = 2
        /\ \A i \in 1..2 : Script[i] = Pkt("status", ks[i])
    BY <2>1, <2>2, StatesKnown, InFacts
  <2>4. \A i \in 1..2 : Script[i] = Pkt("status", IF i = 1 THEN "response" ELSE "pong")
    BY <2>1, <2>3
  <2> QED
    BY <1>2, <2>3, <2>4
<1>3. CASE intent = "transfer"
  <2>1. Script = <<>>
    BY <1>3 DEF Script
  <2> QED
    BY <1>3, <2>1
<1> QED
  BY <1>1, <1>2, <1>3

-----------------------------------------------------------------------------
\* A packet that is read leaves the rest of the chain; one that is written in
\* the state it leads to makes it longer.
LEMMA ChainTail ==
  ASSUME NEW u \in Seq(Packet), u # <<>>, NEW p, NEW q, Chained(p, u),
         StateAt(q) = Leads(u[1])
  PROVE  Chained(q, Tail(u)) /\ End(q, Tail(u)) = End(p, u)
<1> DEFINE t == Tail(u)
<1>1. /\ Len(u) \in Nat \ {0} /\ Len(t) = Len(u) - 1
      /\ \A i \in 1..Len(u) - 1 : t[i] = u[i + 1]
  BY TailFacts
<1> HIDE DEF t
<1>2. \A i \in 2..Len(u) : u[i].st = Leads(u[i - 1])
  BY DEF Chained
<1>3. Len(t) > 0 => t[1].st = StateAt(q)
  <2>1. ASSUME Len(t) > 0
        PROVE  t[1] = u[2] /\ 2 \in 2..Len(u)
    BY <1>1, <2>1
  <2>2. 2 \in 2..Len(u) => u[2].st = Leads(u[1])
    BY <1>2
  <2> QED
    BY <2>1, <2>2
<1>4. ASSUME NEW i \in 2..Len(t)
      PROVE  t[i].st = Leads(t[i - 1])
  <2>1. /\ i + 1 \in 2..Len(u) /\ (i + 1) - 1 = i
        /\ t[i] = u[i + 1] /\ t[i - 1] = u[i]
    BY <1>1
  <2> QED
    BY <1>2, <2>1
<1>5. End(q, t) = End(p, u)
  <2>1. CASE Len(u) = 1
    BY <1>1, <2>1 DEF End
  <2>2. CASE Len(u) > 1
    <3>1. Len(t) # 0 /\ t[Len(t)] = u[Len(u)]
      BY <1>1, <2>2
    <3> QED
      BY <1>1, <3>1 DEF End
  <2> QED
    BY <1>1, <2>1, <2>2
<1> QED
  BY <1>3, <1>4, <1>5 DEF Chained, t

\* A chain of replies with one more at its end is a chain.
LEMMA ChainAppend ==
  ASSUME NEW u \in Seq(Packet), NEW m \in Packet, NEW p, Chained(p, u), m.st = End(p, u)
  PROVE  Chained(p, Append(u, m)) /\ End(p, Append(u, m)) = Leads(m)
<1> DEFINE t == Append(u, m)
<1>1. /\ Len(u) \in Nat /\ Len(t) = Len(u) + 1
      /\ \A i \in 1..Len(u) : t[i] = u[i]
      /\ t[Len(u) + 1] = m
  BY AppendFacts
<1> HIDE DEF t
<1>2. t[1].st = StateAt(p)
  <2>1. CASE Len(u) = 0
    BY <1>1, <2>1 DEF End
  <2>2. CASE Len(u) > 0
    BY <1>1, <2>2 DEF Chained
  <2> QED
    BY <1>1, <2>1, <2>2
<1>3. ASSUME NEW i \in 2..Len(t)
      PROVE  t[i].st = Leads(t[i - 1])
  <2>1. CASE i = Len(t)
    <3>1. t[i] = m /\ t[i - 1] = u[Len(u)] /\ Len(u) # 0
      BY <1>1, <2>1
    <3> QED
      BY <3>1 DEF End
  <2>2. CASE i # Len(t)
    <3>1. i \in 2..Len(u) /\ t[i] = u[i] /\ t[i - 1] = u[i - 1]
      BY <1>1, <2>2
    <3> QED
      BY <3>1 DEF Chained
  <2> QED
    BY <2>1, <2>2
<1>4. End(p, t) = Leads(m)
  BY <1>1 DEF End
<1> QED
  BY <1>2, <1>3, <1>4 DEF Chained, t

-----------------------------------------------------------------------------
\* A handler that takes a packet keeps the invariant if the place it goes to is
\* where the packet leads, and what it owes now continues the script.
LEMMA ReadKeeps ==
  ASSUME CInv, NEW k, Take(k), pc # "closed",
         pc' \in PCs, sent_registries' \in BOOLEAN, todo' \in Seq(Packet),
         \A i \in 1..Len(todo') :
           todo'[i].st = StateAt(pc') /\ (todo'[i].k = "finish" => sent_registries'),
         sent_registries' => pc' \in {"configuration", "play", "closed"},
         pc' # "closed" => StateAt(pc') = Leads(up[1]),
         cst # "gone" =>
           /\ Begun + Len(todo') <= Len(Script)
           /\ \A i \in 1..Len(todo') : todo'[i] = Script[Begun + i]
           /\ Reached'
           /\ cst = "handshake" => pc' = "closed" /\ todo' = <<>>
           /\ todo' # <<>> => \A i \in 2..Len(up) : up[i].k # "request"
  PROVE  CInv'
<1>1. /\ todo = <<>> /\ up # <<>> /\ up \in Seq(Packet) /\ up' = Tail(up)
      /\ down' = down /\ got' = got /\ cst' = cst /\ intent' = intent /\ strayed' = strayed
  BY DEF CInv, Types, Take, client
<1>2. /\ Len(up) \in Nat \ {0} /\ up' \in Seq(Packet) /\ Len(up') = Len(up) - 1
      /\ \A i \in 1..Len(up) - 1 : up'[i] = up[i + 1]
  BY <1>1, TailFacts
<1>3. Script' = Script
  BY <1>1 DEF Script, JoinScript, PingScript, JoinPackets, In, Pkt
<1>4. TypeOK'
  <2>1. Len(down') <= Bound /\ Len(up) <= Bound /\ Bound \in Nat
    BY <1>1, BoundAssumption DEF CInv, TypeOK
  <2>2. DOMAIN todo' = 1..Len(todo')
    OBVIOUS
  <2>3. /\ strayed' \in BOOLEAN
        /\ cst' \in {"handshake", "status", "login", "configuration", "play", "gone"}
    BY <1>1 DEF CInv, TypeOK
  <2>4. Len(up') <= Bound
    BY <1>2, <2>1
  <2> QED
    BY <2>1, <2>2, <2>3, <2>4 DEF TypeOK
<1>5. Types'
  BY <1>1, <1>2 DEF CInv, Types
<1>6. Chain'
  <2>1. CASE pc' # "closed"
    <3>1. Chained(pc', Tail(up)) /\ End(pc', Tail(up)) = End(pc, up)
      BY <1>1, <2>1, ChainTail DEF CInv, Chain
    <3>2. cst # "gone" => cst = End(pc, up)
      BY DEF CInv, Chain
    <3>3. Chained(pc', up') /\ End(pc', up') = End(pc, up)
      BY <1>1, <3>1
    <3> QED
      BY <1>1, <3>2, <3>3 DEF Chain, Chained, End
  <2>2. CASE pc' = "closed"
    BY <2>2 DEF Chain
  <2> QED
    BY <2>1, <2>2
<1>7. Opened'
  BY <1>1, <1>2 DEF CInv, Opened
<1>8. Heard'
  BY <1>1, <1>3 DEF CInv, Heard
<1>9. ASSUME cst # "gone"
      PROVE  Told' /\ Reached' /\ Asked' /\ Following'
  <2>1. /\ Len(got) \in Nat /\ Len(down) \in Nat /\ Len(todo') \in Nat
        /\ Begun = Len(got) + Len(down) /\ Begun \in Nat
    BY <1>1 DEF CInv, Types, Begun
  <2>2. Begun' = Begun + Len(todo')
    BY <1>1, <2>1 DEF Begun
  <2>3. Told /\ Asked /\ Following
    BY <1>9 DEF CInv, Live
  <2>4. Told'
    <3>1. \A i \in 1..Len(down) : down[i] = Script[Len(got) + i]
      BY <2>3 DEF Told
    <3>2. \A i \in 1..Len(todo') : todo'[i] = Script[(Len(got) + Len(down)) + i]
      BY <1>9, <2>1
    <3> QED
      BY <1>1, <1>3, <1>9, <2>2, <3>1, <3>2 DEF Told
  <2>5. Asked'
    <3>1. FinishAt \in Nat
      BY JoinFacts
    <3>2. \A i \in 1..Len(up') : i + 1 \in 2..Len(up) /\ i + 1 \in 1..Len(up) /\ up'[i] = up[i + 1]
      BY <1>2
    <3>3. ASSUME NEW i \in 1..Len(up')
          PROVE  /\ up'[i].k = "request" => intent' = "status" /\ Begun' = 0
                 /\ up'[i].k = "ping" => Begun' >= 1
                 /\ up'[i].k = "finish_ack" => Begun' >= FinishAt
      <4>1. /\ up[i + 1].k = "request" => intent = "status" /\ Begun = 0
            /\ up[i + 1].k = "ping" => Begun >= 1
            /\ up[i + 1].k = "finish_ack" => Begun >= FinishAt
        BY <2>3, <3>2 DEF Asked
      <4>2. todo' # <<>> => up[i + 1].k # "request"
        BY <1>9, <3>2
      <4>3. todo' = <<>> => Len(todo') = 0
        OBVIOUS
      <4> QED
        BY <1>1, <2>1, <2>2, <3>1, <3>2, <4>1, <4>2, <4>3
    <3>4. ASSUME NEW i \in 1..Len(up'), NEW j \in 1..Len(up'),
                 up'[i].k = "request", up'[j].k = "request"
          PROVE  i = j
      <4>1. i + 1 = j + 1
        BY <2>3, <3>2, <3>4 DEF Asked
      <4> QED
        BY <4>1
    <3> QED
      BY <3>3, <3>4 DEF Asked, FinishAt
  <2>6. Following'
    <3>1. CASE cst = "handshake"
      <4>1. Begun = 0 /\ \A i \in 1..Len(up) : up[i].k = "stray"
        BY <2>3, <3>1 DEF Following
      <4>2. pc' = "closed" /\ Begun' = 0
        BY <1>9, <2>1, <2>2, <3>1, <4>1
      <4> QED
        BY <1>1, <1>2, <3>1, <4>1, <4>2 DEF Following
    <3>2. CASE cst # "handshake"
      BY <1>1, <2>3, <3>2 DEF Following, FinishAt
    <3> QED
      BY <3>1, <3>2
  <2> QED
    BY <1>9, <2>4, <2>5, <2>6
<1>10. Live'
  BY <1>1, <1>9 DEF Live
<1> QED
  BY <1>4, <1>5, <1>6, <1>7, <1>8, <1>10 DEF CInv

\* What a handler knows when it takes a packet.
LEMMA TakeFacts ==
  ASSUME CInv, NEW k, Take(k), todo' \in Seq(Packet)
  PROVE  /\ 1 \in 1..Len(up) /\ up[1].k = k
         /\ pc # "closed" => up[1].st = StateAt(pc)
         /\ Len(todo') \in Nat
         /\ todo' = <<>> => Len(todo') = 0
         /\ Begun \in Nat /\ Begun' = Begun + Len(todo')
         /\ intent \in {"status", "login", "transfer"} /\ intent' = intent /\ cst' = cst
         /\ cst # "gone" => /\ Begun <= Len(Script) /\ Told /\ Reached /\ Asked
                            /\ cst = "handshake" => k = "stray" /\ pc \in {"handshake", "closed"}
<1>1. /\ todo = <<>> /\ up # <<>> /\ up \in Seq(Packet) /\ Head(up).k = k
      /\ down' = down /\ got' = got /\ cst' = cst /\ intent' = intent
      /\ down \in Seq(Packet) /\ got \in Seq(Packet)
      /\ intent \in {"status", "login", "transfer"}
  BY DEF CInv, Types, Take, client
<1>2. 1 \in 1..Len(up) /\ up[1].k = k /\ Len(up) > 0
  BY <1>1, TailFacts
<1>3. pc # "closed" => up[1].st = StateAt(pc)
  BY <1>2 DEF CInv, Chain, Chained
<1>4. /\ Len(todo') \in Nat
      /\ todo' = <<>> => Len(todo') = 0
      /\ Begun \in Nat /\ Begun' = Begun + Len(todo')
  BY <1>1 DEF Begun
<1>5. cst # "gone" => Told /\ Reached /\ Asked /\ Following
  BY DEF CInv, Live
<1>6. cst = "handshake" => k = "stray" /\ pc \in {"handshake", "closed"}
  BY <1>2, <1>5 DEF Following
<1> QED
  BY <1>1, <1>2, <1>3, <1>4, <1>5, <1>6 DEF Told

\* An error ends the connection.
LEMMA RefuseKeeps ==
  ASSUME CInv, NEW k, Take(k), Refuse, pc # "closed"
  PROVE  CInv'
<1>1. pc' = "closed" /\ todo' = <<>> /\ todo' \in Seq(Packet) /\ Len(todo') = 0
  BY DEF Refuse, Take
<1>2. sent_registries' = sent_registries /\ sent_registries \in BOOLEAN
  BY DEF CInv, TypeOK, Refuse
<1>3. Reached'
  BY <1>1 DEF Reached
<1>4. cst # "gone" => Begun <= Len(Script) /\ Begun \in Nat
  BY <1>1, TakeFacts
<1>5. pc' \in PCs
  BY <1>1 DEF PCs
<1>6. /\ \A i \in 1..Len(todo') :
           todo'[i].st = StateAt(pc') /\ (todo'[i].k = "finish" => sent_registries')
      /\ cst # "gone" =>
           /\ Begun + Len(todo') <= Len(Script)
           /\ \A i \in 1..Len(todo') : todo'[i] = Script[Begun + i]
  <2>1. \A i \in 1..Len(todo') : FALSE
    BY <1>1
  <2>2. cst # "gone" => Begun + Len(todo') <= Len(Script)
    BY <1>1, <1>4
  <2> QED
    BY <2>1, <2>2
<1> QED
  BY <1>1, <1>2, <1>3, <1>5, <1>6, ReadKeeps

\* So does a packet that asks for nothing, wherever it is read.
LEMMA QuietKeeps ==
  ASSUME CInv, NEW k, Take(k), pc # "closed",
         todo' = <<>>, UNCHANGED sent_registries, pc' \in PCs \ {"closed"},
         sent_registries' => pc' \in {"configuration", "play", "closed"},
         StateAt(pc') = Leads(up[1]),
         cst # "gone" => Reached' /\ cst # "handshake"
  PROVE  CInv'
<1>1. todo' \in Seq(Packet) /\ Len(todo') = 0
  OBVIOUS
<1>2. sent_registries' \in BOOLEAN
  BY DEF CInv, TypeOK
<1>3. cst # "gone" => Begun <= Len(Script) /\ Begun \in Nat
  BY <1>1, TakeFacts
<1>4. \A i \in 1..Len(todo') : FALSE
  BY <1>1
<1>5. cst # "gone" => Begun + Len(todo') <= Len(Script)
  BY <1>1, <1>3
<1> QED
  BY <1>1, <1>2, <1>4, <1>5, ReadKeeps

-----------------------------------------------------------------------------
\* The handshake chooses the handler, which has told nothing yet.
LEMMA HandshakeKeeps ==
  ASSUME CInv, Handshake
  PROVE  CInv'
<1>1. pc = "handshake"
  BY DEF Handshake
<1>2. ASSUME NEW k \in {"status", "login"}, Take(k),
             Goto(IF k = "status" THEN "status" ELSE "login_start", <<>>)
      PROVE  CInv'
  <2>1. /\ todo' = <<>> /\ todo' \in Seq(Packet) /\ sent_registries' = sent_registries
        /\ pc' = IF k = "status" THEN "status" ELSE "login_start"
    BY <1>2 DEF Goto
  <2>2. ~sent_registries
    BY <1>1 DEF CInv, TypeOK
  <2>3. up[1].k = k /\ 1 \in 1..Len(up) /\ Begun' = Begun /\ cst' = cst /\ intent' = intent
    BY <1>2, <2>1, TakeFacts
  <2>4. StateAt(pc') = Leads(up[1])
    BY <1>2, <2>1, <2>3, StatesRead DEF Leads
  <2>5. intent = k
    BY <1>2, <2>3 DEF CInv, Opened
  <2>6. cst # "gone" => Reached /\ cst # "handshake"
    BY <1>2, <2>1, TakeFacts
  <2>7. cst # "gone" => Reached'
    <3>1. cst # "gone" => Begun = 0
      BY <1>1, <2>6 DEF Reached
    <3> QED
      BY <1>2, <2>1, <2>3, <2>5, <3>1 DEF Reached
  <2>8. pc' \in PCs \ {"closed"}
    BY <1>2, <2>1 DEF PCs
  <2> QED
    BY <1>1, <1>2, <2>1, <2>2, <2>4, <2>6, <2>7, <2>8, QuietKeeps
<1>3. CASE Take("status") /\ Goto("status", <<>>)
  BY <1>2, <1>3
<1>4. CASE Take("login") /\ Goto("login_start", <<>>)
  BY <1>2, <1>4
<1>5. ASSUME NEW k \in {"transfer", "stray"}, Take(k), Refuse
      PROVE  CInv'
  BY <1>1, <1>5, RefuseKeeps
<1> QED
  BY <1>3, <1>4, <1>5 DEF Handshake

\* What nobody asked for leaves the handler where it is.
LEMMA IgnoreKeeps ==
  ASSUME CInv, Ignore
  PROVE  CInv'
<1>1. PICK k \in {"stray", "known_packs"} : Take(k)
  BY DEF Ignore
<1>2. /\ pc \in {"configuration", "play"} /\ pc' = pc /\ todo' = todo /\ todo = <<>>
      /\ sent_registries' = sent_registries /\ todo' \in Seq(Packet)
  BY <1>1 DEF Ignore, server, Take
<1>3. /\ up[1].k = k /\ up[1].st = StateAt(pc)
      /\ Begun' = Begun /\ cst' = cst /\ intent' = intent
  BY <1>1, <1>2, TakeFacts
<1>4. StateAt(pc') = Leads(up[1])
  BY <1>1, <1>2, <1>3 DEF Leads
<1>5. cst # "gone" => Reached /\ cst # "handshake"
  BY <1>1, <1>2, TakeFacts
<1>6. cst # "gone" => Reached'
  BY <1>2, <1>3, <1>5 DEF Reached, FinishAt
<1>7. pc' \in PCs \ {"closed"}
  BY <1>2 DEF PCs
<1> QED
  BY <1>1, <1>2, <1>4, <1>5, <1>6, <1>7, QuietKeeps

\* A single packet, as a handler writes it.
LEMMA OnePacket ==
  ASSUME NEW st \in States, NEW k \in Kinds
  PROVE  /\ In(st, <<k>>) \in Seq(Packet) /\ Len(In(st, <<k>>)) = 1
         /\ In(st, <<k>>)[1] = Pkt(st, k)
<1> DEFINE ks == <<k>>
<1>1. ks \in Seq(Kinds) /\ Len(ks) = 1 /\ ks[1] = k
  OBVIOUS
<1> HIDE DEF ks
<1>2. In(st, ks) \in Seq(Packet) /\ Len(In(st, ks)) = 1 /\ In(st, ks)[1] = Pkt(st, k)
  BY <1>1, InFacts
<1> QED
  BY <1>2 DEF ks

\* One request, answered once, and one ping after it, echoed.
LEMMA StatusKeeps ==
  ASSUME CInv, Status
  PROVE  CInv'
<1>1. pc = "status" /\ ~sent_registries
  BY DEF Status, CInv, TypeOK
<1>2. ASSUME NEW k \in {"request", "ping"}, Take(k),
             Goto(IF k = "request" THEN "status" ELSE "pinged",
                  In("status", <<IF k = "request" THEN "response" ELSE "pong">>))
      PROVE  CInv'
  <2> DEFINE answer == IF k = "request" THEN "response" ELSE "pong"
  <2>1. answer \in Kinds /\ "status" \in States
    BY KindsKnown, StatesKnown
  <2> HIDE DEF answer
  <2>2. /\ todo' \in Seq(Packet) /\ Len(todo') = 1 /\ todo'[1] = Pkt("status", answer)
        /\ pc' = IF k = "request" THEN "status" ELSE "pinged"
        /\ sent_registries' = FALSE
    <3>1. todo' = In("status", <<answer>>)
      BY <1>2 DEF Goto, answer
    <3> QED
      BY <1>1, <1>2, <2>1, <3>1, OnePacket DEF Goto
  <2>3. /\ up[1].k = k /\ 1 \in 1..Len(up) /\ up[1].st = StateAt(pc)
        /\ Begun \in Nat /\ Begun' = Begun + 1 /\ intent' = intent
        /\ intent \in {"status", "login", "transfer"}
        /\ cst # "gone" => Reached /\ Asked /\ cst # "handshake"
    BY <1>1, <1>2, <2>2, TakeFacts
  <2>4. StateAt(pc) = "status" /\ StateAt(pc') = "status" /\ pc' \in PCs /\ pc' # "closed"
    BY <1>1, <1>2, <2>2, StatesRead DEF PCs
  <2>5. StateAt(pc') = Leads(up[1])
    BY <1>2, <2>3, <2>4 DEF Leads
  <2>6. ASSUME cst # "gone"
        PROVE  intent = "status" /\ Begun = IF k = "request" THEN 0 ELSE 1
    <3>1. intent = "status" /\ Begun <= 1
      BY <1>1, <2>3, <2>6 DEF Reached
    <3>2. k = "request" => Begun = 0
      BY <2>3, <2>6 DEF Asked
    <3>3. k = "ping" => Begun >= 1
      BY <2>3, <2>6 DEF Asked
    <3> QED
      BY <1>2, <2>3, <3>1, <3>2, <3>3
  <2>7. ASSUME cst # "gone"
        PROVE  /\ Begun + Len(todo') <= Len(Script)
               /\ \A i \in 1..Len(todo') : todo'[i] = Script[Begun + i]
    <3>1. /\ Len(Script) = 2
          /\ \A i \in 1..2 : Script[i] = Pkt("status", IF i = 1 THEN "response" ELSE "pong")
      BY <2>3, <2>6, <2>7, ScriptFacts
    <3>2. Script[Begun + 1] = Pkt("status", answer)
      BY <1>2, <2>6, <2>7, <3>1 DEF answer
    <3> QED
      BY <2>2, <2>6, <2>7, <3>1, <3>2
  <2>8. cst # "gone" => Reached'
    BY <1>2, <2>2, <2>3, <2>6 DEF Reached
  <2>9. cst # "gone" => \A i \in 2..Len(up) : up[i].k # "request"
    <3>1. ASSUME cst # "gone", NEW i \in 2..Len(up), up[i].k = "request"
          PROVE  FALSE
      <4>1. i \in 1..Len(up) /\ i # 1
        BY <2>3
      <4>2. Begun = 0
        BY <2>3, <3>1, <4>1 DEF Asked
      <4>3. k = "request"
        BY <1>2, <2>6, <3>1, <4>2
      <4> QED
        BY <2>3, <3>1, <4>1, <4>3 DEF Asked
    <3> QED
      BY <3>1
  <2>10. \A i \in 1..Len(todo') :
           todo'[i].st = StateAt(pc') /\ (todo'[i].k = "finish" => sent_registries')
    BY <2>2, <2>4 DEF Pkt, answer
  <2> QED
    BY <1>1, <1>2, <2>2, <2>3, <2>4, <2>5, <2>7, <2>8, <2>9, <2>10, ReadKeeps
<1>3. CASE Take("request") /\ Goto("status", In("status", <<"response">>))
  BY <1>2, <1>3
<1>4. CASE Take("ping") /\ Goto("pinged", In("status", <<"pong">>))
  BY <1>2, <1>4
<1>5. CASE Take("stray") /\ Refuse
  BY <1>1, <1>5, RefuseKeeps
<1> QED
  BY <1>3, <1>4, <1>5 DEF Status

\* A step of the join: the handler owes the next part of the script.
LEMMA JoinKeeps ==
  ASSUME CInv, NEW k, Take(k), todo' \in Seq(Packet),
         pc \in {"login_start", "login_ack", "configuration"},
         pc' \in {"login_ack", "configuration", "play"}, sent_registries' \in BOOLEAN,
         sent_registries' => pc' \in {"configuration", "play"},
         \A i \in 1..Len(todo') :
           /\ todo'[i].st = StateAt(pc')
           /\ todo'[i].k = "finish" => sent_registries',
         StateAt(pc') = Leads(up[1]),
         cst # "gone" =>
           /\ Begun + Len(todo') <= FinishAt + 3
           /\ \A i \in 1..Len(todo') : todo'[i] = JoinScript[Begun + i]
           /\ pc' = "login_ack" => Begun' = 1
           /\ pc' = "configuration" => Begun' = IF sent_registries' THEN FinishAt ELSE 3
           /\ pc' = "play" => Begun' = FinishAt + 3
  PROVE  CInv'
<1>1. /\ intent' = intent /\ intent \in {"status", "login", "transfer"}
      /\ cst # "gone" => Reached /\ Asked /\ cst # "handshake"
  BY TakeFacts
<1>2. cst # "gone" => intent = "login"
  BY <1>1 DEF Reached
<1>3. cst # "gone" => Script = JoinScript /\ Len(Script) = FinishAt + 3
  BY <1>1, <1>2, ScriptFacts DEF Script
<1>4. cst # "gone" => Reached'
  <2>1. FinishAt' = FinishAt
    BY DEF FinishAt
  <2> QED
    BY <1>1, <1>2, <2>1 DEF Reached
<1>5. cst # "gone" => \A i \in 2..Len(up) : up[i].k # "request"
  <2>1. \A i \in 2..Len(up) : i \in 1..Len(up)
    BY DEF CInv, Types
  <2> QED
    BY <1>1, <1>2, <2>1 DEF Asked
<1>6. pc' \in PCs /\ pc' # "closed" /\ pc # "closed"
  BY DEF PCs
<1> QED
  BY <1>1, <1>3, <1>4, <1>5, <1>6, ReadKeeps

\* Login Start is answered with the first packet of the join.
LEMMA LoginStartKeeps ==
  ASSUME CInv, LoginStart
  PROVE  CInv'
<1>1. pc = "login_start" /\ ~sent_registries
  BY DEF LoginStart, CInv, TypeOK
<1>2. CASE Take("login_start") /\ Goto("login_ack", In("login", <<"success">>))
  <2>1. /\ todo' \in Seq(Packet) /\ Len(todo') = 1 /\ todo'[1] = Pkt("login", "success")
        /\ pc' = "login_ack" /\ sent_registries' = FALSE
    <3>1. "login" \in States /\ "success" \in Kinds
      BY KindsKnown, StatesKnown
    <3> QED
      BY <1>1, <1>2, <3>1, OnePacket DEF Goto
  <2>2. /\ up[1].k = "login_start" /\ up[1].st = StateAt(pc)
        /\ Begun \in Nat /\ Begun' = Begun + 1
        /\ cst # "gone" => Reached
    BY <1>1, <1>2, <2>1, TakeFacts
  <2>3. StateAt(pc') = "login" /\ StateAt(pc') = Leads(up[1])
    BY <1>1, <2>1, <2>2, StatesRead DEF Leads
  <2>4. cst # "gone" => Begun = 0
    BY <1>1, <2>2 DEF Reached
  <2>5. JoinScript[1] = Pkt("login", "success") /\ FinishAt \in Nat
    BY JoinFacts
  <2>6. \A i \in 1..Len(todo') :
          todo'[i].st = StateAt(pc') /\ (todo'[i].k = "finish" => sent_registries')
    BY <2>1, <2>3 DEF Pkt
  <2>7. cst # "gone" => /\ Begun + Len(todo') <= FinishAt + 3 /\ Begun' = 1
                       /\ \A i \in 1..Len(todo') : todo'[i] = JoinScript[Begun + i]
    BY <2>1, <2>2, <2>4, <2>5
  <2> QED
    BY <1>1, <1>2, <2>1, <2>3, <2>6, <2>7, JoinKeeps
<1>3. CASE Take("stray") /\ Refuse
  BY <1>1, <1>3, RefuseKeeps
<1> QED
  BY <1>2, <1>3 DEF LoginStart

\* Its acknowledgement with the brand and the Known Packs list.
LEMMA LoginAckKeeps ==
  ASSUME CInv, LoginAck
  PROVE  CInv'
<1>1. pc = "login_ack" /\ ~sent_registries
  BY DEF LoginAck, CInv, TypeOK
<1>2. CASE Take("login_ack") /\ Goto("configuration", Greeting)
  <2>1. /\ todo' = Greeting /\ pc' = "configuration" /\ sent_registries' = FALSE
        /\ todo' \in Seq(Packet) /\ Len(todo') = 2
        /\ todo'[1] = Pkt("configuration", "brand")
        /\ todo'[2] = Pkt("configuration", "known_packs")
    BY <1>1, <1>2, JoinFacts DEF Goto
  <2>2. /\ up[1].k = "login_ack"
        /\ Begun \in Nat /\ Begun' = Begun + 2
        /\ cst # "gone" => Reached
    BY <1>1, <1>2, <2>1, TakeFacts
  <2>3. StateAt(pc') = "configuration" /\ StateAt(pc') = Leads(up[1])
    BY <2>1, <2>2, StatesRead DEF Leads
  <2>4. cst # "gone" => Begun = 1
    BY <1>1, <2>2 DEF Reached
  <2>5. FinishAt \in Nat /\ FinishAt >= 4 /\ \A i \in 1..2 : JoinScript[1 + i] = Greeting[i]
    BY JoinFacts
  <2>6. \A i \in 1..Len(todo') :
          todo'[i].st = StateAt(pc') /\ (todo'[i].k = "finish" => sent_registries')
    BY <2>1, <2>3 DEF Pkt
  <2>7. cst # "gone" => /\ Begun + Len(todo') <= FinishAt + 3 /\ Begun' = 3
                       /\ \A i \in 1..Len(todo') : todo'[i] = JoinScript[Begun + i]
    BY <2>1, <2>2, <2>4, <2>5
  <2> QED
    BY <1>1, <1>2, <2>1, <2>3, <2>6, <2>7, JoinKeeps
<1>3. CASE Take("stray") /\ Refuse
  BY <1>1, <1>3, RefuseKeeps
<1> QED
  BY <1>2, <1>3 DEF LoginAck

\* The first Known Packs with the registries, up to the finish.
LEMMA KnownPacksKeeps ==
  ASSUME CInv, KnownPacks
  PROVE  CInv'
<1>1. /\ pc = "configuration" /\ ~sent_registries /\ Take("known_packs")
      /\ todo' = RegistryPackets /\ sent_registries' = TRUE /\ pc' = "configuration"
  BY DEF KnownPacks
<1>2. /\ todo' \in Seq(Packet) /\ Len(todo') = FinishAt - 3 /\ FinishAt \in Nat /\ FinishAt >= 4
      /\ \A i \in 1..FinishAt - 3 : todo'[i].st = "configuration" /\ todo'[i] = JoinScript[3 + i]
  BY <1>1, JoinFacts
<1>3. /\ up[1].k = "known_packs" /\ up[1].st = StateAt(pc)
      /\ Begun \in Nat /\ Begun' = Begun + (FinishAt - 3)
      /\ cst # "gone" => Reached
  BY <1>1, <1>2, TakeFacts
<1>4. StateAt(pc') = "configuration" /\ StateAt(pc') = Leads(up[1])
  BY <1>1, <1>3, StatesRead DEF Leads
<1>5. cst # "gone" => Begun = 3
  BY <1>1, <1>3 DEF Reached
<1>6. cst # "gone" => /\ Begun + Len(todo') <= FinishAt + 3 /\ Begun' = FinishAt
                     /\ \A i \in 1..Len(todo') : todo'[i] = JoinScript[Begun + i]
  BY <1>2, <1>3, <1>5
<1>7. \A i \in 1..Len(todo') :
        todo'[i].st = StateAt(pc') /\ (todo'[i].k = "finish" => sent_registries')
  BY <1>1, <1>2, <1>4
<1>8. pc \in {"login_start", "login_ack", "configuration"}
  BY <1>1
<1>9. /\ pc' \in {"login_ack", "configuration", "play"} /\ sent_registries' \in BOOLEAN
      /\ sent_registries' => pc' \in {"configuration", "play"}
  BY <1>1
<1>10. cst # "gone" =>
         /\ pc' = "login_ack" => Begun' = 1
         /\ pc' = "configuration" => Begun' = IF sent_registries' THEN FinishAt ELSE 3
         /\ pc' = "play" => Begun' = FinishAt + 3
  BY <1>1, <1>6
<1> QED
  BY <1>1, <1>2, <1>4, <1>6, <1>7, <1>8, <1>9, <1>10, JoinKeeps

\* The client acknowledges the finish it was told, so the registries were sent.
LEMMA FinishConfigurationKeeps ==
  ASSUME CInv, FinishConfiguration
  PROVE  CInv'
<1>1. /\ pc = "configuration" /\ Take("finish_ack")
      /\ todo' = JoinPackets /\ sent_registries' = sent_registries /\ pc' = "play"
  BY DEF FinishConfiguration, Goto
<1>2. /\ todo' \in Seq(Packet) /\ Len(todo') = 3 /\ FinishAt \in Nat /\ FinishAt >= 4
      /\ \A i \in 1..3 : /\ todo'[i].st = "play" /\ todo'[i].k # "finish"
                         /\ todo'[i] = JoinScript[FinishAt + i]
  BY <1>1, JoinFacts
<1>3. /\ up[1].k = "finish_ack" /\ 1 \in 1..Len(up)
      /\ Begun \in Nat /\ Begun' = Begun + 3
      /\ cst # "gone" => Reached /\ Asked
  BY <1>1, <1>2, TakeFacts
<1>4. StateAt(pc') = "play" /\ StateAt(pc') = Leads(up[1])
  BY <1>1, <1>3, StatesRead DEF Leads
<1>5. ASSUME cst # "gone"
      PROVE  Begun = FinishAt
  <2>1. Begun = IF sent_registries THEN FinishAt ELSE 3
    BY <1>1, <1>3, <1>5 DEF Reached
  <2>2. Begun >= FinishAt
    BY <1>3, <1>5 DEF Asked
  <2> QED
    BY <1>2, <2>1, <2>2
<1>6. cst # "gone" => /\ Begun + Len(todo') <= FinishAt + 3 /\ Begun' = FinishAt + 3
                     /\ \A i \in 1..Len(todo') : todo'[i] = JoinScript[Begun + i]
  BY <1>2, <1>3, <1>5
<1>7. \A i \in 1..Len(todo') :
        todo'[i].st = StateAt(pc') /\ (todo'[i].k = "finish" => sent_registries')
  BY <1>2, <1>4
<1>8. sent_registries' \in BOOLEAN
  BY <1>1 DEF CInv, TypeOK
<1> QED
  BY <1>1, <1>2, <1>4, <1>6, <1>7, <1>8, JoinKeeps

-----------------------------------------------------------------------------
\* A write moves a packet from what is owed to what is in flight.
LEMMA WriteKeeps ==
  ASSUME CInv, Write
  PROVE  CInv'
<1>1. /\ todo # <<>> /\ Len(down) < Bound
      /\ down' = Append(down, Head(todo)) /\ todo' = Tail(todo)
      /\ pc' = pc /\ sent_registries' = sent_registries /\ up' = up
      /\ cst' = cst /\ intent' = intent /\ got' = got /\ strayed' = strayed
      /\ todo \in Seq(Packet) /\ down \in Seq(Packet) /\ got \in Seq(Packet)
  BY DEF Write, client, CInv, Types
<1>2. /\ Len(todo) \in Nat \ {0} /\ todo' \in Seq(Packet) /\ Len(todo') = Len(todo) - 1
      /\ \A i \in 1..Len(todo) - 1 : todo'[i] = todo[i + 1]
      /\ Head(todo) = todo[1] /\ todo[1] \in Packet
  BY <1>1, TailFacts
<1>3. /\ down' \in Seq(Packet) /\ Len(down') = Len(down) + 1 /\ Len(down) \in Nat
      /\ \A i \in 1..Len(down) : down'[i] = down[i]
      /\ down'[Len(down) + 1] = todo[1] /\ Len(got) \in Nat
  BY <1>1, <1>2, AppendFacts
<1>4. Script' = Script /\ Begun' = Begun /\ FinishAt' = FinishAt
  <2>1. Script' = Script /\ FinishAt' = FinishAt
    BY <1>1 DEF Script, JoinScript, PingScript, JoinPackets, In, Pkt, FinishAt
  <2> QED
    BY <1>1, <1>2, <1>3, <2>1 DEF Begun
<1>5. TypeOK'
  <2>1. Len(down') <= Bound
    BY <1>1, <1>3, BoundAssumption
  <2>2. \A i \in 1..Len(todo) :
          todo[i].st = StateAt(pc) /\ (todo[i].k = "finish" => sent_registries)
    BY <1>1 DEF CInv, TypeOK
  <2>3. ASSUME NEW i \in DOMAIN todo'
        PROVE  todo'[i].st = StateAt(pc) /\ (todo'[i].k = "finish" => sent_registries)
    <3>1. i \in 1..Len(todo) - 1 /\ i + 1 \in 1..Len(todo)
      BY <1>2
    <3> QED
      BY <1>2, <2>2, <3>1
  <2>4. StateAt(pc') = StateAt(pc)
    BY <1>1
  <2> QED
    BY <1>1, <2>1, <2>3, <2>4 DEF CInv, TypeOK
<1>6. Types'
  BY <1>1, <1>2, <1>3 DEF CInv, Types
<1>7. Chain' /\ Opened' /\ Heard'
  BY <1>1, <1>4 DEF CInv, Chain, Chained, End, Opened, Heard
<1>8. ASSUME cst # "gone"
      PROVE  Told' /\ Reached' /\ Asked' /\ Following'
  <2>1. Told /\ Reached /\ Asked /\ Following
    BY <1>8 DEF CInv, Live
  <2>2. Reached' /\ Asked' /\ Following'
    BY <1>1, <1>4, <2>1 DEF Reached, Asked, Following
  <2>3. ASSUME NEW i \in 1..Len(down')
        PROVE  down'[i] = Script[Len(got) + i]
    <3>1. CASE i \in 1..Len(down)
      BY <1>3, <2>1, <3>1 DEF Told
    <3>2. CASE i = Len(down) + 1
      <4>1. 1 \in 1..Len(todo)
        BY <1>2
      <4>2. todo[1] = Script[Len(got) + Len(down) + 1]
        BY <2>1, <4>1 DEF Told
      <4> QED
        BY <1>3, <3>2, <4>2
    <3> QED
      BY <1>3, <3>1, <3>2
  <2>4. ASSUME NEW i \in 1..Len(todo')
        PROVE  todo'[i] = Script[Len(got) + Len(down') + i]
    <3>1. i + 1 \in 1..Len(todo) /\ todo'[i] = todo[i + 1]
      BY <1>2
    <3>2. todo[i + 1] = Script[Len(got) + Len(down) + (i + 1)]
      BY <2>1, <3>1 DEF Told
    <3>3. Len(got) + Len(down) + (i + 1) = Len(got) + Len(down') + i
      BY <1>3
    <3> QED
      BY <3>1, <3>2, <3>3
  <2> QED
    BY <1>1, <1>4, <2>1, <2>2, <2>3, <2>4 DEF Told
<1>9. Live'
  BY <1>1, <1>8 DEF Live
<1> QED
  BY <1>5, <1>6, <1>7, <1>9 DEF CInv

\* The end of the server's task, after the pong or when the client is gone.
LEMMA PingedKeeps ==
  ASSUME CInv, Pinged
  PROVE  CInv'
<1>1. /\ pc' = "closed" /\ todo = <<>> /\ todo' = todo /\ sent_registries' = sent_registries
      /\ up' = up /\ down' = down /\ got' = got /\ cst' = cst /\ intent' = intent
      /\ strayed' = strayed
  BY DEF Pinged, Refuse, client
<1>2. Script' = Script /\ Begun' = Begun /\ FinishAt' = FinishAt
  BY <1>1 DEF Script, JoinScript, PingScript, JoinPackets, In, Pkt, FinishAt, Begun
<1>3. TypeOK'
  <2>1. \A i \in DOMAIN todo' : FALSE
    BY <1>1
  <2> QED
    BY <1>1, <2>1 DEF CInv, TypeOK, PCs
<1>4. Types' /\ Chain' /\ Opened' /\ Heard'
  BY <1>1, <1>2 DEF CInv, Types, Chain, Opened, Heard
<1>5. Live'
  BY <1>1, <1>2 DEF CInv, Live, Told, Reached, Asked, Following
<1> QED
  BY <1>3, <1>4, <1>5 DEF CInv

\* The end of the stream keeps the invariant.
LEMMA EofKeeps ==
  ASSUME CInv, Eof
  PROVE  CInv'
<1>1. /\ cst = "gone" /\ pc' = "closed" /\ todo' = <<>> /\ sent_registries' = sent_registries
      /\ up' = up /\ down' = down /\ got' = got /\ cst' = cst /\ intent' = intent
      /\ strayed' = strayed
  BY DEF Eof, client
<1>2. Script' = Script
  BY <1>1 DEF Script, JoinScript, PingScript, JoinPackets, In, Pkt
<1>3. TypeOK'
  <2>1. \A i \in DOMAIN todo' : FALSE
    BY <1>1
  <2> QED
    BY <1>1, <2>1 DEF CInv, TypeOK, PCs
<1>4. Types' /\ Chain' /\ Opened' /\ Heard' /\ Live'
  BY <1>1, <1>2 DEF CInv, Types, Chain, Opened, Heard, Live
<1> QED
  BY <1>3, <1>4 DEF CInv

\* The client's leaving keeps the invariant.
LEMMA GoAwayKeeps ==
  ASSUME CInv, GoAway
  PROVE  CInv'
<1>1. /\ cst' = "gone" /\ down' = <<>> /\ pc' = pc /\ todo' = todo
      /\ sent_registries' = sent_registries /\ up' = up /\ got' = got /\ intent' = intent
      /\ strayed' = strayed
  BY DEF GoAway, server
<1>2. Script' = Script
  BY <1>1 DEF Script, JoinScript, PingScript, JoinPackets, In, Pkt
<1>3. TypeOK'
  <2>1. Len(down') <= Bound /\ StateAt(pc') = StateAt(pc)
    BY <1>1, BoundAssumption
  <2> QED
    BY <1>1, <2>1 DEF CInv, TypeOK
<1>4. down' \in Seq(Packet)
  BY <1>1
<1>5. Types' /\ Chain' /\ Opened' /\ Heard' /\ Live'
  BY <1>1, <1>2, <1>4 DEF CInv, Types, Chain, Chained, Opened, Heard, Live
<1> QED
  BY <1>3, <1>5 DEF CInv

-----------------------------------------------------------------------------
\* A packet of the client's own, in the state the client is in.
LEMMA SpokenKeeps ==
  ASSUME CInv, cst # "gone", NEW k \in Kinds, up' = Append(up, Pkt(cst, k)), pc' = pc
  PROVE  /\ up' \in Seq(Packet) /\ Len(up) \in Nat /\ Len(up') = Len(up) + 1
         /\ \A i \in 1..Len(up) : up'[i] = up[i]
         /\ up'[Len(up')].k = k
         /\ pc # "closed" => Chained(pc', up') /\ End(pc', up') = Leads(Pkt(cst, k))
<1>1. up \in Seq(Packet) /\ cst \in States
  BY DEF CInv, Types, TypeOK, States
<1> DEFINE m == Pkt(cst, k)
<1>2. m \in Packet /\ m.k = k /\ m.st = cst
  BY <1>1 DEF Pkt, Packet
<1> HIDE DEF m
<1>3. up' = Append(up, m)
  BY DEF m
<1>4. /\ up' \in Seq(Packet) /\ Len(up) \in Nat /\ Len(up') = Len(up) + 1
      /\ \A i \in 1..Len(up) : up'[i] = up[i]
      /\ up'[Len(up) + 1] = m
  BY <1>1, <1>2, <1>3, AppendFacts
<1>5. ASSUME pc # "closed"
      PROVE  Chained(pc, up') /\ End(pc, up') = Leads(m)
  <2>1. Chained(pc, up) /\ m.st = End(pc, up)
    BY <1>2, <1>5 DEF CInv, Chain
  <2> QED
    BY <1>1, <1>2, <1>3, <2>1, ChainAppend
<1> QED
  BY <1>2, <1>4, <1>5 DEF m

\* What nobody asked for is no handshake, and asks for nothing.
LEMMA StrayKeeps ==
  ASSUME CInv, Stray
  PROVE  CInv'
<1>1. /\ cst # "gone" /\ pc' = pc /\ todo' = todo /\ sent_registries' = sent_registries
      /\ down' = down /\ got' = got /\ cst' = cst /\ intent' = intent
      /\ up \in Seq(Packet) /\ cst \in States
  BY DEF Stray, server, CInv, Types, TypeOK, States
<1>2. PICK k \in {"stray", "known_packs"} :
        Say(cst, <<k>>) /\ (k = "known_packs" => cst = "configuration")
  BY DEF Stray
<1>3. k \in Kinds
  BY <1>2, KindsKnown
<1>4. up' = Append(up, Pkt(cst, k)) /\ Len(up) + 1 <= Bound
  <2>1. up \o In(cst, <<k>>) = Append(up, Pkt(cst, k))
    BY <1>1, <1>3, SayOne
  <2>2. Len(<<k>>) = 1
    OBVIOUS
  <2> QED
    BY <1>2, <2>1, <2>2 DEF Say
<1>5. /\ up' \in Seq(Packet) /\ Len(up) \in Nat /\ Len(up') = Len(up) + 1
      /\ \A i \in 1..Len(up) : up'[i] = up[i]
      /\ up'[Len(up')].k = k
      /\ pc # "closed" => Chained(pc', up') /\ End(pc', up') = Leads(Pkt(cst, k))
  BY <1>1, <1>3, <1>4, SpokenKeeps
<1>6. Script' = Script /\ Begun' = Begun /\ FinishAt' = FinishAt
  BY <1>1 DEF Script, JoinScript, PingScript, JoinPackets, In, Pkt, FinishAt, Begun
<1>7. TypeOK'
  <2>1. StateAt(pc') = StateAt(pc)
    BY <1>1
  <2>2. strayed' \in BOOLEAN
    BY DEF Stray, CInv, TypeOK
  <2> QED
    BY <1>1, <1>4, <1>5, <2>1, <2>2 DEF CInv, TypeOK
<1>8. Types' /\ Heard'
  BY <1>1, <1>5, <1>6 DEF CInv, Types, Heard
<1>9. Chain'
  <2>1. Leads(Pkt(cst, k)) = cst
    BY <1>2 DEF Leads, Pkt
  <2> QED
    BY <1>1, <1>5, <2>1 DEF Chain
<1>10. \A i \in 1..Len(up') : i \in 1..Len(up) \/ up'[i].k = k
  BY <1>5
<1>11. Opened'
  BY <1>1, <1>2, <1>5, <1>10 DEF CInv, Opened
<1>12. Told /\ Reached /\ Asked /\ Following
  BY <1>1 DEF CInv, Live
<1>13. Told' /\ Reached'
  BY <1>1, <1>6, <1>12 DEF Told, Reached
<1>14. Asked'
  BY <1>1, <1>2, <1>5, <1>6, <1>10, <1>12 DEF Asked
<1>15. Following'
  <2>1. cst = "handshake" => k = "stray"
    BY <1>2
  <2> QED
    BY <1>1, <1>5, <1>6, <1>10, <1>12, <2>1 DEF Following
<1> QED
  BY <1>7, <1>8, <1>9, <1>11, <1>13, <1>14, <1>15 DEF CInv, Live

\* The handshake and what follows it lead from the first state to the next.
LEMMA OpenKeeps ==
  ASSUME CInv, Open
  PROVE  CInv'
<1> DEFINE k == IF intent = "status" THEN "request" ELSE "login_start"
           to == IF intent = "status" THEN "status" ELSE "login"
           m1 == Pkt("handshake", intent)
           m2 == Pkt(to, k)
           u1 == Append(up, m1)
<1>1. /\ cst = "handshake" /\ pc # "closed" /\ Len(up) + 2 <= Bound /\ cst' = to
      /\ pc' = pc /\ todo' = todo /\ sent_registries' = sent_registries
      /\ down' = down /\ got' = got /\ intent' = intent /\ strayed' = strayed
      /\ up \in Seq(Packet) /\ intent \in {"status", "login", "transfer"}
  BY DEF Open, server, CInv, Types
<1>2. /\ intent \in Kinds /\ k \in Kinds /\ "handshake" \in States /\ to \in States
      /\ to \in {"status", "login"} /\ k \in {"request", "login_start"}
  BY <1>1, KindsKnown, StatesKnown
<1>3. /\ m1 \in Packet /\ m1.st = "handshake" /\ m1.k = intent
      /\ m2 \in Packet /\ m2.st = to /\ m2.k = k
  BY <1>2 DEF Pkt, Packet
<1>4. Leads(m1) = to /\ Leads(m2) = to
  BY <1>1, <1>3 DEF Leads
<1>5. up' = Append(u1, m2)
  <2>1. up' = (up \o In("handshake", <<intent>>)) \o In(to, <<k>>)
    <3>1. up' = (up \o In("handshake", <<intent>>)) \o
                  In(cst', IF intent = "status" THEN <<"request">> ELSE <<"login_start">>)
      BY DEF Open
    <3>2. (IF intent = "status" THEN <<"request">> ELSE <<"login_start">>) = <<k>>
      OBVIOUS
    <3> HIDE DEF k, to
    <3> QED
      BY <1>1, <3>1, <3>2
  <2> HIDE DEF k, to
  <2>2. up \o In("handshake", <<intent>>) = u1
    BY <1>1, <1>2, SayOne
  <2>3. u1 \in Seq(Packet)
    BY <1>1, <1>3
  <2> HIDE DEF u1
  <2>4. u1 \o In(to, <<k>>) = Append(u1, m2)
    BY <1>2, <2>3, SayOne
  <2> QED
    BY <2>1, <2>2, <2>4
<1> HIDE DEF k, to, m1, m2
<1>6. /\ u1 \in Seq(Packet) /\ Len(up) \in Nat /\ Len(u1) = Len(up) + 1
      /\ \A i \in 1..Len(up) : u1[i] = up[i]
      /\ u1[Len(up) + 1] = m1
  BY <1>1, <1>3, AppendFacts
<1> HIDE DEF u1
<1>7. /\ up' \in Seq(Packet) /\ Len(up') = Len(up) + 2
      /\ \A i \in 1..Len(up) : up'[i] = up[i]
      /\ up'[Len(up) + 1] = m1 /\ up'[Len(up) + 2] = m2
  <2>1. /\ Append(u1, m2) \in Seq(Packet) /\ Len(Append(u1, m2)) = Len(u1) + 1
        /\ \A i \in 1..Len(u1) : Append(u1, m2)[i] = u1[i]
        /\ Append(u1, m2)[Len(u1) + 1] = m2
    BY <1>3, <1>6, AppendFacts
  <2> QED
    BY <1>5, <1>6, <2>1
<1>8. Script' = Script /\ Begun' = Begun /\ FinishAt' = FinishAt
  BY <1>1 DEF Script, JoinScript, PingScript, JoinPackets, In, Pkt, FinishAt, Begun
<1>9. TypeOK'
  <2>1. StateAt(pc') = StateAt(pc)
    BY <1>1
  <2> QED
    BY <1>1, <1>2, <1>6, <1>7, <2>1 DEF CInv, TypeOK
<1>10. Types' /\ Heard'
  BY <1>1, <1>7, <1>8 DEF CInv, Types, Heard
<1>11. Chain'
  <2>1. Chained(pc, up) /\ End(pc, up) = "handshake"
    BY <1>1 DEF CInv, Chain
  <2>2. Chained(pc, u1) /\ End(pc, u1) = to
    BY <1>1, <1>3, <1>4, <2>1, ChainAppend DEF u1
  <2>3. Chained(pc, up') /\ End(pc, up') = to
    BY <1>3, <1>4, <1>5, <1>6, <2>2, ChainAppend
  <2> QED
    BY <1>1, <2>3 DEF Chain
<1>12. \A i \in 1..Len(up') : i \in 1..Len(up) \/ up'[i] = m1 \/ (i = Len(up) + 2 /\ up'[i] = m2)
  BY <1>6, <1>7
<1>13. Told /\ Reached /\ Begun = 0 /\ \A i \in 1..Len(up) : up[i].k = "stray"
  BY <1>1 DEF CInv, Live, Following
<1>14. Opened'
  BY <1>1, <1>2, <1>3, <1>7, <1>12, <1>13 DEF Opened
<1>15. Told' /\ Reached'
  BY <1>1, <1>8, <1>13 DEF Told, Reached
<1>16. Asked'
  <2>1. ASSUME NEW i \in 1..Len(up')
        PROVE  /\ up'[i].k \notin {"ping", "finish_ack"}
               /\ up'[i].k = "request" => i = Len(up) + 2 /\ intent = "status"
    BY <1>1, <1>3, <1>7, <1>12, <1>13 DEF k
  <2> QED
    BY <1>1, <1>8, <1>13, <2>1 DEF Asked
<1>17. Following'
  <2>1. Len(got) = 0
    BY <1>13 DEF Begun, CInv, Types
  <2> QED
    BY <1>1, <2>1 DEF Following, to
<1> QED
  BY <1>9, <1>10, <1>11, <1>14, <1>15, <1>16, <1>17 DEF CInv, Live

-----------------------------------------------------------------------------
\* What the client does with a packet of each kind.
LEMMA AnswerFacts ==
  ASSUME NEW k
  PROVE  /\ k = "response" => Answer(k) = <<"ping">> /\ After(k) = cst
         /\ k = "success" => Answer(k) = <<"login_ack">> /\ After(k) = "configuration"
         /\ k = "known_packs" => Answer(k) = <<"known_packs">> /\ After(k) = cst
         /\ k = "finish" => Answer(k) = <<"finish_ack">> /\ After(k) = "play"
         /\ k = "pong" => Answer(k) = <<>> /\ After(k) = "gone"
         /\ k \notin {"response", "success", "known_packs", "finish", "pong"} =>
              Answer(k) = <<>> /\ After(k) = cst
<1>1. CASE k = "response"
  BY <1>1 DEF Answer, After
<1>2. CASE k = "success"
  BY <1>2 DEF Answer, After
<1>3. CASE k = "known_packs"
  BY <1>3 DEF Answer, After
<1>4. CASE k = "finish"
  BY <1>4 DEF Answer, After
<1>5. CASE k = "pong"
  BY <1>5 DEF Answer, After
<1>6. CASE k \notin {"response", "success", "known_packs", "finish", "pong"}
  BY <1>6 DEF Answer, After
<1> QED
  BY <1>1, <1>2, <1>3, <1>4, <1>5, <1>6

\* The client takes the next packet of the script and answers it, if it asks for
\* an answer.
LEMMA ReceiveKeeps ==
  ASSUME CInv, Receive
  PROVE  CInv'
<1> DEFINE h == Head(down)
           n == Len(got) + 1
<1>1. /\ cst # "gone" /\ down # <<>> /\ Say(cst, Answer(h.k)) /\ cst' = After(h.k)
      /\ got' = Append(got, h) /\ down' = Tail(down) /\ strayed' = strayed
      /\ pc' = pc /\ todo' = todo /\ sent_registries' = sent_registries /\ intent' = intent
      /\ up \in Seq(Packet) /\ down \in Seq(Packet) /\ got \in Seq(Packet)
      /\ todo \in Seq(Packet) /\ cst \in States
      /\ intent \in {"status", "login", "transfer"}
  BY DEF Receive, server, CInv, Types, TypeOK, States
<1>2. /\ Len(down) \in Nat \ {0} /\ down' \in Seq(Packet) /\ Len(down') = Len(down) - 1
      /\ \A i \in 1..Len(down) - 1 : down'[i] = down[i + 1]
      /\ h = down[1] /\ h \in Packet
  BY <1>1, TailFacts
<1> HIDE DEF h
<1>3. /\ got' \in Seq(Packet) /\ Len(got') = n /\ Len(got) \in Nat
      /\ \A i \in 1..Len(got) : got'[i] = got[i]
      /\ got'[n] = h
  BY <1>1, <1>2, AppendFacts
<1>4. Told /\ Reached /\ Asked /\ Following
  BY <1>1 DEF CInv, Live
<1>5. Script' = Script /\ FinishAt' = FinishAt /\ FinishAt \in Nat /\ FinishAt >= 4
  BY <1>1, JoinFacts DEF Script, JoinScript, PingScript, JoinPackets, In, Pkt, FinishAt
<1>6. Begun' = Begun /\ Begun \in Nat /\ n <= Begun /\ Len(todo) \in Nat
  BY <1>1, <1>2, <1>3 DEF Begun
<1>7. h = Script[n] /\ n \in 1..Len(Script) /\ n \in Nat
  <2>1. 1 \in 1..Len(down)
    BY <1>2
  <2>2. down[1] = Script[Len(got) + 1]
    BY <1>4, <2>1 DEF Told
  <2>3. Begun <= Len(Script) /\ Len(Script) \in Nat
    BY <1>1, <1>4, ScriptFacts DEF Told
  <2> QED
    BY <1>2, <1>3, <1>6, <2>2, <2>3
<1>8. /\ intent \in {"status", "login"}
      /\ intent = "login" => /\ h.k = "success" <=> n = 1
                             /\ h.k = "finish" <=> n = FinishAt
                             /\ h.k \notin {"response", "pong"}
      /\ intent = "status" => h.k \in {"response", "pong"} /\ cst = "status"
  <2>1. intent # "transfer"
    BY <1>1, <1>7, ScriptFacts
  <2>2. intent = "status" => h = Pkt("status", IF n = 1 THEN "response" ELSE "pong")
    BY <1>1, <1>7, ScriptFacts
  <2>3. intent = "status" => cst = "status"
    BY <1>3, <1>4, <1>6 DEF Following
  <2> QED
    BY <1>1, <1>7, <2>1, <2>2, <2>3, ScriptFacts DEF Pkt
<1>9. Heard'
  BY <1>1, <1>3, <1>5, <1>7 DEF CInv, Heard
<1>10. Told'
  <2>1. ASSUME NEW i \in 1..Len(down')
        PROVE  down'[i] = Script[Len(got') + i]
    <3>1. i + 1 \in 1..Len(down) /\ down'[i] = down[i + 1]
      BY <1>2
    <3>2. down[i + 1] = Script[Len(got) + (i + 1)]
      BY <1>4, <3>1 DEF Told
    <3>3. Len(got) + (i + 1) = Len(got') + i
      BY <1>3
    <3> QED
      BY <3>1, <3>2, <3>3
  <2>2. Len(got') + Len(down') = Len(got) + Len(down)
    BY <1>2, <1>3
  <2> QED
    BY <1>1, <1>4, <1>5, <1>6, <2>1, <2>2 DEF Told
<1>11. Reached'
  BY <1>1, <1>4, <1>5, <1>6 DEF Reached
<1>12. /\ cst # "handshake"
       /\ cst = IF intent = "status" THEN "status"
                ELSE IF Len(got) = 0 THEN "login"
                ELSE IF Len(got) < FinishAt THEN "configuration"
                ELSE "play"
  BY <1>3, <1>4, <1>6 DEF Following
<1>13. cst' # "gone" => Following'
  BY <1>1, <1>3, <1>5, <1>8, <1>12, AnswerFacts DEF Following
<1>14. cst' \in {"handshake", "status", "login", "configuration", "play", "gone"}
  BY <1>1, AnswerFacts DEF States
<1> DEFINE asks == h.k \in {"response", "success", "known_packs", "finish"}
           a == IF h.k = "response" THEN "ping"
                ELSE IF h.k = "success" THEN "login_ack"
                ELSE IF h.k = "known_packs" THEN "known_packs" ELSE "finish_ack"
<1>15. ASSUME ~asks
       PROVE  up' = up /\ (cst' = cst \/ cst' = "gone")
  <2>1. Answer(h.k) = <<>> /\ (cst' = cst \/ cst' = "gone")
    BY <1>1, <1>15, AnswerFacts
  <2> QED
    BY <1>1, <2>1, SayNothing DEF Say
<1>16. ASSUME asks
       PROVE  /\ up' \in Seq(Packet) /\ Len(up) \in Nat /\ Len(up') = Len(up) + 1
              /\ Len(up') <= Bound
              /\ \A i \in 1..Len(up) : up'[i] = up[i]
              /\ up'[Len(up')].k = a
              /\ pc # "closed" => Chained(pc', up') /\ End(pc', up') = cst'
  <2>1. Answer(h.k) = <<a>>
    BY <1>16, AnswerFacts
  <2>2. Leads(Pkt(cst, a)) = cst'
    BY <1>1, <1>16, AnswerFacts DEF Leads, Pkt
  <2>3. a \in Kinds
    BY KindsKnown
  <2> HIDE DEF a
  <2>4. up' = up \o In(cst, <<a>>) /\ Len(up) + Len(<<a>>) <= Bound
    BY <1>1, <2>1 DEF Say
  <2>5. up' = Append(up, Pkt(cst, a)) /\ Len(<<a>>) = 1
    BY <1>1, <2>3, <2>4, SayOne
  <2>6. /\ up' \in Seq(Packet) /\ Len(up) \in Nat /\ Len(up') = Len(up) + 1
        /\ \A i \in 1..Len(up) : up'[i] = up[i]
        /\ up'[Len(up')].k = a
        /\ pc # "closed" => Chained(pc', up') /\ End(pc', up') = Leads(Pkt(cst, a))
    BY <1>1, <2>3, <2>5, SpokenKeeps
  <2> QED
    BY <2>2, <2>4, <2>5, <2>6
<1>17. Len(up') <= Bound /\ up' \in Seq(Packet)
  BY <1>1, <1>15, <1>16 DEF CInv, TypeOK
<1>18. TypeOK'
  <2>1. Len(down') <= Bound /\ StateAt(pc') = StateAt(pc)
    <3>1. Len(down) <= Bound
      BY DEF CInv, TypeOK
    <3> QED
      BY <1>1, <1>2, <3>1, BoundAssumption
  <2> QED
    BY <1>1, <1>14, <1>17, <2>1 DEF CInv, TypeOK
<1>19. Types'
  BY <1>1, <1>2, <1>3, <1>17 DEF CInv, Types
<1>20. Chain'
  <2>1. CASE ~asks
    BY <1>1, <1>15, <2>1 DEF CInv, Chain, Chained, End
  <2>2. CASE asks
    BY <1>1, <1>16, <2>2 DEF Chain
  <2> QED
    BY <2>1, <2>2
<1>21. a \in {"ping", "login_ack", "known_packs", "finish_ack"}
  OBVIOUS
<1>22. asks => \A i \in 1..Len(up') : i \in 1..Len(up) \/ up'[i].k = a
  BY <1>16
<1>23. Opened'
  <2>1. CASE ~asks
    BY <1>1, <1>15, <2>1 DEF CInv, Opened
  <2>2. CASE asks
    <3> HIDE DEF a, asks
    <3> QED
      BY <1>1, <1>16, <1>21, <1>22, <2>2 DEF CInv, Opened
  <2> QED
    BY <2>1, <2>2
<1>24. Asked'
  <2>1. CASE ~asks
    BY <1>1, <1>4, <1>5, <1>6, <1>15, <2>1 DEF Asked
  <2>2. CASE asks
    <3>1. a = "finish_ack" => Begun >= FinishAt
      BY <1>5, <1>6, <1>8, <2>2
    <3>2. Begun >= 1
      BY <1>3, <1>6
    <3> HIDE DEF a, asks
    <3> QED
      BY <1>1, <1>4, <1>5, <1>6, <1>16, <1>21, <1>22, <2>2, <3>1, <3>2 DEF Asked
  <2> QED
    BY <2>1, <2>2
<1> QED
  BY <1>9, <1>10, <1>11, <1>13, <1>18, <1>19, <1>20, <1>23, <1>24 DEF CInv, Live

-----------------------------------------------------------------------------
\* A new connection has told nothing.
LEMMA InitHolds == Init => CInv
<1> SUFFICES ASSUME Init PROVE CInv
  OBVIOUS
<1>1. /\ pc = "handshake" /\ todo = <<>> /\ sent_registries = FALSE /\ up = <<>>
      /\ down = <<>> /\ cst = "handshake" /\ intent \in {"status", "login", "transfer"}
      /\ got = <<>> /\ strayed = FALSE
  BY DEF Init
<1>2. Len(up) = 0 /\ Len(down) = 0 /\ Len(todo) = 0 /\ Len(got) = 0 /\ Begun = 0
  BY <1>1 DEF Begun
<1>3. TypeOK
  <2>1. \A i \in DOMAIN todo : FALSE
    BY <1>1
  <2>2. Len(up) <= Bound /\ Len(down) <= Bound
    BY <1>2, BoundAssumption
  <2>3. pc \in PCs
    BY <1>1 DEF PCs
  <2>4. cst \in {"handshake", "status", "login", "configuration", "play", "gone"}
    BY <1>1
  <2> QED
    BY <1>1, <2>1, <2>2, <2>3, <2>4 DEF TypeOK
<1>4. Types
  BY <1>1 DEF Types
<1>5. Chain
  BY <1>1, <1>2, StatesRead DEF Chain, Chained, End
<1>6. Len(Script) \in Nat
  BY <1>1, ScriptFacts
<1>7. Opened /\ Heard /\ Told
  BY <1>2, <1>6 DEF Opened, Heard, Told
<1>8. Reached /\ Asked /\ Following
  BY <1>1, <1>2 DEF Reached, Asked, Following
<1> QED
  BY <1>3, <1>4, <1>5, <1>7, <1>8 DEF CInv, Live

\* Every step keeps the invariant.
LEMMA StepKeeps ==
  ASSUME CInv, [Next]_vars
  PROVE  CInv'
<1>1. CASE Handshake
  BY <1>1, HandshakeKeeps
<1>2. CASE Status
  BY <1>2, StatusKeeps
<1>3. CASE LoginStart
  BY <1>3, LoginStartKeeps
<1>4. CASE LoginAck
  BY <1>4, LoginAckKeeps
<1>5. CASE KnownPacks
  BY <1>5, KnownPacksKeeps
<1>6. CASE FinishConfiguration
  BY <1>6, FinishConfigurationKeeps
<1>7. CASE Ignore
  BY <1>7, IgnoreKeeps
<1>8. CASE Write
  BY <1>8, WriteKeeps
<1>9. CASE Pinged
  BY <1>9, PingedKeeps
<1>10. CASE Eof
  BY <1>10, EofKeeps
<1>11. CASE Open
  BY <1>11, OpenKeeps
<1>12. CASE Receive
  BY <1>12, ReceiveKeeps
<1>13. CASE Stray
  BY <1>13, StrayKeeps
<1>14. CASE GoAway
  BY <1>14, GoAwayKeeps
<1>15. CASE UNCHANGED vars
  <2>1. /\ pc' = pc /\ todo' = todo /\ sent_registries' = sent_registries /\ up' = up
        /\ down' = down /\ cst' = cst /\ intent' = intent /\ got' = got /\ strayed' = strayed
    BY <1>15 DEF vars
  <2>2. Script' = Script /\ Begun' = Begun /\ FinishAt' = FinishAt
    BY <2>1 DEF Script, JoinScript, PingScript, JoinPackets, In, Pkt, FinishAt, Begun
  <2>3. StateAt(pc') = StateAt(pc)
    BY <2>1
  <2>4. TypeOK' /\ Types'
    BY <2>1, <2>3 DEF CInv, TypeOK, Types
  <2>5. Chain' /\ Opened' /\ Heard'
    BY <2>1, <2>2 DEF CInv, Chain, Chained, End, Opened, Heard
  <2>6. Live'
    BY <2>1, <2>2 DEF CInv, Live, Told, Reached, Asked, Following
  <2> QED
    BY <2>4, <2>5, <2>6 DEF CInv
<1> QED
  BY <1>1, <1>2, <1>3, <1>4, <1>5, <1>6, <1>7, <1>8, <1>9, <1>10, <1>11, <1>12, <1>13,
     <1>14, <1>15 DEF Next

\* The invariant holds throughout.
LEMMA Invariant == Spec => []CInv
  BY InitHolds, StepKeeps, PTL DEF Spec

\* connection.rs, login.rs, configuration.rs: what a handler has to write belongs
\* to the state it leads to, and the finish is never under way before the
\* registries are, for every list of registries.
THEOREM ConnectionTypeCorrect == Spec => []TypeOK
<1>1. CInv => TypeOK
  BY DEF CInv
<1> QED
  BY <1>1, Invariant, PTL

\* Either end reads a packet in the protocol state it was written for, for every
\* list of registries and any number of packets on the way.
THEOREM StatesInStep == Spec => []InStep
<1>1. ASSUME CInv
      PROVE  InStep
  <2>1. ASSUME todo = <<>>, up # <<>>, pc # "closed"
        PROVE  Head(up).st = StateAt(pc)
    <3>1. up \in Seq(Packet)
      BY <1>1 DEF CInv, Types
    <3>2. Len(up) > 0 /\ Head(up) = up[1]
      BY <2>1, <3>1, TailFacts
    <3> QED
      BY <1>1, <2>1, <3>2 DEF CInv, Chain, Chained
  <2>2. ASSUME down # <<>>, cst # "gone"
        PROVE  Head(down).st = cst
    <3> DEFINE n == Len(got) + 1
    <3>1. /\ down \in Seq(Packet) /\ got \in Seq(Packet) /\ todo \in Seq(Packet)
          /\ intent \in {"status", "login", "transfer"} /\ Told /\ Following
      BY <1>1, <2>2 DEF CInv, Types, Live
    <3>2. /\ 1 \in 1..Len(down) /\ Head(down) = down[1]
          /\ n \in Nat /\ n >= 1 /\ Begun >= n /\ Begun \in Nat
          /\ Len(got) = n - 1 /\ Len(got) \in Nat
      <4>1. Len(down) \in Nat \ {0} /\ Head(down) = down[1]
        BY <2>2, <3>1, TailFacts
      <4> QED
        BY <3>1, <4>1 DEF Begun
    <3>3. Head(down) = Script[n]
      BY <3>1, <3>2 DEF Told
    <3>4. Len(Script) \in Nat /\ n \in 1..Len(Script)
      <4>1. Len(Script) \in Nat
        BY <3>1, ScriptFacts
      <4> QED
        BY <3>1, <3>2, <4>1 DEF Told
    <3>5. cst = IF intent = "status" THEN "status"
                ELSE IF Len(got) = 0 THEN "login"
                ELSE IF Len(got) < FinishAt THEN "configuration"
                ELSE "play"
      BY <3>1, <3>2 DEF Following
    <3>6. intent # "transfer" /\ FinishAt \in Nat
      BY <3>1, <3>4, ScriptFacts, JoinFacts
    <3>7. intent = "status" => Script[n].st = "status"
      <4>1. intent = "status" =>
              Script[n] = Pkt("status", IF n = 1 THEN "response" ELSE "pong")
        BY <3>1, <3>4, ScriptFacts
      <4> QED
        BY <4>1 DEF Pkt
    <3>8. intent = "login" => Script[n].st = IF n = 1 THEN "login"
                                            ELSE IF n <= FinishAt THEN "configuration" ELSE "play"
      BY <3>1, <3>4, ScriptFacts
    <3> QED
      BY <3>1, <3>2, <3>3, <3>5, <3>6, <3>7, <3>8
  <2> QED
    BY <2>1, <2>2 DEF InStep
<1> QED
  BY <1>1, Invariant, PTL

\* configuration.rs:1-7: a client gets the brand, the Known Packs list, every
\* registry once and in order, the tags, the finish and then the join packets,
\* and a server-list ping its response and its pong, for every list of registries.
THEOREM JoinDelivered == Spec => []DeliveredInOrder
<1>1. ASSUME CInv
      PROVE  DeliveredInOrder
  <2>1. /\ Heard /\ got \in Seq(Packet) /\ intent \in {"status", "login", "transfer"}
        /\ Script \in Seq(Packet)
    BY <1>1, ScriptFacts DEF CInv, Types
  <2>2. IsPrefix(got, Script)
    <3>1. /\ Len(got) \in Nat /\ Len(got) <= Len(Script) /\ Len(Script) \in Nat
          /\ \A i \in 1..Len(got) : got[i] = Script[i]
      BY <2>1 DEF Heard
    <3>2. SubSeq(got, 1, Len(got)) = SubSeq(Script, 1, Len(got))
      BY <2>1, <3>1
    <3> QED
      BY <3>1, <3>2 DEF IsPrefix
  <2>3. intent = "transfer" => got = <<>>
    <3>1. intent = "transfer" => Len(got) = 0
      BY <2>1, ScriptFacts DEF Heard
    <3> QED
      BY <2>1, <3>1
  <2> QED
    BY <2>2, <2>3 DEF DeliveredInOrder, Script, JoinScript, PingScript
<1> QED
  BY <1>1, Invariant, PTL
=============================================================================
