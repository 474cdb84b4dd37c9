------------------------------- MODULE Connection -------------------------------
(***************************************************************************)
(* One connection from accept to the play state or to its end:             *)
(* connection.rs (handshake, status), login.rs, configuration.rs and the   *)
(* join packets of play.rs, against a client that follows the protocol.    *)
(*                                                                         *)
(* Every handler of the server reads one packet and then only writes until *)
(* it reads again, so a handler is: take a packet, note what to write and  *)
(* where to read next.  The writes are steps of their own and wait while   *)
(* the connection is full.                                                 *)
(*                                                                         *)
(* Both ends change the protocol state on their own, at a packet they send *)
(* or read, and a packet means something only in the state it was written  *)
(* for: `st` of a packet is the state its writer was in.                   *)
(*                                                                         *)
(* The client is external.  Besides what the protocol asks of it, it may   *)
(* send packets of other kinds at any time and may go away at any time.    *)
(***************************************************************************)
EXTENDS Naturals, Sequences, SequencesExt

CONSTANTS
  Registry,  \* Registries::list: the registries to stream, in order
  HasTags,   \* tags.bin was found
  Bound      \* packets on the way in one direction before a write waits

\* A registry's id, minecraft:..., is none of the other packets.
ASSUME RegistryAssumption ==
  /\ Registry \in Seq(STRING)
  /\ \A i \in 1..Len(Registry) :
       Registry[i] \notin {"response", "pong", "success", "finish"}
ASSUME HasTagsAssumption == HasTags \in BOOLEAN
ASSUME BoundAssumption == Bound \in Nat \ {0}

VARIABLES
  pc,      \* where the server reads next
  todo,    \* packets the handler still has to write, each with its state
  sent_registries,
  up,      \* client to server
  down,    \* server to client
  cst,     \* the state the client is in
  intent,  \* next_state of the client's handshake
  got,     \* history: packets the client has received
  strayed  \* history: the client sent a packet the protocol does not ask for

vars == <<pc, todo, sent_registries, up, down, cst, intent, got, strayed>>
server == <<pc, todo, sent_registries>>
client == <<cst, intent, got, strayed>>

\* The protocol state in which the server reads at pc.
StateAt(p) ==
  CASE p = "handshake"                     -> "handshake"
    [] p \in {"status", "pinged"}          -> "status"
    [] p \in {"login_start", "login_ack"}  -> "login"
    [] p = "configuration"                 -> "configuration"
    [] p = "play"                          -> "play"
    [] OTHER                               -> "closed"

Pkt(st, k) == [st |-> st, k |-> k]
In(st, ks) == [i \in DOMAIN ks |-> Pkt(st, ks[i])]

Init ==
  /\ pc = "handshake" /\ todo = <<>> /\ sent_registries = FALSE
  /\ up = <<>> /\ down = <<>>
  /\ cst = "handshake" /\ intent \in {"status", "login", "transfer"}
  /\ got = <<>> /\ strayed = FALSE

-----------------------------------------------------------------------------
\* The server takes the next packet, of kind k.
Take(k) ==
  /\ todo = <<>> /\ up # <<>>
  /\ Head(up).k = k
  /\ up' = Tail(up)
  /\ UNCHANGED <<down, client>>

\* The handler returns an error; the connection is dropped.
Refuse == pc' = "closed" /\ UNCHANGED <<todo, sent_registries>>

Goto(p, packets) == pc' = p /\ todo' = packets /\ UNCHANGED sent_registries

\* connection::handle: the first packet must be a handshake for a known state.
Handshake ==
  /\ pc = "handshake"
  /\ \/ Take("status") /\ Goto("status", <<>>)
     \/ Take("login") /\ Goto("login_start", <<>>)
     \/ Take("transfer") /\ Refuse
     \/ Take("stray") /\ Refuse

\* handle_status: any number of requests, then one ping, echoed, and the end.
Status ==
  /\ pc = "status"
  /\ \/ Take("request") /\ Goto("status", In("status", <<"response">>))
     \/ Take("ping") /\ Goto("pinged", In("status", <<"pong">>))
     \/ Take("stray") /\ Refuse

\* login::handle: Login Start, answered with Login Success.
LoginStart ==
  /\ pc = "login_start"
  /\ \/ Take("login_start") /\ Goto("login_ack", In("login", <<"success">>))
     \/ Take("stray") /\ Refuse

\* A mutant of Greeting: the Known Packs list is left out.
Greeting_no_packs == In("configuration", <<"brand">>)

Greeting == In("configuration", <<"brand", "known_packs">>)

\* Login Acknowledged: on to the configuration, which the server opens.
LoginAck ==
  /\ pc = "login_ack"
  /\ \/ Take("login_ack") /\ Goto("configuration", Greeting)
     \/ Take("stray") /\ Refuse

\* All registries, the tags that refer to them, and the finish.
RegistryPackets ==
  In("configuration", Registry \o (IF HasTags THEN <<"tags">> ELSE <<>>) \o <<"finish">>)

\* Up to play's first load_around: the join packets.
JoinPackets == In("play", <<"join_game", "position", "wait_for_chunks">>)

\* A mutant of KnownPacks: play starts without the client's acknowledgement.
KnownPacks_no_wait ==
  /\ pc = "configuration" /\ ~sent_registries
  /\ Take("known_packs")
  /\ pc' = "play" /\ todo' = RegistryPackets \o JoinPackets
  /\ sent_registries' = TRUE

\* A mutant of KnownPacks: sent_registries is never set.
KnownPacks_forgets ==
  /\ pc = "configuration" /\ ~sent_registries
  /\ Take("known_packs")
  /\ todo' = RegistryPackets
  /\ UNCHANGED <<pc, sent_registries>>

\* A mutant of KnownPacks: every Known Packs packet is served.
KnownPacks_unguarded ==
  /\ pc = "configuration"
  /\ Take("known_packs")
  /\ todo' = RegistryPackets
  /\ sent_registries' = TRUE
  /\ UNCHANGED pc

\* configuration::handle: the client's Known Packs, the first time.
KnownPacks ==
  /\ pc = "configuration" /\ ~sent_registries
  /\ Take("known_packs")
  /\ todo' = RegistryPackets
  /\ sent_registries' = TRUE
  /\ UNCHANGED pc

\* Acknowledge Finish Configuration, whether or not registries were sent.
FinishConfiguration ==
  /\ pc = "configuration"
  /\ Take("finish_ack")
  /\ Goto("play", JoinPackets)

\* Anything else is ignored in the configuration and, of what is sent here, in
\* play.
Ignore ==
  /\ pc \in {"configuration", "play"}
  /\ \/ Take("stray")
     \/ sent_registries /\ Take("known_packs")
  /\ UNCHANGED server

Write ==
  /\ todo # <<>> /\ Len(down) < Bound
  /\ down' = Append(down, Head(todo))
  /\ todo' = Tail(todo)
  /\ UNCHANGED <<pc, sent_registries, up, client>>

\* handle_status returns after the pong.
Pinged ==
  /\ pc = "pinged" /\ todo = <<>>
  /\ Refuse
  /\ UNCHANGED <<up, down, client>>

\* A mutant of Eof: a failed write is not an error.
Eof_reading_only ==
  /\ cst = "gone" /\ pc # "closed"
  /\ todo = <<>> /\ up = <<>>
  /\ pc' = "closed"
  /\ UNCHANGED <<todo, sent_registries, up, down, client>>

\* The client is gone: reading ends, or a write fails.
Eof ==
  /\ cst = "gone" /\ pc # "closed"
  /\ \/ todo = <<>> /\ up = <<>>
     \/ todo # <<>>
  /\ pc' = "closed" /\ todo' = <<>>
  /\ UNCHANGED <<sent_registries, up, down, client>>

-----------------------------------------------------------------------------
Say(st, ks) ==
  /\ Len(up) + Len(ks) <= Bound
  /\ up' = up \o In(st, ks)

\* The client opens with the handshake and follows up without waiting.
Open ==
  /\ cst = "handshake" /\ pc # "closed"
  /\ Len(up) + 2 <= Bound
  /\ cst' = IF intent = "status" THEN "status" ELSE "login"
  /\ up' = up \o In("handshake", <<intent>>) \o
       In(cst', IF intent = "status" THEN <<"request">> ELSE <<"login_start">>)
  /\ UNCHANGED <<server, down, intent, got, strayed>>

\* What the client answers to a packet, and the state it is in afterwards.
Answer(k) ==
  CASE k = "response"    -> <<"ping">>
    [] k = "success"     -> <<"login_ack">>
    [] k = "known_packs" -> <<"known_packs">>
    [] k = "finish"      -> <<"finish_ack">>
    [] OTHER             -> <<>>
After(k) ==
  CASE k = "success" -> "configuration"
    [] k = "finish"  -> "play"
    [] k = "pong"    -> "gone"
    [] OTHER         -> cst

Receive ==
  /\ down # <<>> /\ cst # "gone"
  /\ Say(cst, Answer(Head(down).k))
  /\ got' = Append(got, Head(down))
  /\ down' = Tail(down)
  /\ cst' = After(Head(down).k)
  /\ UNCHANGED <<server, intent, strayed>>

\* A packet nobody asked for: client information, plugin messages or the Known
\* Packs once more in the configuration, movement in play, anything unknown.
Stray ==
  /\ cst # "gone"
  /\ \/ Say(cst, <<"stray">>)
     \/ Pkt("configuration", "known_packs") \in Range(got) /\ cst = "configuration"
        /\ Say(cst, <<"known_packs">>)
  /\ strayed' = (strayed \/ cst \notin {"configuration", "play"})
  /\ UNCHANGED <<server, down, cst, intent, got>>

GoAway ==
  /\ cst # "gone" /\ cst' = "gone"
  /\ down' = <<>>
  /\ UNCHANGED <<server, up, intent, got, strayed>>

Read ==
  \/ Handshake \/ Status \/ LoginStart \/ LoginAck
  \/ KnownPacks \/ FinishConfiguration \/ Ignore

Next ==
  \/ Handshake
  \/ Status
  \/ LoginStart
  \/ LoginAck
  \/ KnownPacks
  \/ FinishConfiguration
  \/ Ignore
  \/ Write
  \/ Pinged
  \/ Eof
  \/ Open
  \/ Receive
  \/ Stray
  \/ GoAway

Spec == Init /\ [][Next]_vars

\* The server's task runs, and the client takes part in the protocol.
FairSpec ==
  Spec /\ WF_vars(Read) /\ WF_vars(Write) /\ WF_vars(Pinged) /\ WF_vars(Eof)
       /\ WF_vars(Open) /\ SF_vars(Receive)

-----------------------------------------------------------------------------
PCs == {"handshake", "status", "pinged", "login_start", "login_ack",
        "configuration", "play", "closed"}

\* The types; what a handler has to write belongs to the state it leads to, and
\* the finish is never under way without sent_registries.
TypeOK ==
  /\ pc \in PCs
  /\ sent_registries \in BOOLEAN /\ strayed \in BOOLEAN
  /\ cst \in {"handshake", "status", "login", "configuration", "play", "gone"}
  /\ Len(up) <= Bound /\ Len(down) <= Bound
  /\ \A i \in DOMAIN todo : todo[i].st = StateAt(pc)
  /\ \A i \in DOMAIN todo : todo[i].k = "finish" => sent_registries
  /\ sent_registries => pc \in {"configuration", "play", "closed"}

\* The two ends never disagree about the state: a packet is read in the state it
\* was written for, at the client and at the server, although either may have
\* moved on while it was under way.
InStep ==
  /\ down # <<>> /\ cst # "gone" => Head(down).st = cst
  /\ todo = <<>> /\ up # <<>> /\ pc # "closed" => Head(up).st = StateAt(pc)

\* configuration.rs:1-7: a client gets the brand, the Known Packs list, every
\* registry once and in order, the tags that refer to them, the finish, and only
\* then the join packets.  A server-list ping gets responses and at last a pong.
DeliveredInOrder ==
  /\ intent = "login" =>
       IsPrefix(got, In("login", <<"success">>) \o
                     In("configuration", <<"brand", "known_packs">> \o Registry \o
                        (IF HasTags THEN <<"tags">> ELSE <<>>) \o <<"finish">>) \o
                     JoinPackets)
  /\ intent = "status" =>
       IsPrefix(got, In("status", <<"response", "pong">>))
  /\ intent = "transfer" => got = <<>>

\* A client that follows the protocol joins the world or gets its pong, unless
\* it goes away or strayed in a state where the server does not tolerate it.
Completes ==
  /\ (intent = "login" /\ cst = "login")
       ~> (cst = "gone" \/ strayed \/ (Len(got) > 0 /\ Last(got).k = "wait_for_chunks"))
  /\ (intent = "status" /\ cst = "status") ~> (cst = "gone" \/ strayed)

\* The server's task never outlives a client that is gone.
TasksEnd == cst = "gone" ~> pc = "closed"
=============================================================================
