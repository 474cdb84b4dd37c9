------------------------------ MODULE PlayPackets ------------------------------
(***************************************************************************)
(* Bodies of packets and files as their readers decode them: the packets   *)
(* that play.rs handles and answers, world_file (world.rs) and             *)
(* item_to_block.bin (items.rs, registries.rs).                            *)
(*                                                                         *)
(* Each behaviour is one body: written by the client or by the program,    *)
(* perhaps cut short, then read.  A file is cut when its writer stops, and *)
(* a packet body when the play loop has lost its place in the stream (see  *)
(* Framing!Tick) and takes other bytes for its length.                     *)
(***************************************************************************)
EXTENDS NbtStrings

CONSTANTS
  Packets,  \* what clients mean by the packets they send
  Files,    \* contents of files: rows of n integers
  Strays,   \* bodies that nobody wrote
  Prefix    \* of a chat line: the sender's name in brackets and a space

\* Packet ids (play.rs:16-34) and block state.
S_MOVE_POS == 30
S_MOVE_POS_ROT == 31
S_CHAT == 9
S_PLAYER_ACTION == 41
S_USE_ITEM_ON == 66
S_SET_CARRIED_ITEM == 53
S_SET_CREATIVE_SLOT == 56
P_SYSTEM_CHAT == 121
P_BLOCK_UPDATE == 8
P_BLOCK_CHANGED_ACK == 4
STATE_AIR == 0

ASSUME IdsAssumption == P_SYSTEM_CHAT \in Signed
ASSUME PacketsAssumption ==
  Packets \subseteq
    [k : {"move"}, x : Words("f64"), y : Words("f64"), z : Words("f64")]
      \cup [k : {"chat"}, text : Texts]
      \cup [k : {"action"}, status : Signed, pos : Words("i64"), face : Words("u8"), seq : Signed]
      \cup [k : {"place"}, pos : Words("i64"), face : Signed, cursor : Words("f32"), seq : Signed]
      \cup [k : {"carried"}, slot : Words("u16")]
      \cup [k : {"creative"}, slot : Words("u16"), count : Signed, item : Signed]
ASSUME FilesAssumption ==
  /\ Files \subseteq [k : {"file"}, n : Nat \ {0}, rows : Seq(Seq(Signed))]
  /\ \A f \in Files : \A i \in DOMAIN f.rows : Len(f.rows[i]) = f.n
ASSUME StraysAssumption == Strays \subseteq Seq(Byte)
ASSUME PrefixAssumption == Prefix \in Seq(Byte)

VARIABLES
  meant,   \* what the body was written for
  body,    \* its bytes
  cut,     \* was it cut short?
  done,    \* has it been read?
  result,  \* what its reader made of it: a set of effects, or the rows of a file
  reply    \* the bodies play.rs writes in answer

vars == <<meant, body, cut, done, result, reply>>

-----------------------------------------------------------------------------
\* The client's side of each packet.  Where it sends more than is listed here,
\* the handler does not read that far.
client_fields_of(m) ==
  CASE m.k = "move"     -> <<<<"varint", S_MOVE_POS>>, <<"f64", m.x>>, <<"f64", m.y>>,
                             <<"f64", m.z>>, <<"u8", 1>>>>
    [] m.k = "chat"     -> <<<<"varint", S_CHAT>>, <<"string", m.text>>, <<"i64", 1>>>>
    [] m.k = "action"   -> <<<<"varint", S_PLAYER_ACTION>>, <<"varint", m.status>>,
                             <<"i64", m.pos>>, <<"u8", m.face>>, <<"varint", m.seq>>>>
    [] m.k = "place"    -> <<<<"varint", S_USE_ITEM_ON>>, <<"varint", 0>>, <<"i64", m.pos>>,
                             <<"varint", m.face>>, <<"f32", m.cursor>>, <<"f32", m.cursor>>,
                             <<"f32", m.cursor>>, <<"bool", 0>>, <<"bool", 0>>,
                             <<"varint", m.seq>>>>
    [] m.k = "carried"  -> <<<<"varint", S_SET_CARRIED_ITEM>>, <<"u16", m.slot>>>>
    [] m.k = "creative" -> IF m.count > 0
                           THEN <<<<"varint", S_SET_CREATIVE_SLOT>>, <<"u16", m.slot>>,
                                  <<"varint", m.count>>, <<"varint", m.item>>, <<"varint", 0>>>>
                           ELSE <<<<"varint", S_SET_CREATIVE_SLOT>>, <<"u16", m.slot>>,
                                  <<"varint", m.count>>>>

When(guard, effect) == IF guard THEN {effect} ELSE {}

\* The handlers of play.rs: their reads from pos, and what they then do.
OnMove(b, pos) ==
  LET g == read_all(<<"f64", "f64", "f64">>, b, pos)
  IN  When(AllOk(g, 1..3), [k |-> "move", x |-> g[1].val, z |-> g[3].val])

OnChat(b, pos) ==
  LET text == read_string(b, pos)
  IN  When(text.ok, [k |-> "chat", text |-> text.val])

OnPlayerAction(b, pos) ==
  LET g == read_all(<<"varint", "i64", "u8", "varint">>, b, pos)
  IN  When(AllOk(g, 1..4) /\ g[1].val \in {0, 2},
           [k |-> "break", pos |-> g[2].val, seq |-> g[4].val])

\* A mutant of OnUseItemOn: the two flags after the cursor are not skipped.
OnUseItemOn_keeps_flags(b, pos) ==
  LET g == read_all(<<"varint", "i64", "varint", "f32", "f32", "f32", "varint">>, b, pos)
  IN  When(AllOk(g, 1..3) /\ g[7].ok,
           [k |-> "place", pos |-> g[2].val, face |-> g[3].val, seq |-> g[7].val])

\* The results of the reads that skip the cursor and the two flags are dropped.
OnUseItemOn(b, pos) ==
  LET g == read_all(<<"varint", "i64", "varint", "f32", "f32", "f32", "u8", "u8", "varint">>,
                    b, pos)
  IN  When(AllOk(g, 1..3) /\ g[9].ok,
           [k |-> "place", pos |-> g[2].val, face |-> g[3].val, seq |-> g[9].val])

OnSetCarriedItem(b, pos) ==
  LET slot == read("u16", b, pos)
  IN  When(slot.ok, [k |-> "carried", slot |-> slot.val])

\* A stack of an item, or an empty slot whatever follows.
OnSetCreativeSlot(b, pos) ==
  LET g == read_all(<<"u16", "varint", "varint">>, b, pos)
  IN  When(AllOk(g, 1..3) /\ g[2].val > 0, [k |-> "insert", slot |-> g[1].val, item |-> g[3].val])
      \cup When(AllOk(g, 1..2) /\ g[2].val <= 0, [k |-> "remove", slot |-> g[1].val])

\* A packet without an id, or with one the server does not know, is ignored.
handle(b) ==
  LET id == read_varint(b, 0)
  IN  IF ~id.ok THEN {} ELSE
      CASE id.val \in {S_MOVE_POS, S_MOVE_POS_ROT}  -> OnMove(b, id.pos)
        [] id.val = S_CHAT                          -> OnChat(b, id.pos)
        [] id.val = S_PLAYER_ACTION                 -> OnPlayerAction(b, id.pos)
        [] id.val = S_USE_ITEM_ON                   -> OnUseItemOn(b, id.pos)
        [] id.val = S_SET_CARRIED_ITEM              -> OnSetCarriedItem(b, id.pos)
        [] id.val = S_SET_CREATIVE_SLOT             -> OnSetCreativeSlot(b, id.pos)
        [] OTHER                                    -> {}

-----------------------------------------------------------------------------
send_system_chat(line) ==
  write_all(<<<<"varint", P_SYSTEM_CHAT>>, <<"bytes", write_network_string(line)>>,
              <<"bool", 0>>>>)
send_block_update(pos, state) ==
  write_all(<<<<"varint", P_BLOCK_UPDATE>>, <<"i64", pos>>, <<"varint", state>>>>)
send_block_ack(seq) == write_all(<<<<"varint", P_BLOCK_CHANGED_ACK>>, <<"varint", seq>>>>)

\* What the handlers write, but for the update of a placement: that depends on
\* the hotbar and the face, see Play and Position.
answer(e) ==
  CASE e.k = "chat"  -> <<send_system_chat(Prefix \o e.text)>>
    [] e.k = "break" -> <<send_block_update(e.pos, STATE_AIR), send_block_ack(e.seq)>>
    [] e.k = "place" -> <<send_block_ack(e.seq)>>
    [] OTHER         -> <<>>

-----------------------------------------------------------------------------
Stray == [k |-> "stray"]

Init ==
  /\ \/ meant \in Packets /\ body = write_all(client_fields_of(meant))
     \/ meant \in Files /\ body = save_rows(meant.rows)
     \/ meant = Stray /\ body \in Strays
  /\ cut = FALSE /\ done = FALSE /\ result = {} /\ reply = <<>>

\* The body ends early.
Cut ==
  /\ ~cut /\ ~done /\ meant.k # "stray" /\ cut' = TRUE
  /\ \E n \in 0 .. Len(body) - 1 : body' = SubSeq(body, 1, n)
  /\ UNCHANGED <<meant, done, result, reply>>

Load ==
  /\ ~done /\ meant.k = "file" /\ done' = TRUE
  /\ result' = load_rows(meant.n, body, 0)
  /\ UNCHANGED <<meant, body, cut, reply>>

Handle ==
  /\ ~done /\ meant.k # "file" /\ done' = TRUE
  /\ result' = handle(body)
  /\ reply' = IF result' = {} THEN <<>> ELSE answer(CHOOSE e \in result' : TRUE)
  /\ UNCHANGED <<meant, body, cut>>

Next == Cut \/ Load \/ Handle

Spec == Init /\ [][Next]_vars

-----------------------------------------------------------------------------
\* What play.rs is to do about a packet.
Effect(m) ==
  CASE m.k = "move"     -> {[k |-> "move", x |-> m.x, z |-> m.z]}
    [] m.k = "action"   -> When(m.status \in {0, 2}, [k |-> "break", pos |-> m.pos, seq |-> m.seq])
    [] m.k = "place"    -> {[k |-> "place", pos |-> m.pos, face |-> m.face, seq |-> m.seq]}
    [] m.k = "creative" -> {IF m.count > 0 THEN [k |-> "insert", slot |-> m.slot, item |-> m.item]
                            ELSE [k |-> "remove", slot |-> m.slot]}
    [] OTHER            -> {m}  \* a chat line, a selected slot

\* Every packet means to the server what the client meant, and every file its
\* rows: the readers take the fields in the order, and of the types and widths,
\* in which they were written, those that are skipped included.
DecodedAsMeant ==
  done /\ ~cut /\ meant.k # "stray" =>
    result = IF meant.k = "file" THEN meant.rows ELSE Effect(meant)

\* A packet cut short is ignored or, where only what is not read is missing,
\* handled as meant: no field is ever made of part of another.  There is one
\* exception: play.rs drops the results of the reads that skip the cursor and
\* the flags of a placement, so that a cut there can make the sequence number,
\* and nothing else, of what is left.
CutNeverMisread ==
  done /\ cut /\ meant.k # "file" =>
    \A e \in result :
      \/ e \in Effect(meant)
      \/ e.k = "place" /\ [e EXCEPT !.seq = meant.seq] \in Effect(meant)

\* A file that its writer left unfinished gives its whole rows, in order, and
\* nothing of the row that was cut: no edit at another place or of another
\* block, and no item that stands for another's block.
WholeRows ==
  done /\ cut /\ meant.k = "file" =>
    /\ IsPrefix(result, meant.rows)
    /\ LET whole == {n \in 0 .. Len(meant.rows) :
                       Len(save_rows(SubSeq(meant.rows, 1, n))) <= Len(body)}
       IN  Len(result) = CHOOSE n \in whole : \A m \in whole : m <= n

\* Whatever the bytes, read_varint stops within the longest encoding and
\* within the body, with an integer of its range or with an error: the body
\* ended, or the last byte that has room for payload still continues.
Bounded ==
  meant.k = "stray" =>
    LET r == read_varint(body, 0)
    IN  /\ r.pos <= MaxBytes /\ r.pos <= Len(body)
        /\ r.ok => r.val \in Signed
        /\ ~r.ok => /\ \A i \in 1 .. r.pos : continues(body[i])
                   /\ r.pos \in {Len(body), MaxBytes}
=============================================================================
