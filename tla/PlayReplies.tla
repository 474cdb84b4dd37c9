------------------------------ MODULE PlayReplies ------------------------------
(***************************************************************************)
(* The bodies that play.rs writes in answer to those of PlayPackets, as a  *)
(* client decodes them.                                                    *)
(***************************************************************************)
EXTENDS PlayPackets

\* The client's reading of an answer: it must take the whole body.
client_hears(b) ==
  LET id   == read_varint(b, 0)
      line == client_text(b, id.pos)
      flag == read("bool", b, line.pos)
      g    == read_all(<<"i64", "varint">>, b, id.pos)
      seq  == read_varint(b, id.pos)
  IN  CASE id.val = P_SYSTEM_CHAT ->
             When(line.ok /\ flag.ok /\ flag.pos = Len(b), [line |-> line.val])
        [] id.val = P_BLOCK_UPDATE ->
             When(AllOk(g, 1..2) /\ g[2].pos = Len(b), [pos |-> g[1].val, state |-> g[2].val])
        [] id.val = P_BLOCK_CHANGED_ACK ->
             When(seq.ok /\ seq.pos = Len(b), [seq |-> seq.val])

-----------------------------------------------------------------------------
\* The client hears its chat line again, with its name, and the update and the
\* acknowledgement of a break, and decodes each answer to its last byte.  Not
\* the lines that NBT cannot say as write_string says them: those longer than
\* a 16-bit length, and those with a character of four bytes in UTF-8.
ChatEchoed ==
  done /\ ~cut /\ meant.k # "file" =>
    LET heard == [i \in DOMAIN reply |-> client_hears(reply[i])]
    IN  \A e \in result :
          /\ e.k = "chat" =>
               LET line == Prefix \o e.text
                   fits == Len(line) < words[Width["u16"]] /\ ModifiedUtf8(line)
               IN  heard = <<When(fits, [line |-> [string |-> line]])>>
          /\ e.k = "break" => heard = <<{[pos |-> e.pos, state |-> STATE_AIR]}, {[seq |-> e.seq]}>>
          /\ e.k = "place" => heard = <<{[seq |-> e.seq]}>>
=============================================================================
