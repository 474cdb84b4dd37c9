--------------------------------- MODULE Framing ---------------------------------
(***************************************************************************)
(* read_frame and write_frame, crates/protocol/src/packet.rs, on one       *)
(* direction of a connection: a body is written after its length as a      *)
(* VarInt, TCP delivers the bytes in pieces of any size, and read_frame    *)
(* takes the length byte by byte and then exactly that many bytes.         *)
(*                                                                         *)
(* In the handshake, status, login and configuration states the server     *)
(* waits in a plain `read_frame().await` and Tick never happens.  handle() *)
(* in play.rs waits in tokio::select! against the keep-alive timer: when   *)
(* the timer wins, the unfinished read_frame is dropped with the bytes it  *)
(* had taken, and the next turn of the loop starts a new one.              *)
(***************************************************************************)
EXTENDS VarInt, SequencesExt

CONSTANTS
  Bodies,         \* packet bodies the peer sends
  MAX_FRAME_LEN,  \* longest body read_frame accepts
  MaxFrames       \* bound: frames sent in one behaviour

ASSUME BodiesAssumption ==
  \A b \in Bodies : b \in Seq(Byte) /\ Len(b) <= MAX_FRAME_LEN
ASSUME FrameLenAssumption == MAX_FRAME_LEN \in Nat /\ MAX_FRAME_LEN < RANGE \div 2

VARIABLES
  wire,    \* bytes written by the peer and not yet taken by the reader
  open,    \* the peer can still write
  phase,   \* where read_frame stands, or "failed" once it returned an error
  reader,  \* read_varint's locals
  need,    \* bytes of the body still to read
  buf,     \* bytes of the body read so far
  sent,    \* history: the bodies sent
  got,     \* the bodies read_frame returned
  lost,    \* history: the connection broke
  whole    \* history: bodies returned before a tick first cut a frame

vars == <<wire, open, phase, reader, need, buf, sent, got, lost, whole>>
local == <<phase, reader, need, buf>>
NotCut == -1  \* `whole` while no tick has fallen inside a frame

Init ==
  /\ wire = <<>> /\ open = TRUE
  /\ phase = "length" /\ reader = ReadStart /\ need = 0 /\ buf = <<>>
  /\ sent = <<>> /\ got = <<>> /\ lost = FALSE /\ whole = NotCut

-----------------------------------------------------------------------------
\* write_frame, at the peer.
WriteFrame(body) ==
  /\ open /\ Len(sent) < MaxFrames
  /\ wire' = wire \o write_varint(Len(body)) \o body
  /\ sent' = Append(sent, body)
  /\ UNCHANGED <<open, local, got, lost, whole>>

Close == open /\ open' = FALSE /\ UNCHANGED <<wire, local, sent, got, lost, whole>>

\* The connection breaks: any tail of what is under way never arrives.
Break ==
  /\ open /\ open' = FALSE /\ lost' = TRUE
  /\ \E n \in 0 .. Len(wire) : wire' = SubSeq(wire, 1, n)
  /\ UNCHANGED <<local, sent, got, whole>>

-----------------------------------------------------------------------------
Restart == phase' = "length" /\ reader' = ReadStart /\ need' = 0 /\ buf' = <<>>

Fail == phase' = "failed" /\ UNCHANGED <<reader, need, buf, got>>

\* A mutant of accepted: the longest frame is refused.
accepted_below_limit(n) == 0 <= n /\ n < MAX_FRAME_LEN

accepted(n) == 0 <= n /\ n <= MAX_FRAME_LEN

\* A mutant of ReadLength: an empty body waits for a byte like any other.
ReadLength_empty_waits ==
  /\ phase = "length" /\ wire # <<>> /\ wire' = Tail(wire)
  /\ LET b == Head(wire)
         r == take_byte(reader, b)
         n == as_signed(r.value)
     IN  \/ continues(b) /\ too_big(reader) /\ Fail
         \/ /\ continues(b) /\ ~too_big(reader)
            /\ reader' = r /\ UNCHANGED <<phase, need, buf, got>>
         \/ ~continues(b) /\ ~accepted(n) /\ Fail
         \/ /\ ~continues(b) /\ accepted(n)
            /\ phase' = "body" /\ need' = n
            /\ UNCHANGED <<reader, buf, got>>
  /\ UNCHANGED <<open, sent, lost, whole>>

\* read_varint takes one byte of the length; a whole length is checked, and a
\* body of no bytes is complete at once.
ReadLength ==
  /\ phase = "length" /\ wire # <<>> /\ wire' = Tail(wire)
  /\ LET b == Head(wire)
         r == take_byte(reader, b)
         n == as_signed(r.value)
     IN  \/ continues(b) /\ too_big(reader) /\ Fail
         \/ /\ continues(b) /\ ~too_big(reader)
            /\ reader' = r /\ UNCHANGED <<phase, need, buf, got>>
         \/ ~continues(b) /\ ~accepted(n) /\ Fail
         \/ /\ ~continues(b) /\ accepted(n) /\ n = 0
            /\ got' = Append(got, <<>>) /\ Restart
         \/ /\ ~continues(b) /\ accepted(n) /\ n > 0
            /\ phase' = "body" /\ need' = n
            /\ UNCHANGED <<reader, buf, got>>
  /\ UNCHANGED <<open, sent, lost, whole>>

\* A mutant of ReadBody: read instead of read_exact, one read is enough.
ReadBody_short ==
  /\ phase = "body"
  /\ \E n \in 1 .. Len(wire) :
       /\ n <= need
       /\ wire' = SubSeq(wire, n + 1, Len(wire))
       /\ got' = Append(got, buf \o SubSeq(wire, 1, n)) /\ Restart
  /\ UNCHANGED <<open, sent, lost, whole>>

\* read_exact takes what has arrived, and returns when it has all.
ReadBody ==
  /\ phase = "body"
  /\ \E n \in 1 .. Len(wire) :
       LET b == buf \o SubSeq(wire, 1, n) IN
       /\ n <= need
       /\ wire' = SubSeq(wire, n + 1, Len(wire))
       /\ \/ n = need /\ got' = Append(got, b) /\ Restart
          \/ /\ n < need /\ buf' = b /\ need' = need - n
             /\ UNCHANGED <<phase, reader, got>>
  /\ UNCHANGED <<open, sent, lost, whole>>

\* End of input: read_frame returns an error wherever it stands.
EndOfInput ==
  /\ ~open /\ wire = <<>> /\ phase # "failed"
  /\ Fail
  /\ UNCHANGED <<wire, open, sent, lost, whole>>

\* The reader has taken bytes of a frame it has not returned.
MidFrame == phase = "body" \/ reader # ReadStart

\* The keep-alive tick wins the select!: the unfinished read_frame is dropped.
Tick ==
  /\ phase # "failed"
  /\ Restart
  /\ whole' = IF MidFrame /\ whole = NotCut THEN Len(got) ELSE whole
  /\ UNCHANGED <<wire, open, sent, got, lost>>

Read == ReadLength \/ ReadBody \/ EndOfInput

Next ==
  \/ \E body \in Bodies : WriteFrame(body)
  \/ Close
  \/ Break
  \/ ReadLength
  \/ ReadBody
  \/ EndOfInput
  \/ Tick

Spec == Init /\ [][Next]_vars
FairSpec == Spec /\ WF_vars(Read)

-----------------------------------------------------------------------------
TypeOK ==
  /\ wire \in Seq(Byte) /\ buf \in Seq(Byte)
  /\ open \in BOOLEAN /\ lost \in BOOLEAN
  /\ phase \in {"length", "body", "failed"}
  /\ reader \in [value : Unsigned, weight : Nat \ {0}]
  /\ need \in 0 .. MAX_FRAME_LEN
  /\ phase = "body" => need > 0
  /\ phase = "length" => need = 0 /\ buf = <<>>
  /\ sent \in Seq(Bodies) /\ got \in Seq(Seq(Byte))
  /\ whole \in NotCut .. Len(got)

\* packet.rs:12-13 and :25: read_frame reads one complete packet body off the
\* stream.  What it has returned so far is what the peer sent first, body for
\* body.  A tick inside a frame refutes it.
FramesIntact == IsPrefix(got, sent)

\* However TCP cuts the bytes into pieces, and whatever ticks fall between two
\* frames, the reader is a reliable channel of whole packets, up to the first
\* tick that falls inside a frame.
Channel == INSTANCE FrameChannel
             WITH got <- IF whole = NotCut THEN got ELSE SubSeq(got, 1, whole)
ImplementsFrameChannel == Channel!Spec

\* Unless a tick fell inside a frame, the reader gives up only at the end of
\* input, with everything that was sent delivered if the connection did not
\* break: no byte that write_frame produced is taken for an impossible length.
NoFalseError ==
  phase = "failed" /\ whole = NotCut => ~open /\ (lost \/ got = sent)

\* Every frame written arrives, unless the connection breaks or a tick falls
\* inside a frame.
FramesArrive ==
  \A n \in 1 .. MaxFrames :
    Len(sent) >= n ~> (Len(got) >= n \/ lost \/ whole # NotCut)
=============================================================================
