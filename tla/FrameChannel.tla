------------------------------ MODULE FrameChannel ------------------------------
(***************************************************************************)
(* What packet framing promises: whole packets, each once, in the order    *)
(* they were sent.                                                         *)
(***************************************************************************)
EXTENDS Naturals, Sequences

CONSTANT Bodies
VARIABLES sent, got

Init == sent = <<>> /\ got = <<>>

Send == (\E body \in Bodies : sent' = Append(sent, body)) /\ UNCHANGED got

Receive ==
  /\ Len(got) < Len(sent)
  /\ got' = Append(got, sent[Len(got) + 1])
  /\ UNCHANGED sent

Spec == Init /\ [][Send \/ Receive]_<<sent, got>>
=============================================================================
