------------------------------ MODULE Messages ------------------------------
(***************************************************************************)
(* What the two ends of a control connection rely on, and what Streams and *)
(* AgentSessions assume: frames arrive whole, once and in the order in     *)
(* which their senders got through, until at some point nothing arrives    *)
(* any more.                                                               *)
(***************************************************************************)
EXTENDS Naturals, Sequences

VARIABLES sent, received

vars == <<sent, received>>

Init == sent = <<>> /\ received = <<>>

Send ==
    /\ Len(sent') = Len(sent) + 1
    /\ SubSeq(sent', 1, Len(sent)) = sent
    /\ UNCHANGED received

Receive ==
    /\ Len(received) < Len(sent)
    /\ received' = Append(received, sent[Len(received) + 1])
    /\ UNCHANGED sent

Next == Send \/ Receive

Spec == Init /\ [][Next]_vars
=============================================================================
