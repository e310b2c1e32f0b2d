----------------------------- MODULE StreamFifo -----------------------------
(***************************************************************************)
(* What a transmit stream promises its two ends: what the producer handed  *)
(* over reaches the client once each and in order; a stream that ends in   *)
(* good order has sent all of it; only a broken connection may lose a      *)
(* tail; and once the stream is closed the producer is not asked again.    *)
(***************************************************************************)
EXTENDS Naturals, Sequences

CONSTANT Message

VARIABLES in, out, state

fifo == <<in, out, state>>

Init == in = <<>> /\ out = <<>> /\ state = "open"

\* The producer hands over a message.
Accept(m) ==
    /\ state # "closed"
    /\ in' = Append(in, m)
    /\ UNCHANGED <<out, state>>

\* The client gets the next one.
Emit ==
    /\ state = "open" /\ Len(out) < Len(in)
    /\ out' = Append(out, in[Len(out) + 1])
    /\ UNCHANGED <<in, state>>

\* The connection breaks: nothing more is sent.
Break ==
    /\ state = "open" /\ state' = "broken"
    /\ UNCHANGED <<in, out>>

Close ==
    /\ state = "broken" \/ (state = "open" /\ out = in)
    /\ state' = "closed"
    /\ UNCHANGED <<in, out>>

Next == (\E m \in Message : Accept(m)) \/ Emit \/ Break \/ Close

Spec == Init /\ [][Next]_fifo
=============================================================================
