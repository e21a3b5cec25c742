----------------------------- MODULE PacketLink -----------------------------
(***************************************************************************)
(* What the send path promises: a packet is accepted only when the one     *)
(* before it has been sent to its last byte, and the bytes of a packet     *)
(* reach the device in order, each once.                                   *)
(***************************************************************************)
EXTENDS Naturals, Sequences

CONSTANT Packet     \* packets an application may send

VARIABLES rest,     \* bytes of the accepted packet the device has not taken
          taken     \* the bytes it has taken last

vars == <<rest, taken>>

Init == rest = <<>> /\ taken = <<>>

Accept(p) == /\ rest = <<>>
             /\ rest' = p
             /\ UNCHANGED taken

Transmit(k) == /\ taken' = SubSeq(rest, 1, k)
               /\ rest' = SubSeq(rest, k + 1, Len(rest))

Next == \/ \E p \in Packet : Accept(p)
        \/ \E k \in 0 .. Len(rest) : Transmit(k)

Spec == Init /\ [][Next]_vars
=============================================================================
