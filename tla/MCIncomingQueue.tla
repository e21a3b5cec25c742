-------------------------- MODULE MCIncomingQueue --------------------------
(* Small instances of IncomingQueue: a ring of Size slots, packets that    *)
(* fill it and overflow it, and the counter of lost bytes wrapping.        *)
EXTENDS IncomingQueue, TLC

MCByte == {0, 1}

(* Bulk-in packets of a CDC device: up to two bytes.                       *)
MCPacket == {<<>>, <<0>>, <<1>>, <<0, 1>>}

(* Packets of an FTDI device: too short for a status word, a status word   *)
(* alone, and a status word with one or two bytes of data.                 *)
MCPacketFTDI == {<<>>, <<1>>, <<1, 1>>, <<1, 1, 0>>, <<1, 1, 0, 1>>}

Symmetric == Permutations(Thread)
=============================================================================
