------------------------------- MODULE Fifo -------------------------------
(***************************************************************************)
(* What the receive path promises to an application: a bounded             *)
(* first-in-first-out queue.  A byte that arrives while the queue has room *)
(* is kept; one that arrives while it is full is counted and lost; a byte  *)
(* handed to a thread is the oldest one kept, and it is handed out once.   *)
(***************************************************************************)
EXTENDS Naturals, Sequences

CONSTANTS Size,       \* capacity of the queue
          CounterMod, \* 2^w for the w bits of the counter of lost bytes
          Byte,       \* values of a received byte
          Thread      \* application threads

VARIABLES q,     \* the bytes kept, the oldest first
          lost,  \* bytes lost, modulo CounterMod
          got    \* the byte last handed to each thread

vars == <<q, lost, got>>

Init == /\ q = <<>>
        /\ lost = 0
        /\ got \in [Thread -> Byte]

Keep(b) == /\ Len(q) < Size
           /\ q' = Append(q, b)
           /\ UNCHANGED <<lost, got>>

Lose == /\ Len(q) = Size
        /\ lost' = (lost + 1) % CounterMod
        /\ UNCHANGED <<q, got>>

Take(t) == /\ q # <<>>
           /\ got' = [got EXCEPT ![t] = Head(q)]
           /\ q' = Tail(q)
           /\ UNCHANGED lost

Next == \/ \E b \in Byte : Keep(b)
        \/ Lose
        \/ \E t \in Thread : Take(t)

Spec == Init /\ [][Next]_vars
=============================================================================
