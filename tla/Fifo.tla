-------------------------------- MODULE Fifo --------------------------------
(***************************************************************************)
(* What an actor mailbox promises (spec.md 3, 4.1): a single FIFO queue.   *)
(* Any element may be put at the tail at any time; the consumer takes the *)
(* head.  `got` is the sequence of elements handed to the consumer.        *)
(***************************************************************************)
EXTENDS Sequences

CONSTANT Elem

VARIABLES q, got

Init == q = <<>> /\ got = <<>>

Put == \E x \in Elem : q' = Append(q, x) /\ UNCHANGED got

Get == /\ q # <<>>
       /\ q' = Tail(q)
       /\ got' = Append(got, Head(q))

Spec == Init /\ [][Put \/ Get]_<<q, got>>
=============================================================================
