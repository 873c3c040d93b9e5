-------------------------------- MODULE Fifo --------------------------------
(***************************************************************************)
(* What a pipe promises: a bounded queue of bytes.  A write appends bytes, *)
(* a read takes a prefix, and nothing else changes the queue.              *)
(***************************************************************************)
EXTENDS Naturals, Sequences

CONSTANTS Vals, Capacity, MaxWrite

VARIABLES q, got   \* the bytes in the pipe; the bytes the last read returned

Init == q = <<>> /\ got = <<>>

Put ==
  \E n \in 1..MaxWrite : \E bytes \in [1..n -> Vals] :
    /\ Len(q) + n <= Capacity
    /\ q' = q \o bytes
    /\ UNCHANGED got

Get ==
  \E n \in 0..Len(q) :
    /\ got' = SubSeq(q, 1, n)
    /\ q' = SubSeq(q, n + 1, Len(q))

Next == Put \/ Get

Spec == Init /\ [][Next]_<<q, got>>
=============================================================================
