----------------------------- MODULE MCConsole ------------------------------
(* Two readers, of which one may take a line the other waits for, and reads *)
(* that are longer than the ring.                                           *)
EXTENDS Console, TLC

AnyReader == Permutations(Readers)
=============================================================================
