----------------------------- MODULE MCContent ------------------------------
(* A file of up to three blocks, two of them indirect, that two programs    *)
(* have open, and a root directory beside it.                               *)
EXTENDS Content

TwoOpens == <<3, 3>>
SomeDots == <<1, 2>>
OneImage == {[f \in Files |-> <<7, 8, 8>>]}
SomeWrites == {<<7>>, <<8, 7, 7, 8>>}

\* No action depends on what the last read returned.
ResultForgotten == <<fs, off, rest>>
=============================================================================
