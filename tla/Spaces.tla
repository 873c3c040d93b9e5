------------------------------- MODULE Spaces -------------------------------
(***************************************************************************)
(* What vm.c, exec.c, fork and sbrk promise a process: a private sequence  *)
(* of pages that changes only by its own stores, by sbrk, by a successful  *)
(* exec, and that a child receives as a copy.  A call that fails for want  *)
(* of memory leaves every space as it was.                                 *)
(***************************************************************************)
EXTENDS Naturals, Sequences

CONSTANTS Procs, Vals, Images   \* Images: what exec may load

VARIABLE space   \* per process its pages, <<>> while it does not exist

ZeroPage == [val |-> "zero", u |-> TRUE]
NoPage == [val |-> "none", u |-> FALSE]

Init == space = [p \in Procs |-> IF p = 1 THEN << [val |-> "init", u |-> TRUE] >> ELSE <<>>]

Store(p, i, v) ==
  /\ i \in DOMAIN space[p] /\ space[p][i].u
  /\ space' = [space EXCEPT ![p][i].val = v]

Grow(p, n) ==
  /\ space[p] # <<>>
  /\ space' = [space EXCEPT ![p] = @ \o [i \in 1..n |-> ZeroPage]]

Shrink(p, n) ==
  /\ space[p] # <<>>
  /\ space' = [space EXCEPT ![p] = SubSeq(@, 1, n)]

\* sbrk(-sz) gives every page back, the one with the program among them: the
\* process is left without memory and can only be killed.
Vanish(p) == space' = [space EXCEPT ![p] = [i \in DOMAIN @ |-> NoPage]]

Load(p, image) == space[p] # <<>> /\ space' = [space EXCEPT ![p] = image]

Clone(p, q) ==
  /\ space[p] # <<>> /\ space[q] = <<>>
  /\ space' = [space EXCEPT ![q] = space[p]]

Drop(q) == q # 1 /\ space' = [space EXCEPT ![q] = <<>>]

Next ==
  /\ space' # space
  /\ \E p \in Procs :
       \/ \E i \in DOMAIN space[p], v \in Vals : Store(p, i, v)
       \/ Grow(p, 1) \/ \E n \in DOMAIN space[p] : Shrink(p, n)
       \/ Vanish(p) \/ Drop(p)
       \/ \E image \in Images : Load(p, image)
       \/ \E q \in Procs : Clone(p, q)

Spec == Init /\ [][Next]_space
=============================================================================
