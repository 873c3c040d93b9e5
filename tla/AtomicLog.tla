----------------------------- MODULE AtomicLog -----------------------------
(***************************************************************************)
(* What log.c promises to the file system: the updates of the operations   *)
(* since the last commit reach the disk all at once, only when no          *)
(* operation is active, and a crash loses them all or none.                *)
(***************************************************************************)
EXTENDS FiniteSets

CONSTANTS Procs, Blocks, Vals

VARIABLES
  durable,   \* the blocks that a reboot would find
  current,   \* the blocks that file system calls see
  active     \* the processes inside begin_op() ... end_op()

Init ==
  /\ durable \in [Blocks -> Vals]
  /\ current = durable
  /\ active = {}

Begin(p) ==
  /\ active' = active \cup {p}
  /\ UNCHANGED <<durable, current>>

Write(p, b, v) ==
  /\ p \in active
  /\ current' = [current EXCEPT ![b] = v]
  /\ UNCHANGED <<durable, active>>

End(p) ==
  /\ active' = active \ {p}
  /\ UNCHANGED <<durable, current>>

Commit ==
  /\ active = {}
  /\ durable' = current
  /\ UNCHANGED <<current, active>>

Crash ==
  /\ current' = durable
  /\ active' = {}
  /\ UNCHANGED durable

Next ==
  \/ Commit \/ Crash
  \/ \E p \in Procs : Begin(p) \/ End(p) \/ \E b \in Blocks, v \in Vals : Write(p, b, v)

Spec == Init /\ [][Next]_<<durable, current, active>>
=============================================================================
