----------------------------- MODULE ProcProofs -----------------------------
(***************************************************************************)
(* Machine-checked proofs about the process table, for every number of     *)
(* slots, CPUs, containers and pids: the types, the lock discipline of the *)
(* schedulers and the slots of fork().                                     *)
(***************************************************************************)
EXTENDS Proc, TLAPS

\* The type invariant is not inductive alone: the step of destroyContainer's
\* loop after kill() stays in the table because its index names a slot.
TypeInv ==
  /\ TypeOK
  /\ \A p \in Procs : pc[p] = "kill" => loc[p].idx \in Procs

\* The round of scheduler() stays inside the container table.
LEMMA NextContainerType ==
  ASSUME TypeOK, NEW c \in CPUs, NextContainer(c)
  PROVE  con' \in [CPUs -> Cont]
<1>1. \A x \in Cont : (x + 1) % NCONT \in Cont
  BY ProcConstants DEF Cont
<1> QED BY <1>1 DEF NextContainer, TypeOK

\* What the steps need to know of the ranges.
LEMMA Ranges ==
  /\ NULL \notin Procs /\ NULL \notin CPUs /\ IoChan \notin Procs
  /\ initproc \in Procs
  /\ 0 \in Cont /\ NULL = 0
  /\ 1 \in 1..(NPROC + 1)
  /\ \A q \in Procs : q \in 1..(NPROC + 1) /\ q + 1 \in 1..(NPROC + 1)
  /\ JoinIds \subseteq Cont /\ DestroyIds \subseteq Cont
  /\ NoLocals \in Locals
  BY ProcConstants DEF NULL, Procs, CPUs, Cont, IoChan, initproc, NoLocals, Locals

\* The assignments to the locals of fork and destroyContainer keep their types.
LEMMA LocalsType ==
  ASSUME TypeOK, NEW p \in Procs
  PROVE  /\ \A x \in Procs \cup {NULL} : [loc EXCEPT ![p].np = x] \in [Procs -> Locals]
         /\ \A x \in Cont : [loc EXCEPT ![p].id = x] \in [Procs -> Locals]
         /\ \A x \in 1..(NPROC + 1) : [loc EXCEPT ![p].idx = x] \in [Procs -> Locals]
         /\ \A x \in 1..(NPROC + 1), y \in Nat :
               [loc EXCEPT ![p].idx = x, ![p].pid = y] \in [Procs -> Locals]
<1>0. loc \in [Procs -> Locals]
  BY DEF TypeOK
<1>1. \A x \in Procs \cup {NULL} : [loc EXCEPT ![p].np = x] \in [Procs -> Locals]
  BY <1>0 DEF Locals
<1>2. \A x \in Cont : [loc EXCEPT ![p].id = x] \in [Procs -> Locals]
  BY <1>0 DEF Locals
<1>3. \A x \in 1..(NPROC + 1) : [loc EXCEPT ![p].idx = x] \in [Procs -> Locals]
  BY <1>0 DEF Locals
<1>4. ASSUME NEW x \in 1..(NPROC + 1), NEW y \in Nat
      PROVE  [loc EXCEPT ![p].idx = x, ![p].pid = y] \in [Procs -> Locals]
  <2>1. [loc[p] EXCEPT !.idx = x, !.pid = y] \in Locals
    BY <1>0 DEF Locals
  <2>2. [loc EXCEPT ![p].idx = x, ![p].pid = y]
          = [loc EXCEPT ![p] = [loc[p] EXCEPT !.idx = x, !.pid = y]]
    BY <1>0 DEF Locals
  <2> QED BY <1>0, <2>1, <2>2
<1> QED BY <1>1, <1>2, <1>3, <1>4

\* "nextpid++" gives a number.
LEMMA TakePidType ==
  ASSUME TypeOK, NEW np \in Procs, takePid(np)
  PROVE  pid' \in [Procs -> Nat] /\ nextpid' \in Nat
<1>1. pid \in [Procs -> Nat] /\ nextpid \in Nat
  BY DEF TypeOK
<1>2. pid' = [pid EXCEPT ![np] = nextpid] /\ nextpid' = nextpid + 1
  BY DEF takePid
<1> QED BY <1>1, <1>2

\* kill() keeps the types, whether or not it finds the pid.
LEMMA KillType ==
  ASSUME TypeOK, NEW pd, killPid(pd)
  PROVE  /\ state' \in [Procs -> ProcStates]
         /\ killed' \in [Procs -> BOOLEAN]
         /\ containerID' \in [Procs -> Cont]
<1>1. CASE UNCHANGED <<killed, containerID, state>>
  BY <1>1 DEF TypeOK
<1>2. ASSUME NEW q \in Procs, killSlot(q)
      PROVE  /\ state' \in [Procs -> ProcStates]
             /\ killed' \in [Procs -> BOOLEAN]
             /\ containerID' \in [Procs -> Cont]
  BY <1>2, Ranges DEF TypeOK, killSlot, ProcStates
<1> QED BY <1>1, <1>2 DEF killPid

\* Every step keeps the types.
LEMMA TypeStep ==
  ASSUME TypeInv, Next
  PROVE  TypeInv'
<1> USE Ranges DEF ProcStates, Labels
<1>1. ASSUME NEW c \in CPUs, NEW p \in Procs, SchedulerSkip(c)
      PROVE  TypeInv'
  BY <1>1, NextContainerType DEF TypeInv, TypeOK, table, ctab, cpus, local, SchedulerSkip
<1>2. ASSUME NEW c \in CPUs, NEW p \in Procs, SchedulerAcquire(c)
      PROVE  TypeInv'
  BY <1>2 DEF TypeInv, TypeOK, table, ctab, cpus, local, SchedulerAcquire
<1>3. ASSUME NEW c \in CPUs, NEW p \in Procs, SchedulerRelease(c)
      PROVE  TypeInv'
  BY <1>3, NextContainerType DEF TypeInv, TypeOK, table, ctab, cpus, local, SchedulerRelease
<1>4. ASSUME NEW c \in CPUs, NEW p \in Procs, SchedulerRun(c, p)
      PROVE  TypeInv'
  BY <1>4 DEF TypeInv, TypeOK, table, ctab, cpus, local, SchedulerRun
<1>5. ASSUME NEW c \in CPUs, NEW p \in Procs, initExits(c)
      PROVE  TypeInv'
  BY <1>5 DEF TypeInv, TypeOK, table, ctab, cpus, local, initExits
<1>6. ASSUME NEW c \in CPUs, NEW p \in Procs, Resume(c, p)
      PROVE  TypeInv'
  <2>1. CASE pc[p] = "sleep"
    <3>1. TypeOK'
      <4>1. /\ lock' = NULL /\ phase' = [phase EXCEPT ![c] = "run"]
            /\ chan' = [chan EXCEPT ![p] = NULL] /\ pc' = [pc EXCEPT ![p] = "again"]
        BY <1>6, <2>1 DEF Resume, goto
      <4>2. /\ chan' \in [Procs -> Procs \cup {NULL, IoChan}]
            /\ pc' \in [Procs -> Labels] /\ lock' \in CPUs \cup {NULL}
            /\ phase' \in [CPUs -> {"loop", "scan", "resume", "run", "acquire",
                                    "init exiting"}]
        BY <4>1 DEF TypeInv, TypeOK, Labels
      <4> QED BY <1>6, <4>2 DEF TypeInv, TypeOK, Resume, ctab
    <3>2. \A r \in Procs : pc'[r] = "kill" => loc'[r].idx \in Procs
      <4>1. pc' = [pc EXCEPT ![p] = "again"] /\ loc' = loc
        BY <1>6, <2>1 DEF Resume, goto
      <4>2. pc \in [Procs -> Labels]
        BY DEF TypeInv, TypeOK
      <4> QED BY <4>1, <4>2 DEF TypeInv
    <3> QED BY <3>1, <3>2 DEF TypeInv
  <2>2. CASE pc[p] # "sleep"
    BY <1>6, <2>2 DEF TypeInv, TypeOK, table, ctab, cpus, local, Resume
  <2> QED BY <2>1, <2>2
<1>7. ASSUME NEW c \in CPUs, NEW p \in Procs, syscall(c, p)
      PROVE  TypeInv'
  BY <1>7 DEF TypeInv, TypeOK, table, ctab, cpus, local, syscall, goto
<1>8. ASSUME NEW c \in CPUs, NEW p \in Procs, sysret(c, p)
      PROVE  TypeInv'
  BY <1>8 DEF TypeInv, TypeOK, table, ctab, cpus, local, sysret, goto
<1>9. ASSUME NEW c \in CPUs, NEW p \in Procs, yield(c, p)
      PROVE  TypeInv'
  BY <1>9 DEF TypeInv, TypeOK, table, ctab, cpus, local, yield, sched, Acquires, Runs
<1>10. ASSUME NEW c \in CPUs, NEW p \in Procs, exit(c, p)
      PROVE  TypeInv'
  BY <1>10 DEF TypeInv, TypeOK, table, ctab, cpus, local, exit, sched, wakeup1, passChildren
<1>11. ASSUME NEW c \in CPUs, NEW p \in Procs, NEW np \in Procs, allocproc(c, p, np)
      PROVE  TypeInv'
  <2>1. loc' \in [Procs -> Locals]
    BY <1>11, LocalsType DEF TypeInv, TypeOK, allocproc
  <2>2. TypeOK'
    <3>1. pid' \in [Procs -> Nat] /\ nextpid' \in Nat
      BY <1>11, TakePidType DEF TypeInv, allocproc
    <3>2. /\ state' \in [Procs -> ProcStates]
          /\ containerID' \in [Procs -> Cont]
          /\ pc' \in [Procs -> Labels]
      BY <1>11 DEF TypeInv, TypeOK, allocproc, goto
    <3> QED BY <1>11, <2>1, <3>1, <3>2
            DEF TypeInv, TypeOK, ctab, cpus, allocproc
  <2>3. \A r \in Procs : pc'[r] = "kill" => loc'[r].idx \in Procs
    <3>1. pc'[p] # "kill"
      BY <1>11 DEF TypeInv, TypeOK, allocproc, goto
    <3>2. \A r \in Procs \ {p} : pc'[r] = pc[r] /\ loc'[r] = loc[r]
      BY <1>11 DEF TypeInv, TypeOK, allocproc, goto
    <3> QED BY <3>1, <3>2 DEF TypeInv
  <2> QED BY <2>2, <2>3 DEF TypeInv
<1>12. ASSUME NEW c \in CPUs, NEW p \in Procs, forkFail(c, p)
      PROVE  TypeInv'
  <2>1. loc' \in [Procs -> Locals]
    BY <1>12, LocalsType DEF TypeInv, TypeOK, forkFail
  <2> QED BY <1>12, <2>1 DEF TypeInv, TypeOK, table, ctab, cpus, local, forkFail, goto
<1>13. ASSUME NEW c \in CPUs, NEW p \in Procs, forkCopy(c, p)
      PROVE  TypeInv'
  BY <1>13 DEF TypeInv, TypeOK, table, ctab, cpus, local, forkCopy, goto
<1>14. ASSUME NEW c \in CPUs, NEW p \in Procs, forkDone(c, p)
      PROVE  TypeInv'
  <2>1. loc' \in [Procs -> Locals]
    BY <1>14, LocalsType DEF TypeInv, TypeOK, forkDone
  <2> QED BY <1>14, <2>1 DEF TypeInv, TypeOK, table, ctab, cpus, local, forkDone
<1>15. ASSUME NEW c \in CPUs, NEW p \in Procs, NEW q \in Procs, waitReap(c, p, q)
      PROVE  TypeInv'
  BY <1>15 DEF TypeInv, TypeOK, table, ctab, cpus, local, waitReap, LeaveWait, goto
<1>16. ASSUME NEW c \in CPUs, NEW p \in Procs, waitFail(c, p)
      PROVE  TypeInv'
  BY <1>16 DEF TypeInv, TypeOK, table, ctab, cpus, local, waitFail, LeaveWait, goto
<1>17. ASSUME NEW c \in CPUs, NEW p \in Procs, waitSleep(c, p)
      PROVE  TypeInv'
  BY <1>17 DEF TypeInv, TypeOK, table, ctab, cpus, local, waitSleep, sched, goto
<1>18. ASSUME NEW c \in CPUs, NEW p \in Procs, destroyContainer(c, p)
      PROVE  TypeInv'
  <2>1. loc' \in [Procs -> Locals]
    BY <1>18, LocalsType DEF TypeInv, TypeOK, destroyContainer
  <2> QED BY <1>18, <2>1 DEF TypeInv, TypeOK, table, ctab, cpus, local, destroyContainer, goto
<1>19. ASSUME NEW c \in CPUs, NEW p \in Procs, NEW q \in Procs, destroyFind(c, p, q)
      PROVE  TypeInv'
  <2>1. loc' \in [Procs -> Locals]
    BY <1>19, LocalsType DEF TypeInv, TypeOK, destroyFind
  <2>2. TypeOK'
    BY <1>19, <2>1 DEF TypeInv, TypeOK, table, ctab, cpus, local, destroyFind, goto
  <2>3. \A r \in Procs : pc'[r] = "kill" => loc'[r].idx \in Procs
    <3>1. loc'[p].idx = q
      <4>1. loc' = [loc EXCEPT ![p].idx = q, ![p].pid = pid[q]]
        BY <1>19 DEF destroyFind
      <4>2. loc \in [Procs -> Locals]
        BY DEF TypeInv, TypeOK
      <4> QED BY <4>1, <4>2 DEF Locals
    <3>2. \A r \in Procs \ {p} : pc'[r] = pc[r] /\ loc'[r] = loc[r]
      BY <1>19 DEF TypeInv, TypeOK, destroyFind, goto
    <3> QED BY <3>1, <3>2 DEF TypeInv
  <2> QED BY <2>2, <2>3 DEF TypeInv
<1>20. ASSUME NEW c \in CPUs, NEW p \in Procs, destroyKill(c, p)
      PROVE  TypeInv'
  <2>1. loc[p].idx + 1 \in 1..(NPROC + 1)
    BY <1>20 DEF TypeInv, destroyKill
  <2>2. loc' = [loc EXCEPT ![p].idx = loc[p].idx + 1, ![p].pid = 0]
    BY <1>20 DEF TypeInv, TypeOK, Locals, destroyKill
  <2>3. loc' \in [Procs -> Locals]
    BY <2>1, <2>2, LocalsType DEF TypeInv
  <2>4. pc' = [pc EXCEPT ![p] = "scan"] /\ pc \in [Procs -> Labels]
    BY <1>20 DEF TypeInv, TypeOK, destroyKill, goto
  <2>5. \A r \in Procs \ {p} : pc'[r] = pc[r] /\ loc'[r] = loc[r]
    BY <2>2, <2>4 DEF TypeInv, TypeOK
  <2>6. \A r \in Procs : pc'[r] = "kill" => loc'[r].idx \in Procs
    BY <2>4, <2>5 DEF TypeInv
  <2>7. /\ state' \in [Procs -> ProcStates] /\ killed' \in [Procs -> BOOLEAN]
        /\ containerID' \in [Procs -> Cont]
    BY <1>20, KillType DEF TypeInv, destroyKill
  <2>8. pc' \in [Procs -> Labels]
    BY <2>4 DEF Labels
  <2> QED BY <1>20, <2>3, <2>6, <2>7, <2>8 DEF TypeInv, TypeOK, ctab, cpus, destroyKill
<1>21. ASSUME NEW c \in CPUs, NEW p \in Procs, destroyEnd(c, p)
      PROVE  TypeInv'
  BY <1>21 DEF TypeInv, TypeOK, table, ctab, cpus, local, destroyEnd, goto
<1>22. ASSUME NEW c \in CPUs, NEW p \in Procs, testKilled(c, p)
      PROVE  TypeInv'
  BY <1>22 DEF TypeInv, TypeOK, table, ctab, cpus, local, testKilled, goto
<1>23. ASSUME NEW c \in CPUs, NEW p \in Procs, sleep(c, p)
      PROVE  TypeInv'
  BY <1>23 DEF TypeInv, TypeOK, table, ctab, cpus, local, sleep, sched, goto
<1>24. ASSUME NEW c \in CPUs, NEW p \in Procs, NEW pd \in KillPids, sys_kill(c, p, pd)
      PROVE  TypeInv'
  BY <1>24, KillType DEF TypeInv, TypeOK, table, ctab, cpus, local, sys_kill, goto
<1>25. ASSUME NEW c \in CPUs, NEW p \in Procs, NEW id \in Cont, createContainer(c, p, id)
      PROVE  TypeInv'
  BY <1>25 DEF TypeInv, TypeOK, table, ctab, cpus, local, createContainer, goto
<1>26. ASSUME NEW c \in CPUs, NEW p \in Procs, NEW id \in JoinIds, setContainer(c, p, id)
      PROVE  TypeInv'
  BY <1>26 DEF TypeInv, TypeOK, table, ctab, cpus, local, setContainer, goto
<1>27. ASSUME NEW c \in CPUs, NEW p \in Procs, NEW id \in DestroyIds, sys_destroy_container(c, p, id)
      PROVE  TypeInv'
  <2>1. loc' \in [Procs -> Locals]
    BY <1>27, LocalsType DEF TypeInv, TypeOK, sys_destroy_container
  <2> QED BY <1>27, <2>1 DEF TypeInv, TypeOK, table, ctab, cpus, local, sys_destroy_container, goto
<1>28. ASSUME NEW c \in CPUs, NEW p \in Procs, listContainers(c, p)
      PROVE  TypeInv'
  BY <1>28 DEF TypeInv, TypeOK, table, ctab, cpus, local, listContainers, goto
<1>29. ASSUME NEW c \in CPUs, NEW p \in Procs, acquirePanic(c, p)
      PROVE  TypeInv'
  BY <1>29 DEF TypeInv, TypeOK, table, ctab, cpus, local, acquirePanic
<1>30. CASE wakeup
  BY <1>30 DEF TypeInv, TypeOK, table, ctab, cpus, local, wakeup, wakeup1
<1> QED
  BY <1>1, <1>2, <1>3, <1>4, <1>5, <1>6, <1>7, <1>8, <1>9, <1>10, <1>11, <1>12, <1>13, <1>14, <1>15, <1>16, <1>17, <1>18, <1>19, <1>20, <1>21, <1>22, <1>23, <1>24, <1>25, <1>26, <1>27, <1>28, <1>29, <1>30
  DEF Next, Scheduler, Process, Fork, Wait, Destroy

\* Every field of the tables, the CPUs and the kernel stacks stays in its
\* range, in every behaviour and for every size of the tables.
THEOREM TypeCorrect == Spec => []TypeOK
<1>1. Init => TypeInv
  <2>1. 1 \in Nat /\ 2 \in Nat /\ 0 \in Nat
    OBVIOUS
  <2> QED BY <2>1, Ranges DEF Init, TypeInv, TypeOK, ProcStates, Labels
<1>2. TypeInv /\ UNCHANGED vars => TypeInv'
  BY DEF TypeInv, TypeOK, vars, table, ctab, cpus, local
<1>3. TypeInv => TypeOK
  BY DEF TypeInv
<1> QED BY <1>1, <1>2, <1>3, TypeStep, PTL DEF Spec

-----------------------------------------------------------------------------
(* The lock discipline of the schedulers, and fork() *)

\* The lock discipline of scheduler() and sched(): a CPU that scans the table
\* or has just switched to a process holds ptable.lock, and mycpu()->proc is
\* set exactly while the CPU is out of its scheduler loop.
CpuInv ==
  /\ \A c \in CPUs : phase[c] \in {"scan", "resume"} => lock = c
  /\ \A c \in CPUs : cproc[c] = NULL <=> phase[c] \in {"loop", "scan"}
  /\ OneCpuPerProcess

\* Only a process that is alive is in the middle of a system call, and one in
\* fork() holds a slot.
ForkInv ==
  /\ \A p \in Procs : state[p] \in {"UNUSED", "EMBRYO", "ZOMBIE"} => pc[p] = "user"
  /\ \A p \in Procs : pc[p] \in {"fork", "fork2"} => loc[p].np \in Procs
  /\ EmbryoPrivate

\* The types the scheduler's invariant needs.
LEMMA CpuTypes ==
  ASSUME TypeOK
  PROVE  /\ state \in [Procs -> ProcStates]
         /\ lock \in CPUs \cup {NULL}
         /\ DOMAIN phase = CPUs /\ phase = [c \in CPUs |-> phase[c]]
         /\ cproc \in [CPUs -> Procs \cup {NULL}]
         /\ NULL \notin Procs /\ NULL \notin CPUs
  BY Ranges DEF TypeOK

\* A step on the table that neither starts nor stops a process.
LEMMA CpuKeep ==
  ASSUME CpuInv, UNCHANGED <<lock, phase, cproc>>,
         \A q \in Procs : state'[q] = "RUNNING" <=> state[q] = "RUNNING"
  PROVE  CpuInv'
  BY DEF CpuInv, OneCpuPerProcess

\* A step of one CPU that keeps its process and takes, keeps or releases the
\* lock.
LEMMA CpuPhase ==
  ASSUME TypeOK, CpuInv, NEW c \in CPUs, NEW l, UNCHANGED cproc,
         phase' = [phase EXCEPT ![c] = l],
         l \in {"loop", "scan"} <=> phase[c] \in {"loop", "scan"},
         l \in {"scan", "resume"} => lock' = c,
         lock' = lock \/ (lock \in {NULL, c} /\ lock' \in {NULL, c}),
         \A q \in Procs : state'[q] = "RUNNING" <=> state[q] = "RUNNING"
  PROVE  CpuInv'
<1>1. phase'[c] = l /\ \A d \in CPUs \ {c} : phase'[d] = phase[d]
  BY CpuTypes
<1>2. \A d \in CPUs : phase'[d] \in {"scan", "resume"} => lock' = d
  BY <1>1, CpuTypes DEF CpuInv
<1>3. \A d \in CPUs : cproc'[d] = NULL <=> phase'[d] \in {"loop", "scan"}
  BY <1>1 DEF CpuInv
<1>4. OneCpuPerProcess'
  BY DEF CpuInv, OneCpuPerProcess
<1> QED BY <1>2, <1>3, <1>4 DEF CpuInv

\* The scheduler starts process p on c.
LEMMA CpuStart ==
  ASSUME TypeOK, CpuInv, NEW c \in CPUs, NEW p \in Procs, SchedulerRun(c, p)
  PROVE  CpuInv'
<1>1. /\ cproc[c] = NULL /\ lock = c
      /\ \A d \in CPUs : cproc[d] # p
  BY DEF CpuInv, OneCpuPerProcess, SchedulerRun, Eligible
<1>2. /\ cproc'[c] = p /\ \A d \in CPUs \ {c} : cproc'[d] = cproc[d]
      /\ phase'[c] = "resume" /\ \A d \in CPUs \ {c} : phase'[d] = phase[d]
      /\ state'[p] = "RUNNING" /\ \A q \in Procs \ {p} : state'[q] = state[q]
      /\ lock' = lock
  BY CpuTypes DEF SchedulerRun
<1>3. \A d \in CPUs : phase'[d] \in {"scan", "resume"} => lock' = d
  BY <1>1, <1>2 DEF CpuInv
<1>4. \A d \in CPUs : cproc'[d] = NULL <=> phase'[d] \in {"loop", "scan"}
  BY <1>2, CpuTypes DEF CpuInv
<1>5. \A q \in Procs : state'[q] = "RUNNING" <=> \E d \in CPUs : cproc'[d] = q
  BY <1>1, <1>2, CpuTypes DEF CpuInv, OneCpuPerProcess
<1>6. \A d, e \in CPUs : d # e /\ cproc'[d] = cproc'[e] => cproc'[d] = NULL
  BY <1>1, <1>2 DEF CpuInv, OneCpuPerProcess
<1> QED BY <1>3, <1>4, <1>5, <1>6 DEF CpuInv, OneCpuPerProcess

\* Process p gives up CPU c with ptable.lock held (sched).
LEMMA CpuStop ==
  ASSUME TypeOK, CpuInv, NEW c \in CPUs, NEW p \in Procs,
         cproc[c] = p, lock \in {NULL, c}, sched(c),
         state'[p] # "RUNNING",
         \A q \in Procs \ {p} : state'[q] = "RUNNING" <=> state[q] = "RUNNING"
  PROVE  CpuInv'
<1>1. /\ cproc'[c] = NULL /\ \A d \in CPUs \ {c} : cproc'[d] = cproc[d]
      /\ phase'[c] = "scan" /\ \A d \in CPUs \ {c} : phase'[d] = phase[d]
      /\ lock' = c
  BY CpuTypes DEF sched
<1>2. \A d \in CPUs \ {c} : cproc[d] # p
  BY CpuTypes DEF CpuInv, OneCpuPerProcess
<1>3. \A d \in CPUs : phase'[d] \in {"scan", "resume"} => lock' = d
  BY <1>1, CpuTypes DEF CpuInv
<1>4. \A d \in CPUs : cproc'[d] = NULL <=> phase'[d] \in {"loop", "scan"}
  BY <1>1 DEF CpuInv
<1>5. \A q \in Procs : state'[q] = "RUNNING" <=> \E d \in CPUs : cproc'[d] = q
  BY <1>1, <1>2, CpuTypes DEF CpuInv, OneCpuPerProcess
<1>6. \A d, e \in CPUs : d # e /\ cproc'[d] = cproc'[e] => cproc'[d] = NULL
  BY <1>1 DEF CpuInv, OneCpuPerProcess
<1> QED BY <1>3, <1>4, <1>5, <1>6 DEF CpuInv, OneCpuPerProcess

\* No wakeup and no kill() starts or stops a process: each only makes
\* sleeping processes RUNNABLE.
LEMMA WakesOnly ==
  ASSUME TypeOK
  PROVE  /\ \A chs : wakeup1(chs) \in [Procs -> ProcStates]
         /\ \A chs : \A q \in Procs :
               \/ wakeup1(chs)[q] = state[q]
               \/ state[q] = "SLEEPING" /\ wakeup1(chs)[q] = "RUNNABLE"
         /\ \A pd : killPid(pd) => \A q \in Procs :
               \/ state'[q] = state[q]
               \/ state[q] = "SLEEPING" /\ state'[q] = "RUNNABLE"
<1>1. ASSUME NEW chs, NEW q \in Procs
      PROVE  \/ wakeup1(chs)[q] = state[q]
             \/ state[q] = "SLEEPING" /\ wakeup1(chs)[q] = "RUNNABLE"
  BY DEF wakeup1
<1>2. ASSUME NEW pd, killPid(pd), NEW q \in Procs
      PROVE  \/ state'[q] = state[q]
             \/ state[q] = "SLEEPING" /\ state'[q] = "RUNNABLE"
  <2>1. CASE \E r \in Procs : killSlot(r)
    BY <2>1, CpuTypes DEF killSlot
  <2> QED BY <1>2, <2>1 DEF killPid
<1>3. \A chs : wakeup1(chs) \in [Procs -> ProcStates]
  BY CpuTypes DEF wakeup1, ProcStates
<1> QED BY <1>1, <1>2, <1>3

\* The slot a process in fork() works on is an EMBRYO.
LEMMA MakesEmbryo ==
  ASSUME ForkInv, NEW p \in Procs, pc[p] \in {"fork", "fork2"}
  PROVE  loc[p].np \in Procs /\ state[loc[p].np] = "EMBRYO"
  BY DEF ForkInv, EmbryoPrivate, Makes

\* Every step keeps the lock discipline and runs each process on one CPU.
LEMMA CpuStep ==
  ASSUME TypeOK, CpuInv, ForkInv, Next
  PROVE  CpuInv'
<1>1. ASSUME UNCHANGED <<state, lock, phase, cproc>>
      PROVE  CpuInv'
  BY <1>1 DEF CpuInv, OneCpuPerProcess
<1>2. ASSUME NEW c \in CPUs, NEW p \in Procs, SchedulerSkip(c)
      PROVE  CpuInv'
  BY <1>1, <1>2 DEF SchedulerSkip, table, ctab, cpus, local
<1>3. ASSUME NEW c \in CPUs, NEW p \in Procs, SchedulerAcquire(c)
      PROVE  CpuInv'
  BY <1>3, CpuPhase, CpuTypes DEF CpuInv, SchedulerAcquire, table
<1>4. ASSUME NEW c \in CPUs, NEW p \in Procs, SchedulerRelease(c)
      PROVE  CpuInv'
  BY <1>4, CpuPhase, CpuTypes DEF CpuInv, SchedulerRelease, table
<1>5. ASSUME NEW c \in CPUs, NEW p \in Procs, SchedulerRun(c, p)
      PROVE  CpuInv'
  BY <1>5, CpuStart
<1>6. ASSUME NEW c \in CPUs, NEW p \in Procs, initExits(c)
      PROVE  CpuInv'
  BY <1>6, CpuPhase, CpuTypes DEF CpuInv, initExits, Runs, table
<1>7. ASSUME NEW c \in CPUs, NEW p \in Procs, Resume(c, p)
      PROVE  CpuInv'
  BY <1>7, CpuPhase, CpuTypes DEF CpuInv, Resume
<1>8. ASSUME NEW c \in CPUs, NEW p \in Procs, syscall(c, p)
      PROVE  CpuInv'
  BY <1>1, <1>8 DEF syscall, table, ctab, cpus, local
<1>9. ASSUME NEW c \in CPUs, NEW p \in Procs, sysret(c, p)
      PROVE  CpuInv'
  BY <1>1, <1>9 DEF sysret, table, ctab, cpus, local
<1>10. ASSUME NEW c \in CPUs, NEW p \in Procs, yield(c, p)
      PROVE  CpuInv'
  <2>1. /\ state'[p] # "RUNNING"
        /\ \A r \in Procs \ {p} : state'[r] = "RUNNING" <=> state[r] = "RUNNING"
    BY <1>10, CpuTypes DEF yield
  <2>2. cproc[c] = p /\ lock \in {NULL, c} /\ sched(c)
    BY <1>10 DEF CpuInv, yield, Acquires, Runs
  <2> QED BY <2>1, <2>2, CpuStop
<1>11. ASSUME NEW c \in CPUs, NEW p \in Procs, exit(c, p)
      PROVE  CpuInv'
  <2>1. /\ state'[p] # "RUNNING"
        /\ \A r \in Procs \ {p} : state'[r] = "RUNNING" <=> state[r] = "RUNNING"
    BY <1>11, CpuTypes, WakesOnly DEF exit
  <2>2. cproc[c] = p /\ lock \in {NULL, c} /\ sched(c)
    BY <1>11 DEF CpuInv, exit, Acquires, Runs
  <2> QED BY <2>1, <2>2, CpuStop
<1>12. ASSUME NEW c \in CPUs, NEW p \in Procs, NEW np \in Procs, allocproc(c, p, np)
      PROVE  CpuInv'
  <2>1. \A r \in Procs : state'[r] = "RUNNING" <=> state[r] = "RUNNING"
    BY <1>12, CpuTypes DEF allocproc, FirstUnused
  <2> QED BY <1>12, <2>1, CpuKeep DEF cpus, allocproc
<1>13. ASSUME NEW c \in CPUs, NEW p \in Procs, forkFail(c, p)
      PROVE  CpuInv'
  <2>1. \A r \in Procs : state'[r] = "RUNNING" <=> state[r] = "RUNNING"
    BY <1>13, CpuTypes, MakesEmbryo DEF forkFail
  <2> QED BY <1>13, <2>1, CpuKeep DEF cpus, forkFail
<1>14. ASSUME NEW c \in CPUs, NEW p \in Procs, forkCopy(c, p)
      PROVE  CpuInv'
  BY <1>1, <1>14 DEF forkCopy, table, ctab, cpus, local
<1>15. ASSUME NEW c \in CPUs, NEW p \in Procs, forkDone(c, p)
      PROVE  CpuInv'
  <2>1. \A r \in Procs : state'[r] = "RUNNING" <=> state[r] = "RUNNING"
    BY <1>15, CpuTypes, MakesEmbryo DEF forkDone
  <2> QED BY <1>15, <2>1, CpuKeep DEF cpus, forkDone
<1>16. ASSUME NEW c \in CPUs, NEW p \in Procs, NEW q \in Procs, waitReap(c, p, q)
      PROVE  CpuInv'
  <2>1. \A r \in Procs : state'[r] = "RUNNING" <=> state[r] = "RUNNING"
    BY <1>16, CpuTypes DEF waitReap, ZombieChildren
  <2> QED BY <1>16, <2>1, CpuPhase DEF CpuInv, waitReap, LeaveWait, InWait, Acquires, Runs
<1>17. ASSUME NEW c \in CPUs, NEW p \in Procs, waitFail(c, p)
      PROVE  CpuInv'
  BY <1>17, CpuPhase, CpuTypes DEF CpuInv, waitFail, LeaveWait, InWait, Acquires, Runs
<1>18. ASSUME NEW c \in CPUs, NEW p \in Procs, waitSleep(c, p)
      PROVE  CpuInv'
  <2>1. /\ state'[p] # "RUNNING"
        /\ \A r \in Procs \ {p} : state'[r] = "RUNNING" <=> state[r] = "RUNNING"
    BY <1>18, CpuTypes DEF waitSleep
  <2>2. cproc[c] = p /\ lock \in {NULL, c} /\ sched(c)
    BY <1>18 DEF CpuInv, waitSleep, InWait, Acquires, Runs
  <2> QED BY <2>1, <2>2, CpuStop
<1>19. ASSUME NEW c \in CPUs, NEW p \in Procs, destroyContainer(c, p)
      PROVE  CpuInv'
  BY <1>1, <1>19 DEF destroyContainer, table, ctab, cpus, local
<1>20. ASSUME NEW c \in CPUs, NEW p \in Procs, NEW q \in Procs, destroyFind(c, p, q)
      PROVE  CpuInv'
  BY <1>1, <1>20 DEF destroyFind, table, ctab, cpus, local
<1>21. ASSUME NEW c \in CPUs, NEW p \in Procs, destroyKill(c, p)
      PROVE  CpuInv'
  <2>1. \A r \in Procs : state'[r] = "RUNNING" <=> state[r] = "RUNNING"
    BY <1>21, CpuTypes, WakesOnly DEF destroyKill
  <2> QED BY <1>21, <2>1, CpuKeep DEF cpus, destroyKill
<1>22. ASSUME NEW c \in CPUs, NEW p \in Procs, destroyEnd(c, p)
      PROVE  CpuInv'
  BY <1>1, <1>22 DEF destroyEnd, table, ctab, cpus, local
<1>23. ASSUME NEW c \in CPUs, NEW p \in Procs, testKilled(c, p)
      PROVE  CpuInv'
  BY <1>1, <1>23 DEF testKilled, table, ctab, cpus, local
<1>24. ASSUME NEW c \in CPUs, NEW p \in Procs, sleep(c, p)
      PROVE  CpuInv'
  <2>1. /\ state'[p] # "RUNNING"
        /\ \A r \in Procs \ {p} : state'[r] = "RUNNING" <=> state[r] = "RUNNING"
    BY <1>24, CpuTypes DEF sleep
  <2>2. cproc[c] = p /\ lock \in {NULL, c} /\ sched(c)
    BY <1>24 DEF CpuInv, sleep, Acquires, Runs
  <2> QED BY <2>1, <2>2, CpuStop
<1>25. ASSUME NEW c \in CPUs, NEW p \in Procs, NEW pd \in KillPids, sys_kill(c, p, pd)
      PROVE  CpuInv'
  <2>1. \A r \in Procs : state'[r] = "RUNNING" <=> state[r] = "RUNNING"
    BY <1>25, CpuTypes, WakesOnly DEF sys_kill
  <2> QED BY <1>25, <2>1, CpuKeep DEF cpus, sys_kill
<1>26. ASSUME NEW c \in CPUs, NEW p \in Procs, NEW id \in Cont, createContainer(c, p, id)
      PROVE  CpuInv'
  BY <1>1, <1>26 DEF createContainer, table, ctab, cpus, local
<1>27. ASSUME NEW c \in CPUs, NEW p \in Procs, NEW id \in JoinIds, setContainer(c, p, id)
      PROVE  CpuInv'
  BY <1>1, <1>27 DEF setContainer, table, ctab, cpus, local
<1>28. ASSUME NEW c \in CPUs, NEW p \in Procs, NEW id \in DestroyIds, sys_destroy_container(c, p, id)
      PROVE  CpuInv'
  BY <1>1, <1>28 DEF sys_destroy_container, table, ctab, cpus, local
<1>29. ASSUME NEW c \in CPUs, NEW p \in Procs, listContainers(c, p)
      PROVE  CpuInv'
  <2>1. phase' = [phase EXCEPT ![c] = phase[c]]
    BY <1>29, CpuTypes DEF listContainers
  <2> QED BY <1>29, <2>1, CpuPhase DEF CpuInv, listContainers, Acquires, Runs, table
<1>30. ASSUME NEW c \in CPUs, NEW p \in Procs, acquirePanic(c, p)
      PROVE  CpuInv'
  BY <1>30, CpuPhase, CpuTypes DEF CpuInv, acquirePanic, Runs, table
<1>31. CASE wakeup
  <2>1. \A r \in Procs : state'[r] = "RUNNING" <=> state[r] = "RUNNING"
    BY <1>31, CpuTypes, WakesOnly DEF wakeup
  <2> QED BY <1>31, <2>1, CpuKeep DEF cpus, wakeup
<1> QED
  BY Ranges, <1>2, <1>3, <1>4, <1>5, <1>6, <1>7, <1>8, <1>9, <1>10,
     <1>11, <1>12, <1>13, <1>14, <1>15, <1>16, <1>17, <1>18, <1>19, <1>20,
     <1>21, <1>22, <1>23, <1>24, <1>25, <1>26, <1>27, <1>28, <1>29, <1>30,
     <1>31
  DEF Next, Scheduler, Process, Fork, Wait, Destroy

Dead == {"UNUSED", "EMBRYO", "ZOMBIE"}

\* The types the invariant of fork() needs.
LEMMA ForkTypes ==
  ASSUME TypeOK
  PROVE  /\ state \in [Procs -> ProcStates]
         /\ pc \in [Procs -> Labels]
         /\ loc \in [Procs -> Locals]
         /\ parent \in [Procs -> Procs \cup {NULL}]
         /\ DOMAIN chan = Procs /\ chan = [q \in Procs |-> chan[q]]
         /\ NULL \notin Procs
  BY Ranges DEF TypeOK

\* The process a CPU works for is RUNNING.
LEMMA Actor ==
  ASSUME CpuInv, NEW c \in CPUs, NEW p \in Procs, cproc[c] = p
  PROVE  state[p] = "RUNNING"
  BY DEF CpuInv, OneCpuPerProcess

\* A step outside fork(): it moves at most process p, and makes and frees no
\* EMBRYO.
LEMMA ForkKeep ==
  ASSUME ForkInv, NEW p \in Procs,
         \/ pc'[p] = pc[p] /\ loc'[p] = loc[p]
         \/ pc[p] \notin {"fork", "fork2"} /\ pc'[p] \notin {"fork", "fork2"},
         \A r \in Procs \ {p} : pc'[r] = pc[r] /\ loc'[r] = loc[r],
         \A r \in Procs : state'[r] = "EMBRYO" <=> state[r] = "EMBRYO",
         \A r \in Procs \ {p} : state'[r] \in Dead => state[r] \in Dead,
         state'[p] \in Dead => pc'[p] = "user"
  PROVE  ForkInv'
<1>1. \A r, q \in Procs : Makes(r, q)' <=> Makes(r, q)
  BY DEF Makes
<1>2. EmbryoPrivate'
  BY <1>1 DEF ForkInv, EmbryoPrivate
<1>3. \A r \in Procs : state'[r] \in Dead => pc'[r] = "user"
  BY DEF ForkInv, Dead
<1>4. \A r \in Procs : pc'[r] \in {"fork", "fork2"} => loc'[r].np \in Procs
  BY DEF ForkInv
<1> QED BY <1>2, <1>3, <1>4 DEF ForkInv, Dead

\* allocproc() hands the slot to one maker.
LEMMA ForkAlloc ==
  ASSUME TypeOK, ForkInv, NEW p \in Procs, NEW np \in Procs, InSyscall(p),
         state[p] = "RUNNING", FirstUnused(np),
         state' = [state EXCEPT ![np] = "EMBRYO"],
         loc' = [loc EXCEPT ![p].np = np], goto(p, "fork")
  PROVE  ForkInv'
<1>1. /\ state'[np] = "EMBRYO" /\ state[np] = "UNUSED" /\ np # p
      /\ \A r \in Procs \ {np} : state'[r] = state[r]
  BY ForkTypes DEF FirstUnused
<1>2. /\ pc'[p] = "fork" /\ loc'[p].np = np /\ pc[p] = "sys"
      /\ \A r \in Procs \ {p} : pc'[r] = pc[r] /\ loc'[r] = loc[r]
  BY ForkTypes DEF goto, InSyscall, Locals
<1>3. \A q \in Procs : Makes(p, q)' <=> q = np
  BY <1>2 DEF Makes
<1>4. \A r \in Procs \ {p}, q \in Procs : Makes(r, q)' <=> Makes(r, q)
  BY <1>2 DEF Makes
<1>5. \A r \in Procs : ~Makes(r, np)
  BY <1>1 DEF ForkInv, EmbryoPrivate
<1>6. \A q \in Procs : ~Makes(p, q)
  BY <1>2 DEF Makes
<1>7. EmbryoPrivate'
  <2>1. \A q \in Procs : state'[q] = "EMBRYO" <=> \E r \in Procs : Makes(r, q)'
    BY <1>1, <1>3, <1>4, <1>6 DEF ForkInv, EmbryoPrivate
  <2>2. \A r, t, q \in Procs : Makes(r, q)' /\ Makes(t, q)' => r = t
    BY <1>3, <1>4, <1>5 DEF ForkInv, EmbryoPrivate
  <2> QED BY <2>1, <2>2 DEF EmbryoPrivate
<1>8. \A r \in Procs : state'[r] \in Dead => pc'[r] = "user"
  BY <1>1, <1>2 DEF ForkInv, Dead
<1>9. \A r \in Procs : pc'[r] \in {"fork", "fork2"} => loc'[r].np \in Procs
  BY <1>2 DEF ForkInv
<1> QED BY <1>7, <1>8, <1>9 DEF ForkInv, Dead

\* fork() ends, well or not: the slot leaves EMBRYO and has no maker.
LEMMA ForkEnd ==
  ASSUME TypeOK, ForkInv, NEW p \in Procs, NEW st \in {"UNUSED", "RUNNABLE"},
         state[p] = "RUNNING", pc[p] \in {"fork", "fork2"},
         state' = [state EXCEPT ![loc[p].np] = st],
         loc' = [loc EXCEPT ![p].np = NULL],
         pc' = [pc EXCEPT ![p] = "user"]
  PROVE  ForkInv'
<1> DEFINE np == loc[p].np
<1>1. /\ np \in Procs /\ state[np] = "EMBRYO" /\ np # p /\ Makes(p, np)
      /\ state'[np] = st /\ \A r \in Procs \ {np} : state'[r] = state[r]
  BY MakesEmbryo, ForkTypes DEF Makes
<1>2. /\ pc'[p] = "user"
      /\ \A r \in Procs \ {p} : pc'[r] = pc[r] /\ loc'[r] = loc[r]
  BY ForkTypes
<1>3. \A r \in Procs \ {p}, q \in Procs : Makes(r, q)' <=> Makes(r, q)
  BY <1>2 DEF Makes
<1>4. \A q \in Procs : ~Makes(p, q)'
  BY <1>2 DEF Makes
<1>5. \A r \in Procs \ {p} : ~Makes(r, np)
  BY <1>1 DEF ForkInv, EmbryoPrivate
<1>6. \A q \in Procs \ {np} : ~Makes(p, q)
  BY <1>1 DEF Makes
<1>7. EmbryoPrivate'
  <2>1. \A q \in Procs : state'[q] = "EMBRYO" <=> \E r \in Procs : Makes(r, q)'
    BY <1>1, <1>3, <1>4, <1>5, <1>6 DEF ForkInv, EmbryoPrivate
  <2>2. \A r, t, q \in Procs : Makes(r, q)' /\ Makes(t, q)' => r = t
    BY <1>3, <1>4 DEF ForkInv, EmbryoPrivate
  <2> QED BY <2>1, <2>2 DEF EmbryoPrivate
<1>8. \A r \in Procs : state'[r] \in Dead => pc'[r] = "user"
  BY <1>1, <1>2 DEF ForkInv, Dead
<1>9. \A r \in Procs : pc'[r] \in {"fork", "fork2"} => loc'[r].np \in Procs
  BY <1>2 DEF ForkInv
<1> QED BY <1>7, <1>8, <1>9 DEF ForkInv, Dead

\* Every step keeps each EMBRYO slot in the hands of one process.
LEMMA ForkStep ==
  ASSUME TypeOK, CpuInv, ForkInv, Next
  PROVE  ForkInv'
<1>1. ASSUME UNCHANGED <<state, pc, loc>>
      PROVE  ForkInv'
  BY <1>1 DEF ForkInv, EmbryoPrivate, Makes
<1>2. ASSUME NEW c \in CPUs, NEW p \in Procs, SchedulerSkip(c)
      PROVE  ForkInv'
  BY <1>1, <1>2 DEF SchedulerSkip, table, ctab, cpus, local
<1>3. ASSUME NEW c \in CPUs, NEW p \in Procs, SchedulerAcquire(c)
      PROVE  ForkInv'
  BY <1>1, <1>3 DEF SchedulerAcquire, table, ctab, cpus, local
<1>4. ASSUME NEW c \in CPUs, NEW p \in Procs, SchedulerRelease(c)
      PROVE  ForkInv'
  BY <1>1, <1>4 DEF SchedulerRelease, table, ctab, cpus, local
<1>5. ASSUME NEW c \in CPUs, NEW p \in Procs, SchedulerRun(c, p)
      PROVE  ForkInv'
  <2>1. /\ \A r \in Procs : state'[r] = "EMBRYO" <=> state[r] = "EMBRYO"
        /\ \A r \in Procs : state'[r] \in Dead => state[r] \in Dead
    BY <1>5, ForkTypes DEF SchedulerRun, Eligible, Dead
  <2> QED BY <1>5, <2>1, ForkKeep DEF ForkInv, local, Dead, SchedulerRun, Eligible
<1>6. ASSUME NEW c \in CPUs, NEW p \in Procs, initExits(c)
      PROVE  ForkInv'
  BY <1>1, <1>6 DEF initExits, table, ctab, cpus, local
<1>7. ASSUME NEW c \in CPUs, NEW p \in Procs, Resume(c, p)
      PROVE  ForkInv'
  <2>1. CASE pc[p] = "sleep"
    BY <1>7, <2>1, ForkKeep, ForkTypes, Actor DEF Resume, goto, Dead
  <2>2. CASE pc[p] # "sleep"
    BY <1>7, <1>1, <2>2 DEF Resume
  <2> QED BY <2>1, <2>2
<1>8. ASSUME NEW c \in CPUs, NEW p \in Procs, syscall(c, p)
      PROVE  ForkInv'
  <2>1. /\ state[p] = "RUNNING"
        /\ pc[p] \notin {"fork", "fork2"} /\ pc'[p] \notin {"fork", "fork2"}
        /\ \A r \in Procs \ {p} : pc'[r] = pc[r] /\ loc'[r] = loc[r]
    BY <1>8, ForkTypes, Actor DEF syscall, Acquires, Runs, InSyscall, goto, local
  <2>2. /\ \A r \in Procs : state'[r] = "EMBRYO" <=> state[r] = "EMBRYO"
        /\ \A r \in Procs \ {p} : state'[r] \in Dead => state[r] \in Dead
        /\ state'[p] \in Dead => pc'[p] = "user"
    BY <1>8, <2>1, ForkTypes DEF syscall, table, Dead
  <2> QED BY <2>1, <2>2, ForkKeep
<1>9. ASSUME NEW c \in CPUs, NEW p \in Procs, sysret(c, p)
      PROVE  ForkInv'
  <2>1. /\ state[p] = "RUNNING"
        /\ pc[p] \notin {"fork", "fork2"} /\ pc'[p] \notin {"fork", "fork2"}
        /\ \A r \in Procs \ {p} : pc'[r] = pc[r] /\ loc'[r] = loc[r]
    BY <1>9, ForkTypes, Actor DEF sysret, Acquires, Runs, InSyscall, goto, local
  <2>2. /\ \A r \in Procs : state'[r] = "EMBRYO" <=> state[r] = "EMBRYO"
        /\ \A r \in Procs \ {p} : state'[r] \in Dead => state[r] \in Dead
        /\ state'[p] \in Dead => pc'[p] = "user"
    BY <1>9, <2>1, ForkTypes DEF sysret, table, Dead
  <2> QED BY <2>1, <2>2, ForkKeep
<1>10. ASSUME NEW c \in CPUs, NEW p \in Procs, yield(c, p)
      PROVE  ForkInv'
  <2>1. state[p] = "RUNNING"
    BY <1>10, Actor DEF yield, Acquires, Runs
  <2>2. /\ \A r \in Procs : state'[r] = "EMBRYO" <=> state[r] = "EMBRYO"
        /\ \A r \in Procs : state'[r] \in Dead => state[r] \in Dead
    BY <1>10, <2>1, ForkTypes DEF yield, Dead
  <2> QED BY <1>10, <2>2, ForkKeep DEF ForkInv, yield, local, Dead
<1>11. ASSUME NEW c \in CPUs, NEW p \in Procs, exit(c, p)
      PROVE  ForkInv'
  <2>1. /\ state[p] = "RUNNING" /\ pc[p] = "user"
        /\ UNCHANGED <<pc, loc>>
    BY <1>11, Actor DEF exit, Acquires, Runs, local
  <2>2. /\ state'[p] = "ZOMBIE"
        /\ \A r \in Procs \ {p} :
             state'[r] = state[r] \/ (state[r] = "SLEEPING" /\ state'[r] = "RUNNABLE")
    BY <1>11, WakesOnly DEF exit
  <2>3. /\ \A r \in Procs : state'[r] = "EMBRYO" <=> state[r] = "EMBRYO"
        /\ \A r \in Procs \ {p} : state'[r] \in Dead => state[r] \in Dead
    BY <2>1, <2>2 DEF Dead
  <2> QED BY <2>1, <2>3, ForkKeep
<1>12. ASSUME NEW c \in CPUs, NEW p \in Procs, NEW np \in Procs, allocproc(c, p, np)
      PROVE  ForkInv'
  BY <1>12, ForkAlloc, Actor DEF allocproc, Acquires, Runs
<1>13. ASSUME NEW c \in CPUs, NEW p \in Procs, forkFail(c, p)
      PROVE  ForkInv'
  BY <1>13, ForkEnd, Actor DEF forkFail, Runs, goto
<1>14. ASSUME NEW c \in CPUs, NEW p \in Procs, forkCopy(c, p)
      PROVE  ForkInv'
  <2>1. pc[p] = "fork" /\ pc'[p] = "fork2" /\ state[p] = "RUNNING"
    BY <1>14, ForkTypes, Actor DEF forkCopy, Runs, goto
  <2>2. UNCHANGED <<state, loc>> /\ \A r \in Procs \ {p} : pc'[r] = pc[r]
    BY <1>14, ForkTypes DEF forkCopy, goto
  <2>3. \A r, q \in Procs : Makes(r, q)' <=> Makes(r, q)
    BY <2>1, <2>2 DEF Makes
  <2>4. EmbryoPrivate'
    BY <2>2, <2>3 DEF ForkInv, EmbryoPrivate
  <2> QED BY <2>1, <2>2, <2>4 DEF ForkInv
<1>15. ASSUME NEW c \in CPUs, NEW p \in Procs, forkDone(c, p)
      PROVE  ForkInv'
  <2>1. loc[p].np \in Procs /\ state[loc[p].np] = "EMBRYO" /\ state[p] = "RUNNING"
    BY <1>15, MakesEmbryo, Actor DEF forkDone, Acquires, Runs
  <2>2. pc[loc[p].np] = "user"
    BY <2>1 DEF ForkInv
  <2>3. pc' = [pc EXCEPT ![p] = "user"]
    BY <1>15, <2>1, <2>2, ForkTypes DEF forkDone
  <2> QED BY <1>15, <2>1, <2>3, ForkEnd DEF forkDone
<1>16. ASSUME NEW c \in CPUs, NEW p \in Procs, NEW q \in Procs, waitReap(c, p, q)
      PROVE  ForkInv'
  <2>1. /\ state[p] = "RUNNING"
        /\ pc[p] \notin {"fork", "fork2"} /\ pc'[p] \notin {"fork", "fork2"}
        /\ \A r \in Procs \ {p} : pc'[r] = pc[r] /\ loc'[r] = loc[r]
    BY <1>16, ForkTypes, Actor DEF waitReap, ZombieChildren, LeaveWait, InWait, Acquires, Runs, InSyscall, goto, local
  <2>2. /\ \A r \in Procs : state'[r] = "EMBRYO" <=> state[r] = "EMBRYO"
        /\ \A r \in Procs \ {p} : state'[r] \in Dead => state[r] \in Dead
        /\ state'[p] \in Dead => pc'[p] = "user"
    BY <1>16, <2>1, ForkTypes DEF waitReap, ZombieChildren, table, Dead
  <2> QED BY <2>1, <2>2, ForkKeep
<1>17. ASSUME NEW c \in CPUs, NEW p \in Procs, waitFail(c, p)
      PROVE  ForkInv'
  <2>1. /\ state[p] = "RUNNING"
        /\ pc[p] \notin {"fork", "fork2"} /\ pc'[p] \notin {"fork", "fork2"}
        /\ \A r \in Procs \ {p} : pc'[r] = pc[r] /\ loc'[r] = loc[r]
    BY <1>17, ForkTypes, Actor DEF waitFail, LeaveWait, InWait, Acquires, Runs, InSyscall, goto, local
  <2>2. /\ \A r \in Procs : state'[r] = "EMBRYO" <=> state[r] = "EMBRYO"
        /\ \A r \in Procs \ {p} : state'[r] \in Dead => state[r] \in Dead
        /\ state'[p] \in Dead => pc'[p] = "user"
    BY <1>17, <2>1, ForkTypes DEF waitFail, table, Dead
  <2> QED BY <2>1, <2>2, ForkKeep
<1>18. ASSUME NEW c \in CPUs, NEW p \in Procs, waitSleep(c, p)
      PROVE  ForkInv'
  <2>1. /\ state[p] = "RUNNING"
        /\ pc[p] \notin {"fork", "fork2"} /\ pc'[p] \notin {"fork", "fork2"}
        /\ \A r \in Procs \ {p} : pc'[r] = pc[r] /\ loc'[r] = loc[r]
    BY <1>18, ForkTypes, Actor DEF waitSleep, InWait, Acquires, Runs, InSyscall, goto, local
  <2>2. /\ \A r \in Procs : state'[r] = "EMBRYO" <=> state[r] = "EMBRYO"
        /\ \A r \in Procs \ {p} : state'[r] \in Dead => state[r] \in Dead
        /\ state'[p] \in Dead => pc'[p] = "user"
    BY <1>18, <2>1, ForkTypes DEF waitSleep, table, Dead
  <2> QED BY <2>1, <2>2, ForkKeep
<1>19. ASSUME NEW c \in CPUs, NEW p \in Procs, destroyContainer(c, p)
      PROVE  ForkInv'
  <2>1. /\ state[p] = "RUNNING"
        /\ pc[p] \notin {"fork", "fork2"} /\ pc'[p] \notin {"fork", "fork2"}
        /\ \A r \in Procs \ {p} : pc'[r] = pc[r] /\ loc'[r] = loc[r]
    BY <1>19, ForkTypes, Actor DEF destroyContainer, Acquires, Runs, InSyscall, goto, local
  <2>2. /\ \A r \in Procs : state'[r] = "EMBRYO" <=> state[r] = "EMBRYO"
        /\ \A r \in Procs \ {p} : state'[r] \in Dead => state[r] \in Dead
        /\ state'[p] \in Dead => pc'[p] = "user"
    BY <1>19, <2>1, ForkTypes DEF destroyContainer, table, Dead
  <2> QED BY <2>1, <2>2, ForkKeep
<1>20. ASSUME NEW c \in CPUs, NEW p \in Procs, NEW q \in Procs, destroyFind(c, p, q)
      PROVE  ForkInv'
  <2>1. /\ state[p] = "RUNNING"
        /\ pc[p] \notin {"fork", "fork2"} /\ pc'[p] \notin {"fork", "fork2"}
        /\ \A r \in Procs \ {p} : pc'[r] = pc[r] /\ loc'[r] = loc[r]
    BY <1>20, ForkTypes, Actor DEF destroyFind, Acquires, Runs, InSyscall, goto, local
  <2>2. /\ \A r \in Procs : state'[r] = "EMBRYO" <=> state[r] = "EMBRYO"
        /\ \A r \in Procs \ {p} : state'[r] \in Dead => state[r] \in Dead
        /\ state'[p] \in Dead => pc'[p] = "user"
    BY <1>20, <2>1, ForkTypes DEF destroyFind, table, Dead
  <2> QED BY <2>1, <2>2, ForkKeep
<1>21. ASSUME NEW c \in CPUs, NEW p \in Procs, destroyKill(c, p)
      PROVE  ForkInv'
  <2>1. /\ state[p] = "RUNNING"
        /\ pc[p] \notin {"fork", "fork2"} /\ pc'[p] \notin {"fork", "fork2"}
        /\ \A r \in Procs \ {p} : pc'[r] = pc[r] /\ loc'[r] = loc[r]
    BY <1>21, ForkTypes, Actor DEF destroyKill, Acquires, Runs, InSyscall, goto, local
  <2>2. /\ \A r \in Procs : state'[r] = "EMBRYO" <=> state[r] = "EMBRYO"
        /\ \A r \in Procs \ {p} : state'[r] \in Dead => state[r] \in Dead
        /\ state'[p] \in Dead => pc'[p] = "user"
    BY <1>21, <2>1, ForkTypes, WakesOnly DEF destroyKill, table, Dead
  <2> QED BY <2>1, <2>2, ForkKeep
<1>22. ASSUME NEW c \in CPUs, NEW p \in Procs, destroyEnd(c, p)
      PROVE  ForkInv'
  <2>1. /\ state[p] = "RUNNING"
        /\ pc[p] \notin {"fork", "fork2"} /\ pc'[p] \notin {"fork", "fork2"}
        /\ \A r \in Procs \ {p} : pc'[r] = pc[r] /\ loc'[r] = loc[r]
    BY <1>22, ForkTypes, Actor DEF destroyEnd, Acquires, Runs, InSyscall, goto, local
  <2>2. /\ \A r \in Procs : state'[r] = "EMBRYO" <=> state[r] = "EMBRYO"
        /\ \A r \in Procs \ {p} : state'[r] \in Dead => state[r] \in Dead
        /\ state'[p] \in Dead => pc'[p] = "user"
    BY <1>22, <2>1, ForkTypes DEF destroyEnd, table, Dead
  <2> QED BY <2>1, <2>2, ForkKeep
<1>23. ASSUME NEW c \in CPUs, NEW p \in Procs, testKilled(c, p)
      PROVE  ForkInv'
  <2>1. /\ state[p] = "RUNNING"
        /\ pc[p] \notin {"fork", "fork2"} /\ pc'[p] \notin {"fork", "fork2"}
        /\ \A r \in Procs \ {p} : pc'[r] = pc[r] /\ loc'[r] = loc[r]
    BY <1>23, ForkTypes, Actor DEF testKilled, Acquires, Runs, InSyscall, goto, local
  <2>2. /\ \A r \in Procs : state'[r] = "EMBRYO" <=> state[r] = "EMBRYO"
        /\ \A r \in Procs \ {p} : state'[r] \in Dead => state[r] \in Dead
        /\ state'[p] \in Dead => pc'[p] = "user"
    BY <1>23, <2>1, ForkTypes DEF testKilled, table, Dead
  <2> QED BY <2>1, <2>2, ForkKeep
<1>24. ASSUME NEW c \in CPUs, NEW p \in Procs, sleep(c, p)
      PROVE  ForkInv'
  <2>1. /\ state[p] = "RUNNING"
        /\ pc[p] \notin {"fork", "fork2"} /\ pc'[p] \notin {"fork", "fork2"}
        /\ \A r \in Procs \ {p} : pc'[r] = pc[r] /\ loc'[r] = loc[r]
    BY <1>24, ForkTypes, Actor DEF sleep, Acquires, Runs, InSyscall, goto, local
  <2>2. /\ \A r \in Procs : state'[r] = "EMBRYO" <=> state[r] = "EMBRYO"
        /\ \A r \in Procs \ {p} : state'[r] \in Dead => state[r] \in Dead
        /\ state'[p] \in Dead => pc'[p] = "user"
    BY <1>24, <2>1, ForkTypes DEF sleep, table, Dead
  <2> QED BY <2>1, <2>2, ForkKeep
<1>25. ASSUME NEW c \in CPUs, NEW p \in Procs, NEW pd \in KillPids, sys_kill(c, p, pd)
      PROVE  ForkInv'
  <2>1. /\ state[p] = "RUNNING"
        /\ pc[p] \notin {"fork", "fork2"} /\ pc'[p] \notin {"fork", "fork2"}
        /\ \A r \in Procs \ {p} : pc'[r] = pc[r] /\ loc'[r] = loc[r]
    BY <1>25, ForkTypes, Actor DEF sys_kill, Acquires, Runs, InSyscall, goto, local
  <2>2. /\ \A r \in Procs : state'[r] = "EMBRYO" <=> state[r] = "EMBRYO"
        /\ \A r \in Procs \ {p} : state'[r] \in Dead => state[r] \in Dead
        /\ state'[p] \in Dead => pc'[p] = "user"
    BY <1>25, <2>1, ForkTypes, WakesOnly DEF sys_kill, table, Dead
  <2> QED BY <2>1, <2>2, ForkKeep
<1>26. ASSUME NEW c \in CPUs, NEW p \in Procs, NEW id \in Cont, createContainer(c, p, id)
      PROVE  ForkInv'
  <2>1. /\ state[p] = "RUNNING"
        /\ pc[p] \notin {"fork", "fork2"} /\ pc'[p] \notin {"fork", "fork2"}
        /\ \A r \in Procs \ {p} : pc'[r] = pc[r] /\ loc'[r] = loc[r]
    BY <1>26, ForkTypes, Actor DEF createContainer, Acquires, Runs, InSyscall, goto, local
  <2>2. /\ \A r \in Procs : state'[r] = "EMBRYO" <=> state[r] = "EMBRYO"
        /\ \A r \in Procs \ {p} : state'[r] \in Dead => state[r] \in Dead
        /\ state'[p] \in Dead => pc'[p] = "user"
    BY <1>26, <2>1, ForkTypes DEF createContainer, table, Dead
  <2> QED BY <2>1, <2>2, ForkKeep
<1>27. ASSUME NEW c \in CPUs, NEW p \in Procs, NEW id \in JoinIds, setContainer(c, p, id)
      PROVE  ForkInv'
  <2>1. /\ state[p] = "RUNNING"
        /\ pc[p] \notin {"fork", "fork2"} /\ pc'[p] \notin {"fork", "fork2"}
        /\ \A r \in Procs \ {p} : pc'[r] = pc[r] /\ loc'[r] = loc[r]
    BY <1>27, ForkTypes, Actor DEF setContainer, Acquires, Runs, InSyscall, goto, local
  <2>2. /\ \A r \in Procs : state'[r] = "EMBRYO" <=> state[r] = "EMBRYO"
        /\ \A r \in Procs \ {p} : state'[r] \in Dead => state[r] \in Dead
        /\ state'[p] \in Dead => pc'[p] = "user"
    BY <1>27, <2>1, ForkTypes DEF setContainer, table, Dead
  <2> QED BY <2>1, <2>2, ForkKeep
<1>28. ASSUME NEW c \in CPUs, NEW p \in Procs, NEW id \in DestroyIds, sys_destroy_container(c, p, id)
      PROVE  ForkInv'
  <2>1. /\ state[p] = "RUNNING"
        /\ pc[p] \notin {"fork", "fork2"} /\ pc'[p] \notin {"fork", "fork2"}
        /\ \A r \in Procs \ {p} : pc'[r] = pc[r] /\ loc'[r] = loc[r]
    BY <1>28, ForkTypes, Actor DEF sys_destroy_container, Acquires, Runs, InSyscall, goto, local
  <2>2. /\ \A r \in Procs : state'[r] = "EMBRYO" <=> state[r] = "EMBRYO"
        /\ \A r \in Procs \ {p} : state'[r] \in Dead => state[r] \in Dead
        /\ state'[p] \in Dead => pc'[p] = "user"
    BY <1>28, <2>1, ForkTypes DEF sys_destroy_container, table, Dead
  <2> QED BY <2>1, <2>2, ForkKeep
<1>29. ASSUME NEW c \in CPUs, NEW p \in Procs, listContainers(c, p)
      PROVE  ForkInv'
  <2>1. /\ state[p] = "RUNNING"
        /\ pc[p] \notin {"fork", "fork2"} /\ pc'[p] \notin {"fork", "fork2"}
        /\ \A r \in Procs \ {p} : pc'[r] = pc[r] /\ loc'[r] = loc[r]
    BY <1>29, ForkTypes, Actor DEF listContainers, Acquires, Runs, InSyscall, goto, local
  <2>2. /\ \A r \in Procs : state'[r] = "EMBRYO" <=> state[r] = "EMBRYO"
        /\ \A r \in Procs \ {p} : state'[r] \in Dead => state[r] \in Dead
        /\ state'[p] \in Dead => pc'[p] = "user"
    BY <1>29, <2>1, ForkTypes DEF listContainers, table, Dead
  <2> QED BY <2>1, <2>2, ForkKeep
<1>30. ASSUME NEW c \in CPUs, NEW p \in Procs, acquirePanic(c, p)
      PROVE  ForkInv'
  BY <1>1, <1>30 DEF acquirePanic, table, ctab, cpus, local
<1>31. CASE wakeup
  <2>1. \A r \in Procs :
          state'[r] = state[r] \/ (state[r] = "SLEEPING" /\ state'[r] = "RUNNABLE")
    BY <1>31, WakesOnly DEF wakeup
  <2>2. /\ \A r \in Procs : state'[r] = "EMBRYO" <=> state[r] = "EMBRYO"
        /\ \A r \in Procs : state'[r] \in Dead => state[r] \in Dead
    BY <2>1 DEF Dead
  <2>3. UNCHANGED <<pc, loc>>
    BY <1>31 DEF wakeup, local
  <2>4. state'[initproc] \in Dead => pc'[initproc] = "user"
    BY <2>2, <2>3, Ranges DEF ForkInv, Dead
  <2> QED BY <2>2, <2>3, <2>4, ForkKeep, Ranges
<1> QED
  BY Ranges, <1>2, <1>3, <1>4, <1>5, <1>6, <1>7, <1>8, <1>9, <1>10,
     <1>11, <1>12, <1>13, <1>14, <1>15, <1>16, <1>17, <1>18, <1>19, <1>20,
     <1>21, <1>22, <1>23, <1>24, <1>25, <1>26, <1>27, <1>28, <1>29, <1>30,
     <1>31
  DEF Next, Scheduler, Process, Fork, Wait, Destroy
=============================================================================
