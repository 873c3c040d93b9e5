----------------------------- MODULE ProcFamily -----------------------------
(***************************************************************************)
(* Parents, children and wait(): no exit is lost, no process is without a  *)
(* parent that can reap it, and pids are unique.  Containers: the loop of  *)
(* destroyContainer misses no live member.                                 *)
(***************************************************************************)
EXTENDS ProcProofs

\* init lives for ever and has no parent; a free slot has none; the slot in
\* the hands of fork() has none before the copy, and its maker after it.
FamilyInv ==
  /\ state[initproc] \in Live /\ parent[initproc] = NULL
  /\ \A p \in Procs : state[p] = "UNUSED" => parent[p] = NULL
  /\ \A p \in Procs : pc[p] = "fork" => parent[loc[p].np] = NULL
  /\ \A p \in Procs : pc[p] = "fork2" => parent[loc[p].np] = p
  /\ \A p \in Procs : parent[p] # p
  /\ ParentAlive

\* A process asleep in wait() sleeps on its own slot.
WaitInv ==
  /\ \A p \in Procs : state[p] = "SLEEPING" /\ pc[p] = "wait" => chan[p] = p
  /\ NoLostExit /\ KilledNotInWait

\* Every pid in the table has been given out already.
PidInv ==
  /\ \A p \in Procs : pid[p] < nextpid
  /\ UniquePids

-----------------------------------------------------------------------------
\* A step that leaves the parents alone and lets nobody be born, die or be
\* freed.
LEMMA FamilyKeep ==
  ASSUME TypeOK, FamilyInv, UNCHANGED parent,
         \A r \in Procs : state'[r] \in Live <=> state[r] \in Live,
         \A r \in Procs : state'[r] \in {"UNUSED", "ZOMBIE"} => state'[r] = state[r],
         \A r \in Procs : pc'[r] \in {"fork", "fork2"} => pc'[r] = pc[r] /\ loc'[r] = loc[r]
  PROVE  FamilyInv'
<1>1. ParentAlive'
  BY ForkTypes DEF FamilyInv, ParentAlive, Live
<1> QED BY <1>1, Ranges DEF FamilyInv

\* Every step keeps each process in the care of a living parent.
LEMMA FamilyStep ==
  ASSUME TypeOK, CpuInv, ForkInv, FamilyInv, Next
  PROVE  FamilyInv'
<1>1. ASSUME UNCHANGED <<state, parent, pc, loc>>
      PROVE  FamilyInv'
  BY <1>1 DEF FamilyInv, ParentAlive
<1>2. ASSUME NEW c \in CPUs, NEW p \in Procs, SchedulerSkip(c)
      PROVE  FamilyInv'
  BY <1>1, <1>2 DEF SchedulerSkip, table, ctab, cpus, local
<1>3. ASSUME NEW c \in CPUs, NEW p \in Procs, SchedulerAcquire(c)
      PROVE  FamilyInv'
  BY <1>1, <1>3 DEF SchedulerAcquire, table, ctab, cpus, local
<1>4. ASSUME NEW c \in CPUs, NEW p \in Procs, SchedulerRelease(c)
      PROVE  FamilyInv'
  BY <1>1, <1>4 DEF SchedulerRelease, table, ctab, cpus, local
<1>5. ASSUME NEW c \in CPUs, NEW p \in Procs, SchedulerRun(c, p)
      PROVE  FamilyInv'
  <2>1. /\ \A r \in Procs : state'[r] \in Live <=> state[r] \in Live
        /\ \A r \in Procs : state'[r] \in {"UNUSED", "ZOMBIE"} => state'[r] = state[r]
    BY <1>5, ForkTypes DEF SchedulerRun, Eligible, Live
  <2> QED BY <1>5, <2>1, FamilyKeep DEF SchedulerRun, local
<1>6. ASSUME NEW c \in CPUs, NEW p \in Procs, initExits(c)
      PROVE  FamilyInv'
  BY <1>1, <1>6 DEF initExits, table, ctab, cpus, local
<1>7. ASSUME NEW c \in CPUs, NEW p \in Procs, Resume(c, p)
      PROVE  FamilyInv'
  <2>1. CASE pc[p] = "sleep"
    BY <1>7, <2>1, FamilyKeep, ForkTypes DEF Resume, goto, Live
  <2>2. CASE pc[p] # "sleep"
    BY <1>7, <1>1, <2>2 DEF Resume
  <2> QED BY <2>1, <2>2
<1>8. ASSUME NEW c \in CPUs, NEW p \in Procs, syscall(c, p)
      PROVE  FamilyInv'
  <2>1. /\ state[p] = "RUNNING"
        /\ \A r \in Procs : pc'[r] \in {"fork", "fork2"} => pc'[r] = pc[r] /\ loc'[r] = loc[r]
    BY <1>8, ForkTypes, Actor DEF syscall, Acquires, Runs, goto, local
  <2>2. /\ \A r \in Procs : state'[r] \in Live <=> state[r] \in Live
        /\ \A r \in Procs : state'[r] \in {"UNUSED", "ZOMBIE"} => state'[r] = state[r]
        /\ UNCHANGED parent
    BY <1>8, <2>1, ForkTypes DEF syscall, table, Live
  <2> QED BY <2>1, <2>2, FamilyKeep
<1>9. ASSUME NEW c \in CPUs, NEW p \in Procs, sysret(c, p)
      PROVE  FamilyInv'
  <2>1. /\ state[p] = "RUNNING"
        /\ \A r \in Procs : pc'[r] \in {"fork", "fork2"} => pc'[r] = pc[r] /\ loc'[r] = loc[r]
    BY <1>9, ForkTypes, Actor DEF sysret, Acquires, Runs, goto, local
  <2>2. /\ \A r \in Procs : state'[r] \in Live <=> state[r] \in Live
        /\ \A r \in Procs : state'[r] \in {"UNUSED", "ZOMBIE"} => state'[r] = state[r]
        /\ UNCHANGED parent
    BY <1>9, <2>1, ForkTypes DEF sysret, table, Live
  <2> QED BY <2>1, <2>2, FamilyKeep
<1>10. ASSUME NEW c \in CPUs, NEW p \in Procs, yield(c, p)
      PROVE  FamilyInv'
  <2>1. /\ state[p] = "RUNNING"
        /\ \A r \in Procs : pc'[r] \in {"fork", "fork2"} => pc'[r] = pc[r] /\ loc'[r] = loc[r]
    BY <1>10, ForkTypes, Actor DEF yield, Acquires, Runs, goto, local
  <2>2. /\ \A r \in Procs : state'[r] \in Live <=> state[r] \in Live
        /\ \A r \in Procs : state'[r] \in {"UNUSED", "ZOMBIE"} => state'[r] = state[r]
        /\ UNCHANGED parent
    BY <1>10, <2>1, ForkTypes DEF yield, table, Live
  <2> QED BY <2>1, <2>2, FamilyKeep
<1>11. ASSUME NEW c \in CPUs, NEW p \in Procs, exit(c, p)
      PROVE  FamilyInv'
  <2>1. /\ state[p] = "RUNNING" /\ pc[p] = "user" /\ p # initproc
        /\ UNCHANGED <<pc, loc>>
    BY <1>11, Actor DEF exit, Acquires, Runs, local
  <2>2. /\ state'[p] = "ZOMBIE"
        /\ \A r \in Procs \ {p} :
             state'[r] = state[r] \/ (state[r] = "SLEEPING" /\ state'[r] = "RUNNABLE")
    BY <1>11, WakesOnly DEF exit
  <2>3. \A r \in Procs : parent'[r] = IF parent[r] = p THEN initproc ELSE parent[r]
    BY <1>11 DEF exit, passChildren
  <2>4. \A r \in Procs \ {p} : state'[r] \in Live <=> state[r] \in Live
    BY <2>2 DEF Live
  <2>5. state'[initproc] \in Live /\ parent'[initproc] = NULL
    BY <2>1, <2>3, <2>4, Ranges DEF FamilyInv
  <2>6. \A r \in Procs : state'[r] = "UNUSED" => parent'[r] = NULL
    BY <2>2, <2>3, Ranges DEF FamilyInv
  <2>7. /\ \A r \in Procs : pc'[r] = "fork" => parent'[loc'[r].np] = NULL
        /\ \A r \in Procs : pc'[r] = "fork2" => parent'[loc'[r].np] = r
    BY <2>1, <2>3, MakesEmbryo, Ranges DEF FamilyInv
  <2>8. \A r \in Procs : parent'[r] # r
    BY <2>3, Ranges DEF FamilyInv
  <2>9. ParentAlive'
    <3> SUFFICES ASSUME NEW r \in Procs \ {initproc}, state'[r] \in Live \cup {"ZOMBIE"}
                 PROVE  parent'[r] # NULL /\ state'[parent'[r]] \in Live
      BY DEF ParentAlive
    <3>1. state[r] \in Live \cup {"ZOMBIE"}
      BY <2>1, <2>2 DEF Live
    <3>2. parent[r] # NULL /\ state[parent[r]] \in Live
      BY <3>1 DEF FamilyInv, ParentAlive
    <3>3. CASE parent[r] = p
      BY <2>3, <2>5, <3>3, Ranges
    <3>4. CASE parent[r] # p
      BY <2>3, <2>4, <3>2, <3>4, ForkTypes
    <3> QED BY <3>3, <3>4
  <2> QED BY <2>5, <2>6, <2>7, <2>8, <2>9 DEF FamilyInv
<1>12. ASSUME NEW c \in CPUs, NEW p \in Procs, NEW np \in Procs, allocproc(c, p, np)
      PROVE  FamilyInv'
  <2>1. /\ state[np] = "UNUSED" /\ state'[np] = "EMBRYO" /\ UNCHANGED parent
        /\ \A r \in Procs \ {np} : state'[r] = state[r]
    BY <1>12, ForkTypes DEF allocproc, FirstUnused
  <2>2. /\ pc'[p] = "fork" /\ loc'[p].np = np
        /\ \A r \in Procs \ {p} : pc'[r] = pc[r] /\ loc'[r] = loc[r]
    BY <1>12, ForkTypes DEF allocproc, goto, Locals
  <2>3. ParentAlive'
    BY <2>1, ForkTypes DEF FamilyInv, ParentAlive, Live
  <2>4. state'[initproc] \in Live
    BY <2>1, Ranges DEF FamilyInv, Live
  <2> QED BY <2>1, <2>2, <2>3, <2>4 DEF FamilyInv
<1>13. ASSUME NEW c \in CPUs, NEW p \in Procs, forkFail(c, p)
      PROVE  FamilyInv'
  <2>1. /\ loc[p].np \in Procs /\ state[loc[p].np] = "EMBRYO"
        /\ state'[loc[p].np] = "UNUSED" /\ parent[loc[p].np] = NULL
        /\ \A r \in Procs \ {loc[p].np} : state'[r] = state[r]
        /\ UNCHANGED parent
    BY <1>13, ForkTypes, MakesEmbryo DEF forkFail, FamilyInv
  <2>2. /\ pc'[p] = "user"
        /\ \A r \in Procs \ {p} : pc'[r] = pc[r] /\ loc'[r] = loc[r]
    BY <1>13, ForkTypes DEF forkFail, goto
  <2>3. ParentAlive'
    BY <2>1, ForkTypes DEF FamilyInv, ParentAlive, Live
  <2>4. state'[initproc] \in Live
    BY <2>1, Ranges DEF FamilyInv, Live
  <2> QED BY <2>1, <2>2, <2>3, <2>4 DEF FamilyInv
<1>14. ASSUME NEW c \in CPUs, NEW p \in Procs, forkCopy(c, p)
      PROVE  FamilyInv'
  <2> DEFINE np == loc[p].np
  <2>1. /\ np \in Procs /\ state[np] = "EMBRYO" /\ np # p /\ np # initproc
        /\ pc[p] = "fork" /\ Makes(p, np)
    BY <1>14, MakesEmbryo, Actor, Ranges DEF forkCopy, Runs, FamilyInv, Live, Makes
  <2>2. /\ parent'[np] = p /\ \A r \in Procs \ {np} : parent'[r] = parent[r]
        /\ pc'[p] = "fork2" /\ \A r \in Procs \ {p} : pc'[r] = pc[r]
        /\ UNCHANGED <<state, loc>>
    BY <1>14, <2>1, ForkTypes DEF forkCopy, goto
  <2>3. \A r \in Procs \ {p} : pc[r] \in {"fork", "fork2"} =>
          loc[r].np \in Procs /\ loc[r].np # np
    BY <2>1 DEF ForkInv, EmbryoPrivate, Makes
  <2>4. /\ \A r \in Procs : pc'[r] = "fork" => parent'[loc'[r].np] = NULL
        /\ \A r \in Procs : pc'[r] = "fork2" => parent'[loc'[r].np] = r
    BY <2>1, <2>2, <2>3 DEF FamilyInv
  <2>5. ParentAlive'
    BY <2>1, <2>2 DEF FamilyInv, ParentAlive, Live
  <2>6. /\ \A r \in Procs : state'[r] = "UNUSED" => parent'[r] = NULL
        /\ \A r \in Procs : parent'[r] # r
    BY <2>1, <2>2 DEF FamilyInv
  <2>7. state'[initproc] \in Live /\ parent'[initproc] = NULL
    BY <2>1, <2>2, Ranges DEF FamilyInv
  <2> QED BY <2>4, <2>5, <2>6, <2>7 DEF FamilyInv
<1>15. ASSUME NEW c \in CPUs, NEW p \in Procs, forkDone(c, p)
      PROVE  FamilyInv'
  <2> DEFINE np == loc[p].np
  <2>1. /\ np \in Procs /\ state[np] = "EMBRYO" /\ parent[np] = p /\ np # p
        /\ state[p] = "RUNNING"
    BY <1>15, MakesEmbryo, Actor DEF forkDone, Acquires, Runs, FamilyInv
  <2>2. /\ state'[np] = "RUNNABLE" /\ \A r \in Procs \ {np} : state'[r] = state[r]
        /\ UNCHANGED parent
        /\ \A r \in Procs : pc'[r] \in {"fork", "fork2"} => pc'[r] = pc[r] /\ loc'[r] = loc[r]
    BY <1>15, <2>1, ForkTypes DEF forkDone
  <2>3. ParentAlive'
    <3> SUFFICES ASSUME NEW r \in Procs \ {initproc}, state'[r] \in Live \cup {"ZOMBIE"}
                 PROVE  parent'[r] # NULL /\ state'[parent'[r]] \in Live
      BY DEF ParentAlive
    <3>1. CASE r = np
      BY <2>1, <2>2, <3>1, Ranges DEF Live
    <3>2. CASE r # np
      BY <2>1, <2>2, <3>2, ForkTypes DEF FamilyInv, ParentAlive, Live
    <3> QED BY <3>1, <3>2
  <2>4. state'[initproc] \in Live
    BY <2>1, <2>2, Ranges DEF FamilyInv, Live
  <2> QED BY <2>1, <2>2, <2>3, <2>4 DEF FamilyInv
<1>16. ASSUME NEW c \in CPUs, NEW p \in Procs, NEW q \in Procs, waitReap(c, p, q)
      PROVE  FamilyInv'
  <2>1. /\ state[q] = "ZOMBIE" /\ parent[q] = p /\ q # initproc
        /\ state'[q] = "UNUSED" /\ \A r \in Procs \ {q} : state'[r] = state[r]
        /\ parent'[q] = NULL /\ \A r \in Procs \ {q} : parent'[r] = parent[r]
    BY <1>16, ForkTypes DEF waitReap, ZombieChildren, Children, FamilyInv, Live
  <2>2. \A r \in Procs : pc'[r] \in {"fork", "fork2"} =>
          /\ pc'[r] = pc[r] /\ loc'[r] = loc[r]
          /\ loc[r].np \in Procs /\ loc[r].np # q
    <3>1. \A r \in Procs : pc'[r] \in {"fork", "fork2"} => pc'[r] = pc[r] /\ loc'[r] = loc[r]
      BY <1>16, ForkTypes DEF waitReap, LeaveWait, goto
    <3> QED BY <2>1, <3>1, MakesEmbryo
  <2>3. ParentAlive'
    <3> SUFFICES ASSUME NEW r \in Procs \ {initproc}, state'[r] \in Live \cup {"ZOMBIE"}
                 PROVE  parent'[r] # NULL /\ state'[parent'[r]] \in Live
      BY DEF ParentAlive
    <3>1. r # q /\ state[r] \in Live \cup {"ZOMBIE"}
      BY <2>1 DEF Live
    <3>2. parent[r] # NULL /\ state[parent[r]] \in Live
      BY <3>1 DEF FamilyInv, ParentAlive
    <3>3. parent[r] # q
      BY <2>1, <3>2 DEF Live
    <3> QED BY <2>1, <3>1, <3>2, <3>3, ForkTypes
  <2>4. state'[initproc] \in Live /\ parent'[initproc] = NULL
    BY <2>1, Ranges DEF FamilyInv
  <2>5. \A r \in Procs : parent'[r] # r
    BY <2>1, Ranges DEF FamilyInv
  <2> QED BY <2>1, <2>2, <2>3, <2>4, <2>5 DEF FamilyInv
<1>17. ASSUME NEW c \in CPUs, NEW p \in Procs, waitFail(c, p)
      PROVE  FamilyInv'
  <2>1. /\ state[p] = "RUNNING"
        /\ \A r \in Procs : pc'[r] \in {"fork", "fork2"} => pc'[r] = pc[r] /\ loc'[r] = loc[r]
    BY <1>17, ForkTypes, Actor DEF waitFail, LeaveWait, InWait, Acquires, Runs, goto, local
  <2>2. /\ \A r \in Procs : state'[r] \in Live <=> state[r] \in Live
        /\ \A r \in Procs : state'[r] \in {"UNUSED", "ZOMBIE"} => state'[r] = state[r]
        /\ UNCHANGED parent
    BY <1>17, <2>1, ForkTypes DEF waitFail, table, Live
  <2> QED BY <2>1, <2>2, FamilyKeep
<1>18. ASSUME NEW c \in CPUs, NEW p \in Procs, waitSleep(c, p)
      PROVE  FamilyInv'
  <2>1. /\ state[p] = "RUNNING"
        /\ \A r \in Procs : pc'[r] \in {"fork", "fork2"} => pc'[r] = pc[r] /\ loc'[r] = loc[r]
    BY <1>18, ForkTypes, Actor DEF waitSleep, InWait, Acquires, Runs, goto, local
  <2>2. /\ \A r \in Procs : state'[r] \in Live <=> state[r] \in Live
        /\ \A r \in Procs : state'[r] \in {"UNUSED", "ZOMBIE"} => state'[r] = state[r]
        /\ UNCHANGED parent
    BY <1>18, <2>1, ForkTypes DEF waitSleep, table, Live
  <2> QED BY <2>1, <2>2, FamilyKeep
<1>19. ASSUME NEW c \in CPUs, NEW p \in Procs, destroyContainer(c, p)
      PROVE  FamilyInv'
  <2>1. /\ state[p] = "RUNNING"
        /\ \A r \in Procs : pc'[r] \in {"fork", "fork2"} => pc'[r] = pc[r] /\ loc'[r] = loc[r]
    BY <1>19, ForkTypes, Actor DEF destroyContainer, Acquires, Runs, goto, local
  <2>2. /\ \A r \in Procs : state'[r] \in Live <=> state[r] \in Live
        /\ \A r \in Procs : state'[r] \in {"UNUSED", "ZOMBIE"} => state'[r] = state[r]
        /\ UNCHANGED parent
    BY <1>19, <2>1, ForkTypes DEF destroyContainer, table, Live
  <2> QED BY <2>1, <2>2, FamilyKeep
<1>20. ASSUME NEW c \in CPUs, NEW p \in Procs, NEW q \in Procs, destroyFind(c, p, q)
      PROVE  FamilyInv'
  <2>1. /\ state[p] = "RUNNING"
        /\ \A r \in Procs : pc'[r] \in {"fork", "fork2"} => pc'[r] = pc[r] /\ loc'[r] = loc[r]
    BY <1>20, ForkTypes, Actor DEF destroyFind, Acquires, Runs, goto, local
  <2>2. /\ \A r \in Procs : state'[r] \in Live <=> state[r] \in Live
        /\ \A r \in Procs : state'[r] \in {"UNUSED", "ZOMBIE"} => state'[r] = state[r]
        /\ UNCHANGED parent
    BY <1>20, <2>1, ForkTypes DEF destroyFind, table, Live
  <2> QED BY <2>1, <2>2, FamilyKeep
<1>21. ASSUME NEW c \in CPUs, NEW p \in Procs, destroyKill(c, p)
      PROVE  FamilyInv'
  <2>1. /\ state[p] = "RUNNING"
        /\ \A r \in Procs : pc'[r] \in {"fork", "fork2"} => pc'[r] = pc[r] /\ loc'[r] = loc[r]
    BY <1>21, ForkTypes, Actor DEF destroyKill, Acquires, Runs, goto, local
  <2>2. /\ \A r \in Procs : state'[r] \in Live <=> state[r] \in Live
        /\ \A r \in Procs : state'[r] \in {"UNUSED", "ZOMBIE"} => state'[r] = state[r]
        /\ UNCHANGED parent
    BY <1>21, <2>1, ForkTypes, WakesOnly DEF destroyKill, table, Live
  <2> QED BY <2>1, <2>2, FamilyKeep
<1>22. ASSUME NEW c \in CPUs, NEW p \in Procs, destroyEnd(c, p)
      PROVE  FamilyInv'
  <2>1. /\ state[p] = "RUNNING"
        /\ \A r \in Procs : pc'[r] \in {"fork", "fork2"} => pc'[r] = pc[r] /\ loc'[r] = loc[r]
    BY <1>22, ForkTypes, Actor DEF destroyEnd, Acquires, Runs, goto, local
  <2>2. /\ \A r \in Procs : state'[r] \in Live <=> state[r] \in Live
        /\ \A r \in Procs : state'[r] \in {"UNUSED", "ZOMBIE"} => state'[r] = state[r]
        /\ UNCHANGED parent
    BY <1>22, <2>1, ForkTypes DEF destroyEnd, table, Live
  <2> QED BY <2>1, <2>2, FamilyKeep
<1>23. ASSUME NEW c \in CPUs, NEW p \in Procs, testKilled(c, p)
      PROVE  FamilyInv'
  <2>1. /\ state[p] = "RUNNING"
        /\ \A r \in Procs : pc'[r] \in {"fork", "fork2"} => pc'[r] = pc[r] /\ loc'[r] = loc[r]
    BY <1>23, ForkTypes, Actor DEF testKilled, Acquires, Runs, goto, local
  <2>2. /\ \A r \in Procs : state'[r] \in Live <=> state[r] \in Live
        /\ \A r \in Procs : state'[r] \in {"UNUSED", "ZOMBIE"} => state'[r] = state[r]
        /\ UNCHANGED parent
    BY <1>23, <2>1, ForkTypes DEF testKilled, table, Live
  <2> QED BY <2>1, <2>2, FamilyKeep
<1>24. ASSUME NEW c \in CPUs, NEW p \in Procs, sleep(c, p)
      PROVE  FamilyInv'
  <2>1. /\ state[p] = "RUNNING"
        /\ \A r \in Procs : pc'[r] \in {"fork", "fork2"} => pc'[r] = pc[r] /\ loc'[r] = loc[r]
    BY <1>24, ForkTypes, Actor DEF sleep, Acquires, Runs, goto, local
  <2>2. /\ \A r \in Procs : state'[r] \in Live <=> state[r] \in Live
        /\ \A r \in Procs : state'[r] \in {"UNUSED", "ZOMBIE"} => state'[r] = state[r]
        /\ UNCHANGED parent
    BY <1>24, <2>1, ForkTypes DEF sleep, table, Live
  <2> QED BY <2>1, <2>2, FamilyKeep
<1>25. ASSUME NEW c \in CPUs, NEW p \in Procs, NEW pd \in KillPids, sys_kill(c, p, pd)
      PROVE  FamilyInv'
  <2>1. /\ state[p] = "RUNNING"
        /\ \A r \in Procs : pc'[r] \in {"fork", "fork2"} => pc'[r] = pc[r] /\ loc'[r] = loc[r]
    BY <1>25, ForkTypes, Actor DEF sys_kill, Acquires, Runs, goto, local
  <2>2. /\ \A r \in Procs : state'[r] \in Live <=> state[r] \in Live
        /\ \A r \in Procs : state'[r] \in {"UNUSED", "ZOMBIE"} => state'[r] = state[r]
        /\ UNCHANGED parent
    BY <1>25, <2>1, ForkTypes, WakesOnly DEF sys_kill, table, Live
  <2> QED BY <2>1, <2>2, FamilyKeep
<1>26. ASSUME NEW c \in CPUs, NEW p \in Procs, NEW id \in Cont, createContainer(c, p, id)
      PROVE  FamilyInv'
  <2>1. /\ state[p] = "RUNNING"
        /\ \A r \in Procs : pc'[r] \in {"fork", "fork2"} => pc'[r] = pc[r] /\ loc'[r] = loc[r]
    BY <1>26, ForkTypes, Actor DEF createContainer, Acquires, Runs, goto, local
  <2>2. /\ \A r \in Procs : state'[r] \in Live <=> state[r] \in Live
        /\ \A r \in Procs : state'[r] \in {"UNUSED", "ZOMBIE"} => state'[r] = state[r]
        /\ UNCHANGED parent
    BY <1>26, <2>1, ForkTypes DEF createContainer, table, Live
  <2> QED BY <2>1, <2>2, FamilyKeep
<1>27. ASSUME NEW c \in CPUs, NEW p \in Procs, NEW id \in JoinIds, setContainer(c, p, id)
      PROVE  FamilyInv'
  <2>1. /\ state[p] = "RUNNING"
        /\ \A r \in Procs : pc'[r] \in {"fork", "fork2"} => pc'[r] = pc[r] /\ loc'[r] = loc[r]
    BY <1>27, ForkTypes, Actor DEF setContainer, Acquires, Runs, goto, local
  <2>2. /\ \A r \in Procs : state'[r] \in Live <=> state[r] \in Live
        /\ \A r \in Procs : state'[r] \in {"UNUSED", "ZOMBIE"} => state'[r] = state[r]
        /\ UNCHANGED parent
    BY <1>27, <2>1, ForkTypes DEF setContainer, table, Live
  <2> QED BY <2>1, <2>2, FamilyKeep
<1>28. ASSUME NEW c \in CPUs, NEW p \in Procs, NEW id \in DestroyIds, sys_destroy_container(c, p, id)
      PROVE  FamilyInv'
  <2>1. /\ state[p] = "RUNNING"
        /\ \A r \in Procs : pc'[r] \in {"fork", "fork2"} => pc'[r] = pc[r] /\ loc'[r] = loc[r]
    BY <1>28, ForkTypes, Actor DEF sys_destroy_container, Acquires, Runs, goto, local
  <2>2. /\ \A r \in Procs : state'[r] \in Live <=> state[r] \in Live
        /\ \A r \in Procs : state'[r] \in {"UNUSED", "ZOMBIE"} => state'[r] = state[r]
        /\ UNCHANGED parent
    BY <1>28, <2>1, ForkTypes DEF sys_destroy_container, table, Live
  <2> QED BY <2>1, <2>2, FamilyKeep
<1>29. ASSUME NEW c \in CPUs, NEW p \in Procs, listContainers(c, p)
      PROVE  FamilyInv'
  <2>1. /\ state[p] = "RUNNING"
        /\ \A r \in Procs : pc'[r] \in {"fork", "fork2"} => pc'[r] = pc[r] /\ loc'[r] = loc[r]
    BY <1>29, ForkTypes, Actor DEF listContainers, Acquires, Runs, goto, local
  <2>2. /\ \A r \in Procs : state'[r] \in Live <=> state[r] \in Live
        /\ \A r \in Procs : state'[r] \in {"UNUSED", "ZOMBIE"} => state'[r] = state[r]
        /\ UNCHANGED parent
    BY <1>29, <2>1, ForkTypes DEF listContainers, table, Live
  <2> QED BY <2>1, <2>2, FamilyKeep
<1>30. ASSUME NEW c \in CPUs, NEW p \in Procs, acquirePanic(c, p)
      PROVE  FamilyInv'
  BY <1>1, <1>30 DEF acquirePanic, table, ctab, cpus, local
<1>31. CASE wakeup
  <2>1. \A r \in Procs :
          state'[r] = state[r] \/ (state[r] = "SLEEPING" /\ state'[r] = "RUNNABLE")
    BY <1>31, WakesOnly DEF wakeup
  <2>2. /\ \A r \in Procs : state'[r] \in Live <=> state[r] \in Live
        /\ \A r \in Procs : state'[r] \in {"UNUSED", "ZOMBIE"} => state'[r] = state[r]
    BY <2>1 DEF Live
  <2> QED BY <1>31, <2>2, FamilyKeep DEF wakeup, local
<1> QED
  BY Ranges, <1>2, <1>3, <1>4, <1>5, <1>6, <1>7, <1>8, <1>9, <1>10,
     <1>11, <1>12, <1>13, <1>14, <1>15, <1>16, <1>17, <1>18, <1>19, <1>20,
     <1>21, <1>22, <1>23, <1>24, <1>25, <1>26, <1>27, <1>28, <1>29, <1>30,
     <1>31
  DEF Next, Scheduler, Process, Fork, Wait, Destroy

\* A step that leaves the parents alone, lets nobody exit, and puts nobody to
\* sleep in wait().
LEMMA WaitKeep ==
  ASSUME WaitInv, UNCHANGED parent,
         \A r \in Procs : state'[r] = "ZOMBIE" => state[r] = "ZOMBIE",
         \A r \in Procs : state'[r] = "SLEEPING" /\ pc'[r] = "wait" =>
            /\ state[r] = "SLEEPING" /\ pc[r] = "wait"
            /\ chan'[r] = chan[r] /\ killed'[r] = killed[r]
  PROVE  WaitInv'
<1>1. NoLostExit'
  BY DEF WaitInv, NoLostExit, Children, ZombieChildren
<1>2. KilledNotInWait'
  BY DEF WaitInv, KilledNotInWait
<1> QED BY <1>1, <1>2 DEF WaitInv

\* kill() makes a sleeping victim RUNNABLE, and touches no other process.
LEMMA KillEffect ==
  ASSUME TypeOK, NEW pd, killPid(pd)
  PROVE  \A r \in Procs : state'[r] = "SLEEPING" => state[r] = "SLEEPING" /\ killed'[r] = killed[r]
<1>1. state \in [Procs -> ProcStates] /\ killed \in [Procs -> BOOLEAN]
  BY DEF TypeOK
<1>2. ASSUME NEW q \in Procs, killSlot(q), NEW r \in Procs, state'[r] = "SLEEPING"
      PROVE  state[r] = "SLEEPING" /\ killed'[r] = killed[r]
  <2>1. CASE r = q
    BY <1>1, <1>2, <2>1 DEF killSlot
  <2>2. CASE r # q
    BY <1>1, <1>2, <2>2 DEF killSlot
  <2> QED BY <2>1, <2>2
<1> QED BY <1>2 DEF killPid

\* Every step keeps the promise of wait(): whoever sleeps in it is going to be
\* woken.
LEMMA WaitStep ==
  ASSUME TypeOK, CpuInv, ForkInv, FamilyInv, WaitInv, Next
  PROVE  WaitInv'
<1>1. ASSUME UNCHANGED <<state, parent, pc, chan, killed>>
      PROVE  WaitInv'
  BY <1>1 DEF WaitInv, NoLostExit, KilledNotInWait, Children,
     ZombieChildren
<1>2. ASSUME NEW c \in CPUs, NEW p \in Procs, SchedulerSkip(c)
      PROVE  WaitInv'
  BY <1>1, <1>2 DEF SchedulerSkip, table, ctab, cpus, local
<1>3. ASSUME NEW c \in CPUs, NEW p \in Procs, SchedulerAcquire(c)
      PROVE  WaitInv'
  BY <1>1, <1>3 DEF SchedulerAcquire, table, ctab, cpus, local
<1>4. ASSUME NEW c \in CPUs, NEW p \in Procs, SchedulerRelease(c)
      PROVE  WaitInv'
  BY <1>1, <1>4 DEF SchedulerRelease, table, ctab, cpus, local
<1>5. ASSUME NEW c \in CPUs, NEW p \in Procs, SchedulerRun(c, p)
      PROVE  WaitInv'
  <2>1. /\ \A r \in Procs : state'[r] = "SLEEPING" /\ pc'[r] = "wait" =>
             /\ state[r] = "SLEEPING" /\ pc[r] = "wait"
             /\ chan'[r] = chan[r] /\ killed'[r] = killed[r]
        /\ \A r \in Procs : state'[r] = "ZOMBIE" => state[r] = "ZOMBIE"
    BY <1>5, ForkTypes DEF SchedulerRun, local
  <2> QED BY <1>5, <2>1, WaitKeep DEF SchedulerRun
<1>6. ASSUME NEW c \in CPUs, NEW p \in Procs, initExits(c)
      PROVE  WaitInv'
  BY <1>1, <1>6 DEF initExits, table, ctab, cpus, local
<1>7. ASSUME NEW c \in CPUs, NEW p \in Procs, Resume(c, p)
      PROVE  WaitInv'
  <2>1. state[p] = "RUNNING"
    BY <1>7, Actor DEF Resume
  <2>2. CASE pc[p] = "sleep"
    BY <1>7, <2>1, <2>2, WaitKeep, ForkTypes DEF Resume, goto
  <2>3. CASE pc[p] # "sleep"
    BY <1>7, <1>1, <2>3 DEF Resume
  <2> QED BY <2>2, <2>3
<1>8. ASSUME NEW c \in CPUs, NEW p \in Procs, syscall(c, p)
      PROVE  WaitInv'
  <2>1. state[p] = "RUNNING"
    BY <1>8, Actor DEF syscall, Acquires, Runs
  <2>2. /\ \A r \in Procs : state'[r] = "SLEEPING" /\ pc'[r] = "wait" =>
             /\ state[r] = "SLEEPING" /\ pc[r] = "wait"
             /\ chan'[r] = chan[r] /\ killed'[r] = killed[r]
        /\ \A r \in Procs : state'[r] = "ZOMBIE" => state[r] = "ZOMBIE"
    BY <1>8, <2>1, ForkTypes DEF syscall, goto, table, ctab, cpus, local
  <2> QED BY <1>8, <2>2, WaitKeep DEF syscall, table
<1>9. ASSUME NEW c \in CPUs, NEW p \in Procs, sysret(c, p)
      PROVE  WaitInv'
  <2>1. state[p] = "RUNNING"
    BY <1>9, Actor DEF sysret, Acquires, Runs
  <2>2. /\ \A r \in Procs : state'[r] = "SLEEPING" /\ pc'[r] = "wait" =>
             /\ state[r] = "SLEEPING" /\ pc[r] = "wait"
             /\ chan'[r] = chan[r] /\ killed'[r] = killed[r]
        /\ \A r \in Procs : state'[r] = "ZOMBIE" => state[r] = "ZOMBIE"
    BY <1>9, <2>1, ForkTypes DEF sysret, goto, table, ctab, cpus, local
  <2> QED BY <1>9, <2>2, WaitKeep DEF sysret, table
<1>10. ASSUME NEW c \in CPUs, NEW p \in Procs, yield(c, p)
      PROVE  WaitInv'
  <2>1. state[p] = "RUNNING"
    BY <1>10, Actor DEF yield, Acquires, Runs
  <2>2. /\ \A r \in Procs : state'[r] = "SLEEPING" /\ pc'[r] = "wait" =>
             /\ state[r] = "SLEEPING" /\ pc[r] = "wait"
             /\ chan'[r] = chan[r] /\ killed'[r] = killed[r]
        /\ \A r \in Procs : state'[r] = "ZOMBIE" => state[r] = "ZOMBIE"
    BY <1>10, <2>1, ForkTypes DEF yield, goto, table, ctab, cpus, local
  <2> QED BY <1>10, <2>2, WaitKeep DEF yield, table
<1>11. ASSUME NEW c \in CPUs, NEW p \in Procs, exit(c, p)
      PROVE  WaitInv'
  <2>1. /\ state[p] = "RUNNING" /\ p # initproc /\ UNCHANGED <<pc, chan, killed>>
    BY <1>11, Actor DEF exit, Acquires, Runs, local
  <2>2. /\ state'[p] = "ZOMBIE"
        /\ \A r \in Procs \ {p} :
             state'[r] = IF state[r] = "SLEEPING" /\ chan[r] \in exitWakes(p)
                           THEN "RUNNABLE" ELSE state[r]
    BY <1>11, WakesOnly DEF exit, wakeup1
  <2>3. \A r \in Procs : parent'[r] = IF parent[r] = p THEN initproc ELSE parent[r]
    BY <1>11 DEF exit, passChildren
  <2>4. NoLostExit'
    <3> SUFFICES ASSUME NEW r \in Procs, state'[r] = "SLEEPING", pc'[r] = "wait"
                 PROVE  Children(r)' # {} /\ ZombieChildren(r)' = {}
      BY DEF NoLostExit
    <3>1. /\ r # p /\ state[r] = "SLEEPING" /\ pc[r] = "wait" /\ chan[r] = r
          /\ r \notin exitWakes(p)
      BY <2>1, <2>2 DEF WaitInv
    <3>2. Children(r) # {} /\ ZombieChildren(r) = {}
      BY <3>1 DEF WaitInv, NoLostExit
    <3>3. parent[p] # r
      BY <3>1 DEF exitWakes
    <3>4. r = initproc => ZombieChildren(p) = {}
      BY <3>1 DEF exitWakes
    <3>5. Children(r)' # {}
      BY <2>3, <3>1, <3>2 DEF Children
    <3>6. ASSUME NEW q \in Procs, parent'[q] = r, state'[q] = "ZOMBIE"
          PROVE  FALSE
      <4>1. CASE q = p
        BY <2>3, <3>3, <3>6, <4>1 DEF FamilyInv
      <4>2. CASE q # p /\ parent[q] = p
        BY <2>2, <2>3, <3>4, <3>6, <4>2 DEF ZombieChildren, Children
      <4>3. CASE q # p /\ parent[q] # p
        BY <2>2, <2>3, <3>2, <3>6, <4>3 DEF ZombieChildren, Children
      <4> QED BY <4>1, <4>2, <4>3
    <3> QED BY <3>5, <3>6 DEF ZombieChildren, Children
  <2>5. KilledNotInWait'
    BY <2>1, <2>2 DEF WaitInv, KilledNotInWait
  <2>6. \A r \in Procs : state'[r] = "SLEEPING" /\ pc'[r] = "wait" => chan'[r] = r
    BY <2>1, <2>2 DEF WaitInv
  <2> QED BY <2>4, <2>5, <2>6 DEF WaitInv
<1>12. ASSUME NEW c \in CPUs, NEW p \in Procs, NEW np \in Procs, allocproc(c, p, np)
      PROVE  WaitInv'
  <2>1. state[p] = "RUNNING"
    BY <1>12, Actor DEF allocproc, Acquires, Runs
  <2>2. /\ \A r \in Procs : state'[r] = "SLEEPING" /\ pc'[r] = "wait" =>
             /\ state[r] = "SLEEPING" /\ pc[r] = "wait"
             /\ chan'[r] = chan[r] /\ killed'[r] = killed[r]
        /\ \A r \in Procs : state'[r] = "ZOMBIE" => state[r] = "ZOMBIE"
    BY <1>12, <2>1, ForkTypes DEF allocproc, goto, table, ctab, cpus, local
  <2> QED BY <1>12, <2>2, WaitKeep DEF allocproc, table
<1>13. ASSUME NEW c \in CPUs, NEW p \in Procs, forkFail(c, p)
      PROVE  WaitInv'
  <2>1. state[p] = "RUNNING"
    BY <1>13, Actor DEF forkFail, Acquires, Runs
  <2>2. /\ \A r \in Procs : state'[r] = "SLEEPING" /\ pc'[r] = "wait" =>
             /\ state[r] = "SLEEPING" /\ pc[r] = "wait"
             /\ chan'[r] = chan[r] /\ killed'[r] = killed[r]
        /\ \A r \in Procs : state'[r] = "ZOMBIE" => state[r] = "ZOMBIE"
    BY <1>13, <2>1, ForkTypes DEF forkFail, goto, table, ctab, cpus, local
  <2> QED BY <1>13, <2>2, WaitKeep DEF forkFail, table
<1>14. ASSUME NEW c \in CPUs, NEW p \in Procs, forkCopy(c, p)
      PROVE  WaitInv'
  <2> DEFINE np == loc[p].np
  <2>1. /\ np \in Procs /\ state[np] = "EMBRYO" /\ parent[np] = NULL
        /\ state[p] = "RUNNING"
    BY <1>14, MakesEmbryo, Actor DEF forkCopy, Runs, FamilyInv
  <2>2. /\ parent'[np] = p /\ \A r \in Procs \ {np} : parent'[r] = parent[r]
        /\ pc'[p] = "fork2" /\ \A r \in Procs \ {p} : pc'[r] = pc[r]
        /\ UNCHANGED <<state, chan, killed>>
    BY <1>14, <2>1, ForkTypes DEF forkCopy, goto
  <2>3. NoLostExit'
    <3> SUFFICES ASSUME NEW r \in Procs, state'[r] = "SLEEPING", pc'[r] = "wait"
                 PROVE  Children(r)' # {} /\ ZombieChildren(r)' = {}
      BY DEF NoLostExit
    <3>1. r # p /\ state[r] = "SLEEPING" /\ pc[r] = "wait"
      BY <2>1, <2>2
    <3>2. Children(r) # {} /\ ZombieChildren(r) = {}
      BY <3>1 DEF WaitInv, NoLostExit
    <3>3. Children(r)' = Children(r)
      BY <2>1, <2>2, <3>1, Ranges DEF Children
    <3> QED BY <2>2, <3>2, <3>3 DEF ZombieChildren
  <2>4. KilledNotInWait'
    BY <2>2 DEF WaitInv, KilledNotInWait
  <2>5. \A r \in Procs : state'[r] = "SLEEPING" /\ pc'[r] = "wait" => chan'[r] = r
    BY <2>2 DEF WaitInv
  <2> QED BY <2>3, <2>4, <2>5 DEF WaitInv
<1>15. ASSUME NEW c \in CPUs, NEW p \in Procs, forkDone(c, p)
      PROVE  WaitInv'
  <2>1. state[p] = "RUNNING"
    BY <1>15, Actor DEF forkDone, Acquires, Runs
  <2>2. /\ \A r \in Procs : state'[r] = "SLEEPING" /\ pc'[r] = "wait" =>
             /\ state[r] = "SLEEPING" /\ pc[r] = "wait"
             /\ chan'[r] = chan[r] /\ killed'[r] = killed[r]
        /\ \A r \in Procs : state'[r] = "ZOMBIE" => state[r] = "ZOMBIE"
    BY <1>15, <2>1, ForkTypes DEF forkDone, goto, table, ctab, cpus, local
  <2> QED BY <1>15, <2>2, WaitKeep DEF forkDone, table
<1>16. ASSUME NEW c \in CPUs, NEW p \in Procs, NEW q \in Procs, waitReap(c, p, q)
      PROVE  WaitInv'
  <2>1. /\ state[p] = "RUNNING" /\ state[q] = "ZOMBIE" /\ parent[q] = p
    BY <1>16, Actor DEF waitReap, InWait, Acquires, Runs, ZombieChildren, Children
  <2>2. /\ state'[q] = "UNUSED" /\ \A r \in Procs \ {q} : state'[r] = state[r]
        /\ parent'[q] = NULL /\ \A r \in Procs \ {q} : parent'[r] = parent[r]
        /\ pc'[p] = "user" /\ \A r \in Procs \ {p} : pc'[r] = pc[r] /\ chan'[r] = chan[r]
        /\ \A r \in Procs : killed'[r] => killed[r]
    <3>1. killed \in [Procs -> BOOLEAN]
      BY DEF TypeOK
    <3>2. \A r \in Procs : killed'[r] => killed[r]
      BY <1>16, <3>1 DEF waitReap
    <3> QED BY <1>16, <3>2, ForkTypes DEF waitReap, LeaveWait, goto
  <2>3. NoLostExit'
    <3> SUFFICES ASSUME NEW r \in Procs, state'[r] = "SLEEPING", pc'[r] = "wait"
                 PROVE  Children(r)' # {} /\ ZombieChildren(r)' = {}
      BY DEF NoLostExit
    <3>1. r # p /\ state[r] = "SLEEPING" /\ pc[r] = "wait"
      BY <2>1, <2>2
    <3>2. Children(r) # {} /\ ZombieChildren(r) = {}
      BY <3>1 DEF WaitInv, NoLostExit
    <3>3. Children(r)' = Children(r) /\ q \notin Children(r)
      BY <2>1, <2>2, <3>1, Ranges DEF Children
    <3> QED BY <2>2, <3>2, <3>3 DEF ZombieChildren, Children
  <2>4. KilledNotInWait'
    BY <2>1, <2>2 DEF WaitInv, KilledNotInWait
  <2>5. \A r \in Procs : state'[r] = "SLEEPING" /\ pc'[r] = "wait" => chan'[r] = r
    BY <2>1, <2>2 DEF WaitInv
  <2> QED BY <2>3, <2>4, <2>5 DEF WaitInv
<1>17. ASSUME NEW c \in CPUs, NEW p \in Procs, waitFail(c, p)
      PROVE  WaitInv'
  <2>1. state[p] = "RUNNING"
    BY <1>17, Actor DEF waitFail, LeaveWait, InWait, Acquires, Runs
  <2>2. /\ \A r \in Procs : state'[r] = "SLEEPING" /\ pc'[r] = "wait" =>
             /\ state[r] = "SLEEPING" /\ pc[r] = "wait"
             /\ chan'[r] = chan[r] /\ killed'[r] = killed[r]
        /\ \A r \in Procs : state'[r] = "ZOMBIE" => state[r] = "ZOMBIE"
    BY <1>17, <2>1, ForkTypes DEF waitFail, LeaveWait, InWait, goto, table, ctab, cpus, local
  <2> QED BY <1>17, <2>2, WaitKeep DEF waitFail, table
<1>18. ASSUME NEW c \in CPUs, NEW p \in Procs, waitSleep(c, p)
      PROVE  WaitInv'
  <2>1. /\ ZombieChildren(p) = {} /\ Children(p) # {} /\ ~killed[p]
        /\ UNCHANGED <<parent, killed>>
    BY <1>18 DEF waitSleep, WorthWaiting
  <2>2. /\ chan'[p] = p /\ state'[p] = "SLEEPING"
        /\ \A r \in Procs \ {p} : state'[r] = state[r] /\ chan'[r] = chan[r] /\ pc'[r] = pc[r]
    BY <1>18, ForkTypes DEF waitSleep, goto
  <2>3. \A r \in Procs : Children(r)' = Children(r) /\ ZombieChildren(r)' \subseteq ZombieChildren(r)
    BY <2>1, <2>2 DEF ZombieChildren, Children
  <2>4. NoLostExit'
    BY <2>1, <2>2, <2>3 DEF WaitInv, NoLostExit
  <2>5. KilledNotInWait'
    BY <2>1, <2>2 DEF WaitInv, KilledNotInWait
  <2>6. \A r \in Procs : state'[r] = "SLEEPING" /\ pc'[r] = "wait" => chan'[r] = r
    BY <2>2 DEF WaitInv
  <2> QED BY <2>4, <2>5, <2>6 DEF WaitInv
<1>19. ASSUME NEW c \in CPUs, NEW p \in Procs, destroyContainer(c, p)
      PROVE  WaitInv'
  <2>1. state[p] = "RUNNING"
    BY <1>19, Actor DEF destroyContainer, Acquires, Runs
  <2>2. /\ \A r \in Procs : state'[r] = "SLEEPING" /\ pc'[r] = "wait" =>
             /\ state[r] = "SLEEPING" /\ pc[r] = "wait"
             /\ chan'[r] = chan[r] /\ killed'[r] = killed[r]
        /\ \A r \in Procs : state'[r] = "ZOMBIE" => state[r] = "ZOMBIE"
    BY <1>19, <2>1, ForkTypes DEF destroyContainer, goto, table, ctab, cpus, local
  <2> QED BY <1>19, <2>2, WaitKeep DEF destroyContainer, table
<1>20. ASSUME NEW c \in CPUs, NEW p \in Procs, NEW q \in Procs, destroyFind(c, p, q)
      PROVE  WaitInv'
  <2>1. state[p] = "RUNNING"
    BY <1>20, Actor DEF destroyFind, Acquires, Runs
  <2>2. /\ \A r \in Procs : state'[r] = "SLEEPING" /\ pc'[r] = "wait" =>
             /\ state[r] = "SLEEPING" /\ pc[r] = "wait"
             /\ chan'[r] = chan[r] /\ killed'[r] = killed[r]
        /\ \A r \in Procs : state'[r] = "ZOMBIE" => state[r] = "ZOMBIE"
    BY <1>20, <2>1, ForkTypes DEF destroyFind, goto, table, ctab, cpus, local
  <2> QED BY <1>20, <2>2, WaitKeep DEF destroyFind, table
<1>21. ASSUME NEW c \in CPUs, NEW p \in Procs, destroyKill(c, p)
      PROVE  WaitInv'
  <2>1. state[p] = "RUNNING"
    BY <1>21, Actor DEF destroyKill, Acquires, Runs
  <2>2. /\ \A r \in Procs : state'[r] = "SLEEPING" /\ pc'[r] = "wait" =>
             /\ state[r] = "SLEEPING" /\ pc[r] = "wait"
             /\ chan'[r] = chan[r] /\ killed'[r] = killed[r]
        /\ \A r \in Procs : state'[r] = "ZOMBIE" => state[r] = "ZOMBIE"
    BY <1>21, <2>1, ForkTypes, KillEffect, WakesOnly DEF destroyKill, goto, table, ctab, cpus, local
  <2> QED BY <1>21, <2>2, WaitKeep DEF destroyKill, table
<1>22. ASSUME NEW c \in CPUs, NEW p \in Procs, destroyEnd(c, p)
      PROVE  WaitInv'
  <2>1. state[p] = "RUNNING"
    BY <1>22, Actor DEF destroyEnd, Acquires, Runs
  <2>2. /\ \A r \in Procs : state'[r] = "SLEEPING" /\ pc'[r] = "wait" =>
             /\ state[r] = "SLEEPING" /\ pc[r] = "wait"
             /\ chan'[r] = chan[r] /\ killed'[r] = killed[r]
        /\ \A r \in Procs : state'[r] = "ZOMBIE" => state[r] = "ZOMBIE"
    BY <1>22, <2>1, ForkTypes DEF destroyEnd, goto, table, ctab, cpus, local
  <2> QED BY <1>22, <2>2, WaitKeep DEF destroyEnd, table
<1>23. ASSUME NEW c \in CPUs, NEW p \in Procs, testKilled(c, p)
      PROVE  WaitInv'
  <2>1. state[p] = "RUNNING"
    BY <1>23, Actor DEF testKilled, Acquires, Runs
  <2>2. /\ \A r \in Procs : state'[r] = "SLEEPING" /\ pc'[r] = "wait" =>
             /\ state[r] = "SLEEPING" /\ pc[r] = "wait"
             /\ chan'[r] = chan[r] /\ killed'[r] = killed[r]
        /\ \A r \in Procs : state'[r] = "ZOMBIE" => state[r] = "ZOMBIE"
    BY <1>23, <2>1, ForkTypes DEF testKilled, goto, table, ctab, cpus, local
  <2> QED BY <1>23, <2>2, WaitKeep DEF testKilled, table
<1>24. ASSUME NEW c \in CPUs, NEW p \in Procs, sleep(c, p)
      PROVE  WaitInv'
  <2>1. state[p] = "RUNNING"
    BY <1>24, Actor DEF sleep, Acquires, Runs
  <2>2. /\ \A r \in Procs : state'[r] = "SLEEPING" /\ pc'[r] = "wait" =>
             /\ state[r] = "SLEEPING" /\ pc[r] = "wait"
             /\ chan'[r] = chan[r] /\ killed'[r] = killed[r]
        /\ \A r \in Procs : state'[r] = "ZOMBIE" => state[r] = "ZOMBIE"
    BY <1>24, <2>1, ForkTypes DEF sleep, goto, table, ctab, cpus, local
  <2> QED BY <1>24, <2>2, WaitKeep DEF sleep, table
<1>25. ASSUME NEW c \in CPUs, NEW p \in Procs, NEW pd \in KillPids, sys_kill(c, p, pd)
      PROVE  WaitInv'
  <2>1. state[p] = "RUNNING"
    BY <1>25, Actor DEF sys_kill, Acquires, Runs
  <2>2. /\ \A r \in Procs : state'[r] = "SLEEPING" /\ pc'[r] = "wait" =>
             /\ state[r] = "SLEEPING" /\ pc[r] = "wait"
             /\ chan'[r] = chan[r] /\ killed'[r] = killed[r]
        /\ \A r \in Procs : state'[r] = "ZOMBIE" => state[r] = "ZOMBIE"
    BY <1>25, <2>1, ForkTypes, KillEffect, WakesOnly DEF sys_kill, goto, table, ctab, cpus, local
  <2> QED BY <1>25, <2>2, WaitKeep DEF sys_kill, table
<1>26. ASSUME NEW c \in CPUs, NEW p \in Procs, NEW id \in Cont, createContainer(c, p, id)
      PROVE  WaitInv'
  <2>1. state[p] = "RUNNING"
    BY <1>26, Actor DEF createContainer, Acquires, Runs
  <2>2. /\ \A r \in Procs : state'[r] = "SLEEPING" /\ pc'[r] = "wait" =>
             /\ state[r] = "SLEEPING" /\ pc[r] = "wait"
             /\ chan'[r] = chan[r] /\ killed'[r] = killed[r]
        /\ \A r \in Procs : state'[r] = "ZOMBIE" => state[r] = "ZOMBIE"
    BY <1>26, <2>1, ForkTypes DEF createContainer, goto, table, ctab, cpus, local
  <2> QED BY <1>26, <2>2, WaitKeep DEF createContainer, table
<1>27. ASSUME NEW c \in CPUs, NEW p \in Procs, NEW id \in JoinIds, setContainer(c, p, id)
      PROVE  WaitInv'
  <2>1. state[p] = "RUNNING"
    BY <1>27, Actor DEF setContainer, Acquires, Runs
  <2>2. /\ \A r \in Procs : state'[r] = "SLEEPING" /\ pc'[r] = "wait" =>
             /\ state[r] = "SLEEPING" /\ pc[r] = "wait"
             /\ chan'[r] = chan[r] /\ killed'[r] = killed[r]
        /\ \A r \in Procs : state'[r] = "ZOMBIE" => state[r] = "ZOMBIE"
    BY <1>27, <2>1, ForkTypes DEF setContainer, goto, table, ctab, cpus, local
  <2> QED BY <1>27, <2>2, WaitKeep DEF setContainer, table
<1>28. ASSUME NEW c \in CPUs, NEW p \in Procs, NEW id \in DestroyIds, sys_destroy_container(c, p, id)
      PROVE  WaitInv'
  <2>1. state[p] = "RUNNING"
    BY <1>28, Actor DEF sys_destroy_container, Acquires, Runs
  <2>2. /\ \A r \in Procs : state'[r] = "SLEEPING" /\ pc'[r] = "wait" =>
             /\ state[r] = "SLEEPING" /\ pc[r] = "wait"
             /\ chan'[r] = chan[r] /\ killed'[r] = killed[r]
        /\ \A r \in Procs : state'[r] = "ZOMBIE" => state[r] = "ZOMBIE"
    BY <1>28, <2>1, ForkTypes DEF sys_destroy_container, goto, table, ctab, cpus, local
  <2> QED BY <1>28, <2>2, WaitKeep DEF sys_destroy_container, table
<1>29. ASSUME NEW c \in CPUs, NEW p \in Procs, listContainers(c, p)
      PROVE  WaitInv'
  <2>1. state[p] = "RUNNING"
    BY <1>29, Actor DEF listContainers, Acquires, Runs
  <2>2. /\ \A r \in Procs : state'[r] = "SLEEPING" /\ pc'[r] = "wait" =>
             /\ state[r] = "SLEEPING" /\ pc[r] = "wait"
             /\ chan'[r] = chan[r] /\ killed'[r] = killed[r]
        /\ \A r \in Procs : state'[r] = "ZOMBIE" => state[r] = "ZOMBIE"
    BY <1>29, <2>1, ForkTypes DEF listContainers, goto, table, ctab, cpus, local
  <2> QED BY <1>29, <2>2, WaitKeep DEF listContainers, table
<1>30. ASSUME NEW c \in CPUs, NEW p \in Procs, acquirePanic(c, p)
      PROVE  WaitInv'
  BY <1>1, <1>30 DEF acquirePanic, table, ctab, cpus, local
<1>31. CASE wakeup
  <2>1. \A r \in Procs :
          state'[r] = state[r] \/ (state[r] = "SLEEPING" /\ state'[r] = "RUNNABLE")
    BY <1>31, WakesOnly DEF wakeup
  <2> QED BY <1>31, <2>1, WaitKeep DEF wakeup, local
<1> QED
  BY Ranges, <1>2, <1>3, <1>4, <1>5, <1>6, <1>7, <1>8, <1>9, <1>10,
     <1>11, <1>12, <1>13, <1>14, <1>15, <1>16, <1>17, <1>18, <1>19, <1>20,
     <1>21, <1>22, <1>23, <1>24, <1>25, <1>26, <1>27, <1>28, <1>29, <1>30,
     <1>31
  DEF Next, Scheduler, Process, Fork, Wait, Destroy

\* Every step gives out fresh pids only.
LEMMA PidStep ==
  ASSUME TypeOK, PidInv, Next
  PROVE  PidInv'
<1>1. pid \in [Procs -> Nat] /\ nextpid \in Nat
  BY DEF TypeOK
<1>2. CASE UNCHANGED <<pid, nextpid>>
  BY <1>2 DEF PidInv, UniquePids
<1>3. ASSUME NEW np \in Procs, takePid(np)
      PROVE  PidInv'
  <2>1. /\ nextpid' = nextpid + 1 /\ pid'[np] = nextpid
        /\ \A r \in Procs \ {np} : pid'[r] = pid[r]
    BY <1>1, <1>3 DEF takePid
  <2>2. \A r \in Procs : pid'[r] < nextpid'
    BY <1>1, <2>1 DEF PidInv
  <2>3. \A r \in Procs \ {np} : pid'[r] # pid'[np]
    BY <1>1, <2>1 DEF PidInv
  <2>4. UniquePids'
    BY <2>1, <2>3 DEF PidInv, UniquePids
  <2> QED BY <2>2, <2>4 DEF PidInv
<1>4. ASSUME NEW q \in Procs, pid' = [pid EXCEPT ![q] = 0], nextpid' = nextpid
      PROVE  PidInv'
  <2>1. pid'[q] = 0 /\ \A r \in Procs \ {q} : pid'[r] = pid[r]
    BY <1>1, <1>4
  <2>2. \A r \in Procs : pid'[r] < nextpid'
    BY <1>1, <1>4, <2>1 DEF PidInv
  <2>3. UniquePids'
    BY <1>1, <2>1 DEF PidInv, UniquePids
  <2> QED BY <2>2, <2>3 DEF PidInv
<1>5. \/ UNCHANGED <<pid, nextpid>>
      \/ \E np \in Procs : takePid(np)
      \/ \E q \in Procs : pid' = [pid EXCEPT ![q] = 0] /\ nextpid' = nextpid
  <2> USE DEF table
  <2>1. ASSUME NEW c \in CPUs, Scheduler(c) \/ initExits(c)
        PROVE  UNCHANGED <<pid, nextpid>>
    BY <2>1 DEF Scheduler, SchedulerSkip, SchedulerAcquire, SchedulerRelease,
         SchedulerRun, initExits
  <2>2. ASSUME NEW c \in CPUs, NEW p \in Procs, Fork(c, p)
        PROVE  UNCHANGED <<pid, nextpid>> \/ \E np \in Procs : takePid(np)
    BY <2>2 DEF Fork, allocproc, forkFail, forkCopy, forkDone
  <2>3. ASSUME NEW c \in CPUs, NEW p \in Procs, Wait(c, p)
        PROVE  \/ UNCHANGED <<pid, nextpid>>
               \/ \E q \in Procs : pid' = [pid EXCEPT ![q] = 0] /\ nextpid' = nextpid
    BY <2>3 DEF Wait, waitReap, waitFail, waitSleep, LeaveWait
  <2>4. ASSUME NEW c \in CPUs, NEW p \in Procs, Destroy(c, p)
        PROVE  UNCHANGED <<pid, nextpid>>
    BY <2>4 DEF Destroy, destroyContainer, destroyKill, destroyEnd, destroyFind
  <2>5. ASSUME NEW c \in CPUs, NEW p \in Procs, Process(c, p),
               ~Fork(c, p), ~Wait(c, p), ~Destroy(c, p)
        PROVE  UNCHANGED <<pid, nextpid>>
    BY <2>5 DEF Process, Resume, syscall, sysret, yield, exit, testKilled, sleep,
         sys_kill, createContainer, setContainer, sys_destroy_container,
         listContainers, acquirePanic
  <2>6. ASSUME wakeup
        PROVE  UNCHANGED <<pid, nextpid>>
    BY <2>6 DEF wakeup
  <2> QED BY <2>1, <2>2, <2>3, <2>4, <2>5, <2>6 DEF Next
<1> QED BY <1>2, <1>3, <1>4, <1>5

-----------------------------------------------------------------------------
\* The inductive invariant.
IInv == TypeInv /\ CpuInv /\ ForkInv /\ FamilyInv /\ WaitInv /\ PidInv

LEMMA IInvInit == Init => IInv
<1> SUFFICES ASSUME Init PROVE IInv
  OBVIOUS
<1>1. TypeInv
  <2>1. 1 \in Nat /\ 2 \in Nat /\ 0 \in Nat
    OBVIOUS
  <2> QED BY <2>1, Ranges DEF Init, TypeInv, TypeOK, ProcStates, Labels
<1>2. CpuInv
  BY Ranges DEF Init, CpuInv, OneCpuPerProcess
<1>3. ForkInv
  BY Ranges DEF Init, ForkInv, EmbryoPrivate, Makes
<1>4. FamilyInv
  BY Ranges DEF Init, FamilyInv, ParentAlive, Live
<1>5. WaitInv
  BY DEF Init, WaitInv, NoLostExit, KilledNotInWait
<1>6. PidInv
  BY DEF Init, PidInv, UniquePids
<1> QED BY <1>1, <1>2, <1>3, <1>4, <1>5, <1>6 DEF IInv

\* The invariant holds throughout every behaviour of the process table.
THEOREM Invariance == Spec => []IInv
<1>1. IInv /\ Next => IInv'
  BY TypeStep, CpuStep, ForkStep, FamilyStep, WaitStep, PidStep DEF IInv, TypeInv
<1>2. IInv /\ UNCHANGED vars => IInv'
  <2> SUFFICES ASSUME IInv, UNCHANGED vars PROVE IInv'
    OBVIOUS
  <2> USE DEF IInv, vars, table, ctab, cpus, local
  <2>1. TypeInv'
    BY DEF TypeInv, TypeOK
  <2>2. CpuInv'
    BY DEF CpuInv, OneCpuPerProcess
  <2>3. ForkInv'
    BY DEF ForkInv, EmbryoPrivate, Makes
  <2>4. FamilyInv'
    BY DEF FamilyInv, ParentAlive
  <2>5. WaitInv'
    BY DEF WaitInv, NoLostExit, KilledNotInWait, Children, ZombieChildren
  <2>6. PidInv'
    BY DEF PidInv, UniquePids
  <2> QED BY <2>1, <2>2, <2>3, <2>4, <2>5, <2>6
<1> QED BY IInvInit, <1>1, <1>2, PTL DEF Spec

\* scheduler() and sched(): a process is RUNNING exactly when a CPU runs it,
\* and never two CPUs run on one kernel stack.
THEOREM OneCpu == Spec => []OneCpuPerProcess
<1>1. IInv => OneCpuPerProcess
  BY DEF IInv, CpuInv
<1> QED BY <1>1, Invariance, PTL

\* allocproc() and fork(): the slot that fork() writes without ptable.lock is
\* in the hands of exactly one process.
THEOREM ForkPrivate == Spec => []EmbryoPrivate
<1>1. IInv => EmbryoPrivate
  BY DEF IInv, ForkInv
<1> QED BY <1>1, Invariance, PTL

\* exit(): every process but init has a living parent, so that every ZOMBIE
\* has someone who can reap it.
THEOREM Cared == Spec => []ParentAlive
<1>1. IInv => ParentAlive
  BY DEF IInv, FamilyInv
<1> QED BY <1>1, Invariance, PTL

\* exit() and wait(): nobody sleeps in wait() with an exited child, or with no
\* child left.
THEOREM ExitNotLost == Spec => []NoLostExit
<1>1. IInv => NoLostExit
  BY DEF IInv, WaitInv
<1> QED BY <1>1, Invariance, PTL

\* kill() and wait(): nobody sleeps in wait() with killed set.
THEOREM KillReachesWait == Spec => []KilledNotInWait
<1>1. IInv => KilledNotInWait
  BY DEF IInv, WaitInv
<1> QED BY <1>1, Invariance, PTL

\* allocproc(): no two slots carry one pid.
THEOREM PidsUnique == Spec => []UniquePids
<1>1. IInv => UniquePids
  BY DEF IInv, PidInv
<1> QED BY <1>1, Invariance, PTL

-----------------------------------------------------------------------------
(* Containers *)

\* p, in the loop of destroyContainer, has slot q of its container before it.
Pending(p, q) ==
  /\ loc[p].id = containerID[q]
  /\ \/ pc[p] = "scan" /\ loc[p].idx <= q
     \/ /\ pc[p] = "kill"
        /\ loc[p].idx < q \/ (loc[p].idx = q /\ loc[p].pid = pid[q])

\* Container 0 is never destroyed, a slot in use has a pid, and every live
\* member of a destroyed container is going to be killed.
DestroyInv ==
  /\ cstate[0] = "CWAITING"
  /\ \A p \in Procs : pc[p] = "destroy" => loc[p].id # 0
  /\ \A q \in Procs : state[q] # "UNUSED" => pid[q] # 0
  /\ \A q \in Procs : state[q] \in Live /\ cstate[containerID[q]] = "CUNUSED" =>
       \E p \in Procs : Pending(p, q)

Destroying == {"destroy", "scan", "kill"}

\* The types of what DestroyInv is about.
LEMMA DestroyTypes ==
  ASSUME TypeOK
  PROVE  /\ state \in [Procs -> ProcStates] /\ pc \in [Procs -> Labels] /\ loc \in [Procs -> Locals]
         /\ pid \in [Procs -> Nat] /\ containerID \in [Procs -> Cont]
         /\ cstate \in [Cont -> {"CWAITING", "CUNUSED"}] /\ 0 \in Cont
  BY Ranges, Zenon DEF TypeOK

\* A step that lets nobody be born in, or join, a destroyed container, and
\* leaves every destroyContainer where it is.
LEMMA DestroyKeep ==
  ASSUME DestroyInv, UNCHANGED cstate,
         \A q \in Procs : state'[q] # "UNUSED" => pid'[q] # 0,
         \A q \in Procs : state'[q] \in Live /\ cstate[containerID'[q]] = "CUNUSED" =>
            state[q] \in Live /\ containerID'[q] = containerID[q] /\ pid'[q] = pid[q],
         \A p \in Procs : pc[p] \in Destroying => pc'[p] = pc[p] /\ loc'[p] = loc[p],
         \A p \in Procs : pc'[p] = "destroy" => pc[p] = "destroy" \/ loc'[p].id # 0
  PROVE  DestroyInv'
<1>1. \A p \in Procs : pc'[p] = "destroy" => loc'[p].id # 0
  BY DEF DestroyInv, Destroying
<1>2. ASSUME NEW q \in Procs, state'[q] \in Live, cstate'[containerID'[q]] = "CUNUSED"
      PROVE  \E p \in Procs : Pending(p, q)'
  <2>1. state[q] \in Live /\ containerID'[q] = containerID[q] /\ pid'[q] = pid[q]
        /\ cstate[containerID[q]] = "CUNUSED"
    BY <1>2
  <2>2. PICK p \in Procs : Pending(p, q)
    BY <2>1 DEF DestroyInv
  <2>3. pc'[p] = pc[p] /\ loc'[p] = loc[p]
    BY <2>2 DEF Pending, Destroying
  <2>4. Pending(p, q)'
    BY <2>1, <2>2, <2>3 DEF Pending
  <2> QED BY <2>4
<1> QED BY <1>1, <1>2 DEF DestroyInv

\* kill() takes its victim out of its container, and moves nobody into another.
LEMMA KillMoves ==
  ASSUME TypeOK, PidInv, NEW pd, killPid(pd)
  PROVE  /\ \A q \in Procs : state'[q] \in Live => state[q] \in Live
         /\ \A q \in Procs : state'[q] # "UNUSED" => state[q] # "UNUSED"
         /\ \A q \in Procs : containerID'[q] \in {0, containerID[q]}
         /\ \A q \in Procs : pid[q] = pd /\ pd # 0 => containerID'[q] = 0
<1>1. \A q \in Procs : \/ state'[q] = state[q]
                       \/ state[q] = "SLEEPING" /\ state'[q] = "RUNNABLE"
  BY WakesOnly
<1>2. \A q \in Procs : containerID'[q] \in {0, containerID[q]}
  BY DestroyTypes DEF killPid, killSlot
<1>3. ASSUME NEW q \in Procs, pid[q] = pd, pd # 0 PROVE containerID'[q] = 0
  <2>1. PICK r \in Procs : pid[r] = pd /\ killSlot(r)
    BY <1>3 DEF killPid
  <2>2. r = q
    BY <1>3, <2>1 DEF PidInv, UniquePids
  <2> QED BY <2>1, <2>2, DestroyTypes DEF killSlot
<1> QED BY <1>1, <1>2, <1>3 DEF Live

\* Every step keeps the promise of destroyContainer.
LEMMA DestroyStep ==
  ASSUME TypeOK, CpuInv, ForkInv, PidInv, DestroyInv, Polite, 0 \notin DestroyIds, Next
  PROVE  DestroyInv'
<1>0. cstate[0] = "CWAITING" /\ \A q \in Procs : state[q] # "UNUSED" => pid[q] # 0
  BY DEF DestroyInv
<1>1. ASSUME UNCHANGED <<state, pid, containerID, cstate, pc, loc>>
      PROVE  DestroyInv'
  BY <1>1 DEF DestroyInv, Pending
<1>2. ASSUME NEW c \in CPUs, SchedulerSkip(c)
      PROVE  DestroyInv'
  BY <1>1, <1>2 DEF SchedulerSkip, table, ctab, local
<1>3. ASSUME NEW c \in CPUs, SchedulerAcquire(c)
      PROVE  DestroyInv'
  BY <1>1, <1>3 DEF SchedulerAcquire, table, ctab, local
<1>4. ASSUME NEW c \in CPUs, SchedulerRelease(c)
      PROVE  DestroyInv'
  BY <1>1, <1>4 DEF SchedulerRelease, table, ctab, local
<1>5. ASSUME NEW c \in CPUs, initExits(c)
      PROVE  DestroyInv'
  BY <1>1, <1>5, Zenon DEF initExits, table, ctab, local
<1>6. ASSUME NEW c \in CPUs, NEW p \in Procs, acquirePanic(c, p)
      PROVE  DestroyInv'
  BY <1>1, <1>6 DEF acquirePanic, table, ctab, local
<1>7. ASSUME NEW c \in CPUs, NEW p \in Procs, SchedulerRun(c, p)
      PROVE  DestroyInv'
  <2>1. /\ \A r \in Procs : pc[r] \in Destroying => pc'[r] = pc[r] /\ loc'[r] = loc[r]
        /\ \A r \in Procs : pc'[r] = "destroy" => pc[r] = "destroy" \/ loc'[r].id # 0
    BY <1>7, DestroyTypes DEF Destroying, SchedulerRun, local
  <2>2. /\ UNCHANGED cstate
        /\ \A q \in Procs : state'[q] # "UNUSED" => pid'[q] # 0
        /\ \A q \in Procs : state'[q] \in Live /\ cstate[containerID'[q]] = "CUNUSED" =>
             state[q] \in Live /\ containerID'[q] = containerID[q] /\ pid'[q] = pid[q]
    BY <1>7, <1>0, DestroyTypes DEF Live, SchedulerRun, Eligible, ctab
  <2> QED BY <2>1, <2>2, DestroyKeep
<1>8. ASSUME NEW c \in CPUs, NEW p \in Procs, Resume(c, p)
      PROVE  DestroyInv'
  <2>1. /\ \A r \in Procs : pc[r] \in Destroying => pc'[r] = pc[r] /\ loc'[r] = loc[r]
        /\ \A r \in Procs : pc'[r] = "destroy" => pc[r] = "destroy" \/ loc'[r].id # 0
    BY <1>8, DestroyTypes DEF Destroying, Resume, goto
  <2>2. /\ UNCHANGED cstate
        /\ \A q \in Procs : state'[q] # "UNUSED" => pid'[q] # 0
        /\ \A q \in Procs : state'[q] \in Live /\ cstate[containerID'[q]] = "CUNUSED" =>
             state[q] \in Live /\ containerID'[q] = containerID[q] /\ pid'[q] = pid[q]
    BY <1>8, <1>0, DestroyTypes DEF Live, Resume, ctab
  <2> QED BY <2>1, <2>2, DestroyKeep
<1>9. ASSUME NEW c \in CPUs, NEW p \in Procs, syscall(c, p)
      PROVE  DestroyInv'
  <2>1. /\ \A r \in Procs : pc[r] \in Destroying => pc'[r] = pc[r] /\ loc'[r] = loc[r]
        /\ \A r \in Procs : pc'[r] = "destroy" => pc[r] = "destroy" \/ loc'[r].id # 0
    BY <1>9, DestroyTypes DEF Destroying, syscall, InSyscall, goto
  <2>2. /\ UNCHANGED cstate
        /\ \A q \in Procs : state'[q] # "UNUSED" => pid'[q] # 0
        /\ \A q \in Procs : state'[q] \in Live /\ cstate[containerID'[q]] = "CUNUSED" =>
             state[q] \in Live /\ containerID'[q] = containerID[q] /\ pid'[q] = pid[q]
    BY <1>9, <1>0, DestroyTypes DEF Live, syscall, table, ctab
  <2> QED BY <2>1, <2>2, DestroyKeep
<1>10. ASSUME NEW c \in CPUs, NEW p \in Procs, sysret(c, p)
      PROVE  DestroyInv'
  <2>1. /\ \A r \in Procs : pc[r] \in Destroying => pc'[r] = pc[r] /\ loc'[r] = loc[r]
        /\ \A r \in Procs : pc'[r] = "destroy" => pc[r] = "destroy" \/ loc'[r].id # 0
    BY <1>10, DestroyTypes DEF Destroying, sysret, InSyscall, goto
  <2>2. /\ UNCHANGED cstate
        /\ \A q \in Procs : state'[q] # "UNUSED" => pid'[q] # 0
        /\ \A q \in Procs : state'[q] \in Live /\ cstate[containerID'[q]] = "CUNUSED" =>
             state[q] \in Live /\ containerID'[q] = containerID[q] /\ pid'[q] = pid[q]
    BY <1>10, <1>0, DestroyTypes DEF Live, sysret, table, ctab
  <2> QED BY <2>1, <2>2, DestroyKeep
<1>11. ASSUME NEW c \in CPUs, NEW p \in Procs, testKilled(c, p)
      PROVE  DestroyInv'
  <2>1. /\ \A r \in Procs : pc[r] \in Destroying => pc'[r] = pc[r] /\ loc'[r] = loc[r]
        /\ \A r \in Procs : pc'[r] = "destroy" => pc[r] = "destroy" \/ loc'[r].id # 0
    BY <1>11, DestroyTypes DEF Destroying, testKilled, InSyscall, goto
  <2>2. /\ UNCHANGED cstate
        /\ \A q \in Procs : state'[q] # "UNUSED" => pid'[q] # 0
        /\ \A q \in Procs : state'[q] \in Live /\ cstate[containerID'[q]] = "CUNUSED" =>
             state[q] \in Live /\ containerID'[q] = containerID[q] /\ pid'[q] = pid[q]
    BY <1>11, <1>0, DestroyTypes DEF Live, testKilled, table, ctab
  <2> QED BY <2>1, <2>2, DestroyKeep
<1>12. ASSUME NEW c \in CPUs, NEW p \in Procs, listContainers(c, p)
      PROVE  DestroyInv'
  <2>1. /\ \A r \in Procs : pc[r] \in Destroying => pc'[r] = pc[r] /\ loc'[r] = loc[r]
        /\ \A r \in Procs : pc'[r] = "destroy" => pc[r] = "destroy" \/ loc'[r].id # 0
    BY <1>12, DestroyTypes DEF Destroying, listContainers, InSyscall, goto
  <2>2. /\ UNCHANGED cstate
        /\ \A q \in Procs : state'[q] # "UNUSED" => pid'[q] # 0
        /\ \A q \in Procs : state'[q] \in Live /\ cstate[containerID'[q]] = "CUNUSED" =>
             state[q] \in Live /\ containerID'[q] = containerID[q] /\ pid'[q] = pid[q]
    BY <1>12, <1>0, DestroyTypes DEF Live, listContainers, table, ctab
  <2> QED BY <2>1, <2>2, DestroyKeep
<1>13. ASSUME NEW c \in CPUs, NEW p \in Procs, yield(c, p)
      PROVE  DestroyInv'
  <2>3. state[p] = "RUNNING"
    BY <1>13, Actor DEF yield, Acquires, Runs
  <2>1. /\ \A r \in Procs : pc[r] \in Destroying => pc'[r] = pc[r] /\ loc'[r] = loc[r]
        /\ \A r \in Procs : pc'[r] = "destroy" => pc[r] = "destroy" \/ loc'[r].id # 0
    BY <1>13, DestroyTypes DEF Destroying, yield, local
  <2>2. /\ UNCHANGED cstate
        /\ \A q \in Procs : state'[q] # "UNUSED" => pid'[q] # 0
        /\ \A q \in Procs : state'[q] \in Live /\ cstate[containerID'[q]] = "CUNUSED" =>
             state[q] \in Live /\ containerID'[q] = containerID[q] /\ pid'[q] = pid[q]
    BY <1>13, <1>0, DestroyTypes, <2>3 DEF Live, yield, ctab
  <2> QED BY <2>1, <2>2, DestroyKeep
<1>14. ASSUME NEW c \in CPUs, NEW p \in Procs, sleep(c, p)
      PROVE  DestroyInv'
  <2>3. state[p] = "RUNNING"
    BY <1>14, Actor DEF sleep, Acquires, Runs
  <2>1. /\ \A r \in Procs : pc[r] \in Destroying => pc'[r] = pc[r] /\ loc'[r] = loc[r]
        /\ \A r \in Procs : pc'[r] = "destroy" => pc[r] = "destroy" \/ loc'[r].id # 0
    BY <1>14, DestroyTypes DEF Destroying, sleep, goto
  <2>2. /\ UNCHANGED cstate
        /\ \A q \in Procs : state'[q] # "UNUSED" => pid'[q] # 0
        /\ \A q \in Procs : state'[q] \in Live /\ cstate[containerID'[q]] = "CUNUSED" =>
             state[q] \in Live /\ containerID'[q] = containerID[q] /\ pid'[q] = pid[q]
    BY <1>14, <1>0, DestroyTypes, <2>3 DEF Live, sleep, ctab
  <2> QED BY <2>1, <2>2, DestroyKeep
<1>15. ASSUME NEW c \in CPUs, NEW p \in Procs, waitSleep(c, p)
      PROVE  DestroyInv'
  <2>3. state[p] = "RUNNING"
    BY <1>15, Actor DEF waitSleep, InWait, Acquires, Runs
  <2>1. /\ \A r \in Procs : pc[r] \in Destroying => pc'[r] = pc[r] /\ loc'[r] = loc[r]
        /\ \A r \in Procs : pc'[r] = "destroy" => pc[r] = "destroy" \/ loc'[r].id # 0
    BY <1>15, DestroyTypes DEF Destroying, waitSleep, InWait, InSyscall, goto
  <2>2. /\ UNCHANGED cstate
        /\ \A q \in Procs : state'[q] # "UNUSED" => pid'[q] # 0
        /\ \A q \in Procs : state'[q] \in Live /\ cstate[containerID'[q]] = "CUNUSED" =>
             state[q] \in Live /\ containerID'[q] = containerID[q] /\ pid'[q] = pid[q]
    BY <1>15, <1>0, DestroyTypes, <2>3 DEF Live, waitSleep, ctab
  <2> QED BY <2>1, <2>2, DestroyKeep
<1>16. ASSUME NEW c \in CPUs, NEW p \in Procs, waitFail(c, p)
      PROVE  DestroyInv'
  <2>1. /\ \A r \in Procs : pc[r] \in Destroying => pc'[r] = pc[r] /\ loc'[r] = loc[r]
        /\ \A r \in Procs : pc'[r] = "destroy" => pc[r] = "destroy" \/ loc'[r].id # 0
    BY <1>16, DestroyTypes DEF Destroying, waitFail, LeaveWait, InWait, InSyscall, goto
  <2>2. /\ UNCHANGED cstate
        /\ \A q \in Procs : state'[q] # "UNUSED" => pid'[q] # 0
        /\ \A q \in Procs : state'[q] \in Live /\ cstate[containerID'[q]] = "CUNUSED" =>
             state[q] \in Live /\ containerID'[q] = containerID[q] /\ pid'[q] = pid[q]
    BY <1>16, <1>0, DestroyTypes DEF Live, waitFail, LeaveWait, ctab
  <2> QED BY <2>1, <2>2, DestroyKeep
<1>17. ASSUME NEW c \in CPUs, NEW p \in Procs, NEW z \in Procs, waitReap(c, p, z)
      PROVE  DestroyInv'
  <2>1. /\ \A r \in Procs : pc[r] \in Destroying => pc'[r] = pc[r] /\ loc'[r] = loc[r]
        /\ \A r \in Procs : pc'[r] = "destroy" => pc[r] = "destroy" \/ loc'[r].id # 0
    BY <1>17, DestroyTypes DEF Destroying, waitReap, LeaveWait, InWait, InSyscall, goto
  <2>2. /\ UNCHANGED cstate
        /\ \A q \in Procs : state'[q] # "UNUSED" => pid'[q] # 0
        /\ \A q \in Procs : state'[q] \in Live /\ cstate[containerID'[q]] = "CUNUSED" =>
             state[q] \in Live /\ containerID'[q] = containerID[q] /\ pid'[q] = pid[q]
    BY <1>17, <1>0, DestroyTypes DEF Live, waitReap, ZombieChildren, LeaveWait, ctab
  <2> QED BY <2>1, <2>2, DestroyKeep
<1>18. ASSUME NEW c \in CPUs, NEW p \in Procs, exit(c, p)
      PROVE  DestroyInv'
  <2>3. state'[p] = "ZOMBIE" /\ \A q \in Procs \ {p} :
          state'[q] = state[q] \/ (state[q] = "SLEEPING" /\ state'[q] = "RUNNABLE")
    BY <1>18, WakesOnly DEF exit
  <2>4. state[p] = "RUNNING"
    BY <1>18, Actor DEF exit, Acquires, Runs
  <2>1. /\ \A r \in Procs : pc[r] \in Destroying => pc'[r] = pc[r] /\ loc'[r] = loc[r]
        /\ \A r \in Procs : pc'[r] = "destroy" => pc[r] = "destroy" \/ loc'[r].id # 0
    BY <1>18, DestroyTypes DEF Destroying, exit, local
  <2>2. /\ UNCHANGED cstate
        /\ \A q \in Procs : state'[q] # "UNUSED" => pid'[q] # 0
        /\ \A q \in Procs : state'[q] \in Live /\ cstate[containerID'[q]] = "CUNUSED" =>
             state[q] \in Live /\ containerID'[q] = containerID[q] /\ pid'[q] = pid[q]
    BY <1>18, <1>0, DestroyTypes, <2>3, <2>4 DEF Live, exit, ctab
  <2> QED BY <2>1, <2>2, DestroyKeep
<1>19. ASSUME wakeup
      PROVE  DestroyInv'
  <2>3. \A q \in Procs :
          state'[q] = state[q] \/ (state[q] = "SLEEPING" /\ state'[q] = "RUNNABLE")
    BY <1>19, WakesOnly DEF wakeup
  <2>1. /\ \A r \in Procs : pc[r] \in Destroying => pc'[r] = pc[r] /\ loc'[r] = loc[r]
        /\ \A r \in Procs : pc'[r] = "destroy" => pc[r] = "destroy" \/ loc'[r].id # 0
    BY <1>19, DestroyTypes DEF Destroying, wakeup, local
  <2>2. /\ UNCHANGED cstate
        /\ \A q \in Procs : state'[q] # "UNUSED" => pid'[q] # 0
        /\ \A q \in Procs : state'[q] \in Live /\ cstate[containerID'[q]] = "CUNUSED" =>
             state[q] \in Live /\ containerID'[q] = containerID[q] /\ pid'[q] = pid[q]
    BY <1>19, <1>0, DestroyTypes, <2>3 DEF Live, wakeup, ctab
  <2> QED BY <2>1, <2>2, DestroyKeep
<1>20. ASSUME NEW c \in CPUs, NEW p \in Procs, NEW np \in Procs, allocproc(c, p, np)
      PROVE  DestroyInv'
  <2>3. nextpid # 0
    BY <1>0, Ranges, DestroyTypes DEF PidInv
  <2>1. /\ \A r \in Procs : pc[r] \in Destroying => pc'[r] = pc[r] /\ loc'[r] = loc[r]
        /\ \A r \in Procs : pc'[r] = "destroy" => pc[r] = "destroy" \/ loc'[r].id # 0
    BY <1>20, DestroyTypes DEF Destroying, allocproc, InSyscall, goto
  <2>2. /\ UNCHANGED cstate
        /\ \A q \in Procs : state'[q] # "UNUSED" => pid'[q] # 0
        /\ \A q \in Procs : state'[q] \in Live /\ cstate[containerID'[q]] = "CUNUSED" =>
             state[q] \in Live /\ containerID'[q] = containerID[q] /\ pid'[q] = pid[q]
    BY <1>20, <1>0, DestroyTypes, <2>3 DEF Live, allocproc, FirstUnused, takePid, ctab
  <2> QED BY <2>1, <2>2, DestroyKeep
<1>21. ASSUME NEW c \in CPUs, NEW p \in Procs, forkFail(c, p)
      PROVE  DestroyInv'
  <2>3. loc[p].np \in Procs /\ state[loc[p].np] = "EMBRYO" /\ pc[loc[p].np] = "user"
    BY <1>21, MakesEmbryo DEF forkFail, ForkInv
  <2>1. /\ \A r \in Procs : pc[r] \in Destroying => pc'[r] = pc[r] /\ loc'[r] = loc[r]
        /\ \A r \in Procs : pc'[r] = "destroy" => pc[r] = "destroy" \/ loc'[r].id # 0
    BY <1>21, DestroyTypes DEF Destroying, forkFail, goto
  <2>2. /\ UNCHANGED cstate
        /\ \A q \in Procs : state'[q] # "UNUSED" => pid'[q] # 0
        /\ \A q \in Procs : state'[q] \in Live /\ cstate[containerID'[q]] = "CUNUSED" =>
             state[q] \in Live /\ containerID'[q] = containerID[q] /\ pid'[q] = pid[q]
    BY <1>21, <1>0, DestroyTypes, <2>3 DEF Live, forkFail, ctab
  <2> QED BY <2>1, <2>2, DestroyKeep
<1>22. ASSUME NEW c \in CPUs, NEW p \in Procs, forkCopy(c, p)
      PROVE  DestroyInv'
  <2>1. /\ \A r \in Procs : pc[r] \in Destroying => pc'[r] = pc[r] /\ loc'[r] = loc[r]
        /\ \A r \in Procs : pc'[r] = "destroy" => pc[r] = "destroy" \/ loc'[r].id # 0
    BY <1>22, DestroyTypes DEF Destroying, forkCopy, goto
  <2>2. /\ UNCHANGED cstate
        /\ \A q \in Procs : state'[q] # "UNUSED" => pid'[q] # 0
        /\ \A q \in Procs : state'[q] \in Live /\ cstate[containerID'[q]] = "CUNUSED" =>
             state[q] \in Live /\ containerID'[q] = containerID[q] /\ pid'[q] = pid[q]
    BY <1>22, <1>0, DestroyTypes DEF Live, forkCopy, ctab
  <2> QED BY <2>1, <2>2, DestroyKeep
<1>23. ASSUME NEW c \in CPUs, NEW p \in Procs, forkDone(c, p)
      PROVE  DestroyInv'
  <2>3. loc[p].np \in Procs /\ state[loc[p].np] = "EMBRYO" /\ pc[loc[p].np] = "user"
    BY <1>23, MakesEmbryo DEF forkDone, ForkInv
  <2>1. /\ \A r \in Procs : pc[r] \in Destroying => pc'[r] = pc[r] /\ loc'[r] = loc[r]
        /\ \A r \in Procs : pc'[r] = "destroy" => pc[r] = "destroy" \/ loc'[r].id # 0
    BY <1>23, DestroyTypes, <2>3 DEF Destroying, forkDone
  <2>2. /\ UNCHANGED cstate
        /\ \A q \in Procs : state'[q] # "UNUSED" => pid'[q] # 0
        /\ \A q \in Procs : state'[q] \in Live /\ cstate[containerID'[q]] = "CUNUSED" =>
             state[q] \in Live /\ containerID'[q] = containerID[q] /\ pid'[q] = pid[q]
    BY <1>23, <1>0, DestroyTypes, <2>3 DEF Live, forkDone, ctab
  <2> QED BY <2>1, <2>2, DestroyKeep
<1>24. ASSUME NEW c \in CPUs, NEW p \in Procs, NEW pd \in KillPids, sys_kill(c, p, pd)
      PROVE  DestroyInv'
  <2>3. /\ \A q \in Procs : state'[q] \in Live => state[q] \in Live
        /\ \A q \in Procs : state'[q] # "UNUSED" => state[q] # "UNUSED"
        /\ \A q \in Procs : containerID'[q] \in {0, containerID[q]}
    BY <1>24, KillMoves DEF sys_kill
  <2>1. /\ \A r \in Procs : pc[r] \in Destroying => pc'[r] = pc[r] /\ loc'[r] = loc[r]
        /\ \A r \in Procs : pc'[r] = "destroy" => pc[r] = "destroy" \/ loc'[r].id # 0
    BY <1>24, DestroyTypes DEF Destroying, sys_kill, InSyscall, goto
  <2>2. /\ UNCHANGED cstate
        /\ \A q \in Procs : state'[q] # "UNUSED" => pid'[q] # 0
        /\ \A q \in Procs : state'[q] \in Live /\ cstate[containerID'[q]] = "CUNUSED" =>
             state[q] \in Live /\ containerID'[q] = containerID[q] /\ pid'[q] = pid[q]
    BY <1>24, <1>0, DestroyTypes, <2>3 DEF Live, sys_kill, ctab
  <2> QED BY <2>1, <2>2, DestroyKeep
<1>25. ASSUME NEW c \in CPUs, NEW p \in Procs, NEW id \in JoinIds, setContainer(c, p, id)
      PROVE  DestroyInv'
  <2>1. /\ \A r \in Procs : pc[r] \in Destroying => pc'[r] = pc[r] /\ loc'[r] = loc[r]
        /\ \A r \in Procs : pc'[r] = "destroy" => pc[r] = "destroy" \/ loc'[r].id # 0
    BY <1>25, DestroyTypes DEF Destroying, setContainer, InSyscall, goto
  <2>2. /\ UNCHANGED cstate
        /\ \A q \in Procs : state'[q] # "UNUSED" => pid'[q] # 0
        /\ \A q \in Procs : state'[q] \in Live /\ cstate[containerID'[q]] = "CUNUSED" =>
             state[q] \in Live /\ containerID'[q] = containerID[q] /\ pid'[q] = pid[q]
    BY <1>25, <1>0, DestroyTypes DEF Live, setContainer, ctab
  <2> QED BY <2>1, <2>2, DestroyKeep
<1>26. ASSUME NEW c \in CPUs, NEW p \in Procs, NEW id \in DestroyIds, sys_destroy_container(c, p, id)
      PROVE  DestroyInv'
  <2>1. /\ \A r \in Procs : pc[r] \in Destroying => pc'[r] = pc[r] /\ loc'[r] = loc[r]
        /\ \A r \in Procs : pc'[r] = "destroy" => pc[r] = "destroy" \/ loc'[r].id # 0
    BY <1>26, DestroyTypes DEF Destroying, sys_destroy_container, InSyscall, goto, Locals
  <2>2. /\ UNCHANGED cstate
        /\ \A q \in Procs : state'[q] # "UNUSED" => pid'[q] # 0
        /\ \A q \in Procs : state'[q] \in Live /\ cstate[containerID'[q]] = "CUNUSED" =>
             state[q] \in Live /\ containerID'[q] = containerID[q] /\ pid'[q] = pid[q]
    BY <1>26, <1>0, DestroyTypes DEF Live, sys_destroy_container, table
  <2> QED BY <2>1, <2>2, DestroyKeep
<1>27. ASSUME NEW c \in CPUs, NEW p \in Procs, NEW id \in Cont, createContainer(c, p, id)
      PROVE  DestroyInv'
  <2>1. /\ UNCHANGED <<state, pid, containerID, loc>> /\ id # 0
        /\ cstate' = [cstate EXCEPT ![id] = "CWAITING"]
    BY <1>27 DEF createContainer, table
  <2>2. /\ \A r \in Procs : pc[r] \in Destroying => pc'[r] = pc[r]
        /\ \A r \in Procs : pc'[r] = "destroy" => pc[r] = "destroy"
    BY <1>27, DestroyTypes DEF createContainer, InSyscall, goto, Destroying
  <2>3. \A i \in Cont : cstate'[i] = "CUNUSED" => cstate[i] = "CUNUSED"
    BY <2>1, DestroyTypes
  <2>4. cstate'[0] = "CWAITING"
    BY <2>1, <1>0, DestroyTypes
  <2>5. ASSUME NEW q \in Procs, state[q] \in Live, cstate'[containerID[q]] = "CUNUSED"
        PROVE  \E r \in Procs : Pending(r, q)'
    <3>1. PICK r \in Procs : Pending(r, q)
      BY <2>3, <2>5, DestroyTypes DEF DestroyInv
    <3>2. Pending(r, q)'
      BY <2>1, <2>2, <3>1 DEF Pending, Destroying
    <3> QED BY <3>2
  <2> QED BY <2>1, <2>2, <2>4, <2>5 DEF DestroyInv
<1>28. ASSUME NEW c \in CPUs, NEW p \in Procs, destroyContainer(c, p)
      PROVE  DestroyInv'
  <2>1. /\ UNCHANGED <<state, pid, containerID>> /\ pc[p] = "destroy" /\ loc[p].id \in Cont \ {0}
        /\ cstate' = [cstate EXCEPT ![loc[p].id] = "CUNUSED"]
    BY <1>28, DestroyTypes DEF destroyContainer, table, DestroyInv, Locals
  <2>2. /\ pc'[p] = "scan" /\ loc'[p].id = loc[p].id /\ loc'[p].idx = 1
        /\ \A r \in Procs \ {p} : pc'[r] = pc[r] /\ loc'[r] = loc[r]
    BY <1>28, DestroyTypes DEF destroyContainer, goto, Locals
  <2>3. cstate'[0] = "CWAITING"
    BY <2>1, <1>0, DestroyTypes
  <2>4. ASSUME NEW q \in Procs, state[q] \in Live, cstate'[containerID[q]] = "CUNUSED"
        PROVE  \E r \in Procs : Pending(r, q)'
    <3>1. CASE containerID[q] = loc[p].id
      <4>1. 1 <= q
        BY DEF Procs
      <4>2. Pending(p, q)'
        BY <2>1, <2>2, <3>1, <4>1 DEF Pending
      <4> QED BY <4>2
    <3>2. CASE containerID[q] # loc[p].id
      <4>1. cstate[containerID[q]] = "CUNUSED"
        BY <2>1, <2>4, <3>2, DestroyTypes
      <4>2. PICK r \in Procs : Pending(r, q)
        BY <2>4, <4>1 DEF DestroyInv
      <4>3. r # p
        BY <2>1, <4>2 DEF Pending
      <4>4. Pending(r, q)'
        BY <2>1, <2>2, <4>2, <4>3 DEF Pending
      <4> QED BY <4>4
    <3> QED BY <3>1, <3>2
  <2> QED BY <2>1, <2>2, <2>3, <2>4 DEF DestroyInv
<1>29. ASSUME NEW c \in CPUs, NEW p \in Procs, NEW m \in Procs, destroyFind(c, p, m)
      PROVE  DestroyInv'
  <2>1. UNCHANGED <<state, pid, containerID, cstate>> /\ pc[p] = "scan"
    BY <1>29 DEF destroyFind, table, ctab
  <2>2. /\ pc'[p] = "kill" /\ loc'[p].id = loc[p].id /\ loc'[p].idx = m /\ loc'[p].pid = pid[m]
        /\ \A r \in Procs \ {p} : pc'[r] = pc[r] /\ loc'[r] = loc[r]
    BY <1>29, DestroyTypes DEF destroyFind, goto, Locals
  <2>3. ASSUME NEW q \in Procs, NEW r \in Procs, Pending(r, q)
        PROVE  Pending(r, q)'
    <3>1. CASE r = p
      <4>1. loc[p].id = containerID[q] /\ loc[p].idx <= q /\ loc[p].idx \in Nat
        BY <2>1, <2>3, <3>1, DestroyTypes DEF Pending, Locals
      <4>2. Member(p, q)
        BY <4>1 DEF Member, Procs
      <4>3. ~(q < m)
        BY <1>29, <4>2 DEF destroyFind
      <4>4. m < q \/ m = q
        BY <4>3 DEF Procs
      <4> QED BY <2>1, <2>2, <3>1, <4>1, <4>4 DEF Pending
    <3>2. CASE r # p
      BY <2>1, <2>2, <2>3, <3>2 DEF Pending
    <3> QED BY <3>1, <3>2
  <2> QED BY <2>1, <2>2, <2>3 DEF DestroyInv
<1>30. ASSUME NEW c \in CPUs, NEW p \in Procs, destroyKill(c, p)
      PROVE  DestroyInv'
  <2>1. UNCHANGED <<pid, cstate>> /\ pc[p] = "kill"
    BY <1>30 DEF destroyKill, ctab
  <2>2. /\ pc'[p] = "scan" /\ loc'[p].id = loc[p].id /\ loc'[p].idx = loc[p].idx + 1
        /\ \A r \in Procs \ {p} : pc'[r] = pc[r] /\ loc'[r] = loc[r]
    BY <1>30, DestroyTypes DEF destroyKill, goto, Locals
  <2>3. /\ \A q \in Procs : state'[q] \in Live => state[q] \in Live
        /\ \A q \in Procs : state'[q] # "UNUSED" => state[q] # "UNUSED"
        /\ \A q \in Procs : containerID'[q] \in {0, containerID[q]}
        /\ \A q \in Procs : pid[q] = loc[p].pid /\ loc[p].pid # 0 => containerID'[q] = 0
    BY <1>30, KillMoves DEF destroyKill
  <2>4. ASSUME NEW q \in Procs, state'[q] \in Live, cstate'[containerID'[q]] = "CUNUSED"
        PROVE  \E r \in Procs : Pending(r, q)'
    <3>1. state[q] \in Live /\ containerID'[q] = containerID[q] /\ cstate[containerID[q]] = "CUNUSED"
      BY <1>0, <2>1, <2>3, <2>4
    <3>2. pid[q] # loc[p].pid
      BY <1>0, <2>1, <2>3, <3>1, <2>4 DEF Live
    <3>3. PICK r \in Procs : Pending(r, q)
      BY <3>1 DEF DestroyInv
    <3>4. CASE r = p
      <4>1. loc[p].id = containerID[q] /\ loc[p].idx < q /\ loc[p].idx \in Nat
        BY <2>1, <3>2, <3>3, <3>4, DestroyTypes DEF Pending, Locals
      <4>2. loc[p].idx + 1 <= q
        BY <4>1 DEF Procs
      <4>3. Pending(p, q)'
        BY <2>2, <3>1, <4>1, <4>2 DEF Pending
      <4> QED BY <4>3
    <3>5. CASE r # p
      <4>1. Pending(r, q)'
        BY <2>1, <2>2, <3>1, <3>3, <3>5 DEF Pending
      <4> QED BY <4>1
    <3> QED BY <3>4, <3>5
  <2> QED BY <1>0, <2>1, <2>2, <2>3, <2>4 DEF DestroyInv
<1>31. ASSUME NEW c \in CPUs, NEW p \in Procs, destroyEnd(c, p)
      PROVE  DestroyInv'
  <2>1. UNCHANGED <<state, pid, containerID, cstate>> /\ pc[p] = "scan"
    BY <1>31 DEF destroyEnd, table, ctab
  <2>2. pc'[p] = "user" /\ \A r \in Procs \ {p} : pc'[r] = pc[r] /\ loc'[r] = loc[r]
    BY <1>31, DestroyTypes DEF destroyEnd, goto
  <2>3. ASSUME NEW q \in Procs, NEW r \in Procs, Pending(r, q)
        PROVE  Pending(r, q)'
    <3>1. r # p
      BY <1>31, <2>1, <2>3, DestroyTypes DEF destroyEnd, Pending, Member, Locals, Procs
    <3> QED BY <2>1, <2>2, <2>3, <3>1 DEF Pending
  <2> QED BY <2>1, <2>2, <2>3 DEF DestroyInv
<1> QED
  BY Ranges, <1>2, <1>3, <1>4, <1>5, <1>6, <1>7, <1>8, <1>9, <1>10, <1>11, <1>12,
     <1>13, <1>14, <1>15, <1>16, <1>17, <1>18, <1>19, <1>20, <1>21,
     <1>22, <1>23, <1>24, <1>25, <1>26, <1>27, <1>28, <1>29, <1>30,
     <1>31
  DEF Next, Scheduler, Process, Fork, Wait, Destroy

\* destroyContainer(): as long as nobody destroys container 0 or joins a
\* container that does not exist, a destroyed container has no live member
\* once the loop is through, although it drops ptable.lock around each kill().
THEOREM DestroyMissesNobody ==
  ASSUME Polite, 0 \notin DestroyIds
  PROVE  Spec => []DestroyedIsEmpty
<1>1. Init => DestroyInv
  BY Ranges DEF Init, DestroyInv, Live, initproc
<1>2. IInv /\ DestroyInv /\ [Next]_vars => DestroyInv'
  <2>1. IInv /\ DestroyInv /\ Next => DestroyInv'
    BY DestroyStep DEF IInv, TypeInv
  <2>2. DestroyInv /\ UNCHANGED vars => DestroyInv'
    BY DEF DestroyInv, Pending, vars, table, ctab, local
  <2> QED BY <2>1, <2>2
<1>3. IInv /\ DestroyInv => DestroyedIsEmpty
  <2> SUFFICES ASSUME TypeOK, DestroyInv, NEW i \in Cont, cstate[i] = "CUNUSED",
                      \A p \in Procs : pc[p] \in Destroying => loc[p].id # i,
                      NEW q \in Procs, containerID[q] = i, state[q] \in Live
               PROVE  FALSE
    BY DEF IInv, TypeInv, DestroyedIsEmpty, Destroying
  <2>1. PICK p \in Procs : Pending(p, q)
    BY DEF DestroyInv
  <2> QED BY <2>1 DEF Pending, Destroying
<1> QED BY <1>1, <1>2, <1>3, Invariance, PTL DEF Spec
=============================================================================
