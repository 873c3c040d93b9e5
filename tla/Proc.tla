-------------------------------- MODULE Proc --------------------------------
(***************************************************************************)
(* The process table, the container table and the per-CPU schedulers       *)
(* (proc.c, the container system calls of sysproc.c, the killed and timer  *)
(* checks of trap.c).                                                      *)
(*                                                                         *)
(* A critical section of ptable.lock or ctable.lock that contains no       *)
(* context switch is one action.  A section that calls sched() is not:     *)
(* the lock stays held while the CPU's scheduler looks for the next        *)
(* process, and it is the next process that releases it, so the holder of  *)
(* ptable.lock is a variable.  Everything the code does outside a lock     *)
(* (the middle of fork, the loop of destroyContainer, the test of killed   *)
(* before a sleep) is a step of its own, and the timer may preempt it.     *)
(***************************************************************************)
EXTENDS Naturals

CONSTANTS
  NPROC,    \* size of ptable.proc
  NCPU,     \* number of CPUs
  NCONT,    \* size of ctable.container
  MaxPid,   \* bound: allocproc gives out pids 1 .. MaxPid
  KillPids,     \* the pids that user programs pass to kill(),
  JoinIds,      \* the ids they pass to join_container(), 0 for leave_container(),
  DestroyIds,   \* the ids they pass to destroy_container(),
  Lists,        \* whether some program calls list_containers(),
  Polite        \* and whether they are as careful as the shell and init: only
                \* containers that exist are joined, init stays in container 0
                \* and does not exit

ASSUME ProcConstants ==
  /\ NPROC \in Nat \ {0} /\ NCPU \in Nat \ {0} /\ NCONT \in Nat \ {0}
  /\ MaxPid \in Nat \ {0}
  /\ KillPids \subseteq Nat
  /\ JoinIds \subseteq 0..(NCONT - 1) /\ DestroyIds \subseteq 0..(NCONT - 1)
  /\ Lists \in BOOLEAN /\ Polite \in BOOLEAN

VARIABLES
  state, pid, parent, containerID, chan, killed,  \* struct proc, per slot
  nextpid,                                        \* the next pid to give out
  cstate,       \* ctable.container[i].state
  containers,   \* containers[i] of syscall.c: is id i taken?
  lock,         \* the CPU holding ptable.lock, or NULL
  phase,        \* per CPU: scheduler looping, scanning, or a process runs
  cproc,        \* per CPU: mycpu()->proc
  con,          \* per CPU: the container the scheduler loop is at
  from,         \* per CPU: the slot at which the scheduler's scan resumes
  pc,           \* per process: where in the kernel it continues
  loc           \* per process: locals of fork and destroyContainer

table == <<state, pid, parent, containerID, chan, killed, nextpid>>
ctab  == <<cstate, containers>>
cpus  == <<lock, phase, cproc, con, from>>
local == <<pc, loc>>
vars  == <<table, ctab, cpus, local>>

NULL == 0                \* the null pointer; no slot and no CPU has number 0
Procs == 1..NPROC
CPUs == 1..NCPU
Cont == 0..(NCONT - 1)
initproc == 1            \* userinit takes the first slot of the empty table
IoChan == NPROC + 1      \* a channel other than a struct proc: &ticks, a pipe...
Locals == [np : Procs \cup {NULL}, id : Cont, idx : 1..(NPROC + 1), pid : Nat]
NoLocals == [np |-> NULL, id |-> 0, idx |-> 1, pid |-> 0]

ProcStates == {"UNUSED", "EMBRYO", "SLEEPING", "RUNNABLE", "RUNNING", "ZOMBIE"}
Live == {"SLEEPING", "RUNNABLE", "RUNNING"}
Labels == {"user", "sys", "again", "fork", "fork2", "check", "sleep", "wait",
           "destroy", "scan", "kill"}

(***************************************************************************)
(* The state after main() has run containerInit and userinit: the first    *)
(* process is RUNNABLE in container 0 and every CPU enters scheduler().    *)
(***************************************************************************)
Init ==
  /\ state = [p \in Procs |-> IF p = initproc THEN "RUNNABLE" ELSE "UNUSED"]
  /\ pid = [p \in Procs |-> IF p = initproc THEN 1 ELSE 0]
  /\ parent = [p \in Procs |-> NULL]
  /\ containerID = [p \in Procs |-> 0]
  /\ chan = [p \in Procs |-> NULL]
  /\ killed = [p \in Procs |-> FALSE]
  /\ nextpid = 2
  /\ cstate = [i \in Cont |-> IF i = 0 THEN "CWAITING" ELSE "CUNUSED"]
  /\ containers = [i \in Cont |-> FALSE]
  /\ lock = NULL
  /\ phase = [c \in CPUs |-> "loop"]
  /\ cproc = [c \in CPUs |-> NULL]
  /\ con = [c \in CPUs |-> 0]
  /\ from = [c \in CPUs |-> 1]
  /\ pc = [p \in Procs |-> "user"]
  /\ loc = [p \in Procs |-> NoLocals]

(***************************************************************************)
(* scheduler(): a CPU loops over the containers; it takes ptable.lock for  *)
(* each container that is CWAITING, and runs that container's RUNNABLE     *)
(* processes in slot order.                                                *)
(***************************************************************************)
\* Slips: the loop over the table ends one container late, or one early.
NextContainerLate(c) == con' = [con EXCEPT ![c] = (@ + 1) % (NCONT + 1)]
NextContainerEarly(c) == con' = [con EXCEPT ![c] = (@ + 1) % (NCONT - 1)]

NextContainer(c) == con' = [con EXCEPT ![c] = (@ + 1) % NCONT]

SchedulerSkip(c) ==
  /\ phase[c] = "loop" /\ cstate[con[c]] # "CWAITING"
  /\ NextContainer(c)
  /\ UNCHANGED <<table, ctab, lock, phase, cproc, from, local>>

SchedulerAcquire(c) ==
  /\ phase[c] = "loop" /\ cstate[con[c]] = "CWAITING" /\ lock = NULL
  /\ lock' = c
  /\ phase' = [phase EXCEPT ![c] = "scan"]
  /\ from' = [from EXCEPT ![c] = 1]
  /\ UNCHANGED <<table, ctab, cproc, con, local>>

\* Slip: the scheduler does not tell RUNNING from RUNNABLE.
EligibleRunning(c, q) ==
  q >= from[c] /\ containerID[q] = con[c] /\ state[q] \in {"RUNNABLE", "RUNNING"}

\* The scheduler on c may run slot q now.
Eligible(c, q) ==
  q >= from[c] /\ containerID[q] = con[c] /\ state[q] = "RUNNABLE"

SchedulerRun(c, q) ==
  /\ phase[c] = "scan"
  /\ Eligible(c, q) /\ \A r \in Procs : r < q => ~Eligible(c, r)
  /\ cproc' = [cproc EXCEPT ![c] = q]
  /\ state' = [state EXCEPT ![q] = "RUNNING"]
  /\ phase' = [phase EXCEPT ![c] = "resume"]
  /\ from' = [from EXCEPT ![c] = q + 1]
  /\ UNCHANGED <<pid, parent, containerID, chan, killed, nextpid, ctab, lock,
                 con, local>>

SchedulerRelease(c) ==
  /\ phase[c] = "scan"
  /\ \A q \in Procs : ~Eligible(c, q)
  /\ lock' = NULL
  /\ phase' = [phase EXCEPT ![c] = "loop"]
  /\ from' = [from EXCEPT ![c] = 1]
  /\ NextContainer(c)
  /\ UNCHANGED <<table, ctab, cproc, local>>

(***************************************************************************)
(* Running processes.  Runs(c, p): p runs on CPU c outside every           *)
(* ptable.lock section.  Acquires(c, p): p takes a free ptable.lock.       *)
(* sched(c): p, holding ptable.lock, swtches to c's scheduler, which       *)
(* continues its scan; p's new state is set by the caller.                 *)
(***************************************************************************)
Runs(c, p) == phase[c] = "run" /\ cproc[c] = p
Acquires(c, p) == Runs(c, p) /\ lock = NULL
InSyscall(p) == pc[p] = "sys"

sched(c) ==
  /\ lock' = c
  /\ phase' = [phase EXCEPT ![c] = "scan"]
  /\ cproc' = [cproc EXCEPT ![c] = NULL]
  /\ UNCHANGED <<con, from>>

\* The state of the table after wakeup1 on each channel of the set chs.
wakeup1(chs) ==
  [q \in Procs |-> IF state[q] = "SLEEPING" /\ chan[q] \in chs
                     THEN "RUNNABLE" ELSE state[q]]

goto(p, l) == pc' = [pc EXCEPT ![p] = l]

(***************************************************************************)
(* A process that the scheduler has just switched to still holds           *)
(* ptable.lock: the tails of yield and forkret release it, the tail of     *)
(* sleep clears chan first, and wait() continues with the lock.            *)
(***************************************************************************)
Resume(c, p) ==
  /\ phase[c] = "resume" /\ cproc[c] = p /\ pc[p] # "wait"
  /\ lock' = NULL
  /\ phase' = [phase EXCEPT ![c] = "run"]
  /\ IF pc[p] = "sleep"
       THEN chan' = [chan EXCEPT ![p] = NULL] /\ goto(p, "again")
       ELSE UNCHANGED <<chan, pc>>
  /\ UNCHANGED <<state, pid, parent, containerID, killed, nextpid, ctab,
                 cproc, con, from, loc>>

(***************************************************************************)
(* trap() looks at killed when a system call starts and again when it      *)
(* returns; a kill() in between is seen only at the return.  "sys" is the  *)
(* part of a system call before its first critical section, "user" the     *)
(* part after its last one and the user program.                           *)
(***************************************************************************)
syscall(c, p) ==
  /\ Runs(c, p) /\ pc[p] = "user" /\ ~killed[p]
  /\ goto(p, "sys")
  /\ UNCHANGED <<table, ctab, cpus, loc>>

\* A call that leaves everything modelled here as it is: getpid, ps, getcid,
\* a fork with no free slot, a create with no free container, or a wait whose
\* condition holds or that finds killed set after waking up.
sysret(c, p) ==
  /\ Runs(c, p) /\ (InSyscall(p) \/ pc[p] = "again")
  /\ goto(p, "user")
  /\ UNCHANGED <<table, ctab, cpus, loc>>

(***************************************************************************)
(* The timer interrupt: yield().  No interrupt arrives while the process   *)
(* holds the condition lock of a sleep ("check").                          *)
(***************************************************************************)
yield(c, p) ==
  /\ Acquires(c, p) /\ pc[p] # "check"
  /\ state' = [state EXCEPT ![p] = "RUNNABLE"]
  /\ sched(c)
  /\ UNCHANGED <<pid, parent, containerID, chan, killed, nextpid, ctab, local>>

(***************************************************************************)
(* fork(): allocproc reserves the first UNUSED slot under the lock; the    *)
(* copying of the process happens outside it and may fail; the child       *)
(* becomes RUNNABLE, in container 0, under the lock again.  The error      *)
(* paths write the state of the slot without the lock and keep its pid.    *)
(***************************************************************************)
\* Slip: an EMBRYO slot is taken for a free one.
FirstUnusedOrEmbryo(np) ==
  LET free == {q \in Procs : state[q] \in {"UNUSED", "EMBRYO"}}
  IN  np \in free /\ \A q \in free : np <= q

FirstUnused(np) ==
  state[np] = "UNUSED" /\ \A q \in Procs : q < np => state[q] # "UNUSED"

\* Slip: p->pid = nextpid, without the increment.
takePidAgain(np) ==
  /\ nextpid <= MaxPid
  /\ pid' = [pid EXCEPT ![np] = nextpid]
  /\ UNCHANGED nextpid

takePid(np) ==
  /\ nextpid <= MaxPid
  /\ pid' = [pid EXCEPT ![np] = nextpid]
  /\ nextpid' = nextpid + 1

allocproc(c, p, np) ==
  /\ Acquires(c, p) /\ InSyscall(p)
  /\ FirstUnused(np)
  /\ takePid(np)
  /\ state' = [state EXCEPT ![np] = "EMBRYO"]
  /\ containerID' = [containerID EXCEPT ![np] = 0]
  /\ loc' = [loc EXCEPT ![p].np = np]
  /\ goto(p, "fork")
  /\ UNCHANGED <<parent, chan, killed, ctab, cpus>>

forkFail(c, p) ==
  /\ Runs(c, p) /\ pc[p] = "fork"
  /\ state' = [state EXCEPT ![loc[p].np] = "UNUSED"]
  /\ loc' = [loc EXCEPT ![p].np = NULL]
  /\ goto(p, "user")
  /\ UNCHANGED <<pid, parent, containerID, chan, killed, nextpid, ctab, cpus>>

forkCopy(c, p) ==
  /\ Runs(c, p) /\ pc[p] = "fork"
  /\ parent' = [parent EXCEPT ![loc[p].np] = p]
  /\ goto(p, "fork2")
  /\ UNCHANGED <<state, pid, containerID, chan, killed, nextpid, ctab, cpus, loc>>

forkDone(c, p) ==
  LET np == loc[p].np IN
  /\ Acquires(c, p) /\ pc[p] = "fork2"
  /\ state' = [state EXCEPT ![np] = "RUNNABLE"]
  /\ containerID' = [containerID EXCEPT ![np] = 0]
  /\ pc' = [pc EXCEPT ![p] = "user", ![np] = "user"]
  /\ loc' = [loc EXCEPT ![p].np = NULL]
  /\ UNCHANGED <<pid, parent, chan, killed, nextpid, ctab, cpus>>

(***************************************************************************)
(* exit(), called by the process itself or by trap() on its way back to    *)
(* user space when it has been killed.  The release of its files and cwd   *)
(* changes nothing here.  init may not exit: panic() stops the CPU (phase  *)
(* is then the message).                                                   *)
(***************************************************************************)
Children(p) == {q \in Procs : parent[q] = p}
ZombieChildren(p) == {q \in Children(p) : state[q] = "ZOMBIE"}

\* Slip: only init is told, of the zombies it adopts.
exitWakesInit(p) == {initproc : q \in ZombieChildren(p)}

\* The channels exit() wakes.
exitWakes(p) ==
  {parent[p]} \cup {initproc : q \in ZombieChildren(p)}

\* Slip: the children keep their exited parent.
keepChildren(p) == UNCHANGED parent

passChildren(p) ==
  parent' = [q \in Procs |-> IF parent[q] = p THEN initproc ELSE parent[q]]

exit(c, p) ==
  /\ Acquires(c, p) /\ pc[p] = "user" /\ p # initproc
  /\ state' = [wakeup1(exitWakes(p)) EXCEPT ![p] = "ZOMBIE"]
  /\ passChildren(p)
  /\ sched(c)
  /\ UNCHANGED <<pid, containerID, chan, killed, nextpid, ctab, local>>

initExits(c) ==
  /\ Runs(c, initproc) /\ pc[initproc] = "user"
  /\ Polite => killed[initproc]
  /\ phase' = [phase EXCEPT ![c] = "init exiting"]
  /\ UNCHANGED <<table, ctab, lock, cproc, con, from, local>>

(***************************************************************************)
(* wait(): with ptable.lock held from the call or from waking up, free the *)
(* first ZOMBIE child, or give up, or sleep on the process's own slot.     *)
(* The reaped slot keeps its containerID.                                  *)
(***************************************************************************)
InWait(c, p) ==
  \/ Acquires(c, p) /\ InSyscall(p)
  \/ phase[c] = "resume" /\ cproc[c] = p /\ pc[p] = "wait"

\* Slip: wait() does not look at killed.
HasKids(p) == Children(p) # {}

WorthWaiting(p) == Children(p) # {} /\ ~killed[p]

\* wait() returns: chan was cleared by the tail of sleep, the lock is released.
LeaveWait(c, p) ==
  /\ chan' = [chan EXCEPT ![p] = NULL]
  /\ goto(p, "user")
  /\ lock' = NULL
  /\ phase' = [phase EXCEPT ![c] = "run"]
  /\ UNCHANGED <<containerID, nextpid, ctab, cproc, con, from, loc>>

waitReap(c, p, q) ==
  /\ InWait(c, p)
  /\ q \in ZombieChildren(p) /\ \A r \in ZombieChildren(p) : q <= r
  /\ pid' = [pid EXCEPT ![q] = 0]
  /\ parent' = [parent EXCEPT ![q] = NULL]
  /\ killed' = [killed EXCEPT ![q] = FALSE]
  /\ state' = [state EXCEPT ![q] = "UNUSED"]
  /\ LeaveWait(c, p)

waitFail(c, p) ==
  /\ InWait(c, p)
  /\ ZombieChildren(p) = {} /\ ~WorthWaiting(p)
  /\ LeaveWait(c, p)
  /\ UNCHANGED <<state, pid, parent, killed>>

waitSleep(c, p) ==
  /\ InWait(c, p)
  /\ ZombieChildren(p) = {} /\ WorthWaiting(p)
  /\ chan' = [chan EXCEPT ![p] = p]
  /\ state' = [state EXCEPT ![p] = "SLEEPING"]
  /\ goto(p, "wait")
  /\ sched(c)
  /\ UNCHANGED <<pid, parent, containerID, killed, nextpid, ctab, loc>>

(***************************************************************************)
(* The interruptible waits of the kernel (sys_sleep, pipes, the console):  *)
(* with the condition lock held the process tests killed, and then calls   *)
(* sleep(), which takes ptable.lock before it releases the condition lock. *)
(* Awake again ("again") it goes back to the test or leaves the loop.      *)
(* wakeup() is called with the condition lock held, by another process or  *)
(* by an interrupt handler of any CPU.                                     *)
(***************************************************************************)
testKilled(c, p) ==
  /\ Runs(c, p) /\ (InSyscall(p) \/ pc[p] = "again") /\ ~killed[p]
  /\ \A q \in Procs : pc[q] # "check"
  /\ goto(p, "check")
  /\ UNCHANGED <<table, ctab, cpus, loc>>

sleep(c, p) ==
  /\ Acquires(c, p) /\ pc[p] = "check"
  /\ chan' = [chan EXCEPT ![p] = IoChan]
  /\ state' = [state EXCEPT ![p] = "SLEEPING"]
  /\ goto(p, "sleep")
  /\ sched(c)
  /\ UNCHANGED <<pid, parent, containerID, killed, nextpid, ctab, loc>>

wakeup ==
  /\ lock = NULL
  /\ \A q \in Procs : pc[q] # "check"
  /\ state' = wakeup1({IoChan})
  /\ UNCHANGED <<pid, parent, containerID, chan, killed, nextpid, ctab, cpus, local>>

(***************************************************************************)
(* kill(): marks the first slot that carries the pid, whatever its state,  *)
(* and moves it to container 0.                                            *)
(***************************************************************************)
\* Slip: a sleeping process is not woken.
killSlotAsleep(q) ==
  /\ killed' = [killed EXCEPT ![q] = TRUE]
  /\ containerID' = [containerID EXCEPT ![q] = 0]
  /\ UNCHANGED state

killSlot(q) ==
  /\ killed' = [killed EXCEPT ![q] = TRUE]
  /\ containerID' = [containerID EXCEPT ![q] = 0]
  /\ state' = [state EXCEPT ![q] = IF @ = "SLEEPING" THEN "RUNNABLE" ELSE @]

killPid(pd) ==
  \/ \E q \in Procs :
       /\ pid[q] = pd /\ \A r \in Procs : r < q => pid[r] # pd
       /\ killSlot(q)
  \/ (\A q \in Procs : pid[q] # pd) /\ UNCHANGED <<killed, containerID, state>>

sys_kill(c, p, pd) ==
  /\ Acquires(c, p) /\ InSyscall(p)
  /\ killPid(pd)
  /\ goto(p, "user")
  /\ UNCHANGED <<pid, parent, chan, nextpid, ctab, cpus, loc>>

(***************************************************************************)
(* The container system calls.                                             *)
(***************************************************************************)
createContainer(c, p, id) ==
  /\ Runs(c, p) /\ InSyscall(p)
  /\ id # 0 /\ ~containers[id]
  /\ \A i \in Cont : 0 < i /\ i < id => containers[i]
  /\ containers' = [containers EXCEPT ![id] = TRUE]
  /\ cstate' = [cstate EXCEPT ![id] = "CWAITING"]
  /\ goto(p, "user")
  /\ UNCHANGED <<table, cpus, loc>>

\* addProcessToContainer and removeProcessFromContainer (id = 0).
setContainer(c, p, id) ==
  /\ Acquires(c, p) /\ InSyscall(p)
  /\ Polite => id = 0 \/ (p # initproc /\ cstate[id] = "CWAITING")
  /\ containerID' = [q \in Procs |-> IF pid[q] = pid[p] THEN id ELSE containerID[q]]
  /\ goto(p, "user")
  /\ UNCHANGED <<state, pid, parent, chan, killed, nextpid, ctab, cpus, loc>>

\* sys_destroy_container frees the id without the lock, whether or not the
\* id was taken, and goes on to destroyContainer.
sys_destroy_container(c, p, id) ==
  /\ Runs(c, p) /\ InSyscall(p)
  /\ containers' = [containers EXCEPT ![id] = FALSE]
  /\ loc' = [loc EXCEPT ![p].id = id]
  /\ goto(p, "destroy")
  /\ UNCHANGED <<table, cstate, cpus>>

destroyContainer(c, p) ==
  LET id == loc[p].id IN
  /\ Runs(c, p) /\ pc[p] = "destroy"
  /\ cstate' = [cstate EXCEPT ![id] = "CUNUSED"]
  /\ containers' = [containers EXCEPT ![id] = FALSE]
  /\ loc' = [loc EXCEPT ![p].idx = 1]
  /\ goto(p, "scan")
  /\ UNCHANGED <<table, cpus>>

\* Slip: the loop of destroyContainer goes on one slot too far.
MemberBeyond(p, q) == q > loc[p].idx /\ containerID[q] = loc[p].id

\* The loop of destroyContainer: up to the next member, whose pid is kept
\* while the lock is released around kill(), or to the end of the table.
Member(p, q) == q >= loc[p].idx /\ containerID[q] = loc[p].id

destroyFind(c, p, q) ==
  /\ Acquires(c, p) /\ pc[p] = "scan"
  /\ Member(p, q) /\ \A r \in Procs : r < q => ~Member(p, r)
  /\ loc' = [loc EXCEPT ![p].idx = q, ![p].pid = pid[q]]
  /\ goto(p, "kill")
  /\ UNCHANGED <<table, ctab, cpus>>

destroyKill(c, p) ==
  /\ Acquires(c, p) /\ pc[p] = "kill"
  /\ killPid(loc[p].pid)
  /\ loc' = [loc EXCEPT ![p].idx = @ + 1, ![p].pid = 0]
  /\ goto(p, "scan")
  /\ UNCHANGED <<pid, parent, chan, nextpid, ctab, cpus>>

destroyEnd(c, p) ==
  /\ Acquires(c, p) /\ pc[p] = "scan"
  /\ \A q \in Procs : ~Member(p, q)
  /\ loc' = [loc EXCEPT ![p] = NoLocals]
  /\ goto(p, "user")
  /\ UNCHANGED <<table, ctab, cpus>>

\* listContainersHelper takes ptable.lock and returns without releasing it;
\* the next acquire on this CPU then panics.
listContainers(c, p) ==
  /\ Lists
  /\ Acquires(c, p) /\ InSyscall(p)
  /\ lock' = c
  /\ goto(p, "user")
  /\ UNCHANGED <<table, ctab, phase, cproc, con, from, loc>>

acquirePanic(c, p) ==
  /\ Runs(c, p) /\ lock = c
  /\ phase' = [phase EXCEPT ![c] = "acquire"]
  /\ UNCHANGED <<table, ctab, lock, cproc, con, from, local>>

-----------------------------------------------------------------------------
Scheduler(c) ==
  \/ SchedulerSkip(c) \/ SchedulerAcquire(c) \/ SchedulerRelease(c)
  \/ \E q \in Procs : SchedulerRun(c, q)

Fork(c, p) ==
  \/ \E np \in Procs : allocproc(c, p, np)
  \/ forkFail(c, p) \/ forkCopy(c, p) \/ forkDone(c, p)

Wait(c, p) ==
  \/ \E q \in Procs : waitReap(c, p, q)
  \/ waitFail(c, p) \/ waitSleep(c, p)

Destroy(c, p) ==
  \/ destroyContainer(c, p) \/ destroyKill(c, p) \/ destroyEnd(c, p)
  \/ \E q \in Procs : destroyFind(c, p, q)

Process(c, p) ==
  \/ Resume(c, p) \/ syscall(c, p) \/ sysret(c, p) \/ yield(c, p) \/ exit(c, p)
  \/ Fork(c, p) \/ Wait(c, p) \/ Destroy(c, p)
  \/ testKilled(c, p) \/ sleep(c, p)
  \/ \E pd \in KillPids : sys_kill(c, p, pd)
  \/ \E id \in Cont : createContainer(c, p, id)
  \/ \E id \in JoinIds : setContainer(c, p, id)
  \/ \E id \in DestroyIds : sys_destroy_container(c, p, id)
  \/ listContainers(c, p) \/ acquirePanic(c, p)

Next ==
  \/ \E c \in CPUs : Scheduler(c) \/ initExits(c) \/ \E p \in Procs : Process(c, p)
  \/ wakeup

Spec == Init /\ [][Next]_vars

(***************************************************************************)
(* A CPU never stops in its scheduler or in the tail of a switch, and a    *)
(* spinning acquire of ptable.lock succeeds eventually if the lock becomes *)
(* free again and again.  The timer interrupts every running process;      *)
(* kernel code between two locks goes on; a killed process on its way to   *)
(* user space exits; the channel modelled as IoChan is woken at every      *)
(* tick.  Nothing is assumed of user programs.                             *)
(***************************************************************************)
Switched(c, p) == Resume(c, p) \/ (phase[c] = "resume" /\ Wait(c, p))
Kernel(c, p) == sysret(c, p) \/ Fork(c, p) \/ Destroy(c, p) \/ sleep(c, p)
Dies(c, p) == killed[p] /\ exit(c, p)

Fairness ==
  /\ WF_vars(wakeup)
  /\ \A c \in CPUs :
       /\ WF_vars(Scheduler(c)) /\ SF_vars(SchedulerAcquire(c))
       /\ \A p \in Procs : /\ WF_vars(Switched(c, p)) /\ SF_vars(yield(c, p))
                           /\ SF_vars(Kernel(c, p)) /\ SF_vars(Dies(c, p))

-----------------------------------------------------------------------------
(* Properties *)

\* Every field of the tables, of the CPUs and of the kernel stacks stays in
\* the range its C type and the code allow.
TypeOK ==
  /\ state \in [Procs -> ProcStates]
  /\ pid \in [Procs -> Nat]
  /\ parent \in [Procs -> Procs \cup {NULL}]
  /\ containerID \in [Procs -> Cont]
  /\ chan \in [Procs -> Procs \cup {NULL, IoChan}]
  /\ killed \in [Procs -> BOOLEAN]
  /\ nextpid \in Nat
  /\ cstate \in [Cont -> {"CWAITING", "CUNUSED"}]
  /\ containers \in [Cont -> BOOLEAN]
  /\ lock \in CPUs \cup {NULL}
  /\ phase \in [CPUs -> {"loop", "scan", "resume", "run", "acquire", "init exiting"}]
  /\ cproc \in [CPUs -> Procs \cup {NULL}]
  /\ con \in [CPUs -> Cont]
  /\ from \in [CPUs -> 1..(NPROC + 1)]
  /\ pc \in [Procs -> Labels]
  /\ loc \in [Procs -> Locals]

\* A process is RUNNING exactly when a CPU runs it, and no two CPUs ever run
\* on the same kernel stack: between "state = RUNNABLE" in yield() or sleep()
\* and the swtch, no other scheduler can pick the process (proc.c, scheduler,
\* sched).
OneCpuPerProcess ==
  /\ \A p \in Procs : state[p] = "RUNNING" <=> \E c \in CPUs : cproc[c] = p
  /\ \A c, d \in CPUs : c # d /\ cproc[c] = cproc[d] => cproc[c] = NULL

\* A parent asleep in wait() has a child left to wait for, and none of its
\* children is a ZOMBIE: the wakeups in exit(), the one for adopted zombies
\* included, are never lost (proc.c, exit and wait).
NoLostExit ==
  \A p \in Procs : state[p] = "SLEEPING" /\ pc[p] = "wait" =>
     Children(p) # {} /\ ZombieChildren(p) = {}

\* Every process but init has a parent that is neither dead nor a free slot,
\* so that every exited process has someone who can reap it (exit passes the
\* children to init; fork sets parent before the child can run).
ParentAlive ==
  \A p \in Procs \ {initproc} : state[p] \in Live \cup {"ZOMBIE"} =>
     parent[p] # NULL /\ state[parent[p]] \in Live

\* No two slots carry the same non-zero pid, slots abandoned by a failed fork
\* included, so that kill() and join by pid reach at most one process.
UniquePids ==
  \A p, q \in Procs : p # q /\ pid[p] = pid[q] => pid[p] = 0

\* p is in the middle of fork() with slot q as its child.
Makes(p, q) == pc[p] \in {"fork", "fork2"} /\ loc[p].np = q

\* An EMBRYO slot is written without ptable.lock by fork(); it is always in
\* the hands of exactly one process, which is in the middle of fork().
EmbryoPrivate ==
  /\ \A q \in Procs : state[q] = "EMBRYO" <=> \E p \in Procs : Makes(p, q)
  /\ \A p, r, q \in Procs : Makes(p, q) /\ Makes(r, q) => p = r

\* No process is asleep in wait() with its killed flag set: wait() tests
\* killed and goes to sleep in one section of ptable.lock, so that kill()
\* either is seen by the test or finds the process SLEEPING.
KilledNotInWait ==
  \A p \in Procs : ~(state[p] = "SLEEPING" /\ pc[p] = "wait" /\ killed[p])

\* A container that has been destroyed, with no destroy_container() still in
\* progress for it, has no live member: the loop of destroyContainer misses
\* nobody although it drops ptable.lock around each kill() (proc.c:126-134).
DestroyedIsEmpty ==
  \A i \in Cont :
    /\ cstate[i] = "CUNUSED"
    /\ \A p \in Procs : pc[p] \in {"destroy", "scan", "kill"} => loc[p].id # i
    => \A q \in Procs : containerID[q] = i => state[q] \notin Live

\* A RUNNABLE process runs again: the container-by-container round of
\* scheduler() starves nobody ("Give up the CPU for one scheduling round").
RunnableRuns ==
  \A p \in Procs : state[p] = "RUNNABLE" ~> state[p] = "RUNNING"

\* A live process that has been killed dies, wherever in the kernel the
\* kill() found it ("Process won't exit until it returns to user space").
KilledDies ==
  \A p \in Procs : killed[p] /\ state[p] \in Live ~> state[p] \notin Live

\* A process is born alive: killed means that the process has been killed
\* (proc.h:49), not that its slot was.
BornAlive ==
  [][\A p \in Procs : state[p] = "UNUSED" /\ state'[p] = "EMBRYO"
                        => ~killed'[p]]_vars
=============================================================================
