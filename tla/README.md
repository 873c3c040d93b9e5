# TLA+ models of the A3 kernel

The repository is xv6 for the x86 with an extension: *containers*, groups of
processes that the scheduler serves in turn, with system calls to create, join,
leave, destroy and list them. The modules in this directory model the kernel,
the image that `mkfs` builds, and the shell with the programs it needs, from
their C code; TLC checks them on small instances, and TLAPS proves for all of
them the safety of the process and container tables and of the buffer cache,
that the log makes transactions atomic across crashes, that a pipe is a queue,
that the console delivers what is typed, and that the references to inodes are
counted.

## Inventory

| part | state | operations | behaviours that are hard to test |
|---|---|---|---|
| process table, scheduler (`proc.c`, `trap.c`, `sysproc.c`) | `ptable.proc[]`, `nextpid`, `cpu->proc`, `ptable.lock` | `fork`, `exit`, `wait`, `sleep`, `wakeup`, `kill`, `yield`, `sched`, `scheduler` | the lock is handed from process to scheduler to process across `swtch`; `fork` works on its slot without the lock; killed is tested before a sleep |
| containers (`proc.c`, `sysproc.c`, `syscall.c`) | `ctable.container[]`, `containers[]`, `proc.containerID` | create, join, leave, destroy, list, `container_malloc` | `destroyContainer` drops the lock around each `kill`; ids are freed without a lock; the scheduler skips containers that are not `CWAITING` |
| buffer cache, sleep-locks, disk queue (`bio.c`, `sleeplock.c`, `ide.c`) | `struct buf`, MRU list, `idequeue` | `bget`, `bread`, `bwrite`, `brelse`, `acquiresleep`, `releasesleep`, `iderw`, `ideintr` | lookups racing with recycling and release; an interrupt that completes requests |
| log (`log.c`) | `log.lh`, `outstanding`, `committing`, the log on disk | `begin_op`, `log_write`, `end_op`, commit, recovery | a crash between any two disk writes, again during recovery; waiting for log space |
| pipes (`pipe.c`) | ring buffer, unsigned counters, open ends | `pipealloc`, `pipewrite`, `piperead`, `pipeclose` | wrap-around; a write that sleeps half-way; close and kill against sleepers |
| open files (`file.c`, `sysfile.c`) | `ftable`, `proc.ofile[]` | open, dup, close, read, write, pipe | a table that is full half-way; the last close of a pipe end in two sections; container tests on `f->ip` of a pipe |
| inodes, directories (`fs.c`, `sysfile.c`) | `icache`, disk inodes, bitmap, directories | `iget`, `iput`, `ialloc`, `balloc`, link, unlink, create, `namex` | `iput` against `iget`; link counts when a step fails; recycled cache entries keep `containerID` |
| file content (`fs.c`, `file.c`, `mkfs.c`) | `addrs[]`, indirect blocks, offsets | `bmap`, `readi`, `writei`, `itrunc`, `dirlink`, the image of `mkfs` | the border to the indirect block, the largest file, a full disk |
| memory (`kalloc.c`, `vm.c`, `exec.c`) | free list, page tables, container page table | `kalloc`, `kfree`, `allocuvm`, `copyuvm`, `exec`, `sbrk` | running out of pages in the middle of an operation |
| console (`console.c`) | input ring `r`, `w`, `e` | `consoleintr`, `consoleread` | interrupt against reader |
| init and shell (`init.c`, `sh.c`, `echo.c`, `cat.c`) | descriptors, children | the parser, `runcmd`, pipelines, redirections, background jobs | a descriptor left open keeps a reader waiting; tables full in the middle of a line |
| user allocator (`umalloc.c`) | circular free list | `malloc`, `free` | coalescing |

All rows but the last are modelled. The section *Not modelled* lists what is
left out, and why.

## Modules

### `Proc`: processes, containers, schedulers

One variable per field of `struct proc` that matters to control (`state`, `pid`,
`parent`, `containerID`, `chan`, `killed`), the container table (`cstate`,
`containers`), per CPU what `scheduler()` is doing (`phase`, `cproc`, `con`,
`from`), the holder of `ptable.lock` (`lock`), and per process where it goes on
in the kernel (`pc`, `loc`).

A section of a spin lock with no context switch is one action. A section that
calls `sched()` is not: in the code the lock stays held while the CPU returns to
its scheduler, continues its scan and switches to the next process, which
releases it. So `lock` stays set from `yield`, `sleep`, `exit` or `waitSleep`
through `SchedulerRun` to `Resume` (the tails of `yield`, `sleep` and `forkret`)
or to the next round of `wait()`.

Everything the code does without a lock is a separate step that the timer can
preempt: the copying half of `fork` (`forkCopy`, or `forkFail`), the loop of
`destroyContainer` (`destroyFind`, `destroyKill`, `destroyEnd`), and the test of
killed before an interruptible sleep (`testKilled`, `sleep`). `trap()` looks at
killed when a system call begins (`syscall`) and on the way back to user space
(`exit` from label `user`). `IoChan` stands for any channel other than a `struct
proc` (ticks, pipes, console). Panics are phases of a CPU.

Names follow the code; a few actions split one function (`waitReap`, `waitFail`,
`waitSleep` are the three outcomes of a round of `wait()`). Operators called
*Slip* are plausible mistakes that no specification uses; replacing the
definition after them by the slip breaks a property.

The constants say which calls user programs make: the pids they kill, the ids
they join and destroy, whether they call `list_containers`. With `Polite` they
join only containers that exist, and init stays in container 0 and does not exit
(its loop in `init.c`). `MCProc` adds `FromOutside` for one liveness run: nobody
destroys the container it is in.

### `Log` and `AtomicLog`

`Log` is `log.c` over a cache and a disk whose block writes are atomic. `crash`
is enabled in every state, recovery and panic included, and leaves only the
disk. The unlocked tests at the head of `log_write` are a step of their own
(`modify` ends after them). The cache fills and evicts at will under the rules
of `bget`. `AtomicLog` is the promise: operations update one current state,
which becomes durable all at once while no operation is active, and a crash
returns to the durable state. The refinement maps `durable` to what recovery
would leave on the disk now, and `current` to the cache over the disk.

### `Bcache`

`bio.c`, `sleeplock.c` and the queue of `ide.c`, for processes that hold one
buffer at a time. The MRU list is a sequence; `ideintr` completes the head of
the queue and wakes its process in one section of `idelock`. `stored` is a
history variable: the last value stored in each block.

### `Pipe` and `Fifo`

`pipe.c` with counters modulo `UINT`. `p->lock` is held across two actions where
the test of killed and the sleep must be apart. `Fifo` is a bounded queue of
bytes; the refinement maps the ring between the two counters to the queue.

### `Inode`

`fs.c` and the calls of `sysfile.c` that name files. `dinode`, `dents` and
`bitmap` are the disk, `ic` is `icache`; a process has one descriptor (`fd`),
its `cwd`, and in a call the entries that the C variables `dp` and `ip` point
to. An inode lock is a guard, and an action goes from one lock to the next.
`iput` is three actions (`iput`, `iputFree`, `iputDec`), because its test and
its decrement are in different sections; `iputThen` says which entry is given
back and where the caller goes on. `found` and `parent` are the ends of `namei`
and `nameiparent`; the actions of the calls start there. `openPath` is the
renaming of `sys_open`: the container's digit behind the path, and "." for any
path that begins with a dot. A cache entry keeps its `containerID` when it is
recycled.

Calls and their number per process are constants. Scans of the bitmap and of the
inode blocks, and the freeing of a file's blocks in `itrunc`, are atomic: each
step is a `log_write` in one transaction group, so no crash separates them.

### `Content` and `ByteFile`

The layer below: how `bmap`, `readi`, `writei` and `itrunc` lay bytes out in
direct and indirect blocks, and how `fileread`, `filewrite` and the directory
functions use them. Each of these holds the lock of its inode and shares only
the bitmap, so a call is one action; `filewrite` is one action per transaction
(`CHUNK`), and others come in between. `mkfs` is an operator that computes the
first image as `main` and `iappend` do, the rounding of the root's size
included. A directory entry is one byte. `ByteFile` is the promise: files are
sequences of bytes of bounded length, every open file has an offset, and the
root directory is a file of entries. The refinement maps `bytes` to what the
block lists lead to.

### `Memory` and `Spaces`

`kalloc.c`, the two-level page tables of `vm.c`, and `fork`, `exec`, `sbrk`,
`exit`, `wait` and `container_malloc` as far as pages go. `kmem.lock` covers one
`kalloc`, so a call is cut at every `kalloc`; each may fail, and its error path
(`freevm`, `deallocuvm`, `kfree`) is an action. A page is seen as directory,
page table or memory; `nfree` counts how often it is on the free list, so that a
double free is a state and not an error. `Spaces` is the promise: every process
has a private sequence of pages, changed by its own stores, `sbrk` and a
successful `exec`, and copied by `fork`; a call that fails leaves every space as
it was. The mapping reads a space through the page table. `Vanish` is in
`Spaces` because of what the code does: `sbrk(-sz)` gives all pages back, and
`growproc` takes the new size 0 for a failure and keeps `sz`.

### `Console` and `Tty`

The interrupt handler, readers, writers, `cprintf` and `panic` of `console.c`. A
character of output is an action, because a panicking CPU prints without
`cons.lock` and stops the others inside `consputc`. `Tty` is the promise: a line
can be edited until it is ended, ended lines are delivered once and in order.
The refinement cuts the ring at `w`.

### `File`, `ShParse` and `Shell`

`File` has the file table, the descriptors and the pipe ends as operators on its
variables; its calls become actions in `Shell`. The last `fileclose` of a pipe
end is two steps, as in the code: the reference goes under `ftable.lock`, then
`pipeclose` runs. A pipe's bytes are a queue, which `Pipe` justifies. `f->ip` of
a slot keeps the inode of the file before it, or is null (`Used`), because
`pipealloc` does not set it and `sys_close` and `sys_write` read
`f->ip->containerID` whatever the type of the file.

`ShParse` is the recursive parser of `sh.c` on tokens. `Shell` runs `init`, the
shell, `echo` and `cat`: `runcmd` turns a command into the sequence of system
calls it makes, and one action carries out the first call of one process.
`Meaning` is the reference semantics of a command, a function of files and
standard input that knows no processes.

The models compose where components interact: `Shell` runs on `File` and uses
`ShParse`; `Proc` composes processes, containers and schedulers; `Bcache`
composes cache, sleep-locks and disk queue. Elsewhere one model relies on what
another shows: `Log` on the rules of `bget` that `Bcache` checks, `File` on the
queue that `Pipe` implements, `Inode` and `Content` on transactions that `Log`
makes atomic.

## Runs

A run is `tlc -config X.cfg M`, where `M` is `MCProc` for `MCProc`, `MCCont` and
`MCSched`, `Bcache` for `MCBcache`, `MCShell` for `MCShellFresh`, and otherwise
has the name of the run.

| run | question | bounds |
|---|---|---|
| `MCProc` | is the process table consistent with two CPUs, preemption, kill, failing forks? are half-built slots private? | 3 slots, 2 CPUs, 4 pids |
| `MCCont` | with containers and `list_containers`: pids, killed waiters, emptiness of a destroyed container | 3 slots, 1 CPU, 2 containers |
| `MCSched` | does every RUNNABLE process run, does every killed process die? | 2 slots, 1 CPU, 2 containers |
| `MCLog` | atomic commit across crashes, wakeups of `begin_op` | 2 processes, 2 blocks, log of 3 |
| `MCBcache` | one buffer per block, exact counts, no lost store or wakeup, requests complete | 2 processes, 2 buffers, 3 blocks |
| `MCPipe` | queue semantics, sleepers, end of file | a reader, a writer and a process that is both, ring of 2, counters modulo 4 |
| `MCInode` | reference counts, use after free, link counts, blocks; where can inode locks be waited for in a circle? | 2 processes in 2 containers, 3 and 2 calls, 4 inodes, cache of 3, 2 blocks |
| `MCContent` | are files sequences of bytes? does every block have one owner, every byte a block? | 2 open files, blocks of 2 bytes, 1 direct and 2 indirect blocks, 8 blocks, offsets modulo 16 |
| `MCMemory` | is every page in one place? do sizes and page tables agree? are spaces private and calls all-or-nothing? | 2 slots, 7 or 16 pages, page tables of 2 entries, spaces of up to 3 pages |
| `MCConsole` | are characters delivered once and in order? who holds `cons.lock`? does a reader sleep beside a line? | 2 readers, 1 writer, ring of 2, indices modulo 4 |
| `MCShell` | reference counts, pipe ends; does a line do what it means, does the prompt come back? does the parser invert the printed form? | 4 commands, garbage, tables of three sizes, pipes of 1 byte |
| `MCShellFresh` | the prompt again, on a file table that is fresh from the boot: violated | the same, `Used` empty |

The type invariant of a module (`TypeOK`) is checked with the invariant that
names it, in `Proc` by itself.

*Why the bounds are enough to be interesting.* Three slots give a grandparent,
parent and child (orphans, adopted zombies), reuse of a slot, and a container
with two members. Two CPUs give every race of two critical sections; the
container runs have one CPU because preemption already interleaves the unlocked
steps. `MaxPid` bounds the number of forks, four in `MCProc`, so that slots are
reused. Two blocks and a log of three let one transaction absorb a repeated
write and two operations compete for space. Three blocks in two buffers force
recycling. A ring of two with messages of three bytes makes writers sleep
half-way; counters modulo four wrap around twice the ring size; a second reader
may take what the first was waiting for.

In `MCInode` one process makes, fills, enters and removes a directory while the
other creates, links and unlinks the same names; three cache entries force
recycling and the panic of `iget`, two blocks that of `balloc`. Running out of
inodes needs more calls than the bound allows and is not reached.

In `MCContent` a file spans the direct and both indirect blocks, writes of four
bytes take two transactions, and the disk is full before every file has its
largest size.

In `MCMemory` seven pages are what init needs and two more, so that nearly every
call fails at some `kalloc`; with sixteen a process can exec, fork and go on
beside its child. The program has a segment with more memory than file and one
inside the first, as exec allows.

In `MCConsole` a read is longer than the ring, one reader may take the line the
other waits for, and all indices wrap around.

In `MCShell` the commands have every construct, and the tables are large enough,
or one too small in processes and pipes, or in descriptors, so that a line fails
half-way; a pipe of one byte makes every writer wait.

`MCMemory` has a view: pages are alike, so it keeps what each page table leads
to, the number of free pages and whether the pages are accounted for, and
forgets which page stands where. `kalloc` takes the lowest free page for the
head of the list, and no guard compares page numbers. `MCContent` has one that
leaves out `got`, which no action reads. The readers of `MCConsole` are
symmetric: no definition names one of them.

Deadlock is checked where the system cannot stop (`MCLog`, `MCPipe`, `MCSched`,
`MCShell`). `MCProc` and `MCCont` contain the panics of `exit` and `acquire`,
and `MCBcache` that of `bget`, after which the machine stands still; the calls
of `MCInode` are bounded, and processes may wait for each other
(`MCInodeDeadlock`). `MCContent` stops at the panic of `balloc`, `MCConsole` at
that of the CPU, and in `MCMemory` processes may all have lost their memory or
have exited.

### What fails, and why

`MCShellFresh`: `pipealloc` leaves `f->ip` as it is, and `sys_close` and
`sys_write` read `f->ip->containerID` (`sysfile.c:99`, `121`). In a slot that no
file has used since the boot `ip` is null, and the word they read is whatever
the program has at that address. Where it is not 0, write and close of that end
fail; the reader of a pipeline keeps the write end open itself and waits for
ever. The test `pipe1` (`usertests.c:322-329`) writes to a pipe and closes its
end. `MCShell` shows that nothing else keeps the prompt from coming back.

Five more configurations state properties that the code does not have. They
answer questions a reader will ask; TLC finds the violation in each
(`MCSelfDestroy` and `MCBorn` with module `MCProc`, `MCLogFull` with `MCLog`,
`MCInodeLeak` and `MCInodeDeadlock` with `MCInode`):

* `MCSelfDestroy`: `destroyContainer` sets `CUNUSED` before it kills the members
  (`proc.c:119`). A caller that is itself a member and is preempted by the timer
  in between is skipped by the scheduler from then on, and the other members are
  never killed.
* `MCBorn`: `wait` leaves `containerID` in the freed slot; `destroyContainer`
  then finds the free slot and calls `kill(0)`, which marks the first free slot;
  `allocproc` does not clear the mark and the next child dies at its first trap.
* `MCLogFull`: `begin_op` counts `LOGSIZE` blocks, but the log made by `mkfs`
  has `LOGSIZE` blocks *with* the header, and the guard in `log_write` is read
  without the lock.
* `MCInodeLeak`: `iput` tests `nlink` and `ref` under `ip->lock` and decrements
  `ref` after it. A close that saw the link and an unlink that saw the reference
  each leave the inode to the other; nobody frees it.
* `MCInodeDeadlock`: `create` holds the new inode when `iunlockput(dp)` locks
  the directory again; an unlink of the same name holds the directory and waits
  for the inode. The same happens between two calls of `sys_unlink` for two
  links to one file. `CirclesNeedPut` in `MCInode` states that there is no other
  way to a circle.

Some behaviours are in the models, or in the code next to them, without a run of
their own:

* a `join_container` of an id that nobody created is never scheduled;
* `list_containers` returns with `ptable.lock` held (`listContainers`,
  `acquirePanic`);
* a file created in a directory that was removed after `nameiparent` returned it
  keeps its link count and has no name; in `MCInode` only one process creates
  files in the directory;
* a writer killed in a full pipe does not wake the readers, the exception in
  `SleepersWait`;
* `bget` panics when every buffer is in use (`bio.c:92`);
* `mkfs` rounds the size of the root directory up (`mkfs.c:161`): if the entries
  fill their blocks exactly, the size covers a block that is not there, and
  `SizeIsMapped` fails. The image of the Makefile has 19 entries and is not at
  such a border; neither is the one of `MCContent`.

## Fairness

`Proc`: schedulers and the tail of a switch are weakly fair, because a CPU never
stops. Acquiring `ptable.lock` is strongly fair: `acquire` spins with an atomic
exchange, and on a machine where the lock becomes free again and again the
exchange succeeds. The timer preempts every running process (`yield`), kernel
code between two locks goes on, a killed process that returns to user space
exits, and the channel is woken at every tick. Nothing is assumed of user
programs. `Log`: operations that have begun end, a commit goes on, recovery goes
on; crashes are unrestricted. `Bcache`: the disk answers, and a holder releases
its buffer. `Pipe`: kernel code goes on; nothing of the programs. `Shell`: some
process that can go on does (one weak fairness for all of them together), which
is less than the scheduler gives; nothing of the user, who may never type.
`Inode`, `Content`, `Memory` and `Console` have safety properties only.

## Proofs

### The process table

`ProcProofs` and `ProcFamily` prove the safety of `Proc` for every number of
slots, CPUs, containers and pids, under `ProcConstants` (the sizes are positive,
the ids that programs pass are in the table), whatever programs do (`Polite` or
not; the theorem about containers excepted).

The invariants that TLC checks are not inductive one by one. `IInv` is:

* `TypeInv`: the types, and that the loop index of `destroyContainer` names a
  slot while it is inside `kill` (otherwise the increment leaves the table).
* `CpuInv`: a CPU that scans or has just switched holds `ptable.lock`, so at
  most one does; `cpu->proc` is null exactly in the scheduler loop. This is what
  makes `OneCpuPerProcess` inductive: a process that leaves a CPU changes its
  state under the lock that the next scan needs.
* `ForkInv`: a dead or half-built slot is in no system call, a process in `fork`
  has a slot, and `EmbryoPrivate`. Without it the unlocked writes of `fork`
  (`forkFail`, `forkDone`) could hit a running process.
* `FamilyInv`: init lives and has no parent, free slots have none, the slot in
  `fork` has none before the copy and its maker after it, nobody is its own
  parent, and `ParentAlive`.
* `WaitInv`: whoever sleeps in `wait` sleeps on its own slot, so that the wakeup
  of `exit` reaches it; `NoLostExit`, `KilledNotInWait`.
* `PidInv`: all pids in the table are below `nextpid`; `UniquePids`.

Each part has a step lemma (`TypeStep`, `CpuStep`, `ForkStep`, `FamilyStep`,
`WaitStep`, `PidStep`) with one case per action. Effect lemmas (`CpuKeep`,
`CpuPhase`, `CpuStop`, `ForkKeep`, `FamilyKeep`, `WaitKeep`) say what kind of
step keeps a part, so that most cases only show which kind the action is.
`Invariance` combines them, and the theorems `OneCpu`, `ForkPrivate`, `Cared`,
`ExitNotLost`, `KillReachesWait`, `PidsUnique` and `TypeCorrect` follow.

`DestroyMissesNobody` is `DestroyedIsEmpty`, from two assumptions on programs:
they join only containers that exist (`Polite`), and nobody destroys container
0. Without the first a process may join after the loop is through, and
container 0 is where every killed process goes. `DestroyInv` says who is still
going to kill a live member of a destroyed container (`Pending`): a process in
the loop of `destroyContainer` that has the slot before it, or has released the
lock to kill exactly the pid that is in it. That the pid still names the same
process when `kill` runs is `UniquePids`; that nobody else enters is `Polite`.
The invariant needs no order between two calls of `destroy_container` for one
id, nor that the id is not created again meanwhile.

### The log

`LogProofs` proves that `Log` implements `AtomicLog` for every number of
processes and blocks and every size of the log, with crashes at any point, under
`LogConstants`: the sets of processes and blocks are finite, and the log has room for one operation (`param.h`: `LOGSIZE` is three times
`MAXOPBLOCKS`). Without the latter `begin_op` would wait for ever, with nobody
to wake it. Nothing is assumed of `NLOG`, the size of the log on the disk.

The inductive invariant `IInv`:

* `LType`: the types.
* `CountInv`: `log.outstanding` counts the processes between `begin_op` and
  `end_op`, `log.committing` is set exactly while one process commits, which it
  does alone; outside both the log is empty.
* `WaitInv`: the sleepers of `begin_op`.
* `SpaceInv`: the blocks in the log and those that the active operations may
  still add (`Reserved`: a pair for each process and each block it has not used)
  fit into `LOGSIZE`. The test of `begin_op` charges `MAXOPBLOCKS` for every
  active operation, used or not, so it leaves room for all of them.
* `CacheInv`: a block whose cached content differs from its home location is
  locked by an operation, or is in the log and pinned by `B_DIRTY`. This is why
  an eviction loses nothing, and why a block outside the log needs no install.
* `DiskInv`: no block is in the log twice (absorption); the header on the disk is
  empty, or it is the log, whose blocks are then complete; `Phase` says how far
  `write_log` and `install_trans` have come.

`SleepersHaveWakers` and `ReservationSuffices` follow from it. For the
refinement, `durable` is what recovery would leave on the disk (`Recovered`), and
`current` is what calls read. `write_head` is the step `Commit`; the install, the
erase, and every step of recovery leave both as they are, because the header
names each block that an install changes (`RecoveredInstall`), and because the
log is erased only when all of it is installed (`RecoveredInstalled`).
`AtomicAcrossCrashes` is the theorem.

### The buffer cache

`BcacheProofs` proves `OneBufferPerBlock` (`NoSecondCopy`), `SeesLastStore`
(`NoLostStore`), `SleeperHasHolder` (`NoLostRelease`) and `CountsUsers`
(`CountsAreUsers`) for every number of processes, buffers and blocks, under `BcacheConstants` (there are finitely many
processes, and block 0, which `binit` leaves in every buffer, is not one that
is read). The inductive invariant `BInv`:

* `BType`: the types. `ListInv`: the MRU list has every buffer once. Only
  `CountsUsers` needs it; the others hold whichever free buffer `bget` takes.
  `FrontKeepsList` shows that the moves of `brelse` lose no buffer.
* `RefInv`: `refcnt` is the number of processes between `bget` and the end of
  `brelse`, so a buffer that may be recycled is nobody's (`Unused`).
* `LockInv`: the holder of the sleep-lock is the process past `acquiresleep`, and
  a sleeper's lock has a holder.
* `QueueInv`: the driver's queue has the buffers of waiting processes, each once.
  That a buffer is not queued twice follows from the sleep-lock.
* `DataInv`: one buffer per block; a valid buffer has the last store, and the
  disk has it too unless the buffer is dirty. With `RefInv` this is why `bget`
  may take a clean buffer without writing it.

### Rings

Pipes and the console index their rings with unsigned integers that wrap around.
`RingArithmetic` has the facts about integers that both need: the difference of
two such counters is a distance (`Distance`, `Advance`), and when the ring size
divides 2^32 the place of a counter in the ring does not jump where it wraps
around (`SlotWrap`), so that indices less than a ring apart have different places
(`DistinctSlots`). With a ring size that does not divide it, `SlotWrap` is
false; `PipeConstants` and `ConsoleConstants` assume it of `PIPESIZE` and
`INPUT_BUF`, which are powers of two.

### Pipes

`PipeProofs` proves `SleepersWait` (`NoLostWakeup`) and `ImplementsFifo`
(`RingIsFifo`) for every number of readers and writers, processes that are both
included, every ring size and every set of messages. The inductive invariant
`PInv`:

* `TypeOK`: the types, and the counters are at most `PIPESIZE` apart;
* `LockInv`: `p->lock` is held from a test to the sleep after it;
* `EndsInv`: the end of the pipe by which a call came stays open during it;
* `WaitInv`: what a process has found under the lock (the ring full, or empty
  and the write end open) still holds when it sleeps, up to the exceptions in
  `SleepersWait`.

The first attempt to prove `SleepersWait` failed with two readers, for a good
reason: after a writer was killed in a full pipe and left without a wakeup,
another reader may take part of the bytes and leave the first asleep beside the
rest. The property says so now. For the refinement `WritePuts` and
`ReadGets` show that a byte stored at `nwrite` and bytes read at `nread` are at
the ends of the sequence that `Bytes` reads off the ring.

### Console

`ConsoleProofs` proves `LockHeldByUser` (`LockHasOneUser`), `SleeperHasNoInput`
(`NoLostLine`) and `ImplementsTty` (`RingIsTty`) for every number of readers and
writers, every ring size and every length of messages. The inductive invariant
`ConsInv`:

* `RingInv`: going round from `r`, `w` comes before `e`, and `e` is at most
  `INPUT_BUF` away;
* `ProcInv`: the types; `ReadInv`: a reader in its loop has something left to
  read, and one that sleeps or is about to has seen no ended line;
* `LockInv`: `cons.lock` is held exactly by who is between acquire and release. A
  `cprintf` that waits for the lock has read `locking` before, and releases by
  that copy, not by `cons.locking`, which `panic` may clear in between.

For the refinement `Seg` cuts the ring into the characters between two indices.
`SegSplit` (adjacent parts), `SegStore` (a store outside a part does not change
it) and `SegOne` turn each action into one of `Tty`: a typed character is
`Type`, backspace and a round of ^U `Erase`, a character that `consoleread` takes
`Deliver`, and one it puts back (^D after other characters) a stutter.

### The inode cache

`InodeProofs` proves `RefsCounted` (`ReferencesAreCounted`) and that inode locks
exclude (`LocksExclude`) for every number of processes, cache entries, inodes and
blocks and every set of calls, under `InodeConstants` (finitely many processes
and names; calls name at least one component; the name that `sys_open` tags with
a container is not a dot, for which `Tagged` has no value). Nothing is used of
what the disk holds. The inductive invariant `IInv`:

* `Fits`, for each process: which of `dp`, `ip` and the argument of `iput` are in
  use follows from where it is (`Stage`), and `iput` does not lock an entry that
  its caller has locked. Without the latter the unlock in `iput` would release a
  lock that the caller still counts on.
* `LockInv`: the holder of `ip->lock` is the process that is where the code holds
  it (`HoldsOf`).
* `OneEntry` and `RefInv`, the two halves of `RefsCounted`. `OneEntry` needs that
  `iget` recycles only entries that no pointer leads to, and so `RefInv`.

A step of a process is described by its new values (`Sets`), what it does to the
cache (`CacheStep`: which entry gets a reference and which loses one), that the
pointers of the process change by the same (`Balance`), and its locks
(`LockStep`); `Step` shows once that such a step keeps the invariant. An action's
lemma says only which step it is. The one argument across processes is
`LastUnlocked`: when `iput` drops the last reference nobody holds the lock, since
a holder has a pointer of its own, so that the recycled entry starts unlocked.
`RowOf` does the counting: the pointers of one process are a row in the set that
`RefInv` counts.

The other invariants of `Inode` are not true for every set of calls. A process
may stay in a directory that is removed; its entry ".." still names the parent,
which may then be removed and freed as well, and a path that begins with ".."
leads to an inode that does not exist (`ilock` would panic with "no type"). TLC
finds this with ".." among the paths; `InUseExists`, `LinksMatch`, `BlocksOwned`
and `CirclesNeedPut` speak of calls without it, and are checked by TLC.

### Only model-checked

The liveness properties (the prover has no reasoning about fairness and
ENABLED), the invariants of `Inode` just named, and everything about `Memory`,
`Content` and `Shell`. The last two rest on recursive operators, about which the
prover cannot reason by induction.

## Abstractions

* Spin locks other than `ptable.lock` are the atomicity of their sections.
* Memory, files and names of a process are left out of `Proc`; a failure to
  allocate them is `forkFail`. `Memory` and `Shell` have the processes without
  the scheduler: any process may take the next step.
* A process fault (`trap.c:94`) is an `exit` of the process.
* Pids do not wrap around (`MaxPid`); block contents and bytes are small sets.
* `createContainer` picks its id in one step; the unlocked clear of an id by
  `sys_destroy_container` happens before or after it.

* `Console`: `consoleread` and `consolewrite` unlock the inode before they wait
  and lock it at the end; the inode lock is left out.
* `Shell`: all processes are in container 0. The user types when at most
  `MaxJobs` processes are left of earlier lines. `LineMeansOutput` speaks of
  lines in the foreground that met no full table.
* `Content`: `got`, the result of the last read, is part of the promise and of
  no action's guard.

## Not modelled

* Boot code, the interrupt controllers, the serial line, the keyboard tables and
  the port commands of the disk: straight-line device code, whose results are
  the initial states and the inputs of the models. `memide.c` answers at once.
* Decoding of system call arguments (`fetchint`, `argptr`), copying of strings
  and number formatting: no state beyond the call.
* Absolute paths: `namex` starts at the root inode instead of `cwd`; the steps
  are those of a relative path.
* `cd`, programs that read the console, messages on standard error and the line
  buffer of 100 characters in the shell.
* `umalloc.c`: a free list inside one program, touched by no other actor.
* The other user programs and `usertests.c`: clients of the system calls, which
  the kernel models let programs issue in any order.
* `container_manager.c`: an early version of the container table that the
  Makefile does not build.
* Liveness of `Inode`: it fails as soon as two processes can wait in a circle.
