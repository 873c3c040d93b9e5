-------------------------------- MODULE Log --------------------------------
(***************************************************************************)
(* The redo log of the file system (log.c) over the buffer cache and the   *)
(* disk.  A disk write of one block is atomic; the machine may crash       *)
(* between any two of them, during recovery as well.  A section of         *)
(* log.lock is one action.  The tests at the head of log_write() read      *)
(* log.lh.n without the lock, so they are a step of their own.             *)
(***************************************************************************)
EXTENDS Integers, Sequences, FiniteSets

CONSTANTS
  Procs, Blocks, Vals,
  LOGSIZE,      \* param.h: blocks that begin_op() reserves at most
  NLOG,         \* log.size: blocks of the log on disk, the header included
  MAXOPBLOCKS,  \* param.h: max # of blocks any FS op writes
  NoVal         \* the block is not in the cache

ASSUME LogConstants ==
  /\ LOGSIZE \in Nat /\ NLOG \in Nat /\ MAXOPBLOCKS \in 1..LOGSIZE
  /\ NoVal \notin Vals \cup Blocks /\ IsFiniteSet(Procs) /\ IsFiniteSet(Blocks)

VARIABLES
  home,         \* disk: the blocks in their home locations
  dlog,         \* disk: the data blocks of the log
  dhead,        \* disk: the header block, as the sequence of its block numbers
  cache,        \* the buffer cache: contents of the home blocks it holds
  dirty,        \* the cached blocks with B_DIRTY
  lh,           \* log.lh
  outstanding,
  committing,
  mode,         \* "recover": initlog runs; "run"; "panic"
  tail,         \* the loop variable of write_log and install_trans
  pc,           \* per process: where it is in an FS system call
  buf,          \* per process: the block whose buffer it holds, or NoVal
  wrote         \* per process: the blocks its operation has logged

disk == <<home, dlog, dhead>>
mem  == <<cache, dirty, lh, outstanding, committing, mode, tail>>
ops  == <<pc, buf, wrote>>
vars == <<disk, mem, ops>>

Slots == 1..LOGSIZE
Entries(s) == {s[i] : i \in 1..Len(s)}

EmptyCache == [b \in Blocks |-> NoVal]
AllIdle == [p \in Procs |-> "idle"]
NoBufs == [p \in Procs |-> NoVal]
NoWrites == [p \in Procs |-> {}]

\* The first boot of a disk written by mkfs: the log is empty.
Init ==
  /\ home \in [Blocks -> Vals]
  /\ dlog \in {[i \in Slots |-> v] : v \in Vals}
  /\ dhead = <<>> /\ lh = <<>>
  /\ cache = EmptyCache /\ dirty = {}
  /\ outstanding = 0 /\ committing = FALSE
  /\ mode = "recover" /\ tail = 1
  /\ pc = AllIdle /\ buf = NoBufs /\ wrote = NoWrites

(***************************************************************************)
(* install_trans, one block: bread of the log block and of the home block, *)
(* bwrite of the home block, which clears B_DIRTY.                         *)
(***************************************************************************)
install ==
  /\ home' = [home EXCEPT ![lh[tail]] = dlog[tail]]
  /\ cache' = [cache EXCEPT ![lh[tail]] = dlog[tail]]
  /\ dirty' = dirty \ {lh[tail]}
  /\ tail' = tail + 1

\* log.lh.n = 0; write_head()
eraseLog == lh' = <<>> /\ dhead' = <<>>

recoverInstall ==
  /\ mode = "recover" /\ tail <= Len(lh)
  /\ install
  /\ UNCHANGED <<dlog, dhead, lh, outstanding, committing, mode, ops>>

recoverDone ==
  /\ mode = "recover" /\ tail > Len(lh)
  /\ eraseLog
  /\ mode' = "run"
  /\ UNCHANGED <<home, dlog, cache, dirty, outstanding, committing, tail, ops>>

(***************************************************************************)
(* begin_op.  A process that sleeps on &log runs its loop again when it is *)
(* woken: wake() turns "asleep" into "begin".                              *)
(***************************************************************************)
MustWait == committing \/ Len(lh) + (outstanding + 1) * MAXOPBLOCKS > LOGSIZE

begin_op(p) ==
  /\ mode = "run" /\ pc[p] \in {"idle", "begin"}
  /\ ~MustWait
  /\ outstanding' = outstanding + 1
  /\ pc' = [pc EXCEPT ![p] = "op"]
  /\ UNCHANGED <<disk, cache, dirty, lh, committing, mode, tail, buf, wrote>>

begin_sleep(p) ==
  /\ mode = "run" /\ pc[p] \in {"idle", "begin"}
  /\ MustWait
  /\ pc' = [pc EXCEPT ![p] = "asleep"]
  /\ UNCHANGED <<disk, mem, buf, wrote>>

\* pc after wakeup(&log), for the process p that goes on at l.
wake(p, l) ==
  [q \in Procs |-> IF q = p THEN l ELSE IF pc[q] = "asleep" THEN "begin" ELSE pc[q]]

(***************************************************************************)
(* An update: bread, which locks the buffer; change the data; log_write.   *)
(* modify ends after the unlocked tests of log_write, which panic or pass. *)
(* An operation logs at most MAXOPBLOCKS different blocks.                 *)
(***************************************************************************)
View == [b \in Blocks |-> IF cache[b] = NoVal THEN home[b] ELSE cache[b]]

TooBig == Len(lh) >= LOGSIZE \/ Len(lh) >= NLOG - 1

modify(p, b, v) ==
  /\ mode = "run" /\ pc[p] = "op"
  /\ \A q \in Procs : buf[q] # b
  /\ Cardinality(wrote[p] \cup {b}) <= MAXOPBLOCKS
  /\ cache' = [cache EXCEPT ![b] = v]
  /\ buf' = [buf EXCEPT ![p] = b]
  /\ IF TooBig THEN mode' = "panic" /\ UNCHANGED pc
               ELSE pc' = [pc EXCEPT ![p] = "log"] /\ UNCHANGED mode
  /\ UNCHANGED <<disk, dirty, lh, outstanding, committing, tail, wrote>>

\* Slip: the buffer is not pinned in the cache.
pinNot(b) == UNCHANGED dirty

pin(b) == dirty' = dirty \cup {b}

append(b) == lh' = IF b \in Entries(lh) THEN lh ELSE Append(lh, b)

log_write(p) ==
  /\ mode = "run" /\ pc[p] = "log"
  /\ append(buf[p])
  /\ pin(buf[p])
  /\ wrote' = [wrote EXCEPT ![p] = @ \cup {buf[p]}]
  /\ buf' = [buf EXCEPT ![p] = NoVal]
  /\ pc' = [pc EXCEPT ![p] = "op"]
  /\ UNCHANGED <<disk, cache, outstanding, committing, mode, tail>>

\* A read fills the cache, and bget recycles a buffer that nobody holds and
\* that is not dirty.
bread(b) ==
  /\ mode = "run" /\ cache[b] = NoVal
  /\ cache' = [cache EXCEPT ![b] = home[b]]
  /\ UNCHANGED <<disk, dirty, lh, outstanding, committing, mode, tail, ops>>

evict(b) ==
  /\ mode = "run" /\ cache[b] # NoVal
  /\ b \notin dirty /\ \A p \in Procs : buf[p] # b
  /\ cache' = [cache EXCEPT ![b] = NoVal]
  /\ UNCHANGED <<disk, dirty, lh, outstanding, committing, mode, tail, ops>>

(***************************************************************************)
(* end_op, and commit() by the process that ends the last operation.       *)
(***************************************************************************)
end_op(p) ==
  /\ mode = "run" /\ pc[p] = "op"
  /\ outstanding' = outstanding - 1
  /\ wrote' = [wrote EXCEPT ![p] = {}]
  /\ IF outstanding' = 0
       THEN /\ committing' = TRUE
            /\ tail' = 1
            /\ pc' = [pc EXCEPT ![p] = IF lh = <<>> THEN "done" ELSE "write_log"]
       ELSE /\ pc' = wake(p, "idle")
            /\ UNCHANGED <<committing, tail>>
  /\ UNCHANGED <<disk, cache, dirty, lh, mode, buf>>

write_log(p) ==
  /\ mode = "run" /\ pc[p] = "write_log"
  /\ dlog' = [dlog EXCEPT ![tail] = View[lh[tail]]]
  /\ tail' = tail + 1
  /\ pc' = [pc EXCEPT ![p] = IF tail = Len(lh) THEN "write_head" ELSE "write_log"]
  /\ UNCHANGED <<home, dhead, cache, dirty, lh, outstanding, committing, mode, buf, wrote>>

\* The true point at which the transaction commits.
write_head(p) ==
  /\ mode = "run" /\ pc[p] = "write_head"
  /\ dhead' = lh
  /\ tail' = 1
  /\ pc' = [pc EXCEPT ![p] = "install"]
  /\ UNCHANGED <<home, dlog, cache, dirty, lh, outstanding, committing, mode, buf, wrote>>

install_trans(p) ==
  /\ mode = "run" /\ pc[p] = "install"
  /\ install
  /\ pc' = [pc EXCEPT ![p] = IF tail = Len(lh) THEN "erase" ELSE "install"]
  /\ UNCHANGED <<dlog, dhead, lh, outstanding, committing, mode, buf, wrote>>

erase(p) ==
  /\ mode = "run" /\ pc[p] = "erase"
  /\ eraseLog
  /\ pc' = [pc EXCEPT ![p] = "done"]
  /\ UNCHANGED <<home, dlog, cache, dirty, outstanding, committing, mode, tail, buf, wrote>>

\* Slip: the waiters are not woken.
quietDone(p) ==
  /\ mode = "run" /\ pc[p] = "done"
  /\ committing' = FALSE
  /\ pc' = [pc EXCEPT ![p] = "idle"]
  /\ UNCHANGED <<disk, cache, dirty, lh, outstanding, mode, tail, buf, wrote>>

commitDone(p) ==
  /\ mode = "run" /\ pc[p] = "done"
  /\ committing' = FALSE
  /\ pc' = wake(p, "idle")
  /\ UNCHANGED <<disk, cache, dirty, lh, outstanding, mode, tail, buf, wrote>>

\* Power failure or reset at any time, after a panic too; the next boot
\* starts initlog, which reads the header.
crash ==
  /\ lh' = dhead
  /\ cache' = EmptyCache /\ dirty' = {}
  /\ outstanding' = 0 /\ committing' = FALSE
  /\ mode' = "recover" /\ tail' = 1
  /\ pc' = AllIdle /\ buf' = NoBufs /\ wrote' = NoWrites
  /\ UNCHANGED disk

-----------------------------------------------------------------------------
Commit(p) ==
  write_log(p) \/ write_head(p) \/ install_trans(p) \/ erase(p) \/ commitDone(p)

Next ==
  \/ crash \/ recoverInstall \/ recoverDone
  \/ \E b \in Blocks : bread(b) \/ evict(b)
  \/ \E p \in Procs :
       \/ begin_op(p) \/ begin_sleep(p) \/ log_write(p) \/ end_op(p) \/ Commit(p)
       \/ \E b \in Blocks, v \in Vals : modify(p, b, v)

Spec == Init /\ [][Next]_vars

(***************************************************************************)
(* The file system calls that have begun an operation end it, the process  *)
(* that commits goes on, and recovery goes on.  A crash may always happen. *)
(***************************************************************************)
Fairness ==
  /\ WF_vars(recoverInstall \/ recoverDone)
  /\ \A p \in Procs : WF_vars(log_write(p)) /\ SF_vars(end_op(p)) /\ WF_vars(Commit(p))

-----------------------------------------------------------------------------
(* Properties *)

\* The log, the cache and the system calls stay in their ranges.
TypeOK ==
  /\ home \in [Blocks -> Vals] /\ dlog \in [Slots -> Vals]
  /\ dhead \in Seq(Blocks) /\ lh \in Seq(Blocks)
  /\ cache \in [Blocks -> Vals \cup {NoVal}] /\ dirty \subseteq Blocks
  /\ outstanding \in 0..Cardinality(Procs) /\ committing \in BOOLEAN
  /\ mode \in {"recover", "run", "panic"} /\ tail \in Nat
  /\ pc \in [Procs -> {"idle", "begin", "asleep", "op", "log", "write_log",
                       "write_head", "install", "erase", "done"}]
  /\ buf \in [Procs -> Blocks \cup {NoVal}]
  /\ wrote \in [Procs -> SUBSET Blocks]

\* The blocks that recovery would leave on the disk after a crash now.
Recovered ==
  [b \in Blocks |->
     IF b \in Entries(dhead)
       THEN dlog[CHOOSE i \in 1..Len(dhead) : dhead[i] = b] ELSE home[b]]

Active == {p \in Procs : pc[p] \in {"op", "log"}}

Atomic == INSTANCE AtomicLog WITH
            durable <- Recovered,
            current <- IF mode = "recover" THEN Recovered ELSE View,
            active <- Active

\* log.c implements AtomicLog: whatever the point of the crash, in commit()
\* or in recovery, the next boot finds the updates of all the operations of
\* a transaction or of none, and no call ever reads an update that was lost
\* by evicting a logged buffer.
ImplementsAtomicLog == Atomic!Spec

\* A process asleep in begin_op() is never forgotten: there is an active
\* operation or a commit whose end will wake it (log.c, end_op).
\* Included: the state is in its ranges.
WaiterHasWaker ==
  /\ TypeOK
  /\ (\E p \in Procs : pc[p] = "asleep") => committing \/ outstanding > 0

\* ...and it is woken, or the machine crashes or panics.
WaiterWoken ==
  \A p \in Procs : pc[p] = "asleep" ~> pc[p] # "asleep" \/ mode = "panic"

\* The log on disk holds the header and NLOG - 1 blocks; waiting in begin_op()
\* ("this op might exhaust log space; wait for commit", log.c:133) keeps the
\* transaction inside it.
LogFitsOnDisk == Len(lh) <= NLOG - 1
=============================================================================
