------------------------------- MODULE Bcache -------------------------------
(***************************************************************************)
(* The buffer cache (bio.c), its sleep-locks (sleeplock.c) and the queue   *)
(* of the IDE driver (ide.c), used by processes that hold one buffer at a  *)
(* time.  A section of bcache.lock, of idelock or of a sleep-lock's spin   *)
(* lock is one action; between them other processes and the disk           *)
(* interrupt run.                                                          *)
(***************************************************************************)
EXTENDS Naturals, Sequences, FiniteSets

CONSTANTS Procs, Blocks, Vals,
  NBUF,      \* number of buffers
  NoProc     \* the sleep-lock is free

ASSUME BcacheConstants ==
  NBUF \in Nat \ {0} /\ NoProc \notin Procs /\ IsFiniteSet(Procs) /\ 0 \notin Blocks

VARIABLES
  blockno, valid, dirty, data,  \* struct buf, per buffer: B_VALID, B_DIRTY
  refcnt,
  holder,   \* the process in the sleep-lock of the buffer
  mru,      \* the buffers in the order of the list from bcache.head.next
  idequeue, \* the buffers waiting for the disk; the first is in progress
  disk,     \* the blocks on the disk
  pc, buf,  \* per process: its place in bread ... brelse, and its buffer
  panic,    \* bget found no buffer
  stored    \* history: the value last stored into each block by a holder

flags == <<valid, dirty, data>>
procs == <<pc, buf>>
vars == <<blockno, flags, refcnt, holder, mru, idequeue, disk, procs, panic, stored>>

Bufs == 1..NBUF
NoBlock == 0      \* binit: the buffers belong to no block
NoBuf == 0

Init ==
  /\ blockno = [b \in Bufs |-> NoBlock]
  /\ valid = [b \in Bufs |-> FALSE] /\ dirty = [b \in Bufs |-> FALSE]
  /\ data \in {[b \in Bufs |-> v] : v \in Vals}
  /\ refcnt = [b \in Bufs |-> 0]
  /\ holder = [b \in Bufs |-> NoProc]
  /\ mru = [i \in Bufs |-> NBUF + 1 - i]    \* binit inserts each at the front
  /\ idequeue = <<>>
  /\ disk \in {[k \in Blocks |-> v] : v \in Vals}
  /\ pc = [p \in Procs |-> "idle"] /\ buf = [p \in Procs |-> NoBuf]
  /\ panic = FALSE
  /\ stored = disk

\* Nothing moves after a panic.
at(p, l) == ~panic /\ pc[p] = l
goto(p, l) == pc' = [pc EXCEPT ![p] = l]

(***************************************************************************)
(* bget: one section of bcache.lock.                                       *)
(***************************************************************************)
\* Slip: a released buffer is not looked for.
CachedInUse(b, k) == blockno[b] = k /\ refcnt[b] > 0

Cached(b, k) == blockno[b] = k

\* Slip: B_DIRTY is not looked at.
RecyclableDirty(b) == refcnt[b] = 0

Recyclable(b) == refcnt[b] = 0 /\ ~dirty[b]

\* Slip: the hit does not take a reference.
addNoRef(b) == UNCHANGED refcnt

addRef(b) == refcnt' = [refcnt EXCEPT ![b] = @ + 1]

bgetHit(p, b, k) ==
  /\ at(p, "idle") /\ Cached(b, k)
  /\ addRef(b)
  /\ buf' = [buf EXCEPT ![p] = b]
  /\ goto(p, "lock")
  /\ UNCHANGED <<blockno, flags, holder, mru, idequeue, disk, panic, stored>>

\* From the least recently used end, the first buffer that may be recycled.
bgetMiss(p, b, k) ==
  /\ at(p, "idle") /\ \A c \in Bufs : ~Cached(c, k)
  /\ Recyclable(b)
  /\ \E i \in Bufs : mru[i] = b /\ \A j \in Bufs : j > i => ~Recyclable(mru[j])
  /\ blockno' = [blockno EXCEPT ![b] = k]
  /\ valid' = [valid EXCEPT ![b] = FALSE] /\ dirty' = [dirty EXCEPT ![b] = FALSE]
  /\ refcnt' = [refcnt EXCEPT ![b] = 1]
  /\ buf' = [buf EXCEPT ![p] = b]
  /\ goto(p, "lock")
  /\ UNCHANGED <<data, holder, mru, idequeue, disk, panic, stored>>

bgetPanic(p, k) ==
  /\ at(p, "idle") /\ \A c \in Bufs : ~Cached(c, k) /\ ~Recyclable(c)
  /\ panic' = TRUE
  /\ UNCHANGED <<blockno, flags, refcnt, holder, mru, idequeue, disk, procs, stored>>

(***************************************************************************)
(* acquiresleep and releasesleep on b->lock.                               *)
(***************************************************************************)
acquiresleep(p) ==
  /\ at(p, "lock") /\ holder[buf[p]] = NoProc
  /\ holder' = [holder EXCEPT ![buf[p]] = p]
  /\ goto(p, IF valid[buf[p]] THEN "hold" ELSE "io")
  /\ UNCHANGED <<blockno, flags, refcnt, mru, idequeue, disk, buf, panic, stored>>

sleepOnLock(p) ==
  /\ at(p, "lock") /\ holder[buf[p]] # NoProc
  /\ goto(p, "asleep")
  /\ UNCHANGED <<blockno, flags, refcnt, holder, mru, idequeue, disk, buf, panic, stored>>

\* Slip: releasesleep does not call wakeup.
wakeNobody(p, b) == [pc EXCEPT ![p] = "rel"]

\* pc after wakeup(lk): the sleepers run their loop again.
wakeLockers(p, b) ==
  [q \in Procs |-> IF q = p THEN "rel"
                   ELSE IF pc[q] = "asleep" /\ buf[q] = b THEN "lock" ELSE pc[q]]

(***************************************************************************)
(* iderw and ideintr.  A process in "io" must call iderw; in "disk" it     *)
(* sleeps on its buffer until the interrupt has set B_VALID and cleared    *)
(* B_DIRTY in the same section of idelock that wakes it.                   *)
(***************************************************************************)
iderw(p) ==
  /\ at(p, "io")
  /\ idequeue' = Append(idequeue, buf[p])
  /\ goto(p, "disk")
  /\ UNCHANGED <<blockno, flags, refcnt, holder, mru, disk, buf, panic, stored>>

\* Slip: the interrupt completes the newest request instead of the active one.
doneLast == Len(idequeue)

\* First queued buffer is the active request.
done == 1

ideintr ==
  LET b == idequeue[done] IN
  /\ ~panic /\ idequeue # <<>>
  /\ idequeue' = SubSeq(idequeue, 1, done - 1) \o SubSeq(idequeue, done + 1, Len(idequeue))
  /\ IF dirty[b] THEN disk' = [disk EXCEPT ![blockno[b]] = data[b]] /\ UNCHANGED data
                 ELSE data' = [data EXCEPT ![b] = disk[blockno[b]]] /\ UNCHANGED disk
  /\ valid' = [valid EXCEPT ![b] = TRUE] /\ dirty' = [dirty EXCEPT ![b] = FALSE]
  /\ pc' = [p \in Procs |-> IF pc[p] = "disk" /\ buf[p] = b THEN "hold" ELSE pc[p]]
  /\ UNCHANGED <<blockno, refcnt, holder, mru, buf, panic, stored>>

(***************************************************************************)
(* The holder of a buffer changes its data and hands it to log_write, which *)
(* pins it with B_DIRTY, or to bwrite, or it writes a pinned buffer back   *)
(* (install_trans).                                                        *)
(***************************************************************************)
Store(p, v) ==
  /\ data' = [data EXCEPT ![buf[p]] = v]
  /\ stored' = [stored EXCEPT ![blockno[buf[p]]] = v]
  /\ dirty' = [dirty EXCEPT ![buf[p]] = TRUE]

log_write(p, v) ==
  /\ at(p, "hold")
  /\ Store(p, v)
  /\ UNCHANGED <<blockno, valid, refcnt, holder, mru, idequeue, disk, procs, panic>>

bwrite(p, v) ==
  /\ at(p, "hold")
  /\ Store(p, v)
  /\ goto(p, "io")
  /\ UNCHANGED <<blockno, valid, refcnt, holder, mru, idequeue, disk, buf, panic>>

\* brelse: releasesleep, and then the reference under bcache.lock.
releasesleep(p) ==
  LET b == buf[p] IN
  /\ at(p, "hold")
  /\ holder' = [holder EXCEPT ![b] = NoProc]
  /\ pc' = wakeLockers(p, b)
  /\ UNCHANGED <<blockno, flags, refcnt, mru, idequeue, disk, buf, panic, stored>>

\* The list once b has been unlinked and put in at its head.
toFront(b) ==
  LET pos == CHOOSE i \in Bufs : mru[i] = b IN
  [i \in Bufs |-> IF i = 1 THEN b ELSE IF i <= pos THEN mru[i - 1] ELSE mru[i]]

brelse(p) ==
  LET b == buf[p] IN
  /\ at(p, "rel")
  /\ refcnt' = [refcnt EXCEPT ![b] = @ - 1]
  /\ mru' = IF refcnt[b] = 1 THEN toFront(b) ELSE mru
  /\ goto(p, "idle")
  /\ buf' = [buf EXCEPT ![p] = NoBuf]
  /\ UNCHANGED <<blockno, flags, holder, idequeue, disk, panic, stored>>

-----------------------------------------------------------------------------
Bread(p) ==
  \/ \E k \in Blocks : \/ bgetPanic(p, k)
                       \/ \E b \in Bufs : bgetHit(p, b, k) \/ bgetMiss(p, b, k)
  \/ acquiresleep(p) \/ sleepOnLock(p) \/ iderw(p)

Hold(p) ==
  \/ \E v \in Vals : log_write(p, v) \/ bwrite(p, v)
  \/ releasesleep(p) \/ brelse(p)

Next == ideintr \/ \E p \in Procs : Bread(p) \/ Hold(p)

(***************************************************************************)
(* The disk answers, kernel code outside "idle" and "hold" goes on, and a  *)
(* holder lets go of its buffer eventually.                                *)
(***************************************************************************)
Fairness ==
  /\ WF_vars(ideintr)
  /\ \A p \in Procs : /\ WF_vars(iderw(p)) /\ WF_vars(brelse(p))
                      /\ SF_vars(releasesleep(p)) /\ SF_vars(acquiresleep(p))

Spec == Init /\ [][Next]_vars /\ Fairness

-----------------------------------------------------------------------------
(* Properties *)

\* The buffers, the list, the queue and the processes stay in their ranges;
\* the list is always a permutation of the buffers.
TypeOK ==
  /\ blockno \in [Bufs -> Blocks \cup {NoBlock}]
  /\ valid \in [Bufs -> BOOLEAN] /\ dirty \in [Bufs -> BOOLEAN]
  /\ data \in [Bufs -> Vals] /\ disk \in [Blocks -> Vals]
  /\ refcnt \in [Bufs -> 0..Cardinality(Procs)]
  /\ holder \in [Bufs -> Procs \cup {NoProc}]
  /\ mru \in [Bufs -> Bufs] /\ {mru[i] : i \in Bufs} = Bufs
  /\ idequeue \in Seq(Bufs)
  /\ pc \in [Procs -> {"idle", "lock", "asleep", "io", "disk", "hold", "rel"}]
  /\ buf \in [Procs -> Bufs \cup {NoBuf}]

\* A block has at most one buffer, however the lookups, the recycling and the
\* releases of several processes interleave (bio.c: "Only one process at a
\* time can use a buffer").
OneBufferPerBlock ==
  \A b, c \in Bufs : blockno[b] = blockno[c] /\ blockno[b] # NoBlock => b = c

\* The reference count of a buffer is the number of processes between bget
\* and the end of brelse, and a buffer in the disk queue or with a holder is
\* referenced, so that bget never recycles it under them.
\* Included: the state is in its ranges.
CountsUsers ==
  /\ TypeOK
  /\ \A b \in Bufs :
       /\ refcnt[b] = Cardinality({p \in Procs : buf[p] = b})
       /\ (\E i \in 1..Len(idequeue) : idequeue[i] = b) \/ holder[b] # NoProc => refcnt[b] > 0

\* Whoever holds a buffer sees the value last stored into its block by any
\* process, and a block that has no valid buffer is up to date on the disk:
\* no store is lost to recycling, to the queue or to a second copy.
SeesLastStore ==
  \A k \in Blocks :
    IF \E b \in Bufs : blockno[b] = k /\ valid[b]
      THEN \A b \in Bufs : blockno[b] = k /\ valid[b] => data[b] = stored[k]
      ELSE disk[k] = stored[k]

\* A process asleep on the lock of a buffer waits for a holder that will call
\* wakeup: releasesleep loses nobody (sleeplock.c).
SleeperHasHolder ==
  \A p \in Procs : pc[p] = "asleep" => holder[buf[p]] # NoProc

\* Every disk request completes and its process gets on with the buffer.
RequestCompletes ==
  \A p \in Procs : pc[p] \in {"io", "disk"} ~> pc[p] = "hold" \/ panic
=============================================================================
