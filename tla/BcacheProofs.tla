---------------------------- MODULE BcacheProofs ----------------------------
(***************************************************************************)
(* Machine-checked proofs about the buffer cache, for every number of      *)
(* processes, buffers and blocks.                                          *)
(***************************************************************************)
EXTENDS Bcache, FiniteSetTheorems, SequenceTheorems, TLAPS

Labels == {"idle", "lock", "asleep", "io", "disk", "hold", "rel"}

\* The types.
BType ==
  /\ blockno \in [Bufs -> Blocks \cup {NoBlock}]
  /\ valid \in [Bufs -> BOOLEAN] /\ dirty \in [Bufs -> BOOLEAN]
  /\ data \in [Bufs -> Vals] /\ disk \in [Blocks -> Vals] /\ stored \in [Blocks -> Vals]
  /\ refcnt \in [Bufs -> Nat]
  /\ holder \in [Bufs -> Procs \cup {NoProc}]
  /\ idequeue \in Seq(Bufs)
  /\ pc \in [Procs -> Labels]
  /\ buf \in [Procs -> Bufs \cup {NoBuf}]

Users(b) == {p \in Procs : buf[p] = b}

\* A process has a buffer, and a reference to it, between bget and brelse.
RefInv ==
  /\ \A b \in Bufs : refcnt[b] = Cardinality(Users(b))
  /\ \A p \in Procs : (pc[p] = "idle" <=> buf[p] = NoBuf)
                      /\ (pc[p] # "idle" => blockno[buf[p]] \in Blocks)

Owns(p) == pc[p] \in {"io", "disk", "hold"}

\* The sleep-lock of a buffer is held by the one process that is past
\* acquiresleep, and has a holder as long as anybody sleeps on it.
LockInv ==
  /\ \A p \in Procs : Owns(p) => holder[buf[p]] = p
  /\ \A b \in Bufs : holder[b] # NoProc => Owns(holder[b]) /\ buf[holder[b]] = b
  /\ SleeperHasHolder

\* The queue of the driver holds the buffer of each process that waits for the
\* disk, once.
QueueInv ==
  /\ \A i, j \in 1..Len(idequeue) : idequeue[i] = idequeue[j] => i = j
  /\ \A i \in 1..Len(idequeue) : \E p \in Procs : pc[p] = "disk" /\ buf[p] = idequeue[i]

\* A valid buffer has the last store to its block, and so has the disk unless
\* the buffer is dirty.
DataInv ==
  /\ OneBufferPerBlock
  /\ \A b \in Bufs : /\ dirty[b] => valid[b]
                     /\ valid[b] => blockno[b] \in Blocks /\ data[b] = stored[blockno[b]]
  /\ \A k \in Blocks : (\A b \in Bufs : blockno[b] = k => ~dirty[b]) => disk[k] = stored[k]
  /\ \A p \in Procs : pc[p] = "hold" => valid[buf[p]]

\* The list loses no buffer.
ListInv == mru \in [Bufs -> Bufs] /\ \A b \in Bufs : \E i \in Bufs : mru[i] = b

BInv == BType /\ RefInv /\ LockInv /\ QueueInv /\ DataInv /\ ListInv

-----------------------------------------------------------------------------
\* A process outside "idle" has a buffer, and the buffer a block.
LEMMA HasBuf ==
  ASSUME BType, RefInv, NEW p \in Procs, pc[p] # "idle"
  PROVE  buf[p] \in Bufs /\ blockno[buf[p]] \in Blocks /\ p \in Users(buf[p])
BY DEF BType, RefInv, Users

\* The interrupt completes the request of a process that waits for it.
LEMMA QueueHead ==
  ASSUME BType, RefInv, QueueInv, idequeue # <<>>
  PROVE  /\ 1 \in 1..Len(idequeue) /\ idequeue[1] \in Bufs /\ blockno[idequeue[1]] \in Blocks
         /\ \E p \in Procs : pc[p] = "disk" /\ buf[p] = idequeue[1]
<1>1. 1 \in 1..Len(idequeue) /\ idequeue[1] \in Bufs
  BY DEF BType
<1>2. PICK p \in Procs : pc[p] = "disk" /\ buf[p] = idequeue[1]
  BY <1>1 DEF QueueInv
<1> QED BY <1>1, <1>2, HasBuf

\* What the interrupt leaves of the queue.
LEMMA QueueTail ==
  ASSUME BType, ideintr
  PROVE  /\ idequeue # <<>> /\ idequeue' \in Seq(Bufs)
         /\ Len(idequeue') = Len(idequeue) - 1
         /\ \A i \in 1..Len(idequeue') : idequeue'[i] = idequeue[i + 1]
<1>1. idequeue # <<>> /\ idequeue' = SubSeq(idequeue, 1, 0) \o SubSeq(idequeue, 2, Len(idequeue))
  BY DEF ideintr, done
<1>2. idequeue \in Seq(Bufs) /\ Len(idequeue) \in Nat \ {0}
  BY <1>1 DEF BType
<1>3. SubSeq(idequeue, 1, 0) = <<>>
  BY <1>2
<1>4. SubSeq(idequeue, 2, Len(idequeue)) = Tail(idequeue) /\ Tail(idequeue) \in Seq(Bufs)
  BY <1>1, <1>2, TailIsSubSeq, HeadTailProperties
<1>5. idequeue' = Tail(idequeue)
  BY <1>1, <1>3, <1>4
<1> QED BY <1>1, <1>2, <1>5, HeadTailProperties, Zenon

\* A buffer that bget may recycle is nobody's.
LEMMA Unused ==
  ASSUME BType, RefInv, LockInv, NEW b \in Bufs, refcnt[b] = 0
  PROVE  (\A p \in Procs : buf[p] # b) /\ holder[b] = NoProc
<1>1. Users(b) \in SUBSET Procs /\ IsFiniteSet(Procs)
  BY BcacheConstants DEF Users
<1>2. Users(b) = {}
  BY <1>1, FS_Subset, FS_EmptySet DEF RefInv
<1>3. \A p \in Procs : buf[p] # b
  BY <1>2 DEF Users
<1> QED BY <1>3 DEF LockInv, BType

\* A buffer taken out of the list and put in at its head leaves the others in it.
LEMMA FrontKeepsList ==
  ASSUME ListInv, NEW b \in Bufs
  PROVE  /\ toFront(b) \in [Bufs -> Bufs]
         /\ \A c \in Bufs : \E i \in Bufs : toFront(b)[i] = c
<1> DEFINE pos == CHOOSE i \in Bufs : mru[i] = b
<1>1. pos \in Bufs /\ mru[pos] = b
  BY DEF ListInv
<1>2. toFront(b) = [i \in Bufs |-> IF i = 1 THEN b ELSE IF i <= pos THEN mru[i - 1] ELSE mru[i]]
  BY DEF toFront
<1> HIDE DEF pos
<1>3. NBUF \in Nat \ {0} /\ 1 \in Bufs
  BY BcacheConstants DEF Bufs
<1>4. toFront(b) \in [Bufs -> Bufs]
  <2>1. \A i \in Bufs : (IF i = 1 THEN b ELSE IF i <= pos THEN mru[i - 1] ELSE mru[i]) \in Bufs
    <3>1. \A i \in Bufs : i # 1 => i - 1 \in Bufs
      BY <1>3 DEF Bufs
    <3>2. \A i \in Bufs : mru[i] \in Bufs
      BY DEF ListInv
    <3> QED BY <3>1, <3>2
  <2> QED BY <1>2, <2>1
<1>5. ASSUME NEW c \in Bufs PROVE \E i \in Bufs : toFront(b)[i] = c
  <2>1. PICK i \in Bufs : mru[i] = c
    BY DEF ListInv
  <2>2. CASE c = b
    BY <1>2, <1>3, <2>2
  <2>3. CASE c # b /\ i < pos
    <3>1. i + 1 \in Bufs /\ i + 1 # 1 /\ i + 1 <= pos /\ (i + 1) - 1 = i
      BY <2>3, <1>1, <1>3 DEF Bufs
    <3>2. toFront(b)[i + 1] = mru[(i + 1) - 1]
      BY <1>2, <3>1
    <3> QED BY <3>1, <3>2, <2>1
  <2>4. CASE c # b /\ i > pos
    <3>1. i # 1 /\ ~(i <= pos)
      BY <2>4, <1>1, <1>3 DEF Bufs
    <3> QED BY <1>2, <3>1, <2>1
  <2>5. i # pos \/ c = b
    BY <2>1, <1>1
  <2> QED BY <2>2, <2>3, <2>4, <2>5, <1>1 DEF Bufs
<1> QED BY <1>4, <1>5

\* The cases of Next.
LEMMA Cases ==
  ASSUME Next
  PROVE  \/ ideintr
         \/ \E p \in Procs :
              \/ \E k \in Blocks : bgetPanic(p, k)
              \/ \E k \in Blocks, b \in Bufs : bgetHit(p, b, k)
              \/ \E k \in Blocks, b \in Bufs : bgetMiss(p, b, k)
              \/ acquiresleep(p)
              \/ sleepOnLock(p)
              \/ iderw(p)
              \/ \E v \in Vals : log_write(p, v) \/ bwrite(p, v)
              \/ releasesleep(p)
              \/ brelse(p)
BY DEF Next, Bread, Hold

\* Every step keeps the types.
LEMMA TypeStep ==
  ASSUME BInv, Next
  PROVE  BType'
<1>0. /\ BType /\ RefInv /\ QueueInv /\ LockInv
      /\ \A p \in Procs : pc[p] # "idle" => buf[p] \in Bufs /\ blockno[buf[p]] \in Blocks
  BY HasBuf DEF BInv
<1>1. CASE ideintr
  <2>1. idequeue[1] \in Bufs /\ blockno[idequeue[1]] \in Blocks /\ idequeue' \in Seq(Bufs)
    BY <1>1, <1>0, QueueHead, QueueTail
  <2>2. UNCHANGED <<blockno, refcnt, holder, buf, stored>>
    BY <1>1 DEF ideintr
  <2>3. data' \in [Bufs -> Vals] /\ disk' \in [Blocks -> Vals]
    <3>1. \/ disk' = [disk EXCEPT ![blockno[idequeue[1]]] = data[idequeue[1]]] /\ data' = data
          \/ data' = [data EXCEPT ![idequeue[1]] = disk[blockno[idequeue[1]]]] /\ disk' = disk
      BY <1>1 DEF ideintr, done
    <3> QED BY <3>1, <2>1, <1>0, Zenon DEF BType
  <2>4. valid' \in [Bufs -> BOOLEAN] /\ dirty' \in [Bufs -> BOOLEAN]
    BY <1>1, <2>1, <1>0 DEF ideintr, done, BType
  <2>5. pc' \in [Procs -> Labels]
    BY <1>1, <1>0 DEF ideintr, BType, Labels
  <2> QED BY <2>1, <2>2, <2>3, <2>4, <2>5, <1>0 DEF BType
<1>2. ASSUME NEW p \in Procs, NEW k \in Blocks, bgetPanic(p, k) PROVE BType'
  BY <1>2, <1>0 DEF bgetPanic, flags, procs, BType
<1>3. ASSUME NEW p \in Procs, NEW k \in Blocks, NEW b \in Bufs, bgetHit(p, b, k) PROVE BType'
  BY <1>3, <1>0 DEF bgetHit, goto, addRef, flags, BType, Labels
<1>4. ASSUME NEW p \in Procs, NEW k \in Blocks, NEW b \in Bufs, bgetMiss(p, b, k) PROVE BType'
  BY <1>4, <1>0 DEF bgetMiss, goto, BType, Labels
<1>5. ASSUME NEW p \in Procs, acquiresleep(p) PROVE BType'
  BY <1>5, <1>0 DEF acquiresleep, at, goto, flags, BType, Labels
<1>6. ASSUME NEW p \in Procs, sleepOnLock(p) PROVE BType'
  BY <1>6, <1>0 DEF sleepOnLock, goto, flags, BType, Labels
<1>7. ASSUME NEW p \in Procs, iderw(p) PROVE BType'
  <2>1. pc' = [pc EXCEPT ![p] = "disk"] /\ idequeue' = Append(idequeue, buf[p]) /\ buf[p] \in Bufs
        /\ UNCHANGED <<blockno, valid, dirty, data, refcnt, holder, disk, buf, stored>>
    BY <1>7, <1>0 DEF iderw, at, goto, flags
  <2> QED BY <2>1, <1>0 DEF BType, Labels
<1>8. ASSUME NEW p \in Procs, NEW v \in Vals, log_write(p, v) \/ bwrite(p, v) PROVE BType'
  <2>1. buf[p] \in Bufs /\ blockno[buf[p]] \in Blocks
    BY <1>8, <1>0 DEF log_write, bwrite, at
  <2>2. Store(p, v) /\ (pc' = pc \/ pc' = [pc EXCEPT ![p] = "io"])
        /\ UNCHANGED <<blockno, valid, refcnt, holder, idequeue, disk, buf>>
    BY <1>8 DEF log_write, bwrite, goto, procs
  <2> QED BY <2>1, <2>2, <1>0, Zenon DEF Store, BType, Labels
<1>9. ASSUME NEW p \in Procs, releasesleep(p) PROVE BType'
  BY <1>9, <1>0 DEF releasesleep, at, wakeLockers, flags, BType, Labels
<1>10. ASSUME NEW p \in Procs, brelse(p) PROVE BType'
  <2>1. buf[p] \in Bufs /\ p \in Users(buf[p])
    BY <1>10, <1>0, HasBuf DEF brelse, at
  <2>2. refcnt[buf[p]] # 0
    BY <2>1, <1>0, Unused
  <2>3. pc' = [pc EXCEPT ![p] = "idle"] /\ buf' = [buf EXCEPT ![p] = NoBuf]
        /\ refcnt' = [refcnt EXCEPT ![buf[p]] = @ - 1]
        /\ UNCHANGED <<blockno, valid, dirty, data, holder, idequeue, disk, stored>>
    BY <1>10 DEF brelse, goto, flags
  <2> QED BY <2>1, <2>2, <2>3, <1>0 DEF BType, Labels
<1> QED BY <1>1, <1>2, <1>3, <1>4, <1>5, <1>6, <1>7, <1>8, <1>9, <1>10, Cases

\* Every step keeps the reference counts exact.
LEMMA RefStep ==
  ASSUME BInv, Next
  PROVE  RefInv'
<1>0. BType /\ RefInv /\ LockInv /\ QueueInv /\ BType'
  BY TypeStep DEF BInv
<1>a. \A b \in Bufs : IsFiniteSet(Users(b)) /\ Cardinality(Users(b)) \in Nat
  <2> SUFFICES ASSUME NEW b \in Bufs PROVE IsFiniteSet(Users(b)) /\ Cardinality(Users(b)) \in Nat
    OBVIOUS
  <2>1. Users(b) \in SUBSET Procs /\ IsFiniteSet(Procs)
    BY BcacheConstants DEF Users
  <2> QED BY <2>1, FS_Subset, FS_CardinalityType
<1>b. ASSUME UNCHANGED <<buf, blockno, refcnt>>, \A p \in Procs : pc'[p] = "idle" <=> pc[p] = "idle"
      PROVE  RefInv'
  BY <1>b, <1>0 DEF RefInv, Users
<1>1. CASE ideintr
  <2>1. \A p \in Procs : pc'[p] = "idle" <=> pc[p] = "idle"
    BY <1>1, <1>0 DEF ideintr, BType
  <2> QED BY <1>1, <2>1, <1>b DEF ideintr
<1>2. ASSUME NEW p \in Procs, NEW k \in Blocks, bgetPanic(p, k) PROVE RefInv'
  BY <1>2, <1>b DEF bgetPanic, procs
<1>3. ASSUME NEW p \in Procs, NEW k \in Blocks, NEW b \in Bufs, bgetHit(p, b, k) PROVE RefInv'
  <2>1. /\ pc[p] = "idle" /\ blockno[b] = k /\ refcnt' = [refcnt EXCEPT ![b] = @ + 1]
        /\ buf' = [buf EXCEPT ![p] = b] /\ pc' = [pc EXCEPT ![p] = "lock"] /\ blockno' = blockno
    BY <1>3 DEF bgetHit, at, Cached, addRef, goto
  <2>2. buf[p] = NoBuf /\ NoBuf \notin Bufs
    BY <2>1, <1>0 DEF RefInv, NoBuf, Bufs
  <2>3. /\ Users(b)' = Users(b) \cup {p} /\ p \notin Users(b)
        /\ \A c \in Bufs \ {b} : Users(c)' = Users(c)
    BY <2>1, <2>2, <1>0 DEF Users, BType
  <2>4. Cardinality(Users(b)') = Cardinality(Users(b)) + 1
    BY <2>3, <1>a, FS_AddElement, Zenon
  <2>5. \A c \in Bufs : refcnt'[c] = Cardinality(Users(c)')
    BY <2>1, <2>3, <2>4, <1>0, Zenon DEF RefInv, BType
  <2> QED BY <2>1, <2>2, <2>5, <1>0 DEF RefInv, BType
<1>4. ASSUME NEW p \in Procs, NEW k \in Blocks, NEW b \in Bufs, bgetMiss(p, b, k) PROVE RefInv'
  <2>1. /\ pc[p] = "idle" /\ refcnt[b] = 0 /\ refcnt' = [refcnt EXCEPT ![b] = 1]
        /\ buf' = [buf EXCEPT ![p] = b] /\ pc' = [pc EXCEPT ![p] = "lock"]
        /\ blockno' = [blockno EXCEPT ![b] = k]
    BY <1>4 DEF bgetMiss, at, Recyclable, goto
  <2>2. buf[p] = NoBuf /\ NoBuf \notin Bufs /\ \A q \in Procs : buf[q] # b
    BY <2>1, <1>0, Unused DEF RefInv, NoBuf, Bufs
  <2>3. Users(b)' = {p} /\ \A c \in Bufs \ {b} : Users(c)' = Users(c)
    BY <2>1, <2>2, <1>0 DEF Users, BType
  <2>4. Cardinality({p}) = 1
    BY FS_Singleton
  <2>5. ASSUME NEW c \in Bufs PROVE refcnt'[c] = Cardinality(Users(c)')
    <3>1. refcnt'[b] = 1 /\ (c # b => refcnt'[c] = refcnt[c]) /\ refcnt[c] = Cardinality(Users(c))
      BY <2>1, <1>0 DEF RefInv, BType
    <3>2. CASE c = b
      BY <3>1, <3>2, <2>3, <2>4
    <3>3. CASE c # b
      BY <3>1, <3>3, <2>3
    <3> QED BY <3>2, <3>3
  <2> QED BY <2>1, <2>2, <2>5, <1>0 DEF RefInv, BType
<1>5. ASSUME NEW p \in Procs, acquiresleep(p) \/ sleepOnLock(p) \/ iderw(p) PROVE RefInv'
  <2>1. pc[p] # "idle" /\ \E l \in {"hold", "io", "asleep", "disk"} : pc' = [pc EXCEPT ![p] = l]
    BY <1>5 DEF acquiresleep, sleepOnLock, iderw, at, goto
  <2>2. \A q \in Procs : pc'[q] = "idle" <=> pc[q] = "idle"
    BY <2>1, <1>0 DEF BType
  <2> QED BY <1>5, <2>2, <1>b DEF acquiresleep, sleepOnLock, iderw
<1>6. ASSUME NEW p \in Procs, NEW v \in Vals, log_write(p, v) \/ bwrite(p, v) PROVE RefInv'
  <2>1. pc[p] = "hold" /\ (pc' = pc \/ pc' = [pc EXCEPT ![p] = "io"])
    BY <1>6 DEF log_write, bwrite, at, goto, procs
  <2>2. \A q \in Procs : pc'[q] = "idle" <=> pc[q] = "idle"
    BY <2>1, <1>0 DEF BType
  <2> QED BY <1>6, <2>2, <1>b DEF log_write, bwrite, procs
<1>7. ASSUME NEW p \in Procs, releasesleep(p) PROVE RefInv'
  <2>1. \A q \in Procs : pc'[q] = "idle" <=> pc[q] = "idle"
    BY <1>7, <1>0 DEF releasesleep, at, wakeLockers, BType
  <2> QED BY <1>7, <2>1, <1>b DEF releasesleep
<1>8. ASSUME NEW p \in Procs, brelse(p) PROVE RefInv'
  <2>1. /\ pc[p] = "rel" /\ refcnt' = [refcnt EXCEPT ![buf[p]] = @ - 1]
        /\ buf' = [buf EXCEPT ![p] = NoBuf] /\ pc' = [pc EXCEPT ![p] = "idle"] /\ blockno' = blockno
    BY <1>8 DEF brelse, at, goto
  <2>2. buf[p] \in Bufs /\ NoBuf \notin Bufs /\ p \in Users(buf[p])
    BY <2>1, <1>0, HasBuf DEF NoBuf, Bufs
  <2>3. /\ \A c \in Bufs \ {buf[p]} : Users(c)' = Users(c)
        /\ {q \in Procs : buf'[q] = buf[p]} = Users(buf[p]) \ {p}
    BY <2>1, <2>2, <1>0 DEF Users, BType
  <2>4. Cardinality(Users(buf[p]) \ {p}) = Cardinality(Users(buf[p])) - 1
    BY <2>2, <1>a, FS_RemoveElement, Zenon
  <2>5. ASSUME NEW c \in Bufs PROVE refcnt'[c] = Cardinality({q \in Procs : buf'[q] = c})
    <3>1. /\ refcnt'[buf[p]] = refcnt[buf[p]] - 1 /\ (c # buf[p] => refcnt'[c] = refcnt[c])
          /\ refcnt[c] = Cardinality(Users(c))
      BY <2>1, <2>2, <1>0 DEF RefInv, BType
    <3>2. CASE c = buf[p]
      BY <3>1, <3>2, <2>3, <2>4
    <3>3. CASE c # buf[p]
      BY <3>1, <3>3, <2>3 DEF Users
    <3> QED BY <3>2, <3>3
  <2>6. \A q \in Procs : (pc'[q] = "idle" <=> buf'[q] = NoBuf)
                         /\ (pc'[q] # "idle" => blockno'[buf'[q]] \in Blocks)
    BY <2>1, <1>0 DEF RefInv, BType
  <2> QED BY <2>5, <2>6 DEF RefInv, Users
<1> QED BY <1>1, <1>2, <1>3, <1>4, <1>5, <1>6, <1>7, <1>8, Cases

\* Every step keeps the sleep-locks with their holders, and the sleepers with
\* a lock that is held.
LEMMA LockStep ==
  ASSUME BInv, Next
  PROVE  LockInv'
<1>0. BType /\ RefInv /\ LockInv /\ QueueInv
  BY DEF BInv
<1>a. NoProc \notin Procs /\ NoBuf \notin Bufs
  BY BcacheConstants DEF NoBuf, Bufs
<1>b. \A p \in Procs : pc[p] # "idle" => buf[p] \in Bufs
  BY <1>0, HasBuf
<1>c. ASSUME UNCHANGED <<buf, holder>>, \A p \in Procs : Owns(p)' <=> Owns(p),
             \A p \in Procs : pc'[p] = "asleep" => pc[p] = "asleep"
      PROVE  LockInv'
  BY <1>c, <1>0, Zenon DEF LockInv, SleeperHasHolder, BType
<1>1. CASE ideintr
  <2>1. \A p \in Procs : (Owns(p)' <=> Owns(p)) /\ (pc'[p] = "asleep" => pc[p] = "asleep")
    BY <1>1, <1>0 DEF ideintr, Owns, BType
  <2> QED BY <1>1, <2>1, <1>c DEF ideintr
<1>2. ASSUME NEW p \in Procs, NEW k \in Blocks, bgetPanic(p, k) PROVE LockInv'
  BY <1>2, <1>c DEF bgetPanic, procs, Owns
<1>3. ASSUME NEW p \in Procs, NEW k \in Blocks, NEW b \in Bufs, bgetHit(p, b, k) \/ bgetMiss(p, b, k)
      PROVE  LockInv'
  <2>1. pc[p] = "idle" /\ buf' = [buf EXCEPT ![p] = b] /\ pc' = [pc EXCEPT ![p] = "lock"] /\ holder' = holder
    BY <1>3 DEF bgetHit, bgetMiss, at, goto
  <2>2. \A q \in Procs : q # p => pc'[q] = pc[q] /\ buf'[q] = buf[q]
    BY <2>1, <1>0 DEF BType
  <2>3. pc'[p] = "lock" /\ ~Owns(p)
    BY <2>1, <1>0 DEF BType, Owns
  <2> QED BY <2>1, <2>2, <2>3, <1>0 DEF LockInv, SleeperHasHolder, Owns, BType
<1>4. ASSUME NEW p \in Procs, acquiresleep(p) PROVE LockInv'
  <2>1. /\ pc[p] = "lock" /\ holder[buf[p]] = NoProc /\ holder' = [holder EXCEPT ![buf[p]] = p]
        /\ buf' = buf /\ \E l \in {"hold", "io"} : pc' = [pc EXCEPT ![p] = l]
    BY <1>4, Zenon DEF acquiresleep, at, goto
  <2>2. buf[p] \in Bufs /\ Owns(p)' /\ \A q \in Procs : q # p => pc'[q] = pc[q]
    BY <2>1, <1>0, <1>b DEF BType, Owns
  <2>3. holder'[buf[p]] = p /\ \A b \in Bufs : b # buf[p] => holder'[b] = holder[b]
    BY <2>1, <2>2, <1>0 DEF BType
  <2>4. \A q \in Procs : q # p /\ Owns(q) => buf[q] # buf[p]
    BY <2>1, <1>0, <1>a DEF LockInv
  <2>5. \A q \in Procs : Owns(q)' => holder'[buf'[q]] = q
    BY <2>1, <2>2, <2>3, <2>4, <1>0, <1>b DEF LockInv, Owns
  <2>6. \A b \in Bufs : (holder[b] # NoProc => Owns(holder[b]) /\ buf[holder[b]] = b)'
    BY <2>1, <2>2, <2>3, <1>0 DEF LockInv, Owns, BType
  <2>7. SleeperHasHolder'
    BY <2>1, <2>2, <2>3, <1>0, <1>a, <1>b DEF LockInv, SleeperHasHolder, Owns
  <2> QED BY <2>5, <2>6, <2>7 DEF LockInv
<1>5. ASSUME NEW p \in Procs, sleepOnLock(p) PROVE LockInv'
  <2>1. /\ pc[p] = "lock" /\ holder[buf[p]] # NoProc /\ UNCHANGED <<buf, holder>>
        /\ pc' = [pc EXCEPT ![p] = "asleep"]
    BY <1>5 DEF sleepOnLock, at, goto
  <2>2. pc'[p] = "asleep" /\ \A q \in Procs : q # p => pc'[q] = pc[q]
    BY <2>1, <1>0 DEF BType
  <2>3. \A q \in Procs : Owns(q)' <=> Owns(q)
    BY <2>1, <2>2 DEF Owns
  <2>4. SleeperHasHolder'
    BY <2>1, <2>2, <1>0 DEF LockInv, SleeperHasHolder
  <2>5. \A b \in Bufs : (holder[b] # NoProc => Owns(holder[b]) /\ buf[holder[b]] = b)'
    BY <2>1, <2>2, <1>0 DEF LockInv, Owns, BType
  <2>6. \A q \in Procs : Owns(q)' => holder'[buf'[q]] = q
    BY <2>1, <2>3, <1>0 DEF LockInv
  <2> QED BY <2>4, <2>5, <2>6 DEF LockInv
<1>6. ASSUME NEW p \in Procs, iderw(p) PROVE LockInv'
  <2>1. \A q \in Procs : (Owns(q)' <=> Owns(q)) /\ (pc'[q] = "asleep" => pc[q] = "asleep")
    BY <1>6, <1>0 DEF iderw, at, goto, Owns, BType
  <2> QED BY <1>6, <2>1, <1>c DEF iderw
<1>7. ASSUME NEW p \in Procs, NEW v \in Vals, log_write(p, v) \/ bwrite(p, v) PROVE LockInv'
  <2>1. pc[p] = "hold" /\ (pc' = pc \/ pc' = [pc EXCEPT ![p] = "io"]) /\ UNCHANGED <<buf, holder>>
    BY <1>7 DEF log_write, bwrite, at, goto, procs
  <2>2. \A q \in Procs : (Owns(q)' <=> Owns(q)) /\ (pc'[q] = "asleep" => pc[q] = "asleep")
    BY <2>1, <1>0 DEF Owns, BType
  <2> QED BY <2>1, <2>2, <1>c
<1>8. ASSUME NEW p \in Procs, releasesleep(p) PROVE LockInv'
  <2>1. /\ pc[p] = "hold" /\ holder' = [holder EXCEPT ![buf[p]] = NoProc] /\ buf' = buf
        /\ pc' = wakeLockers(p, buf[p])
    BY <1>8 DEF releasesleep, at
  <2>2. /\ buf[p] \in Bufs /\ holder[buf[p]] = p /\ ~Owns(p)' /\ pc'[p] # "asleep"
        /\ \A q \in Procs : q # p => (Owns(q)' <=> Owns(q))
                                     /\ (pc'[q] = "asleep" => pc[q] = "asleep" /\ buf[q] # buf[p])
    BY <2>1, <1>0, <1>b DEF wakeLockers, Owns, LockInv, BType
  <2>3. holder'[buf[p]] = NoProc /\ \A b \in Bufs : b # buf[p] => holder'[b] = holder[b]
    BY <2>1, <2>2, <1>0 DEF BType
  <2>4. \A q \in Procs : Owns(q)' => holder'[buf'[q]] = q
    BY <2>1, <2>2, <2>3, <1>0, <1>b DEF LockInv, Owns
  <2>5. \A b \in Bufs : (holder[b] # NoProc => Owns(holder[b]) /\ buf[holder[b]] = b)'
    BY <2>1, <2>2, <2>3, <1>0, <1>a DEF LockInv, BType
  <2>6. SleeperHasHolder'
    BY <2>1, <2>2, <2>3, <1>0, <1>b DEF LockInv, SleeperHasHolder
  <2> QED BY <2>4, <2>5, <2>6 DEF LockInv
<1>9. ASSUME NEW p \in Procs, brelse(p) PROVE LockInv'
  <2>1. /\ pc[p] = "rel" /\ buf' = [buf EXCEPT ![p] = NoBuf] /\ pc' = [pc EXCEPT ![p] = "idle"]
        /\ holder' = holder
    BY <1>9 DEF brelse, at, goto
  <2>2. /\ pc'[p] = "idle" /\ ~Owns(p)
        /\ \A q \in Procs : q # p => pc'[q] = pc[q] /\ buf'[q] = buf[q]
    BY <2>1, <1>0 DEF BType, Owns
  <2> QED BY <2>1, <2>2, <1>0 DEF LockInv, SleeperHasHolder, Owns, BType
<1> QED BY <1>1, <1>2, <1>3, <1>4, <1>5, <1>6, <1>7, <1>8, <1>9, Cases

\* Every step keeps the queue of the driver true to the waiting processes.
LEMMA QueueStep ==
  ASSUME BInv, Next
  PROVE  QueueInv'
<1>0. BType /\ RefInv /\ LockInv /\ QueueInv /\ Len(idequeue) \in Nat
  BY DEF BInv, BType
<1>a. ASSUME idequeue' = idequeue,
             \A p \in Procs : pc[p] = "disk" => pc'[p] = "disk" /\ buf'[p] = buf[p]
      PROVE  QueueInv'
  BY <1>a, <1>0 DEF QueueInv
<1>1. CASE ideintr
  <2>1. /\ Len(idequeue') \in Nat /\ Len(idequeue) = Len(idequeue') + 1
        /\ \A i \in 1..Len(idequeue') : i + 1 \in 1..Len(idequeue) /\ idequeue'[i] = idequeue[i + 1]
        /\ 1 \in 1..Len(idequeue)
    BY <1>1, <1>0, QueueTail
  <2>2. /\ buf' = buf
        /\ \A p \in Procs : pc[p] = "disk" /\ buf[p] # idequeue[1] => pc'[p] = "disk"
    BY <1>1, <1>0 DEF ideintr, done, BType
  <2>3. ASSUME NEW i \in 1..Len(idequeue')
        PROVE  \E p \in Procs : pc'[p] = "disk" /\ buf'[p] = idequeue'[i]
    <3>1. i + 1 \in 1..Len(idequeue) /\ i + 1 # 1 /\ idequeue'[i] = idequeue[i + 1]
      BY <2>1
    <3>2. PICK p \in Procs : pc[p] = "disk" /\ buf[p] = idequeue[i + 1]
      BY <3>1, <1>0 DEF QueueInv
    <3>3. idequeue[i + 1] # idequeue[1]
      BY <3>1, <2>1, <1>0 DEF QueueInv
    <3> QED BY <3>1, <3>2, <3>3, <2>2
  <2>4. ASSUME NEW i \in 1..Len(idequeue'), NEW j \in 1..Len(idequeue'), idequeue'[i] = idequeue'[j]
        PROVE  i = j
    <3>1. i + 1 = j + 1
      BY <2>1, <2>4, <1>0 DEF QueueInv
    <3> QED BY <3>1
  <2> QED BY <2>3, <2>4 DEF QueueInv
<1>2. ASSUME NEW p \in Procs, NEW k \in Blocks, bgetPanic(p, k) PROVE QueueInv'
  BY <1>2, <1>a DEF bgetPanic, procs
<1>3. ASSUME NEW p \in Procs, NEW k \in Blocks, NEW b \in Bufs, bgetHit(p, b, k) \/ bgetMiss(p, b, k)
      PROVE  QueueInv'
  <2>1. pc[p] = "idle" /\ buf' = [buf EXCEPT ![p] = b] /\ pc' = [pc EXCEPT ![p] = "lock"]
        /\ idequeue' = idequeue
    BY <1>3 DEF bgetHit, bgetMiss, at, goto
  <2>2. \A q \in Procs : pc[q] = "disk" => pc'[q] = "disk" /\ buf'[q] = buf[q]
    BY <2>1, <1>0 DEF BType
  <2> QED BY <2>1, <2>2, <1>a
<1>4. ASSUME NEW p \in Procs, acquiresleep(p) \/ sleepOnLock(p) PROVE QueueInv'
  <2>1. /\ pc[p] = "lock" /\ UNCHANGED <<buf, idequeue>>
        /\ \E l \in {"hold", "io", "asleep"} : pc' = [pc EXCEPT ![p] = l]
    BY <1>4, Zenon DEF acquiresleep, sleepOnLock, at, goto
  <2>2. \A q \in Procs : pc[q] = "disk" => pc'[q] = "disk" /\ buf'[q] = buf[q]
    BY <2>1, <1>0 DEF BType
  <2> QED BY <2>1, <2>2, <1>a
<1>5. ASSUME NEW p \in Procs, iderw(p) PROVE QueueInv'
  <2>1. /\ pc[p] = "io" /\ pc' = [pc EXCEPT ![p] = "disk"] /\ buf' = buf
        /\ idequeue' = Append(idequeue, buf[p])
    BY <1>5 DEF iderw, at, goto
  <2>2. buf[p] \in Bufs /\ pc'[p] = "disk" /\ \A q \in Procs : pc[q] = "disk" => pc'[q] = "disk"
    BY <2>1, <1>0, HasBuf DEF BType
  <2>3. \A i \in 1..Len(idequeue) : idequeue[i] # buf[p]
    <3>1. \A q \in Procs : pc[q] = "disk" => buf[q] # buf[p]
      BY <2>1, <1>0 DEF LockInv, Owns
    <3> QED BY <3>1, <1>0 DEF QueueInv
  <2>4. /\ Len(idequeue') = Len(idequeue) + 1 /\ idequeue'[Len(idequeue) + 1] = buf[p]
        /\ \A i \in 1..Len(idequeue) : idequeue'[i] = idequeue[i]
    BY <2>1, <2>2, <1>0 DEF BType
  <2>5. \A i \in 1..Len(idequeue') : i \in 1..Len(idequeue) \/ i = Len(idequeue) + 1
    BY <2>4, <1>0
  <2>6. \A i, j \in 1..Len(idequeue') : idequeue'[i] = idequeue'[j] => i = j
    BY <2>3, <2>4, <2>5, <1>0 DEF QueueInv
  <2>7. \A i \in 1..Len(idequeue') : \E q \in Procs : pc'[q] = "disk" /\ buf'[q] = idequeue'[i]
    BY <2>1, <2>2, <2>4, <2>5, <1>0 DEF QueueInv
  <2> QED BY <2>6, <2>7 DEF QueueInv
<1>6. ASSUME NEW p \in Procs, NEW v \in Vals, log_write(p, v) \/ bwrite(p, v) PROVE QueueInv'
  <2>1. /\ pc[p] = "hold" /\ UNCHANGED <<buf, idequeue>>
        /\ pc' = pc \/ pc' = [pc EXCEPT ![p] = "io"]
    BY <1>6 DEF log_write, bwrite, at, goto, procs
  <2>2. \A q \in Procs : pc[q] = "disk" => pc'[q] = "disk" /\ buf'[q] = buf[q]
    BY <2>1, <1>0 DEF BType
  <2> QED BY <2>1, <2>2, <1>a
<1>7. ASSUME NEW p \in Procs, releasesleep(p) PROVE QueueInv'
  <2>1. \A q \in Procs : pc[q] = "disk" => pc'[q] = "disk" /\ buf'[q] = buf[q]
    BY <1>7, <1>0 DEF releasesleep, at, wakeLockers, BType
  <2> QED BY <1>7, <2>1, <1>a DEF releasesleep
<1>8. ASSUME NEW p \in Procs, brelse(p) PROVE QueueInv'
  <2>1. /\ pc[p] = "rel" /\ buf' = [buf EXCEPT ![p] = NoBuf] /\ pc' = [pc EXCEPT ![p] = "idle"]
        /\ idequeue' = idequeue
    BY <1>8 DEF brelse, at, goto
  <2>2. \A q \in Procs : pc[q] = "disk" => pc'[q] = "disk" /\ buf'[q] = buf[q]
    BY <2>1, <1>0 DEF BType
  <2> QED BY <2>1, <2>2, <1>a
<1> QED BY <1>1, <1>2, <1>3, <1>4, <1>5, <1>6, <1>7, <1>8, Cases

\* A step that leaves buffers and disk alone, and lets nobody hold one anew.
LEMMA DataKeep ==
  ASSUME BType, DataInv, UNCHANGED <<blockno, valid, dirty, data, disk, stored>>,
         \A p \in Procs : pc'[p] = "hold" => valid[buf'[p]]
  PROVE  DataInv'
BY DEF DataInv, OneBufferPerBlock

\* Every step keeps the last store to each block in its buffer or on the disk.
LEMMA DataStep ==
  ASSUME BInv, Next
  PROVE  DataInv'
<1>0. BType /\ RefInv /\ LockInv /\ QueueInv /\ DataInv
  BY DEF BInv
<1>a. \A p \in Procs : pc[p] = "hold" => valid[buf[p]]
  BY <1>0 DEF DataInv
<1>1. CASE ideintr
  <2> DEFINE b == idequeue[1]  k == blockno[b]
  <2>1. b \in Bufs /\ k \in Blocks
    BY <1>1, <1>0, QueueHead, QueueTail
  <2>2. /\ UNCHANGED <<blockno, buf, stored>>
        /\ valid' = [valid EXCEPT ![b] = TRUE] /\ dirty' = [dirty EXCEPT ![b] = FALSE]
        /\ \A p \in Procs : pc'[p] = "hold" => pc[p] = "hold" \/ buf[p] = b
        /\ \/ dirty[b] /\ disk' = [disk EXCEPT ![k] = data[b]] /\ data' = data
           \/ ~dirty[b] /\ data' = [data EXCEPT ![b] = disk[k]] /\ disk' = disk
    BY <1>1, <1>0 DEF ideintr, done, BType
  <2>3. /\ valid'[b] /\ ~dirty'[b]
        /\ \A c \in Bufs : c # b => valid'[c] = valid[c] /\ dirty'[c] = dirty[c]
    BY <2>1, <2>2, <1>0, Zenon DEF BType
  <2>4. \A c \in Bufs : c # b => data'[c] = data[c] /\ blockno[c] # k
    BY <2>1, <2>2, <1>0, BcacheConstants DEF BType, DataInv, OneBufferPerBlock, NoBlock
  <2>5. disk'[k] = stored[k] /\ data'[b] = stored[k] /\ \A j \in Blocks : j # k => disk'[j] = disk[j]
    <3>1. CASE dirty[b]
      <4>1. data[b] = stored[k]
        BY <3>1, <2>1, <1>0 DEF DataInv
      <4>2. disk' = [disk EXCEPT ![k] = data[b]] /\ data' = data
        BY <3>1, <2>2
      <4> QED BY <4>1, <4>2, <2>1, <1>0 DEF BType
    <3>2. CASE ~dirty[b]
      <4>1. \A c \in Bufs : blockno[c] = k => ~dirty[c]
        BY <3>2, <2>4
      <4>2. disk[k] = stored[k]
        BY <4>1, <2>1, <1>0 DEF DataInv
      <4>3. data' = [data EXCEPT ![b] = disk[k]] /\ disk' = disk
        BY <3>2, <2>2
      <4> QED BY <4>2, <4>3, <2>1, <1>0 DEF BType
    <3> QED BY <3>1, <3>2
  <2>6. OneBufferPerBlock'
    BY <2>2, <1>0 DEF DataInv, OneBufferPerBlock
  <2>7. \A c \in Bufs : (/\ dirty[c] => valid[c]
                         /\ valid[c] => blockno[c] \in Blocks /\ data[c] = stored[blockno[c]])'
    BY <2>1, <2>2, <2>3, <2>4, <2>5, <1>0 DEF DataInv
  <2>8. ASSUME NEW j \in Blocks, \A c \in Bufs : blockno[c] = j => ~dirty'[c]
        PROVE  disk'[j] = stored[j]
    <3>1. CASE j = k
      BY <3>1, <2>5
    <3>2. CASE j # k
      <4>1. \A c \in Bufs : blockno[c] = j => ~dirty[c]
        BY <3>2, <2>3, <2>8
      <4> QED BY <4>1, <3>2, <2>5, <1>0 DEF DataInv
    <3> QED BY <3>1, <3>2
  <2>9. \A p \in Procs : pc'[p] = "hold" => valid'[buf'[p]]
    <3>1. \A p \in Procs : pc[p] = "hold" => buf[p] \in Bufs
      BY <1>0, HasBuf
    <3> QED BY <3>1, <2>2, <2>3, <1>a
  <2> QED BY <2>2, <2>6, <2>7, <2>8, <2>9 DEF DataInv
<1>2. ASSUME NEW p \in Procs, NEW k \in Blocks, bgetPanic(p, k) PROVE DataInv'
  BY <1>2, <1>0, <1>a, DataKeep DEF bgetPanic, flags, procs
<1>3. ASSUME NEW p \in Procs, NEW k \in Blocks, NEW b \in Bufs, bgetHit(p, b, k) PROVE DataInv'
  <2>1. /\ UNCHANGED <<blockno, valid, dirty, data, disk, stored>>
        /\ buf' = [buf EXCEPT ![p] = b] /\ pc' = [pc EXCEPT ![p] = "lock"]
    BY <1>3 DEF bgetHit, flags, goto
  <2>2. \A q \in Procs : pc'[q] = "hold" => pc[q] = "hold" /\ buf'[q] = buf[q]
    BY <2>1, <1>0 DEF BType
  <2> QED BY <2>1, <2>2, <1>0, <1>a, DataKeep
<1>4. ASSUME NEW p \in Procs, NEW k \in Blocks, NEW b \in Bufs, bgetMiss(p, b, k) PROVE DataInv'
  <2>1. /\ refcnt[b] = 0 /\ ~dirty[b] /\ \A c \in Bufs : blockno[c] # k
        /\ blockno' = [blockno EXCEPT ![b] = k] /\ UNCHANGED <<data, disk, stored>>
        /\ buf' = [buf EXCEPT ![p] = b] /\ pc' = [pc EXCEPT ![p] = "lock"]
    BY <1>4 DEF bgetMiss, Recyclable, Cached, goto
  <2>2. valid' = [valid EXCEPT ![b] = FALSE] /\ dirty' = [dirty EXCEPT ![b] = FALSE]
    BY <1>4 DEF bgetMiss
  <2>3. /\ ~valid'[b] /\ ~dirty'[b]
        /\ \A c \in Bufs : c # b => valid'[c] = valid[c] /\ dirty'[c] = dirty[c]
    BY <2>2, <1>0, Zenon DEF BType
  <2>4. blockno'[b] = k /\ \A c \in Bufs : c # b => blockno'[c] = blockno[c]
    BY <2>1, <1>0 DEF BType
  <2>5. OneBufferPerBlock'
    BY <2>1, <2>4, <1>0 DEF DataInv, OneBufferPerBlock
  <2>6. \A c \in Bufs : (/\ dirty[c] => valid[c]
                         /\ valid[c] => blockno[c] \in Blocks /\ data[c] = stored[blockno[c]])'
    BY <2>1, <2>3, <2>4, <1>0 DEF DataInv
  <2>7. ASSUME NEW j \in Blocks, \A c \in Bufs : blockno'[c] = j => ~dirty'[c]
        PROVE  disk'[j] = stored'[j]
    <3>1. \A c \in Bufs : blockno[c] = j => ~dirty[c]
      BY <2>1, <2>3, <2>4, <2>7
    <3> QED BY <3>1, <2>1, <1>0 DEF DataInv
  <2>8. ASSUME NEW q \in Procs, pc'[q] = "hold" PROVE valid'[buf'[q]]
    <3>1. pc[q] = "hold" /\ buf'[q] = buf[q]
      BY <2>1, <2>8, <1>0 DEF BType
    <3>2. buf[q] \in Bufs /\ buf[q] # b
      BY <3>1, <2>1, <1>0, HasBuf, Unused
    <3> QED BY <3>1, <3>2, <2>3, <1>a
  <2> QED BY <2>5, <2>6, <2>7, <2>8 DEF DataInv
<1>5. ASSUME NEW p \in Procs, acquiresleep(p) PROVE DataInv'
  <2>1. UNCHANGED <<blockno, valid, dirty, data, disk, stored, buf>>
    BY <1>5 DEF acquiresleep, flags
  <2>2. \A q \in Procs : pc'[q] = "hold" => pc[q] = "hold" \/ valid[buf[q]]
    BY <1>5, <1>0, Zenon DEF acquiresleep, goto, BType
  <2> QED BY <2>1, <2>2, <1>0, <1>a, DataKeep
<1>6. ASSUME NEW p \in Procs, sleepOnLock(p) \/ iderw(p) PROVE DataInv'
  <2>1. /\ UNCHANGED <<blockno, valid, dirty, data, disk, stored, buf>>
        /\ pc' = [pc EXCEPT ![p] = "asleep"] \/ pc' = [pc EXCEPT ![p] = "disk"]
    BY <1>6 DEF sleepOnLock, iderw, flags, goto
  <2>2. \A q \in Procs : pc'[q] = "hold" => pc[q] = "hold"
    BY <2>1, <1>0 DEF BType
  <2> QED BY <2>1, <2>2, <1>0, <1>a, DataKeep
<1>7. ASSUME NEW p \in Procs, NEW v \in Vals, log_write(p, v) \/ bwrite(p, v) PROVE DataInv'
  <2> DEFINE b == buf[p]  k == blockno[b]
  <2>1. /\ pc[p] = "hold" /\ UNCHANGED <<blockno, valid, disk, buf>>
        /\ data' = [data EXCEPT ![b] = v] /\ stored' = [stored EXCEPT ![k] = v]
        /\ dirty' = [dirty EXCEPT ![b] = TRUE]
        /\ pc' = pc \/ pc' = [pc EXCEPT ![p] = "io"]
    BY <1>7 DEF log_write, bwrite, Store, at, goto, procs
  <2>2. b \in Bufs /\ k \in Blocks /\ valid[b]
    BY <2>1, <1>0, <1>a, HasBuf
  <2>3. dirty'[b] /\ \A c \in Bufs : c # b => dirty'[c] = dirty[c]
    BY <2>1, <2>2, <1>0, Zenon DEF BType
  <2>4. /\ data'[b] = v /\ stored'[k] = v
        /\ \A c \in Bufs : c # b => data'[c] = data[c] /\ blockno[c] # k
        /\ \A j \in Blocks : j # k => stored'[j] = stored[j]
    <3>1. \A c \in Bufs : c # b => blockno[c] # k
      BY <2>2, <1>0, BcacheConstants DEF DataInv, OneBufferPerBlock, NoBlock
    <3> QED BY <3>1, <2>1, <2>2, <1>0 DEF BType
  <2>5. OneBufferPerBlock'
    BY <2>1, <1>0 DEF DataInv, OneBufferPerBlock
  <2>6. \A c \in Bufs : (/\ dirty[c] => valid[c]
                         /\ valid[c] => blockno[c] \in Blocks /\ data[c] = stored[blockno[c]])'
    <3>1. ASSUME NEW c \in Bufs, valid[c], c # b
          PROVE  blockno[c] \in Blocks /\ data'[c] = stored'[blockno[c]]
      <4>1. blockno[c] \in Blocks /\ data[c] = stored[blockno[c]] /\ blockno[c] # k
        BY <3>1, <2>4, <1>0 DEF DataInv
      <4> QED BY <4>1, <3>1, <2>4
    <3>2. \A c \in Bufs : dirty'[c] => valid[c]
      BY <2>2, <2>3, <1>0 DEF DataInv
    <3> QED BY <3>1, <3>2, <2>1, <2>2, <2>4
  <2>7. ASSUME NEW j \in Blocks, \A c \in Bufs : blockno[c] = j => ~dirty'[c]
        PROVE  disk[j] = stored'[j]
    <3>1. j # k
      BY <2>2, <2>3, <2>7
    <3>2. \A c \in Bufs : blockno[c] = j => ~dirty[c]
      BY <3>1, <2>3, <2>7
    <3> QED BY <3>1, <3>2, <2>4, <1>0 DEF DataInv
  <2>8. \A q \in Procs : pc'[q] = "hold" => valid'[buf'[q]]
    BY <2>1, <1>0, <1>a DEF BType
  <2> QED BY <2>1, <2>5, <2>6, <2>7, <2>8 DEF DataInv
<1>8. ASSUME NEW p \in Procs, releasesleep(p) PROVE DataInv'
  <2>1. UNCHANGED <<blockno, valid, dirty, data, disk, stored, buf>>
    BY <1>8 DEF releasesleep, flags
  <2>2. \A q \in Procs : pc'[q] = "hold" => pc[q] = "hold"
    BY <1>8, <1>0 DEF releasesleep, wakeLockers, BType
  <2> QED BY <2>1, <2>2, <1>0, <1>a, DataKeep
<1>9. ASSUME NEW p \in Procs, brelse(p) PROVE DataInv'
  <2>1. /\ UNCHANGED <<blockno, valid, dirty, data, disk, stored>>
        /\ buf' = [buf EXCEPT ![p] = NoBuf] /\ pc' = [pc EXCEPT ![p] = "idle"]
    BY <1>9 DEF brelse, flags, goto
  <2>2. \A q \in Procs : pc'[q] = "hold" => pc[q] = "hold" /\ buf'[q] = buf[q]
    BY <2>1, <1>0 DEF BType
  <2> QED BY <2>1, <2>2, <1>0, <1>a, DataKeep
<1> QED BY <1>1, <1>2, <1>3, <1>4, <1>5, <1>6, <1>7, <1>8, <1>9, Cases

-----------------------------------------------------------------------------
\* binit establishes the invariant.
LEMMA InitBInv == Init => BInv
<1> SUFFICES ASSUME Init PROVE BInv
  OBVIOUS
<1>0. NoBuf \notin Bufs /\ NoBlock \notin Blocks /\ idequeue = <<>> /\ Len(<<>>) = 0
  BY BcacheConstants DEF NoBuf, Bufs, NoBlock, Init
<1>1. \A p \in Procs : pc[p] = "idle" /\ buf[p] = NoBuf
  BY DEF Init
<1>2. \A b \in Bufs : blockno[b] = NoBlock /\ refcnt[b] = 0 /\ holder[b] = NoProc
  BY DEF Init
<1>3. (\A b \in Bufs : ~valid[b] /\ ~dirty[b]) /\ stored = disk
  BY Zenon DEF Init
<1>4. BType
  <2>1. valid \in [Bufs -> BOOLEAN] /\ dirty \in [Bufs -> BOOLEAN]
    BY Zenon DEF Init
  <2>2. /\ blockno \in [Bufs -> Blocks \cup {NoBlock}] /\ refcnt \in [Bufs -> Nat]
        /\ holder \in [Bufs -> Procs \cup {NoProc}] /\ idequeue \in Seq(Bufs)
        /\ pc \in [Procs -> Labels] /\ buf \in [Procs -> Bufs \cup {NoBuf}]
    BY DEF Init, Labels
  <2>3. data \in [Bufs -> Vals] /\ disk \in [Blocks -> Vals]
    BY DEF Init
  <2> QED BY <2>1, <2>2, <2>3, <1>3 DEF BType
<1>5. RefInv
  <2>1. \A b \in Bufs : Users(b) = {}
    BY <1>0, <1>1 DEF Users
  <2> QED BY <2>1, <1>1, <1>2, FS_EmptySet DEF RefInv
<1>6. LockInv
  BY <1>1, <1>2 DEF LockInv, Owns, SleeperHasHolder
<1>7. QueueInv
  BY <1>0 DEF QueueInv
<1>8. DataInv
  BY <1>0, <1>1, <1>2, <1>3 DEF DataInv, OneBufferPerBlock
<1>9. ListInv
  <2>1. mru = [i \in Bufs |-> NBUF + 1 - i] /\ NBUF \in Nat \ {0}
    BY BcacheConstants DEF Init
  <2>2. \A i \in Bufs : NBUF + 1 - i \in Bufs /\ NBUF + 1 - (NBUF + 1 - i) = i
    BY <2>1 DEF Bufs
  <2>3. \A b \in Bufs : mru[NBUF + 1 - b] = b
    BY <2>1, <2>2
  <2> QED BY <2>1, <2>2, <2>3 DEF ListInv
<1> QED BY <1>4, <1>5, <1>6, <1>7, <1>8, <1>9 DEF BInv

\* Every step keeps all the buffers in the list.
LEMMA ListStep ==
  ASSUME BInv, Next
  PROVE  ListInv'
<1>0. BType /\ RefInv /\ ListInv
  BY DEF BInv
<1>1. CASE mru' = mru
  BY <1>1, <1>0 DEF ListInv
<1>2. ASSUME NEW p \in Procs, brelse(p) PROVE ListInv'
  <2>1. pc[p] = "rel" /\ (mru' = mru \/ mru' = toFront(buf[p]))
    BY <1>2 DEF brelse, at
  <2>2. buf[p] \in Bufs
    BY <2>1, <1>0, HasBuf
  <2>3. CASE mru' = toFront(buf[p])
    BY <2>2, <2>3, <1>0, FrontKeepsList DEF ListInv
  <2> QED BY <2>1, <2>3, <1>1
<1>3. mru' = mru \/ \E p \in Procs : brelse(p)
  BY Cases DEF ideintr, bgetPanic, bgetHit, bgetMiss, acquiresleep, sleepOnLock, iderw,
               log_write, bwrite, releasesleep
<1> QED BY <1>1, <1>2, <1>3

\* A step that changes nothing keeps the invariant.
LEMMA StutterBInv ==
  ASSUME BInv, UNCHANGED vars
  PROVE  BInv'
<1>1. UNCHANGED <<blockno, valid, dirty, data, refcnt, holder, mru, idequeue, disk, pc, buf, stored>>
  BY DEF vars, flags, procs
<1>2. BType' /\ RefInv' /\ ListInv'
  BY <1>1 DEF BInv, BType, RefInv, Users, ListInv
<1>3. LockInv'
  BY <1>1 DEF BInv, LockInv, Owns, SleeperHasHolder
<1>4. QueueInv'
  BY <1>1 DEF BInv, QueueInv
<1>5. DataInv'
  BY <1>1, DataKeep DEF BInv, DataInv
<1> QED BY <1>2, <1>3, <1>4, <1>5 DEF BInv

\* The inductive invariant of the buffer cache: references, locks, the queue of
\* the driver, and where the last store to each block is.
THEOREM CacheInvariance == Spec => []BInv
<1>1. BInv /\ [Next]_vars => BInv'
  <2>1. ASSUME BInv, Next PROVE BInv'
    BY <2>1, TypeStep, RefStep, LockStep, QueueStep, DataStep, ListStep DEF BInv
  <2> QED BY <2>1, StutterBInv
<1> QED BY InitBInv, <1>1, PTL DEF Spec

\* bget never gives a block a second buffer, for any number of processes and
\* buffers.
THEOREM NoSecondCopy == Spec => []OneBufferPerBlock
<1>1. BInv => OneBufferPerBlock
  BY DEF BInv, DataInv
<1> QED BY <1>1, CacheInvariance, PTL

\* No store is lost: the holder of a buffer reads the last value stored into its
\* block, and a block without a valid buffer is up to date on the disk.
THEOREM NoLostStore == Spec => []SeesLastStore
<1>1. BInv => SeesLastStore
  BY DEF BInv, DataInv, SeesLastStore
<1> QED BY <1>1, CacheInvariance, PTL

\* releasesleep leaves nobody asleep on a lock that is free.
THEOREM NoLostRelease == Spec => []SleeperHasHolder
<1>1. BInv => SleeperHasHolder
  BY DEF BInv, LockInv
<1> QED BY <1>1, CacheInvariance, PTL

\* The reference counts are the numbers of users and keep the buffers of the
\* driver's queue and of the sleep-locks from being recycled; no buffer ever
\* leaves the list of bcache.head.
THEOREM CountsAreUsers == Spec => []CountsUsers
<1>1. ASSUME BInv PROVE CountsUsers
  <2>0. BType /\ RefInv /\ LockInv /\ QueueInv /\ ListInv
    BY <1>1 DEF BInv
  <2>1. ASSUME NEW b \in Bufs
        PROVE  /\ refcnt[b] = Cardinality(Users(b)) /\ refcnt[b] \in 0..Cardinality(Procs)
               /\ \A p \in Users(b) : refcnt[b] > 0
    <3>1. Users(b) \in SUBSET Procs /\ IsFiniteSet(Procs)
      BY BcacheConstants DEF Users
    <3>2. Cardinality(Users(b)) <= Cardinality(Procs) /\ Cardinality(Procs) \in Nat
      BY <3>1, FS_Subset, FS_CardinalityType
    <3>3. refcnt[b] = Cardinality(Users(b)) /\ refcnt[b] \in Nat
      BY <2>0 DEF RefInv, BType
    <3>4. ASSUME NEW p \in Users(b) PROVE refcnt[b] > 0
      <4>1. p \in Procs /\ buf[p] = b
        BY DEF Users
      <4>2. refcnt[b] # 0
        BY <4>1, <2>0, Unused
      <4> QED BY <4>2, <3>3
    <3> QED BY <3>2, <3>3, <3>4
  <2>2. TypeOK
    BY <2>0, <2>1 DEF BType, ListInv, TypeOK, Labels
  <2>3. ASSUME NEW b \in Bufs, (\E i \in 1..Len(idequeue) : idequeue[i] = b) \/ holder[b] # NoProc
        PROVE  refcnt[b] > 0
    <3>1. \E p \in Procs : p \in Users(b)
      BY <2>3, <2>0 DEF QueueInv, LockInv, Users, BType
    <3> QED BY <3>1, <2>1
  <2> QED BY <2>1, <2>2, <2>3 DEF CountsUsers, Users
<1> QED BY <1>1, CacheInvariance, PTL
=============================================================================
