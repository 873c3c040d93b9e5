----------------------------- MODULE LogProofs ------------------------------
(***************************************************************************)
(* Machine-checked proofs about the log, for every number of processes and *)
(* blocks and every size of the log: the invariant of log.c, and that the  *)
(* log implements AtomicLog.                                               *)
(***************************************************************************)
EXTENDS Log, FiniteSetTheorems, TLAPS

Labels == {"idle", "begin", "asleep", "op", "log", "write_log",
           "write_head", "install", "erase", "done"}

\* The types; that log.outstanding is small follows from CountInv.
LType ==
  /\ home \in [Blocks -> Vals] /\ dlog \in [Slots -> Vals]
  /\ dhead \in Seq(Blocks) /\ lh \in Seq(Blocks)
  /\ cache \in [Blocks -> Vals \cup {NoVal}] /\ dirty \subseteq Blocks
  /\ outstanding \in Nat /\ committing \in BOOLEAN
  /\ mode \in {"recover", "run", "panic"} /\ tail \in Nat \ {0}
  /\ pc \in [Procs -> Labels]
  /\ buf \in [Procs -> Blocks \cup {NoVal}]
  /\ wrote \in [Procs -> SUBSET Blocks]

Commits(p) == pc[p] \in {"write_log", "write_head", "install", "erase", "done"}
Installs(p) == pc[p] \in {"install", "erase"}
NoDup(s) == \A i, j \in 1..Len(s) : s[i] = s[j] => i = j
Held(b) == \E p \in Procs : buf[p] = b

\* log.outstanding counts the active operations, log.committing says that one
\* process commits, and it does so alone; what is in the log is there for an
\* operation or for the commit.
CountInv ==
  /\ outstanding = Cardinality(Active)
  /\ committing <=> \E p \in Procs : Commits(p)
  /\ \A p, q \in Procs : Commits(p) /\ Commits(q) => p = q
  /\ committing => outstanding = 0
  /\ ~committing /\ outstanding = 0 /\ mode # "recover" => lh = <<>>
  /\ mode = "recover" => pc = AllIdle

WaitInv == (\E p \in Procs : pc[p] = "asleep") => committing \/ outstanding > 0

\* The log blocks that begin_op has set aside for the active operations.
Reserved ==
  {x \in Procs \X (1..MAXOPBLOCKS) : x[1] \in Active /\ x[2] > Cardinality(wrote[x[1]])}

SpaceInv ==
  /\ Len(lh) + Cardinality(Reserved) <= LOGSIZE
  /\ \A p \in Procs :
       /\ wrote[p] \subseteq Entries(lh)
       /\ p \notin Active => wrote[p] = {} /\ buf[p] = NoVal
       /\ pc[p] = "op" /\ mode = "run" => buf[p] = NoVal
       /\ pc[p] = "log" => buf[p] # NoVal /\ Cardinality(wrote[p] \cup {buf[p]}) <= MAXOPBLOCKS

\* A block whose cached content is not the one on the disk is held, or it is
\* in the log and pinned.
CacheInv ==
  \A b \in Blocks :
    \/ View[b] = home[b]
    \/ mode # "recover" /\ (Held(b) \/ (b \in dirty /\ b \in Entries(lh)))

\* How far the process that commits has come.
Phase(p) ==
  /\ pc[p] = "write_log" =>
       tail \in 1..Len(lh) /\ \A i \in 1..Len(lh) : i < tail => dlog[i] = View[lh[i]]
  /\ pc[p] = "write_head" => lh # <<>>
  /\ pc[p] \in {"write_head", "install", "erase"} => \A i \in 1..Len(lh) : dlog[i] = View[lh[i]]
  /\ Installs(p) => dhead = lh /\ \A i \in 1..Len(lh) : i < tail => home[lh[i]] = dlog[i]
  /\ pc[p] = "install" => tail \in 1..Len(lh)
  /\ pc[p] = "erase" => tail = Len(lh) + 1
  /\ pc[p] = "done" => lh = <<>>

\* The header on the disk is empty except between write_head and the second
\* write_head; then it is the log, whose blocks are complete.
DiskInv ==
  /\ NoDup(lh)
  /\ dhead = <<>> \/ dhead = lh
  /\ mode = "recover" => dhead = lh /\ \A i \in 1..Len(lh) : i < tail => home[lh[i]] = dlog[i]
  /\ mode # "recover" /\ (\A p \in Procs : ~Installs(p)) => dhead = <<>>
  /\ \A p \in Procs : Phase(p)

IInv == LType /\ CountInv /\ WaitInv /\ SpaceInv /\ CacheInv /\ DiskInv

-----------------------------------------------------------------------------
\* The sets that are counted are finite.
LEMMA Finite ==
  ASSUME LType
  PROVE  /\ IsFiniteSet(Active) /\ Cardinality(Active) \in Nat
         /\ Cardinality(Active) <= Cardinality(Procs) /\ Cardinality(Procs) \in Nat
         /\ Active = {} <=> Cardinality(Active) = 0
         /\ IsFiniteSet(Reserved) /\ Cardinality(Reserved) \in Nat
<1>1. IsFiniteSet(Procs) /\ Active \in SUBSET Procs
  BY LogConstants DEF Active
<1>2. IsFiniteSet(Active) /\ Cardinality(Active) <= Cardinality(Procs)
  BY <1>1, FS_Subset
<1>3. IsFiniteSet(1..MAXOPBLOCKS)
  BY LogConstants, FS_Interval
<1>4. IsFiniteSet(Procs \X (1..MAXOPBLOCKS))
  BY <1>1, <1>3, FS_Product, Zenon
<1>5. Reserved \in SUBSET (Procs \X (1..MAXOPBLOCKS))
  BY DEF Reserved
<1>6. IsFiniteSet(Reserved)
  BY <1>4, <1>5, FS_Subset
<1> QED BY <1>1, <1>2, <1>6, FS_CardinalityType, FS_EmptySet

\* The transaction fits into the blocks of the log.
LEMMA LogFits ==
  ASSUME LType, SpaceInv
  PROVE  Len(lh) <= LOGSIZE /\ 1..Len(lh) \subseteq Slots
<1>1. Len(lh) \in Nat /\ Cardinality(Reserved) \in Nat
  BY Finite DEF LType
<1> QED BY <1>1, LogConstants DEF SpaceInv, Slots

\* What system calls read is a function from blocks to contents.
LEMMA ViewType ==
  ASSUME LType
  PROVE  View \in [Blocks -> Vals]
BY DEF LType, View

\* Nobody else is in an operation while one process commits.
LEMMA CommitAlone ==
  ASSUME LType, CountInv, NEW p \in Procs, Commits(p)
  PROVE  committing /\ outstanding = 0 /\ Active = {} /\ mode # "recover"
<1>1. committing /\ outstanding = 0
  BY DEF CountInv
<1>2. mode # "recover"
  BY DEF CountInv, AllIdle, Commits
<1> QED BY <1>1, <1>2, Finite DEF CountInv

\* While an operation is active nobody commits.
LEMMA OpAlone ==
  ASSUME LType, CountInv, NEW p \in Active
  PROVE  /\ ~committing /\ outstanding > 0 /\ mode # "recover"
         /\ \A q \in Procs : ~Commits(q)
<1>1. outstanding > 0
  BY Finite DEF CountInv
<1>2. ~committing
  BY <1>1 DEF CountInv, LType
<1>3. mode # "recover"
  BY DEF CountInv, AllIdle, Active
<1> QED BY <1>1, <1>2, <1>3 DEF CountInv

\* Every step keeps the types.
LEMMA TypeStep ==
  ASSUME LType, CountInv, SpaceInv, DiskInv, Next
  PROVE  LType'
<1> USE DEF LType, disk, mem, ops
<1>0. Len(lh) \in Nat /\ 1..Len(lh) \subseteq Slots /\ \A i \in 1..Len(lh) : lh[i] \in Blocks
  BY LogFits
<1>1. CASE crash
  <2>1. /\ EmptyCache \in [Blocks -> Vals \cup {NoVal}] /\ AllIdle \in [Procs -> Labels]
        /\ NoBufs \in [Procs -> Blocks \cup {NoVal}] /\ NoWrites \in [Procs -> SUBSET Blocks]
    BY DEF EmptyCache, AllIdle, NoBufs, NoWrites, Labels
  <2>2. committing' \in BOOLEAN /\ mode' \in {"recover", "run", "panic"} /\ dirty' = {}
    BY <1>1, Zenon DEF crash
  <2>3. outstanding' \in Nat /\ tail' \in Nat \ {0} /\ lh' = dhead /\ UNCHANGED disk
    BY <1>1 DEF crash
  <2>4. cache' = EmptyCache /\ pc' = AllIdle /\ buf' = NoBufs /\ wrote' = NoWrites
    BY <1>1 DEF crash
  <2> QED BY <2>1, <2>2, <2>3, <2>4
<1>2. CASE recoverInstall
  BY <1>0, <1>2 DEF recoverInstall, install
<1>3. CASE recoverDone
  BY <1>3 DEF recoverDone, eraseLog
<1>4. ASSUME NEW b \in Blocks, bread(b) PROVE LType'
  BY <1>4 DEF bread
<1>5. ASSUME NEW b \in Blocks, evict(b) PROVE LType'
  BY <1>5 DEF evict
<1>6. ASSUME NEW p \in Procs, begin_op(p) PROVE LType'
  BY <1>6 DEF begin_op, Labels
<1>7. ASSUME NEW p \in Procs, begin_sleep(p) PROVE LType'
  BY <1>7 DEF begin_sleep, Labels
<1>8. ASSUME NEW p \in Procs, log_write(p) PROVE LType'
  <2>1. buf[p] \in Blocks
    BY <1>8, Zenon DEF log_write, SpaceInv
  <2> QED BY <1>8, <2>1 DEF log_write, append, pin, Labels
<1>9. ASSUME NEW p \in Procs, end_op(p) PROVE LType'
  <2>1. outstanding > 0
    BY <1>9, OpAlone DEF end_op, Active
  <2>2. pc' \in [Procs -> Labels]
    BY <1>9 DEF end_op, wake, Labels
  <2>3. wrote' \in [Procs -> SUBSET Blocks] /\ outstanding' \in Nat
    BY <1>9, <2>1 DEF end_op
  <2>4. tail' \in Nat \ {0}
    BY <1>9 DEF end_op
  <2>5. committing' \in BOOLEAN
    BY <1>9, Zenon DEF end_op
  <2>6. UNCHANGED <<disk, cache, dirty, lh, mode, buf>>
    BY <1>9 DEF end_op
  <2> QED BY <2>2, <2>3, <2>4, <2>5, <2>6
<1>10. ASSUME NEW p \in Procs, Commit(p) PROVE LType'
  <2>1. CASE write_log(p)
    BY <1>0, <2>1, ViewType DEF write_log, DiskInv, Phase, Labels
  <2>2. CASE write_head(p)
    BY <2>2 DEF write_head, Labels
  <2>3. CASE install_trans(p)
    BY <1>0, <2>3 DEF install_trans, install, DiskInv, Phase, Labels
  <2>4. CASE erase(p)
    BY <2>4 DEF erase, eraseLog, Labels
  <2>5. CASE commitDone(p)
    BY <2>5, Zenon DEF commitDone, wake, Labels
  <2> QED BY <1>10, <2>1, <2>2, <2>3, <2>4, <2>5 DEF Commit
<1>11. ASSUME NEW p \in Procs, NEW b \in Blocks, NEW v \in Vals, modify(p, b, v) PROVE LType'
  BY <1>11, Zenon DEF modify, Labels
<1> QED
  BY <1>1, <1>2, <1>3, <1>4, <1>5, <1>6, <1>7, <1>8, <1>9, <1>10, <1>11 DEF Next

\* A step that moves no process into or out of an operation or the commit.
LEMMA CountKeep ==
  ASSUME LType, CountInv, UNCHANGED <<outstanding, committing>>, Active' = Active,
         \A p \in Procs : Commits(p)' <=> Commits(p),
         mode' # "recover", mode # "recover",
         lh' = lh \/ committing \/ outstanding > 0
  PROVE  CountInv'
BY DEF CountInv

\* Every step keeps log.outstanding and log.committing true to the processes.
LEMMA CountStep ==
  ASSUME LType, CountInv, SpaceInv, DiskInv, Next
  PROVE  CountInv'
<1>1. CASE crash
  <2>1. Active' = {} /\ \A p \in Procs : ~Commits(p)'
    BY <1>1 DEF crash, Active, Commits, AllIdle
  <2> QED BY <1>1, <2>1, FS_EmptySet DEF crash, CountInv
<1>2. CASE recoverInstall
  <2>1. UNCHANGED <<pc, outstanding, committing, mode>> /\ mode = "recover"
    BY <1>2 DEF recoverInstall, ops
  <2> QED BY <2>1 DEF CountInv, Active, Commits, AllIdle
<1>3. CASE recoverDone
  <2>1. UNCHANGED <<pc, outstanding, committing>> /\ mode' = "run" /\ lh' = <<>>
    BY <1>3 DEF recoverDone, ops, eraseLog
  <2> QED BY <2>1 DEF CountInv, Active, Commits
<1>4. ASSUME NEW b \in Blocks, bread(b) \/ evict(b) PROVE CountInv'
  <2>1. UNCHANGED <<pc, outstanding, committing, mode, lh>> /\ mode = "run"
    BY <1>4 DEF bread, evict, ops
  <2> QED BY <2>1, CountKeep DEF Active, Commits
<1>5. ASSUME NEW p \in Procs, begin_op(p) PROVE CountInv'
  <2>1. pc' = [pc EXCEPT ![p] = "op"] /\ pc[p] \in {"idle", "begin"}
    BY <1>5 DEF begin_op
  <2>2. Active' = Active \cup {p} /\ p \notin Active
    BY <2>1 DEF Active, LType
  <2>3. \A q \in Procs : Commits(q)' <=> Commits(q)
    BY <2>1 DEF Commits, LType
  <2>4. Cardinality(Active') = Cardinality(Active) + 1
    BY <2>2, Finite, FS_AddElement, Zenon
  <2>5. ~committing /\ UNCHANGED <<committing, lh, mode>> /\ outstanding' = outstanding + 1 /\ mode = "run"
    BY <1>5 DEF begin_op, MustWait
  <2> QED BY <2>3, <2>4, <2>5 DEF CountInv, LType
<1>6. ASSUME NEW p \in Procs, begin_sleep(p) PROVE CountInv'
  <2>1. pc' = [pc EXCEPT ![p] = "asleep"] /\ pc[p] \in {"idle", "begin"}
    BY <1>6 DEF begin_sleep
  <2>2. UNCHANGED <<outstanding, committing, mode, lh>> /\ mode = "run"
    BY <1>6 DEF begin_sleep, mem
  <2>3. Active' = Active /\ \A q \in Procs : Commits(q)' <=> Commits(q)
    BY <2>1 DEF Active, Commits, LType
  <2> QED BY <2>2, <2>3, CountKeep
<1>7. ASSUME NEW p \in Procs, log_write(p) PROVE CountInv'
  <2>1. pc' = [pc EXCEPT ![p] = "op"] /\ pc[p] = "log"
    BY <1>7 DEF log_write
  <2>2. UNCHANGED <<outstanding, committing, mode>> /\ mode = "run"
    BY <1>7 DEF log_write
  <2>3. Active' = Active /\ p \in Active /\ \A q \in Procs : Commits(q)' <=> Commits(q)
    BY <2>1 DEF Active, Commits, LType
  <2> QED BY <2>2, <2>3, OpAlone, CountKeep
<1>8. ASSUME NEW p \in Procs, end_op(p) PROVE CountInv'
  <2>1. pc[p] = "op" /\ p \in Active
    BY <1>8 DEF end_op, Active
  <2>2. ~committing /\ outstanding > 0 /\ \A q \in Procs : ~Commits(q)
    BY <2>1, OpAlone
  <2>3. Cardinality(Active \ {p}) = outstanding - 1
    BY <2>1, Finite, FS_RemoveElement, Zenon DEF CountInv
  <2>4. outstanding' = outstanding - 1 /\ UNCHANGED <<mode, lh>> /\ mode = "run"
    BY <1>8 DEF end_op
  <2>5. CASE outstanding' = 0
    <3>1. committing' /\ pc' = [pc EXCEPT ![p] = IF lh = <<>> THEN "done" ELSE "write_log"]
      BY <1>8, <2>5, Zenon DEF end_op
    <3>2. Active' = Active \ {p}
      BY <2>1, <3>1 DEF Active, LType
    <3>3. \A q \in Procs : Commits(q)' <=> q = p
      BY <2>2, <3>1 DEF Commits, LType
    <3> QED BY <2>3, <2>4, <2>5, <3>1, <3>2, <3>3, Zenon DEF CountInv
  <2>6. CASE outstanding' # 0
    <3>1. UNCHANGED committing /\ pc' = wake(p, "idle")
      BY <1>8, <2>6 DEF end_op
    <3>2. Active' = Active \ {p}
      BY <2>1, <3>1 DEF Active, LType, wake
    <3>3. \A q \in Procs : ~Commits(q)'
      BY <2>2, <3>1 DEF Commits, wake
    <3> QED BY <2>2, <2>3, <2>4, <2>6, <3>1, <3>2, <3>3 DEF CountInv
  <2> QED BY <2>5, <2>6
<1>9. ASSUME NEW p \in Procs, Commit(p) PROVE CountInv'
  <2>1. CASE write_log(p) \/ write_head(p) \/ install_trans(p) \/ erase(p)
    <3>1. /\ UNCHANGED <<outstanding, committing, mode>> /\ mode = "run" /\ Commits(p)
          /\ \E l \in {"write_log", "write_head", "install", "erase", "done"} : pc' = [pc EXCEPT ![p] = l]
      BY <2>1 DEF write_log, write_head, install_trans, erase, Commits
    <3>2. Active' = Active /\ \A q \in Procs : Commits(q)' <=> Commits(q)
      BY <3>1 DEF Active, Commits, LType
    <3> QED BY <3>1, <3>2, CommitAlone, CountKeep
  <2>2. CASE commitDone(p)
    <3>1. pc[p] = "done" /\ pc' = wake(p, "idle") /\ ~committing' /\ UNCHANGED <<outstanding, mode, lh>>
      BY <2>2 DEF commitDone
    <3>2. lh = <<>> /\ Commits(p) /\ mode = "run"
      BY <2>2, <3>1 DEF DiskInv, Phase, Commits, commitDone
    <3>3. Active' = Active
      BY <3>1 DEF Active, wake
    <3>4. \A q \in Procs : ~Commits(q)'
      BY <3>1, <3>2 DEF CountInv, Commits, wake
    <3> QED BY <3>1, <3>2, <3>3, <3>4 DEF CountInv
  <2> QED BY <1>9, <2>1, <2>2 DEF Commit
<1>10. ASSUME NEW p \in Procs, NEW b \in Blocks, NEW v \in Vals, modify(p, b, v) PROVE CountInv'
  <2>1. /\ UNCHANGED <<outstanding, committing, lh>> /\ pc[p] = "op" /\ mode = "run" /\ mode' # "recover"
        /\ pc' = pc \/ pc' = [pc EXCEPT ![p] = "log"]
    BY <1>10 DEF modify
  <2>2. Active' = Active /\ \A q \in Procs : Commits(q)' <=> Commits(q)
    BY <2>1 DEF Active, Commits, LType
  <2> QED BY <2>1, <2>2, CountKeep
<1> QED
  BY <1>1, <1>2, <1>3, <1>4, <1>5, <1>6, <1>7, <1>8, <1>9, <1>10 DEF Next

\* Whoever sleeps in begin_op has somebody who will wake it.
LEMMA WaitStep ==
  ASSUME LType, CountInv, WaitInv, Next
  PROVE  WaitInv'
<1>1. CASE crash
  BY <1>1 DEF crash, AllIdle, WaitInv
<1>2. CASE recoverInstall \/ recoverDone \/ \E b \in Blocks : bread(b) \/ evict(b)
  <2>1. UNCHANGED <<pc, outstanding, committing>>
    BY <1>2 DEF recoverInstall, recoverDone, bread, evict, ops
  <2> QED BY <2>1 DEF WaitInv
<1>3. ASSUME NEW p \in Procs, begin_op(p) PROVE WaitInv'
  BY <1>3 DEF begin_op, WaitInv, LType
<1>4. ASSUME NEW p \in Procs, begin_sleep(p) PROVE WaitInv'
  <2>1. UNCHANGED <<outstanding, committing>> /\ MustWait /\ mode = "run"
    BY <1>4 DEF begin_sleep, mem
  <2>2. committing \/ outstanding > 0
    BY <2>1, LogConstants DEF MustWait, CountInv, LType
  <2> QED BY <2>1, <2>2 DEF WaitInv
<1>5. ASSUME NEW p \in Procs, log_write(p) PROVE WaitInv'
  BY <1>5 DEF log_write, WaitInv, LType
<1>6. ASSUME NEW p \in Procs, end_op(p) PROVE WaitInv'
  <2>1. CASE outstanding' = 0
    BY <1>6, <2>1, Zenon DEF end_op, WaitInv
  <2>2. CASE outstanding' # 0
    <3>1. pc' = wake(p, "idle")
      BY <1>6, <2>2 DEF end_op
    <3> QED BY <3>1 DEF wake, WaitInv
  <2> QED BY <2>1, <2>2
<1>7. ASSUME NEW p \in Procs, Commit(p) PROVE WaitInv'
  <2>1. CASE commitDone(p)
    BY <2>1 DEF commitDone, wake, WaitInv
  <2>2. CASE ~commitDone(p)
    <3>1. UNCHANGED committing /\ Commits(p)
      BY <1>7, <2>2 DEF Commit, write_log, write_head, install_trans, erase, Commits
    <3> QED BY <3>1, CommitAlone DEF WaitInv
  <2> QED BY <2>1, <2>2
<1>8. ASSUME NEW p \in Procs, NEW b \in Blocks, NEW v \in Vals, modify(p, b, v) PROVE WaitInv'
  BY <1>8 DEF modify, WaitInv, LType
<1> QED BY <1>1, <1>2, <1>3, <1>4, <1>5, <1>6, <1>7, <1>8 DEF Next

-----------------------------------------------------------------------------
(* Space in the log *)

\* A step that changes no reservation.
LEMMA SpaceKeep ==
  ASSUME LType, SpaceInv, UNCHANGED <<lh, wrote, buf>>, Active' = Active,
         \A p \in Procs : pc'[p] \in {"op", "log"} => pc'[p] = pc[p],
         mode' = "run" => mode = "run" \/ Active = {}
  PROVE  SpaceInv'
<1>1. Reserved' = Reserved
  BY DEF Reserved
<1> QED BY <1>1, Zenon DEF SpaceInv, Active

\* Every step keeps the transaction, and what begin_op set aside, inside the
\* log: end_op gives the rest back, a logged block uses one.
LEMMA SpaceStep ==
  ASSUME LType, CountInv, SpaceInv, DiskInv, Next
  PROVE  SpaceInv'
<1>0. /\ Len(lh) \in Nat /\ Len(<<>>) = 0 /\ Entries(<<>>) = {}
      /\ \A i \in 1..Len(lh) : lh[i] \in Blocks
  BY DEF LType, Entries
<1>1. CASE crash
  <2>1. /\ Active' = {} /\ lh' \in {<<>>, lh}
        /\ \A p \in Procs : wrote'[p] = {} /\ buf'[p] = NoVal /\ pc'[p] = "idle"
    BY <1>1 DEF crash, Active, AllIdle, NoBufs, NoWrites, DiskInv
  <2>2. Reserved' = {}
    BY <2>1 DEF Reserved
  <2>3. Len(lh') <= LOGSIZE
    BY <1>0, <2>1, LogFits, LogConstants
  <2> QED BY <2>1, <2>2, <2>3, <1>0, FS_EmptySet DEF SpaceInv, LType
<1>2. CASE recoverInstall
  <2>1. UNCHANGED <<lh, wrote, buf, pc, mode>>
    BY <1>2 DEF recoverInstall, ops
  <2> QED BY <2>1, SpaceKeep DEF Active
<1>3. CASE recoverDone
  <2>1. lh' = <<>> /\ UNCHANGED <<wrote, buf, pc>> /\ mode = "recover" /\ mode' = "run"
    BY <1>3 DEF recoverDone, ops, eraseLog
  <2>2. Active = {} /\ Active' = {}
    BY <2>1 DEF CountInv, Active, AllIdle
  <2>3. Reserved' = {}
    BY <2>2 DEF Reserved
  <2>4. \A p \in Procs : wrote[p] = {} /\ buf[p] = NoVal /\ pc[p] \notin {"op", "log"}
    BY <2>2, Zenon DEF SpaceInv, Active
  <2> QED BY <2>1, <2>3, <2>4, <1>0, FS_EmptySet, LogConstants DEF SpaceInv
<1>4. ASSUME NEW b \in Blocks, bread(b) \/ evict(b) PROVE SpaceInv'
  <2>1. UNCHANGED <<lh, wrote, buf, pc, mode>>
    BY <1>4 DEF bread, evict, ops
  <2> QED BY <2>1, SpaceKeep DEF Active
<1>5. ASSUME NEW p \in Procs, begin_op(p) PROVE SpaceInv'
  <2>1. /\ pc' = [pc EXCEPT ![p] = "op"] /\ pc[p] \in {"idle", "begin"}
        /\ UNCHANGED <<lh, wrote, buf, mode>> /\ ~MustWait
    BY <1>5 DEF begin_op
  <2>2. Active' = Active \cup {p} /\ p \notin Active
    BY <2>1 DEF Active, LType
  <2>3. IsFiniteSet(Active') /\ Cardinality(Active') = outstanding + 1
    BY <2>2, Finite, FS_AddElement DEF CountInv
  <2>4. IsFiniteSet(1..MAXOPBLOCKS) /\ Cardinality(1..MAXOPBLOCKS) = MAXOPBLOCKS
    BY FS_Interval, LogConstants
  <2>5. /\ IsFiniteSet(Active' \X (1..MAXOPBLOCKS))
        /\ Cardinality(Active' \X (1..MAXOPBLOCKS)) = (outstanding + 1) * MAXOPBLOCKS
    BY <2>3, <2>4, FS_Product, ZenonT(40)
  <2>6. Reserved' \in SUBSET (Active' \X (1..MAXOPBLOCKS))
    BY DEF Reserved, Active
  <2>7. Cardinality(Reserved') <= (outstanding + 1) * MAXOPBLOCKS /\ Cardinality(Reserved') \in Nat
    BY <2>5, <2>6, FS_Subset, FS_CardinalityType
  <2>8. /\ Len(lh) + (outstanding + 1) * MAXOPBLOCKS <= LOGSIZE
        /\ (outstanding + 1) * MAXOPBLOCKS \in Nat
    BY <2>1, <1>0, LogConstants DEF MustWait, LType
  <2>9. Len(lh') + Cardinality(Reserved') <= LOGSIZE
    BY <2>1, <2>7, <2>8, <1>0, LogConstants
  <2> QED BY <2>1, <2>2, <2>9, Zenon DEF SpaceInv, LType
<1>6. ASSUME NEW p \in Procs, begin_sleep(p) PROVE SpaceInv'
  <2>1. /\ pc' = [pc EXCEPT ![p] = "asleep"] /\ pc[p] \in {"idle", "begin"}
        /\ UNCHANGED <<lh, wrote, buf, mode>>
    BY <1>6 DEF begin_sleep, mem
  <2>2. Active' = Active /\ \A q \in Procs : pc'[q] \in {"op", "log"} => pc'[q] = pc[q]
    BY <2>1 DEF Active, LType
  <2> QED BY <2>1, <2>2, SpaceKeep
<1>7. ASSUME NEW p \in Procs, log_write(p) PROVE SpaceInv'
  <2> DEFINE b == buf[p]
  <2>1. /\ pc[p] = "log" /\ pc' = [pc EXCEPT ![p] = "op"]
        /\ wrote' = [wrote EXCEPT ![p] = @ \cup {b}] /\ buf' = [buf EXCEPT ![p] = NoVal]
        /\ lh' = IF b \in Entries(lh) THEN lh ELSE Append(lh, b)
        /\ UNCHANGED mode
    BY <1>7 DEF log_write, append
  <2>2. b \in Blocks /\ Cardinality(wrote[p] \cup {b}) <= MAXOPBLOCKS
    BY <2>1, Zenon DEF SpaceInv, LType
  <2>3. Active' = Active /\ p \in Active
    BY <2>1 DEF Active, LType
  <2>4. /\ IsFiniteSet(wrote[p]) /\ Cardinality(wrote[p]) \in Nat
        /\ Cardinality(wrote[p] \cup {b}) = IF b \in wrote[p] THEN Cardinality(wrote[p])
                                            ELSE Cardinality(wrote[p]) + 1
    <3>1. wrote[p] \in SUBSET Blocks /\ IsFiniteSet(Blocks)
      BY LogConstants DEF LType
    <3>2. IsFiniteSet(wrote[p])
      BY <3>1, FS_Subset
    <3> QED BY <3>2, FS_CardinalityType, FS_AddElement
  <2>5. Entries(lh') = Entries(lh) \cup {b}
    BY <2>1, <2>2 DEF Entries, LType
  <2>6. Len(lh') + Cardinality(Reserved') <= LOGSIZE
    <3>1. CASE b \in Entries(lh)
      <4>1. Reserved' \in SUBSET Reserved
        BY <2>1, <2>3, <2>4 DEF Reserved, LType
      <4>2. Cardinality(Reserved') <= Cardinality(Reserved) /\ Cardinality(Reserved') \in Nat
        BY <4>1, Finite, FS_Subset, FS_CardinalityType
      <4> QED BY <2>1, <3>1, <4>2, <1>0, Finite, LogConstants DEF SpaceInv
    <3>2. CASE b \notin Entries(lh)
      <4> DEFINE x == <<p, Cardinality(wrote[p]) + 1>>
      <4>1. b \notin wrote[p]
        BY <3>2, Zenon DEF SpaceInv
      <4>2. Cardinality(wrote[p]) + 1 \in 1..MAXOPBLOCKS
        BY <4>1, <2>2, <2>4, LogConstants
      <4>3. x \in Reserved
        BY <4>2, <2>3, <2>4 DEF Reserved
      <4>4. wrote'[p] = wrote[p] \cup {b} /\ \A q \in Procs \ {p} : wrote'[q] = wrote[q]
        BY <2>1 DEF LType
      <4>5. Cardinality(wrote'[p]) = Cardinality(wrote[p]) + 1
        BY <4>1, <4>4, <2>4
      <4>6. Reserved' \in SUBSET (Reserved \ {x})
        <5>1. SUFFICES ASSUME NEW y \in Reserved'
                       PROVE  y \in Reserved /\ y # x
          BY Zenon
        <5>2. /\ y \in Procs \X (1..MAXOPBLOCKS) /\ y[1] \in Active
              /\ y[2] > Cardinality(wrote'[y[1]])
          BY <2>3 DEF Reserved
        <5>3. CASE y[1] = p
          BY <5>2, <5>3, <4>5, <2>4, LogConstants DEF Reserved
        <5>4. CASE y[1] # p
          BY <5>2, <5>4, <4>4 DEF Reserved
        <5> QED BY <5>3, <5>4
      <4>7. IsFiniteSet(Reserved \ {x}) /\ Cardinality(Reserved \ {x}) = Cardinality(Reserved) - 1
        BY <4>3, Finite, FS_RemoveElement
      <4>8. Cardinality(Reserved') <= Cardinality(Reserved) - 1 /\ Cardinality(Reserved') \in Nat
        BY <4>6, <4>7, FS_Subset, FS_CardinalityType
      <4>9. Len(lh') = Len(lh) + 1
        BY <2>1, <2>2, <3>2 DEF LType
      <4> QED BY <4>8, <4>9, <1>0, Finite, LogConstants DEF SpaceInv
    <3> QED BY <3>1, <3>2
  <2>7. \A q \in Procs : wrote'[q] \subseteq Entries(lh')
    BY <2>1, <2>5, Zenon DEF SpaceInv, LType
  <2>8. \A q \in Procs : /\ q \notin Active' => wrote'[q] = {} /\ buf'[q] = NoVal
                         /\ pc'[q] = "op" /\ mode' = "run" => buf'[q] = NoVal
                         /\ pc'[q] = "log" =>
                              buf'[q] # NoVal /\ Cardinality(wrote'[q] \cup {buf'[q]}) <= MAXOPBLOCKS
    BY <2>1, <2>3, Zenon DEF SpaceInv, LType
  <2> QED BY <2>6, <2>7, <2>8 DEF SpaceInv
<1>8. ASSUME NEW p \in Procs, end_op(p) PROVE SpaceInv'
  <2>1. /\ pc[p] = "op" /\ mode = "run" /\ UNCHANGED <<lh, buf, mode>>
        /\ wrote' = [wrote EXCEPT ![p] = {}]
        /\ pc' \in {[pc EXCEPT ![p] = "done"], [pc EXCEPT ![p] = "write_log"], wake(p, "idle")}
    BY <1>8 DEF end_op
  <2>2. Active' = Active \ {p} /\ \A q \in Procs : pc'[q] \in {"op", "log"} => pc'[q] = pc[q] /\ q # p
    BY <2>1 DEF Active, LType, wake
  <2>3. buf[p] = NoVal
    BY <2>1, Zenon DEF SpaceInv
  <2>4. Reserved' \in SUBSET Reserved
    BY <2>1, <2>2 DEF Reserved, LType
  <2>5. Cardinality(Reserved') <= Cardinality(Reserved) /\ Cardinality(Reserved') \in Nat
    BY <2>4, Finite, FS_Subset, FS_CardinalityType
  <2>6. Len(lh') + Cardinality(Reserved') <= LOGSIZE
    BY <2>1, <2>5, <1>0, Finite, LogConstants DEF SpaceInv
  <2> QED BY <2>1, <2>2, <2>3, <2>6, Zenon DEF SpaceInv, LType
<1>9. ASSUME NEW p \in Procs, Commit(p) PROVE SpaceInv'
  <2>1. /\ UNCHANGED <<wrote, buf, mode>> /\ lh' \in {lh, <<>>} /\ Commits(p)
        /\ \/ \E l \in {"write_log", "write_head", "install", "erase", "done"} : pc' = [pc EXCEPT ![p] = l]
           \/ pc' = wake(p, "idle")
    BY <1>9 DEF Commit, write_log, write_head, install_trans, erase, commitDone, eraseLog, Commits
  <2>2. Active = {} /\ Active' = {}
    BY <2>1, CommitAlone, Zenon DEF Active, LType, wake
  <2>3. Reserved' = {}
    BY <2>2 DEF Reserved
  <2>4. \A q \in Procs : wrote'[q] = {} /\ buf'[q] = NoVal /\ pc'[q] \notin {"op", "log"}
    BY <2>1, <2>2, Zenon DEF SpaceInv, Active
  <2>5. Len(lh') <= LOGSIZE
    BY <2>1, <1>0, LogFits, LogConstants
  <2> QED BY <2>1, <2>3, <2>4, <2>5, <1>0, FS_EmptySet DEF SpaceInv, LType
<1>10. ASSUME NEW p \in Procs, NEW b \in Blocks, NEW v \in Vals, modify(p, b, v) PROVE SpaceInv'
  <2>1. /\ pc[p] = "op" /\ UNCHANGED <<lh, wrote>> /\ buf' = [buf EXCEPT ![p] = b]
        /\ Cardinality(wrote[p] \cup {b}) <= MAXOPBLOCKS
        /\ \/ mode' = "panic" /\ pc' = pc
           \/ mode' = mode /\ pc' = [pc EXCEPT ![p] = "log"]
    BY <1>10 DEF modify
  <2>2. Active' = Active /\ p \in Active
    BY <2>1 DEF Active, LType
  <2>3. Reserved' = Reserved
    BY <2>1, <2>2 DEF Reserved
  <2> QED BY <2>1, <2>2, <2>3, LogConstants, Zenon DEF SpaceInv, LType
<1> QED
  BY <1>1, <1>2, <1>3, <1>4, <1>5, <1>6, <1>7, <1>8, <1>9, <1>10 DEF Next

-----------------------------------------------------------------------------
(* The cache and the disk *)

\* What install_trans does to one block.
LEMMA Install ==
  ASSUME LType, SpaceInv, tail \in 1..Len(lh), install
  PROVE  /\ lh[tail] \in Blocks /\ dlog[tail] \in Vals
         /\ home' = [home EXCEPT ![lh[tail]] = dlog[tail]]
         /\ View' = [View EXCEPT ![lh[tail]] = dlog[tail]]
<1>1. lh[tail] \in Blocks /\ dlog[tail] \in Vals
  BY LogFits DEF LType
<1>2. dlog[tail] # NoVal
  BY <1>1, LogConstants
<1> QED BY <1>1, <1>2, Zenon DEF install, View, LType

\* An eviction does not change what calls read.
LEMMA EvictView ==
  ASSUME LType, CacheInv, NEW b \in Blocks, evict(b)
  PROVE  View' = View
<1>1. View[b] = home[b]
  BY DEF evict, CacheInv, Held
<1> QED BY <1>1 DEF evict, View, LType, disk

\* A read that fills the cache does not change what calls read.
LEMMA BreadView ==
  ASSUME LType, NEW b \in Blocks, bread(b)
  PROVE  View' = View
BY DEF bread, View, LType, disk

\* A step that touches neither cache nor home blocks, and forgets nothing.
LEMMA CacheKeep ==
  ASSUME LType, CacheInv, View' = View, home' = home,
         dirty \subseteq dirty', Entries(lh) \subseteq Entries(lh'),
         \A b \in Blocks : Held(b) => Held(b)' \/ (b \in dirty' /\ b \in Entries(lh')),
         mode' = "recover" => mode = "recover"
  PROVE  CacheInv'
BY DEF CacheInv

\* Every step keeps the unwritten updates in the cache, held or pinned.
LEMMA CacheStep ==
  ASSUME LType, CountInv, SpaceInv, CacheInv, DiskInv, Next
  PROVE  CacheInv'
<1>1. CASE crash
  BY <1>1 DEF crash, EmptyCache, View, CacheInv, disk
<1>2. CASE recoverInstall
  <2>1. tail \in 1..Len(lh) /\ install /\ mode = "recover"
    BY <1>2 DEF recoverInstall, LType
  <2> QED BY <2>1, Install DEF CacheInv, LType, View
<1>3. CASE recoverDone
  <2>1. View' = View /\ home' = home /\ mode = "recover"
    BY <1>3 DEF recoverDone, View
  <2> QED BY <2>1 DEF CacheInv
<1>4. ASSUME NEW b \in Blocks, bread(b) \/ evict(b) PROVE CacheInv'
  <2>1. View' = View
    BY <1>4, BreadView, EvictView
  <2>2. UNCHANGED <<home, dirty, lh, buf, mode>>
    BY <1>4 DEF bread, evict, disk, ops
  <2> QED BY <2>1, <2>2, CacheKeep DEF Held
<1>5. ASSUME NEW p \in Procs, begin_op(p) \/ begin_sleep(p) \/ end_op(p) PROVE CacheInv'
  <2>1. UNCHANGED <<home, cache, dirty, lh, buf, mode>>
    BY <1>5 DEF begin_op, begin_sleep, end_op, disk, mem
  <2> QED BY <2>1, CacheKeep DEF Held, View
<1>6. ASSUME NEW p \in Procs, log_write(p) PROVE CacheInv'
  <2>1. /\ UNCHANGED <<home, cache, mode>> /\ buf' = [buf EXCEPT ![p] = NoVal]
        /\ dirty' = dirty \cup {buf[p]}
        /\ lh' = IF buf[p] \in Entries(lh) THEN lh ELSE Append(lh, buf[p])
    BY <1>6 DEF log_write, append, pin, disk
  <2>2. buf[p] \in Blocks
    BY <1>6, Zenon DEF log_write, SpaceInv, LType
  <2>3. Entries(lh') = Entries(lh) \cup {buf[p]}
    BY <2>1, <2>2 DEF Entries, LType
  <2>4. View' = View
    BY <2>1 DEF View
  <2>5. \A b \in Blocks : Held(b) => Held(b)' \/ b = buf[p]
    BY <2>1 DEF Held, LType
  <2> QED BY <2>1, <2>3, <2>4, <2>5, CacheKeep
<1>7. ASSUME NEW p \in Procs, Commit(p) PROVE CacheInv'
  <2>1. CASE write_log(p) \/ write_head(p) \/ commitDone(p)
    <3>1. UNCHANGED <<home, cache, dirty, lh, buf, mode>>
      BY <2>1 DEF write_log, write_head, commitDone, disk
    <3> QED BY <3>1, CacheKeep DEF Held, View
  <2>2. CASE install_trans(p)
    <3>1. tail \in 1..Len(lh) /\ install /\ dirty' = dirty \ {lh[tail]} /\ UNCHANGED <<lh, buf, mode>>
      BY <2>2 DEF install_trans, install, DiskInv, Phase
    <3> QED BY <3>1, Install, Zenon DEF CacheInv, LType, View, Held
  <2>3. CASE erase(p)
    <3>1. /\ UNCHANGED <<home, cache, buf, mode>> /\ pc[p] = "erase" /\ lh \in Seq(Blocks)
      BY <2>3 DEF erase, LType
    <3>2. \A i \in 1..Len(lh) : home[lh[i]] = View[lh[i]]
      BY <3>1 DEF DiskInv, Phase, Installs
    <3>3. \A b \in Entries(lh) : home[b] = View[b]
      BY <3>2 DEF Entries
    <3>4. View' = View
      BY <3>1 DEF View
    <3> QED BY <3>1, <3>3, <3>4 DEF CacheInv, Held
  <2> QED BY <1>7, <2>1, <2>2, <2>3 DEF Commit
<1>8. ASSUME NEW p \in Procs, NEW b \in Blocks, NEW v \in Vals, modify(p, b, v) PROVE CacheInv'
  <2>1. /\ UNCHANGED <<home, dirty, lh>> /\ mode' # "recover" /\ mode # "recover"
        /\ buf' = [buf EXCEPT ![p] = b] /\ cache' = [cache EXCEPT ![b] = v]
        /\ pc[p] = "op" /\ mode = "run"
    BY <1>8 DEF modify, disk
  <2>2. buf[p] = NoVal
    BY <2>1, Zenon DEF SpaceInv
  <2>3. \A c \in Blocks : (Held(c) => Held(c)') /\ Held(b)'
    BY <2>1, <2>2, LogConstants DEF Held, LType
  <2>4. \A c \in Blocks \ {b} : View'[c] = View[c]
    BY <2>1 DEF View, LType
  <2> QED BY <2>1, <2>3, <2>4 DEF CacheInv
<1> QED BY <1>1, <1>2, <1>3, <1>4, <1>5, <1>6, <1>7, <1>8 DEF Next

\* A process that does not commit is in no phase.
LEMMA NoPhase ==
  ASSUME NEW p \in Procs, ~Commits(p)
  PROVE  Phase(p) /\ ~Installs(p)
BY DEF Commits, Phase, Installs

\* A step outside the commit that changes neither disk nor log.
LEMMA DiskKeep ==
  ASSUME LType, DiskInv, UNCHANGED <<home, dlog, dhead, lh, tail>>,
         (\E p \in Procs : Commits(p)) => View' = View,
         mode' = "recover" <=> mode = "recover",
         \A p \in Procs : Commits(p) \/ Commits(p)' => pc'[p] = pc[p]
  PROVE  DiskInv'
<1>1. \A p \in Procs : Installs(p)' <=> Installs(p)
  BY DEF Installs, Commits
<1>2. NoDup(lh)'
  BY DEF DiskInv
<1>3. ASSUME NEW p \in Procs PROVE Phase(p)'
  <2>1. CASE Commits(p)'
    <3>1. pc'[p] = pc[p] /\ View' = View
      BY <2>1 DEF Commits
    <3> QED BY <3>1, <1>1 DEF Phase, DiskInv
  <2>2. CASE ~Commits(p)'
    BY <2>2 DEF Commits, Phase, Installs
  <2> QED BY <2>1, <2>2
<1> QED BY <1>1, <1>2, <1>3 DEF DiskInv

\* Every step keeps the header and the log blocks on the disk consistent.
LEMMA DiskStep ==
  ASSUME LType, CountInv, SpaceInv, CacheInv, DiskInv, Next
  PROVE  DiskInv'
<1>0. /\ Len(lh) \in Nat /\ 1..Len(lh) \subseteq Slots /\ \A i \in 1..Len(lh) : lh[i] \in Blocks
      /\ NoDup(<<>>) /\ Len(<<>>) = 0 /\ (Len(lh) = 0 <=> lh = <<>>)
  BY LogFits DEF LType, NoDup
<1>1. CASE crash
  <2>1. /\ lh' = dhead /\ dhead' = dhead /\ mode' = "recover" /\ tail' = 1
        /\ \A p \in Procs : ~Commits(p)'
    BY <1>1 DEF crash, disk, AllIdle, Commits
  <2>2. NoDup(dhead)
    BY <1>0 DEF DiskInv
  <2>3. \A p \in Procs : Phase(p)'
    BY <2>1 DEF Commits, Phase, Installs
  <2>4. dhead \in Seq(Blocks)
    BY DEF LType
  <2>5. \A i \in 1..Len(dhead) : ~(i < 1)
    BY <2>4
  <2> QED BY <2>1, <2>2, <2>3, <2>5 DEF DiskInv
<1>2. CASE recoverInstall
  <2>1. /\ tail \in 1..Len(lh) /\ install /\ mode = "recover" /\ tail' = tail + 1
        /\ UNCHANGED <<dlog, dhead, lh, mode, pc>>
    BY <1>2 DEF recoverInstall, install, LType, ops
  <2>2. \A p \in Procs : ~Commits(p)'
    BY <2>1 DEF CountInv, AllIdle, Commits
  <2>3. \A p \in Procs : Phase(p)'
    BY <2>2, Zenon DEF Commits, Phase, Installs
  <2>4. \A i \in 1..Len(lh) : i < tail' => home'[lh[i]] = dlog[i]
    BY <2>1, <1>0, Install DEF DiskInv, NoDup, LType
  <2> QED BY <2>1, <2>3, <2>4 DEF DiskInv
<1>3. CASE recoverDone
  <2>1. lh' = <<>> /\ dhead' = <<>> /\ mode = "recover" /\ mode' = "run" /\ pc' = pc
    BY <1>3 DEF recoverDone, eraseLog, ops
  <2>2. \A p \in Procs : ~Commits(p)'
    BY <2>1 DEF CountInv, AllIdle, Commits
  <2>3. \A p \in Procs : Phase(p)'
    BY <2>2 DEF Commits, Phase, Installs
  <2> QED BY <2>1, <2>3, <1>0 DEF DiskInv
<1>4. ASSUME NEW b \in Blocks, bread(b) \/ evict(b) PROVE DiskInv'
  <2>1. View' = View
    BY <1>4, BreadView, EvictView
  <2>2. UNCHANGED <<home, dlog, dhead, lh, tail, mode, pc>>
    BY <1>4 DEF bread, evict, disk, ops
  <2> QED BY <2>1, <2>2, DiskKeep
<1>5. ASSUME NEW p \in Procs, begin_op(p) \/ begin_sleep(p) PROVE DiskInv'
  <2>1. /\ UNCHANGED <<home, dlog, dhead, cache, lh, tail, mode>> /\ pc[p] \in {"idle", "begin"}
        /\ pc' = [pc EXCEPT ![p] = "op"] \/ pc' = [pc EXCEPT ![p] = "asleep"]
    BY <1>5 DEF begin_op, begin_sleep, disk, mem
  <2>2. View' = View
    BY <2>1 DEF View
  <2>3. \A q \in Procs : Commits(q) \/ Commits(q)' => pc'[q] = pc[q]
    BY <2>1 DEF Commits, LType
  <2> QED BY <2>1, <2>2, <2>3, DiskKeep
<1>6. ASSUME NEW p \in Procs, log_write(p) PROVE DiskInv'
  <2>1. /\ UNCHANGED <<dhead, mode>> /\ pc' = [pc EXCEPT ![p] = "op"] /\ pc[p] = "log"
        /\ lh' = IF buf[p] \in Entries(lh) THEN lh ELSE Append(lh, buf[p])
    BY <1>6 DEF log_write, append, disk
  <2>2. p \in Active /\ buf[p] \in Blocks
    BY <2>1, Zenon DEF Active, SpaceInv, LType
  <2>3. mode # "recover" /\ \A q \in Procs : ~Commits(q)
    BY <2>2, OpAlone
  <2>4. \A q \in Procs : ~Commits(q)'
    BY <2>1, <2>3 DEF Commits, LType
  <2>5. dhead = <<>>
    BY <2>3, NoPhase DEF DiskInv
  <2>6. NoDup(lh')
    BY <2>1, <2>2, <1>0 DEF NoDup, DiskInv, Entries, LType
  <2>7. \A q \in Procs : Phase(q)'
    BY <2>4 DEF Commits, Phase, Installs
  <2> QED BY <2>1, <2>3, <2>5, <2>6, <2>7 DEF DiskInv
<1>7. ASSUME NEW p \in Procs, end_op(p) PROVE DiskInv'
  <2>1. /\ UNCHANGED <<home, dlog, dhead, cache, lh, mode>> /\ pc[p] = "op"
        /\ \/ tail' = 1 /\ pc' = [pc EXCEPT ![p] = IF lh = <<>> THEN "done" ELSE "write_log"]
           \/ pc' = wake(p, "idle")
    BY <1>7 DEF end_op, disk
  <2>2. mode # "recover" /\ \A q \in Procs : ~Commits(q)
    BY <2>1, OpAlone DEF Active
  <2>3. dhead = <<>>
    BY <2>2, NoPhase DEF DiskInv
  <2>4. \A q \in Procs \ {p} : ~Commits(q)'
    BY <2>1, <2>2 DEF Commits, wake, LType
  <2>5. \A q \in Procs \ {p} : Phase(q)'
    BY <2>4 DEF Commits, Phase, Installs
  <2>6. Phase(p)'
    BY <2>1, <1>0 DEF Phase, Installs, wake, LType
  <2> QED BY <2>1, <2>2, <2>3, <2>5, <2>6 DEF DiskInv
<1>8. ASSUME NEW p \in Procs, Commit(p) PROVE DiskInv'
  <2>0. Commits(p) /\ mode = "run" /\ UNCHANGED mode
    BY <1>8 DEF Commit, write_log, write_head, install_trans, erase, commitDone, Commits
  <2>1. \A q \in Procs \ {p} : ~Commits(q)
    BY <2>0 DEF CountInv
  <2>2. \A q \in Procs \ {p} : ~Commits(q)'
    BY <1>8, <2>1 DEF Commit, write_log, write_head, install_trans, erase, commitDone, wake, Commits, LType
  <2>3. \A q \in Procs \ {p} : Phase(q)' /\ ~Installs(q)' /\ ~Installs(q)
    BY <2>1, <2>2, Zenon DEF Commits, Phase, Installs
  <2>4. Phase(p) /\ NoDup(lh)
    BY DEF DiskInv
  <2>5. CASE write_log(p)
    <3>1. /\ pc[p] = "write_log" /\ dlog' = [dlog EXCEPT ![tail] = View[lh[tail]]] /\ tail' = tail + 1
          /\ pc' = [pc EXCEPT ![p] = IF tail = Len(lh) THEN "write_head" ELSE "write_log"]
          /\ UNCHANGED <<home, dhead, cache, lh>>
      BY <2>5 DEF write_log
    <3>2. View' = View /\ tail \in 1..Len(lh) /\ pc'[p] \in {"write_head", "write_log"}
      BY <2>4, <3>1 DEF View, Phase, LType
    <3>a. \A i \in 1..Len(lh) : i < tail => dlog[i] = View[lh[i]]
      BY <2>4, <3>1 DEF Phase
    <3>b. tail \in Slots /\ dlog \in [Slots -> Vals]
      BY <3>2, <1>0 DEF LType
    <3>c. dlog'[tail] = View[lh[tail]] /\ \A i \in Slots : i # tail => dlog'[i] = dlog[i]
      BY <3>1, <3>b
    <3>3. \A i \in 1..Len(lh) : i < tail' => dlog'[i] = View[lh[i]]
      BY <3>1, <3>2, <3>a, <3>c, <1>0
    <3>4. dhead = <<>>
      BY <2>0, <2>3, <3>1 DEF DiskInv, Installs
    <3>5. Phase(p)'
      BY <3>1, <3>2, <3>3, <1>0 DEF Phase, Installs, LType
    <3> QED BY <2>0, <2>3, <2>4, <3>1, <3>4, <3>5 DEF DiskInv
  <2>6. CASE write_head(p)
    <3>1. /\ pc[p] = "write_head" /\ dhead' = lh /\ tail' = 1 /\ pc' = [pc EXCEPT ![p] = "install"]
          /\ UNCHANGED <<home, dlog, cache, lh>>
      BY <2>6 DEF write_head
    <3>2. View' = View /\ lh # <<>> /\ pc'[p] = "install"
      BY <2>4, <3>1 DEF View, Phase, LType
    <3>3. 1 \in 1..Len(lh) /\ \A i \in 1..Len(lh) : ~(i < 1)
      BY <3>2, <1>0
    <3>4. \A i \in 1..Len(lh) : dlog[i] = View[lh[i]]
      BY <2>4, <3>1, Zenon DEF Phase
    <3>5. Phase(p)'
      BY <3>1, <3>2, <3>3, <3>4 DEF Phase, Installs
    <3> QED BY <2>0, <2>3, <2>4, <3>1, <3>2, <3>5 DEF DiskInv, Installs
  <2>7. CASE install_trans(p)
    <3>1. /\ pc[p] = "install" /\ install /\ tail' = tail + 1
          /\ pc' = [pc EXCEPT ![p] = IF tail = Len(lh) THEN "erase" ELSE "install"]
          /\ UNCHANGED <<dlog, dhead, lh>>
      BY <2>7 DEF install_trans, install
    <3>2. /\ tail \in 1..Len(lh) /\ dhead = lh /\ \A i \in 1..Len(lh) : dlog[i] = View[lh[i]]
          /\ \A i \in 1..Len(lh) : i < tail => home[lh[i]] = dlog[i]
          /\ pc'[p] \in {"erase", "install"}
      BY <2>4, <3>1 DEF Phase, Installs, LType
    <3>3. View' = View
      BY <3>1, <3>2, Install, ViewType, Zenon
    <3>4. \A i \in 1..Len(lh) : i < tail' => home'[lh[i]] = dlog[i]
      BY <2>4, <3>1, <3>2, <1>0, Install DEF NoDup, LType
    <3>5. Phase(p)'
      BY <3>1, <3>2, <3>3, <3>4, <1>0 DEF Phase, Installs, LType
    <3> QED BY <2>0, <2>3, <2>4, <3>1, <3>2, <3>5 DEF DiskInv, Installs
  <2>8. CASE erase(p)
    <3>1. lh' = <<>> /\ dhead' = <<>> /\ pc' = [pc EXCEPT ![p] = "done"]
      BY <2>8 DEF erase, eraseLog
    <3>2. Phase(p)'
      BY <3>1 DEF Phase, Installs, LType
    <3> QED BY <2>0, <2>3, <3>1, <3>2, <1>0 DEF DiskInv
  <2>9. CASE commitDone(p)
    <3>1. UNCHANGED <<dhead, lh>> /\ pc[p] = "done" /\ pc'[p] = "idle"
      BY <2>9 DEF commitDone, disk, wake
    <3>2. Phase(p)'
      BY <3>1 DEF Phase, Installs
    <3>3. dhead = <<>>
      BY <2>0, <2>3, <3>1 DEF DiskInv, Installs
    <3> QED BY <2>0, <2>3, <2>4, <3>1, <3>2, <3>3 DEF DiskInv
  <2> QED BY <1>8, <2>5, <2>6, <2>7, <2>8, <2>9 DEF Commit
<1>9. ASSUME NEW p \in Procs, NEW b \in Blocks, NEW v \in Vals, modify(p, b, v) PROVE DiskInv'
  <2>1. /\ UNCHANGED <<home, dlog, dhead, lh, tail>> /\ pc[p] = "op" /\ mode = "run" /\ mode' # "recover"
        /\ pc' = pc \/ pc' = [pc EXCEPT ![p] = "log"]
    BY <1>9 DEF modify, disk
  <2>2. \A q \in Procs : ~Commits(q)
    BY <2>1, OpAlone DEF Active
  <2>3. \A q \in Procs : ~Commits(q)'
    BY <2>1, <2>2 DEF Commits, LType
  <2> QED BY <2>1, <2>2, <2>3, DiskKeep
<1> QED BY <1>1, <1>2, <1>3, <1>4, <1>5, <1>6, <1>7, <1>8, <1>9 DEF Next

-----------------------------------------------------------------------------
\* The first boot satisfies the invariant.
LEMMA InitInv == Init => IInv
<1> SUFFICES ASSUME Init PROVE IInv
  OBVIOUS
<1>1. Active = {} /\ \A p \in Procs : ~Commits(p) /\ pc[p] = "idle"
  BY DEF Init, AllIdle, Active, Commits
<1>2. LType
  <2>1. /\ EmptyCache \in [Blocks -> Vals \cup {NoVal}] /\ AllIdle \in [Procs -> Labels]
        /\ NoBufs \in [Procs -> Blocks \cup {NoVal}] /\ NoWrites \in [Procs -> SUBSET Blocks]
    BY DEF EmptyCache, AllIdle, NoBufs, NoWrites, Labels
  <2>2. /\ home \in [Blocks -> Vals] /\ dlog \in [Slots -> Vals]
        /\ dhead \in Seq(Blocks) /\ lh \in Seq(Blocks)
    BY DEF Init
  <2>3. /\ cache = EmptyCache /\ dirty = {} /\ outstanding = 0 /\ mode = "recover" /\ tail = 1
        /\ pc = AllIdle /\ buf = NoBufs /\ wrote = NoWrites
    BY DEF Init
  <2>4. committing \in BOOLEAN
    BY Zenon DEF Init
  <2> QED BY <2>1, <2>2, <2>3, <2>4 DEF LType
<1>3. CountInv
  BY <1>1, FS_EmptySet DEF Init, CountInv
<1>4. WaitInv
  BY <1>1 DEF WaitInv
<1>5. SpaceInv
  <2>1. Reserved = {}
    BY <1>1 DEF Reserved
  <2>2. \A p \in Procs : wrote[p] = {} /\ buf[p] = NoVal
    BY DEF Init, NoWrites, NoBufs
  <2>3. lh = <<>> /\ Len(<<>>) = 0
    BY DEF Init
  <2> QED BY <1>1, <2>1, <2>2, <2>3, FS_EmptySet, LogConstants DEF SpaceInv
<1>6. CacheInv
  BY DEF Init, CacheInv, View, EmptyCache
<1>7. DiskInv
  <2>1. \A p \in Procs : Phase(p)
    BY <1>1, NoPhase
  <2>2. lh = <<>> /\ dhead = <<>> /\ mode = "recover" /\ Len(<<>>) = 0
    BY DEF Init
  <2>3. 1..Len(lh) = {}
    BY <2>2
  <2>4. NoDup(lh)
    BY <2>3 DEF NoDup
  <2> QED BY <2>1, <2>2, <2>3, <2>4 DEF DiskInv
<1> QED BY <1>2, <1>3, <1>4, <1>5, <1>6, <1>7 DEF IInv

\* A step that changes nothing keeps it.
LEMMA StutterInv ==
  ASSUME IInv, UNCHANGED vars
  PROVE  IInv'
<1>1. UNCHANGED <<home, dlog, dhead, cache, dirty, lh, outstanding, committing, mode, tail>>
  BY DEF vars, disk, mem
<1>2. UNCHANGED <<pc, buf, wrote>>
  BY DEF vars, ops
<1>3. View' = View /\ Active' = Active /\ Reserved' = Reserved
  BY <1>1, <1>2 DEF View, Active, Reserved
<1>4. LType' /\ CountInv' /\ WaitInv' /\ SpaceInv'
  BY <1>1, <1>2, <1>3, Zenon DEF IInv, LType, CountInv, Commits, WaitInv, SpaceInv
<1>5. CacheInv' /\ DiskInv'
  BY <1>1, <1>2, <1>3, Zenon DEF IInv, CacheInv, Held, DiskInv, Phase, Installs
<1> QED BY <1>4, <1>5 DEF IInv

\* The inductive invariant: every step of log.c, and a crash at any point,
\* preserves it.
THEOREM LogInvariance == Spec => []IInv
<1>1. ASSUME IInv, Next PROVE IInv'
  BY <1>1, TypeStep, CountStep, WaitStep, SpaceStep, CacheStep, DiskStep DEF IInv
<1>2. IInv /\ [Next]_vars => IInv'
  BY <1>1, StutterInv
<1> QED BY InitInv, <1>2, PTL DEF Spec

\* The variables of the log stay in their ranges, and a process that sleeps in
\* begin_op has an operation or a commit whose end wakes it, for any number of
\* processes and any size of the log that has room for one operation.
THEOREM SleepersHaveWakers == Spec => []WaiterHasWaker
<1>1. IInv => WaiterHasWaker
  BY Finite DEF IInv, LType, CountInv, WaitInv, TypeOK, WaiterHasWaker, Labels
<1> QED BY <1>1, LogInvariance, PTL

\* What begin_op sets aside is enough: a transaction never has more than
\* LOGSIZE blocks, although log_write tests this without the lock.
THEOREM ReservationSuffices == Spec => [](Len(lh) <= LOGSIZE)
<1>1. IInv => Len(lh) <= LOGSIZE
  BY LogFits DEF IInv
<1> QED BY <1>1, LogInvariance, PTL

-----------------------------------------------------------------------------
(* The log implements AtomicLog: durable is what recovery would leave on the
   disk, current what system calls read. *)

Current == IF mode = "recover" THEN Recovered ELSE View

-----------------------------------------------------------------------------
(* What recovery leaves on the disk *)

\* A logged block gets the content of its place in the log.
LEMMA RecoveredAt ==
  ASSUME NoDup(dhead), NEW i \in 1..Len(dhead), dhead[i] \in Blocks
  PROVE  Recovered[dhead[i]] = dlog[i]
<1>1. dhead[i] \in Entries(dhead)
  BY DEF Entries
<1>2. (CHOOSE j \in 1..Len(dhead) : dhead[j] = dhead[i]) = i
  BY DEF NoDup
<1> QED BY <1>1, <1>2, Zenon DEF Recovered

\* Any other block stays as it is.
LEMMA RecoveredHome ==
  ASSUME NEW b \in Blocks, b \notin Entries(dhead)
  PROVE  Recovered[b] = home[b]
BY DEF Recovered

\* When all of the log is installed, recovery changes nothing.
LEMMA RecoveredInstalled ==
  ASSUME LType, NoDup(dhead), \A i \in 1..Len(dhead) : home[dhead[i]] = dlog[i]
  PROVE  Recovered = home
<1>1. ASSUME NEW b \in Blocks PROVE Recovered[b] = home[b]
  <2>1. CASE b \in Entries(dhead)
    <3>1. PICK i \in 1..Len(dhead) : dhead[i] = b
      BY <2>1 DEF Entries
    <3> QED BY <3>1, RecoveredAt
  <2>2. CASE b \notin Entries(dhead)
    BY <2>2, RecoveredHome
  <2> QED BY <2>1, <2>2
<1>2. Recovered = [b \in Blocks |-> Recovered[b]]
  BY DEF Recovered
<1>3. home = [b \in Blocks |-> home[b]]
  BY DEF LType
<1> QED BY <1>1, <1>2, <1>3

\* In particular when the header is empty.
LEMMA RecoveredEmpty ==
  ASSUME LType, dhead = <<>>
  PROVE  Recovered = home
BY RecoveredInstalled DEF NoDup

\* The same of the state after a step.
LEMMA RecoveredErased ==
  ASSUME LType', dhead' = <<>>
  PROVE  Recovered' = home'
<1>1. Entries(dhead') = {}
  BY DEF Entries
<1>2. home' = [b \in Blocks |-> home'[b]]
  BY DEF LType
<1> QED BY <1>1, <1>2 DEF Recovered

\* Installing a block that the header names changes nothing: recovery would
\* write it again.
LEMMA RecoveredInstall ==
  ASSUME LType, SpaceInv, DiskInv, dhead = lh, tail \in 1..Len(lh), install,
         UNCHANGED <<dlog, dhead>>
  PROVE  Recovered' = Recovered
<1>1. lh[tail] \in Entries(dhead) /\ lh[tail] \in Blocks
      /\ home' = [home EXCEPT ![lh[tail]] = dlog[tail]]
  BY Install DEF Entries
<1>2. \A b \in Blocks : b \notin Entries(dhead) => home'[b] = home[b]
  BY <1>1 DEF LType
<1> QED BY <1>2 DEF Recovered

-----------------------------------------------------------------------------
\* The first boot is an initial state of AtomicLog.
LEMMA RefineInit == Init => Atomic!Init
<1> SUFFICES ASSUME Init PROVE Atomic!Init
  OBVIOUS
<1>1. Active = {} /\ mode = "recover" /\ home \in [Blocks -> Vals]
  BY DEF Init, AllIdle, Active
<1>2. Recovered = home
  BY InitInv, RecoveredEmpty DEF Init, IInv
<1> QED BY <1>1, <1>2 DEF Atomic!Init

\* A step that changes none of the three is a stutter of AtomicLog.
LEMMA Stutter ==
  ASSUME Recovered' = Recovered, Current' = Current, Active' = Active
  PROVE  UNCHANGED <<Recovered, IF mode = "recover" THEN Recovered ELSE View, Active>>
BY DEF Current

\* Every step of log.c is a step or a stutter of AtomicLog; the write of the
\* header is its Commit.
LEMMA RefineStep ==
  ASSUME IInv, IInv', Next
  PROVE  [Atomic!Next]_<<Recovered, IF mode = "recover" THEN Recovered ELSE View, Active>>
<1>0. LType /\ CountInv /\ SpaceInv /\ CacheInv /\ DiskInv /\ LType'
  BY DEF IInv
<1>a. /\ Len(lh) \in Nat /\ \A i \in 1..Len(lh) : lh[i] \in Blocks
      /\ NoDup(lh)
  BY <1>0 DEF LType, DiskInv
<1>b. View = [b \in Blocks |-> View[b]] /\ home = [b \in Blocks |-> home[b]]
      /\ Recovered = [b \in Blocks |-> Recovered[b]]
  BY <1>0 DEF LType, View, Recovered
<1>c. UNCHANGED <<home, dlog, dhead>> => Recovered' = Recovered
  BY DEF Recovered
<1>d. UNCHANGED <<home, cache>> => View' = View
  BY DEF View
<1>e. UNCHANGED pc => Active' = Active
  BY DEF Active
<1>1. CASE crash
  <2>1. UNCHANGED <<home, dlog, dhead>> /\ mode' = "recover" /\ pc' = AllIdle
    BY <1>1 DEF crash, disk
  <2>2. Active' = {} /\ Recovered' = Recovered
    BY <2>1, <1>c DEF Active, AllIdle
  <2>3. Atomic!Crash
    BY <2>1, <2>2 DEF Atomic!Crash
  <2> QED BY <2>3 DEF Atomic!Next
<1>2. CASE recoverInstall
  <2>1. /\ tail \in 1..Len(lh) /\ install /\ mode = "recover" /\ dhead = lh
        /\ UNCHANGED <<dlog, dhead, mode, pc>>
    BY <1>2, <1>0, <1>a DEF recoverInstall, LType, ops, DiskInv
  <2>2. Recovered' = Recovered
    BY <2>1, <1>0, RecoveredInstall
  <2> QED BY <2>1, <2>2, <1>e, Stutter DEF Current
<1>3. CASE recoverDone
  <2>1. /\ mode = "recover" /\ mode' = "run" /\ tail > Len(lh) /\ dhead' = <<>>
        /\ UNCHANGED <<home, cache, pc>>
    BY <1>3 DEF recoverDone, eraseLog, ops
  <2>2. dhead = lh /\ \A i \in 1..Len(lh) : home[lh[i]] = dlog[i]
    BY <2>1, <1>0, <1>a DEF DiskInv, LType
  <2>3. Recovered = home
    BY <2>2, <1>0, <1>a, RecoveredInstalled
  <2>4. Recovered' = home'
    BY <2>1, <1>0, RecoveredErased
  <2>5. View = home
    BY <2>1, <1>0, <1>b DEF CacheInv
  <2> QED BY <2>1, <2>3, <2>4, <2>5, <1>d, <1>e, Stutter DEF Current
<1>4. ASSUME NEW b \in Blocks, bread(b) \/ evict(b)
      PROVE  UNCHANGED <<Recovered, IF mode = "recover" THEN Recovered ELSE View, Active>>
  <2>1. View' = View
    BY <1>4, <1>0, BreadView, EvictView
  <2>2. UNCHANGED <<home, dlog, dhead, mode, pc>>
    BY <1>4 DEF bread, evict, disk, ops
  <2> QED BY <2>1, <2>2, <1>c, <1>e, Stutter DEF Current
<1>5. ASSUME NEW p \in Procs, begin_op(p) PROVE Atomic!Begin(p)
  <2>1. UNCHANGED <<home, dlog, dhead, cache, mode>> /\ pc' = [pc EXCEPT ![p] = "op"]
    BY <1>5 DEF begin_op, disk
  <2>2. Active' = Active \cup {p}
    BY <2>1, <1>0 DEF Active, LType
  <2> QED BY <2>1, <2>2, <1>c, <1>d DEF Atomic!Begin
<1>6. ASSUME NEW p \in Procs, begin_sleep(p) \/ log_write(p) \/ commitDone(p)
      PROVE  UNCHANGED <<Recovered, IF mode = "recover" THEN Recovered ELSE View, Active>>
  <2>1. UNCHANGED <<home, dlog, dhead, cache, mode>>
    BY <1>6 DEF begin_sleep, log_write, commitDone, disk, mem
  <2>2. CASE begin_sleep(p)
    <3>1. pc[p] \in {"idle", "begin"} /\ pc' = [pc EXCEPT ![p] = "asleep"]
      BY <2>2 DEF begin_sleep
    <3>2. Active' = Active
      BY <3>1, <1>0 DEF Active, LType
    <3> QED BY <2>1, <3>2, <1>c, <1>d, Stutter DEF Current
  <2>3. CASE log_write(p)
    <3>1. pc[p] = "log" /\ pc' = [pc EXCEPT ![p] = "op"]
      BY <2>3 DEF log_write
    <3>2. Active' = Active
      BY <3>1, <1>0 DEF Active, LType
    <3> QED BY <2>1, <3>2, <1>c, <1>d, Stutter DEF Current
  <2>4. CASE commitDone(p)
    <3>1. pc[p] = "done" /\ pc' = wake(p, "idle")
      BY <2>4 DEF commitDone
    <3>2. Active' = Active
      BY <3>1, <1>0 DEF Active, LType, wake
    <3> QED BY <2>1, <3>2, <1>c, <1>d, Stutter DEF Current
  <2> QED BY <1>6, <2>2, <2>3, <2>4
<1>7. ASSUME NEW p \in Procs, end_op(p) PROVE Atomic!End(p)
  <2>1. /\ UNCHANGED <<home, dlog, dhead, cache, mode>> /\ pc[p] = "op"
        /\ \/ \E l \in {"done", "write_log"} : pc' = [pc EXCEPT ![p] = l]
           \/ pc' = wake(p, "idle")
    BY <1>7 DEF end_op, disk
  <2>2. Active' = Active \ {p}
    BY <2>1, <1>0 DEF Active, LType, wake
  <2> QED BY <2>1, <2>2, <1>c, <1>d DEF Atomic!End
<1>8. ASSUME NEW p \in Procs, write_log(p) \/ install_trans(p) \/ erase(p)
      PROVE  UNCHANGED <<Recovered, IF mode = "recover" THEN Recovered ELSE View, Active>>
  <2>1. /\ mode = "run" /\ UNCHANGED mode /\ Commits(p) /\ Phase(p)
        /\ \E l \in {"write_log", "write_head", "install", "erase", "done"} : pc' = [pc EXCEPT ![p] = l]
    BY <1>8, <1>0 DEF write_log, install_trans, erase, Commits, DiskInv
  <2>2. Active' = Active
    BY <2>1, <1>0 DEF Active, Commits, LType
  <2>3. CASE write_log(p)
    <3>1. pc[p] = "write_log" /\ UNCHANGED <<home, dhead, cache>>
      BY <2>3 DEF write_log
    <3>2. \A q \in Procs : ~Installs(q)
      BY <3>1, <2>1, <1>0 DEF CountInv, Commits, Installs
    <3>3. dhead = <<>>
      BY <3>2, <2>1, <1>0 DEF DiskInv
    <3>4. Recovered = home /\ Recovered' = home'
      BY <3>1, <3>3, <1>0, RecoveredEmpty, RecoveredErased
    <3> QED BY <2>1, <2>2, <3>1, <3>4, <1>d, Stutter DEF Current
  <2>4. CASE install_trans(p)
    <3>1. /\ pc[p] = "install" /\ install /\ UNCHANGED <<dlog, dhead>>
      BY <2>4 DEF install_trans, install
    <3>2. tail \in 1..Len(lh) /\ dhead = lh /\ dlog[tail] = View[lh[tail]]
      BY <2>1, <3>1 DEF Phase, Installs
    <3>3. Recovered' = Recovered
      BY <3>1, <3>2, <1>0, RecoveredInstall
    <3>4. View' = [View EXCEPT ![lh[tail]] = dlog[tail]] /\ View \in [Blocks -> Vals]
      BY <3>1, <3>2, <1>0, Install, ViewType
    <3>5. View' = View
      BY <3>2, <3>4, Zenon
    <3> QED BY <2>1, <2>2, <3>3, <3>5, Stutter DEF Current
  <2>5. CASE erase(p)
    <3>1. pc[p] = "erase" /\ dhead' = <<>> /\ UNCHANGED <<home, cache>>
      BY <2>5 DEF erase, eraseLog
    <3>2. dhead = lh /\ \A i \in 1..Len(lh) : home[lh[i]] = dlog[i]
      BY <2>1, <3>1, <1>a DEF Phase, Installs
    <3>3. Recovered = home
      BY <3>2, <1>0, <1>a, RecoveredInstalled
    <3>4. Recovered' = home'
      BY <3>1, <1>0, RecoveredErased
    <3> QED BY <2>1, <2>2, <3>1, <3>3, <3>4, <1>d, Stutter DEF Current
  <2> QED BY <1>8, <2>3, <2>4, <2>5
<1>9. ASSUME NEW p \in Procs, write_head(p) PROVE Atomic!Commit
  <2>1. /\ mode = "run" /\ pc[p] = "write_head" /\ dhead' = lh /\ pc' = [pc EXCEPT ![p] = "install"]
        /\ UNCHANGED <<home, dlog, cache, mode>>
    BY <1>9 DEF write_head
  <2>2. Active = {}
    BY <2>1, <1>0, CommitAlone DEF Commits
  <2>3. Active' = {}
    BY <2>1, <2>2, <1>0 DEF Active, LType
  <2>4. \A i \in 1..Len(lh) : dlog[i] = View[lh[i]]
    BY <2>1, <1>0 DEF DiskInv, Phase
  <2>5. ASSUME NEW b \in Blocks PROVE Recovered'[b] = View[b]
    <3>1. CASE b \in Entries(lh)
      <4>1. PICK i \in 1..Len(lh) : lh[i] = b
        BY <3>1 DEF Entries
      <4>2. (CHOOSE j \in 1..Len(lh) : lh[j] = b) = i
        BY <4>1, <1>a DEF NoDup
      <4>3. Recovered'[b] = dlog[i]
        BY <2>1, <3>1, <4>2, Zenon DEF Recovered
      <4> QED BY <4>1, <4>3, <2>4
    <3>2. CASE b \notin Entries(lh)
      <4>1. ~Held(b)
        BY <2>2, <1>0, LogConstants, Zenon DEF Held, SpaceInv
      <4>2. View[b] = home[b]
        BY <3>2, <4>1, <1>0 DEF CacheInv
      <4>3. Recovered'[b] = home[b]
        BY <2>1, <3>2 DEF Recovered
      <4> QED BY <4>2, <4>3
    <3> QED BY <3>1, <3>2
  <2>6. Recovered' = [b \in Blocks |-> Recovered'[b]]
    BY DEF Recovered
  <2>7. Recovered' = View
    BY <2>5, <2>6, <1>b
  <2> QED BY <2>1, <2>2, <2>3, <2>7, <1>d DEF Atomic!Commit
<1>10. ASSUME NEW p \in Procs, NEW b \in Blocks, NEW v \in Vals, modify(p, b, v)
       PROVE  Atomic!Write(p, b, v)
  <2>1. /\ UNCHANGED <<home, dlog, dhead>> /\ pc[p] = "op" /\ mode = "run" /\ mode' # "recover"
        /\ cache' = [cache EXCEPT ![b] = v]
        /\ pc' = pc \/ pc' = [pc EXCEPT ![p] = "log"]
    BY <1>10 DEF modify, disk
  <2>2. Active' = Active /\ p \in Active
    BY <2>1, <1>0 DEF Active, LType
  <2>3. v # NoVal
    BY LogConstants
  <2>4. View' = [View EXCEPT ![b] = v]
    BY <2>1, <2>3, <1>0, Zenon DEF View, LType
  <2> QED BY <2>1, <2>2, <2>4, <1>c DEF Atomic!Write
<1>11. ASSUME NEW p \in Procs, Commit(p)
       PROVE  \/ Atomic!Commit
              \/ UNCHANGED <<Recovered, IF mode = "recover" THEN Recovered ELSE View, Active>>
  BY <1>11, <1>6, <1>8, <1>9 DEF Commit
<1> QED BY <1>1, <1>2, <1>3, <1>4, <1>5, <1>6, <1>7, <1>10, <1>11 DEF Next, Atomic!Next

\* Crash atomicity: whatever the point of a crash, in commit() or in recovery,
\* the next boot finds the updates of all the operations of a transaction or of
\* none (log.c).
THEOREM AtomicAcrossCrashes == Spec => ImplementsAtomicLog
<1>1. ASSUME IInv, IInv', [Next]_vars
      PROVE  [Atomic!Next]_<<Recovered, IF mode = "recover" THEN Recovered ELSE View, Active>>
  <2>1. CASE Next
    BY <1>1, <2>1, RefineStep
  <2>2. CASE UNCHANGED vars
    <3>1. UNCHANGED <<home, dlog, dhead, cache, mode, pc>>
      BY <2>2 DEF vars, disk, mem, ops
    <3> QED BY <3>1 DEF Recovered, View, Active
  <2> QED BY <1>1, <2>1, <2>2
<1> QED BY RefineInit, <1>1, LogInvariance, PTL DEF Spec, ImplementsAtomicLog, Atomic!Spec
=============================================================================
