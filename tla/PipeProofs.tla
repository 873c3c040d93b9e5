----------------------------- MODULE PipeProofs -----------------------------
(***************************************************************************)
(* Machine-checked proofs about a pipe, for every number of readers and    *)
(* writers, every size of the ring and every width of the counters.        *)
(***************************************************************************)
EXTENDS Pipe, RingArithmetic, SequenceTheorems, TLAPS

Labels == {"idle", "write", "copy", "wtest", "wsleep", "read", "rtest", "rsleep"}

UInts == 0..(UINT - 1)

\* p->lock has one holder or none, and writers have bytes to write.
LockInv ==
  /\ lock \in Procs \cup {NoProc}
  /\ rest \in [Writers -> Seq(Vals)]

\* Who is in pipewrite has an open end to write to, who is in piperead one to
\* read from.
EndsInv ==
  \A p \in Procs :
    /\ pc[p] \in {"write", "copy", "wtest", "wsleep"} => p \in Writers /\ writeopen
    /\ pc[p] \in {"read", "rtest", "rsleep"} => p \in Readers /\ readopen

\* What a process has seen under p->lock is true as long as it has the lock or
\* sleeps.  A reader may sleep beside a writer that is copying, and that will
\* wake it, and beside the bytes of one that was killed.
WaitInv ==
  \A p \in Procs :
    /\ pc[p] \in {"wtest", "wsleep"} => Full
    /\ pc[p] = "rtest" => Empty /\ writeopen
    /\ pc[p] = "wsleep" \/ pc[p] = "wtest" => readopen
    /\ pc[p] = "rsleep" =>
         /\ writeopen
         /\ \/ Empty
            \/ \E q \in Procs : pc[q] = "copy"
            \/ (\E w \in Writers : killed[w]) /\ (Full \/ Readers # {p})

PInv == TypeOK /\ LockInv /\ EndsInv /\ WaitInv

-----------------------------------------------------------------------------
(* The counters of the pipe *)

\* The difference of two counters.
LEMMA CounterDistance ==
  ASSUME NEW a \in UInts, NEW b \in UInts
  PROVE  (b + UINT - a) % UINT = IF b >= a THEN b - a ELSE b + UINT - a
BY PipeConstants, Distance DEF UInts

\* A counter moved on by some bytes.
LEMMA CounterAdvance ==
  ASSUME NEW a \in UInts, NEW m \in 0..PIPESIZE
  PROVE  (a + m) % UINT = IF a + m < UINT THEN a + m ELSE a + m - UINT
<1>1. m \in 0..(UINT - 1)
  BY PipeConstants
<1> QED BY <1>1, PipeConstants, Advance, Zenon DEF UInts

\* The slot j places after a counter moved on by m.
LEMMA CounterSlot ==
  ASSUME NEW a \in UInts, NEW m \in 0..PIPESIZE, NEW j \in Int
  PROVE  (((a + m) % UINT) + j) % PIPESIZE = (a + m + j) % PIPESIZE
<1>1. a \in Int /\ m \in Int /\ a + m + j \in Int
      /\ UINT \in Nat \ {0} /\ PIPESIZE \in Nat \ {0} /\ UINT % PIPESIZE = 0
  BY PipeConstants DEF UInts
<1>2. (a + m) % UINT = a + m \/ (a + m) % UINT = a + m - UINT
  BY CounterAdvance
<1>3. (a + m - UINT) + j = (a + m + j) - UINT
  BY <1>1
<1>4. ((a + m + j) - UINT) % PIPESIZE = (a + m + j) % PIPESIZE
  BY <1>1, SlotWrap, Zenon
<1> QED BY <1>2, <1>3, <1>4

\* The bytes of the pipe have slots of their own.
LEMMA SlotsDiffer ==
  ASSUME NEW a \in Nat, NEW i \in 0..(PIPESIZE - 1), NEW j \in 0..(PIPESIZE - 1), i # j
  PROVE  (a + i) % PIPESIZE # (a + j) % PIPESIZE
BY PipeConstants, DistinctSlots, Zenon

\* The pipe is full when it has PIPESIZE bytes and empty when it has none, and
\* the next slot to write is Count slots after the next one to read.
LEMMA CountFacts ==
  ASSUME TypeOK
  PROVE  /\ Count \in 0..PIPESIZE
         /\ Full <=> Count = PIPESIZE
         /\ Empty <=> Count = 0
         /\ nwrite = (nread + Count) % UINT
<1>1. nread \in UInts /\ nwrite \in UInts /\ Count <= PIPESIZE
  BY DEF TypeOK, UInts
<1>2. Count = IF nwrite >= nread THEN nwrite - nread ELSE nwrite + UINT - nread
  BY <1>1, CounterDistance DEF Count
<1>3. (nread + PIPESIZE) % UINT = IF nread + PIPESIZE < UINT THEN nread + PIPESIZE
                                                             ELSE nread + PIPESIZE - UINT
  BY <1>1, CounterAdvance, PipeConstants
<1>4. Count \in 0..PIPESIZE
  BY <1>1, <1>2, PipeConstants DEF UInts
<1>5. (nread + Count) % UINT = IF nread + Count < UINT THEN nread + Count ELSE nread + Count - UINT
  BY <1>1, <1>4, CounterAdvance
<1>6. Full <=> Count = PIPESIZE
  BY <1>1, <1>2, <1>3, PipeConstants DEF Full, UInts
<1>7. Empty <=> Count = 0
  BY <1>1, <1>2, PipeConstants DEF Empty, UInts
<1>8. nwrite = (nread + Count) % UINT
  BY <1>1, <1>2, <1>5, PipeConstants DEF UInts
<1> QED BY <1>4, <1>6, <1>7, <1>8

\* A byte more.
LEMMA CountWrite ==
  ASSUME TypeOK, ~Full, nwrite' = (nwrite + 1) % UINT, nread' = nread
  PROVE  nwrite' \in UInts /\ Count < PIPESIZE /\ Count' = Count + 1
<1>1. nread \in UInts /\ nwrite \in UInts /\ Count \in 0..PIPESIZE /\ Count # PIPESIZE
  BY CountFacts DEF TypeOK, UInts
<1>2. Count = IF nwrite >= nread THEN nwrite - nread ELSE nwrite + UINT - nread
  BY <1>1, CounterDistance DEF Count
<1>3. nwrite' = IF nwrite + 1 < UINT THEN nwrite + 1 ELSE nwrite + 1 - UINT
  BY <1>1, CounterAdvance, PipeConstants
<1>4. nwrite' \in UInts
  BY <1>1, <1>3, PipeConstants DEF UInts
<1>5. Count' = IF nwrite' >= nread' THEN nwrite' - nread' ELSE nwrite' + UINT - nread'
  BY <1>1, <1>4, CounterDistance DEF Count
<1>6. Count' = Count + 1
  BY <1>1, <1>2, <1>3, <1>4, <1>5, PipeConstants DEF UInts
<1> QED BY <1>1, <1>4, <1>6, PipeConstants

\* m bytes less.
LEMMA CountRead ==
  ASSUME TypeOK, NEW m \in 0..Count, nread' = (nread + m) % UINT, nwrite' = nwrite
  PROVE  nread' \in UInts /\ Count' = Count - m
<1>1. nread \in UInts /\ nwrite \in UInts /\ Count \in 0..PIPESIZE /\ m \in 0..PIPESIZE
  BY CountFacts, PipeConstants DEF TypeOK, UInts
<1>2. Count = IF nwrite >= nread THEN nwrite - nread ELSE nwrite + UINT - nread
  BY <1>1, CounterDistance DEF Count
<1>3. nread' = IF nread + m < UINT THEN nread + m ELSE nread + m - UINT
  BY <1>1, CounterAdvance, PipeConstants
<1>4. nread' \in UInts
  BY <1>1, <1>3, PipeConstants DEF UInts
<1>5. Count' = IF nwrite' >= nread' THEN nwrite' - nread' ELSE nwrite' + UINT - nread'
  BY <1>1, <1>4, CounterDistance DEF Count
<1>6. Count' = Count - m
  BY <1>1, <1>2, <1>3, <1>4, <1>5, PipeConstants DEF UInts
<1> QED BY <1>4, <1>6

\* A step that leaves the ring alone leaves what is computed from it alone.
LEMMA RingKept ==
  ASSUME UNCHANGED ring
  PROVE  Count' = Count /\ (Full' <=> Full) /\ (Empty' <=> Empty) /\ Bytes' = Bytes
BY DEF ring, Count, Full, Empty, Bytes

\* The cases of Next.
LEMMA Cases ==
  ASSUME Next
  PROVE  \/ \E w \in Writers :
              \/ \E bytes \in Messages : startWrite(w, bytes)
              \/ writeByte(w) \/ writeDone(w) \/ writeFail(w) \/ waitFull(w)
         \/ \E r \in Readers :
              \/ startRead(r) \/ readWait(r) \/ readKilled(r)
              \/ \E n \in 1..PIPESIZE : copyOut(r, n)
         \/ \E p \in Procs : sleep(p) \/ kill(p) \/ closeRead(p) \/ closeWrite(p)
BY DEF Next, Write, Read

-----------------------------------------------------------------------------
(* The types *)

\* Every step keeps the counters unsigned and within the ring.
LEMMA RingStep ==
  ASSUME PInv, Next
  PROVE  /\ data' \in [0..(PIPESIZE - 1) -> Vals]
         /\ nread' \in UInts /\ nwrite' \in UInts /\ Count' <= PIPESIZE
<1>0. /\ TypeOK /\ LockInv /\ Count \in 0..PIPESIZE
      /\ data \in [0..(PIPESIZE - 1) -> Vals] /\ nread \in UInts /\ nwrite \in UInts
  BY CountFacts DEF PInv, TypeOK, UInts
<1>1. CASE UNCHANGED ring
  BY <1>0, <1>1, RingKept, PipeConstants DEF ring
<1>2. ASSUME NEW w \in Writers, writeByte(w)
      PROVE  /\ data' \in [0..(PIPESIZE - 1) -> Vals]
             /\ nread' \in UInts /\ nwrite' \in UInts /\ Count' <= PIPESIZE
  <2>1. /\ ~Full /\ rest[w] # <<>> /\ nwrite' = (nwrite + 1) % UINT /\ nread' = nread
        /\ data' = [data EXCEPT ![nwrite % PIPESIZE] = Head(rest[w])]
    BY <1>2 DEF writeByte
  <2>2. nwrite' \in UInts /\ Count' <= PIPESIZE
    BY <2>1, <1>0, CountWrite, PipeConstants
  <2>3. Head(rest[w]) \in Vals
    BY <2>1, <1>0, HeadTailProperties DEF LockInv
  <2> QED BY <2>1, <2>2, <2>3, <1>0, Zenon
<1>3. ASSUME NEW r \in Readers, NEW n \in 1..PIPESIZE, copyOut(r, n)
      PROVE  /\ data' \in [0..(PIPESIZE - 1) -> Vals]
             /\ nread' \in UInts /\ nwrite' \in UInts /\ Count' <= PIPESIZE
  <2>1. PICK m \in 0..Count : nread' = (nread + m) % UINT /\ UNCHANGED <<data, nwrite>>
    BY <1>3, <1>0, PipeConstants DEF copyOut
  <2>2. nread' \in UInts /\ Count' = Count - m
    BY <2>1, <1>0, CountRead
  <2> QED BY <2>1, <2>2, <1>0, PipeConstants
<1>4. \/ UNCHANGED ring
      \/ \E w \in Writers : writeByte(w)
      \/ \E r \in Readers : \E n \in 1..PIPESIZE : copyOut(r, n)
  BY Cases, Zenon DEF startWrite, writeDone, writeFail, waitFull, startRead, readWait, readKilled, sleep,
               kill, closeRead, closeWrite
<1> QED BY <1>1, <1>2, <1>3, <1>4

\* The types of the processes.
ProcType ==
  /\ readopen \in BOOLEAN /\ writeopen \in BOOLEAN
  /\ pc \in [Procs -> Labels]
  /\ killed \in [Procs -> BOOLEAN]
  /\ \A p \in Procs : pc[p] \in {"copy", "wtest", "rtest"} <=> lock = p

\* Every step keeps them, and p->lock with its holder.
LEMMA ProcStep ==
  ASSUME PInv, Next
  PROVE  ProcType' /\ LockInv'
<1>0. ProcType /\ LockInv /\ NoProc \notin Procs /\ Writers \subseteq Procs /\ Readers \subseteq Procs
  BY PipeConstants DEF PInv, TypeOK, ProcType, Labels, Procs
<1>1. ASSUME NEW w \in Writers, NEW bytes \in Messages, startWrite(w, bytes)
      PROVE  ProcType' /\ LockInv'
  BY <1>0, <1>1, PipeConstants DEF startWrite, ends, ProcType, LockInv, Labels
<1>2. ASSUME NEW w \in Writers, writeByte(w) PROVE ProcType' /\ LockInv'
  <2>1. /\ lock \in {NoProc, w} /\ rest[w] # <<>> /\ lock' = w /\ pc' = [pc EXCEPT ![w] = "copy"]
        /\ rest' = [rest EXCEPT ![w] = Tail(@)] /\ UNCHANGED <<readopen, writeopen, killed>>
    BY <1>2 DEF writeByte, ends
  <2>2. Tail(rest[w]) \in Seq(Vals)
    BY <2>1, <1>0, HeadTailProperties DEF LockInv
  <2> QED BY <2>1, <2>2, <1>0 DEF ProcType, LockInv, Labels
<1>3. ASSUME NEW w \in Writers, writeDone(w) PROVE ProcType' /\ LockInv'
  BY <1>0, <1>3 DEF writeDone, wakeup, ends, ProcType, LockInv, Labels
<1>4. ASSUME NEW w \in Writers, writeFail(w) PROVE ProcType' /\ LockInv'
  BY <1>0, <1>4 DEF writeFail, ends, ProcType, LockInv, Labels
<1>5. ASSUME NEW w \in Writers, waitFull(w) PROVE ProcType' /\ LockInv'
  BY <1>0, <1>5 DEF waitFull, wakeup, ends, ProcType, LockInv, Labels
<1>6. ASSUME NEW r \in Readers, startRead(r) PROVE ProcType' /\ LockInv'
  BY <1>0, <1>6 DEF startRead, ends, ProcType, LockInv, Labels
<1>7. ASSUME NEW r \in Readers, readWait(r) PROVE ProcType' /\ LockInv'
  BY <1>0, <1>7 DEF readWait, ends, ProcType, LockInv, Labels
<1>8. ASSUME NEW r \in Readers, readKilled(r) PROVE ProcType' /\ LockInv'
  BY <1>0, <1>8 DEF readKilled, ends, ProcType, LockInv, Labels
<1>9. ASSUME NEW r \in Readers, NEW n \in 1..PIPESIZE, copyOut(r, n) PROVE ProcType' /\ LockInv'
  <2>1. lock = NoProc /\ pc' = wakeup("wsleep", "write", r, "idle")
        /\ UNCHANGED <<readopen, writeopen, lock, rest, killed>>
    BY <1>9 DEF copyOut, ends
  <2> QED BY <2>1, <1>0 DEF wakeup, ProcType, LockInv, Labels
<1>10. ASSUME NEW p \in Procs, sleep(p) PROVE ProcType' /\ LockInv'
  BY <1>0, <1>10 DEF sleep, ends, ProcType, LockInv, Labels
<1>11. ASSUME NEW p \in Procs, kill(p) PROVE ProcType' /\ LockInv'
  BY <1>0, <1>11 DEF kill, ends, ProcType, LockInv, Labels
<1>12. ASSUME NEW p \in Procs, closeRead(p) PROVE ProcType' /\ LockInv'
  BY <1>0, <1>12, Zenon DEF closeRead, wakeup, ProcType, LockInv, Labels
<1>13. ASSUME NEW p \in Procs, closeWrite(p) PROVE ProcType' /\ LockInv'
  BY <1>0, <1>13, Zenon DEF closeWrite, closeWriteWakes, wakeup, ProcType, LockInv, Labels
<1> QED BY <1>1, <1>2, <1>3, <1>4, <1>5, <1>6, <1>7, <1>8, <1>9, <1>10, <1>11, <1>12, <1>13, Cases

-----------------------------------------------------------------------------
(* The ends and the sleepers *)

\* pipeclose finds nobody in a call on the end that it closes.
LEMMA EndsStep ==
  ASSUME PInv, Next
  PROVE  EndsInv'
<1>0. ProcType /\ EndsInv /\ Writers \subseteq Procs /\ Readers \subseteq Procs
  BY DEF PInv, TypeOK, ProcType, Labels, Procs
<1>1. ASSUME NEW w \in Writers, NEW bytes \in Messages, startWrite(w, bytes) PROVE EndsInv'
  BY <1>0, <1>1 DEF startWrite, ends, ProcType, EndsInv
<1>2. ASSUME NEW w \in Writers, writeByte(w) PROVE EndsInv'
  BY <1>0, <1>2 DEF writeByte, ends, ProcType, EndsInv
<1>3. ASSUME NEW w \in Writers, writeDone(w) PROVE EndsInv'
  BY <1>0, <1>3 DEF writeDone, wakeup, ends, ProcType, EndsInv
<1>4. ASSUME NEW w \in Writers, writeFail(w) PROVE EndsInv'
  BY <1>0, <1>4 DEF writeFail, ends, ProcType, EndsInv
<1>5. ASSUME NEW w \in Writers, waitFull(w) PROVE EndsInv'
  BY <1>0, <1>5 DEF waitFull, wakeup, ends, ProcType, EndsInv
<1>6. ASSUME NEW r \in Readers, startRead(r) PROVE EndsInv'
  BY <1>0, <1>6 DEF startRead, ends, ProcType, EndsInv
<1>7. ASSUME NEW r \in Readers, readWait(r) PROVE EndsInv'
  BY <1>0, <1>7 DEF readWait, ends, ProcType, EndsInv
<1>8. ASSUME NEW r \in Readers, readKilled(r) PROVE EndsInv'
  BY <1>0, <1>8 DEF readKilled, ends, ProcType, EndsInv
<1>9. ASSUME NEW r \in Readers, NEW n \in 1..PIPESIZE, copyOut(r, n) PROVE EndsInv'
  BY <1>0, <1>9 DEF copyOut, wakeup, ends, ProcType, EndsInv
<1>10. ASSUME NEW p \in Procs, sleep(p) PROVE EndsInv'
  BY <1>0, <1>10 DEF sleep, ends, ProcType, EndsInv
<1>11. ASSUME NEW p \in Procs, kill(p) PROVE EndsInv'
  BY <1>0, <1>11 DEF kill, ends, ProcType, EndsInv
<1>12. ASSUME NEW p \in Procs, closeRead(p) PROVE EndsInv'
  BY <1>0, <1>12 DEF closeRead, wakeup, ProcType, EndsInv
<1>13. ASSUME NEW p \in Procs, closeWrite(p) PROVE EndsInv'
  BY <1>0, <1>13 DEF closeWrite, closeWriteWakes, wakeup, ProcType, EndsInv
<1> QED BY <1>1, <1>2, <1>3, <1>4, <1>5, <1>6, <1>7, <1>8, <1>9, <1>10, <1>11, <1>12, <1>13, Cases

\* No wakeup is lost.
LEMMA WaitStep ==
  ASSUME PInv, Next
  PROVE  WaitInv'
<1>0. /\ ProcType /\ LockInv /\ EndsInv /\ WaitInv
      /\ NoProc \notin Procs /\ Writers \subseteq Procs /\ Readers \subseteq Procs
  BY PipeConstants DEF PInv, TypeOK, ProcType, Labels, Procs
<1>a. ASSUME UNCHANGED ring PROVE (Full' <=> Full) /\ (Empty' <=> Empty)
  BY <1>a, RingKept
<1>1. ASSUME NEW w \in Writers, NEW bytes \in Messages, startWrite(w, bytes) PROVE WaitInv'
  BY <1>0, <1>a, <1>1 DEF startWrite, ends, ProcType, WaitInv
<1>2. ASSUME NEW w \in Writers, writeByte(w) PROVE WaitInv'
  BY <1>0, <1>2 DEF writeByte, ends, ProcType, WaitInv
<1>3. ASSUME NEW w \in Writers, writeDone(w) PROVE WaitInv'
  BY <1>0, <1>a, <1>3 DEF writeDone, wakeup, ends, ProcType, WaitInv
<1>4. ASSUME NEW w \in Writers, writeFail(w) PROVE WaitInv'
  BY <1>0, <1>a, <1>4 DEF writeFail, ends, ProcType, EndsInv, WaitInv
<1>5. ASSUME NEW w \in Writers, waitFull(w) PROVE WaitInv'
  BY <1>0, <1>a, <1>5 DEF waitFull, wakeup, ends, ProcType, WaitInv
<1>6. ASSUME NEW r \in Readers, startRead(r) PROVE WaitInv'
  BY <1>0, <1>a, <1>6 DEF startRead, ends, ProcType, WaitInv
<1>7. ASSUME NEW r \in Readers, readWait(r) PROVE WaitInv'
  BY <1>0, <1>a, <1>7 DEF readWait, ends, ProcType, WaitInv
<1>8. ASSUME NEW r \in Readers, readKilled(r) PROVE WaitInv'
  BY <1>0, <1>a, <1>8 DEF readKilled, ends, ProcType, WaitInv
<1>9. ASSUME NEW r \in Readers, NEW n \in 1..PIPESIZE, copyOut(r, n) PROVE WaitInv'
  <2>1. /\ pc[r] = "read" /\ lock = NoProc /\ (~Empty \/ ~writeopen)
        /\ pc' = wakeup("wsleep", "write", r, "idle")
        /\ UNCHANGED <<readopen, writeopen, lock, killed>>
    BY <1>9 DEF copyOut, ends
  <2>2. \A p \in Procs : pc[p] \notin {"copy", "wtest", "rtest"}
    BY <2>1, <1>0 DEF ProcType
  <2>3. \A p \in Procs : pc'[p] \notin {"wtest", "wsleep", "rtest"}
    BY <2>1, <2>2, <1>0 DEF wakeup, ProcType
  <2>4. ASSUME NEW p \in Procs, pc'[p] = "rsleep"
        PROVE  writeopen' /\ (\E w \in Writers : killed'[w]) /\ Readers # {p}
    <3>1. pc[p] = "rsleep"
      BY <2>1, <2>4, <1>0 DEF wakeup, ProcType
    <3>2. writeopen /\ (Empty \/ \E w \in Writers : killed[w])
      BY <3>1, <2>2, <1>0 DEF WaitInv
    <3>3. r # p
      BY <3>1, <2>1
    <3> QED BY <2>1, <3>2, <3>3
  <2> QED BY <2>3, <2>4 DEF WaitInv
<1>10. ASSUME NEW p \in Procs, sleep(p) PROVE WaitInv'
  BY <1>0, <1>a, <1>10 DEF sleep, ends, ProcType, WaitInv
<1>11. ASSUME NEW p \in Procs, kill(p) PROVE WaitInv'
  BY <1>0, <1>a, <1>11 DEF kill, ends, ProcType, WaitInv
<1>12. ASSUME NEW p \in Procs, closeRead(p) PROVE WaitInv'
  BY <1>0, <1>a, <1>12 DEF closeRead, wakeup, ProcType, WaitInv
<1>13. ASSUME NEW p \in Procs, closeWrite(p) PROVE WaitInv'
  BY <1>0, <1>a, <1>13 DEF closeWrite, closeWriteWakes, wakeup, ProcType, WaitInv
<1> QED BY <1>1, <1>2, <1>3, <1>4, <1>5, <1>6, <1>7, <1>8, <1>9, <1>10, <1>11, <1>12, <1>13, Cases

\* pipealloc.
LEMMA InitPInv == Init => PInv
<1> SUFFICES ASSUME Init PROVE PInv
  OBVIOUS
<1>1. nread = 0 /\ nwrite = 0 /\ Count = 0 /\ Count <= PIPESIZE
  <2>1. nread = 0 /\ nwrite = 0 /\ 0 \in UInts
    BY PipeConstants DEF Init, UInts
  <2>2. Count = 0
    BY <2>1, CounterDistance DEF Count
  <2> QED BY <2>1, <2>2, PipeConstants
<1>2. \A p \in Procs : pc[p] = "idle" /\ lock # p
  BY PipeConstants DEF Init, Procs
<1>3. TypeOK
  BY <1>1, <1>2, PipeConstants DEF Init, TypeOK
<1>4. LockInv
  BY DEF Init, LockInv
<1> QED BY <1>2, <1>3, <1>4 DEF PInv, EndsInv, WaitInv

\* The inductive invariant of the pipe: the counters, p->lock, the ends, and what
\* the sleepers wait for.
THEOREM PipeInvariance == Spec => []PInv
<1>1. ASSUME PInv, Next PROVE PInv'
  <2>1. TypeOK'
    BY <1>1, RingStep, ProcStep DEF TypeOK, ProcType, UInts, Labels
  <2> QED BY <1>1, <2>1, ProcStep, EndsStep, WaitStep DEF PInv
<1>2. ASSUME PInv, UNCHANGED vars PROVE PInv'
  <2>1. UNCHANGED <<data, nread, nwrite, readopen, writeopen, lock, pc, rest, killed>> /\ UNCHANGED ring
    BY <1>2 DEF vars, ring, ends
  <2>2. TypeOK' /\ LockInv' /\ EndsInv'
    BY <1>2, <2>1, RingKept DEF PInv, TypeOK, LockInv, EndsInv
  <2>3. WaitInv'
    BY <1>2, <2>1, RingKept DEF PInv, WaitInv
  <2> QED BY <2>2, <2>3 DEF PInv
<1>3. PInv /\ [Next]_vars => PInv'
  BY <1>1, <1>2
<1> QED BY InitPInv, <1>3, PTL DEF Spec

\* No reader or writer of a pipe loses its wakeup, except the readers that a
\* killed writer leaves behind.
THEOREM NoLostWakeup == Spec => []SleepersWait
<1>1. ASSUME PInv PROVE SleepersWait
  <2>1. ASSUME lock = NoProc PROVE \A q \in Procs : pc[q] # "copy"
    BY <1>1, <2>1, PipeConstants DEF PInv, TypeOK, Procs
  <2>2. Writers \subseteq Procs /\ Readers \subseteq Procs
    BY DEF Procs
  <2> QED BY <1>1, <2>1, <2>2 DEF PInv, WaitInv, SleepersWait
<1> QED BY <1>1, PipeInvariance, PTL

-----------------------------------------------------------------------------
(* The ring implements a bounded queue *)

\* The bytes in the pipe, read out of the ring.
LEMMA BytesFacts ==
  ASSUME TypeOK
  PROVE  /\ Bytes \in Seq(Vals) /\ Len(Bytes) = Count
         /\ \A i \in 1..Count : Bytes[i] = data[(nread + i - 1) % PIPESIZE]
<1>1. Count \in Nat /\ nread \in Nat /\ PIPESIZE \in Nat \ {0}
  BY CountFacts, PipeConstants DEF TypeOK
<1>2. ASSUME NEW i \in 1..Count PROVE data[(nread + i - 1) % PIPESIZE] \in Vals
  <2>1. nread + i - 1 \in Int
    BY <1>1
  <2>2. (nread + i - 1) % PIPESIZE \in 0..(PIPESIZE - 1)
    BY <1>1, <2>1, DivMod
  <2> QED BY <2>2 DEF TypeOK
<1>3. Bytes \in [1..Count -> Vals]
  BY <1>2 DEF Bytes
<1> HIDE DEF Bytes
<1> QED
  <2>1. Bytes \in Seq(Vals)
    BY <1>1, <1>3, SeqDef
  <2>2. Len(Bytes) = Count
    BY <1>1, <1>3, <2>1, LenProperties
  <2> QED BY <2>1, <2>2, Zenon DEF Bytes

\* The same of the state after a step.
LEMMA BytesFactsNext ==
  ASSUME TypeOK', Count' \in Nat
  PROVE  /\ Bytes' \in Seq(Vals) /\ Len(Bytes') = Count'
         /\ \A i \in 1..Count' : Bytes'[i] = data'[(nread' + i - 1) % PIPESIZE]
<1>1. nread' \in Nat /\ PIPESIZE \in Nat \ {0}
  BY PipeConstants DEF TypeOK
<1>2. ASSUME NEW i \in 1..(Count') PROVE data'[(nread' + i - 1) % PIPESIZE] \in Vals
  <2>1. nread' + i - 1 \in Int
    BY <1>1
  <2>2. (nread' + i - 1) % PIPESIZE \in 0..(PIPESIZE - 1)
    BY <1>1, <2>1, DivMod, Zenon
  <2> QED BY <2>2 DEF TypeOK
<1>3. Bytes' \in [1..(Count') -> Vals]
  BY <1>2 DEF Bytes
<1>4. \A i \in 1..Count' : Bytes'[i] = data'[(nread' + i - 1) % PIPESIZE]
  BY DEF Bytes
<1> HIDE DEF Bytes
<1>5. Bytes' \in Seq(Vals)
  BY <1>1, <1>3, SeqDef
<1>6. Len(Bytes') = Count'
  BY <1>1, <1>3, <1>5, LenProperties
<1> QED BY <1>4, <1>5, <1>6

\* A byte goes into a slot that is free, behind the bytes that are in the pipe.
LEMMA WritePuts ==
  ASSUME PInv, TypeOK', NEW w \in Writers, writeByte(w)
  PROVE  Queue!Put
<1> DEFINE c == Head(rest[w])
           one == [j \in 1..1 |-> c]
           s == Bytes \o one
<1>1. /\ ~Full /\ rest[w] # <<>> /\ nwrite' = (nwrite + 1) % UINT /\ nread' = nread
      /\ data' = [data EXCEPT ![nwrite % PIPESIZE] = c] /\ UNCHANGED got
  BY DEF writeByte
<1>2. TypeOK /\ LockInv
  BY DEF PInv
<1>3. c \in Vals
  BY <1>1, <1>2, HeadTailProperties DEF LockInv
<1>4. /\ nread \in UInts /\ nwrite = (nread + Count) % UINT /\ Count \in 0..(PIPESIZE - 1)
      /\ Count' = Count + 1
  BY <1>1, <1>2, CountFacts, CountWrite, PipeConstants DEF TypeOK, UInts
<1>5. nwrite % PIPESIZE = (nread + Count) % PIPESIZE /\ nwrite % PIPESIZE \in 0..(PIPESIZE - 1)
  <2>1. nwrite \in Int /\ Count \in 0..PIPESIZE /\ nread + Count \in Int
    BY <1>2, <1>4, PipeConstants DEF TypeOK, UInts
  <2>2. (((nread + Count) % UINT) + 0) % PIPESIZE = (nread + Count + 0) % PIPESIZE
    BY <1>4, <2>1, CounterSlot
  <2>3. nwrite + 0 = nwrite /\ nread + Count + 0 = nread + Count
    BY <2>1
  <2>4. nwrite % PIPESIZE \in 0..(PIPESIZE - 1)
    BY <2>1, DivMod, PipeConstants
  <2> QED BY <1>4, <2>2, <2>3, <2>4
<1>6. Bytes \in Seq(Vals) /\ Len(Bytes) = Count
      /\ \A i \in 1..Count : Bytes[i] = data[(nread + i - 1) % PIPESIZE]
  BY <1>2, BytesFacts
<1>7. Bytes' \in Seq(Vals) /\ Len(Bytes') = Count + 1
      /\ \A i \in 1..(Count + 1) : Bytes'[i] = data'[(nread + i - 1) % PIPESIZE]
  BY <1>1, <1>4, BytesFactsNext
<1>8. one \in Seq(Vals) /\ Len(one) = 1 /\ one[1] = c
  BY <1>3
<1>9. s \in Seq(Vals) /\ Len(s) = Count + 1
      /\ \A i \in 1..(Count + 1) : s[i] = IF i <= Count THEN Bytes[i] ELSE one[i - Count]
  BY <1>6, <1>8, ConcatProperties
<1> HIDE DEF s, one, c
<1>10. ASSUME NEW i \in 1..(Count + 1) PROVE Bytes'[i] = s[i]
  <2>1. CASE i = Count + 1
    <3>1. Bytes'[i] = data'[(nread + Count) % PIPESIZE]
      BY <1>4, <1>7, <2>1 DEF UInts
    <3>2. s[i] = c
      BY <1>4, <1>8, <1>9, <2>1
    <3> QED BY <3>1, <3>2, <1>1, <1>2, <1>5 DEF TypeOK
  <2>2. CASE i # Count + 1
    <3>1. i \in 1..Count /\ i - 1 \in 0..(PIPESIZE - 1) /\ i - 1 # Count /\ nread \in Nat
          /\ nread + (i - 1) = nread + i - 1
      BY <1>4, <2>2, PipeConstants DEF UInts
    <3>2. (nread + i - 1) % PIPESIZE # nwrite % PIPESIZE
      BY <3>1, <1>4, <1>5, SlotsDiffer, Zenon
    <3>3. nread + i - 1 \in Int
      BY <3>1
    <3>4. (nread + i - 1) % PIPESIZE \in 0..(PIPESIZE - 1)
      BY <3>3, DivMod, PipeConstants, Zenon
    <3>5. data'[(nread + i - 1) % PIPESIZE] = data[(nread + i - 1) % PIPESIZE]
      BY <3>2, <3>4, <1>1, <1>2 DEF TypeOK
    <3>6. s[i] = Bytes[i]
      BY <3>1, <1>4, <1>9
    <3> QED BY <3>1, <3>5, <3>6, <1>6, <1>7
  <2> QED BY <2>1, <2>2
<1>11. Bytes' = s
  BY <1>7, <1>9, <1>10, SeqEqual
<1>12. one \in [1..1 -> Vals] /\ Len(Bytes) + 1 <= PIPESIZE
  BY <1>3, <1>4, <1>6, PipeConstants DEF one
<1> QED BY <1>1, <1>11, <1>12 DEF Queue!Put, s

\* A read takes bytes off the front.
LEMMA ReadGets ==
  ASSUME PInv, TypeOK', NEW r \in Readers, NEW n \in 1..PIPESIZE, copyOut(r, n)
  PROVE  Queue!Get
<1>1. TypeOK /\ Count \in 0..PIPESIZE /\ nread \in UInts
  BY CountFacts DEF PInv, TypeOK, UInts
<1>2. PICK m \in 0..Count : /\ nread' = (nread + m) % UINT /\ UNCHANGED <<data, nwrite>>
                            /\ got' = SubSeq(Bytes, 1, m)
  BY <1>1, PipeConstants DEF copyOut
<1>3. Count' = Count - m /\ Count' \in Nat /\ m \in 0..PIPESIZE
  BY <1>1, <1>2, CountRead, PipeConstants
<1>4. Bytes \in Seq(Vals) /\ Len(Bytes) = Count
      /\ \A i \in 1..Count : Bytes[i] = data[(nread + i - 1) % PIPESIZE]
  BY <1>1, BytesFacts
<1>5. Bytes' \in Seq(Vals) /\ Len(Bytes') = Count - m
      /\ \A i \in 1..(Count - m) : Bytes'[i] = data[(nread' + i - 1) % PIPESIZE]
  BY <1>2, <1>3, BytesFactsNext
<1> DEFINE s == SubSeq(Bytes, m + 1, Count)
<1>6. s \in Seq(Vals) /\ Len(s) = Count - m /\ \A i \in 1..(Count - m) : s[i] = Bytes[m + i]
  <2>1. m + 1 \in Int /\ Count \in Int /\ \A i \in (m + 1)..Count : Bytes[i] \in Vals
    BY <1>1, <1>4, ElementOfSeq
  <2>2. /\ s \in Seq(Vals) /\ Len(s) = IF m + 1 <= Count THEN Count - (m + 1) + 1 ELSE 0
        /\ \A i \in 1..(Count - (m + 1) + 1) : s[i] = Bytes[(m + 1) + i - 1]
    BY <2>1, SubSeqProperties
  <2>3. Count - (m + 1) + 1 = Count - m /\ \A i \in 1..(Count - m) : (m + 1) + i - 1 = m + i
    BY <1>1
  <2>4. Len(s) = Count - m
    BY <1>1, <2>2
  <2> QED BY <2>2, <2>3, <2>4
<1> HIDE DEF s
<1>7. ASSUME NEW i \in 1..(Count - m) PROVE Bytes'[i] = s[i]
  <2>1. m + i \in 1..Count /\ i - 1 \in Int /\ nread + (m + i) - 1 = nread + m + (i - 1)
    BY <1>1 DEF UInts
  <2>2. (nread' + (i - 1)) % PIPESIZE = (nread + m + (i - 1)) % PIPESIZE
    BY <1>1, <1>2, <1>3, <2>1, CounterSlot
  <2>3. nread' + (i - 1) = nread' + i - 1
    BY <1>3 DEF TypeOK
  <2>4. Bytes[m + i] = data[(nread + (m + i) - 1) % PIPESIZE]
    BY <1>4, <2>1
  <2> QED BY <1>5, <1>6, <2>1, <2>2, <2>3, <2>4
<1>8. Bytes' = s
  BY <1>5, <1>6, <1>7, SeqEqual
<1> QED BY <1>1, <1>2, <1>4, <1>8 DEF Queue!Get, s

\* The ring buffer of a pipe, its wrapping counters and its sleeping and waking
\* implement a bounded queue: bytes come out in the order they went in, none is
\* lost or duplicated, for any number of readers and writers.
THEOREM RingIsFifo == Spec => ImplementsFifo
<1>1. Init => Queue!Init
  <2> SUFFICES ASSUME Init PROVE Bytes = <<>> /\ got = <<>>
    BY DEF Queue!Init
  <2>1. TypeOK /\ Count = 0
    BY InitPInv, CountFacts DEF PInv, Init, Empty
  <2> QED BY <2>1, BytesFacts DEF Init
<1>2. ASSUME PInv, PInv', [Next]_vars PROVE [Queue!Next]_<<Bytes, got>>
  <2>1. CASE UNCHANGED <<ring, got>>
    BY <2>1, RingKept
  <2>2. ASSUME NEW w \in Writers, writeByte(w) PROVE Queue!Next
    BY <1>2, <2>2, WritePuts DEF PInv, Queue!Next
  <2>3. ASSUME NEW r \in Readers, NEW n \in 1..PIPESIZE, copyOut(r, n) PROVE Queue!Next
    BY <1>2, <2>3, ReadGets DEF PInv, Queue!Next
  <2>4. \/ UNCHANGED <<ring, got>>
        \/ \E w \in Writers : writeByte(w)
        \/ \E r \in Readers : \E n \in 1..PIPESIZE : copyOut(r, n)
    <3>1. CASE Next
      BY <3>1, Cases, Zenon DEF startWrite, writeDone, writeFail, waitFull, startRead, readWait, readKilled,
                         sleep, kill, closeRead, closeWrite
    <3>2. CASE UNCHANGED vars
      BY <3>2 DEF vars
    <3> QED BY <1>2, <3>1, <3>2
  <2> QED BY <2>1, <2>2, <2>3, <2>4
<1> QED BY <1>1, <1>2, PipeInvariance, PTL DEF Spec, ImplementsFifo, Queue!Spec
=============================================================================
