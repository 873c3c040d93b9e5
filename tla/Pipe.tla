-------------------------------- MODULE Pipe --------------------------------
(***************************************************************************)
(* One pipe (pipe.c) between processes that read and processes that write. *)
(* nread and nwrite are unsigned integers that wrap around.  p->lock is    *)
(* held from acquire to release or sleep, so a call is a sequence of       *)
(* sections, each of which is one action; the test of killed and the sleep *)
(* that follows it are two, because kill() does not take p->lock.          *)
(***************************************************************************)
EXTENDS Naturals, Sequences, FiniteSets

CONSTANTS
  Readers, Writers, Vals,
  PIPESIZE,
  UINT,       \* 2^32 in the code, a multiple of PIPESIZE
  Messages,   \* the sequences of bytes that programs write
  NoProc      \* p->lock is free

ASSUME PipeConstants ==
  /\ PIPESIZE \in Nat \ {0} /\ UINT \in Nat \ {0} /\ UINT % PIPESIZE = 0
  /\ PIPESIZE < UINT /\ Messages \subseteq Seq(Vals) /\ NoProc \notin Readers \cup Writers

VARIABLES
  data, nread, nwrite, readopen, writeopen,  \* struct pipe
  lock,      \* the process holding p->lock across two actions
  pc,        \* per process
  rest,      \* per writer: the bytes of its write not yet in the pipe
  killed,
  got        \* the bytes copied out by the last piperead

ring == <<data, nread, nwrite>>
ends == <<readopen, writeopen>>
vars == <<ring, ends, lock, pc, rest, killed, got>>

Procs == Readers \cup Writers

\* pipealloc
Init ==
  /\ data \in {[i \in 0..(PIPESIZE - 1) |-> v] : v \in Vals}
  /\ nread = 0 /\ nwrite = 0
  /\ readopen = TRUE /\ writeopen = TRUE
  /\ lock = NoProc
  /\ pc = [p \in Procs |-> "idle"]
  /\ rest = [w \in Writers |-> <<>>]
  /\ killed = [p \in Procs |-> FALSE]
  /\ got = <<>>

Count == (nwrite + UINT - nread) % UINT
Bytes == [i \in 1..Count |-> data[(nread + i - 1) % PIPESIZE]]

\* Slip: the comparison is made on integers that do not wrap around.
FullUnwrapped == nwrite = nread + PIPESIZE

Full == nwrite = (nread + PIPESIZE) % UINT
Empty == nread = nwrite

\* pc after wakeup on the channel that processes at label l sleep on, p going
\* on at m; a woken process runs its loop again.
wakeup(l, again, p, m) ==
  [q \in Procs |-> IF q = p THEN m ELSE IF pc[q] = l THEN again ELSE pc[q]]

(***************************************************************************)
(* pipewrite: copy until the pipe is full or the bytes are all in it.      *)
(***************************************************************************)
startWrite(w, bytes) ==
  /\ pc[w] = "idle" /\ writeopen /\ ~killed[w]
  /\ rest' = [rest EXCEPT ![w] = bytes]
  /\ pc' = [pc EXCEPT ![w] = "write"]
  /\ UNCHANGED <<ring, ends, lock, killed, got>>

writeByte(w) ==
  /\ pc[w] \in {"write", "copy"} /\ lock \in {NoProc, w}
  /\ rest[w] # <<>> /\ ~Full
  /\ data' = [data EXCEPT ![nwrite % PIPESIZE] = Head(rest[w])]
  /\ nwrite' = (nwrite + 1) % UINT
  /\ rest' = [rest EXCEPT ![w] = Tail(@)]
  /\ lock' = w
  /\ pc' = [pc EXCEPT ![w] = "copy"]
  /\ UNCHANGED <<nread, ends, killed, got>>

writeDone(w) ==
  /\ pc[w] \in {"write", "copy"} /\ lock \in {NoProc, w}
  /\ rest[w] = <<>>
  /\ pc' = wakeup("rsleep", "read", w, "idle")
  /\ lock' = NoProc
  /\ UNCHANGED <<ring, ends, rest, killed, got>>

writeFail(w) ==
  /\ pc[w] \in {"write", "copy"} /\ lock \in {NoProc, w}
  /\ rest[w] # <<>> /\ Full
  /\ ~readopen \/ killed[w]
  /\ rest' = [rest EXCEPT ![w] = <<>>]
  /\ pc' = [pc EXCEPT ![w] = "idle"]
  /\ lock' = NoProc
  /\ UNCHANGED <<ring, ends, killed, got>>

\* Slip: a full pipe is left for the readers to notice.
waitFullQuietly(w) ==
  /\ pc[w] \in {"write", "copy"} /\ lock \in {NoProc, w}
  /\ rest[w] # <<>> /\ Full /\ readopen /\ ~killed[w]
  /\ pc' = [pc EXCEPT ![w] = "wtest"]
  /\ lock' = w
  /\ UNCHANGED <<ring, ends, rest, killed, got>>

waitFull(w) ==
  /\ pc[w] \in {"write", "copy"} /\ lock \in {NoProc, w}
  /\ rest[w] # <<>> /\ Full /\ readopen /\ ~killed[w]
  /\ pc' = wakeup("rsleep", "read", w, "wtest")
  /\ lock' = w
  /\ UNCHANGED <<ring, ends, rest, killed, got>>

(***************************************************************************)
(* piperead of n bytes.                                                    *)
(***************************************************************************)
startRead(r) ==
  /\ pc[r] = "idle" /\ readopen /\ ~killed[r]
  /\ pc' = [pc EXCEPT ![r] = "read"]
  /\ UNCHANGED <<ring, ends, lock, rest, killed, got>>

readWait(r) ==
  /\ pc[r] = "read" /\ lock = NoProc
  /\ Empty /\ writeopen /\ ~killed[r]
  /\ pc' = [pc EXCEPT ![r] = "rtest"]
  /\ lock' = r
  /\ UNCHANGED <<ring, ends, rest, killed, got>>

readKilled(r) ==
  /\ pc[r] = "read" /\ lock = NoProc
  /\ Empty /\ writeopen /\ killed[r]
  /\ pc' = [pc EXCEPT ![r] = "idle"]
  /\ UNCHANGED <<ring, ends, lock, rest, killed, got>>

copyOut(r, n) ==
  /\ pc[r] = "read" /\ lock = NoProc
  /\ ~Empty \/ ~writeopen
  /\ LET m == IF n < Count THEN n ELSE Count IN
       /\ got' = SubSeq(Bytes, 1, m)
       /\ nread' = (nread + m) % UINT
  /\ pc' = wakeup("wsleep", "write", r, "idle")
  /\ UNCHANGED <<data, nwrite, ends, lock, rest, killed>>

\* sleep(chan, &p->lock), after the tests of the loop.
sleep(p) ==
  /\ pc[p] \in {"rtest", "wtest"} /\ lock = p
  /\ pc' = [pc EXCEPT ![p] = IF @ = "rtest" THEN "rsleep" ELSE "wsleep"]
  /\ lock' = NoProc
  /\ UNCHANGED <<ring, ends, rest, killed, got>>

\* kill() sets killed and makes a sleeper run again.
kill(p) ==
  /\ killed' = [killed EXCEPT ![p] = TRUE]
  /\ pc' = [pc EXCEPT ![p] = CASE @ = "rsleep" -> "read" [] @ = "wsleep" -> "write"
                                  [] OTHER -> @]
  /\ UNCHANGED <<ring, ends, lock, rest, got>>

(***************************************************************************)
(* pipeclose: fileclose calls it for the last reference to an end, so no   *)
(* process is using that end.                                              *)
(***************************************************************************)
\* Slip: the readers are not told.
closeWriteQuietly(p) == pc

closeWriteWakes(p) == wakeup("rsleep", "read", p, pc[p])

closeWrite(p) ==
  /\ writeopen /\ lock = NoProc /\ pc[p] = "idle"
  /\ \A w \in Writers : pc[w] = "idle"
  /\ writeopen' = FALSE
  /\ pc' = closeWriteWakes(p)
  /\ UNCHANGED <<ring, readopen, lock, rest, killed, got>>

closeRead(p) ==
  /\ readopen /\ lock = NoProc /\ pc[p] = "idle"
  /\ \A r \in Readers : pc[r] = "idle"
  /\ readopen' = FALSE
  /\ pc' = wakeup("wsleep", "write", p, pc[p])
  /\ UNCHANGED <<ring, writeopen, lock, rest, killed, got>>

-----------------------------------------------------------------------------
Write(w) ==
  \/ \E bytes \in Messages : startWrite(w, bytes)
  \/ writeByte(w) \/ writeDone(w) \/ writeFail(w) \/ waitFull(w)

Read(r) ==
  \/ startRead(r) \/ readWait(r) \/ readKilled(r)
  \/ \E n \in 1..PIPESIZE : copyOut(r, n)

Next ==
  \/ \E w \in Writers : Write(w)
  \/ \E r \in Readers : Read(r)
  \/ \E p \in Procs : sleep(p) \/ kill(p) \/ closeRead(p) \/ closeWrite(p)

\* Kernel code goes on; nothing is assumed of the programs.
Fairness ==
  /\ \A w \in Writers : SF_vars(writeByte(w) \/ writeDone(w) \/ writeFail(w) \/ waitFull(w))
  /\ \A r \in Readers :
       SF_vars(readWait(r) \/ readKilled(r) \/ \E n \in 1..PIPESIZE : copyOut(r, n))
  /\ \A p \in Procs : WF_vars(sleep(p))

Spec == Init /\ [][Next]_vars /\ Fairness

-----------------------------------------------------------------------------
(* Properties *)

\* The pipe never holds more than PIPESIZE bytes, the counters stay unsigned
\* integers, and p->lock is held exactly by a process between two actions of
\* one section.
TypeOK ==
  /\ data \in [0..(PIPESIZE - 1) -> Vals]
  /\ nread \in 0..(UINT - 1) /\ nwrite \in 0..(UINT - 1) /\ Count <= PIPESIZE
  /\ readopen \in BOOLEAN /\ writeopen \in BOOLEAN
  /\ pc \in [Procs -> {"idle", "write", "copy", "wtest", "wsleep", "read", "rtest", "rsleep"}]
  /\ killed \in [Procs -> BOOLEAN]
  /\ \A p \in Procs : pc[p] \in {"copy", "wtest", "rtest"} <=> lock = p

Queue == INSTANCE Fifo WITH q <- Bytes, got <- got, Capacity <- PIPESIZE,
                             MaxWrite <- 1

\* The ring buffer implements a bounded queue of bytes: bytes come out in the
\* order they went in, none lost or duplicated, across the wrap-around of the
\* indices and of the unsigned counters, with writers and readers interleaved.
ImplementsFifo == Queue!Spec

\* A writer sleeps only while the pipe is full and open for reading, a reader
\* only while it is open for writing and empty: no wakeup is lost to a write
\* that fills the pipe, a read, or the close of the other end.  The exception
\* is what pipewrite really does when it is killed in a full pipe: it returns
\* without waking the readers (pipe.c:86-89), which leaves a reader asleep
\* before a full pipe, or before what another reader has left of it.
\* Included: the state is in its ranges.
SleepersWait ==
  /\ TypeOK
  /\ lock = NoProc =>
       /\ (\E w \in Writers : pc[w] = "wsleep") => Full /\ readopen
       /\ \A r \in Readers : pc[r] = "rsleep" =>
            writeopen /\ (Empty \/ ((\E w \in Writers : killed[w]) /\ (Full \/ Readers # {r})))

\* Once the last writer has closed its end, every read in progress returns,
\* with the bytes that are left or with end of file.
ReadsReturn ==
  \A r \in Readers : pc[r] # "idle" /\ ~writeopen ~> pc[r] = "idle"
=============================================================================
