---------------------------- MODULE ConsoleProofs ---------------------------
(***************************************************************************)
(* Machine-checked proofs about the console, for every number of readers   *)
(* and writers, every size of the ring and every width of the indices.     *)
(***************************************************************************)
EXTENDS Console, RingArithmetic, SequenceTheorems, TLAPS

Labels == {"idle", "getc", "kill", "cprintf", "acquire", "put", "loop", "sleep", "asleep",
           "panic", "halted"}

UInts == 0..(UINT - 1)

\* The indices: ended lines, then the line being edited, and no more than the
\* ring has room for.
RingInv ==
  /\ buf \in [0..(INPUT_BUF - 1) -> Chars] /\ r \in UInts /\ w \in UInts /\ e \in UInts
  /\ minus(w, r) <= minus(e, r) /\ minus(e, r) <= INPUT_BUF

ProcInv ==
  /\ pc \in [Actors -> Labels]
  /\ lock \in Actors \cup {NoOne}
  /\ locking \in BOOLEAN /\ panicked \in BOOLEAN /\ dump \in BOOLEAN
  /\ locks \in [{Kbd, Cpu} -> BOOLEAN]
  /\ left \in [Writers \cup {Kbd, Cpu} -> Nat] /\ killed \in [Readers -> BOOLEAN]
  /\ n \in [Readers -> Nat] /\ target \in [Readers -> Nat]

\* A reader has something left to read until it is done.  One that is about to
\* sleep has seen the ring empty and still has the lock; one that sleeps is
\* woken when a line is ended.
ReadInv ==
  \A p \in Readers : /\ pc[p] \in {"acquire", "loop", "sleep", "asleep"} => n[p] > 0
                     /\ pc[p] \in {"sleep", "asleep"} => r = w

\* A cprintf that is to take the lock will also release it.
LockInv ==
  /\ \A a \in Actors : InSection(a) <=> lock = a
  /\ \A a \in {Kbd, Cpu} : pc[a] = "acquire" => locks[a]

ConsInv == RingInv /\ ProcInv /\ ReadInv /\ LockInv

-----------------------------------------------------------------------------
(* The indices *)

\* The constants, as the lemmas on rings need them.
LEMMA Sizes ==
  /\ UINT \in Nat \ {0} /\ INPUT_BUF \in Nat \ {0} /\ UINT % INPUT_BUF = 0 /\ INPUT_BUF < UINT
  /\ \A i \in UInts : i \in Nat /\ i < UINT
BY ConsoleConstants DEF UInts

\* The difference of two indices.
LEMMA MinusIs ==
  ASSUME NEW i \in UInts, NEW k \in UInts
  PROVE  minus(i, k) = IF i >= k THEN i - k ELSE i + UINT - k
<1>1. UINT \in Nat \ {0} /\ i \in 0..(UINT - 1) /\ k \in 0..(UINT - 1)
  BY Sizes DEF UInts
<1> QED BY <1>1, Distance, Zenon DEF minus

\* An index moved on.
LEMMA PlusIs ==
  ASSUME NEW i \in UInts, NEW k \in UInts
  PROVE  plus(i, k) = IF i + k < UINT THEN i + k ELSE i + k - UINT
<1>1. UINT \in Nat \ {0} /\ i \in 0..(UINT - 1) /\ k \in 0..(UINT - 1)
  BY Sizes DEF UInts
<1> QED BY <1>1, Advance, Zenon DEF plus

\* An index stays an unsigned integer.
LEMMA PlusType ==
  ASSUME NEW i \in UInts, NEW k \in UInts
  PROVE  plus(i, k) \in UInts /\ minus(i, k) \in UInts
<1>1. plus(i, k) = IF i + k < UINT THEN i + k ELSE i + k - UINT
  BY PlusIs
<1>2. minus(i, k) = IF i >= k THEN i - k ELSE i + UINT - k
  BY MinusIs
<1> QED BY <1>1, <1>2, Sizes DEF UInts

\* A typed character moves e on, away from r and from w.
LEMMA StepUp ==
  ASSUME NEW i \in UInts, NEW k \in UInts, minus(i, k) < UINT - 1
  PROVE  plus(i, 1) \in UInts /\ minus(plus(i, 1), k) = minus(i, k) + 1
<1>1. 1 \in UInts
  BY Sizes DEF UInts
<1>2. plus(i, 1) \in UInts /\ plus(i, 1) = IF i + 1 < UINT THEN i + 1 ELSE i + 1 - UINT
  BY <1>1, PlusIs, PlusType
<1> QED BY <1>2, MinusIs, Sizes

\* An erased character moves e back.
LEMMA StepDown ==
  ASSUME NEW i \in UInts, NEW k \in UInts, i # k
  PROVE  plus(i, UINT - 1) \in UInts /\ minus(plus(i, UINT - 1), k) = minus(i, k) - 1
<1>1. UINT - 1 \in UInts
  BY Sizes DEF UInts
<1>2. plus(i, UINT - 1) \in UInts /\ plus(i, UINT - 1) = IF i + (UINT - 1) < UINT THEN i + (UINT - 1)
                                                        ELSE i + (UINT - 1) - UINT
  BY <1>1, PlusIs, PlusType
<1>3. minus(i, k) = IF i >= k THEN i - k ELSE i + UINT - k
  BY MinusIs
<1>4. minus(plus(i, UINT - 1), k) = IF plus(i, UINT - 1) >= k THEN plus(i, UINT - 1) - k
                                                            ELSE plus(i, UINT - 1) + UINT - k
  BY <1>2, MinusIs
<1> QED BY <1>2, <1>3, <1>4, Sizes

\* A delivered character moves r on, towards w and e.
LEMMA StepTowards ==
  ASSUME NEW i \in UInts, NEW k \in UInts, i # k
  PROVE  plus(k, 1) \in UInts /\ minus(i, plus(k, 1)) = minus(i, k) - 1
<1>1. 1 \in UInts
  BY Sizes DEF UInts
<1>2. plus(k, 1) \in UInts /\ plus(k, 1) = IF k + 1 < UINT THEN k + 1 ELSE k + 1 - UINT
  BY <1>1, PlusIs, PlusType
<1> QED BY <1>2, MinusIs, Sizes

\* Indices at the same distance are the same.
LEMMA SameDistance ==
  ASSUME NEW i \in UInts, NEW j \in UInts, NEW k \in UInts
  PROVE  /\ minus(i, k) = minus(j, k) <=> i = j
         /\ minus(k, k) = 0
         /\ minus(j, k) <= minus(i, k) => minus(i, j) = minus(i, k) - minus(j, k)
<1>1. minus(i, k) = IF i >= k THEN i - k ELSE i + UINT - k
  BY MinusIs
<1>2. minus(j, k) = IF j >= k THEN j - k ELSE j + UINT - k
  BY MinusIs
<1>3. minus(i, j) = IF i >= j THEN i - j ELSE i + UINT - j
  BY MinusIs
<1>4. minus(k, k) = 0
  BY MinusIs, Sizes
<1> QED BY <1>1, <1>2, <1>3, <1>4, Sizes

-----------------------------------------------------------------------------
(* The invariant *)

\* The actors are different.
LEMMA ActorFacts ==
  /\ Kbd \in Actors /\ Cpu \in Actors /\ Readers \subseteq Actors /\ Writers \subseteq Actors
  /\ Kbd # Cpu /\ NoOne \notin Actors
  /\ Kbd \notin Readers /\ Kbd \notin Writers /\ Cpu \notin Readers /\ Cpu \notin Writers
BY ConsoleConstants DEF Actors

\* The cases of Next.
LEMMA Cases ==
  ASSUME Next
  PROVE  \/ intrAcquire \/ intrErase \/ intrKill \/ intrKillEnd \/ intrDump \/ intrRelease
         \/ \E c \in Chars : intrChar(c)
         \/ \E p \in Readers :
              \/ \E size \in ReadSizes : consoleread(p, size)
              \/ readAcquire(p) \/ readChar(p) \/ readWait(p) \/ readSleep(p) \/ kill(p)
         \/ \E p \in Writers : writeAcquire(p) \/ writeEnd(p)
         \/ \E a \in {Kbd, Cpu} : cprintf(a) \/ cprintfAcquire(a) \/ cprintfEnd(a)
         \/ \E a \in Writers \cup {Kbd, Cpu} : consputc(a)
         \/ panic \/ panicEnd
BY DEF Next

\* Three steps touch the ring.
LEMMA InputCases ==
  ASSUME Next
  PROVE  \/ UNCHANGED input
         \/ intrErase
         \/ \E c \in Chars : intrChar(c)
         \/ \E p \in Readers : readChar(p)
BY Cases, Zenon DEF intrAcquire, intrKill, intrKillEnd, intrDump, intrRelease, consoleread,
     readAcquire, readWait, readSleep, kill, writeAcquire, writeEnd, cprintf, cprintfAcquire,
     cprintfEnd, consputc, panic, panicEnd

\* What a typed character does to the indices.
LEMMA TypedIndices ==
  ASSUME RingInv, Room
  PROVE  /\ plus(e, 1) \in UInts
         /\ minus(plus(e, 1), r) = minus(e, r) + 1
         /\ minus(plus(e, 1), w) = minus(e, w) + 1
         /\ minus(e, r) \in 0..(INPUT_BUF - 1) /\ minus(w, r) \in 0..minus(e, r)
         /\ minus(e, w) = minus(e, r) - minus(w, r)
<1>1. r \in UInts /\ w \in UInts /\ e \in UInts
  BY DEF RingInv
<1>2. minus(e, r) \in Nat /\ minus(w, r) \in Nat /\ minus(e, w) = minus(e, r) - minus(w, r)
  BY <1>1, PlusType, SameDistance, Sizes DEF RingInv
<1>3. minus(e, r) < INPUT_BUF /\ minus(w, r) <= minus(e, r)
  BY DEF RingInv, Room
<1>4. minus(e, r) < UINT - 1 /\ minus(e, w) < UINT - 1
  BY <1>2, <1>3, Sizes
<1>5. plus(e, 1) \in UInts /\ minus(plus(e, 1), r) = minus(e, r) + 1
  BY <1>1, <1>4, StepUp
<1>6. minus(plus(e, 1), w) = minus(e, w) + 1
  BY <1>1, <1>4, StepUp
<1> QED BY <1>2, <1>3, <1>5, <1>6, Sizes

\* Every step keeps the indices in order.
LEMMA RingStep ==
  ASSUME ConsInv, Next
  PROVE  RingInv'
<1>0. RingInv /\ r \in UInts /\ w \in UInts /\ e \in UInts /\ minus(e, r) \in Nat /\ minus(w, r) \in Nat
  BY PlusType, Sizes DEF ConsInv, RingInv
<1>1. CASE UNCHANGED input
  BY <1>0, <1>1 DEF RingInv, input, minus
<1>2. CASE intrErase
  <2>1. e # w /\ e' = plus(e, UINT - 1) /\ UNCHANGED <<buf, r, w>>
    BY <1>2 DEF intrErase, Editable
  <2>2. minus(w, r) # minus(e, r) /\ minus(w, r) <= minus(e, r) /\ minus(e, r) <= INPUT_BUF
    BY <2>1, <1>0, SameDistance DEF RingInv
  <2>3. e # r
    BY <2>2, <1>0, SameDistance
  <2>4. e' \in UInts /\ minus(e', r) = minus(e, r) - 1
    BY <2>1, <2>3, <1>0, StepDown
  <2>5. minus(w, r) <= minus(e', r) /\ minus(e', r) <= INPUT_BUF
    BY <2>2, <2>4, <1>0, Sizes
  <2> QED BY <2>1, <2>4, <2>5, <1>0 DEF RingInv, minus
<1>3. ASSUME NEW c \in Chars, intrChar(c) PROVE RingInv'
  <2>1. /\ Room /\ e' = plus(e, 1) /\ (w' = e' \/ w' = w) /\ r' = r
        /\ buf' = [buf EXCEPT ![slot(e)] = c]
    BY <1>3 DEF intrChar
  <2>2. e' \in UInts /\ w' \in UInts /\ minus(e', r) = minus(e, r) + 1 /\ minus(e, r) < INPUT_BUF
    BY <2>1, <1>0, TypedIndices, Sizes
  <2>3. minus(w', r) <= minus(e', r) /\ minus(e', r) <= INPUT_BUF
    BY <2>1, <2>2, <1>0, Sizes DEF RingInv
  <2>4. buf' \in [0..(INPUT_BUF - 1) -> Chars]
    BY <2>1, <1>0, Zenon DEF RingInv
  <2> QED BY <2>1, <2>2, <2>3, <2>4, <1>0 DEF RingInv, minus
<1>4. ASSUME NEW p \in Readers, readChar(p) PROVE RingInv'
  <2>1. r # w /\ (r' = r \/ r' = plus(r, 1)) /\ UNCHANGED <<buf, w, e>>
    BY <1>4 DEF readChar
  <2>2. minus(w, r) # 0 /\ e # r
    BY <2>1, <1>0, SameDistance DEF RingInv
  <2>3. plus(r, 1) \in UInts /\ minus(w, plus(r, 1)) = minus(w, r) - 1
        /\ minus(e, plus(r, 1)) = minus(e, r) - 1
    BY <2>1, <2>2, <1>0, StepTowards
  <2>4. minus(w, r') <= minus(e, r') /\ minus(e, r') <= INPUT_BUF /\ r' \in UInts
    BY <2>1, <2>3, <1>0, Sizes DEF RingInv
  <2> QED BY <2>1, <2>4, <1>0 DEF RingInv, minus
<1> QED BY <1>1, <1>2, <1>3, <1>4, InputCases

\* Every step keeps the types of the processes.
LEMMA ProcStep ==
  ASSUME ConsInv, Next
  PROVE  ProcInv'
<1>0. /\ ProcInv /\ ReadInv /\ Kbd \in Actors /\ Cpu \in Actors
      /\ Readers \subseteq Actors /\ Writers \subseteq Actors
      /\ ReadSizes \subseteq Nat /\ MsgLen \in Nat
  BY ActorFacts, ConsoleConstants DEF ConsInv
<1>a. ASSUME NEW p \in Readers, readEnd(p), UNCHANGED <<output, dump>> PROVE ProcInv'
  BY <1>a, <1>0 DEF readEnd, release, goto, output, ProcInv, Labels
<1>1. CASE intrAcquire
  BY <1>1, <1>0 DEF intrAcquire, acquire, at, goto, output, reading, ProcInv, Labels
<1>2. CASE intrErase
  BY <1>2, <1>0 DEF intrErase, output, reading, ProcInv, Labels
<1>3. CASE intrKill
  BY <1>3, <1>0 DEF intrKill, at, goto, output, reading, ProcInv, Labels
<1>4. CASE intrKillEnd
  BY <1>4, <1>0 DEF intrKillEnd, at, goto, output, reading, ProcInv, Labels
<1>5. CASE intrDump
  BY <1>5, <1>0 DEF intrDump, at, output, reading, ProcInv, Labels
<1>6. CASE intrRelease
  BY <1>6, <1>0, Zenon DEF intrRelease, release, at, goto, output, reading, ProcInv, Labels
<1>7. ASSUME NEW c \in Chars, intrChar(c) PROVE ProcInv'
  BY <1>7, <1>0 DEF intrChar, wakeup, at, output, reading, ProcInv, Labels
<1>8. ASSUME NEW p \in Readers, NEW size \in ReadSizes, consoleread(p, size) PROVE ProcInv'
  BY <1>8, <1>0 DEF consoleread, at, goto, output, ProcInv, Labels
<1>9. ASSUME NEW p \in Readers, readAcquire(p) PROVE ProcInv'
  BY <1>9, <1>0 DEF readAcquire, acquire, at, goto, output, reading, ProcInv, Labels
<1>10. ASSUME NEW p \in Readers, readChar(p) PROVE ProcInv'
  <2>1. /\ at(p, "loop") /\ UNCHANGED <<output, dump>>
        /\ \/ readEnd(p)
           \/ n[p] # 1 /\ n' = [n EXCEPT ![p] = n[p] - 1] /\ UNCHANGED <<target, killed, lock, pc>>
    BY <1>10 DEF readChar
  <2>2. n[p] \in Nat \ {0}
    BY <2>1, <1>0 DEF at, ReadInv, ProcInv
  <2>3. CASE n' = [n EXCEPT ![p] = n[p] - 1] /\ UNCHANGED <<target, killed, lock, pc>>
    BY <2>1, <2>2, <2>3, <1>0 DEF output, ProcInv
  <2> QED BY <2>1, <2>3, <1>a
<1>11. ASSUME NEW p \in Readers, readWait(p) PROVE ProcInv'
  <2>1. /\ UNCHANGED <<output, dump>>
        /\ readEnd(p) \/ (goto(p, "sleep") /\ UNCHANGED <<reading, lock>>)
    BY <1>11 DEF readWait
  <2>2. CASE goto(p, "sleep") /\ UNCHANGED <<reading, lock>>
    BY <2>1, <2>2, <1>0 DEF goto, output, reading, ProcInv, Labels
  <2> QED BY <2>1, <2>2, <1>a
<1>12. ASSUME NEW p \in Readers, readSleep(p) PROVE ProcInv'
  BY <1>12, <1>0 DEF readSleep, release, at, goto, output, reading, ProcInv, Labels
<1>13. ASSUME NEW p \in Readers, kill(p) PROVE ProcInv'
  BY <1>13, <1>0 DEF kill, at, goto, output, ProcInv, Labels
<1>14. ASSUME NEW p \in Writers, writeAcquire(p) PROVE ProcInv'
  BY <1>14, <1>0 DEF writeAcquire, acquire, at, goto, reading, ProcInv, Labels
<1>15. ASSUME NEW p \in Writers, writeEnd(p) PROVE ProcInv'
  BY <1>15, <1>0 DEF writeEnd, release, at, goto, reading, ProcInv, Labels
<1>16. ASSUME NEW a \in {Kbd, Cpu}, cprintf(a) PROVE ProcInv'
  BY <1>16, <1>0 DEF cprintf, at, goto, reading, ProcInv, Labels
<1>17. ASSUME NEW a \in {Kbd, Cpu}, cprintfAcquire(a) PROVE ProcInv'
  BY <1>17, <1>0 DEF cprintfAcquire, acquire, at, goto, output, reading, ProcInv, Labels
<1>18. ASSUME NEW a \in {Kbd, Cpu}, cprintfEnd(a) PROVE ProcInv'
  BY <1>18, <1>0 DEF cprintfEnd, release, at, goto, reading, ProcInv, Labels
<1>19. ASSUME NEW a \in Writers \cup {Kbd, Cpu}, consputc(a) PROVE ProcInv'
  BY <1>19, <1>0 DEF consputc, at, reading, ProcInv, Labels
<1>20. CASE panic
  BY <1>20, <1>0, Zenon DEF panic, at, goto, reading, ProcInv, Labels
<1>21. CASE panicEnd
  BY <1>21, <1>0 DEF panicEnd, at, goto, reading, ProcInv, Labels
<1> QED BY <1>1, <1>2, <1>3, <1>4, <1>5, <1>6, <1>7, <1>8, <1>9, <1>10, <1>11, <1>12, <1>13,
    <1>14, <1>15, <1>16, <1>17, <1>18, <1>19, <1>20, <1>21, Cases

\* No step ends a line beside a reader that goes on sleeping.
LEMMA ReadStep ==
  ASSUME ConsInv, Next
  PROVE  ReadInv'
<1>0. ProcInv /\ ReadInv /\ LockInv /\ ReadSizes \subseteq Nat \ {0}
  BY ConsoleConstants DEF ConsInv
<1>1. CASE intrAcquire
  BY <1>1, <1>0, ActorFacts DEF intrAcquire, acquire, at, goto, input, reading, ProcInv, ReadInv
<1>2. CASE intrErase
  BY <1>2, <1>0, ActorFacts DEF intrErase, reading, ProcInv, ReadInv
<1>3. CASE intrKill
  BY <1>3, <1>0, ActorFacts DEF intrKill, at, goto, input, reading, ProcInv, ReadInv
<1>4. CASE intrKillEnd
  BY <1>4, <1>0, ActorFacts DEF intrKillEnd, at, goto, input, reading, ProcInv, ReadInv
<1>5. CASE intrDump
  BY <1>5, <1>0, ActorFacts DEF intrDump, at, input, reading, ProcInv, ReadInv
<1>6. CASE intrRelease
  BY <1>6, <1>0, ActorFacts DEF intrRelease, release, at, goto, input, reading, ProcInv, ReadInv
<1>7. ASSUME NEW c \in Chars, intrChar(c) PROVE ReadInv'
  <2>1. \A p \in Readers : pc[p] # "sleep"
    BY <1>7, <1>0, ActorFacts DEF intrChar, at, LockInv, InSection
  <2>2. r' = r /\ n' = n /\ ((w' = w /\ pc' = pc) \/ wakeup)
    BY <1>7 DEF intrChar, reading
  <2> QED BY <2>1, <2>2, <1>0, ActorFacts DEF wakeup, ProcInv, ReadInv
<1>8. ASSUME NEW p \in Readers, NEW size \in ReadSizes, consoleread(p, size) PROVE ReadInv'
  BY <1>8, <1>0, ActorFacts DEF consoleread, at, goto, input, ProcInv, ReadInv
<1>9. ASSUME NEW p \in Readers, readAcquire(p) PROVE ReadInv'
  BY <1>9, <1>0, ActorFacts DEF readAcquire, acquire, at, goto, input, reading, ProcInv, ReadInv
<1>10. ASSUME NEW p \in Readers, readChar(p) PROVE ReadInv'
  <2>1. \A q \in Readers : pc[q] \notin {"sleep", "asleep"}
    BY <1>10, <1>0 DEF readChar, ReadInv
  <2>2. pc[p] = "loop" /\ \/ pc' = [pc EXCEPT ![p] = "idle"] /\ n' = [n EXCEPT ![p] = 0]
                          \/ pc' = pc /\ n[p] # 1 /\ n' = [n EXCEPT ![p] = n[p] - 1]
    BY <1>10 DEF readChar, readEnd, release, at, goto
  <2>3. n[p] \in Nat \ {0}
    BY <2>2, <1>0 DEF ReadInv, ProcInv
  <2> QED BY <2>1, <2>2, <2>3, <1>0, ActorFacts DEF ProcInv, ReadInv
<1>11. ASSUME NEW p \in Readers, readWait(p) PROVE ReadInv'
  BY <1>11, <1>0, ActorFacts DEF readWait, readEnd, release, at, goto, input, reading, ProcInv,
    ReadInv
<1>12. ASSUME NEW p \in Readers, readSleep(p) PROVE ReadInv'
  BY <1>12, <1>0, ActorFacts DEF readSleep, release, at, goto, input, reading, ProcInv, ReadInv
<1>13. ASSUME NEW p \in Readers, kill(p) PROVE ReadInv'
  BY <1>13, <1>0, ActorFacts DEF kill, at, goto, input, ProcInv, ReadInv
<1>14. ASSUME NEW p \in Writers, writeAcquire(p) PROVE ReadInv'
  BY <1>14, <1>0, ActorFacts DEF writeAcquire, acquire, at, goto, input, reading, ProcInv, ReadInv
<1>15. ASSUME NEW p \in Writers, writeEnd(p) PROVE ReadInv'
  BY <1>15, <1>0, ActorFacts DEF writeEnd, release, at, goto, input, reading, ProcInv, ReadInv
<1>16. ASSUME NEW a \in {Kbd, Cpu}, cprintf(a) PROVE ReadInv'
  BY <1>16, <1>0, ActorFacts DEF cprintf, at, goto, input, reading, ProcInv, ReadInv
<1>17. ASSUME NEW a \in {Kbd, Cpu}, cprintfAcquire(a) PROVE ReadInv'
  BY <1>17, <1>0, ActorFacts DEF cprintfAcquire, acquire, at, goto, input, reading, ProcInv,
    ReadInv
<1>18. ASSUME NEW a \in {Kbd, Cpu}, cprintfEnd(a) PROVE ReadInv'
  BY <1>18, <1>0, ActorFacts DEF cprintfEnd, release, at, goto, input, reading, ProcInv, ReadInv
<1>19. ASSUME NEW a \in Writers \cup {Kbd, Cpu}, consputc(a) PROVE ReadInv'
  BY <1>19, <1>0, ActorFacts DEF consputc, at, input, reading, ProcInv, ReadInv
<1>20. CASE panic
  BY <1>20, <1>0, ActorFacts DEF panic, at, goto, input, reading, ProcInv, ReadInv
<1>21. CASE panicEnd
  BY <1>21, <1>0, ActorFacts DEF panicEnd, at, goto, input, reading, ProcInv, ReadInv
<1> QED BY <1>1, <1>2, <1>3, <1>4, <1>5, <1>6, <1>7, <1>8, <1>9, <1>10, <1>11, <1>12, <1>13,
    <1>14, <1>15, <1>16, <1>17, <1>18, <1>19, <1>20, <1>21, Cases

\* Every step keeps the lock with its user.
LEMMA LockStep ==
  ASSUME ConsInv, Next
  PROVE  LockInv'
<1>0. ProcInv /\ LockInv
  BY DEF ConsInv
<1>1. CASE intrAcquire
  BY <1>1, <1>0, ActorFacts DEF intrAcquire, acquire, at, goto, output, ProcInv, LockInv,
    InSection
<1>2. CASE intrErase
  BY <1>2, <1>0, ActorFacts DEF intrErase, output, at, ProcInv, LockInv, InSection
<1>3. CASE intrKill
  BY <1>3, <1>0, ActorFacts DEF intrKill, at, goto, output, ProcInv, LockInv, InSection
<1>4. CASE intrKillEnd
  BY <1>4, <1>0, ActorFacts DEF intrKillEnd, at, goto, output, ProcInv, LockInv, InSection
<1>5. CASE intrDump
  BY <1>5, <1>0, ActorFacts DEF intrDump, at, output, ProcInv, LockInv, InSection
<1>6. CASE intrRelease
  BY <1>6, <1>0, ActorFacts DEF intrRelease, release, at, goto, output, ProcInv, LockInv,
    InSection
<1>7. ASSUME NEW c \in Chars, intrChar(c) PROVE LockInv'
  BY <1>7, <1>0, ActorFacts DEF intrChar, wakeup, at, output, ProcInv, LockInv, InSection
<1>8. ASSUME NEW p \in Readers, NEW size \in ReadSizes, consoleread(p, size) PROVE LockInv'
  BY <1>8, <1>0, ActorFacts DEF consoleread, at, goto, output, ProcInv, LockInv, InSection
<1>9. ASSUME NEW p \in Readers, readAcquire(p) PROVE LockInv'
  BY <1>9, <1>0, ActorFacts DEF readAcquire, acquire, at, goto, output, ProcInv, LockInv,
    InSection
<1>10. ASSUME NEW p \in Readers, readChar(p) PROVE LockInv'
  BY <1>10, <1>0, ActorFacts DEF readChar, readEnd, release, at, goto, output, ProcInv, LockInv,
    InSection
<1>11. ASSUME NEW p \in Readers, readWait(p) PROVE LockInv'
  BY <1>11, <1>0, ActorFacts DEF readWait, readEnd, release, at, goto, output, ProcInv, LockInv,
    InSection
<1>12. ASSUME NEW p \in Readers, readSleep(p) PROVE LockInv'
  BY <1>12, <1>0, ActorFacts DEF readSleep, release, at, goto, output, ProcInv, LockInv, InSection
<1>13. ASSUME NEW p \in Readers, kill(p) PROVE LockInv'
  BY <1>13, <1>0, ActorFacts DEF kill, at, goto, output, ProcInv, LockInv, InSection
<1>14. ASSUME NEW p \in Writers, writeAcquire(p) PROVE LockInv'
  BY <1>14, <1>0, ActorFacts DEF writeAcquire, acquire, at, goto, ProcInv, LockInv, InSection
<1>15. ASSUME NEW p \in Writers, writeEnd(p) PROVE LockInv'
  BY <1>15, <1>0, ActorFacts DEF writeEnd, release, at, goto, ProcInv, LockInv, InSection
<1>16. ASSUME NEW a \in {Kbd, Cpu}, cprintf(a) PROVE LockInv'
  BY <1>16, <1>0, ActorFacts DEF cprintf, at, goto, ProcInv, LockInv, InSection
<1>17. ASSUME NEW a \in {Kbd, Cpu}, cprintfAcquire(a) PROVE LockInv'
  BY <1>17, <1>0, ActorFacts DEF cprintfAcquire, acquire, at, goto, output, ProcInv, LockInv,
    InSection
<1>18. ASSUME NEW a \in {Kbd, Cpu}, cprintfEnd(a) PROVE LockInv'
  BY <1>18, <1>0, ActorFacts DEF cprintfEnd, release, at, goto, ProcInv, LockInv, InSection
<1>19. ASSUME NEW a \in Writers \cup {Kbd, Cpu}, consputc(a) PROVE LockInv'
  BY <1>19, <1>0, ActorFacts DEF consputc, at, ProcInv, LockInv, InSection
<1>20. CASE panic
  BY <1>20, <1>0, ActorFacts DEF panic, at, goto, ProcInv, LockInv, InSection
<1>21. CASE panicEnd
  BY <1>21, <1>0, ActorFacts DEF panicEnd, at, goto, ProcInv, LockInv, InSection
<1> QED BY <1>1, <1>2, <1>3, <1>4, <1>5, <1>6, <1>7, <1>8, <1>9, <1>10, <1>11, <1>12, <1>13,
    <1>14, <1>15, <1>16, <1>17, <1>18, <1>19, <1>20, <1>21, Cases

\* consoleinit.
LEMMA InitConsInv == Init => ConsInv
<1> SUFFICES ASSUME Init PROVE ConsInv
  OBVIOUS
<1>1. r = 0 /\ w = 0 /\ e = 0 /\ 0 \in UInts /\ minus(0, 0) = 0
  <2>1. 0 \in UInts
    BY Sizes DEF UInts
  <2> QED BY <2>1, SameDistance DEF Init
<1>2. RingInv
  BY <1>1, Sizes DEF Init, RingInv, Chars
<1>3. ProcInv
  BY Zenon DEF Init, ProcInv, Labels
<1>4. \A a \in Actors : pc[a] = "idle" /\ lock # a
  BY ActorFacts DEF Init
<1>5. ReadInv /\ LockInv
  BY <1>1, <1>4, ActorFacts DEF ReadInv, LockInv, InSection, at
<1> QED BY <1>2, <1>3, <1>5 DEF ConsInv

\* The inductive invariant of the console.
THEOREM ConsoleInvariance == Spec => []ConsInv
<1>1. ASSUME ConsInv, Next PROVE ConsInv'
  BY <1>1, RingStep, ProcStep, ReadStep, LockStep DEF ConsInv
<1>2. ASSUME ConsInv, UNCHANGED vars PROVE ConsInv'
  <2>1. /\ UNCHANGED <<buf, r, w, e, lock, locking, panicked, pc, n, target, left, locks>>
        /\ UNCHANGED <<dump, killed>>
    BY <1>2 DEF vars, input, output, reading
  <2>2. RingInv' /\ ProcInv'
    BY <1>2, <2>1 DEF ConsInv, RingInv, ProcInv, minus
  <2>3. ReadInv' /\ LockInv'
    BY <1>2, <2>1 DEF ConsInv, ReadInv, LockInv, InSection, at
  <2> QED BY <2>2, <2>3 DEF ConsInv
<1>3. ConsInv /\ [Next]_vars => ConsInv'
  BY <1>1, <1>2
<1> QED BY InitConsInv, <1>3, PTL DEF Spec

\* cons.lock is always held by the one who is between its acquire and its
\* release, also across a panic().
THEOREM LockHasOneUser == Spec => []LockHeldByUser
<1>1. ConsInv => LockHeldByUser
  BY DEF ConsInv, RingInv, ProcInv, LockInv, LockHeldByUser, TypeOK, UInts
<1> QED BY <1>1, ConsoleInvariance, PTL

\* No reader sleeps beside an ended line.
THEOREM NoLostLine == Spec => []SleeperHasNoInput
<1>1. ConsInv => SleeperHasNoInput
  BY DEF ConsInv, ReadInv, SleeperHasNoInput, at
<1> QED BY <1>1, ConsoleInvariance, PTL

-----------------------------------------------------------------------------
(* The characters between two indices *)

\* Between, of any content b of the ring.
Seg(b, i, k) == [j \in 1..minus(k, i) |-> b[slot(plus(i, j - 1))]]

Rings == [0..(INPUT_BUF - 1) -> Chars]

\* Every index is some distance after every other.
LEMMA PlusMinus ==
  ASSUME NEW i \in UInts, NEW k \in UInts
  PROVE  plus(i, minus(k, i)) = k
<1>1. minus(k, i) = IF k >= i THEN k - i ELSE k + UINT - i
  BY MinusIs
<1>2. plus(i, minus(k, i)) = IF i + minus(k, i) < UINT THEN i + minus(k, i)
                                                        ELSE i + minus(k, i) - UINT
  BY PlusIs, PlusType
<1> QED BY <1>1, <1>2, Sizes

\* Distances add up.
LEMMA PlusShift ==
  ASSUME NEW i \in UInts, NEW k \in UInts, NEW j \in UInts, minus(k, i) + j < UINT
  PROVE  plus(i, minus(k, i) + j) = plus(k, j)
<1>1. minus(k, i) = IF k >= i THEN k - i ELSE k + UINT - i
  BY MinusIs
<1>2. minus(k, i) + j \in UInts
  BY <1>1, Sizes DEF UInts
<1>3. plus(i, minus(k, i) + j) = IF i + (minus(k, i) + j) < UINT THEN i + (minus(k, i) + j)
                                                                  ELSE i + (minus(k, i) + j) - UINT
  BY <1>2, PlusIs
<1>4. plus(k, j) = IF k + j < UINT THEN k + j ELSE k + j - UINT
  BY PlusIs
<1> QED BY <1>1, <1>3, <1>4, Sizes

\* The place of an index in the ring, counted from another.
LEMMA SlotOf ==
  ASSUME NEW i \in UInts, NEW d \in UInts
  PROVE  slot(plus(i, d)) = (i + d) % INPUT_BUF /\ slot(plus(i, d)) \in 0..(INPUT_BUF - 1)
<1>1. plus(i, d) = i + d \/ plus(i, d) = (i + d) - UINT
  <2>1. plus(i, d) = IF i + d < UINT THEN i + d ELSE i + d - UINT
    BY PlusIs
  <2> QED BY <2>1, Sizes
<1>2. i + d \in Int /\ plus(i, d) \in Int
  BY PlusType, Sizes
<1>3. ((i + d) - UINT) % INPUT_BUF = (i + d) % INPUT_BUF
  BY <1>2, Sizes, SlotWrap, Zenon
<1>4. plus(i, d) % INPUT_BUF \in 0..(INPUT_BUF - 1)
  BY <1>2, Sizes, DivMod, Zenon
<1> QED BY <1>1, <1>3, <1>4 DEF slot

\* The characters are a sequence.
LEMMA SegFacts ==
  ASSUME NEW b \in Rings, NEW i \in UInts, NEW k \in UInts
  PROVE  /\ Seg(b, i, k) \in Seq(Chars) /\ Len(Seg(b, i, k)) = minus(k, i) /\ minus(k, i) \in Nat
         /\ \A j \in 1..minus(k, i) : Seg(b, i, k)[j] = b[slot(plus(i, j - 1))]
<1>1. minus(k, i) \in Nat /\ minus(k, i) < UINT
  BY PlusType, Sizes
<1>2. ASSUME NEW j \in 1..minus(k, i) PROVE b[slot(plus(i, j - 1))] \in Chars
  <2>1. j - 1 \in UInts
    BY <1>1, Sizes DEF UInts
  <2> QED BY <2>1, SlotOf DEF Rings
<1>3. Seg(b, i, k) \in [1..minus(k, i) -> Chars]
  BY <1>2 DEF Seg
<1>4. \A j \in 1..minus(k, i) : Seg(b, i, k)[j] = b[slot(plus(i, j - 1))]
  BY DEF Seg
<1>5. Seg(b, i, k) \in Seq(Chars)
  BY <1>1, <1>3, SeqDef
<1>6. Len(Seg(b, i, k)) = minus(k, i)
  BY <1>1, <1>3, <1>5, LenProperties
<1> QED BY <1>1, <1>4, <1>5, <1>6

\* Adjacent parts of the ring.
LEMMA SegSplit ==
  ASSUME NEW b \in Rings, NEW i \in UInts, NEW k \in UInts, NEW l \in UInts,
         minus(k, i) <= minus(l, i)
  PROVE  Seg(b, i, l) = Seg(b, i, k) \o Seg(b, k, l)
<1> DEFINE x == Seg(b, i, k)
           y == Seg(b, k, l)
           z == Seg(b, i, l)
           m == minus(k, i)
<1>1. /\ m \in Nat /\ minus(l, i) \in Nat /\ minus(l, i) < UINT /\ minus(l, k) = minus(l, i) - m
  BY PlusType, SameDistance, Sizes
<1>2. x \in Seq(Chars) /\ Len(x) = m /\ \A j \in 1..m : x[j] = b[slot(plus(i, j - 1))]
  BY SegFacts, Zenon
<1>3. y \in Seq(Chars) /\ Len(y) = minus(l, k)
      /\ \A j \in 1..minus(l, k) : y[j] = b[slot(plus(k, j - 1))]
  BY SegFacts
<1>4. z \in Seq(Chars) /\ Len(z) = minus(l, i)
      /\ \A j \in 1..minus(l, i) : z[j] = b[slot(plus(i, j - 1))]
  BY SegFacts
<1> HIDE DEF x, y, z
<1>5. x \o y \in Seq(Chars) /\ Len(x \o y) = minus(l, i)
      /\ \A j \in 1..minus(l, i) : (x \o y)[j] = IF j <= m THEN x[j] ELSE y[j - m]
  <2>1. Len(x) + Len(y) = minus(l, i)
    BY <1>1, <1>2, <1>3
  <2>2. /\ x \o y \in Seq(Chars) /\ Len(x \o y) = Len(x) + Len(y)
        /\ \A j \in 1..(Len(x) + Len(y)) : (x \o y)[j] = IF j <= Len(x) THEN x[j] ELSE y[j - Len(x)]
    BY <1>2, <1>3, ConcatProperties, Zenon
  <2> QED BY <2>1, <2>2, <1>2
<1>6. ASSUME NEW j \in 1..minus(l, i) PROVE z[j] = (x \o y)[j]
  <2>1. CASE j <= m
    <3>1. j \in 1..m
      BY <1>1, <2>1
    <3> QED BY <3>1, <2>1, <1>2, <1>4, <1>5
  <2>2. CASE ~(j <= m)
    <3>1. j - m \in 1..minus(l, k) /\ (j - m) - 1 \in UInts /\ m + ((j - m) - 1) < UINT
          /\ m + ((j - m) - 1) = j - 1
      BY <1>1, <2>2, Sizes DEF UInts
    <3>2. plus(i, j - 1) = plus(k, (j - m) - 1)
      BY <3>1, PlusShift
    <3> QED BY <3>1, <3>2, <2>2, <1>3, <1>4, <1>5
  <2> QED BY <2>1, <2>2, Zenon
<1>7. z = x \o y
  BY <1>4, <1>5, <1>6, SeqEqual
<1> QED BY <1>7 DEF x, y, z

\* A character stored at e leaves what is within the ring behind e alone.
LEMMA SegStore ==
  ASSUME NEW b \in Rings, NEW c \in Chars, NEW i \in UInts, NEW k \in UInts, NEW l \in UInts,
         minus(k, i) <= minus(l, i), minus(l, i) < INPUT_BUF
  PROVE  Seg([b EXCEPT ![slot(l)] = c], i, k) = Seg(b, i, k)
<1> DEFINE d == minus(l, i)
<1>1. d \in UInts /\ minus(k, i) \in UInts
  BY PlusType
<1>2. slot(l) = (i + d) % INPUT_BUF
  BY <1>1, PlusMinus, SlotOf
<1> HIDE DEF d
<1>3. ASSUME NEW j \in 1..minus(k, i)
      PROVE  [b EXCEPT ![slot(l)] = c][slot(plus(i, j - 1))] = b[slot(plus(i, j - 1))]
  <2>1. j - 1 \in UInts /\ j - 1 \in 0..(INPUT_BUF - 1) /\ d \in 0..(INPUT_BUF - 1) /\ j - 1 # d
        /\ i \in Nat
    BY <1>1, Sizes DEF UInts, d
  <2>2. slot(plus(i, j - 1)) = (i + (j - 1)) % INPUT_BUF
        /\ slot(plus(i, j - 1)) \in 0..(INPUT_BUF - 1)
    BY <2>1, SlotOf
  <2>3. (i + (j - 1)) % INPUT_BUF # (i + d) % INPUT_BUF
    BY <2>1, Sizes, DistinctSlots, Zenon
  <2> QED BY <2>2, <2>3, <1>2 DEF Rings
<1> QED BY <1>3, Zenon DEF Seg

\* The place of an index is in the ring.
LEMMA SlotType ==
  ASSUME NEW i \in UInts
  PROVE  slot(i) \in 0..(INPUT_BUF - 1)
<1>1. i \in Int /\ INPUT_BUF \in Nat \ {0}
  BY Sizes
<1>2. i % INPUT_BUF \in 0..(INPUT_BUF - 1)
  BY <1>1
<1> QED BY <1>2 DEF slot

\* The distance to an index moved on by d is d.
LEMMA MinusPlus ==
  ASSUME NEW i \in UInts, NEW d \in UInts
  PROVE  minus(plus(i, d), i) = d
<1>1. plus(i, d) = IF i + d < UINT THEN i + d ELSE i + d - UINT
  BY PlusIs
<1>2. minus(plus(i, d), i) = IF plus(i, d) >= i THEN plus(i, d) - i ELSE plus(i, d) + UINT - i
  BY MinusIs, PlusType
<1> QED BY <1>1, <1>2, Sizes

\* Nothing is between an index and itself.
LEMMA SegEmpty ==
  ASSUME NEW b \in Rings, NEW i \in UInts
  PROVE  Seg(b, i, i) = <<>>
BY SegFacts, SameDistance

\* One character is between an index and the next.
LEMMA SegOne ==
  ASSUME NEW b \in Rings, NEW i \in UInts
  PROVE  Seg(b, i, plus(i, 1)) = <<b[slot(i)]>>
<1>1. 1 \in UInts /\ 0 \in UInts /\ plus(i, 1) \in UInts
  BY Sizes, PlusType DEF UInts
<1>2. minus(plus(i, 1), i) = 1
  BY <1>1, MinusPlus
<1>3. plus(i, 0) = i
  <2>1. plus(i, 0) = IF i + 0 < UINT THEN i + 0 ELSE i + 0 - UINT
    BY <1>1, PlusIs
  <2> QED BY <2>1, Sizes
<1>4. Seg(b, i, plus(i, 1)) = [j \in 1..1 |-> b[slot(plus(i, j - 1))]]
  BY <1>2 DEF Seg
<1>5. Seg(b, i, plus(i, 1)) \in Seq(Chars) /\ Len(Seg(b, i, plus(i, 1))) = 1
  BY <1>1, <1>2, SegFacts, Zenon
<1>6. Seg(b, i, plus(i, 1))[1] = b[slot(i)]
  BY <1>3, <1>4
<1> QED BY <1>5, <1>6

-----------------------------------------------------------------------------
(* The ring implements the terminal line *)

\* A typed character joins the line being edited, and ends it or not.
LEMMA TypeRefines ==
  ASSUME ConsInv, NEW c \in Chars, intrChar(c)
  PROVE  T!Type(c)
<1> DEFINE b == [buf EXCEPT ![slot(e)] = c]
           f == plus(e, 1)
           lines == Seg(buf, r, w)
           edit == Seg(buf, w, e)
<1>1. /\ Room /\ buf' = b /\ e' = f /\ r' = r
      /\ \/ Ends(c) /\ w' = f
         \/ ~Ends(c) /\ w' = w
  BY DEF intrChar
<1>2. RingInv /\ r \in UInts /\ w \in UInts /\ e \in UInts /\ buf \in Rings
  BY DEF ConsInv, RingInv, Rings
<1>3. /\ f \in UInts /\ minus(f, r) = minus(e, r) + 1
      /\ minus(e, r) \in 0..(INPUT_BUF - 1) /\ minus(w, r) \in 0..minus(e, r)
      /\ minus(e, w) = minus(e, r) - minus(w, r) /\ minus(f, w) = minus(e, w) + 1
  BY <1>1, <1>2, TypedIndices
<1>4. slot(e) \in 0..(INPUT_BUF - 1) /\ b \in Rings /\ b[slot(e)] = c
  <2>1. slot(e) \in 0..(INPUT_BUF - 1)
    BY <1>2, SlotType
  <2> QED BY <2>1, <1>2 DEF Rings
<1> HIDE DEF b, f
<1>0. /\ minus(w, r) <= minus(e, r) /\ minus(e, r) < INPUT_BUF
      /\ minus(e, w) <= minus(e, w) /\ minus(e, w) < INPUT_BUF
      /\ minus(e, w) <= minus(f, w) /\ minus(w, r) <= minus(f, r)
  BY <1>3, Sizes
<1>5. Seg(b, r, w) = lines
  BY <1>2, <1>0, SegStore DEF b
<1>6. Seg(b, w, e) = edit
  BY <1>2, <1>0, SegStore DEF b
<1>7. Seg(b, e, f) = <<c>>
  BY <1>2, <1>4, SegOne DEF f
<1>8. lines \in Seq(Chars) /\ edit \in Seq(Chars) /\ Len(lines) + Len(edit) = minus(e, r)
  <2>1. lines \in Seq(Chars) /\ Len(lines) = minus(w, r)
    BY <1>2, SegFacts
  <2>2. edit \in Seq(Chars) /\ Len(edit) = minus(e, w)
    BY <1>2, SegFacts
  <2> HIDE DEF lines, edit
  <2> QED BY <2>1, <2>2, <1>3
<1> HIDE DEF lines, edit
<1>9. Seg(b, w, f) = Append(edit, c)
  <2>1. Seg(b, w, f) = edit \o <<c>>
    <3>1. Seg(b, w, f) = Seg(b, w, e) \o Seg(b, e, f)
      BY <1>0, <1>2, <1>3, <1>4, SegSplit
    <3> QED BY <3>1, <1>6, <1>7
  <2> QED BY <2>1, <1>8, AppendIsConcat
<1>10. Seg(b, r, f) = lines \o Append(edit, c)
  <2>1. Seg(b, r, f) = Seg(b, r, w) \o Seg(b, w, f)
    BY <1>0, <1>2, <1>3, <1>4, SegSplit
  <2> QED BY <2>1, <1>5, <1>9
<1>11. f = plus(r, INPUT_BUF) <=> Len(lines) + Len(edit) + 1 = INPUT_BUF
  <2>1. INPUT_BUF \in UInts
    BY Sizes DEF UInts
  <2>2. plus(r, INPUT_BUF) \in UInts /\ minus(plus(r, INPUT_BUF), r) = INPUT_BUF
    BY <2>1, <1>2, PlusType, MinusPlus
  <2>3. f = plus(r, INPUT_BUF) <=> minus(f, r) = minus(plus(r, INPUT_BUF), r)
    BY <2>2, <1>2, <1>3, SameDistance
  <2> QED BY <2>2, <2>3, <1>3, <1>8
<1>12. Between(r, w) = lines /\ Between(w, e) = edit
  BY DEF Between, Seg, lines, edit
<1>13. Between(r, w)' = Seg(b, r, w') /\ Between(w, e)' = Seg(b, w', f)
  BY <1>1 DEF Between, Seg, slot, plus, minus
<1>14. Len(lines) + Len(edit) < INPUT_BUF
  BY <1>3, <1>8, Sizes
<1>15. CASE Ends(c) /\ w' = f
  <2>1. c \in {Newline, Eof} \/ Len(lines) + Len(edit) + 1 = INPUT_BUF
    BY <1>15, <1>11 DEF Ends, f
  <2>2. Between(r, w)' = lines \o Append(edit, c) /\ Between(w, e)' = <<>>
    BY <1>15, <1>3, <1>4, <1>10, <1>13, SegEmpty
  <2> QED BY <2>1, <2>2, <1>12, <1>14 DEF T!Type
<1>16. CASE ~Ends(c) /\ w' = w
  <2>1. ~(c \in {Newline, Eof} \/ Len(lines) + Len(edit) + 1 = INPUT_BUF)
    BY <1>16, <1>11 DEF Ends, f
  <2>2. Between(r, w)' = lines /\ Between(w, e)' = Append(edit, c)
    BY <1>16, <1>5, <1>9, <1>13
  <2> QED BY <2>1, <2>2, <1>12, <1>14 DEF T!Type
<1> QED BY <1>1, <1>15, <1>16

\* The last element of a sequence comes off, or the first.
LEMMA DropLast ==
  ASSUME NEW x \in Seq(Chars), NEW c \in Chars
  PROVE  /\ x \o <<c>> # <<>> /\ SubSeq(x \o <<c>>, 1, Len(x \o <<c>>) - 1) = x
         /\ <<c>> \o x # <<>> /\ Tail(<<c>> \o x) = x
OBVIOUS

\* Backspace and ^U take the last character of the line being edited.
LEMMA EraseRefines ==
  ASSUME ConsInv, intrErase
  PROVE  T!Erase
<1> DEFINE d == plus(e, UINT - 1)
<1>1. e # w /\ e' = d /\ UNCHANGED <<buf, r, w>>
  BY DEF intrErase, Editable
<1>2. r \in UInts /\ w \in UInts /\ e \in UInts /\ buf \in Rings
  BY DEF ConsInv, RingInv, Rings
<1>3. d \in UInts /\ minus(d, w) = minus(e, w) - 1
  BY <1>1, <1>2, StepDown
<1>4. plus(d, 1) = e
  <2>1. 1 \in UInts /\ UINT - 1 \in UInts
    BY Sizes DEF UInts
  <2>2. d = IF e + (UINT - 1) < UINT THEN e + (UINT - 1) ELSE e + (UINT - 1) - UINT
    BY <1>2, <2>1, PlusIs
  <2>3. plus(d, 1) = IF d + 1 < UINT THEN d + 1 ELSE d + 1 - UINT
    BY <1>3, <2>1, PlusIs
  <2> HIDE DEF d
  <2> QED BY <1>2, <1>3, <2>2, <2>3, Sizes
<1> HIDE DEF d
<1>5. Seg(buf, d, e) = <<buf[slot(d)]>> /\ buf[slot(d)] \in Chars
  <2>1. slot(d) \in 0..(INPUT_BUF - 1)
    BY <1>3, SlotType
  <2>2. Seg(buf, d, plus(d, 1)) = <<buf[slot(d)]>>
    BY <1>2, <1>3, SegOne
  <2> QED BY <2>1, <2>2, <1>2, <1>4 DEF Rings
<1>6. Seg(buf, w, e) = Seg(buf, w, d) \o Seg(buf, d, e)
  <2>1. minus(d, w) <= minus(e, w)
    BY <1>2, <1>3, PlusType, Sizes
  <2> QED BY <2>1, <1>2, <1>3, SegSplit
<1>7. Seg(buf, w, d) \in Seq(Chars)
  BY <1>2, <1>3, SegFacts
<1>8. Between(w, e) = Seg(buf, w, e)
  BY DEF Between, Seg
<1>9. Between(r, w)' = Between(r, w) /\ Between(w, e)' = Seg(buf, w, d)
  BY <1>1 DEF Between, Seg, slot, plus, minus
<1> QED BY <1>5, <1>6, <1>7, <1>8, <1>9, DropLast DEF T!Erase

\* A reader takes the first character of the ended lines, or puts back a ^D.
LEMMA ReadRefines ==
  ASSUME ConsInv, NEW p \in Readers, readChar(p)
  PROVE  T!Deliver \/ UNCHANGED <<Between(r, w), Between(w, e)>>
<1> DEFINE d == plus(r, 1)
<1>1. r # w /\ (r' = r \/ r' = d) /\ UNCHANGED <<buf, w, e>>
  BY DEF readChar
<1>2. r \in UInts /\ w \in UInts /\ e \in UInts /\ buf \in Rings
  BY DEF ConsInv, RingInv, Rings
<1>3. d \in UInts /\ minus(w, d) = minus(w, r) - 1
  BY <1>1, <1>2, StepTowards
<1>4. Seg(buf, r, d) = <<buf[slot(r)]>> /\ buf[slot(r)] \in Chars
  <2>1. slot(r) \in 0..(INPUT_BUF - 1)
    BY <1>2, SlotType
  <2>2. Seg(buf, r, d) = <<buf[slot(r)]>>
    BY <1>2, SegOne
  <2> QED BY <2>1, <2>2, <1>2 DEF Rings
<1>5. minus(d, r) = 1
  BY <1>2, MinusPlus, Sizes DEF UInts
<1> HIDE DEF d
<1>6. Seg(buf, r, w) = Seg(buf, r, d) \o Seg(buf, d, w)
  <2>1. minus(w, r) \in Nat /\ minus(w, r) # 0
    BY <1>1, <1>2, PlusType, SameDistance, Sizes
  <2>2. minus(d, r) <= minus(w, r)
    BY <2>1, <1>5
  <2> QED BY <2>2, <1>2, <1>3, SegSplit
<1>7. Seg(buf, d, w) \in Seq(Chars)
  BY <1>2, <1>3, SegFacts
<1>8. Between(r, w) = Seg(buf, r, w)
  BY DEF Between, Seg
<1>9. Between(w, e)' = Between(w, e)
  BY <1>1 DEF Between, slot, plus, minus
<1>10. CASE r' = r
  BY <1>1, <1>9, <1>10 DEF Between, slot, plus, minus
<1>11. CASE r' = d
  <2>1. Between(r, w)' = Seg(buf, d, w)
    BY <1>1, <1>11 DEF Between, Seg, slot, plus, minus
  <2> QED BY <2>1, <1>4, <1>6, <1>7, <1>8, <1>9, DropLast DEF T!Deliver
<1> QED BY <1>1, <1>10, <1>11

\* The ring with its three unsigned indices is an edited line behind a queue
\* of ended lines, whatever its size and wherever the indices wrap around.
THEOREM RingIsTty == Spec => ImplementsTty
<1>1. Init => T!Init
  <2> SUFFICES ASSUME Init PROVE Between(r, w) = <<>> /\ Between(w, e) = <<>>
    BY DEF T!Init
  <2>1. r = 0 /\ w = 0 /\ e = 0 /\ 0 \in UInts
    BY Sizes DEF Init, UInts
  <2>2. minus(0, 0) = 0
    BY <2>1, SameDistance
  <2> QED BY <2>1, <2>2 DEF Between
<1>2. ASSUME ConsInv, [Next]_vars PROVE [T!Next]_<<Between(r, w), Between(w, e)>>
  <2>1. CASE UNCHANGED input
    BY <2>1 DEF input, Between, slot, plus, minus
  <2>2. CASE intrErase
    BY <1>2, <2>2, EraseRefines DEF T!Next
  <2>3. ASSUME NEW c \in Chars, intrChar(c) PROVE T!Next
    <3>1. T!Type(c)
      BY <1>2, <2>3, TypeRefines
    <3> QED BY <3>1, Zenon DEF T!Next, Chars, Newline, Eof
  <2>4. ASSUME NEW p \in Readers, readChar(p)
        PROVE  T!Next \/ UNCHANGED <<Between(r, w), Between(w, e)>>
    <3>1. T!Deliver \/ UNCHANGED <<Between(r, w), Between(w, e)>>
      BY <1>2, <2>4, ReadRefines
    <3> QED BY <3>1 DEF T!Next
  <2>5. \/ UNCHANGED input
        \/ intrErase
        \/ \E c \in Chars : intrChar(c)
        \/ \E p \in Readers : readChar(p)
    BY <1>2, InputCases, Zenon DEF vars
  <2> QED BY <2>1, <2>2, <2>3, <2>4, <2>5
<1> QED BY <1>1, <1>2, ConsoleInvariance, PTL DEF Spec, ImplementsTty, T!Spec
=============================================================================
