------------------------------ MODULE Console -------------------------------
(***************************************************************************)
(* The console (console.c): the interrupt handler that edits input lines   *)
(* in a ring with three unsigned indices, the processes that read from it  *)
(* and write to it through the console's inode, kernel messages (cprintf)  *)
(* and panic.  A character of output is one action, because a panicking    *)
(* CPU prints without cons.lock and stops the others inside consputc.      *)
(* readi and writei come with the inode locked; consoleread and            *)
(* consolewrite unlock it first and lock it last, so that it is never held *)
(* while one of them waits.                                                *)
(***************************************************************************)
EXTENDS Naturals, Sequences, FiniteSets

CONSTANTS
  Readers, Writers,
  Kbd,          \* the interrupt handler
  Cpu,          \* kernel code that prints a message or panics
  Letters,      \* characters other than the ones below
  INPUT_BUF,
  UINT,         \* 2^32 in the code, a multiple of INPUT_BUF
  ReadSizes,    \* the sizes n of reads, not 0
  MsgLen,       \* the characters of a message
  NoOne

Newline == "\n"
Eof == "^D"
Chars == Letters \cup {Newline, Eof}
Actors == Readers \cup Writers \cup {Kbd, Cpu}

ASSUME ConsoleConstants ==
  /\ {INPUT_BUF, UINT} \subseteq Nat \ {0} /\ UINT % INPUT_BUF = 0 /\ INPUT_BUF < UINT
  /\ ReadSizes \subseteq Nat \ {0} /\ MsgLen \in Nat \ {0}
  /\ NoOne \notin Actors /\ Kbd # Cpu /\ {Kbd, Cpu} \cap (Readers \cup Writers) = {}

VARIABLES
  buf, r, w, e,     \* struct input
  lock, locking,    \* cons
  panicked,
  pc,
  n, target,        \* per reader: consoleread's variables
  left,             \* per printer: the characters still to print
  locks,            \* per printer of messages: cprintf's local variable locking
  dump,             \* consoleintr's doprocdump
  killed

input == <<buf, r, w, e>>
output == <<left, locks, locking, panicked>>
reading == <<n, target, killed>>
vars == <<input, output, reading, lock, pc, dump>>

\* consoleinit
Init ==
  /\ buf = [i \in 0..(INPUT_BUF - 1) |-> Newline]
  /\ r = 0 /\ w = 0 /\ e = 0
  /\ lock = NoOne /\ locking = TRUE /\ panicked = FALSE
  /\ pc = [a \in Actors |-> "idle"]
  /\ n = [a \in Readers |-> 0] /\ target = n
  /\ left = [a \in Writers \cup {Kbd, Cpu} |-> 0]
  /\ locks = [a \in {Kbd, Cpu} |-> TRUE] /\ dump = FALSE
  /\ killed = [a \in Readers |-> FALSE]

goto(a, l) == pc' = [pc EXCEPT ![a] = l]
at(a, l) == pc[a] = l

\* The difference of two indices and their places in the ring.
minus(i, k) == (i + UINT - k) % UINT
plus(i, k) == (i + k) % UINT
slot(i) == i % INPUT_BUF

acquire(a, l, m) == at(a, l) /\ lock = NoOne /\ lock' = a /\ goto(a, m)
release(a, l) == lock' = NoOne /\ goto(a, l)

-----------------------------------------------------------------------------
\* consoleintr

intrAcquire ==
  /\ acquire(Kbd, "idle", "getc")
  /\ UNCHANGED <<input, output, reading, dump>>

\* The readers that sleep on &input.r run again.
wakeup == pc' = [a \in Actors |-> IF a \in Readers /\ pc[a] = "asleep" THEN "acquire" ELSE pc[a]]

\* Slip: a character is dropped only when the ring holds more than INPUT_BUF.
RoomOffByOne == minus(e, r) <= INPUT_BUF

Room == minus(e, r) < INPUT_BUF

Ends(c) == c = Newline \/ c = Eof \/ plus(e, 1) = plus(r, INPUT_BUF)

\* Slip: the line is ended but no reader is woken.
intrCharSilent(c) ==
  /\ at(Kbd, "getc") /\ ~panicked /\ Room
  /\ buf' = [buf EXCEPT ![slot(e)] = c]
  /\ e' = plus(e, 1)
  /\ w' = IF Ends(c) THEN e' ELSE w
  /\ UNCHANGED <<r, output, reading, lock, pc, dump>>

\* The default case: the character goes into the ring and is echoed.
intrChar(c) ==
  /\ at(Kbd, "getc") /\ ~panicked /\ Room
  /\ buf' = [buf EXCEPT ![slot(e)] = c]
  /\ e' = plus(e, 1)
  /\ IF Ends(c) THEN w' = e' /\ wakeup ELSE UNCHANGED <<w, pc>>
  /\ UNCHANGED <<r, output, reading, lock, dump>>

Editable == e # w

\* Backspace, and one round of the loop of ^U.
intrErase ==
  /\ pc[Kbd] \in {"getc", "kill"} /\ ~panicked
  /\ Editable
  /\ at(Kbd, "kill") => buf[slot(plus(e, UINT - 1))] # Newline
  /\ e' = plus(e, UINT - 1)
  /\ UNCHANGED <<buf, r, w, output, reading, lock, pc, dump>>

\* ^U, and the end of its loop.
intrKill ==
  /\ at(Kbd, "getc")
  /\ goto(Kbd, "kill")
  /\ UNCHANGED <<input, output, reading, lock, dump>>
intrKillEnd ==
  /\ at(Kbd, "kill")
  /\ ~Editable \/ buf[slot(plus(e, UINT - 1))] = Newline
  /\ goto(Kbd, "getc")
  /\ UNCHANGED <<input, output, reading, lock, dump>>

\* ^P
intrDump ==
  /\ at(Kbd, "getc") /\ ~dump
  /\ dump' = TRUE
  /\ UNCHANGED <<input, output, reading, lock, pc>>

\* getc has no more characters; procdump runs when cons.lock is free again.
intrRelease ==
  /\ at(Kbd, "getc")
  /\ release(Kbd, IF dump THEN "cprintf" ELSE "idle")
  /\ dump' = FALSE
  /\ UNCHANGED <<input, output, reading>>

-----------------------------------------------------------------------------
\* consoleread, called from fileread -> readi with the inode locked

consoleread(p, size) ==
  /\ at(p, "idle")
  /\ n' = [n EXCEPT ![p] = size] /\ target' = [target EXCEPT ![p] = size]
  /\ goto(p, "acquire")
  /\ UNCHANGED <<input, output, killed, lock, dump>>

readAcquire(p) ==
  /\ acquire(p, "acquire", "loop")
  /\ UNCHANGED <<input, output, reading, dump>>

\* The end of consoleread.  A process that has been killed exits, and another
\* one takes its place.
readEnd(p) ==
  /\ release(p, "idle")
  /\ n' = [n EXCEPT ![p] = 0] /\ target' = [target EXCEPT ![p] = 0]
  /\ killed' = [killed EXCEPT ![p] = FALSE]

\* One round of the loop that finds a character.
readChar(p) ==
  LET c == buf[slot(r)]
      again == c = Eof /\ n[p] < target[p]
  IN /\ at(p, "loop") /\ r # w
     /\ r' = IF again THEN r ELSE plus(r, 1)
     /\ IF c \in {Eof, Newline} \/ n[p] = 1
        THEN readEnd(p)
        ELSE n' = [n EXCEPT ![p] = @ - 1] /\ UNCHANGED <<target, killed, lock, pc>>
     /\ UNCHANGED <<buf, w, e, output, dump>>

\* The ring has no ended line: killed is tested, then the reader goes to sleep.
readWait(p) ==
  /\ at(p, "loop") /\ r = w
  /\ \/ killed[p] /\ readEnd(p)
     \/ ~killed[p] /\ goto(p, "sleep") /\ UNCHANGED <<reading, lock>>
  /\ UNCHANGED <<input, output, dump>>

readSleep(p) ==
  /\ at(p, "sleep")
  /\ release(p, "asleep")
  /\ UNCHANGED <<input, output, reading, dump>>

\* kill() does not take cons.lock: it wakes a sleeper.
kill(p) ==
  /\ ~at(p, "idle") /\ ~killed[p]
  /\ killed' = [killed EXCEPT ![p] = TRUE]
  /\ IF at(p, "asleep") THEN goto(p, "acquire") ELSE UNCHANGED pc
  /\ UNCHANGED <<input, output, n, target, lock, dump>>

-----------------------------------------------------------------------------
\* consolewrite, and the output of messages

writeAcquire(p) ==
  /\ acquire(p, "idle", "put")
  /\ left' = [left EXCEPT ![p] = MsgLen]
  /\ UNCHANGED <<input, locks, locking, panicked, reading, dump>>

\* consputc of a character that is not the last of its message.  It never
\* returns once a CPU has panicked.
consputc(a) ==
  /\ at(a, "put") /\ left[a] > 1 /\ ~panicked
  /\ left' = [left EXCEPT ![a] = @ - 1]
  /\ UNCHANGED <<input, locks, locking, panicked, reading, lock, pc, dump>>

\* The last character and the release.
writeEnd(p) ==
  /\ at(p, "put") /\ left[p] = 1 /\ ~panicked
  /\ left' = [left EXCEPT ![p] = 0]
  /\ release(p, "idle")
  /\ UNCHANGED <<input, locks, locking, panicked, reading, dump>>

-----------------------------------------------------------------------------
\* cprintf reads cons.locking once and takes the lock if it is set.
cprintf(a) ==
  /\ at(a, IF a = Kbd THEN "cprintf" ELSE "idle")
  /\ locks' = [locks EXCEPT ![a] = locking]
  /\ left' = [left EXCEPT ![a] = MsgLen]
  /\ goto(a, IF locking THEN "acquire" ELSE "put")
  /\ UNCHANGED <<input, locking, panicked, reading, lock, dump>>

cprintfAcquire(a) ==
  /\ acquire(a, "acquire", "put")
  /\ UNCHANGED <<input, output, reading, dump>>

\* Slip: at the end cprintf reads cons.locking again.
cprintfEndRereads(a) ==
  /\ at(a, "put") /\ left[a] = 1 /\ ~panicked
  /\ left' = [left EXCEPT ![a] = 0]
  /\ IF locking THEN release(a, "idle") ELSE goto(a, "idle") /\ UNCHANGED lock
  /\ UNCHANGED <<input, locks, locking, panicked, reading, dump>>

cprintfEnd(a) ==
  /\ at(a, "put") /\ left[a] = 1 /\ ~panicked
  /\ left' = [left EXCEPT ![a] = 0]
  /\ IF locks[a] THEN release(a, "idle") ELSE goto(a, "idle") /\ UNCHANGED lock
  /\ UNCHANGED <<input, locks, locking, panicked, reading, dump>>

\* panic: from now on no message takes the lock; when this one is printed the
\* other CPUs stop.
panic ==
  /\ at(Cpu, "idle") /\ locking
  /\ locking' = FALSE
  /\ goto(Cpu, "panic")
  /\ UNCHANGED <<input, left, locks, panicked, reading, lock, dump>>

panicEnd ==
  /\ at(Cpu, "panic")
  /\ panicked' = TRUE
  /\ goto(Cpu, "halted")
  /\ UNCHANGED <<input, left, locks, locking, reading, lock, dump>>

-----------------------------------------------------------------------------
Next ==
  \/ intrAcquire \/ intrErase \/ intrKill \/ intrKillEnd \/ intrDump \/ intrRelease
  \/ \E c \in Chars : intrChar(c)
  \/ \E p \in Readers :
       \/ \E size \in ReadSizes : consoleread(p, size)
       \/ readAcquire(p) \/ readChar(p) \/ readWait(p) \/ readSleep(p)
       \/ kill(p)
  \/ \E p \in Writers : writeAcquire(p) \/ writeEnd(p)
  \/ \E a \in {Kbd, Cpu} : cprintf(a) \/ cprintfAcquire(a) \/ cprintfEnd(a)
  \/ \E a \in Writers \cup {Kbd, Cpu} : consputc(a)
  \/ panic \/ panicEnd

Spec == Init /\ [][Next]_vars

-----------------------------------------------------------------------------
TypeOK ==
  /\ buf \in [0..(INPUT_BUF - 1) -> Chars] /\ {r, w, e} \subseteq 0..(UINT - 1)
  /\ {lock} \subseteq Actors \cup {NoOne}
  /\ {locking, panicked, dump} \subseteq BOOLEAN /\ locks \in [{Kbd, Cpu} -> BOOLEAN]
  /\ n \in [Readers -> Nat] /\ target \in [Readers -> Nat]
  /\ minus(w, r) <= minus(e, r) /\ minus(e, r) <= INPUT_BUF

InSection(a) ==
  \/ a \in Readers /\ pc[a] \in {"loop", "sleep"}
  \/ a \in Writers /\ at(a, "put")
  \/ a = Kbd /\ pc[a] \in {"getc", "kill"}
  \/ a \in {Kbd, Cpu} /\ at(a, "put") /\ locks[a]

\* cons.lock is held by whoever is between its acquire and its release, also
\* when panic() switches locking off while a cprintf is under way: no release
\* finds the lock free or taken by another, and none is left out.
\* Included: the state is in its ranges.
LockHeldByUser ==
  /\ TypeOK
  /\ \A a \in Actors : InSection(a) <=> lock = a

\* No reader sleeps on &input.r while the ring has an ended line: every step
\* that ends a line wakes the readers, and the ^D that consoleread puts back
\* is not put back behind one that has gone to sleep.
SleeperHasNoInput == \A p \in Readers : at(p, "asleep") => r = w

Between(i, k) == [j \in 1..minus(k, i) |-> buf[slot(plus(i, j - 1))]]

T == INSTANCE Tty WITH lines <- Between(r, w), edit <- Between(w, e), Capacity <- INPUT_BUF

\* The ring and its wrapping indices behave as an edited line behind a queue
\* of ended ones: every character typed is delivered once and in order, none
\* is overwritten, and ^U and backspace reach no ended line.
ImplementsTty == T!Spec
=============================================================================
