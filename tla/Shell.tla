------------------------------- MODULE Shell --------------------------------
(***************************************************************************)
(* init (init.c), the shell (sh.c) and the programs it runs (echo.c,       *)
(* cat.c), on the system calls of File and on fork, exit and wait.  What a *)
(* process has still to do is a sequence of operations; runcmd turns a     *)
(* command into such a sequence, and one action carries out the first      *)
(* operation of one process.  A line that the user types is the printed    *)
(* form of a command, or garbage.  Messages of the programs are left out,  *)
(* and so are cd and programs that read the console.                       *)
(***************************************************************************)
EXTENDS File, ShParse

CONSTANTS
  Cmds,       \* the commands the user types
  Garbage,    \* lines that are no commands
  CATBUF,     \* sizeof(buf) in cat.c
  MaxJobs     \* bound: the user types while at most so many jobs are left

VARIABLES
  state, parent,
  todo,       \* process -> what it has still to do
  meant,      \* the command of the last line
  before,     \* the files when it was typed
  clean       \* nothing but this line has run since then, and no table was full

procs == <<state, parent>>
ghost == <<meant, before, clean>>
vars == <<limit, files, procs, todo, ghost>>

initproc == 1

-----------------------------------------------------------------------------
(* Operations *)

Exit == [op |-> "exit"]
Wait == [op |-> "wait"]
Prompt == [op |-> "getcmd"]
OpenConsole == [op |-> "console"]
Fork(child) == [op |-> "fork", child |-> child]
Close(fd) == [op |-> "close", fd |-> fd]
Dup(fd) == [op |-> "dup", fd |-> fd]
Cat(fd) == [op |-> "cat", fd |-> fd]
CatFile(name) == [op |-> "catfile", name |-> name]
Write(bytes, all) == [op |-> "write", bytes |-> bytes, all |-> all]

RECURSIVE runcmd(_)
runcmd(c) ==
  CASE c.type = "PANIC" -> <<Exit>>
    [] c.type = "EXEC" -> IF c.argv = <<>> THEN <<Exit>> ELSE <<[op |-> "exec", argv |-> c.argv]>>
    [] c.type = "REDIR" ->
         <<Close(c.fd), [op |-> "open", name |-> c.file, create |-> c.create, cmd |-> c.cmd]>>
    [] c.type = "LIST" -> <<Fork(runcmd(c.left)), Wait>> \o runcmd(c.right)
    [] c.type = "PIPE" -> <<[op |-> "pipe", left |-> c.left, right |-> c.right]>>
    [] c.type = "BACK" -> <<Fork(runcmd(c.cmd)), Exit>>

\* Slip: one wait for two children.
pipelineOneWait(c, r, w) ==
  <<Fork(<<Close(1), Dup(w), Close(r), Close(w)>> \o runcmd(c.left)),
    Fork(<<Close(0), Dup(r), Close(r), Close(w)>> \o runcmd(c.right)),
    Close(r), Close(w), Wait, Exit>>

\* runcmd of a PIPE from the first fork1 on: the pipe is at r and w.
pipeline(c, r, w) ==
  <<Fork(<<Close(1), Dup(w), Close(r), Close(w)>> \o runcmd(c.left)),
    Fork(<<Close(0), Dup(r), Close(r), Close(w)>> \o runcmd(c.right)),
    Close(r), Close(w), Wait, Wait, Exit>>

\* printf writes one byte at a time and does not look at the result.
echo(argv) ==
  [i \in 1..(2 * (Len(argv) - 1)) |->
     Write(<<IF i % 2 = 1 THEN argv[(i + 3) \div 2]
             ELSE IF i = 2 * (Len(argv) - 1) THEN "\n" ELSE " ">>, FALSE)]

cat(argv) ==
  IF Len(argv) = 1 THEN <<Cat(0)>> ELSE [i \in 1..(Len(argv) - 1) |-> CatFile(argv[i + 1])]

program(argv) ==
  CASE Head(argv) = "echo" -> echo(argv) \o <<Exit>>
    [] Head(argv) = "cat" -> cat(argv) \o <<Exit>>
    [] OTHER -> <<Exit>>

-----------------------------------------------------------------------------
Init ==
  /\ FileInit
  /\ state = [p \in Procs |-> IF p = initproc THEN "RUNNING" ELSE "UNUSED"]
  /\ parent = [p \in Procs |-> 0]
  /\ todo = [p \in Procs |-> IF p = initproc THEN <<OpenConsole, Dup(0), Dup(0), [op |-> "start"]>>
                             ELSE <<>>]
  /\ meant = PANIC /\ before = content /\ clean = FALSE

\* p is about to carry out an operation of this kind.
at(p, op) == state[p] = "RUNNING" /\ Head(todo[p]).op = op
op(p) == Head(todo[p])
rest(p) == Tail(todo[p])
do(p, ops) == todo' = [todo EXCEPT ![p] = ops]

close(p) ==
  /\ at(p, "close")
  /\ sys_close(p, op(p).fd)
  /\ do(p, (IF sys_closeFails(p, op(p).fd) THEN <<>> ELSE afterClose(argfd(p, op(p).fd))) \o rest(p))
  /\ UNCHANGED <<limit, procs, ghost>>

closeEnd(p) ==
  /\ at(p, "pipeclose")
  /\ pipeclose(op(p).pipe, op(p).writable)
  /\ do(p, rest(p))
  /\ UNCHANGED <<limit, procs, ghost>>

dup(p) ==
  /\ at(p, "dup")
  /\ sys_dup(p, op(p).fd)
  /\ do(p, rest(p))
  /\ UNCHANGED <<limit, procs, ghost>>

\* A table is full: the command will not do what it means.
full(isFull) == clean' = (clean /\ ~isFull) /\ UNCHANGED <<meant, before>>

openFull(p) == filealloc({}) = 0 \/ fdalloc(p, {}) = NOFD

\* open of a redirection.
open(p) ==
  /\ at(p, "open")
  /\ sys_open(p, op(p).name, op(p).create, ~op(p).create, op(p).create)
  /\ do(p, IF sys_openFails(p, op(p).name, op(p).create) THEN <<Exit>> ELSE runcmd(op(p).cmd))
  /\ full(openFull(p))
  /\ UNCHANGED <<limit, procs>>

pipe(p) ==
  /\ at(p, "pipe")
  /\ sys_pipe(p)
  /\ do(p, IF sys_pipeFails(p) THEN afterPipe(p) \o <<Exit>> ELSE pipeline(op(p), fd0(p), fd1(p)))
  /\ full(sys_pipeFails(p))
  /\ UNCHANGED <<limit, procs>>

exec(p) ==
  /\ at(p, "exec")
  /\ do(p, program(op(p).argv))
  /\ UNCHANGED <<limit, files, procs, ghost>>

catFile(p) ==
  /\ at(p, "catfile")
  /\ sys_open(p, op(p).name, FALSE, TRUE, FALSE)
  /\ do(p, IF sys_openFails(p, op(p).name, FALSE) THEN <<Exit>>
           ELSE <<Cat(fdalloc(p, {})), Close(fdalloc(p, {}))>> \o rest(p))
  /\ full(openFull(p))
  /\ UNCHANGED <<limit, procs>>

\* Slip: while((n = read(...)) >= 0).
afterReadAgain(p, bytes) == IF bytes = <<>> THEN todo[p] ELSE <<Write(bytes, TRUE)>> \o todo[p]

afterRead(p, bytes) == IF bytes = <<>> THEN rest(p) ELSE <<Write(bytes, TRUE)>> \o todo[p]

catRead(p) ==
  /\ at(p, "cat")
  /\ LET fd == op(p).fd
         f == argfd(p, fd)
     IN IF readFails(p, fd) THEN do(p, <<Exit>>) /\ UNCHANGED files
        ELSE /\ ~readWaits(f)
             /\ fileread(f, CATBUF)
             /\ do(p, afterRead(p, readBytes(f, CATBUF)))
  /\ UNCHANGED <<limit, procs, ghost>>

\* write to standard output; cat stops when not all of it is written.
write(p) ==
  /\ at(p, "write")
  /\ IF writeFails(p, 1)
       THEN do(p, IF op(p).all THEN <<Exit>> ELSE rest(p)) /\ UNCHANGED files
       ELSE LET f == argfd(p, 1)
                k == Len(fits(f, op(p).bytes))
            IN /\ ~Full(f)
               /\ filewrite(f, op(p).bytes)
               /\ do(p, IF k = Len(op(p).bytes) THEN rest(p)
                        ELSE <<Write(SubSeq(op(p).bytes, k + 1, Len(op(p).bytes)), op(p).all)>> \o rest(p))
  /\ UNCHANGED <<limit, procs, ghost>>

-----------------------------------------------------------------------------
(* fork, exit and wait (Proc models them in detail) *)

newproc == First({p \in 1..limit.nproc : state[p] = "UNUSED"})
Children(p) == {c \in Procs : parent[c] = p /\ state[c] # "UNUSED"}

\* The child has the files of its parent.
forked(p, child, ops, then) ==
  /\ state' = [state EXCEPT ![child] = "RUNNING"]
  /\ parent' = [parent EXCEPT ![child] = p]
  /\ todo' = [todo EXCEPT ![child] = ops, ![p] = then]
  /\ ofile' = [ofile EXCEPT ![child] = ofile[p]]
  /\ ftable' = [f \in Slots |-> [ftable[f] EXCEPT !.ref =
                                   @ + Cardinality({fd \in Fds : ofile[p][fd] = f})]]

\* fork1 panics, that is, ends the process, when fork fails.
fork(p) ==
  /\ at(p, "fork")
  /\ IF newproc = 0 THEN do(p, <<Exit>>) /\ UNCHANGED <<state, parent, ofile, ftable>>
     ELSE forked(p, newproc, op(p).child, rest(p))
  /\ full(newproc = 0)
  /\ UNCHANGED <<limit, pipes, content, tty>>

reap(c) ==
  /\ state' = [state EXCEPT ![c] = "UNUSED"]
  /\ parent' = [parent EXCEPT ![c] = 0]

zombies(p) == {c \in Children(p) : state[c] = "ZOMBIE"}

\* Nobody here waits without a child.
wait(p) ==
  /\ at(p, "wait") /\ zombies(p) # {}
  /\ reap(First(zombies(p)))
  /\ do(p, rest(p))
  /\ UNCHANGED <<limit, files, ghost>>

openFds(p) == {fd \in Fds : ofile[p][fd] # 0}

exitClose(p) ==
  /\ at(p, "exit") /\ openFds(p) # {}
  /\ LET fd == Min(openFds(p))
     IN closeFd(p, fd) /\ do(p, afterClose(ofile[p][fd]) \o todo[p])
  /\ UNCHANGED <<limit, procs, ghost>>

exit(p) ==
  /\ at(p, "exit") /\ openFds(p) = {}
  /\ state' = [state EXCEPT ![p] = "ZOMBIE"]
  /\ parent' = [c \in Procs |-> IF parent[c] = p THEN initproc ELSE parent[c]]
  /\ do(p, <<>>)
  /\ UNCHANGED <<limit, files, ghost>>

-----------------------------------------------------------------------------
(* init and the main loop of the shell *)

\* open("console", O_RDWR): by init once, by the shell until it has three.
console(p) ==
  /\ at(p, "console")
  /\ sys_open(p, "console", FALSE, TRUE, TRUE)
  /\ do(p, CASE p = initproc \/ sys_openFails(p, "console", FALSE) -> rest(p)
             [] p # initproc /\ ~sys_openFails(p, "console", FALSE) ->
                  IF fdalloc(p, {}) >= 3 THEN <<Close(fdalloc(p, {}))>> \o rest(p) ELSE todo[p])
  /\ UNCHANGED <<limit, procs, ghost>>

start(p) ==
  /\ at(p, "start") /\ newproc # 0
  /\ forked(p, newproc, <<OpenConsole, Prompt>>, <<[op |-> "reap", pid |-> newproc]>>)
  /\ UNCHANGED <<limit, pipes, content, tty, ghost>>

\* init waits for the shell it has started, and reaps orphans meanwhile.
waitShell(p) ==
  /\ at(p, "reap") /\ zombies(p) # {}
  /\ reap(First(zombies(p)))
  /\ do(p, IF First(zombies(p)) = op(p).pid THEN <<[op |-> "start"]>> ELSE todo[p])
  /\ UNCHANGED <<limit, files, ghost>>

jobs(p) == {q \in Procs \ {p, initproc} : state[q] # "UNUSED"}

\* The user types a line, which means c; tty starts anew.
getcmd(p, line, c) ==
  /\ at(p, "getcmd") /\ Cardinality(jobs(p)) <= MaxJobs
  /\ do(p, <<Fork(runcmd(parsecmd(line))), Wait, Prompt>>)
  /\ meant' = c /\ before' = content /\ clean' = (jobs(p) = {})
  /\ tty' = <<>>
  /\ UNCHANGED <<limit, ftable, ofile, pipes, content, procs>>

\* The user types control-D.
eof(p) ==
  /\ at(p, "getcmd")
  /\ do(p, <<Exit>>)
  /\ clean' = FALSE
  /\ UNCHANGED <<limit, files, procs, meant, before>>

-----------------------------------------------------------------------------
(* What a line is for *)

\* The tokens of a command that sh.c parses into it.
RECURSIVE show(_)
show(c) ==
  LET inner(d, types) == IF d.type \in types THEN <<"(">> \o show(d) \o <<")">> ELSE show(d)
  IN CASE c.type = "EXEC" -> c.argv
       [] c.type = "REDIR" ->
            inner(c.cmd, {"PIPE", "LIST", "BACK"}) \o <<IF c.create THEN ">" ELSE "<", c.file>>
       [] c.type = "PIPE" -> inner(c.left, {"PIPE", "LIST", "BACK"}) \o <<"|">> \o inner(c.right, {"LIST", "BACK"})
       [] c.type = "LIST" -> inner(c.left, {"LIST"}) \o <<";">> \o show(c.right)
       [] c.type = "BACK" -> inner(c.cmd, {"LIST"}) \o <<"&">>

RECURSIVE Foreground(_)
Foreground(c) ==
  CASE c.type \in {"EXEC", "PANIC"} -> TRUE
    [] c.type \in {"PIPE", "LIST"} -> Foreground(c.left) /\ Foreground(c.right)
    [] c.type = "REDIR" -> Foreground(c.cmd)
    [] c.type = "BACK" -> FALSE

EchoBytes(argv) == [i \in 1..Len(echo(argv)) |-> echo(argv)[i].bytes[1]]

RECURSIVE CatBytes(_, _)
CatBytes(names, fs) ==
  IF names = <<>> \/ (names # <<>> /\ Head(names) \notin DOMAIN fs) THEN <<>>
  ELSE fs[Head(names)] \o CatBytes(Tail(names), fs)

\* What a command makes of its standard input, the standard output so far and
\* the files: every stage of a pipeline reads all that the one before it wrote.
RECURSIVE Meaning(_, _)
Meaning(c, s) ==
  CASE c.type = "PANIC" \/ (c.type = "EXEC" /\ c.argv = <<>>) -> s
    [] c.type = "EXEC" /\ c.argv # <<>> ->
         (CASE c.argv[1] = "echo" -> [s EXCEPT !.out = @ \o EchoBytes(c.argv)]
            [] c.argv = <<"cat">> -> [s EXCEPT !.out = @ \o s.in, !.in = <<>>]
            [] c.argv[1] = "cat" /\ Len(c.argv) > 1 ->
                 [s EXCEPT !.out = @ \o CatBytes(Tail(c.argv), s.fs)]
            [] OTHER -> s)
    [] c.type = "LIST" -> Meaning(c.right, Meaning(c.left, s))
    [] c.type = "PIPE" ->
         LET l == Meaning(c.left, [s EXCEPT !.out = <<>>])
         IN [Meaning(c.right, [l EXCEPT !.in = l.out, !.out = s.out]) EXCEPT !.in = l.in]
    [] c.type = "REDIR" /\ ~c.create ->
         IF c.file \notin DOMAIN s.fs THEN s
         ELSE [Meaning(c.cmd, [s EXCEPT !.in = s.fs[c.file]]) EXCEPT !.in = s.in]
    [] c.type = "REDIR" /\ c.create ->
         LET old == IF c.file \in DOMAIN s.fs THEN s.fs[c.file] ELSE <<>>
             r == Meaning(c.cmd, [s EXCEPT !.out = <<>>])
         IN [r EXCEPT !.out = s.out,
                      !.fs = [n \in DOMAIN r.fs \cup {c.file} |->
                                IF n = c.file THEN overlay(old, 0, r.out) ELSE r.fs[n]]]

-----------------------------------------------------------------------------
step(p) ==
  \/ close(p) \/ closeEnd(p) \/ dup(p) \/ open(p) \/ pipe(p) \/ exec(p)
  \/ catFile(p) \/ catRead(p) \/ write(p)
  \/ fork(p) \/ wait(p) \/ exitClose(p) \/ exit(p)
  \/ console(p) \/ start(p) \/ waitShell(p)

user(p) ==
  \/ \E c \in Cmds : getcmd(p, show(c), c)
  \/ \E line \in Garbage : getcmd(p, line, PANIC)
  \/ eof(p)

Next == \E p \in Procs : step(p) \/ user(p)

\* Some process that can go on does; nothing is assumed of the scheduler's
\* choice among them, nor of the user.
Spec == Init /\ [][Next]_vars /\ WF_vars(\E p \in Procs : step(p))

-----------------------------------------------------------------------------
(* Properties *)

\* A descriptor names a slot in use, a slot in use has a type, a process that
\* runs has something to do, and only such a process has descriptors.
TypeOK ==
  /\ \A p \in Procs :
       /\ state[p] \in {"UNUSED", "RUNNING", "ZOMBIE"}
       /\ state[p] = "RUNNING" <=> todo[p] # <<>>
       /\ \A fd \in Fds : /\ ofile[p][fd] \in 0..limit.nfile
                          /\ ofile[p][fd] # 0 => state[p] = "RUNNING" /\ fd < limit.nofile
  /\ \A f \in Slots : ftable[f].ref > 0 <=> ftable[f].type # "NONE"
  /\ \A i \in Pipes : Len(pipes[i].data) <= PIPESIZE

\* The reference count of an open file is the number of descriptors of all
\* processes that name it, across fork, dup, the closes of exit, and a pipe()
\* that fails half way (file.c:28-80, sysfile.c:506-512).
\* Included: the state is in its ranges.
RefsAreDescriptors ==
  /\ TypeOK
  /\ \A f \in Slots :
       ftable[f].ref = Cardinality({x \in Procs \X Fds : ofile[x[1]][x[2]] = f})

\* An end of a pipe is open as long as a file of that end is open, or a
\* process is between the two halves of the fileclose that ends it; then the
\* page is free again.
EndsMatchFiles ==
  \A i \in Pipes, w \in BOOLEAN :
    (IF w THEN pipes[i].writeopen ELSE pipes[i].readopen)
      <=> \/ \E f \in Slots : ftable[f].type = "PIPE" /\ ftable[f].pipe = i /\ ftable[f].writable = w
          \/ \E p \in Procs : \E k \in DOMAIN todo[p] :
               todo[p][k] = [op |-> "pipeclose", pipe |-> i, writable |-> w]

AtPrompt(p) == at(p, "getcmd")

\* When the shell prompts again after a command in the foreground, the console
\* and the files are what the command means: parser, redirections, pipes and
\* the order of wait and exit work together, whatever the interleaving.  The
\* exception is a command for which some table was full.
LineMeansOutput ==
  \A p \in Procs :
    AtPrompt(p) /\ clean /\ Foreground(meant) =>
      [in |-> <<>>, out |-> tty, fs |-> content] = Meaning(meant, [in |-> <<>>, out |-> <<>>, fs |-> before])

\* The shell always comes back to its prompt: the readers of a pipeline see
\* end of file, its writers are not left waiting, and a shell that panics
\* because a table is full is started again by init.
PromptReturns == []<>(\E p \in Procs : AtPrompt(p))
=============================================================================
