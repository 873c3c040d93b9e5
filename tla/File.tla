-------------------------------- MODULE File --------------------------------
(***************************************************************************)
(* Open files: the file table (file.c), the descriptors of the processes   *)
(* (sysfile.c) and the two ends of every pipe (pipe.c).  A system call is  *)
(* one action, except that the last fileclose of a pipe end drops the      *)
(* reference under ftable.lock and calls pipeclose later, and that a read  *)
(* or write waits.  Bytes in a pipe are a queue (Pipe shows that its ring  *)
(* is one).  All processes are in container 0.                             *)
(***************************************************************************)
EXTENDS Naturals, Sequences, FiniteSets, FiniteSetsExt

CONSTANTS
  NPROC, NFILE, NOFILE, NPIPE,   \* NPIPE: the pages kalloc has for pipes
  Limits,      \* the sizes among these that a behaviour is run with
  PIPESIZE,
  Used,        \* the slots of ftable that have held an inode since the boot
  NullWord     \* what a program has at the address of containerID in a null inode

Procs == 1..NPROC
Slots == 1..NFILE
Pipes == 1..NPIPE
Fds == 0..(NOFILE - 1)

VARIABLES
  limit,       \* [nproc, nfile, nofile, npipe]
  ftable,      \* slot -> struct file
  ofile,       \* process -> descriptor -> slot, 0 for none
  pipes,       \* page -> [readopen, writeopen, data]
  content,     \* the bytes of every file on the disk
  tty          \* the bytes programs have written to the console

files == <<ftable, ofile, pipes, content, tty>>

NoFile == [ref |-> 0, type |-> "NONE", readable |-> FALSE, writable |-> FALSE,
           pipe |-> 0, ip |-> "null", off |-> 0]
NoPipe == [readopen |-> FALSE, writeopen |-> FALSE, data |-> <<>>]

FileInit ==
  /\ limit \in Limits
  /\ ftable = [f \in Slots |-> [NoFile EXCEPT !.ip = IF f \in Used THEN "console" ELSE "null"]]
  /\ ofile = [p \in Procs |-> [fd \in Fds |-> 0]]
  /\ pipes = [i \in Pipes |-> NoPipe]
  /\ content = [n \in {} |-> <<>>]
  /\ tty = <<>>

First(S) == IF S = {} THEN 0 ELSE Min(S)

\* The slots filealloc takes, one after the other.
filealloc(S) == First({f \in 1..limit.nfile : ftable[f].ref = 0} \ S)

\* A page of kalloc for a pipe.
kalloc == First({i \in 1..limit.npipe : ~pipes[i].readopen /\ ~pipes[i].writeopen})

NOFD == NOFILE
fdalloc(p, S) ==
  LET free == {fd \in 0..(limit.nofile - 1) : ofile[p][fd] = 0} \ S
  IN IF free = {} THEN NOFD ELSE Min(free)

\* argfd
argfd(p, fd) == IF fd \in Fds THEN ofile[p][fd] ELSE 0

\* f->ip->containerID.  pipealloc does not set f->ip: a pipe has the inode of
\* the last file that had the slot, or none.
containerID(f) == IF ftable[f].ip = "null" THEN NullWord ELSE 0

-----------------------------------------------------------------------------
(* close *)

\* fileclose on the entry e, under ftable.lock; the other fields stay.
dropped(e) == IF e.ref > 1 THEN [e EXCEPT !.ref = @ - 1] ELSE [e EXCEPT !.ref = 0, !.type = "NONE"]

\* What is left of fileclose(f) after ftable.lock is released.
afterClose(f) ==
  IF ftable[f].ref = 1 /\ ftable[f].type = "PIPE"
    THEN <<[op |-> "pipeclose", pipe |-> ftable[f].pipe, writable |-> ftable[f].writable]>>
    ELSE <<>>

closeFd(p, fd) ==
  /\ ofile' = [ofile EXCEPT ![p][fd] = 0]
  /\ ftable' = [ftable EXCEPT ![ofile[p][fd]] = dropped(@)]
  /\ UNCHANGED <<pipes, content, tty>>

sys_closeFails(p, fd) == argfd(p, fd) = 0 \/ containerID(argfd(p, fd)) # 0

sys_close(p, fd) == IF sys_closeFails(p, fd) THEN UNCHANGED files ELSE closeFd(p, fd)

pipeclose(i, writable) ==
  /\ pipes' = [pipes EXCEPT ![i] =
                 LET e == IF writable THEN [@ EXCEPT !.writeopen = FALSE]
                                      ELSE [@ EXCEPT !.readopen = FALSE]
                 IN IF e.readopen \/ e.writeopen THEN e ELSE NoPipe]
  /\ UNCHANGED <<ftable, ofile, content, tty>>

-----------------------------------------------------------------------------
(* dup, open, pipe *)

sys_dup(p, fd) ==
  LET f == argfd(p, fd)
  IN IF f = 0 \/ fdalloc(p, {}) = NOFD THEN UNCHANGED files
     ELSE /\ ofile' = [ofile EXCEPT ![p][fdalloc(p, {})] = f]
          /\ ftable' = [ftable EXCEPT ![f].ref = @ + 1]
          /\ UNCHANGED <<pipes, content, tty>>

\* The file system after create(), or after namei() that finds the name.
created(name, create) ==
  IF create /\ name \notin DOMAIN content
    THEN [n \in DOMAIN content \cup {name} |-> IF n = name THEN <<>> ELSE content[n]]
    ELSE content

sys_openFails(p, name, create) ==
  \/ name \notin {"console"} \cup DOMAIN created(name, create)
  \/ filealloc({}) = 0
  \/ fdalloc(p, {}) = NOFD

\* A failure after create leaves the file.
sys_open(p, name, create, readable, writable) ==
  /\ content' = IF name = "console" THEN content ELSE created(name, create)
  /\ IF sys_openFails(p, name, create) THEN UNCHANGED <<ftable, ofile>>
     ELSE /\ ofile' = [ofile EXCEPT ![p][fdalloc(p, {})] = filealloc({})]
          /\ ftable' = [ftable EXCEPT ![filealloc({})] =
                          [@ EXCEPT !.ref = 1, !.type = "INODE", !.readable = readable,
                                    !.writable = writable, !.ip = name, !.off = 0]]
  /\ UNCHANGED <<pipes, tty>>

rf == filealloc({})
wf == filealloc({rf})
fd0(p) == fdalloc(p, {})
fd1(p) == fdalloc(p, {fd0(p)})

\* The two files of pipealloc.
PipeFile(e, i, writable) ==
  [e EXCEPT !.ref = 1, !.type = "PIPE", !.readable = ~writable, !.writable = writable, !.pipe = i]

pipeallocFails == rf = 0 \/ wf = 0 \/ kalloc = 0
sys_pipeFails(p) == pipeallocFails \/ fd0(p) = NOFD \/ fd1(p) = NOFD

\* Slip: the first descriptor stays when there is no second one.
ofileAfterPipeKept(p) ==
  IF fd0(p) = NOFD THEN ofile ELSE [ofile EXCEPT ![p][fd0(p)] = rf, ![p][fd1(p)] = wf]

\* Both descriptors, or none.
ofileAfterPipe(p) ==
  IF sys_pipeFails(p) THEN ofile ELSE [ofile EXCEPT ![p][fd0(p)] = rf, ![p][fd1(p)] = wf]

sys_pipe(p) ==
  IF pipeallocFails THEN UNCHANGED files
  ELSE /\ ofile' = ofileAfterPipe(p)
       /\ ftable' = LET r == PipeFile(ftable[rf], kalloc, FALSE)
                        w == PipeFile(ftable[wf], kalloc, TRUE)
                    IN IF sys_pipeFails(p)
                         THEN [ftable EXCEPT ![rf] = dropped(r), ![wf] = dropped(w)]
                         ELSE [ftable EXCEPT ![rf] = r, ![wf] = w]
       /\ pipes' = [pipes EXCEPT ![kalloc] = [readopen |-> TRUE, writeopen |-> TRUE, data |-> <<>>]]
       /\ UNCHANGED <<content, tty>>

\* Slip: only the end that is read is closed.
afterPipeRead(p) ==
  IF pipeallocFails \/ ~sys_pipeFails(p) THEN <<>>
  ELSE <<[op |-> "pipeclose", pipe |-> kalloc, writable |-> FALSE]>>

\* What is left of sys_pipe when it fails after pipealloc.
afterPipe(p) ==
  IF pipeallocFails \/ ~sys_pipeFails(p) THEN <<>>
  ELSE <<[op |-> "pipeclose", pipe |-> kalloc, writable |-> FALSE],
         [op |-> "pipeclose", pipe |-> kalloc, writable |-> TRUE]>>

-----------------------------------------------------------------------------
(* read and write *)

\* fileread of at most n bytes from f: it waits for a pipe that is empty and
\* still open for writing, and for the console.
readWaits(f) ==
  \/ ftable[f].type = "PIPE" /\ pipes[ftable[f].pipe].data = <<>> /\ pipes[ftable[f].pipe].writeopen
  \/ ftable[f].type = "INODE" /\ ftable[f].ip = "console"

readFails(p, fd) == argfd(p, fd) = 0 \/ ~ftable[argfd(p, fd)].readable

upTo(s, n) == SubSeq(s, 1, Min({n, Len(s)}))

readBytes(f, n) ==
  IF ftable[f].type = "PIPE" THEN upTo(pipes[ftable[f].pipe].data, n)
  ELSE LET c == content[ftable[f].ip] IN upTo(SubSeq(c, ftable[f].off + 1, Len(c)), n)

fileread(f, n) ==
  LET k == Len(readBytes(f, n))
  IN /\ IF ftable[f].type = "PIPE"
          THEN /\ pipes' = [pipes EXCEPT ![ftable[f].pipe].data = SubSeq(@, k + 1, Len(@))]
               /\ UNCHANGED ftable
          ELSE /\ ftable' = [ftable EXCEPT ![f].off = @ + k]
               /\ UNCHANGED pipes
     /\ UNCHANGED <<ofile, content, tty>>

\* bytes over what s has from position off on.
overlay(s, off, bytes) ==
  SubSeq(s, 1, off) \o bytes \o SubSeq(s, off + Len(bytes) + 1, Len(s))

Full(f) == ftable[f].type = "PIPE" /\ Len(pipes[ftable[f].pipe].data) = PIPESIZE

\* sys_write returns -1: no descriptor, another container, not writable, or
\* a full pipe nobody can read.
writeFails(p, fd) ==
  LET f == argfd(p, fd)
  IN \/ f = 0
     \/ /\ f # 0
        /\ containerID(f) # 0 \/ ~ftable[f].writable \/ (Full(f) /\ ~pipes[ftable[f].pipe].readopen)

\* The bytes filewrite can put away before it waits.
fits(f, bytes) ==
  IF ftable[f].type = "PIPE" THEN upTo(bytes, PIPESIZE - Len(pipes[ftable[f].pipe].data)) ELSE bytes

filewrite(f, bytes) ==
  /\ UNCHANGED ofile
  /\ IF ftable[f].type = "PIPE"
       THEN /\ pipes' = [pipes EXCEPT ![ftable[f].pipe].data = @ \o fits(f, bytes)]
            /\ UNCHANGED <<ftable, content, tty>>
     ELSE IF ftable[f].ip = "console"
       THEN tty' = tty \o bytes /\ UNCHANGED <<ftable, pipes, content>>
     ELSE /\ content' = [content EXCEPT ![ftable[f].ip] = overlay(@, ftable[f].off, bytes)]
          /\ ftable' = [ftable EXCEPT ![f].off = @ + Len(bytes)]
          /\ UNCHANGED <<pipes, tty>>
=============================================================================
