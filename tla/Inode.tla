------------------------------- MODULE Inode -------------------------------
(***************************************************************************)
(* Inodes, the inode cache and directories (fs.c), under the system calls  *)
(* that name, create, link, unlink, open and close files (sysfile.c).      *)
(*                                                                         *)
(* ip->lock is a sleep-lock: a process that finds it taken waits, so       *)
(* taking it is a guard.  What a process does under locks it already holds *)
(* is one action up to the next lock it must take; the icache.lock         *)
(* sections of iput, which its callers interleave with, are actions of     *)
(* their own.  Every call is one transaction of the log (module Log), so a *)
(* crash leaves the disk as it is in a state with no call in progress.     *)
(***************************************************************************)
EXTENDS Naturals, Sequences, FiniteSets, FiniteSetsExt

CONSTANTS
  Procs, Names,
  NINODES,    \* sb.ninodes: inodes 1 .. NINODES on the disk
  NINODE,     \* size of icache.inode
  NBLOCKS,    \* data blocks on the disk
  MAXFILE,    \* blocks of a file
  Calls,      \* the system calls that each process makes, with their paths
  Container,  \* the container each process is in
  Tagged,     \* Tagged[c][n]: the name n followed by the digit of container c
  MaxCalls    \* bound: the calls that each process makes

VARIABLES
  dinode,     \* disk: type, nlink and addrs of each inode
  dents,      \* disk: the directory entries of each directory
  bitmap,     \* disk: the blocks in use
  ic,         \* icache.inode
  cwd, fd,    \* per process: its directory and its one open file,
  writable,   \*   which may be open for writing
  pc, call,   \* per process: where it is in which system call,
  path,       \*   the rest of the path that namex walks,
  dp, ip,     \*   the directory at hand and the inode found (cache entries),
  put, ret,   \*   the entry that iput is called for and where it returns to
  inum,       \*   the inode number that ialloc has taken
  panic,
  ncalls      \* per process: the calls it has begun

disk == <<dinode, dents, bitmap>>
open == <<cwd, fd, writable>>
vars == <<disk, ic, open, pc, call, path, dp, ip, put, ret, inum, panic, ncalls>>

Inums == 1..NINODES
Entries == 1..NINODE
Blocks == 1..NBLOCKS
ROOTINO == 1
None == 0
Dots == {".", ".."}

NoInode == [type |-> "none", nlink |-> 0, addrs |-> {}]
EmptyDir == [n \in Names \cup Dots |-> None]
NoEntry == [inum |-> None, ref |-> 0, lock |-> None, valid |-> FALSE, ino |-> NoInode,
            containerID |-> 0]
NoCall == [op |-> "none"]

\* Paths are not empty.  The last name of a path that sys_open tags is no dot.
ASSUME InodeConstants ==
  /\ NINODES \in Nat \ {0} /\ NINODE \in Nat \ {0} /\ NBLOCKS \in Nat \ {0}
  /\ IsFiniteSet(Procs) /\ None \notin Procs
  /\ IsFiniteSet(Names) /\ Names \cap Dots = {}
  /\ Container \in [Procs -> Nat]
  /\ \A p \in Procs : Tagged[Container[p]] \in [Names -> Names]
  /\ \A p \in Procs : \A c \in Calls[p] :
       /\ c.op \in {"open", "chdir", "mknod", "unlink", "link"}
       /\ c.path \in Seq(Names \cup Dots) \ {<<>>}
       /\ c.op = "open" => c.create \in BOOLEAN /\ c.rdonly \in BOOLEAN
                          /\ (c.path[1] \in Dots \/ c.path[Len(c.path)] \in Names)
       /\ c.op = "mknod" => c.type \in {"DIR", "DEV"}
       /\ c.op = "link" => c.new \in Seq(Names \cup Dots) \ {<<>>}

\* What mkfs and userinit leave: the root directory, which is everyone's cwd.
Init ==
  /\ dinode = [i \in Inums |-> IF i = ROOTINO
                 THEN [type |-> "DIR", nlink |-> 1, addrs |-> {1}] ELSE NoInode]
  /\ dents = [i \in Inums |-> IF i = ROOTINO
                THEN [n \in Names \cup Dots |-> IF n \in Dots THEN ROOTINO ELSE None]
                ELSE EmptyDir]
  /\ bitmap = {1}
  /\ ic = [e \in Entries |-> IF e # 1 THEN NoEntry
             ELSE [NoEntry EXCEPT !.inum = ROOTINO, !.ref = Cardinality(Procs)]]
  /\ cwd = [p \in Procs |-> 1] /\ fd = [p \in Procs |-> None]
  /\ writable = [p \in Procs |-> FALSE]
  /\ pc = [p \in Procs |-> "idle"] /\ call = [p \in Procs |-> NoCall]
  /\ path = [p \in Procs |-> <<>>]
  /\ dp = [p \in Procs |-> None] /\ ip = [p \in Procs |-> None]
  /\ put = [p \in Procs |-> None] /\ ret = [p \in Procs |-> "idle"]
  /\ inum = [p \in Procs |-> None]
  /\ panic = ""
  /\ ncalls = [p \in Procs |-> 0]

(***************************************************************************)
(* The inode cache.  Locked and Seen are ic after ilock, and after ilock   *)
(* and iunlock: the inode has been read from the disk if it was not valid. *)
(***************************************************************************)
Free(e) == ic[e].lock = None
Ino(e) == IF ic[e].valid THEN ic[e].ino ELSE dinode[ic[e].inum]
Seen(c, e) == [c EXCEPT ![e].valid = TRUE, ![e].ino = Ino(e)]
Locked(c, e, p) == [Seen(c, e) EXCEPT ![e].lock = p]
Unlocked(c, e) == [c EXCEPT ![e].lock = None]

\* ic after the inode of e has become x and iupdate has written it back.
Changed(c, e, x) == [c EXCEPT ![e].valid = TRUE, ![e].ino = x]
iupdate(e, x) == dinode' = [dinode EXCEPT ![ic[e].inum] = x]

\* Slip: an entry that is in use but not yet read from the disk is overlooked.
CachedValid(i) == {e \in Entries : ic[e].ref > 0 /\ ic[e].valid /\ ic[e].inum = i}

Cached(i) == {e \in Entries : ic[e].ref > 0 /\ ic[e].inum = i}

Empty == {e \in Entries : ic[e].ref = 0}
CanGet(i) == Cached(i) # {} \/ Empty # {}
Got(i) == IF Cached(i) # {} THEN Min(Cached(i)) ELSE Min(Empty)

\* ic after iget(i); a recycled entry keeps its containerID.
iget(c, i) ==
  IF Cached(i) # {}
    THEN [c EXCEPT ![Got(i)].ref = @ + 1]
    ELSE [c EXCEPT ![Got(i)].inum = i, ![Got(i)].ref = 1, ![Got(i)].valid = FALSE]

idup(c, e) == [c EXCEPT ![e].ref = @ + 1]

at(p, l) == panic = "" /\ pc[p] = l
goto(p, l) == pc' = [pc EXCEPT ![p] = l]

\* Call iput(e) and go on at l.
iputThen(p, e, l) ==
  /\ goto(p, "put")
  /\ put' = [put EXCEPT ![p] = e]
  /\ ret' = [ret EXCEPT ![p] = l]

Panic(msg) ==
  /\ panic' = msg
  /\ UNCHANGED <<disk, ic, open, pc, call, path, dp, ip, put, ret, inum, ncalls>>

(***************************************************************************)
(* iput: test under ip->lock, perhaps free the inode, and only then, with  *)
(* the lock released, drop the reference.                                  *)
(***************************************************************************)
\* Slip: other references are not looked for.
LastLinked(e) == ic[e].valid /\ ic[e].ino.nlink = 0

LastRef(e) == ic[e].valid /\ ic[e].ino.nlink = 0 /\ ic[e].ref = 1

iput(p) ==
  /\ at(p, "put") /\ Free(put[p])
  /\ IF LastRef(put[p])
       THEN ic' = [ic EXCEPT ![put[p]].lock = p] /\ goto(p, "free")
       ELSE goto(p, "dec") /\ UNCHANGED ic
  /\ UNCHANGED <<disk, open, call, path, dp, ip, put, ret, inum, panic, ncalls>>

\* Slip: the blocks of the file stay marked in the bitmap.
noFree(e) == UNCHANGED bitmap

\* itrunc
itrunc(e) == bitmap' = bitmap \ ic[e].ino.addrs

iputFree(p) ==
  LET e == put[p] IN
  /\ at(p, "free")
  /\ itrunc(e)
  /\ dinode' = [dinode EXCEPT ![ic[e].inum] = NoInode]
  /\ dents' = [dents EXCEPT ![ic[e].inum] = EmptyDir]
  /\ ic' = [ic EXCEPT ![e].valid = FALSE, ![e].ino = NoInode, ![e].lock = None]
  /\ goto(p, "dec")
  /\ UNCHANGED <<open, call, path, dp, ip, put, ret, inum, panic, ncalls>>

\* The call returns when iput returns to "idle".  Of an entry without references
\* only containerID is ever read again.
iputDec(p) ==
  LET e == ic[put[p]] IN
  /\ at(p, "dec")
  /\ ic' = [ic EXCEPT ![put[p]] = IF e.ref > 1 THEN [e EXCEPT !.ref = @ - 1]
                                  ELSE [NoEntry EXCEPT !.containerID = e.containerID]]
  /\ put' = [put EXCEPT ![p] = None]
  /\ goto(p, ret[p])
  /\ IF ret[p] = "idle"
       THEN call' = [call EXCEPT ![p] = NoCall] /\ path' = [path EXCEPT ![p] = <<>>]
       ELSE UNCHANGED <<call, path>>
  /\ ret' = [ret EXCEPT ![p] = "idle"]
  /\ UNCHANGED <<disk, open, dp, ip, inum, panic, ncalls>>

(***************************************************************************)
(* A call starts to walk its path from cwd.  sys_open puts the container's *)
(* digit behind the path, and turns any path that begins with a dot into   *)
(* ".".                                                                    *)
(***************************************************************************)
openPath(c, s) ==
  IF s[1] \in Dots THEN <<".">> ELSE [s EXCEPT ![Len(s)] = Tagged[c][@]]

begin(p, c) ==
  /\ at(p, "idle") /\ ncalls[p] < MaxCalls[p]
  /\ ncalls' = [ncalls EXCEPT ![p] = @ + 1]
  /\ call' = [call EXCEPT ![p] = c]
  /\ path' = [path EXCEPT ![p] =
                IF c.op = "open" THEN openPath(Container[p], c.path) ELSE c.path]
  /\ ic' = idup(ic, cwd[p])
  /\ dp' = [dp EXCEPT ![p] = cwd[p]]
  /\ goto(p, "walk")
  /\ UNCHANGED <<disk, open, ip, put, ret, inum, panic>>

\* Does namex stop one level early?  In sys_link it does for the second path.
Parent(p) ==
  \/ call[p].op \in {"mknod", "unlink"}
  \/ call[p].op = "open" /\ call[p].create
  \/ call[p].op = "link" /\ ip[p] # None

Name(p) == Head(path[p])
IsDir(e) == Ino(e).type = "DIR"

\* dirlookup in the directory at hand
Found(p) == dents[ic[dp[p]].inum][Name(p)]

AtLast(p) == Parent(p) /\ Len(path[p]) = 1

\* Where namei and nameiparent return.  nameiparent has locked dp just to see
\* that it is a directory, which it stays; the caller locks it again.
found(p) == at(p, "walk") /\ path[p] = <<>> /\ Free(dp[p])
parent(p) == at(p, "walk") /\ AtLast(p) /\ Free(dp[p]) /\ IsDir(dp[p])

Fails(p) == IF call[p].op = "link" /\ ip[p] # None THEN "undo" ELSE "idle"

walk(p) ==
  /\ at(p, "walk") /\ path[p] # <<>> /\ ~AtLast(p)
  /\ Free(dp[p]) /\ IsDir(dp[p]) /\ Found(p) # None /\ CanGet(Found(p))
  /\ ic' = iget(Seen(ic, dp[p]), Found(p))
  /\ dp' = [dp EXCEPT ![p] = Got(Found(p))]
  /\ path' = [path EXCEPT ![p] = Tail(@)]
  /\ iputThen(p, dp[p], "walk")
  /\ UNCHANGED <<disk, open, call, ip, inum, panic, ncalls>>

walkFail(p) ==
  /\ at(p, "walk") /\ path[p] # <<>> /\ Free(dp[p])
  /\ ~IsDir(dp[p]) \/ (~AtLast(p) /\ Found(p) = None)
  /\ ic' = Seen(ic, dp[p])
  /\ dp' = [dp EXCEPT ![p] = None]
  /\ iputThen(p, dp[p], Fails(p))
  /\ UNCHANGED <<disk, open, call, path, ip, inum, panic, ncalls>>

\* Every dirlookup that finds the name needs a cache entry.
igetPanic(p) ==
  /\ \/ /\ at(p, "walk") /\ path[p] # <<>> /\ ~AtLast(p) /\ Free(dp[p]) /\ IsDir(dp[p])
        /\ Found(p) # None /\ ~CanGet(Found(p))
     \/ /\ parent(p) /\ ~(call[p].op = "unlink" /\ Name(p) \in Dots)
        /\ Found(p) # None /\ ~CanGet(Found(p))
     \/ at(p, "ialloc") /\ ~CanGet(inum[p])
  /\ Panic("iget: no inodes")

(***************************************************************************)
(* sys_open, without O_CREATE or of a file that exists, and sys_chdir.  A  *)
(* process has one descriptor here, so that a second open fails in fdalloc. *)
(***************************************************************************)
opens(p, e) ==
  /\ fd' = [fd EXCEPT ![p] = e]
  /\ writable' = [writable EXCEPT ![p] = ~call[p].rdonly]
  /\ goto(p, "idle")
  /\ call' = [call EXCEPT ![p] = NoCall] /\ path' = [path EXCEPT ![p] = <<>>]
  /\ UNCHANGED <<cwd, put, ret>>

\* iunlockput and return -1
gives(p, e) == iputThen(p, e, "idle") /\ UNCHANGED <<open, call, path>>

sys_open(p) ==
  /\ found(p) /\ call[p].op = "open"
  /\ ic' = Seen(ic, dp[p])
  /\ dp' = [dp EXCEPT ![p] = None]
  /\ IF fd[p] = None /\ (IsDir(dp[p]) => call[p].rdonly)
       THEN opens(p, dp[p]) ELSE gives(p, dp[p])
  /\ UNCHANGED <<disk, ip, inum, panic, ncalls>>

sys_chdir(p) ==
  /\ found(p) /\ call[p].op = "chdir"
  /\ ic' = Seen(ic, dp[p])
  /\ dp' = [dp EXCEPT ![p] = None]
  /\ IF IsDir(dp[p])
       THEN cwd' = [cwd EXCEPT ![p] = dp[p]] /\ iputThen(p, cwd[p], "idle")
       ELSE iputThen(p, dp[p], "idle") /\ UNCHANGED cwd
  /\ UNCHANGED <<disk, fd, writable, call, path, ip, inum, panic, ncalls>>

\* sys_close of the last reference; a file of another container stays open.
sys_close(p) ==
  /\ at(p, "idle") /\ fd[p] # None
  /\ Container[p] = ic[fd[p]].containerID
  /\ fd' = [fd EXCEPT ![p] = None] /\ writable' = [writable EXCEPT ![p] = FALSE]
  /\ iputThen(p, fd[p], "idle")
  /\ UNCHANGED <<disk, ic, cwd, call, path, dp, ip, inum, panic, ncalls>>

\* balloc
FirstFree == Min(Blocks \ bitmap)

CanGrow(p) ==
  /\ at(p, "idle") /\ fd[p] # None /\ writable[p]
  /\ ic[fd[p]].containerID \in {0, Container[p]}
  /\ Free(fd[p]) /\ Ino(fd[p]).type = "FILE"
  /\ Cardinality(Ino(fd[p]).addrs) < MAXFILE

\* sys_write and filewrite that makes the file one block longer (writei, bmap, balloc).
filewrite(p) ==
  LET e == fd[p]
      x == [Ino(e) EXCEPT !.addrs = @ \cup {FirstFree}] IN
  /\ CanGrow(p) /\ bitmap # Blocks
  /\ bitmap' = bitmap \cup {FirstFree}
  /\ iupdate(e, x) /\ ic' = Changed(ic, e, x)
  /\ UNCHANGED <<dents, open, pc, call, path, dp, ip, put, ret, inum, panic, ncalls>>

(***************************************************************************)
(* create, for sys_open with O_CREATE, sys_mkdir and sys_mknod.            *)
(***************************************************************************)
Creates(p) == call[p].op = "mknod" \/ (call[p].op = "open" /\ call[p].create)

createFound(p) ==
  /\ parent(p) /\ Creates(p)
  /\ Found(p) # None /\ CanGet(Found(p))
  /\ ic' = iget(Seen(ic, dp[p]), Found(p))
  /\ ip' = [ip EXCEPT ![p] = Got(Found(p))]
  /\ dp' = [dp EXCEPT ![p] = None]
  /\ iputThen(p, dp[p], "exists")
  /\ UNCHANGED <<disk, open, call, path, inum, panic, ncalls>>

createExists(p) ==
  /\ at(p, "exists") /\ Free(ip[p])
  /\ ic' = Seen(ic, ip[p])
  /\ ip' = [ip EXCEPT ![p] = None]
  /\ IF call[p].op = "open" /\ Ino(ip[p]).type = "FILE" /\ fd[p] = None
       THEN opens(p, ip[p]) ELSE gives(p, ip[p])
  /\ UNCHANGED <<disk, dp, inum, panic, ncalls>>

Unused == {i \in Inums : dinode[i].type = "none"}
NewType(p) == IF call[p].op = "open" THEN "FILE" ELSE call[p].type

\* dp is locked and ialloc marks an inode on the disk...
ialloc(p) ==
  /\ parent(p) /\ Creates(p) /\ Found(p) = None
  /\ Unused # {}
  /\ ic' = Locked(ic, dp[p], p)
  /\ dinode' = [dinode EXCEPT ![Min(Unused)] = [NoInode EXCEPT !.type = NewType(p)]]
  /\ inum' = [inum EXCEPT ![p] = Min(Unused)]
  /\ goto(p, "ialloc")
  /\ UNCHANGED <<dents, bitmap, open, call, path, dp, ip, put, ret, panic, ncalls>>

\* ...and gets a cache entry for it.
iallocGet(p) ==
  /\ at(p, "ialloc") /\ CanGet(inum[p])
  /\ ic' = iget(ic, inum[p])
  /\ ip' = [ip EXCEPT ![p] = Got(inum[p])]
  /\ inum' = [inum EXCEPT ![p] = None]
  /\ goto(p, "create")
  /\ UNCHANGED <<disk, open, call, path, dp, put, ret, panic, ncalls>>

\* The new inode is locked and filled in, a directory with its dots, and
\* entered in dp; then dp is given back while the new inode stays locked.
create(p) ==
  LET d == dp[p]  e == ip[p]  i == ic[ip[p]].inum
      dir == NewType(p) = "DIR"
      new == IF dir THEN {FirstFree} ELSE {}
      x == [Ino(e) EXCEPT !.nlink = 1, !.addrs = @ \cup new]
      y == [Ino(d) EXCEPT !.nlink = IF dir THEN @ + 1 ELSE @] IN
  /\ at(p, "create") /\ Free(e) /\ (dir => bitmap # Blocks)
  /\ bitmap' = bitmap \cup new
  /\ dinode' = [dinode EXCEPT ![i] = x, ![ic[d].inum] = y]
  /\ dents' = [dents EXCEPT ![ic[d].inum][Name(p)] = i,
                            ![i]["."] = IF dir THEN i ELSE None,
                            ![i][".."] = IF dir THEN ic[d].inum ELSE None]
  /\ ic' = [Unlocked(Changed(Changed(ic, e, x), d, y), d)
              EXCEPT ![e].lock = p, ![e].containerID = Container[p]]
  /\ dp' = [dp EXCEPT ![p] = None]
  /\ iputThen(p, d, "created")
  /\ UNCHANGED <<open, call, path, ip, inum, panic, ncalls>>

created(p) ==
  /\ at(p, "created")
  /\ ic' = Unlocked(ic, ip[p])
  /\ ip' = [ip EXCEPT ![p] = None]
  /\ IF call[p].op = "open" /\ fd[p] = None THEN opens(p, ip[p]) ELSE gives(p, ip[p])
  /\ UNCHANGED <<disk, dp, inum, panic, ncalls>>

\* ialloc finds no inode, or balloc no block for a directory's dots or a write.
spacePanic(p) ==
  /\ \/ parent(p) /\ Creates(p) /\ Found(p) = None /\ Unused = {}
     \/ at(p, "create") /\ Free(ip[p]) /\ NewType(p) = "DIR" /\ bitmap = Blocks
     \/ CanGrow(p) /\ bitmap = Blocks
  /\ Panic("no space")

(***************************************************************************)
(* sys_unlink: dp is locked from here until its entry is cleared.          *)
(***************************************************************************)
unlinkMiss(p) ==
  /\ parent(p) /\ call[p].op = "unlink"
  /\ Name(p) \in Dots \/ Found(p) = None
  /\ ic' = Seen(ic, dp[p])
  /\ dp' = [dp EXCEPT ![p] = None]
  /\ gives(p, dp[p])
  /\ UNCHANGED <<disk, ip, inum, panic, ncalls>>

unlinkFind(p) ==
  /\ parent(p) /\ call[p].op = "unlink"
  /\ Name(p) \notin Dots /\ Found(p) # None /\ CanGet(Found(p))
  /\ ic' = iget(Locked(ic, dp[p], p), Found(p))
  /\ ip' = [ip EXCEPT ![p] = Got(Found(p))]
  /\ goto(p, "unlink")
  /\ UNCHANGED <<disk, open, call, path, dp, put, ret, inum, panic, ncalls>>

isdirempty(i) == \A n \in Names : dents[i][n] = None
Full(e) == IsDir(e) /\ ~isdirempty(ic[e].inum)

unlinkFull(p) ==
  /\ at(p, "unlink") /\ Free(ip[p]) /\ Full(ip[p])
  /\ ic' = Seen(ic, ip[p])
  /\ ip' = [ip EXCEPT ![p] = None]
  /\ iputThen(p, ip[p], "bad")
  /\ UNCHANGED <<disk, open, call, path, dp, inum, panic, ncalls>>

unlinkBad(p) ==
  /\ at(p, "bad")
  /\ ic' = Unlocked(ic, dp[p])
  /\ dp' = [dp EXCEPT ![p] = None]
  /\ gives(p, dp[p])
  /\ UNCHANGED <<disk, ip, inum, panic, ncalls>>

\* The entry is cleared and dp given back while ip stays locked.
unlink(p) ==
  LET d == dp[p]  e == ip[p]
      y == [Ino(d) EXCEPT !.nlink = IF IsDir(e) THEN @ - 1 ELSE @] IN
  /\ at(p, "unlink") /\ Free(e) /\ ~Full(e)
  /\ dents' = [dents EXCEPT ![ic[d].inum][Name(p)] = None]
  /\ iupdate(d, y)
  /\ ic' = Unlocked(Changed(Locked(ic, e, p), d, y), d)
  /\ dp' = [dp EXCEPT ![p] = None]
  /\ iputThen(p, d, "unlinked")
  /\ UNCHANGED <<bitmap, open, call, path, ip, inum, panic, ncalls>>

\* Slip: the link count is not written back.
noUpdate(e, x) == UNCHANGED dinode

unlinkUpdate(e, x) == iupdate(e, x)

unlinked(p) ==
  LET x == [Ino(ip[p]) EXCEPT !.nlink = @ - 1] IN
  /\ at(p, "unlinked")
  /\ unlinkUpdate(ip[p], x)
  /\ ic' = Unlocked(Changed(ic, ip[p], x), ip[p])
  /\ ip' = [ip EXCEPT ![p] = None]
  /\ gives(p, ip[p])
  /\ UNCHANGED <<dents, bitmap, dp, inum, panic, ncalls>>

(***************************************************************************)
(* sys_link: count the new link first, then enter it, or take it back.     *)
(***************************************************************************)
\* Slip: the file stays locked while the directory is looked up.
raisedLocked(p, e, x) == [Changed(ic, e, x) EXCEPT ![e].lock = p]

\* ic with one link more in e, which is unlocked again.
raised(p, e, x) == Changed(ic, e, x)

linkOld(p) ==
  LET e == dp[p]  x == [Ino(e) EXCEPT !.nlink = @ + 1] IN
  /\ found(p) /\ call[p].op = "link"
  /\ IF IsDir(e)
       THEN /\ ic' = Seen(ic, e)
            /\ dp' = [dp EXCEPT ![p] = None]
            /\ gives(p, e)
            /\ UNCHANGED <<dinode, ip>>
       ELSE /\ iupdate(e, x)
            /\ ic' = idup(raised(p, e, x), cwd[p])
            /\ ip' = [ip EXCEPT ![p] = e]
            /\ dp' = [dp EXCEPT ![p] = cwd[p]]
            /\ path' = [path EXCEPT ![p] = call[p].new]
            /\ goto(p, "walk")
            /\ UNCHANGED <<open, call, put, ret>>
  /\ UNCHANGED <<dents, bitmap, inum, panic, ncalls>>

linkNew(p) ==
  /\ parent(p) /\ call[p].op = "link" /\ Found(p) = None
  /\ dents' = [dents EXCEPT ![ic[dp[p]].inum][Name(p)] = ic[ip[p]].inum]
  /\ ic' = Seen(ic, dp[p])
  /\ dp' = [dp EXCEPT ![p] = None]
  /\ iputThen(p, dp[p], "linked")
  /\ UNCHANGED <<dinode, bitmap, open, call, path, ip, inum, panic, ncalls>>

linked(p) ==
  /\ at(p, "linked")
  /\ ip' = [ip EXCEPT ![p] = None]
  /\ gives(p, ip[p])
  /\ UNCHANGED <<disk, ic, dp, inum, panic, ncalls>>

\* dirlink finds the name taken: it gives back what is there while dp is locked.
linkClash(p) ==
  /\ parent(p) /\ call[p].op = "link"
  /\ Found(p) # None /\ CanGet(Found(p))
  /\ ic' = iget(Locked(ic, dp[p], p), Found(p))
  /\ iputThen(p, Got(Found(p)), "clash")
  /\ UNCHANGED <<disk, open, call, path, dp, ip, inum, panic, ncalls>>

linkBad(p) ==
  /\ at(p, "clash")
  /\ ic' = Unlocked(ic, dp[p])
  /\ dp' = [dp EXCEPT ![p] = None]
  /\ iputThen(p, dp[p], "undo")
  /\ UNCHANGED <<disk, open, call, path, ip, inum, panic, ncalls>>

linkUndo(p) ==
  LET x == [Ino(ip[p]) EXCEPT !.nlink = @ - 1] IN
  /\ at(p, "undo") /\ Free(ip[p])
  /\ iupdate(ip[p], x)
  /\ ic' = Changed(ic, ip[p], x)
  /\ ip' = [ip EXCEPT ![p] = None]
  /\ gives(p, ip[p])
  /\ UNCHANGED <<dents, bitmap, dp, inum, panic, ncalls>>

-----------------------------------------------------------------------------
Walk(p) == walk(p) \/ walkFail(p) \/ igetPanic(p)
Iput(p) == iput(p) \/ iputFree(p) \/ iputDec(p)
Open(p) == sys_open(p) \/ sys_chdir(p) \/ sys_close(p) \/ filewrite(p)
Create(p) ==
  \/ createFound(p) \/ createExists(p) \/ ialloc(p) \/ iallocGet(p)
  \/ create(p) \/ created(p) \/ spacePanic(p)
Unlink(p) ==
  unlinkMiss(p) \/ unlinkFind(p) \/ unlinkFull(p) \/ unlinkBad(p) \/ unlink(p) \/ unlinked(p)
Link(p) ==
  linkOld(p) \/ linkNew(p) \/ linked(p) \/ linkClash(p) \/ linkBad(p) \/ linkUndo(p)

Next ==
  \E p \in Procs :
    \/ \E c \in Calls[p] : begin(p, c)
    \/ Walk(p) \/ Iput(p) \/ Open(p) \/ Create(p) \/ Unlink(p) \/ Link(p)

Spec == Init /\ [][Next]_vars

-----------------------------------------------------------------------------
(* Properties *)

Labels == {"idle", "walk", "put", "free", "dec", "exists", "ialloc",
           "create", "created", "unlink", "bad", "unlinked", "linked", "clash", "undo"}
Dinode == [type : {"none", "FILE", "DIR", "DEV"}, nlink : Nat, addrs : SUBSET Blocks]

\* The disk, the cache and the system calls stay in their ranges; no count
\* goes below zero.
TypeOK ==
  /\ dinode \in [Inums -> Dinode] /\ bitmap \subseteq Blocks
  /\ dents \in [Inums -> [Names \cup Dots -> Inums \cup {None}]]
  /\ \A e \in Entries :
       /\ ic[e].inum \in Inums \cup {None} /\ ic[e].ref \in Nat /\ ic[e].ino \in Dinode
       /\ ic[e].lock \in Procs \cup {None} /\ ic[e].valid \in BOOLEAN
  /\ pc \in [Procs -> Labels]
  /\ \A v \in {fd, dp, ip, put} : v \in [Procs -> Entries \cup {None}]
  /\ cwd \in [Procs -> Entries] /\ inum \in [Procs -> Inums \cup {None}]

\* The pointers to cache entries that a process has.
Pointer(p, v) == <<cwd[p], fd[p], dp[p], ip[p], put[p]>>[v]

\* ip->ref is the number of pointers to the entry: open files, current
\* directories and the variables of calls in progress (fs.c: "ip->ref tracks
\* the number of in-memory pointers to the entry").  No inode is in two
\* entries, so that ip->lock really excludes.
RefsCounted ==
  /\ \A e \in Entries :
       ic[e].ref = Cardinality({r \in Procs \X (1..5) : Pointer(r[1], r[2]) = e})
  /\ \A e, f \in Entries :
       ic[e].ref > 0 /\ ic[f].ref > 0 /\ ic[e].inum = ic[f].inum => e = f

\* The inode of every pointer exists on the disk, in an entry that agrees with
\* it ("i-node cache is write-through"): iput frees no inode that a process
\* can still reach, and the panics "ilock: no type" and "unlink: nlink < 1"
\* cannot happen.  This is for calls whose paths have no "..": the parent of a
\* directory that was removed while it was somebody's cwd may be gone as well.
InUseExists ==
  /\ \A p \in Procs, v \in 1..4 :
       LET e == Pointer(p, v) IN
       e # None => Ino(e).type # "none" /\ Ino(e) = dinode[ic[e].inum]
  /\ \A p \in Procs : pc[p] = "unlink" /\ Free(ip[p]) => Ino(ip[p]).nlink > 0

Quiet == \A p \in Procs : pc[p] = "idle"
Linked(i) ==
  {x \in Inums \X (Names \cup {".."}) : dinode[x[1]].nlink > 0 /\ dents[x[1]][x[2]] = i}

\* With no call in progress, which is when a transaction commits, the link
\* count of every inode is the number of directory entries for it.
\* Included: the state is in its ranges, so that no count goes below zero.
LinksMatch ==
  /\ TypeOK
  /\ Quiet => \A i \in Inums : dinode[i].nlink = Cardinality(Linked(i))

\* A block belongs to one inode at most, and exactly the blocks of inodes are
\* marked in the bitmap: nothing is lost, nothing is freed twice.
BlocksOwned ==
  /\ bitmap = UNION {dinode[i].addrs : i \in Inums}
  /\ \A i, j \in Inums : i # j => dinode[i].addrs \cap dinode[j].addrs = {}

\* "If that was the last reference and the inode has no links to it, free the
\* inode (and its content) on disk" (iput, fs.c:328-329): with no call in
\* progress, an inode without links is referenced or free.
LastPutFrees ==
  Quiet => \A i \in Inums :
    dinode[i].type # "none" /\ dinode[i].nlink = 0 => Cached(i) # {}

\* The entry whose lock p waits for, if any.
Wants(p) ==
  CASE pc[p] = "put" -> put[p]
    [] pc[p] = "walk" -> dp[p]
    [] pc[p] \in {"exists", "create", "unlink", "undo"} -> ip[p]
    [] OTHER -> None

\* Processes that wait for each other's inode locks in a circle.
Circles ==
  {S \in (SUBSET Procs) \ {{}} : \A p \in S : Wants(p) # None /\ ic[Wants(p)].lock \in S}

\* Every circle goes through an iput() that create() or sys_unlink() calls with
\* another lock held (sysfile.c:307, 249): the walks, sys_link and the rest of
\* create and unlink take a directory before what is in it, so that they never
\* wait for each other for ever.
CirclesNeedPut ==
  \A S \in Circles : \E p \in S : pc[p] = "put" /\ \E e \in Entries : ic[e].lock = p

\* No circle at all: what the test linkunlink looks for ("another concurrent
\* link/unlink/create test, to look for deadlocks", usertests.c:855-856).
NoCircularWait == Circles = {}
=============================================================================
