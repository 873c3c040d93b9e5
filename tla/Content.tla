------------------------------ MODULE Content -------------------------------
(***************************************************************************)
(* The content of files: how bmap, readi, writei and itrunc (fs.c) lay     *)
(* bytes out in direct and indirect blocks, how fileread and filewrite     *)
(* (file.c) move the offset, how dirlookup and dirlink use them for the    *)
(* root directory, and how mkfs builds the first image.  Each call holds   *)
(* the lock of its inode, and what it shares with other inodes is the      *)
(* bitmap, so that a call is one action; filewrite is one action for each  *)
(* transaction.  A directory entry is one byte, its name, which for the    *)
(* files of mkfs is the number of the file; 0 is a free entry.             *)
(***************************************************************************)
EXTENDS Integers, Sequences, FiniteSets, FiniteSetsExt

CONSTANTS
  BSIZE, NDIRECT,
  UINT,        \* 2^32 in the code
  nmeta, FSSIZE,
  Files, Root, Dots,   \* Dots: the first two entries of the root
  FileOf,      \* open file -> file
  Images,      \* the files given to mkfs: file -> bytes
  CHUNK,       \* the bytes filewrite puts into one transaction
  Writes,      \* the buffers programs write
  Reads,       \* the sizes programs read
  Names,       \* the entries programs make and remove
  Probes       \* offsets and sizes that exec takes from a program header

NINDIRECT == BSIZE
MAXFILE == NDIRECT + NINDIRECT
Blocks == 0..(FSSIZE - 1)
Opens == DOMAIN FileOf

VARIABLES
  fs,        \* the disk: size and addrs of the inodes, blocks, bitmap; panic
  off,       \* struct file
  rest,      \* open file -> what filewrite has still to write
  got

vars == <<fs, off, rest, got>>

zeroes == [i \in 1..BSIZE |-> 0]
Error == <<-1>>

overlay(s, at, src) == SubSeq(s, 1, at) \o src \o SubSeq(s, at + Len(src) + 1, Len(s))

-----------------------------------------------------------------------------
(* Blocks.  An operator on the disk returns it with the block it found. *)

with(s, addr) == [s |-> s, addr |-> addr]

\* Slip: the block keeps what it held.
ballocDirty(s) ==
  LET free == Blocks \ s.used
  IN IF free = {} THEN with([s EXCEPT !.panic = "balloc"], 0)
     ELSE with([s EXCEPT !.used = @ \cup {Min(free)}], Min(free))

balloc(s) ==
  LET free == Blocks \ s.used
  IN IF free = {} THEN with([s EXCEPT !.panic = "balloc"], 0)
     ELSE with([s EXCEPT !.used = @ \cup {Min(free)}, !.disk[Min(free)] = zeroes], Min(free))

direct(s, f, i) ==
  LET b == balloc(s)
  IN IF s.addrs[f][i] # 0 THEN with(s, s.addrs[f][i])
     ELSE with([b.s EXCEPT !.addrs[f][i] = b.addr], b.addr)

bmap(s, f, bn) ==
  IF bn < NDIRECT THEN direct(s, f, bn)
  ELSE IF bn < MAXFILE
    THEN LET ind == direct(s, f, NDIRECT)
             i == bn - NDIRECT + 1
             b == balloc(ind.s)
         IN IF ind.s.disk[ind.addr][i] # 0 THEN with(ind.s, ind.s.disk[ind.addr][i])
            ELSE with([b.s EXCEPT !.disk[ind.addr][i] = b.addr], b.addr)
    ELSE with([s EXCEPT !.panic = "bmap"], 0)

\* Slip: a transfer of a whole block at any offset.
stretchWhole(at, n) == Min({n, BSIZE})

\* The bytes of one turn of the loops of readi and writei.
stretch(at, n) == Min({n, BSIZE - (at % BSIZE)})

RECURSIVE writeBlocks(_, _, _, _)
writeBlocks(s, f, at, src) ==
  IF src = <<>> \/ s.panic # "no" THEN s
  ELSE LET b == bmap(s, f, at \div BSIZE)
           m == stretch(at, Len(src))
       IN writeBlocks([b.s EXCEPT !.disk[b.addr] = overlay(@, at % BSIZE, SubSeq(src, 1, m))],
                      f, at + m, SubSeq(src, m + 1, Len(src)))

RECURSIVE readBlocks(_, _, _, _)
readBlocks(s, f, at, n) ==
  IF n = 0 THEN <<>>
  ELSE LET b == bmap(s, f, at \div BSIZE)
           m == stretch(at, n)
       IN SubSeq(b.s.disk[b.addr], (at % BSIZE) + 1, (at % BSIZE) + m) \o readBlocks(b.s, f, at + m, n - m)

sum(at, n) == (at + n) % UINT

readi(s, f, at, n) ==
  IF at > s.size[f] \/ sum(at, n) < at THEN Error
  ELSE readBlocks(s, f, at, IF sum(at, n) > s.size[f] THEN s.size[f] - at ELSE n)

writeiFails(s, f, at, n) ==
  at > s.size[f] \/ sum(at, n) < at \/ sum(at, n) > MAXFILE * BSIZE

writei(s, f, at, src) ==
  LET t == writeBlocks(s, f, at, src)
  IN [t EXCEPT !.size[f] = IF src # <<>> /\ at + Len(src) > @ THEN at + Len(src) ELSE @]

\* The blocks an inode leads to, the indirect one included.
Indirect(s, f) == s.addrs[f][NDIRECT]
Holds(s, f) ==
  {s.addrs[f][i] : i \in 0..NDIRECT}
    \cup (IF Indirect(s, f) = 0 THEN {} ELSE {s.disk[Indirect(s, f)][i] : i \in 1..NINDIRECT})

\* Slip: the size stays.
itruncSized(s, f) ==
  [s EXCEPT !.used = @ \ (Holds(s, f) \ {0}), !.addrs[f] = [i \in 0..NDIRECT |-> 0]]

itrunc(s, f) ==
  [s EXCEPT !.used = @ \ (Holds(s, f) \ {0}), !.addrs[f] = [i \in 0..NDIRECT |-> 0], !.size[f] = 0]

-----------------------------------------------------------------------------
(* mkfs *)

\* A block of the image, which is all zero.
freshBlock(s, f, i) ==
  IF s.addrs[f][i] # 0 THEN with(s, s.addrs[f][i])
  ELSE with([s EXCEPT !.addrs[f][i] = s.freeblock, !.freeblock = @ + 1], s.freeblock)

RECURSIVE iappend(_, _, _)
iappend(s, f, src) ==
  IF src = <<>> THEN s
  ELSE LET at == s.size[f]
           fbn == at \div BSIZE
           ind == freshBlock(s, f, NDIRECT)
           i == fbn - NDIRECT + 1
           b == IF fbn < NDIRECT THEN freshBlock(s, f, fbn)
                ELSE IF ind.s.disk[ind.addr][i] # 0 THEN with(ind.s, ind.s.disk[ind.addr][i])
                ELSE with([ind.s EXCEPT !.disk[ind.addr][i] = ind.s.freeblock, !.freeblock = @ + 1],
                          ind.s.freeblock)
           n1 == Min({Len(src), (fbn + 1) * BSIZE - at})
       IN iappend([b.s EXCEPT !.disk[b.addr] = overlay(@, at % BSIZE, SubSeq(src, 1, n1)),
                              !.size[f] = at + n1],
                  f, SubSeq(src, n1 + 1, Len(src)))

\* For each file: its entry in the root directory, then its bytes.
RECURSIVE install(_, _, _)
install(s, image, todo) ==
  IF todo = {} THEN s
  ELSE LET f == Min(todo)
       IN install(iappend(iappend(s, Root, <<f>>), f, image[f]), image, todo \ {f})

\* balloc of mkfs: the bitmap when the first blocks are in use.
firstBlocks(used) == 0..(used - 1)

mkfs(image) ==
  LET empty == [size |-> [f \in Files |-> 0], addrs |-> [f \in Files |-> [i \in 0..NDIRECT |-> 0]],
                disk |-> [b \in Blocks |-> zeroes], freeblock |-> nmeta]
      s == install(iappend(empty, Root, Dots), image, Files \ {Root})
  IN [size |-> [s.size EXCEPT ![Root] = ((@ \div BSIZE) + 1) * BSIZE], addrs |-> s.addrs,
      disk |-> s.disk, used |-> firstBlocks(s.freeblock), panic |-> "no"]

Init ==
  /\ fs \in {mkfs(image) : image \in Images}
  /\ off = [d \in Opens |-> 0]
  /\ rest = [d \in Opens |-> <<>>]
  /\ got = <<>>

-----------------------------------------------------------------------------
(* System calls.  A panic stops the system before the transaction commits. *)

becomes(t) == fs' = IF t.panic = "no" THEN t ELSE [fs EXCEPT !.panic = t.panic]
Up == fs.panic = "no"

\* Another open of the file.  An open file at offset 0 with nothing to write
\* stands for one that is closed, too.
open(d) ==
  /\ Up /\ rest[d] = <<>>
  /\ off' = [off EXCEPT ![d] = 0]
  /\ UNCHANGED <<fs, rest, got>>

\* One turn of the loop of filewrite.
filewrite(d, src) ==
  LET n1 == Min({CHUNK, Len(src)})
      t == writei(fs, FileOf[d], off[d], SubSeq(src, 1, n1))
  IN /\ Up /\ src \in IF rest[d] = <<>> THEN Writes ELSE {rest[d]}
     /\ UNCHANGED got
     /\ IF writeiFails(fs, FileOf[d], off[d], n1)
          THEN rest' = [rest EXCEPT ![d] = <<>>] /\ UNCHANGED <<fs, off>>
          ELSE /\ becomes(t)
               /\ off' = IF t.panic = "no" THEN [off EXCEPT ![d] = @ + n1] ELSE off
               /\ rest' = IF t.panic = "no" THEN [rest EXCEPT ![d] = SubSeq(src, n1 + 1, Len(src))] ELSE rest

fileread(d, n) ==
  /\ Up /\ rest[d] = <<>>
  /\ got' = readi(fs, FileOf[d], off[d], n)
  /\ off' = [off EXCEPT ![d] = IF got' = Error THEN @ ELSE @ + Len(got')]
  /\ UNCHANGED <<fs, rest>>

\* readi by exec, at an offset and of a size it has read from the file.
probe(f, at, n) ==
  /\ Up
  /\ got' = readi(fs, f, at, n)
  /\ UNCHANGED <<fs, off, rest>>

entry(x) == {i \in 0..(fs.size[Root] - 1) : readi(fs, Root, i, 1) = <<x>>}

dirlookup(x) == entry(x) # {}

dirlink(x) ==
  LET at == IF entry(0) = {} THEN fs.size[Root] ELSE Min(entry(0))
  IN /\ Up /\ ~dirlookup(x)
     /\ becomes(IF writeiFails(fs, Root, at, 1) THEN [fs EXCEPT !.panic = "dirlink"]
                ELSE writei(fs, Root, at, <<x>>))
     /\ UNCHANGED <<off, rest, got>>

\* sys_unlink clears the entry.
unlink(x) ==
  /\ Up /\ dirlookup(x)
  /\ becomes(writei(fs, Root, Min(entry(x)), <<0>>))
  /\ UNCHANGED <<off, rest, got>>

\* iput of a file with no link, that nobody has open.
free(f) ==
  /\ Up /\ f # Root /\ fs.size[f] > 0
  /\ \A d \in Opens : FileOf[d] = f => off[d] = 0 /\ rest[d] = <<>>
  /\ fs' = itrunc(fs, f)
  /\ UNCHANGED <<off, rest, got>>

Next ==
  \/ \E d \in Opens : open(d) \/ \E n \in Reads : fileread(d, n)
  \/ \E d \in Opens : \E src \in Writes \cup {rest[d]} : filewrite(d, src)
  \/ \E f \in Files \ {Root}, at, n \in Probes : probe(f, at, n)
  \/ \E x \in Names : dirlink(x) \/ unlink(x)
  \/ \E f \in Files : free(f)

Spec == Init /\ [][Next]_vars

-----------------------------------------------------------------------------
(* Properties *)

Mapped(f, bn) ==
  IF bn < NDIRECT THEN fs.addrs[f][bn]
  ELSE IF Indirect(fs, f) = 0 THEN 0 ELSE fs.disk[Indirect(fs, f)][bn - NDIRECT + 1]

\* Sizes and block numbers are in range, an open file is never beyond the end
\* of its file, and the panic of bmap for a block past the largest file cannot
\* happen.
TypeOK ==
  /\ fs.panic \in {"no", "balloc", "dirlink"}
  /\ \A f \in Files : fs.size[f] \in 0..(MAXFILE * BSIZE) /\ Holds(fs, f) \subseteq Blocks
  /\ \A d \in Opens : off[d] \in 0..fs.size[FileOf[d]]

\* Every block is marked in the bitmap exactly when one inode, and only one
\* place in it, refers to it: the blocks that mkfs, bmap and itrunc hand out
\* and give back are neither lost nor shared, the indirect blocks included.
BlocksReferencedOnce ==
  LET places == {x \in Files \X (0..MAXFILE) : IF x[2] = MAXFILE THEN Indirect(fs, x[1]) # 0
                                               ELSE Mapped(x[1], x[2]) # 0}
      block(x) == IF x[2] = MAXFILE THEN Indirect(fs, x[1]) ELSE Mapped(x[1], x[2])
  IN /\ {block(x) : x \in places} = fs.used \ (0..(nmeta - 1))
     /\ Cardinality(places) = Cardinality({block(x) : x \in places})

\* Every block of a file below its size is there.  bmap allocates a block that
\* is missing even for readi, which fileread calls outside a transaction,
\* where log_write panics (log.c:220).
\* Included: the state is in its ranges.
SizeIsMapped ==
  /\ TypeOK
  /\ \A f \in Files : \A i \in 0..(fs.size[f] - 1) : Mapped(f, i \div BSIZE) # 0

Bytes(f) == [i \in 1..fs.size[f] |-> fs.disk[Mapped(f, (i - 1) \div BSIZE)][((i - 1) % BSIZE) + 1]]

\* The parts of a buffer that filewrite may write at once.
Parts == UNION {{SubSeq(src, i, j) : i, j \in DOMAIN src} : src \in Writes}

B == INSTANCE ByteFile WITH bytes <- [f \in Files |-> Bytes(f)], MaxBytes <- MAXFILE * BSIZE,
                            Sources <- Parts

\* The blocks implement files of bytes: every read returns what was written
\* last at that offset, across the border to the indirect block, in writes of
\* several transactions, for several open files, after truncation, and in the
\* image that mkfs leaves.
ImplementsByteFile == B!Spec
=============================================================================
