---------------------------- MODULE InodeProofs ----------------------------
(***************************************************************************)
(* Machine-checked proofs about the inode cache, for every number of       *)
(* processes, cache entries, inodes and blocks, and for every set of calls.*)
(* What is on the disk does not matter for them.                           *)
(***************************************************************************)
EXTENDS Inode, TLAPS

\* A table of cache entries.
Fields == {"inum", "ref", "lock", "valid", "ino", "containerID"}
Table(c) == c = [e \in Entries |-> c[e]] /\ \A e \in Entries : DOMAIN c[e] = Fields

InPut == {"put", "free", "dec"}
Path == Seq(Names \cup Dots)
Pointers == Entries \cup {None}

\* Where a process with pc = l and ret = r is, or is to go on after iput.
Stage(l, r) == IF l \in InPut THEN r ELSE l

\* The stages at which dp and ip are in use, and those at which they are locked.
DpStages == {"walk", "ialloc", "create", "unlink", "bad", "clash"}
IpStages == {"exists", "create", "created", "unlink", "unlinked", "linked", "clash", "undo"}
DpLocked == {"ialloc", "create", "unlink", "bad", "clash"}
IpLocked == {"created", "unlinked"}

ToParent(k, i) ==
  k.op \in {"mknod", "unlink"} \/ (k.op = "open" /\ k.create) \/ (k.op = "link" /\ i # None)

\* The values that p may have in cwd, fd, dp, ip, put, pc, ret, call and path.
\* iput does not lock what p has locked already.
Fits(p, c, f, d, i, u, l, r, k, s) ==
  /\ c \in Entries /\ f \in Pointers /\ d \in Pointers /\ i \in Pointers /\ u \in Pointers
  /\ l \in Labels /\ r \in Labels \ InPut /\ s \in Path
  /\ u # None <=> l \in InPut
  /\ d # None <=> Stage(l, r) \in DpStages
  /\ i # None => Stage(l, r) \in IpStages \cup {"walk"}
  /\ Stage(l, r) \in IpStages => i # None
  /\ Stage(l, r) = "walk" =>
       k \in Calls[p] /\ (i # None => k.op = "link") /\ (ToParent(k, i) => s # <<>>)
  /\ l = "free" => /\ Stage(l, r) \in DpLocked => d # u
                   /\ Stage(l, r) \in IpLocked => i # u

\* Such a process holds the lock of e.
HoldsOf(d, i, u, l, r, e) ==
  \/ d = e /\ Stage(l, r) \in DpLocked
  \/ i = e /\ Stage(l, r) \in IpLocked
  \/ u = e /\ l = "free"

\* The pointers to e among five.
Is(x, e) == IF x = e THEN 1 ELSE 0
Count(c, f, d, i, u, e) == Is(c, e) + Is(f, e) + Is(d, e) + Is(i, e) + Is(u, e)

Local(p) == Fits(p, cwd[p], fd[p], dp[p], ip[p], put[p], pc[p], ret[p], call[p], path[p])
Holds(p, e) == HoldsOf(dp[p], ip[p], put[p], pc[p], ret[p], e)
Own(p, e) == Count(cwd[p], fd[p], dp[p], ip[p], put[p], e)

\* A lock is held by the process that is where it holds it.
LockInv == \A e \in Entries, p \in Procs : ic[e].lock = p <=> Holds(p, e)

\* The two halves of RefsCounted.
Refs(e) == {r \in Procs \X (1..5) : Pointer(r[1], r[2]) = e}
RefInv == \A e \in Entries : ic[e].ref = Cardinality(Refs(e))
OneEntry == \A e, f \in Entries :
  ic[e].ref > 0 /\ ic[f].ref > 0 /\ ic[e].inum = ic[f].inum => e = f

Functions ==
  /\ cwd = [p \in Procs |-> cwd[p]] /\ fd = [p \in Procs |-> fd[p]]
  /\ dp = [p \in Procs |-> dp[p]] /\ ip = [p \in Procs |-> ip[p]] /\ put = [p \in Procs |-> put[p]]
  /\ pc = [p \in Procs |-> pc[p]] /\ ret = [p \in Procs |-> ret[p]]
  /\ call = [p \in Procs |-> call[p]] /\ path = [p \in Procs |-> path[p]]

\* The inductive invariant.
Core == Table(ic) /\ Functions /\ (\A p \in Procs : Local(p)) /\ LockInv /\ OneEntry
IInv == Core /\ RefInv

\* What RefInv says without counting: an entry has the references of any two
\* processes at least.
Counts == \A p \in Procs, e \in Entries :
  /\ ic[e].ref \in Nat /\ ic[e].ref >= Own(p, e)
  /\ \A q \in Procs \ {p} : ic[e].ref >= Own(p, e) + Own(q, e)
Minima == \A S \in SUBSET Entries : S # {} => Min(S) \in S
Sound == Core /\ Counts /\ Minima

-----------------------------------------------------------------------------
(* What a step of p must do to keep the invariant. *)

\* The variables of p become these, and those of the others stay.
Sets(p, c, f, d, i, u, l, r, k, s) ==
  /\ cwd' = [cwd EXCEPT ![p] = c] /\ fd' = [fd EXCEPT ![p] = f]
  /\ dp' = [dp EXCEPT ![p] = d] /\ ip' = [ip EXCEPT ![p] = i] /\ put' = [put EXCEPT ![p] = u]
  /\ pc' = [pc EXCEPT ![p] = l] /\ ret' = [ret EXCEPT ![p] = r]
  /\ call' = [call EXCEPT ![p] = k] /\ path' = [path EXCEPT ![p] = s]

\* Setting a variable to the value it has.
Stays(p) ==
  /\ cwd = [cwd EXCEPT ![p] = cwd[p]] /\ fd = [fd EXCEPT ![p] = fd[p]]
  /\ dp = [dp EXCEPT ![p] = dp[p]] /\ ip = [ip EXCEPT ![p] = ip[p]] /\ put = [put EXCEPT ![p] = put[p]]
  /\ pc = [pc EXCEPT ![p] = pc[p]] /\ ret = [ret EXCEPT ![p] = ret[p]]
  /\ call = [call EXCEPT ![p] = call[p]] /\ path = [path EXCEPT ![p] = path[p]]

\* The entry a gets a reference and b loses one.  Only a may be a recycled
\* entry, for an inode that no entry is for.
CacheStep(a, b) ==
  /\ Table(ic')
  /\ \A e \in Entries :
       /\ ic'[e].ref = ic[e].ref + Is(a, e) - Is(b, e)
       /\ \/ ic'[e].ref = 0
          \/ ic[e].ref > 0 /\ ic'[e].inum = ic[e].inum
          \/ e = a /\ Cached(ic'[e].inum) = {}

Bits == \A e \in Entries : (\A x : Is(x, e) \in Nat) /\ Is(None, e) = 0

\* The pointers of p change by just that.
Balance(p, c, f, d, i, u, a, b) == Bits => \A e \in Entries :
  Count(c, f, d, i, u, e) + Is(b, e)
    = Count(cwd[p], fd[p], dp[p], ip[p], put[p], e) + Is(a, e)

\* The locks of the others stay, and p has those that it should.
Off(p, x) == x = p \/ x \notin Procs
LockStep(p, d, i, u, l, r) == \A e \in Entries :
  /\ ic'[e].lock = p <=> HoldsOf(d, i, u, l, r, e)
  /\ ic'[e].lock = ic[e].lock \/ (Off(p, ic[e].lock) /\ Off(p, ic'[e].lock))

\* The other processes do nothing, and the counts change with the pointers of p.
Others(p) == \A q \in Procs \ {p} :
  /\ cwd'[q] = cwd[q] /\ fd'[q] = fd[q] /\ dp'[q] = dp[q] /\ ip'[q] = ip[q]
  /\ put'[q] = put[q]
RefStep(p) == \A e \in Entries : ic'[e].ref = ic[e].ref - Own(p, e) + Own(p, e)'
Kept(p) == Core' /\ Others(p) /\ RefStep(p)

\* What is known of p before a step.
Known(p) ==
  /\ Table(ic) /\ Stays(p)
  /\ Fits(p, cwd[p], fd[p], dp[p], ip[p], put[p], pc[p], ret[p], call[p], path[p])
  /\ \A e \in Entries : /\ ic[e].lock = p <=> HoldsOf(dp[p], ip[p], put[p], pc[p], ret[p], e)
                        /\ ic[e].ref \in Nat
  /\ Bits /\ None \notin Entries /\ None \notin Procs

\* The invariant says this.
LEMMA Knows ==
  ASSUME Sound, NEW p \in Procs
  PROVE  Known(p)
<1>1. Stays(p)
  BY Zenon DEF Sound, Core, Functions, Stays
<1>2. None \notin Entries /\ None \notin Procs
  BY InodeConstants DEF Entries, None
<1>3. Bits
  BY <1>2, Zenon DEF Bits, Is
<1> QED BY <1>1, <1>2, <1>3, Zenon DEF Known, Sound, Core, Counts, Local, LockInv, Holds

\* A step of p that does all this keeps the invariant.
LEMMA Step ==
  ASSUME Sound, NEW p \in Procs,
         NEW c, NEW f, NEW d, NEW i, NEW u, NEW l, NEW r, NEW k, NEW s, NEW a, NEW b,
         Sets(p, c, f, d, i, u, l, r, k, s), Fits(p, c, f, d, i, u, l, r, k, s),
         CacheStep(a, b), Balance(p, c, f, d, i, u, a, b), LockStep(p, d, i, u, l, r)
  PROVE  Kept(p)
<1>1. /\ cwd'[p] = c /\ fd'[p] = f /\ dp'[p] = d /\ ip'[p] = i /\ put'[p] = u
      /\ pc'[p] = l /\ ret'[p] = r /\ call'[p] = k /\ path'[p] = s
  BY Zenon DEF Sound, Core, Functions, Sets
<1>2. \A q \in Procs \ {p} :
        /\ cwd'[q] = cwd[q] /\ fd'[q] = fd[q] /\ dp'[q] = dp[q] /\ ip'[q] = ip[q]
        /\ put'[q] = put[q] /\ pc'[q] = pc[q] /\ ret'[q] = ret[q]
        /\ call'[q] = call[q] /\ path'[q] = path[q]
  BY Zenon DEF Sound, Core, Functions, Sets
<1>3. Functions'
  BY Zenon DEF Sound, Core, Functions, Sets
<1>4. ASSUME NEW q \in Procs PROVE Local(q)'
  BY <1>1, <1>2, Zenon DEF Local, Sound, Core
<1>5. LockInv'
  BY <1>1, <1>2 DEF LockInv, Holds, Sound, Core, LockStep, Off
<1>6. OneEntry'
  BY DEF Sound, Core, OneEntry, CacheStep, Cached
<1>7. RefStep(p)
  <2>1. Known(p)
    BY Knows, Zenon
  <2>2. ASSUME NEW e \in Entries
        PROVE  ic'[e].ref = ic[e].ref - Own(p, e) + Count(c, f, d, i, u, e)
    <3>1. /\ Own(p, e) \in Nat /\ Count(c, f, d, i, u, e) \in Nat
          /\ Is(a, e) \in Nat /\ Is(b, e) \in Nat /\ ic[e].ref \in Nat
      BY <2>1 DEF Known, Bits, Own, Count
    <3>2. /\ Count(c, f, d, i, u, e) + Is(b, e) = Own(p, e) + Is(a, e)
          /\ ic'[e].ref = ic[e].ref + Is(a, e) - Is(b, e)
      BY <2>1, Zenon DEF Known, Own, Balance, CacheStep
    <3> QED BY <3>1, <3>2
  <2> QED BY <1>1, <2>2, Zenon DEF RefStep, Own
<1> QED BY <1>2, <1>3, <1>4, <1>5, <1>6, <1>7, Zenon DEF Kept, Core, Others, CacheStep

-----------------------------------------------------------------------------
(* What the operations on the cache do to counts, inode numbers and locks. *)

\* From c to t only the lock of d may change.
Like(c, t, d) ==
  /\ Table(t)
  /\ \A e \in Entries : t[e].ref = c[e].ref /\ t[e].inum = c[e].inum
                        /\ (e # d => t[e].lock = c[e].lock)

WithLock(c, e, x) == [c EXCEPT ![e].lock = x]

\* Reading or writing an inode.
LEMMA ChangedLike ==
  ASSUME NEW c, Table(c), NEW e \in Entries, NEW x
  PROVE  Like(c, Changed(c, e, x), None) /\ \A q \in Entries : Changed(c, e, x)[q].lock = c[q].lock
BY Zenon DEF Changed, Table, Fields, Like

\* Setting ip->lock.
LEMMA LockLike ==
  ASSUME NEW c, Table(c), NEW e \in Entries, NEW x
  PROVE  Like(c, WithLock(c, e, x), e) /\ WithLock(c, e, x)[e].lock = x
BY Zenon DEF Table, Fields, Like, WithLock

\* ilock and iunlock, both or one of them.
LEMMA LockSteps ==
  ASSUME Sound, NEW e \in Entries, NEW p \in Procs
  PROVE  /\ Like(ic, Seen(ic, e), None) /\ \A q \in Entries : Seen(ic, e)[q].lock = ic[q].lock
         /\ Like(ic, Locked(ic, e, p), e) /\ Locked(ic, e, p)[e].lock = p
         /\ Like(ic, Unlocked(ic, e), e) /\ Unlocked(ic, e)[e].lock = None
<1>1. Table(ic)
  BY Zenon DEF Sound, Core
<1>2. Like(ic, Seen(ic, e), None) /\ \A q \in Entries : Seen(ic, e)[q].lock = ic[q].lock
  <2>1. Seen(ic, e) = Changed(ic, e, Ino(e))
    BY Zenon DEF Seen, Changed
  <2> QED BY <1>1, <2>1, ChangedLike
<1>3. Like(ic, Unlocked(ic, e), e) /\ Unlocked(ic, e)[e].lock = None
  <2>1. Unlocked(ic, e) = WithLock(ic, e, None)
    BY Zenon DEF Unlocked, WithLock
  <2> QED BY <1>1, <2>1, LockLike
<1>4. Like(ic, Locked(ic, e, p), e) /\ Locked(ic, e, p)[e].lock = p
  <2> DEFINE t == Seen(ic, e)
  <2>1. Table(t) /\ Locked(ic, e, p) = WithLock(t, e, p)
    BY <1>2, Zenon DEF Like, Locked, WithLock
  <2> HIDE DEF t
  <2>2. Like(t, WithLock(t, e, p), e) /\ WithLock(t, e, p)[e].lock = p
    BY <2>1, LockLike
  <2> QED BY <1>2, <2>1, <2>2, Zenon DEF Like, t
<1> QED BY <1>2, <1>3, <1>4, Zenon

\* Nobody has got a reference.
LEMMA LikeStep ==
  ASSUME Sound, NEW p \in Procs, NEW d, Like(ic, ic', d)
  PROVE  CacheStep(None, None)
<1>1. \A e \in Entries : ic[e].ref \in Nat /\ Is(None, e) = 0
  BY Knows, Zenon DEF Known, Bits
<1> QED BY <1>1 DEF Like, CacheStep

\* ip->ref++ leaves all else.
LEMMA IdupTable ==
  ASSUME NEW c, Table(c), NEW g \in Entries
  PROVE  /\ Table(idup(c, g)) /\ idup(c, g)[g].ref = c[g].ref + 1
         /\ \A e \in Entries : /\ idup(c, g)[e].inum = c[e].inum /\ idup(c, g)[e].lock = c[e].lock
                               /\ (e # g => idup(c, g)[e].ref = c[e].ref)
BY Zenon DEF Table, Fields, idup

\* idup of an entry that has a reference.
LEMMA IdupStep ==
  ASSUME Sound, NEW p \in Procs, NEW c, NEW d, Like(ic, c, d), NEW g \in Entries, ic[g].ref > 0,
         ic' = idup(c, g)
  PROVE  CacheStep(g, None) /\ \A e \in Entries : ic'[e].lock = c[e].lock
<1>1. \A e \in Entries : ic[e].ref \in Nat /\ Is(None, e) = 0
  BY Knows, Zenon DEF Known, Bits
<1>2. Table(c) /\ \A e \in Entries : c[e].ref = ic[e].ref /\ c[e].inum = ic[e].inum
  BY Zenon DEF Like
<1>3. /\ Table(ic') /\ ic'[g].ref = c[g].ref + 1
      /\ \A e \in Entries : /\ ic'[e].inum = c[e].inum /\ ic'[e].lock = c[e].lock
                            /\ (e # g => ic'[e].ref = c[e].ref)
  BY <1>2, IdupTable, Zenon
<1> QED BY <1>1, <1>2, <1>3 DEF CacheStep, Is

\* iget
LEMMA IgetStep ==
  ASSUME Sound, NEW p \in Procs, NEW i, CanGet(i), NEW c, NEW d, Like(ic, c, d), ic' = iget(c, i)
  PROVE  /\ Got(i) \in Entries /\ CacheStep(Got(i), None)
         /\ \A e \in Entries : ic'[e].lock = c[e].lock
<1> DEFINE g == Got(i)
<1>1. Cached(i) \in SUBSET Entries /\ Empty \in SUBSET Entries
  BY Zenon DEF Cached, Empty
<1>2. CASE Cached(i) # {}
  <2>1. g \in Cached(i)
    BY <1>1, <1>2, Zenon DEF Got, Sound, Minima
  <2>2. g \in Entries /\ ic[g].ref > 0 /\ ic' = idup(c, g)
    BY <1>2, <2>1, Zenon DEF Cached, iget, idup
  <2> HIDE DEF g
  <2>3. CacheStep(g, None) /\ \A e \in Entries : ic'[e].lock = c[e].lock
    BY <2>2, IdupStep, Zenon
  <2> QED BY <2>2, <2>3, Zenon DEF g
<1>3. CASE Cached(i) = {}
  <2>1. g \in Empty
    BY <1>1, <1>3, Zenon DEF Got, CanGet, Sound, Minima
  <2>2. g \in Entries /\ ic[g].ref = 0
    BY <2>1, Zenon DEF Empty
  <2>3. ic' = [c EXCEPT ![g].inum = i, ![g].ref = 1, ![g].valid = FALSE]
    BY <1>3, Zenon DEF iget
  <2> HIDE DEF g
  <2>4. Table(c) /\ \A e \in Entries : c[e].ref = ic[e].ref /\ c[e].inum = ic[e].inum
    BY Zenon DEF Like
  <2>5. /\ Table(ic') /\ ic'[g].inum = i /\ ic'[g].ref = 1 /\ ic'[g].lock = c[g].lock
        /\ \A e \in Entries : e # g => ic'[e] = c[e]
    BY <2>2, <2>3, <2>4 DEF Table, Fields
  <2>6. \A e \in Entries : ic[e].ref \in Nat /\ Is(None, e) = 0
    BY Knows, Zenon DEF Known, Bits
  <2>7. CacheStep(g, None)
    BY <1>3, <2>2, <2>4, <2>5, <2>6 DEF CacheStep, Is
  <2>8. \A e \in Entries : ic'[e].lock = c[e].lock
    BY <2>5, Zenon
  <2> QED BY <2>2, <2>7, <2>8, Zenon DEF g
<1> QED BY <1>2, <1>3, Zenon

-----------------------------------------------------------------------------
(* Steps that hand a pointer of p over to iput or to its open file. *)

\* dp is unlocked and given back; p goes on with ip, if it has one.
LEMMA GiveDp ==
  ASSUME Sound, NEW p \in Procs, NEW l,
         Sets(p, cwd[p], fd[p], None, ip[p], dp[p], "put", l, call[p], path[p]),
         \/ pc[p] = "walk" /\ Free(dp[p]) /\ ic' = Seen(ic, dp[p])
         \/ pc[p] \in {"bad", "clash"} /\ ic' = Unlocked(ic, dp[p]),
         (l = "idle" /\ ip[p] = None) \/ (l \in {"undo", "linked"} /\ ip[p] # None)
  PROVE  Kept(p)
<1>1. Known(p)
  BY Knows, Zenon
<1>2. dp[p] \in Entries /\ put[p] = None /\ Stage(pc[p], ret[p]) = pc[p]
  BY <1>1, Zenon DEF Known, Fits, Stage, InPut, Pointers, DpStages
<1>3. Like(ic, ic', dp[p]) /\ ic'[dp[p]].lock = None
  BY <1>2, LockSteps DEF Like, Free
<1>4. Fits(p, cwd[p], fd[p], None, ip[p], dp[p], "put", l, call[p], path[p])
  BY <1>1, <1>2, Zenon DEF Known, Fits, Stage, InPut, Pointers, Labels, DpStages, IpStages
<1>5. LockStep(p, None, ip[p], dp[p], "put", l)
  <2>1. Off(p, ic[dp[p]].lock)
    BY <1>1, <1>2, Zenon DEF Known, HoldsOf, DpLocked, Free, Off
  <2> QED BY <1>1, <1>2, <1>3, <2>1
          DEF Known, LockStep, HoldsOf, Stage, InPut, DpLocked, IpLocked, Like, Off
<1>6. CacheStep(None, None)
  BY <1>3, LikeStep, Zenon
<1>7. Balance(p, cwd[p], fd[p], None, ip[p], dp[p], None, None)
  BY <1>2 DEF Balance, Count, Bits
<1> QED BY <1>4, <1>5, <1>6, <1>7, Step, Zenon

\* ip is unlocked, if it was locked, and given back.
LEMMA GiveIp ==
  ASSUME Sound, NEW p \in Procs, NEW l, l \in {"idle", "bad"},
         Sets(p, cwd[p], fd[p], dp[p], None, ip[p], "put", l, call[p], path[p]),
         \/ pc[p] = "linked" /\ ic' = ic
         \/ /\ Like(ic, ic', ip[p]) /\ ic'[ip[p]].lock = None
            /\ \/ pc[p] \in {"exists", "undo", "unlink"} /\ Free(ip[p])
               \/ pc[p] \in {"created", "unlinked"},
         l = "bad" <=> pc[p] = "unlink"
  PROVE  Kept(p)
<1>1. Known(p)
  BY Knows, Zenon
<1>2. ip[p] \in Entries /\ put[p] = None /\ Stage(pc[p], ret[p]) = pc[p]
  BY <1>1, Zenon DEF Known, Fits, Stage, InPut, Pointers, IpStages
<1>3. Like(ic, ic', ip[p]) /\ (ic' = ic \/ ic'[ip[p]].lock = None)
  BY <1>1, Zenon DEF Known, Like
<1>4. Fits(p, cwd[p], fd[p], dp[p], None, ip[p], "put", l, call[p], path[p])
  BY <1>1, <1>2, Zenon DEF Known, Fits, Stage, InPut, Pointers, Labels, DpStages, IpStages, DpLocked, IpLocked
<1>5. LockStep(p, dp[p], None, ip[p], "put", l)
  <2>1. ic' = ic \/ Off(p, ic[ip[p]].lock)
    BY <1>1, <1>2, Zenon DEF Known, HoldsOf, IpLocked, Free, Off
  <2>2. \A e \in Entries : HoldsOf(dp[p], None, ip[p], "put", l, e) <=> l = "bad" /\ e = dp[p]
    BY <1>1, Zenon DEF Known, HoldsOf, Stage, InPut, DpLocked
  <2>3. \A e \in Entries : HoldsOf(dp[p], ip[p], put[p], pc[p], ret[p], e) <=>
          (l = "bad" /\ e = dp[p]) \/ (pc[p] \in {"created", "unlinked"} /\ e = ip[p])
    BY <1>1, <1>2, Zenon DEF Known, HoldsOf, DpLocked, IpLocked
  <2> QED BY <1>1, <1>2, <1>3, <2>1, <2>2, <2>3, Zenon DEF Known, LockStep, Like, Off, Free
<1>6. CacheStep(None, None)
  BY <1>3, LikeStep, Zenon
<1>7. Balance(p, cwd[p], fd[p], dp[p], None, ip[p], None, None)
  BY <1>2 DEF Balance, Count, Bits
<1> QED BY <1>4, <1>5, <1>6, <1>7, Step, Zenon

\* dp or ip is unlocked and becomes the open file.
LEMMA Opened ==
  ASSUME Sound, NEW p \in Procs, fd[p] = None, NEW e,
         Sets(p, cwd[p], e, None, None, put[p], "idle", ret[p], NoCall, <<>>),
         \/ pc[p] = "walk" /\ e = dp[p] /\ ip[p] = None /\ Free(e)
         \/ pc[p] = "exists" /\ e = ip[p] /\ Free(e)
         \/ pc[p] = "created" /\ e = ip[p],
         Like(ic, ic', e), ic'[e].lock = None
  PROVE  Kept(p)
<1>1. Known(p)
  BY Knows, Zenon
<1>2. /\ e \in Entries /\ put[p] = None /\ Stage(pc[p], ret[p]) = pc[p]
      /\ (e = dp[p] /\ ip[p] = None) \/ (e = ip[p] /\ dp[p] = None)
  BY <1>1, Zenon DEF Known, Fits, Stage, InPut, Pointers, DpStages, IpStages
<1>3. Fits(p, cwd[p], e, None, None, put[p], "idle", ret[p], NoCall, <<>>)
  BY <1>1, <1>2 DEF Known, Fits, Stage, InPut, Pointers, Labels, Path, DpStages, IpStages
<1>4. LockStep(p, None, None, put[p], "idle", ret[p])
  <2>1. Off(p, ic[e].lock)
    BY <1>1, <1>2, Zenon DEF Known, HoldsOf, IpLocked, Free, Off
  <2> QED BY <1>1, <1>2, <2>1
          DEF Known, LockStep, HoldsOf, Stage, InPut, DpLocked, IpLocked, Like, Off
<1>5. CacheStep(None, None)
  BY LikeStep, Zenon
<1>6. Balance(p, cwd[p], e, None, None, put[p], None, None)
  BY <1>2 DEF Balance, Count, Bits
<1> QED BY <1>3, <1>4, <1>5, <1>6, Step, Zenon

\* iunlock after the inode has been changed.
LEMMA ChangedUnlocked ==
  ASSUME NEW c, Table(c), NEW e \in Entries, NEW x
  PROVE  Like(c, Unlocked(Changed(c, e, x), e), e) /\ Unlocked(Changed(c, e, x), e)[e].lock = None
<1> DEFINE t == Changed(c, e, x)
<1>1. Like(c, t, None) /\ Table(t) /\ \A q \in Entries : t[q].lock = c[q].lock
  BY ChangedLike DEF Like
<1>2. Unlocked(t, e) = WithLock(t, e, None)
  BY Zenon DEF Unlocked, WithLock
<1> HIDE DEF t
<1>3. Like(t, WithLock(t, e, None), e) /\ WithLock(t, e, None)[e].lock = None
  BY <1>1, LockLike
<1> QED BY <1>1, <1>2, <1>3, Zenon DEF Like, t

-----------------------------------------------------------------------------
(* The actions. *)

\* namex fails.
LEMMA walkFailKeeps ==
  ASSUME Sound, NEW p \in Procs, walkFail(p)
  PROVE  Kept(p)
<1>1. Known(p)
  BY Knows, Zenon
<1>2. /\ pc[p] = "walk" /\ Free(dp[p]) /\ ic' = Seen(ic, dp[p])
      /\ Sets(p, cwd[p], fd[p], None, ip[p], dp[p], "put", Fails(p), call[p], path[p])
  BY <1>1, Zenon DEF walkFail, at, goto, iputThen, open, Known, Stays, Sets
<1>3. (Fails(p) = "idle" /\ ip[p] = None) \/ (Fails(p) \in {"undo", "linked"} /\ ip[p] # None)
  BY <1>1, <1>2, Zenon DEF Known, Fits, Stage, InPut, Fails
<1> QED BY <1>2, <1>3, GiveDp, Zenon

\* sys_unlink of a dot, or of a name that is not there.
LEMMA unlinkMissKeeps ==
  ASSUME Sound, NEW p \in Procs, unlinkMiss(p)
  PROVE  Kept(p)
<1>1. Known(p)
  BY Knows, Zenon
<1>2. /\ pc[p] = "walk" /\ Free(dp[p]) /\ ic' = Seen(ic, dp[p]) /\ call[p].op = "unlink"
      /\ Sets(p, cwd[p], fd[p], None, ip[p], dp[p], "put", "idle", call[p], path[p])
  BY <1>1, Zenon DEF unlinkMiss, parent, gives, at, goto, iputThen, open, Known, Stays, Sets
<1>3. ip[p] = None
  BY <1>1, <1>2, Zenon DEF Known, Fits, Stage, InPut
<1> QED BY <1>2, <1>3, GiveDp, Zenon

\* sys_link enters the new name.
LEMMA linkNewKeeps ==
  ASSUME Sound, NEW p \in Procs, linkNew(p)
  PROVE  Kept(p)
<1>1. Known(p)
  BY Knows, Zenon
<1>2. /\ pc[p] = "walk" /\ Free(dp[p]) /\ ic' = Seen(ic, dp[p]) /\ ip[p] # None
      /\ Sets(p, cwd[p], fd[p], None, ip[p], dp[p], "put", "linked", call[p], path[p])
  BY <1>1, Zenon DEF linkNew, parent, AtLast, Parent, at, goto, iputThen, open, Known, Stays, Sets
<1> QED BY <1>2, GiveDp, Zenon

\* sys_unlink has found a directory that is not empty, or sys_link a name that
\* is taken.
LEMMA BadKeeps ==
  ASSUME Sound, NEW p \in Procs, unlinkBad(p) \/ linkBad(p)
  PROVE  Kept(p)
<1>1. Known(p)
  BY Knows, Zenon
<1>2. CASE unlinkBad(p)
  <2>1. /\ pc[p] = "bad" /\ ic' = Unlocked(ic, dp[p])
        /\ Sets(p, cwd[p], fd[p], None, ip[p], dp[p], "put", "idle", call[p], path[p])
    BY <1>1, <1>2, Zenon DEF unlinkBad, gives, at, goto, iputThen, open, Known, Stays, Sets
  <2>2. ip[p] = None
    BY <1>1, <2>1, Zenon DEF Known, Fits, Stage, InPut, IpStages
  <2> QED BY <2>1, <2>2, GiveDp, Zenon
<1>3. CASE linkBad(p)
  <2>1. /\ pc[p] = "clash" /\ ic' = Unlocked(ic, dp[p])
        /\ Sets(p, cwd[p], fd[p], None, ip[p], dp[p], "put", "undo", call[p], path[p])
    BY <1>1, <1>3, Zenon DEF linkBad, at, goto, iputThen, open, Known, Stays, Sets
  <2>2. ip[p] # None
    BY <1>1, <2>1, Zenon DEF Known, Fits, Stage, InPut, IpStages
  <2> QED BY <2>1, <2>2, GiveDp, Zenon
<1> QED BY <1>2, <1>3, Zenon

\* sys_open of what namei has found.
LEMMA sys_openKeeps ==
  ASSUME Sound, NEW p \in Procs, sys_open(p)
  PROVE  Kept(p)
<1>1. Known(p)
  BY Knows, Zenon
<1>2. pc[p] = "walk" /\ Free(dp[p]) /\ ic' = Seen(ic, dp[p]) /\ call[p].op = "open"
  BY Zenon DEF sys_open, found, at
<1>3. dp[p] \in Entries /\ ip[p] = None
  BY <1>1, <1>2, Zenon DEF Known, Fits, Stage, InPut, Pointers, DpStages
<1>4. \/ /\ fd[p] = None
         /\ Sets(p, cwd[p], dp[p], None, ip[p], put[p], "idle", ret[p], NoCall, <<>>)
      \/ Sets(p, cwd[p], fd[p], None, ip[p], dp[p], "put", "idle", call[p], path[p])
  BY <1>1, Zenon DEF sys_open, opens, gives, goto, iputThen, open, Known, Stays, Sets
<1>5. Like(ic, ic', dp[p]) /\ ic'[dp[p]].lock = None
  BY <1>2, <1>3, LockSteps, Zenon DEF Like, Free
<1> QED BY <1>2, <1>3, <1>4, <1>5, Opened, GiveDp, Zenon

\* create returns the inode that it has found or made.
LEMMA createdKeeps ==
  ASSUME Sound, NEW p \in Procs, createExists(p) \/ created(p)
  PROVE  Kept(p)
<1>1. Known(p)
  BY Knows, Zenon
<1>2. \/ pc[p] = "exists" /\ Free(ip[p]) /\ ic' = Seen(ic, ip[p])
      \/ pc[p] = "created" /\ ic' = Unlocked(ic, ip[p])
  BY Zenon DEF createExists, created, at
<1>3. ip[p] \in Entries /\ dp[p] = None
  BY <1>1, <1>2, Zenon DEF Known, Fits, Stage, InPut, Pointers, DpStages, IpStages
<1>4. \/ /\ fd[p] = None
         /\ Sets(p, cwd[p], ip[p], dp[p], None, put[p], "idle", ret[p], NoCall, <<>>)
      \/ Sets(p, cwd[p], fd[p], dp[p], None, ip[p], "put", "idle", call[p], path[p])
  BY <1>1, Zenon DEF createExists, created, opens, gives, goto, iputThen, open, Known, Stays, Sets
<1>5. Like(ic, ic', ip[p]) /\ ic'[ip[p]].lock = None
  BY <1>2, <1>3, LockSteps DEF Like, Free
<1> QED BY <1>2, <1>3, <1>4, <1>5, Opened, GiveIp, Zenon

\* The end of sys_unlink and of sys_link.
LEMMA unlinkedKeeps ==
  ASSUME Sound, NEW p \in Procs, unlinked(p) \/ linkUndo(p) \/ linked(p)
  PROVE  Kept(p)
<1> DEFINE x == [Ino(ip[p]) EXCEPT !.nlink = @ - 1]
<1>1. Known(p)
  BY Knows, Zenon
<1>2. /\ \/ pc[p] = "unlinked" /\ ic' = Unlocked(Changed(ic, ip[p], x), ip[p])
         \/ pc[p] = "undo" /\ Free(ip[p]) /\ ic' = Changed(ic, ip[p], x)
         \/ pc[p] = "linked" /\ ic' = ic
      /\ Sets(p, cwd[p], fd[p], dp[p], None, ip[p], "put", "idle", call[p], path[p])
  BY <1>1, Zenon DEF unlinked, linkUndo, linked, gives, at, goto, iputThen, open, Known, Stays, Sets
<1> HIDE DEF x
<1>3. ip[p] \in Entries /\ Table(ic)
  BY <1>1, <1>2, Zenon DEF Known, Fits, Stage, InPut, Pointers, IpStages
<1>4. pc[p] = "unlinked" => Like(ic, ic', ip[p]) /\ ic'[ip[p]].lock = None
  BY <1>2, <1>3, ChangedUnlocked
<1>5. pc[p] = "undo" => Like(ic, ic', ip[p]) /\ ic'[ip[p]].lock = None
  BY <1>2, <1>3, ChangedLike DEF Like, Free
<1> QED BY <1>2, <1>4, <1>5, GiveIp, Zenon

\* The directory to unlink is not empty.
LEMMA unlinkFullKeeps ==
  ASSUME Sound, NEW p \in Procs, unlinkFull(p)
  PROVE  Kept(p)
<1>1. Known(p)
  BY Knows, Zenon
<1>2. /\ pc[p] = "unlink" /\ Free(ip[p]) /\ ic' = Seen(ic, ip[p])
      /\ Sets(p, cwd[p], fd[p], dp[p], None, ip[p], "put", "bad", call[p], path[p])
  BY <1>1, Zenon DEF unlinkFull, at, goto, iputThen, open, Known, Stays, Sets
<1>3. ip[p] \in Entries
  BY <1>1, <1>2, Zenon DEF Known, Fits, Stage, InPut, Pointers, IpStages
<1>4. Like(ic, ic', ip[p]) /\ ic'[ip[p]].lock = None
  BY <1>2, <1>3, LockSteps DEF Like, Free
<1> QED BY <1>2, <1>4, GiveIp, Zenon

\* sys_chdir
LEMMA sys_chdirKeeps ==
  ASSUME Sound, NEW p \in Procs, sys_chdir(p)
  PROVE  Kept(p)
<1>1. Known(p)
  BY Knows, Zenon
<1>2. pc[p] = "walk" /\ Free(dp[p]) /\ ic' = Seen(ic, dp[p]) /\ call[p].op = "chdir"
  BY Zenon DEF sys_chdir, found, at
<1>3. dp[p] \in Entries /\ ip[p] = None /\ put[p] = None
  BY <1>1, <1>2, Zenon DEF Known, Fits, Stage, InPut, Pointers, DpStages
<1>4. \/ Sets(p, dp[p], fd[p], None, ip[p], cwd[p], "put", "idle", call[p], path[p])
      \/ Sets(p, cwd[p], fd[p], None, ip[p], dp[p], "put", "idle", call[p], path[p])
  BY <1>1, Zenon DEF sys_chdir, goto, iputThen, Known, Stays, Sets
<1>5. CASE Sets(p, dp[p], fd[p], None, ip[p], cwd[p], "put", "idle", call[p], path[p])
  <2>1. Like(ic, ic', None) /\ \A e \in Entries : ic'[e].lock = ic[e].lock
    BY <1>2, <1>3, LockSteps, Zenon
  <2>2. Fits(p, dp[p], fd[p], None, ip[p], cwd[p], "put", "idle", call[p], path[p])
    BY <1>1, <1>3, Zenon DEF Known, Fits, Stage, InPut, Pointers, Labels, DpStages, IpStages
  <2>3. LockStep(p, None, ip[p], cwd[p], "put", "idle")
    BY <1>1, <1>2, <1>3, <2>1, Zenon DEF Known, LockStep, HoldsOf, Stage, InPut, DpLocked, IpLocked
  <2>4. CacheStep(None, None)
    BY <2>1, LikeStep, Zenon
  <2>5. Balance(p, dp[p], fd[p], None, ip[p], cwd[p], None, None)
    BY <1>3 DEF Balance, Count, Bits
  <2> QED BY <1>5, <2>2, <2>3, <2>4, <2>5, Step, Zenon
<1> QED BY <1>2, <1>3, <1>4, <1>5, GiveDp, Zenon

\* sys_close
LEMMA sys_closeKeeps ==
  ASSUME Sound, NEW p \in Procs, sys_close(p)
  PROVE  Kept(p)
<1>1. Known(p)
  BY Knows, Zenon
<1>2. /\ pc[p] = "idle" /\ fd[p] # None /\ ic' = ic
      /\ Sets(p, cwd[p], None, dp[p], ip[p], fd[p], "put", "idle", call[p], path[p])
  BY <1>1, Zenon DEF sys_close, at, goto, iputThen, Known, Stays, Sets
<1>3. put[p] = None /\ Like(ic, ic', None)
  BY <1>1, <1>2, Zenon DEF Known, Fits, InPut, Like
<1>4. Fits(p, cwd[p], None, dp[p], ip[p], fd[p], "put", "idle", call[p], path[p])
  BY <1>1, <1>2, Zenon DEF Known, Fits, Stage, InPut, Pointers, Labels, DpStages, IpStages
<1>5. LockStep(p, dp[p], ip[p], fd[p], "put", "idle")
  BY <1>1, <1>2, Zenon DEF Known, LockStep, HoldsOf, Stage, InPut, DpLocked, IpLocked
<1>6. CacheStep(None, None)
  BY <1>3, LikeStep, Zenon
<1>7. Balance(p, cwd[p], None, dp[p], ip[p], fd[p], None, None)
  BY <1>3 DEF Balance, Count, Bits
<1> QED BY <1>2, <1>4, <1>5, <1>6, <1>7, Step, Zenon

\* filewrite
LEMMA filewriteKeeps ==
  ASSUME Sound, NEW p \in Procs, filewrite(p)
  PROVE  Kept(p)
<1> DEFINE y == [Ino(fd[p]) EXCEPT !.addrs = @ \cup {FirstFree}]
<1>1. Known(p)
  BY Knows, Zenon
<1>2. /\ fd[p] # None /\ ic' = Changed(ic, fd[p], y)
      /\ Sets(p, cwd[p], fd[p], dp[p], ip[p], put[p], pc[p], ret[p], call[p], path[p])
  BY <1>1, Zenon DEF filewrite, CanGrow, open, Known, Stays, Sets
<1> HIDE DEF y
<1>3. fd[p] \in Entries /\ Table(ic)
  BY <1>1, <1>2, Zenon DEF Known, Fits, Pointers
<1>4. Like(ic, ic', None) /\ \A e \in Entries : ic'[e].lock = ic[e].lock
  BY <1>2, <1>3, ChangedLike, Zenon
<1>5. Fits(p, cwd[p], fd[p], dp[p], ip[p], put[p], pc[p], ret[p], call[p], path[p])
  BY <1>1, Zenon DEF Known
<1>6. LockStep(p, dp[p], ip[p], put[p], pc[p], ret[p])
  BY <1>1, <1>4, Zenon DEF Known, LockStep
<1>7. CacheStep(None, None)
  BY <1>4, LikeStep, Zenon
<1>8. Balance(p, cwd[p], fd[p], dp[p], ip[p], put[p], None, None)
  BY Zenon DEF Balance
<1> QED BY <1>2, <1>5, <1>6, <1>7, <1>8, Step, Zenon

\* The path that a call starts to walk has at least one name.
LEMMA StartPath ==
  ASSUME NEW p \in Procs, NEW c \in Calls[p], NEW s,
         s = IF c.op = "open" THEN openPath(Container[p], c.path) ELSE c.path
  PROVE  s \in Path /\ s # <<>>
<1> DEFINE S == Names \cup Dots
<1>1. /\ c.path \in Seq(S) /\ c.path # <<>> /\ Tagged[Container[p]] \in [Names -> Names]
      /\ c.op = "open" => c.path[1] \in Dots \/ c.path[Len(c.path)] \in Names
  BY InodeConstants, Zenon
<1>2. CASE c.op = "open" /\ c.path[1] \in Dots
  BY <1>2 DEF openPath, Path, Dots
<1>3. CASE c.op = "open" /\ c.path[1] \notin Dots
  <2> DEFINE t == c.path
             u == Tagged[Container[p]][t[Len(t)]]
  <2>1. s = [t EXCEPT ![Len(t)] = u]
    BY <1>3, Zenon DEF openPath
  <2>2. u \in S /\ t \in Seq(S) /\ t # <<>>
    BY <1>1, <1>3, Zenon
  <2> HIDE DEF S, t, u
  <2>3. Len(t) \in Nat /\ t \in [1..Len(t) -> S] /\ Len(t) # 0
    BY <2>2
  <2>4. s \in [1..Len(t) -> S]
    BY <2>1, <2>2, <2>3, Zenon
  <2>5. s \in Seq(S) /\ Len(s) = Len(t)
    BY <2>3, <2>4
  <2> QED BY <2>3, <2>5, Zenon DEF Path, S
<1>4. CASE c.op # "open"
  BY <1>1, <1>4, Zenon DEF Path
<1> QED BY <1>2, <1>3, <1>4, Zenon

\* cwd has a reference.
LEMMA CwdCounts ==
  ASSUME Sound, NEW p \in Procs
  PROVE  cwd[p] \in Entries /\ ic[cwd[p]].ref > 0
<1>1. Known(p)
  BY Knows, Zenon
<1>2. cwd[p] \in Entries
  BY <1>1, Zenon DEF Known, Fits
<1>3. Own(p, cwd[p]) \in Nat /\ Own(p, cwd[p]) >= 1
  BY <1>1, <1>2 DEF Own, Count, Is
<1> QED BY <1>2, <1>3 DEF Sound, Counts

\* A call begins.
LEMMA beginKeeps ==
  ASSUME Sound, NEW p \in Procs, NEW c \in Calls[p], begin(p, c)
  PROVE  Kept(p)
<1> DEFINE s == IF c.op = "open" THEN openPath(Container[p], c.path) ELSE c.path
<1>1. Known(p)
  BY Knows, Zenon
<1>2. /\ pc[p] = "idle" /\ ic' = idup(ic, cwd[p])
      /\ Sets(p, cwd[p], fd[p], cwd[p], ip[p], put[p], "walk", ret[p], c, s)
  BY <1>1, Zenon DEF begin, at, goto, open, Known, Stays, Sets
<1>3. s \in Path /\ s # <<>>
  BY StartPath, Zenon
<1> HIDE DEF s
<1>4. dp[p] = None /\ ip[p] = None /\ Like(ic, ic, None)
  BY <1>1, <1>2, Zenon DEF Known, Fits, Stage, InPut, DpStages, IpStages, Like
<1>5. CacheStep(cwd[p], None) /\ \A e \in Entries : ic'[e].lock = ic[e].lock
  BY <1>2, <1>4, CwdCounts, IdupStep, Zenon
<1>6. Fits(p, cwd[p], fd[p], cwd[p], ip[p], put[p], "walk", ret[p], c, s)
  BY <1>1, <1>2, <1>3, <1>4, Zenon DEF Known, Fits, Stage, InPut, Pointers, Labels, DpStages, IpStages
<1>7. LockStep(p, cwd[p], ip[p], put[p], "walk", ret[p])
  BY <1>1, <1>2, <1>5, Zenon DEF Known, LockStep, HoldsOf, Stage, InPut, DpLocked, IpLocked
<1>8. Balance(p, cwd[p], fd[p], cwd[p], ip[p], put[p], cwd[p], None)
  BY <1>4 DEF Balance, Count, Bits
<1> QED BY <1>2, <1>5, <1>6, <1>7, <1>8, Step, Zenon

\* sys_link has found the file and starts on the second path.
LEMMA linkOldKeeps ==
  ASSUME Sound, NEW p \in Procs, linkOld(p)
  PROVE  Kept(p)
<1> DEFINE y == [Ino(dp[p]) EXCEPT !.nlink = @ + 1]
           s == call[p].new
<1>1. Known(p)
  BY Knows, Zenon
<1>2. pc[p] = "walk" /\ path[p] = <<>> /\ Free(dp[p]) /\ call[p].op = "link"
  BY Zenon DEF linkOld, found, at
<1>3. /\ dp[p] \in Entries /\ ip[p] = None /\ Table(ic)
      /\ call[p] \in Calls[p]
  BY <1>1, <1>2, Zenon DEF Known, Fits, Stage, InPut, Pointers, DpStages, ToParent
<1>4. s \in Path /\ s # <<>>
  BY <1>2, <1>3, InodeConstants, Zenon DEF Path
<1>5. \/ /\ ic' = Seen(ic, dp[p])
         /\ Sets(p, cwd[p], fd[p], None, ip[p], dp[p], "put", "idle", call[p], path[p])
      \/ /\ ic' = idup(Changed(ic, dp[p], y), cwd[p])
         /\ Sets(p, cwd[p], fd[p], cwd[p], dp[p], put[p], "walk", ret[p], call[p], s)
  BY <1>1, Zenon DEF linkOld, raised, gives, goto, iputThen, open, Known, Stays, Sets
<1> HIDE DEF y, s
<1>6. CASE /\ ic' = idup(Changed(ic, dp[p], y), cwd[p])
           /\ Sets(p, cwd[p], fd[p], cwd[p], dp[p], put[p], "walk", ret[p], call[p], s)
  <2> DEFINE t == Changed(ic, dp[p], y)
  <2>1. Like(ic, t, None) /\ \A e \in Entries : t[e].lock = ic[e].lock
    BY <1>3, ChangedLike
  <2>2. ic' = idup(t, cwd[p])
    BY <1>6, Zenon
  <2> HIDE DEF t
  <2>3. CacheStep(cwd[p], None) /\ \A e \in Entries : ic'[e].lock = ic[e].lock
    BY <2>1, <2>2, CwdCounts, IdupStep, Zenon
  <2>4. Fits(p, cwd[p], fd[p], cwd[p], dp[p], put[p], "walk", ret[p], call[p], s)
    BY <1>1, <1>2, <1>3, <1>4, Zenon DEF Known, Fits, Stage, InPut, Pointers, Labels, DpStages, IpStages
  <2>5. LockStep(p, cwd[p], dp[p], put[p], "walk", ret[p])
    BY <1>1, <1>2, <2>3, Zenon DEF Known, LockStep, HoldsOf, Stage, InPut, DpLocked, IpLocked
  <2>6. Balance(p, cwd[p], fd[p], cwd[p], dp[p], put[p], cwd[p], None)
    BY <1>3 DEF Balance, Count, Bits
  <2> QED BY <1>6, <2>3, <2>4, <2>5, <2>6, Step, Zenon
<1> QED BY <1>2, <1>3, <1>5, <1>6, GiveDp, Zenon

\* Sequences.
LEMMA TailFacts ==
  ASSUME NEW S, NEW s \in Seq(S), s # <<>>
  PROVE  Tail(s) \in Seq(S) /\ (Len(s) # 1 => Tail(s) # <<>>)
<1>1. Len(s) \in Nat /\ Len(s) >= 1 /\ Tail(s) \in Seq(S) /\ Len(Tail(s)) = Len(s) - 1
  OBVIOUS
<1>2. Len(<<>>) = 0
  BY Zenon
<1> QED BY <1>1, <1>2

\* namex goes one name further.
LEMMA walkKeeps ==
  ASSUME Sound, NEW p \in Procs, walk(p)
  PROVE  Kept(p)
<1> DEFINE g == Got(Found(p))
           s == Tail(path[p])
<1>1. Known(p)
  BY Knows, Zenon
<1>2. /\ pc[p] = "walk" /\ path[p] # <<>> /\ ~AtLast(p) /\ CanGet(Found(p))
      /\ ic' = iget(Seen(ic, dp[p]), Found(p))
      /\ Sets(p, cwd[p], fd[p], g, ip[p], dp[p], "put", "walk", call[p], s)
  BY <1>1, Zenon DEF walk, at, goto, iputThen, open, Known, Stays, Sets
<1>3. dp[p] \in Entries /\ put[p] = None /\ path[p] \in Seq(Names \cup Dots)
  BY <1>1, <1>2, Zenon DEF Known, Fits, Stage, InPut, Pointers, DpStages, Path
<1>4. g \in Entries /\ CacheStep(g, None) /\ \A e \in Entries : ic'[e].lock = ic[e].lock
  BY <1>2, <1>3, LockSteps, IgetStep
<1>5. s \in Path /\ (ToParent(call[p], ip[p]) => s # <<>>)
  BY <1>2, <1>3, TailFacts, Zenon DEF Path, AtLast, Parent, ToParent
<1> HIDE DEF g, s
<1>6. Fits(p, cwd[p], fd[p], g, ip[p], dp[p], "put", "walk", call[p], s)
  BY <1>1, <1>2, <1>3, <1>4, <1>5, Zenon DEF Known, Fits, Stage, InPut, Pointers, Labels, DpStages, IpStages
<1>7. LockStep(p, g, ip[p], dp[p], "put", "walk")
  BY <1>1, <1>2, <1>4, Zenon DEF Known, LockStep, HoldsOf, Stage, InPut, DpLocked, IpLocked
<1>8. Balance(p, cwd[p], fd[p], g, ip[p], dp[p], g, None)
  BY <1>3 DEF Balance, Count, Bits
<1> QED BY <1>2, <1>4, <1>6, <1>7, <1>8, Step, Zenon

\* create finds the name.
LEMMA createFoundKeeps ==
  ASSUME Sound, NEW p \in Procs, createFound(p)
  PROVE  Kept(p)
<1> DEFINE g == Got(Found(p))
<1>1. Known(p)
  BY Knows, Zenon
<1>2. /\ pc[p] = "walk" /\ Creates(p) /\ CanGet(Found(p)) /\ ic' = iget(Seen(ic, dp[p]), Found(p))
      /\ Sets(p, cwd[p], fd[p], None, g, dp[p], "put", "exists", call[p], path[p])
  BY <1>1, Zenon DEF createFound, parent, at, goto, iputThen, open, Known, Stays, Sets
<1>3. dp[p] \in Entries /\ ip[p] = None /\ put[p] = None
  BY <1>1, <1>2, Zenon DEF Known, Fits, Stage, InPut, Pointers, DpStages, Creates
<1>4. g \in Entries /\ CacheStep(g, None) /\ \A e \in Entries : ic'[e].lock = ic[e].lock
  BY <1>2, <1>3, LockSteps, IgetStep
<1> HIDE DEF g
<1>5. Fits(p, cwd[p], fd[p], None, g, dp[p], "put", "exists", call[p], path[p])
  BY <1>1, <1>3, <1>4, Zenon DEF Known, Fits, Stage, InPut, Pointers, Labels, DpStages, IpStages
<1>6. LockStep(p, None, g, dp[p], "put", "exists")
  BY <1>1, <1>2, <1>4, Zenon DEF Known, LockStep, HoldsOf, Stage, InPut, DpLocked, IpLocked
<1>7. Balance(p, cwd[p], fd[p], None, g, dp[p], g, None)
  BY <1>3 DEF Balance, Count, Bits
<1> QED BY <1>2, <1>4, <1>5, <1>6, <1>7, Step, Zenon

\* iget with the lock of d held.
LEMMA GetLocked ==
  ASSUME Sound, NEW p \in Procs, NEW d \in Entries, NEW i, CanGet(i), ic' = iget(Locked(ic, d, p), i)
  PROVE  /\ Got(i) \in Entries /\ CacheStep(Got(i), None) /\ ic'[d].lock = p
         /\ \A e \in Entries : e # d => ic'[e].lock = ic[e].lock
<1> DEFINE c == Locked(ic, d, p)
<1>1. Like(ic, c, d) /\ c[d].lock = p
  BY LockSteps, Zenon
<1> HIDE DEF c
<1>2. /\ Got(i) \in Entries /\ CacheStep(Got(i), None)
      /\ \A e \in Entries : ic'[e].lock = c[e].lock
  BY <1>1, IgetStep, Zenon DEF c
<1> QED BY <1>1, <1>2, Zenon DEF Like

\* p takes the lock of dp, which was free.
LEMMA DpTaken ==
  ASSUME Sound, NEW p \in Procs, pc[p] = "walk", dp[p] \in Entries, Free(dp[p]), ic'[dp[p]].lock = p,
         \A e \in Entries : e # dp[p] => ic'[e].lock = ic[e].lock,
         NEW i, NEW u, NEW l, NEW r, Stage(l, r) \in DpLocked, l # "free"
  PROVE  LockStep(p, dp[p], i, u, l, r)
<1>1. Known(p)
  BY Knows, Zenon
<1>2. \A e \in Entries : HoldsOf(dp[p], i, u, l, r, e) <=> e = dp[p]
  BY Zenon DEF HoldsOf, DpLocked, IpLocked
<1>3. \A e \in Entries : ~HoldsOf(dp[p], ip[p], put[p], pc[p], ret[p], e)
  BY Zenon DEF HoldsOf, Stage, InPut, DpLocked, IpLocked
<1> QED BY <1>1, <1>2, <1>3, Zenon DEF Known, LockStep, Free, Off

\* sys_unlink finds the name and keeps dp locked.
LEMMA unlinkFindKeeps ==
  ASSUME Sound, NEW p \in Procs, unlinkFind(p)
  PROVE  Kept(p)
<1> DEFINE g == Got(Found(p))
<1>1. Known(p)
  BY Knows, Zenon
<1>2. /\ pc[p] = "walk" /\ call[p].op = "unlink" /\ CanGet(Found(p)) /\ Free(dp[p])
      /\ ic' = iget(Locked(ic, dp[p], p), Found(p))
      /\ Sets(p, cwd[p], fd[p], dp[p], g, put[p], "unlink", ret[p], call[p], path[p])
  BY <1>1, Zenon DEF unlinkFind, parent, at, goto, open, Known, Stays, Sets
<1>3. dp[p] \in Entries /\ ip[p] = None /\ Stage("unlink", ret[p]) \in DpLocked
  BY <1>1, <1>2, Zenon DEF Known, Fits, Stage, InPut, Pointers, DpStages, DpLocked
<1>4. /\ g \in Entries /\ CacheStep(g, None) /\ ic'[dp[p]].lock = p
      /\ \A e \in Entries : e # dp[p] => ic'[e].lock = ic[e].lock
  BY <1>2, <1>3, GetLocked, Zenon
<1> HIDE DEF g
<1>5. Fits(p, cwd[p], fd[p], dp[p], g, put[p], "unlink", ret[p], call[p], path[p])
  BY <1>1, <1>2, <1>4, Zenon DEF Known, Fits, Stage, InPut, Pointers, Labels, DpStages, IpStages
<1>6. LockStep(p, dp[p], g, put[p], "unlink", ret[p])
  BY <1>2, <1>3, <1>4, DpTaken, Zenon
<1>7. Balance(p, cwd[p], fd[p], dp[p], g, put[p], g, None)
  BY <1>3 DEF Balance, Count, Bits
<1> QED BY <1>2, <1>4, <1>5, <1>6, <1>7, Step, Zenon

\* dirlink finds the name taken.
LEMMA linkClashKeeps ==
  ASSUME Sound, NEW p \in Procs, linkClash(p)
  PROVE  Kept(p)
<1> DEFINE g == Got(Found(p))
<1>1. Known(p)
  BY Knows, Zenon
<1>2. /\ pc[p] = "walk" /\ ip[p] # None /\ CanGet(Found(p)) /\ Free(dp[p])
      /\ ic' = iget(Locked(ic, dp[p], p), Found(p))
      /\ Sets(p, cwd[p], fd[p], dp[p], ip[p], g, "put", "clash", call[p], path[p])
  BY <1>1, Zenon DEF linkClash, parent, AtLast, Parent, at, goto, iputThen, open, Known, Stays, Sets
<1>3. dp[p] \in Entries /\ put[p] = None /\ Stage("put", "clash") \in DpLocked
  BY <1>1, <1>2, Zenon DEF Known, Fits, Stage, InPut, Pointers, DpStages, DpLocked
<1>4. /\ g \in Entries /\ CacheStep(g, None) /\ ic'[dp[p]].lock = p
      /\ \A e \in Entries : e # dp[p] => ic'[e].lock = ic[e].lock
  BY <1>2, <1>3, GetLocked, Zenon
<1> HIDE DEF g
<1>5. Fits(p, cwd[p], fd[p], dp[p], ip[p], g, "put", "clash", call[p], path[p])
  BY <1>1, <1>2, <1>4, Zenon DEF Known, Fits, Stage, InPut, Pointers, Labels, DpStages, IpStages
<1>6. LockStep(p, dp[p], ip[p], g, "put", "clash")
  BY <1>2, <1>3, <1>4, DpTaken, Zenon
<1>7. Balance(p, cwd[p], fd[p], dp[p], ip[p], g, g, None)
  BY <1>3 DEF Balance, Count, Bits
<1> QED BY <1>2, <1>4, <1>5, <1>6, <1>7, Step, Zenon

\* create locks dp and takes an inode of the disk.
LEMMA iallocKeeps ==
  ASSUME Sound, NEW p \in Procs, ialloc(p)
  PROVE  Kept(p)
<1>1. Known(p)
  BY Knows, Zenon
<1>2. /\ pc[p] = "walk" /\ Creates(p) /\ Free(dp[p]) /\ ic' = Locked(ic, dp[p], p)
      /\ Sets(p, cwd[p], fd[p], dp[p], ip[p], put[p], "ialloc", ret[p], call[p], path[p])
  BY <1>1, Zenon DEF ialloc, parent, at, goto, open, Known, Stays, Sets
<1>3. dp[p] \in Entries /\ ip[p] = None /\ Stage("ialloc", ret[p]) \in DpLocked
  BY <1>1, <1>2, Zenon DEF Known, Fits, Stage, InPut, Pointers, DpStages, DpLocked, Creates
<1>4. Like(ic, ic', dp[p]) /\ ic'[dp[p]].lock = p
  BY <1>2, <1>3, LockSteps, Zenon
<1>5. Fits(p, cwd[p], fd[p], dp[p], ip[p], put[p], "ialloc", ret[p], call[p], path[p])
  BY <1>1, <1>2, <1>3, Zenon DEF Known, Fits, Stage, InPut, Labels, DpStages, IpStages
<1>6. LockStep(p, dp[p], ip[p], put[p], "ialloc", ret[p])
  BY <1>2, <1>3, <1>4, DpTaken, Zenon DEF Like
<1>7. CacheStep(None, None)
  BY <1>4, LikeStep, Zenon
<1>8. Balance(p, cwd[p], fd[p], dp[p], ip[p], put[p], None, None)
  BY Zenon DEF Balance
<1> QED BY <1>2, <1>5, <1>6, <1>7, <1>8, Step, Zenon

\* A cache entry for the new inode.
LEMMA iallocGetKeeps ==
  ASSUME Sound, NEW p \in Procs, iallocGet(p)
  PROVE  Kept(p)
<1> DEFINE g == Got(inum[p])
<1>1. Known(p)
  BY Knows, Zenon
<1>2. /\ pc[p] = "ialloc" /\ CanGet(inum[p]) /\ ic' = iget(ic, inum[p])
      /\ Sets(p, cwd[p], fd[p], dp[p], g, put[p], "create", ret[p], call[p], path[p])
  BY <1>1, Zenon DEF iallocGet, at, goto, open, Known, Stays, Sets
<1>3. ip[p] = None /\ Like(ic, ic, None)
  BY <1>1, <1>2, Zenon DEF Known, Fits, Stage, InPut, IpStages, Like
<1>4. g \in Entries /\ CacheStep(g, None) /\ \A e \in Entries : ic'[e].lock = ic[e].lock
  BY <1>2, <1>3, IgetStep, Zenon
<1> HIDE DEF g
<1>5. Fits(p, cwd[p], fd[p], dp[p], g, put[p], "create", ret[p], call[p], path[p])
  BY <1>1, <1>2, <1>4, Zenon DEF Known, Fits, Stage, InPut, Pointers, Labels, DpStages, IpStages
<1>6. LockStep(p, dp[p], g, put[p], "create", ret[p])
  BY <1>1, <1>2, <1>4, Zenon DEF Known, LockStep, HoldsOf, Stage, InPut, DpLocked, IpLocked
<1>7. Balance(p, cwd[p], fd[p], dp[p], g, put[p], g, None)
  BY <1>3 DEF Balance, Count, Bits
<1> QED BY <1>2, <1>4, <1>5, <1>6, <1>7, Step, Zenon

\* ip is locked, and dp unlocked and given back.
LEMMA Swapped ==
  ASSUME Sound, NEW p \in Procs, pc[p] \in {"create", "unlink"}, Free(ip[p]),
         Table(ic'), ic'[ip[p]].lock = p, ic'[dp[p]].lock = None,
         \A e \in Entries : /\ ic'[e].ref = ic[e].ref /\ ic'[e].inum = ic[e].inum
                            /\ (e \notin {dp[p], ip[p]} => ic'[e].lock = ic[e].lock),
         NEW l, l \in {"created", "unlinked"},
         Sets(p, cwd[p], fd[p], None, ip[p], dp[p], "put", l, call[p], path[p])
  PROVE  Kept(p)
<1>1. Known(p)
  BY Knows, Zenon
<1>2. dp[p] \in Entries /\ ip[p] \in Entries /\ put[p] = None /\ Stage(pc[p], ret[p]) = pc[p]
  BY <1>1, Zenon DEF Known, Fits, Stage, InPut, Pointers, DpStages, IpStages
<1>3. Fits(p, cwd[p], fd[p], None, ip[p], dp[p], "put", l, call[p], path[p])
  BY <1>1, <1>2, Zenon DEF Known, Fits, Stage, InPut, Pointers, Labels, DpStages, IpStages
<1>4. LockStep(p, None, ip[p], dp[p], "put", l)
  <2>1. \A e \in Entries : HoldsOf(None, ip[p], dp[p], "put", l, e) <=> e = ip[p]
    BY Zenon DEF HoldsOf, Stage, InPut, DpLocked, IpLocked
  <2>2. \A e \in Entries : HoldsOf(dp[p], ip[p], put[p], pc[p], ret[p], e) <=> e = dp[p]
    BY <1>1, <1>2, Zenon DEF Known, HoldsOf, DpLocked, IpLocked
  <2> QED BY <1>1, <1>2, <2>1, <2>2 DEF Known, LockStep, Free, Off
<1>5. CacheStep(None, None)
  <2>1. \A e \in Entries : ic[e].ref \in Nat /\ Is(None, e) = 0
    BY <1>1, Zenon DEF Known, Bits
  <2> QED BY <2>1 DEF CacheStep
<1>6. Balance(p, cwd[p], fd[p], None, ip[p], dp[p], None, None)
  BY <1>2 DEF Balance, Count, Bits
<1> QED BY <1>3, <1>4, <1>5, <1>6, Step, Zenon

\* dp, which p has locked, is not ip, which is free.
LEMMA DpNotIp ==
  ASSUME Sound, NEW p \in Procs, pc[p] \in {"create", "unlink"}, Free(ip[p])
  PROVE  Table(ic) /\ dp[p] \in Entries /\ ip[p] \in Entries /\ dp[p] # ip[p]
<1>1. Known(p)
  BY Knows, Zenon
<1>2. /\ Table(ic) /\ dp[p] \in Entries /\ ip[p] \in Entries
      /\ HoldsOf(dp[p], ip[p], put[p], pc[p], ret[p], dp[p])
  BY <1>1, Zenon DEF Known, Fits, Stage, InPut, Pointers, DpStages, IpStages, HoldsOf, DpLocked
<1> QED BY <1>1, <1>2, Zenon DEF Known, Free

\* The new inode is filled in.
LEMMA createKeeps ==
  ASSUME Sound, NEW p \in Procs, create(p)
  PROVE  Kept(p)
<1>1. Known(p)
  BY Knows, Zenon
<1>2. PICK x, y :
        /\ pc[p] = "create" /\ Free(ip[p])
        /\ ic' = [Unlocked(Changed(Changed(ic, ip[p], x), dp[p], y), dp[p])
                    EXCEPT ![ip[p]].lock = p, ![ip[p]].containerID = Container[p]]
        /\ Sets(p, cwd[p], fd[p], None, ip[p], dp[p], "put", "created", call[p], path[p])
  BY <1>1, Zenon DEF create, at, goto, iputThen, open, Known, Stays, Sets
<1>3. Table(ic) /\ dp[p] \in Entries /\ ip[p] \in Entries /\ dp[p] # ip[p]
  BY <1>2, DpNotIp, Zenon
<1> DEFINE c == Changed(ic, ip[p], x)
           t == Unlocked(Changed(c, dp[p], y), dp[p])
<1>4. Like(ic, c, None) /\ Table(c) /\ \A e \in Entries : c[e].lock = ic[e].lock
  BY <1>3, ChangedLike DEF Like
<1>5. ic' = [t EXCEPT ![ip[p]].lock = p, ![ip[p]].containerID = Container[p]]
  BY <1>2, Zenon
<1> HIDE DEF c
<1>6. Like(c, t, dp[p]) /\ t[dp[p]].lock = None /\ Table(t)
  BY <1>3, <1>4, ChangedUnlocked DEF Like
<1> HIDE DEF t
<1>7. /\ Table(ic') /\ ic'[ip[p]].lock = p /\ ic'[ip[p]].ref = t[ip[p]].ref
      /\ ic'[ip[p]].inum = t[ip[p]].inum /\ \A e \in Entries : e # ip[p] => ic'[e] = t[e]
  BY <1>3, <1>5, <1>6, Zenon DEF Table, Fields
<1>8. /\ Table(ic') /\ ic'[ip[p]].lock = p /\ ic'[dp[p]].lock = None
      /\ \A e \in Entries : /\ ic'[e].ref = ic[e].ref /\ ic'[e].inum = ic[e].inum
                            /\ (e \notin {dp[p], ip[p]} => ic'[e].lock = ic[e].lock)
  BY <1>3, <1>4, <1>6, <1>7 DEF Like
<1>9. /\ pc[p] \in {"create", "unlink"} /\ Free(ip[p]) /\ "created" \in {"created", "unlinked"}
      /\ Sets(p, cwd[p], fd[p], None, ip[p], dp[p], "put", "created", call[p], path[p])
  BY <1>2, Zenon
<1> QED BY <1>8, <1>9, Swapped, Zenon

\* The directory entry is cleared.
LEMMA unlinkKeeps ==
  ASSUME Sound, NEW p \in Procs, unlink(p)
  PROVE  Kept(p)
<1>1. Known(p)
  BY Knows, Zenon
<1>2. PICK y :
        /\ pc[p] = "unlink" /\ Free(ip[p])
        /\ ic' = Unlocked(Changed(Locked(ic, ip[p], p), dp[p], y), dp[p])
        /\ Sets(p, cwd[p], fd[p], None, ip[p], dp[p], "put", "unlinked", call[p], path[p])
  BY <1>1, Zenon DEF unlink, at, goto, iputThen, open, Known, Stays, Sets
<1>3. dp[p] \in Entries /\ ip[p] \in Entries /\ dp[p] # ip[p]
  BY <1>2, DpNotIp, Zenon
<1> DEFINE c == Locked(ic, ip[p], p)
<1>4. Like(ic, c, ip[p]) /\ c[ip[p]].lock = p /\ Table(c)
  BY <1>3, LockSteps DEF Like
<1>5. ic' = Unlocked(Changed(c, dp[p], y), dp[p])
  BY <1>2, Zenon
<1> HIDE DEF c
<1>6. Like(c, ic', dp[p]) /\ ic'[dp[p]].lock = None
  BY <1>3, <1>4, <1>5, ChangedUnlocked, Zenon
<1>7. /\ Table(ic') /\ ic'[ip[p]].lock = p /\ ic'[dp[p]].lock = None
      /\ \A e \in Entries : /\ ic'[e].ref = ic[e].ref /\ ic'[e].inum = ic[e].inum
                            /\ (e \notin {dp[p], ip[p]} => ic'[e].lock = ic[e].lock)
  BY <1>3, <1>4, <1>6, Zenon DEF Like
<1>8. /\ pc[p] \in {"create", "unlink"} /\ Free(ip[p]) /\ "unlinked" \in {"created", "unlinked"}
      /\ Sets(p, cwd[p], fd[p], None, ip[p], dp[p], "put", "unlinked", call[p], path[p])
  BY <1>2, Zenon
<1> QED BY <1>7, <1>8, Swapped, Zenon

\* iput looks whether the inode is to be freed, which it then is.
LEMMA iputKeeps ==
  ASSUME Sound, NEW p \in Procs, iput(p)
  PROVE  Kept(p)
<1>1. Known(p)
  BY Knows, Zenon
<1>2. PICK l :
        /\ pc[p] = "put" /\ Free(put[p])
        /\ (l = "free" /\ ic' = WithLock(ic, put[p], p)) \/ (l = "dec" /\ ic' = ic)
        /\ Sets(p, cwd[p], fd[p], dp[p], ip[p], put[p], l, ret[p], call[p], path[p])
  BY <1>1, Zenon DEF iput, WithLock, at, goto, open, Known, Stays, Sets
<1>3. /\ put[p] \in Entries /\ Table(ic) /\ Stage(pc[p], ret[p]) = ret[p] /\ Stage(l, ret[p]) = ret[p]
      /\ ~HoldsOf(dp[p], ip[p], put[p], pc[p], ret[p], put[p])
  BY <1>1, <1>2, Zenon DEF Known, Fits, Stage, InPut, Pointers, Free
<1>4. /\ Like(ic, ic', put[p])
      /\ (l = "free" /\ ic'[put[p]].lock = p) \/ (l = "dec" /\ ic'[put[p]].lock = ic[put[p]].lock)
  <2>1. Like(ic, WithLock(ic, put[p], p), put[p]) /\ WithLock(ic, put[p], p)[put[p]].lock = p
    BY <1>3, LockLike
  <2>2. Like(ic, ic, put[p])
    BY <1>3, Zenon DEF Like
  <2> QED BY <1>2, <2>1, <2>2, Zenon
<1>5. Fits(p, cwd[p], fd[p], dp[p], ip[p], put[p], l, ret[p], call[p], path[p])
  BY <1>1, <1>2, <1>3, Zenon DEF Known, Fits, InPut, Labels, HoldsOf
<1>6. LockStep(p, dp[p], ip[p], put[p], l, ret[p])
  BY <1>1, <1>2, <1>3, <1>4, Zenon DEF Known, LockStep, HoldsOf, Like, Free, Off
<1>7. CacheStep(None, None)
  BY <1>4, LikeStep, Zenon
<1>8. Balance(p, cwd[p], fd[p], dp[p], ip[p], put[p], None, None)
  BY Zenon DEF Balance
<1> QED BY <1>2, <1>5, <1>6, <1>7, <1>8, Step, Zenon

\* iput frees the inode and unlocks it.
LEMMA iputFreeKeeps ==
  ASSUME Sound, NEW p \in Procs, iputFree(p)
  PROVE  Kept(p)
<1>1. Known(p)
  BY Knows, Zenon
<1>2. /\ pc[p] = "free"
      /\ ic' = [ic EXCEPT ![put[p]].valid = FALSE, ![put[p]].ino = NoInode, ![put[p]].lock = None]
      /\ Sets(p, cwd[p], fd[p], dp[p], ip[p], put[p], "dec", ret[p], call[p], path[p])
  BY <1>1, Zenon DEF iputFree, at, goto, open, Known, Stays, Sets
<1>3. /\ put[p] \in Entries /\ Table(ic) /\ Stage(pc[p], ret[p]) = ret[p]
      /\ Stage("dec", ret[p]) = ret[p]
  BY <1>1, <1>2, Zenon DEF Known, Fits, Stage, InPut, Pointers
<1>4. Like(ic, ic', put[p]) /\ ic'[put[p]].lock = None
  BY <1>2, <1>3, Zenon DEF Like, Table, Fields
<1>5. Fits(p, cwd[p], fd[p], dp[p], ip[p], put[p], "dec", ret[p], call[p], path[p])
  BY <1>1, <1>2, <1>3, Zenon DEF Known, Fits, InPut, Labels
<1>6. LockStep(p, dp[p], ip[p], put[p], "dec", ret[p])
  <2>1. \A e \in Entries : HoldsOf(dp[p], ip[p], put[p], "dec", ret[p], e)
          <=> e # put[p] /\ HoldsOf(dp[p], ip[p], put[p], pc[p], ret[p], e)
    BY <1>1, <1>2, <1>3, Zenon DEF Known, Fits, HoldsOf
  <2>2. HoldsOf(dp[p], ip[p], put[p], pc[p], ret[p], put[p])
    BY <1>2, Zenon DEF HoldsOf
  <2> QED BY <1>1, <1>3, <1>4, <2>1, <2>2, Zenon DEF Known, LockStep, Like, Off
<1>7. CacheStep(None, None)
  BY <1>4, LikeStep, Zenon
<1>8. Balance(p, cwd[p], fd[p], dp[p], ip[p], put[p], None, None)
  BY Zenon DEF Balance
<1> QED BY <1>2, <1>5, <1>6, <1>7, <1>8, Step, Zenon

\* What is left of an entry that iput drops a reference of.
Dropped(c) == IF c.ref > 1 THEN [c EXCEPT !.ref = @ - 1]
              ELSE [NoEntry EXCEPT !.containerID = c.containerID]

\* The holder of a lock has a pointer to the entry.
LEMMA HolderPoints ==
  ASSUME Sound, NEW q \in Procs, NEW e \in Entries, ic[e].lock = q
  PROVE  /\ Own(q, e) \in Nat /\ Own(q, e) >= 1 /\ ic[e].ref \in Nat /\ ic[e].ref >= 1
         /\ put[q] = e /\ pc[q] = "dec" => Own(q, e) >= 2
<1>1. Known(q)
  BY Knows, Zenon
<1>2. /\ HoldsOf(dp[q], ip[q], put[q], pc[q], ret[q], e) /\ ic[e].ref \in Nat
      /\ ic[e].ref >= Own(q, e)
  BY <1>1, Zenon DEF Known, Sound, Counts
<1>3. dp[q] = e \/ ip[q] = e \/ (put[q] = e /\ pc[q] = "free")
  BY <1>2, Zenon DEF HoldsOf
<1>4. /\ Own(q, e) \in Nat /\ Own(q, e) >= 1
      /\ put[q] = e /\ pc[q] = "dec" => Own(q, e) >= 2
  BY <1>3 DEF Own, Count, Is
<1> QED BY <1>2, <1>4

\* Nobody holds the lock of an entry whose last reference iput drops.
LEMMA LastUnlocked ==
  ASSUME Sound, NEW p \in Procs, pc[p] = "dec", put[p] \in Entries
  PROVE  /\ ic[put[p]].ref \in Nat /\ ic[put[p]].ref >= 1
         /\ ic[put[p]].ref = 1 => \A q \in Procs : ic[put[p]].lock # q
<1> DEFINE d == put[p]
<1>1. /\ ic[d].ref \in Nat /\ ic[d].ref >= Own(p, d)
      /\ \A q \in Procs \ {p} : ic[d].ref >= Own(p, d) + Own(q, d)
  BY Zenon DEF Sound, Counts
<1>2. Own(p, d) \in Nat /\ Own(p, d) >= 1
  BY DEF Own, Count, Is
<1>3. ASSUME ic[d].ref = 1, NEW q \in Procs, ic[d].lock = q PROVE FALSE
  <2>1. /\ Own(q, d) \in Nat /\ Own(q, d) >= 1
        /\ put[q] = d /\ pc[q] = "dec" => Own(q, d) >= 2
    BY <1>3, HolderPoints, Zenon
  <2> QED BY <1>1, <1>2, <1>3, <2>1
<1> QED BY <1>1, <1>2, <1>3

\* iput drops the reference.
LEMMA iputDecKeeps ==
  ASSUME Sound, NEW p \in Procs, iputDec(p)
  PROVE  Kept(p)
<1> DEFINE d == put[p]
<1>1. Known(p)
  BY Knows, Zenon
<1>2. PICK k, s :
        /\ pc[p] = "dec" /\ ic' = [ic EXCEPT ![d] = Dropped(ic[d])]
        /\ Sets(p, cwd[p], fd[p], dp[p], ip[p], None, ret[p], "idle", k, s)
        /\ (ret[p] = "idle" /\ s = <<>>) \/ (k = call[p] /\ s = path[p])
  BY <1>1, Zenon DEF iputDec, at, goto, open, Known, Stays, Sets, Dropped
<1>3. /\ d \in Entries /\ Table(ic) /\ Stage(pc[p], ret[p]) = ret[p] /\ ret[p] \notin InPut
      /\ Stage(ret[p], "idle") = ret[p]
  BY <1>1, <1>2, Zenon DEF Known, Fits, Stage, InPut, Pointers
<1>4. /\ ic[d].ref \in Nat /\ ic[d].ref >= 1
      /\ ic[d].ref = 1 => \A q \in Procs : ic[d].lock # q
  BY <1>2, <1>3, LastUnlocked, Zenon
<1>5. Fits(p, cwd[p], fd[p], dp[p], ip[p], None, ret[p], "idle", k, s)
  <2>1. s \in Path
    <3>1. <<>> \in Path
      BY DEF Path
    <3> QED BY <1>1, <1>2, <3>1, Zenon DEF Known, Fits
  <2>2. ret[p] = "walk" => k = call[p] /\ s = path[p]
    BY <1>2, Zenon
  <2> QED BY <1>1, <1>2, <1>3, <2>1, <2>2, Zenon DEF Known, Fits, InPut, Labels, Pointers
<1>6. Balance(p, cwd[p], fd[p], dp[p], ip[p], None, None, d)
  BY DEF Balance, Count, Bits
<1> HIDE DEF d
<1>7. Table(ic') /\ ic'[d] = Dropped(ic[d]) /\ \A e \in Entries : e # d => ic'[e] = ic[e]
  <2>1. DOMAIN Dropped(ic[d]) = Fields
    BY <1>3, Zenon DEF Table, Dropped, NoEntry, Fields
  <2> QED BY <1>2, <1>3, <2>1, Zenon DEF Table
<1>8. /\ ic'[d].ref = ic[d].ref - 1
      /\ ic[d].ref > 1 => ic'[d].inum = ic[d].inum /\ ic'[d].lock = ic[d].lock
      /\ ic[d].ref = 1 => ic'[d].lock = None
  <2>1. DOMAIN ic[d] = Fields
    BY <1>3, Zenon DEF Table
  <2>2. CASE ic[d].ref > 1
    BY <1>4, <1>7, <2>1, <2>2 DEF Dropped, Fields
  <2>3. CASE ic[d].ref = 1
    BY <1>4, <1>7, <2>3 DEF Dropped, NoEntry
  <2> QED BY <1>4, <2>2, <2>3
<1>9. LockStep(p, dp[p], ip[p], None, ret[p], "idle")
  <2>1. \A e \in Entries : HoldsOf(dp[p], ip[p], None, ret[p], "idle", e)
          <=> HoldsOf(dp[p], ip[p], put[p], pc[p], ret[p], e)
    BY <1>1, <1>2, <1>3, Zenon DEF HoldsOf, InPut
  <2>2. \A e \in Entries : ic'[e].lock = ic[e].lock \/ (ic[e].lock \notin Procs /\ ic'[e].lock = None)
    BY <1>4, <1>7, <1>8
  <2> QED BY <1>1, <2>1, <2>2, Zenon DEF Known, LockStep, Off
<1>10. CacheStep(None, d)
  <2>1. \A e \in Entries : Is(None, e) = 0 /\ ic[e].ref \in Nat
    BY <1>1, Zenon DEF Known, Bits
  <2>2. \A e \in Entries : Is(d, e) = IF e = d THEN 1 ELSE 0
    BY Zenon DEF Is
  <2> QED BY <1>4, <1>7, <1>8, <2>1, <2>2 DEF CacheStep
<1> QED BY <1>2, <1>5, <1>6, <1>9, <1>10, Step, Zenon

-----------------------------------------------------------------------------
(* All the steps. *)

\* Nothing of the cache and of the processes changes.
Same == UNCHANGED <<ic, cwd, fd, dp, ip, put, pc, ret, call, path>>

\* A step keeps the invariant, or changes nothing of this.
LEMMA NextKept ==
  ASSUME Sound, [Next]_vars
  PROVE  Same \/ \E p \in Procs : Kept(p)
<1>1. CASE UNCHANGED vars
  BY <1>1, Zenon DEF vars, open, Same
<1>2. ASSUME NEW p \in Procs, NEW c \in Calls[p], begin(p, c) PROVE Kept(p)
  BY <1>2, beginKeeps, Zenon
<1>3. ASSUME NEW p \in Procs, Walk(p) \/ Iput(p) PROVE Same \/ Kept(p)
  <2>1. CASE igetPanic(p)
    BY <2>1, Zenon DEF igetPanic, Panic, open, Same
  <2> QED BY <1>3, <2>1, walkKeeps, walkFailKeeps, iputKeeps, iputFreeKeeps, iputDecKeeps, Zenon
          DEF Walk, Iput
<1>4. ASSUME NEW p \in Procs, Open(p) PROVE Kept(p)
  BY <1>4, sys_openKeeps, sys_chdirKeeps, sys_closeKeeps, filewriteKeeps, Zenon DEF Open
<1>5. ASSUME NEW p \in Procs, Create(p) PROVE Same \/ Kept(p)
  <2>1. CASE spacePanic(p)
    BY <2>1, Zenon DEF spacePanic, Panic, open, Same
  <2> QED BY <1>5, <2>1, createFoundKeeps, iallocKeeps, iallocGetKeeps, createKeeps,
          createdKeeps, Zenon DEF Create
<1>6. ASSUME NEW p \in Procs, Unlink(p) PROVE Kept(p)
  BY <1>6, unlinkMissKeeps, unlinkFindKeeps, unlinkFullKeeps, BadKeeps, unlinkKeeps,
     unlinkedKeeps, Zenon DEF Unlink
<1>7. ASSUME NEW p \in Procs, Link(p) PROVE Kept(p)
  BY <1>7, linkOldKeeps, linkNewKeeps, linkClashKeeps, BadKeeps, unlinkedKeeps, Zenon DEF Link
<1> QED BY <1>1, <1>2, <1>3, <1>4, <1>5, <1>6, <1>7, Zenon DEF Next

\* A step that changes nothing of this.
LEMMA SameKeeps ==
  ASSUME Core, Same
  PROVE  Core'
BY Zenon DEF Same, Core, Table, Functions, Local, LockInv, Holds, OneEntry

INSTANCE FiniteSetTheorems
INSTANCE WellFoundedInduction

-----------------------------------------------------------------------------
(* Sets and numbers. *)

\* A nonempty finite set of integers has a least element, which Min returns.
LEMMA MinIn ==
  ASSUME NEW S, S \subseteq Int, IsFiniteSet(S), S # {}
  PROVE  Min(S) \in S
<1> DEFINE below(x) == {y \in S : y <= x}
           T == {below(x) : x \in S}
<1>0. \A x \in S : below(x) \in SUBSET S /\ IsFiniteSet(below(x))
  BY FS_Subset, Zenon
<1>1. T \subseteq FiniteSubsetsOf(S) /\ T # {}
  <2> HIDE DEF below
  <2> QED BY <1>0, Zenon DEF FiniteSubsetsOf
<1>2. IsWellFoundedOn(StrictSubsetOrdering(S), FiniteSubsetsOf(S))
  BY FS_StrictSubsetOrderingWellFounded, Zenon
<1>3. PICK U \in T : \A V \in T : ~(<<V, U>> \in StrictSubsetOrdering(S))
  <2> HIDE DEF T
  <2> QED BY <1>1, <1>2, WFMin, Zenon
<1>4. PICK x \in S : U = below(x)
  BY Zenon
<1>5. ASSUME NEW y \in S, ~(x <= y)
      PROVE  FALSE
  <2>0. x \in Int /\ y \in Int /\ \A z \in S : z \in Int
    BY Zenon
  <2>4. x <= x /\ \A z \in S : z <= y => z <= x
    BY <2>0, <1>5
  <2>1. below(y) \subseteq below(x) /\ x \in below(x) /\ x \notin below(y)
    BY <2>4, <1>5, Zenon
  <2>3. below(y) \in T
    BY Zenon
  <2>2. <<below(y), U>> \in StrictSubsetOrdering(S)
    BY <2>1, <1>4, Zenon DEF StrictSubsetOrdering
  <2> QED BY <2>3, <2>2, <1>3, Zenon
<1> QED BY <1>5, Zenon DEF Min

\* Adding x to a set, or not.
LEMMA AddIf ==
  ASSUME NEW S, IsFiniteSet(S), NEW x, x \notin S, NEW T, NEW k,
         (k = 1 /\ T = S \cup {x}) \/ (k = 0 /\ T = S)
  PROVE  IsFiniteSet(T) /\ Cardinality(T) = Cardinality(S) + k
<1>0. Cardinality(S) \in Nat
  BY FS_CardinalityType, Zenon
<1>1. IsFiniteSet(S \cup {x}) /\ Cardinality(S \cup {x}) = Cardinality(S) + 1
  BY FS_AddElement, Zenon
<1>2. CASE k = 1 /\ T = S \cup {x}
  BY <1>1, <1>2, Zenon
<1>3. CASE k = 0 /\ T = S
  <2>1. Cardinality(S) = Cardinality(S) + 0
    BY <1>0
  <2> QED BY <2>1, <1>3, Zenon
<1> QED BY <1>2, <1>3, Zenon

\* The pairs <<p, v>> with t[v] = e.
Row(p, t, e) == {<<p, v>> : v \in {w \in 1..5 : t[w] = e}}

\* Adding a row of pairs.
LEMMA RowCount ==
  ASSUME NEW X, IsFiniteSet(X), NEW p, \A v : <<p, v>> \notin X,
         NEW t, NEW e,
         NEW Y, Y = X \cup Row(p, t, e)
  PROVE  /\ IsFiniteSet(Y)
         /\ Cardinality(Y) =
              Cardinality(X) + Is(t[1], e) + Is(t[2], e) + Is(t[3], e) + Is(t[4], e) + Is(t[5], e)
<1> DEFINE A1 == IF t[1] = e THEN X \cup {<<p, 1>>} ELSE X
           A2 == IF t[2] = e THEN A1 \cup {<<p, 2>>} ELSE A1
           A3 == IF t[3] = e THEN A2 \cup {<<p, 3>>} ELSE A2
           A4 == IF t[4] = e THEN A3 \cup {<<p, 4>>} ELSE A3
           A5 == IF t[5] = e THEN A4 \cup {<<p, 5>>} ELSE A4
<1>1. IsFiniteSet(A1) /\ Cardinality(A1) = Cardinality(X) + Is(t[1], e)
  <2>1. <<p, 1>> \notin X
    BY Zenon
  <2>2. \/ Is(t[1], e) = 1 /\ A1 = X \cup {<<p, 1>>}
        \/ Is(t[1], e) = 0 /\ A1 = X
    BY Zenon DEF Is
  <2> HIDE DEF A1
  <2> QED BY <2>1, <2>2, AddIf, Zenon
<1>2. IsFiniteSet(A2) /\ Cardinality(A2) = Cardinality(A1) + Is(t[2], e)
  <2>1. <<p, 2>> \notin A1
    OBVIOUS
  <2>2. \/ Is(t[2], e) = 1 /\ A2 = A1 \cup {<<p, 2>>}
        \/ Is(t[2], e) = 0 /\ A2 = A1
    BY Zenon DEF Is
  <2> HIDE DEF A1, A2
  <2> QED BY <1>1, <2>1, <2>2, AddIf
<1>3. IsFiniteSet(A3) /\ Cardinality(A3) = Cardinality(A2) + Is(t[3], e)
  <2>1. <<p, 3>> \notin A2
    OBVIOUS
  <2>2. \/ Is(t[3], e) = 1 /\ A3 = A2 \cup {<<p, 3>>}
        \/ Is(t[3], e) = 0 /\ A3 = A2
    BY Zenon DEF Is
  <2> HIDE DEF A2, A3
  <2> QED BY <1>2, <2>1, <2>2, AddIf
<1>4. IsFiniteSet(A4) /\ Cardinality(A4) = Cardinality(A3) + Is(t[4], e)
  <2>1. <<p, 4>> \notin A3
    OBVIOUS
  <2>2. \/ Is(t[4], e) = 1 /\ A4 = A3 \cup {<<p, 4>>}
        \/ Is(t[4], e) = 0 /\ A4 = A3
    BY Zenon DEF Is
  <2> HIDE DEF A3, A4
  <2> QED BY <1>3, <2>1, <2>2, AddIf
<1>5. IsFiniteSet(A5) /\ Cardinality(A5) = Cardinality(A4) + Is(t[5], e)
  <2>1. <<p, 5>> \notin A4
    OBVIOUS
  <2>2. \/ Is(t[5], e) = 1 /\ A5 = A4 \cup {<<p, 5>>}
        \/ Is(t[5], e) = 0 /\ A5 = A4
    BY Zenon DEF Is
  <2> HIDE DEF A4, A5
  <2> QED BY <1>4, <2>1, <2>2, AddIf
<1>6. Y = A5
  <2>1. \A r : r \in A5 <=> r \in X \/ (t[1] = e /\ r = <<p, 1>>) \/ (t[2] = e /\ r = <<p, 2>>)
          \/ (t[3] = e /\ r = <<p, 3>>) \/ (t[4] = e /\ r = <<p, 4>>) \/ (t[5] = e /\ r = <<p, 5>>)
    BY Zenon
  <2>2. \A v : v \in 1..5 <=> v = 1 \/ v = 2 \/ v = 3 \/ v = 4 \/ v = 5
    OBVIOUS
  <2>3. \A r : r \in Y <=> r \in A5
    <3> SUFFICES ASSUME NEW r PROVE r \in Y <=> r \in A5
      BY Zenon
    <3> HIDE DEF A5
    <3>1. ASSUME NEW v \in 1..5, t[v] = e, r = <<p, v>> PROVE r \in A5
      <4>1. v = 1 \/ v = 2 \/ v = 3 \/ v = 4 \/ v = 5
        BY <2>2, Zenon
      <4> QED BY <2>1, <3>1, <4>1, SMT
    <3>2. r \in A5 => r \in X \/ \E v \in 1..5 : t[v] = e /\ r = <<p, v>>
      <4>1. 1 \in 1..5 /\ 2 \in 1..5 /\ 3 \in 1..5 /\ 4 \in 1..5 /\ 5 \in 1..5
        OBVIOUS
      <4> QED BY <2>1, <4>1
    <3>3. r \in Y <=> r \in X \/ \E v \in 1..5 : t[v] = e /\ r = <<p, v>>
      BY Zenon DEF Row
    <3> QED BY <3>1, <3>2, <3>3, <2>1, Zenon
  <2> QED BY <2>3, Zenon
<1> HIDE DEF A1, A2, A3, A4, A5
<1> QED BY <1>1, <1>2, <1>3, <1>4, <1>5, <1>6, Zenon

-----------------------------------------------------------------------------
(* References. *)

\* What the constants are.
LEMMA Ranges ==
  /\ Entries \subseteq Nat /\ None \notin Entries /\ IsFiniteSet(Entries) /\ 1 \in Entries
  /\ IsFiniteSet(Procs) /\ None \notin Procs
BY InodeConstants, FS_Interval DEF Entries, None

\* The pointers to e in a table w of pointers, and those in row p.
RefsAt(w, e) == {r \in Procs \X (1..5) : w[r[1]][r[2]] = e}
Among(w, e, Q) == {r \in RefsAt(w, e) : r[1] \in Q}
OwnAt(t, e) ==
  Is(t[1], e) + Is(t[2], e) + Is(t[3], e) + Is(t[4], e) + Is(t[5], e)

\* The row of one process among the rows of several.
LEMMA RowOf ==
  ASSUME NEW w, NEW p \in Procs, NEW e, NEW Q, NEW R, R \subseteq Procs, p \in R, Q = R \ {p}
  PROVE  /\ Cardinality(Among(w, e, Q)) \in Nat /\ OwnAt(w[p], e) \in Nat
         /\ Cardinality(Among(w, e, R)) = Cardinality(Among(w, e, Q)) + OwnAt(w[p], e)
<1> DEFINE X == Among(w, e, Q)
           Y == Among(w, e, R)
           t == w[p]
<1> USE DEF Among
<1>1. IsFiniteSet(Procs \X (1..5))
  <2>1. IsFiniteSet(1..5)
    <3>1. 1 \in Int /\ 5 \in Int
      OBVIOUS
    <3> QED BY <3>1, FS_Interval, Zenon
  <2>2. IsFiniteSet(Procs)
    BY Ranges, Zenon
  <2> QED BY <2>1, <2>2, FS_Product, Zenon
<1>2. IsFiniteSet(X)
  <2>1. X \subseteq Procs \X (1..5)
    BY Zenon DEF RefsAt
  <2> QED BY <2>1, <1>1, FS_Subset, Zenon
<1>4. \A v : <<p, v>> \notin X
  BY Zenon
<1>5. Y = X \cup Row(p, t, e)
  <2>1. \A r \in Procs \X (1..5) : r = <<r[1], r[2]>> /\ r[1] \in Procs /\ r[2] \in 1..5
    OBVIOUS
  <2>2. \A v \in 1..5 : <<p, v>> \in Procs \X (1..5) /\ <<p, v>>[1] = p /\ <<p, v>>[2] = v
    BY Zenon
  <2>3. \A r : r \in RefsAt(w, e) <=> r \in Procs \X (1..5) /\ w[r[1]][r[2]] = e
    BY Zenon DEF RefsAt
  <2>5. ASSUME NEW v \in 1..5, t[v] = e PROVE <<p, v>> \in Y
    BY <2>2, <2>3, <2>5, Zenon
  <2>6. ASSUME NEW r, r \in Y, r \notin X PROVE \E v \in 1..5 : t[v] = e /\ r = <<p, v>>
    BY <2>1, <2>3, <2>6
  <2>7. \A r : r \in Row(p, t, e) <=> \E v \in 1..5 : t[v] = e /\ r = <<p, v>>
    BY Zenon DEF Row
  <2> HIDE DEF t
  <2> QED BY <2>5, <2>6, <2>7
<1>6. /\ IsFiniteSet(Y)
      /\ Cardinality(Y) =
           Cardinality(X) + Is(t[1], e) + Is(t[2], e) + Is(t[3], e) + Is(t[4], e)
                          + Is(t[5], e)
  <2> HIDE DEF t
  <2> QED BY <1>2, <1>4, <1>5, RowCount
<1>8. Cardinality(X) \in Nat
  BY <1>2, FS_CardinalityType, Zenon
<1> QED BY <1>2, <1>6, <1>8 DEF OwnAt, Is

pointers == [q \in Procs |-> <<cwd[q], fd[q], dp[q], ip[q], put[q]>>]

\* Both before and after a step.
LEMMA PointersAt ==
  ASSUME NEW e
  PROVE  /\ Refs(e) = RefsAt(pointers, e) /\ Refs(e)' = RefsAt(pointers', e)
         /\ \A p \in Procs : /\ Own(p, e) = OwnAt(pointers[p], e)
                             /\ Own(p, e)' = OwnAt(pointers'[p], e)
<1>1. \A r \in Procs \X (1..5) : r[1] \in Procs /\ r[2] \in 1..5
  BY Zenon
<1>2. \A p \in Procs, v \in 1..5 : Pointer(p, v) = pointers[p][v] /\ Pointer(p, v)' = pointers'[p][v]
  BY Zenon DEF Pointer, pointers
<1>3. Refs(e) = RefsAt(pointers, e)
  BY <1>1, <1>2, Zenon DEF Refs, RefsAt
<1>4. Refs(e)' = RefsAt(pointers', e)
  BY <1>1, <1>2, Zenon DEF Refs, RefsAt
<1>5. \A p \in Procs : /\ Own(p, e) = OwnAt(pointers[p], e)
                       /\ Own(p, e)' = OwnAt(pointers'[p], e)
  BY Zenon DEF Own, Count, OwnAt, pointers
<1> QED BY <1>3, <1>4, <1>5, Zenon

\* A step of p changes the number of references by what it changes in p.
LEMMA RefKeep ==
  ASSUME NEW p \in Procs, RefInv, Others(p), RefStep(p)
  PROVE  RefInv'
<1> SUFFICES ASSUME NEW e \in Entries PROVE ic'[e].ref = Cardinality(Refs(e)')
  BY Zenon DEF RefInv
<1> DEFINE Q == Procs \ {p}
           X == Among(pointers, e, Q)
           Xn == Among(pointers', e, Q)
           Y == Among(pointers, e, Procs)
           Yn == Among(pointers', e, Procs)
<1>1. X = Xn
  <2>1. \A q \in Q : pointers'[q] = pointers[q]
    BY Zenon DEF pointers, Others
  <2>2. \A r \in Procs \X (1..5) : r[1] \in Procs /\ r[2] \in 1..5
    BY Zenon
  <2> QED BY <2>1, <2>2, Zenon DEF RefsAt, Among
<1>2. Y = RefsAt(pointers, e) /\ Yn = RefsAt(pointers', e)
  BY Zenon DEF RefsAt, Among
<1>0. Procs \subseteq Procs /\ Q = Procs \ {p}
  BY Zenon
<1> HIDE DEF Q
<1>3. /\ Cardinality(X) \in Nat /\ OwnAt(pointers[p], e) \in Nat
      /\ Cardinality(Y) = Cardinality(X) + OwnAt(pointers[p], e)
  BY <1>0, RowOf
<1>4. /\ OwnAt(pointers'[p], e) \in Nat
      /\ Cardinality(Yn) = Cardinality(Xn) + OwnAt(pointers'[p], e)
  BY <1>0, RowOf
<1>5. /\ Refs(e) = Y /\ Refs(e)' = Yn
      /\ Own(p, e) = OwnAt(pointers[p], e) /\ Own(p, e)' = OwnAt(pointers'[p], e)
  BY <1>2, PointersAt, Zenon
<1>6. ic[e].ref = Cardinality(Y)
  BY <1>5, Zenon DEF RefInv
<1>7. ic'[e].ref = ic[e].ref - Own(p, e) + Own(p, e)'
  BY Zenon DEF RefStep
<1> HIDE DEF X, Y, Xn, Yn
<1> QED BY <1>1, <1>3, <1>4, <1>5, <1>6, <1>7

\* A referenced entry has at least the references of any two processes.
LEMMA OwnBound ==
  ASSUME NEW p \in Procs, NEW e \in Entries, RefInv
  PROVE  /\ Own(p, e) \in Nat /\ ic[e].ref \in Nat /\ ic[e].ref >= Own(p, e)
         /\ \A q \in Procs \ {p} : ic[e].ref >= Own(p, e) + Own(q, e)
<1> DEFINE Q == Procs \ {p}
<1>1. /\ Cardinality(Among(pointers, e, Q)) \in Nat
      /\ OwnAt(pointers[p], e) \in Nat
      /\ Cardinality(Among(pointers, e, Procs)) =
           Cardinality(Among(pointers, e, Q)) + OwnAt(pointers[p], e)
  <2>1. Procs \subseteq Procs /\ Q = Procs \ {p}
    BY Zenon
  <2> HIDE DEF Q
  <2> QED BY <2>1, RowOf
<1>2. ASSUME NEW q \in Q
      PROVE  /\ OwnAt(pointers[q], e) \in Nat
             /\ Cardinality(Among(pointers, e, Q)) >= OwnAt(pointers[q], e)
  <2> DEFINE P == Q \ {q}
  <2>1. Q \subseteq Procs /\ q \in Q /\ P = Q \ {q} /\ q \in Procs
    BY Zenon
  <2> HIDE DEF P, Q
  <2>2. /\ Cardinality(Among(pointers, e, P)) \in Nat /\ OwnAt(pointers[q], e) \in Nat
        /\ Cardinality(Among(pointers, e, Q)) =
             Cardinality(Among(pointers, e, P)) + OwnAt(pointers[q], e)
    BY <2>1, RowOf
  <2> QED BY <2>2
<1>3. Among(pointers, e, Procs) = RefsAt(pointers, e)
  BY Zenon DEF RefsAt, Among
<1>4. ic[e].ref = Cardinality(Among(pointers, e, Procs))
  BY <1>3, PointersAt, Zenon DEF RefInv
<1>5. \A q \in Procs : Own(q, e) = OwnAt(pointers[q], e)
  BY PointersAt, Zenon
<1>6. Own(p, e) \in Nat /\ ic[e].ref \in Nat /\ ic[e].ref >= Own(p, e)
  BY <1>1, <1>4, <1>5
<1>7. ASSUME NEW q \in Procs \ {p} PROVE ic[e].ref >= Own(p, e) + Own(q, e)
  <2>1. /\ OwnAt(pointers[q], e) \in Nat
        /\ Cardinality(Among(pointers, e, Q)) >= OwnAt(pointers[q], e)
    BY <1>2, Zenon
  <2>2. Own(p, e) = OwnAt(pointers[p], e) /\ Own(q, e) = OwnAt(pointers[q], e)
    BY <1>5, Zenon
  <2> HIDE DEF Q
  <2> QED BY <1>1, <2>1, <2>2, <1>4
<1> QED BY <1>6, <1>7, Zenon

-----------------------------------------------------------------------------
(* The theorems. *)

\* RefInv says that an entry has the references of any two processes at least.
LEMMA IInvSound ==
  ASSUME IInv
  PROVE  Sound
<1>1. Counts
  BY OwnBound, Zenon DEF IInv, Counts
<1>2. ASSUME NEW S \in SUBSET Entries, S # {} PROVE Min(S) \in S
  <2>1. S \subseteq Int
    BY Ranges
  <2>2. IsFiniteSet(Entries) /\ S \in SUBSET Entries
    BY Ranges, Zenon
  <2>3. IsFiniteSet(S)
    BY <2>2, FS_Subset, Zenon
  <2> QED BY <1>2, <2>1, <2>3, MinIn, Zenon
<1> QED BY <1>1, <1>2, Zenon DEF Sound, IInv, Minima

\* The pointers of a fresh system: everyone's cwd, and nothing else.
LEMMA InitRefs ==
  ASSUME Init
  PROVE  RefInv
<1>1. ASSUME NEW p \in Procs, NEW v \in (1..5), NEW e \in Entries
      PROVE  Pointer(p, v) = e <=> v = 1 /\ e = 1
  <2>1. Pointer(p, 1) = 1 /\ Pointer(p, 2) = None /\ Pointer(p, 3) = None /\ Pointer(p, 4) = None
        /\ Pointer(p, 5) = None
    BY Zenon DEF Init, Pointer
  <2>2. e # None /\ v \in {1, 2, 3, 4, 5}
    BY Ranges
  <2> QED BY <2>1, <2>2, Zenon
<1>2. ASSUME NEW e \in Entries, e = 1 PROVE Refs(e) = Procs \X {1}
  BY <1>1, <1>2 DEF Refs
<1>3. ASSUME NEW e \in Entries, e # 1 PROVE Refs(e) = {}
  BY <1>1, <1>3, Zenon DEF Refs
<1>4. Cardinality(Procs \X {1}) = Cardinality(Procs)
  <2>1. IsFiniteSet(Procs) /\ IsFiniteSet({1}) /\ Cardinality({1}) = 1 /\ Cardinality(Procs) \in Nat
    BY Ranges, FS_Singleton, FS_CardinalityType, Zenon
  <2>2. Cardinality(Procs \X {1}) = Cardinality(Procs) * Cardinality({1})
    BY <2>1, FS_Product, Zenon
  <2> QED BY <2>1, <2>2
<1>5. \A e \in Entries : ic[e].ref = IF e = 1 THEN Cardinality(Procs) ELSE 0
  BY Zenon DEF Init, NoEntry
<1> QED BY <1>2, <1>3, <1>4, <1>5, FS_EmptySet, Zenon DEF RefInv

\* What mkfs and userinit leave satisfies the invariant.
LEMMA InitIInv == Init => IInv
<1> SUFFICES ASSUME Init PROVE IInv
  BY Zenon
<1>1. Table(ic)
  BY Zenon DEF Init, Table, Fields, NoEntry
<1>2. Functions
  BY Zenon DEF Init, Functions
<1>3. \A p \in Procs : /\ cwd[p] = 1 /\ fd[p] = None /\ dp[p] = None /\ ip[p] = None
                       /\ put[p] = None /\ pc[p] = "idle" /\ ret[p] = "idle" /\ path[p] = <<>>
  BY Zenon DEF Init
<1>4. ASSUME NEW p \in Procs PROVE Local(p)
  <2>1. <<>> \in Path
    BY DEF Path
  <2> QED BY <1>3, <2>1, Ranges, Zenon
          DEF Local, Fits, Stage, Pointers, Labels, InPut, DpStages, IpStages, DpLocked, IpLocked
<1>5. \A e \in Entries : /\ ic[e].lock = None
                         /\ ic[e].ref = IF e = 1 THEN Cardinality(Procs) ELSE 0
  BY Zenon DEF Init, NoEntry
<1>6. LockInv
  <2>1. \A p \in Procs, e \in Entries : ~Holds(p, e)
    BY <1>3, Zenon DEF Holds, HoldsOf, Stage, InPut, DpLocked, IpLocked
  <2> QED BY <1>5, <2>1, Ranges, Zenon DEF LockInv
<1>7. OneEntry
  BY <1>5 DEF OneEntry
<1> QED BY <1>1, <1>2, <1>4, <1>6, <1>7, InitRefs, Zenon DEF IInv, Core

\* Every step keeps the invariant.
LEMMA NextIInv == IInv /\ [Next]_vars => IInv'
<1> SUFFICES ASSUME IInv, [Next]_vars PROVE IInv'
  BY Zenon
<1>1. Sound
  BY IInvSound, Zenon
<1>2. CASE Same
  <2>1. Core'
    BY <1>2, SameKeeps, Zenon DEF IInv
  <2>2. RefInv'
    BY <1>2, Zenon DEF Same, IInv, RefInv, Refs, Pointer
  <2> QED BY <2>1, <2>2, Zenon DEF IInv
<1>3. ASSUME NEW p \in Procs, Kept(p) PROVE IInv'
  <2>1. RefInv'
    BY <1>3, RefKeep, Zenon DEF Kept, IInv
  <2> QED BY <1>3, <2>1, Zenon DEF Kept, IInv
<1> QED BY <1>1, <1>2, <1>3, NextKept, Zenon

\* The invariant is one.
LEMMA Invariant == Spec => []IInv
BY InitIInv, NextIInv, PTL DEF Spec

\* ip->ref counts the pointers of open files, current directories and calls in
\* progress, and no inode is in two entries of the cache (iget, idup, iput and
\* the calls that use them), whatever the calls and however they interleave.
THEOREM ReferencesAreCounted == Spec => []RefsCounted
<1>1. IInv => RefsCounted
  BY Zenon DEF IInv, Core, RefInv, OneEntry, Refs, RefsCounted
<1> QED BY <1>1, Invariant, PTL

\* The inodes that different processes have locked are different.
Exclusive == \A p, q \in Procs, e, f \in Entries :
  p # q /\ ic[e].lock = p /\ ic[f].lock = q => ic[e].inum # ic[f].inum

\* ilock excludes: what a process does with an inode between ilock and iunlock
\* no other process does at the same time, though the lock is in the cache entry
\* and entries are recycled.
THEOREM LocksExclude == Spec => []Exclusive
<1>1. IInv => Exclusive
  <2> SUFFICES ASSUME IInv, NEW p \in Procs, NEW q \in Procs, NEW e \in Entries, NEW f \in Entries,
                      p # q, ic[e].lock = p, ic[f].lock = q, ic[e].inum = ic[f].inum
               PROVE  FALSE
    BY DEF Exclusive
  <2>1. Sound
    BY IInvSound, Zenon
  <2>2. ic[e].ref \in Nat /\ ic[e].ref >= 1 /\ ic[f].ref \in Nat /\ ic[f].ref >= 1
    BY <2>1, HolderPoints, Zenon
  <2>3. e = f
    BY <2>2 DEF IInv, Core, OneEntry
  <2> QED BY <2>3, Zenon
<1> QED BY <1>1, Invariant, PTL

=============================================================================
