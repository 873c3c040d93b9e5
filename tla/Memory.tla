------------------------------- MODULE Memory -------------------------------
(***************************************************************************)
(* Physical pages and address spaces: the page allocator (kalloc.c), the   *)
(* two-level page tables (vm.c), and the calls that build and destroy      *)
(* them: fork, exec, sbrk, exit, wait and container_malloc.  kmem.lock is  *)
(* held for one kalloc or kfree, so a call is cut at every kalloc: between *)
(* two of them the other processes take and give pages, and each of them   *)
(* may fail.  What a call does between two kallocs touches only page       *)
(* tables that no other process can reach and pages it gives back.         *)
(*                                                                         *)
(* Addresses and sizes are in units of which PGSIZE make a page.  A page's *)
(* data is one value; page 0 is the null pointer.                          *)
(***************************************************************************)
EXTENDS Integers, Sequences, FiniteSets, FiniteSetsExt

CONSTANTS
  MemSizes,      \* the numbers of pages between end and PHYSTOP
  NPROC, PGSIZE,
  NPTE,          \* entries of a page table (1024)
  NUDIR,         \* entries of a page directory below KERNBASE (512)
  UINT,          \* 2^32 in the code
  Programs,      \* the sequences of program headers that exec may find
  ArgSizes,      \* the sizes of the arguments it is given
  SbrkSizes,     \* the arguments of sbrk
  StoreAddrs,    \* the pages that programs write to
  MaxContPages   \* how often container_malloc is called

Procs == 1..NPROC
KERNBASE == NUDIR * NPTE * PGSIZE

ASSUME MemoryConstants ==
  /\ {NPROC, PGSIZE, NPTE, NUDIR, MaxContPages} \subseteq Nat \ {0}
  /\ UINT \in Nat /\ UINT >= 2 * KERNBASE /\ SbrkSizes \subseteq Int
  /\ MemSizes # {} /\ \A n \in MemSizes : n \in Nat /\ n >= 5

VARIABLES
  nfree,    \* per page: how often it is on kmem.freelist
  dir, tab, data,                      \* a page as directory, page table, memory
  state, parent, kstack, pgdir, sz,    \* struct proc
  pc, job,                             \* the call a process is in
  ctab                                 \* the pages in a container's pgTable

phys == <<nfree, dir, tab, data>>
procs == <<state, parent, kstack, pgdir, sz>>
vars == <<phys, procs, pc, job, ctab>>

Pages == DOMAIN nfree   \* 1..n for some n in MemSizes

NoPte == [pa |-> 0, u |-> FALSE]
EmptyDir == [i \in 0..NUDIR |-> 0]          \* entry NUDIR: the kernel's part
EmptyTab == [i \in 0..(NPTE - 1) |-> NoPte]
NoJob == [np |-> 0, d |-> 0, mem |-> 0, a |-> 0, new |-> 0, sz |-> 0,
          then |-> "user", prog |-> <<>>]

PGROUNDUP(x) == ((x + PGSIZE - 1) \div PGSIZE) * PGSIZE
PGROUNDDOWN(x) == (x \div PGSIZE) * PGSIZE
PDX(a) == a \div (NPTE * PGSIZE)
PTX(a) == (a \div PGSIZE) % NPTE
UserPages == {i * PGSIZE : i \in 0..(NUDIR * NPTE - 1)}

\* kinit1 and kinit2 free the machine's pages; userinit takes kernel stack 1,
\* page directory 2, the kernel's page table 3, a page table 4 and the page 5
\* that holds initcode.
Init ==
  /\ nfree \in {[x \in 1..n |-> IF x <= 5 THEN 0 ELSE 1] : n \in MemSizes}
  /\ dir = [x \in Pages |-> IF x = 2 THEN [EmptyDir EXCEPT ![NUDIR] = 3, ![0] = 4] ELSE EmptyDir]
  /\ tab = [x \in Pages |-> IF x = 4 THEN [EmptyTab EXCEPT ![0] = [pa |-> 5, u |-> TRUE]] ELSE EmptyTab]
  /\ data = [x \in Pages |-> IF x = 5 THEN "init" ELSE "junk"]
  /\ state = [p \in Procs |-> IF p = 1 THEN "RUNNABLE" ELSE "UNUSED"]
  /\ parent = [p \in Procs |-> 0]
  /\ kstack = [p \in Procs |-> IF p = 1 THEN 1 ELSE 0]
  /\ pgdir = [p \in Procs |-> IF p = 1 THEN 2 ELSE 0]
  /\ sz = [p \in Procs |-> IF p = 1 THEN PGSIZE ELSE 0]
  /\ pc = [p \in Procs |-> "user"]
  /\ job = [p \in Procs |-> NoJob]
  /\ ctab = <<>>

-----------------------------------------------------------------------------
\* The page that kalloc takes, 0 if there is none.  Pages on the list are
\* alike, so the lowest stands for the one at its head.
kalloc == LET free == {x \in Pages : nfree[x] > 0} IN IF free = {} THEN 0 ELSE Min(free)
take == nfree' = [nfree EXCEPT ![kalloc] = @ - 1]

\* A reference to a page is <<kind, place, page>>.
PagesOf(refs) == {r[3] : r \in refs}

\* kfree of the page of every reference: it is filled with junk.
kfree(refs) ==
  /\ nfree' = [x \in Pages |-> nfree[x] + Cardinality({r \in refs : r[3] = x})]
  /\ data' = [x \in Pages |-> IF x \in PagesOf(refs) THEN "junk" ELSE data[x]]
  /\ dir' = [x \in Pages |-> IF x \in PagesOf(refs) THEN EmptyDir ELSE dir[x]]

\* The entry for address a, walkpgdir(d, a, 0).
walkpgdir(d, a) == IF dir[d][PDX(a)] = 0 THEN NoPte ELSE tab[dir[d][PDX(a)]][PTX(a)]

UserRefs(d, lo, hi) ==
  {r \in {<<"pte", a, walkpgdir(d, a).pa>> : a \in UserPages} : lo <= r[2] /\ r[2] < hi /\ r[3] # 0}

\* Slip: the first page to give back is found by rounding down.
deallocuvmDown(d, oldsz, newsz) ==
  IF newsz >= oldsz THEN {} ELSE UserRefs(d, PGROUNDDOWN(newsz), oldsz)

\* The pages that deallocuvm gives back.
deallocuvm(d, oldsz, newsz) ==
  IF newsz >= oldsz THEN {} ELSE UserRefs(d, PGROUNDUP(newsz), oldsz)

\* The pages that freevm gives back.
freevm(d) ==
  deallocuvm(d, KERNBASE, 0)
    \cup {<<"pde", i, dir[d][i]>> : i \in {k \in 0..NUDIR : dir[d][k] # 0}}
    \cup {<<"dir", 0, d>>}

\* tab without the entries of d for these pages and with freed tables emptied.
unmap(d, refs) ==
  [x \in Pages |->
     IF x \in PagesOf(refs) THEN EmptyTab
     ELSE [i \in 0..(NPTE - 1) |->
             IF \E r \in refs : r[1] = "pte" /\ x = dir[d][PDX(r[2])] /\ i = PTX(r[2])
             THEN NoPte ELSE tab[x][i]]]

release(d, refs) == kfree(refs) /\ tab' = unmap(d, refs)

\* mappages(d, a, PGSIZE, mem, flags): walkpgdir(d, a, 1) takes a page for a
\* missing page table.
hasTable(d, a) == dir[d][PDX(a)] # 0
canMap(d, a) == hasTable(d, a) \/ kalloc # 0
mappages(d, a, mem, u) ==
  LET t == IF hasTable(d, a) THEN dir[d][PDX(a)] ELSE kalloc
      old == IF hasTable(d, a) THEN tab[t] ELSE EmptyTab
  IN /\ tab' = [tab EXCEPT ![t] = [old EXCEPT ![PTX(a)] = [pa |-> mem, u |-> u]]]
     /\ dir' = [dir EXCEPT ![d][PDX(a)] = t]
     /\ IF hasTable(d, a) THEN UNCHANGED nfree ELSE take
     /\ UNCHANGED data

goto(p, l, j) == pc' = [pc EXCEPT ![p] = l] /\ job' = [job EXCEPT ![p] = j]
return(p) == goto(p, "user", NoJob)

\* A process makes calls and stores while the page with its program is there;
\* without it the next instruction faults and trap() kills it.
Running(p) ==
  /\ state[p] = "RUNNABLE" /\ pc[p] = "user"
  /\ walkpgdir(pgdir[p], 0).u

Store(p, a, v) ==
  /\ Running(p)
  /\ walkpgdir(pgdir[p], a).u
  /\ data' = [data EXCEPT ![walkpgdir(pgdir[p], a).pa] = v]
  /\ UNCHANGED <<nfree, dir, tab, procs, pc, job, ctab>>

-----------------------------------------------------------------------------
\* The pages a call under construction holds.
mem(j) == IF j.mem = 0 THEN {} ELSE {<<"mem", 0, j.mem>>}
built(j) == IF j.d = 0 THEN {} ELSE freevm(j.d)
stack(np) == IF np = 0 \/ kstack[np] = 0 THEN {} ELSE {<<"kstack", np, kstack[np]>>}

\* The end of a fork or an exec (bad:) that cannot go on: the new address
\* space is given back, and the child's slot and kernel stack.
abort(p) ==
  LET j == job[p] IN
  /\ release(j.d, built(j) \cup mem(j) \cup stack(j.np))
  /\ state' = [q \in Procs |-> IF q = j.np THEN "UNUSED" ELSE state[q]]
  /\ kstack' = [q \in Procs |-> IF q = j.np THEN 0 ELSE kstack[q]]
  /\ pgdir' = [q \in Procs |-> IF q = j.np THEN 0 ELSE pgdir[q]]
  /\ return(p)
  /\ UNCHANGED <<parent, sz, ctab>>

\* setupkvm takes a page for the directory and one for the kernel's mappings.
setupkvmDir(p) ==
  /\ pc[p] = "kvm" /\ kalloc # 0
  /\ take /\ dir' = [dir EXCEPT ![kalloc] = EmptyDir]
  /\ goto(p, "kmap", [job[p] EXCEPT !.d = kalloc])
  /\ UNCHANGED <<tab, data, procs, ctab>>

setupkvmMap(p) ==
  /\ pc[p] = "kmap" /\ kalloc # 0
  /\ take /\ dir' = [dir EXCEPT ![job[p].d][NUDIR] = kalloc]
  /\ goto(p, IF job[p].np # 0 THEN "copy" ELSE "segment", job[p])
  /\ UNCHANGED <<tab, data, procs, ctab>>

setupkvmFails(p) == pc[p] \in {"kvm", "kmap"} /\ kalloc = 0 /\ abort(p)

\* allocuvm(d, sz, new): one page and, where needed, one page table at a time.
\* A call from growproc ends in "user", one from exec goes on with the program.
allocuvmMem(p) ==
  /\ pc[p] = "alloc" /\ job[p].a < job[p].new /\ kalloc # 0
  /\ take /\ data' = [data EXCEPT ![kalloc] = "zero"]
  /\ goto(p, "allocmap", [job[p] EXCEPT !.mem = kalloc])
  /\ UNCHANGED <<dir, tab, procs, ctab>>

allocuvmMap(p) ==
  LET j == job[p] IN
  /\ pc[p] = "allocmap" /\ canMap(j.d, j.a)
  /\ mappages(j.d, j.a, j.mem, TRUE)
  /\ goto(p, "alloc", [j EXCEPT !.mem = 0, !.a = @ + PGSIZE])
  /\ UNCHANGED <<procs, ctab>>

\* Slip: the page that could not be mapped is not given back.
allocuvmFailsLosing(p) ==
  LET j == job[p] IN
  /\ \/ pc[p] = "alloc" /\ j.a < j.new /\ kalloc = 0
     \/ pc[p] = "allocmap" /\ ~canMap(j.d, j.a)
  /\ \/ /\ j.then = "user"
        /\ release(j.d, deallocuvm(j.d, j.new, j.sz))
        /\ return(p)
        /\ UNCHANGED <<procs, ctab>>
     \/ j.then # "user" /\ abort(p)

allocuvmFails(p) ==
  LET j == job[p] IN
  /\ \/ pc[p] = "alloc" /\ j.a < j.new /\ kalloc = 0
     \/ pc[p] = "allocmap" /\ ~canMap(j.d, j.a)
  /\ \/ /\ j.then = "user"
        /\ release(j.d, deallocuvm(j.d, j.new, j.sz) \cup mem(j))
        /\ return(p)
        /\ UNCHANGED <<procs, ctab>>
     \/ j.then # "user" /\ abort(p)

allocuvmDone(p) ==
  LET j == job[p] IN
  /\ pc[p] = "alloc" /\ j.a >= j.new
  /\ \/ /\ j.then = "user"
        /\ sz' = [sz EXCEPT ![p] = j.new]
        /\ return(p)
        /\ UNCHANGED <<state, parent, kstack, pgdir>>
     \/ /\ j.then # "user"
        /\ goto(p, j.then, [j EXCEPT !.sz = j.new])
        /\ UNCHANGED procs
  /\ UNCHANGED <<phys, ctab>>

-----------------------------------------------------------------------------
\* sbrk -> growproc with n > 0, up to the first kalloc.
sbrkMore(p, n) ==
  /\ Running(p) /\ n > 0
  /\ sz[p] + n < KERNBASE
  /\ goto(p, "alloc", [NoJob EXCEPT !.d = pgdir[p], !.sz = sz[p], !.new = sz[p] + n,
                                    !.a = PGROUNDUP(sz[p])])
  /\ UNCHANGED <<phys, procs, ctab>>

\* sbrk -> growproc with n < 0.  sz + n is unsigned: below zero it is a huge
\* size and nothing happens.  A new size of 0 is taken for a failure: the
\* pages are gone and sz stays.
sbrkLess(p, n) ==
  LET new == (sz[p] + n) % UINT
      gone == deallocuvm(pgdir[p], sz[p], new)
  IN /\ Running(p) /\ n < 0 /\ new < sz[p]
     /\ release(pgdir[p], gone)
     /\ sz' = [sz EXCEPT ![p] = IF new = 0 THEN @ ELSE new]
     /\ UNCHANGED <<state, parent, kstack, pgdir, pc, job, ctab>>

\* fork -> allocproc
fork(p) ==
  LET unused == {q \in Procs : state[q] = "UNUSED"} IN
  /\ Running(p) /\ unused # {}
  /\ state' = [state EXCEPT ![Min(unused)] = "EMBRYO"]
  /\ goto(p, "kstack", [NoJob EXCEPT !.np = Min(unused)])
  /\ UNCHANGED <<phys, parent, kstack, pgdir, sz, ctab>>

allocprocStack(p) ==
  /\ pc[p] = "kstack" /\ kalloc # 0
  /\ take /\ kstack' = [kstack EXCEPT ![job[p].np] = kalloc]
  /\ goto(p, "kvm", job[p])
  /\ UNCHANGED <<dir, tab, data, state, parent, pgdir, sz, ctab>>

allocprocFails(p) ==
  /\ pc[p] = "kstack" /\ kalloc = 0
  /\ kstack' = [kstack EXCEPT ![job[p].np] = 0]
  /\ state' = [state EXCEPT ![job[p].np] = "UNUSED"]
  /\ return(p)
  /\ UNCHANGED <<phys, parent, pgdir, sz, ctab>>

\* copyuvm: a page of the child per page of the parent, with its flags.
copyuvmMem(p) ==
  /\ pc[p] = "copy" /\ job[p].a < sz[p] /\ kalloc # 0
  /\ take /\ data' = [data EXCEPT ![kalloc] = data[walkpgdir(pgdir[p], job[p].a).pa]]
  /\ goto(p, "copymap", [job[p] EXCEPT !.mem = kalloc])
  /\ UNCHANGED <<dir, tab, procs, ctab>>

\* Slip: the child's page is mapped with the flags of an ordinary page.
copyuvmMapUser(p) ==
  LET j == job[p] IN
  /\ pc[p] = "copymap" /\ canMap(j.d, j.a)
  /\ mappages(j.d, j.a, j.mem, TRUE)
  /\ goto(p, "copy", [j EXCEPT !.mem = 0, !.a = @ + PGSIZE])
  /\ UNCHANGED <<procs, ctab>>

copyuvmMap(p) ==
  LET j == job[p] IN
  /\ pc[p] = "copymap" /\ canMap(j.d, j.a)
  /\ mappages(j.d, j.a, j.mem, walkpgdir(pgdir[p], j.a).u)
  /\ goto(p, "copy", [j EXCEPT !.mem = 0, !.a = @ + PGSIZE])
  /\ UNCHANGED <<procs, ctab>>

copyuvmFails(p) ==
  /\ \/ pc[p] = "copy" /\ job[p].a < sz[p] /\ kalloc = 0
     \/ pc[p] = "copymap" /\ ~canMap(job[p].d, job[p].a)
  /\ abort(p)

\* The rest of fork.
forkDone(p) ==
  LET np == job[p].np IN
  /\ pc[p] = "copy" /\ job[p].a >= sz[p]
  /\ pgdir' = [pgdir EXCEPT ![np] = job[p].d]
  /\ sz' = [sz EXCEPT ![np] = sz[p]]
  /\ parent' = [parent EXCEPT ![np] = p]
  /\ state' = [state EXCEPT ![np] = "RUNNABLE"]
  /\ return(p)
  /\ UNCHANGED <<phys, kstack, ctab>>

-----------------------------------------------------------------------------
\* exec up to setupkvm; the file is a program, otherwise nothing happens.
exec(p, prog) ==
  /\ Running(p)
  /\ goto(p, "kvm", [NoJob EXCEPT !.prog = prog])
  /\ UNCHANGED <<phys, procs, ctab>>

\* exec calls allocuvm(pgdir, old, new) and goes on at l.
execGrow(p, old, new, l) ==
  LET j == job[p] IN
  \/ new >= KERNBASE /\ abort(p)
  \/ /\ new < KERNBASE
     /\ goto(p, "alloc", [j EXCEPT !.then = l, !.sz = old, !.a = PGROUNDUP(old),
                                   !.new = IF new < old THEN old ELSE new])
     /\ UNCHANGED <<phys, procs, ctab>>

\* The loop over the program headers, up to allocuvm.
execSegment(p) ==
  LET ph == Head(job[p].prog)
      bad == ph.memsz < ph.filesz \/ (ph.vaddr + ph.memsz) % UINT < ph.vaddr
  IN /\ pc[p] = "segment" /\ job[p].prog # <<>>
     /\ \/ bad /\ abort(p)
        \/ ~bad /\ execGrow(p, job[p].sz, ph.vaddr + ph.memsz, "load")

\* Behind the last segment, the stack and its guard page.
execTop(p) ==
  LET top == PGROUNDUP(job[p].sz) IN
  /\ pc[p] = "segment" /\ job[p].prog = <<>>
  /\ execGrow(p, top, top + 2 * PGSIZE, "args")

\* loaduvm; readi may find less than the header says.
execLoad(p) ==
  LET j == job[p]
      ph == Head(j.prog)
      pages == {walkpgdir(j.d, a).pa : a \in {b \in UserPages : ph.vaddr <= b /\ b < ph.vaddr + ph.filesz}}
  IN /\ pc[p] = "load"
     /\ \/ abort(p)
        \/ /\ j.sz # 0 /\ ph.vaddr % PGSIZE = 0
           /\ data' = [x \in Pages |-> IF x \in pages THEN ph.text ELSE data[x]]
           /\ goto(p, "segment", [j EXCEPT !.prog = Tail(@)])
           /\ UNCHANGED <<nfree, dir, tab, procs, ctab>>

\* copyout reaches only pages with PTE_U; the page below the stack has lost it.
copyout(d, guard, va, len) ==
  \A a \in UserPages :
    a < va + len /\ va < a + PGSIZE => a # guard /\ walkpgdir(d, a).u

\* tab after clearpteu(d, a): the page is there and not for the program.
clearpteu(d, a) == [tab EXCEPT ![dir[d][PDX(a)]][PTX(a)].u = FALSE]

\* clearpteu on the guard page, and the arguments onto the stack.
execStack(p, len) ==
  LET j == job[p]
      sp == j.sz - len
      guard == j.sz - 2 * PGSIZE
      top == walkpgdir(j.d, j.sz - PGSIZE).pa
  IN /\ pc[p] = "args"
     /\ \/ ~copyout(j.d, guard, sp, len) /\ abort(p)
        \/ /\ copyout(j.d, guard, sp, len)
           /\ data' = [data EXCEPT ![top] = "args"]
           /\ tab' = clearpteu(j.d, guard)
           /\ goto(p, "commit", j)
           /\ UNCHANGED <<nfree, dir, procs, ctab>>

\* The commit: the new image is installed and the old one given back.
execCommit(p) ==
  /\ pc[p] = "commit"
  /\ pgdir' = [pgdir EXCEPT ![p] = job[p].d]
  /\ sz' = [sz EXCEPT ![p] = job[p].sz]
  /\ release(pgdir[p], freevm(pgdir[p]))
  /\ return(p)
  /\ UNCHANGED <<state, parent, kstack, ctab>>

-----------------------------------------------------------------------------
exit(p) ==
  /\ p # 1 /\ state[p] = "RUNNABLE" /\ pc[p] = "user"
  /\ state' = [state EXCEPT ![p] = "ZOMBIE"]
  /\ parent' = [q \in Procs |-> IF parent[q] = p THEN 1 ELSE parent[q]]
  /\ UNCHANGED <<phys, kstack, pgdir, sz, pc, job, ctab>>

\* wait that finds a zombie: its pages are given back, pgdir keeps its value.
wait(p, q) ==
  /\ Running(p) /\ parent[q] = p /\ state[q] = "ZOMBIE"
  /\ release(pgdir[q], freevm(pgdir[q]) \cup stack(q))
  /\ kstack' = [kstack EXCEPT ![q] = 0]
  /\ parent' = [parent EXCEPT ![q] = 0]
  /\ state' = [state EXCEPT ![q] = "UNUSED"]
  /\ UNCHANGED <<pgdir, sz, pc, job, ctab>>

\* container_malloc, all under ctable.lock.  The result of kalloc is entered
\* even if it is 0, and nothing ever takes a page out of the table again.
container_malloc(p) ==
  /\ Running(p) /\ Len(ctab) < MaxContPages
  /\ ctab' = Append(ctab, kalloc)
  /\ IF kalloc = 0 THEN UNCHANGED nfree ELSE take
  /\ UNCHANGED <<dir, tab, data, procs, pc, job>>

Next ==
  \E p \in Procs :
    \/ \E a \in StoreAddrs, v \in {"one"} : Store(p, a, v)
    \/ \E n \in SbrkSizes : sbrkMore(p, n) \/ sbrkLess(p, n)
    \/ fork(p) \/ allocprocStack(p) \/ allocprocFails(p)
    \/ \E prog \in Programs : exec(p, prog)
    \/ setupkvmDir(p) \/ setupkvmMap(p) \/ setupkvmFails(p)
    \/ allocuvmMem(p) \/ allocuvmMap(p) \/ allocuvmFails(p) \/ allocuvmDone(p)
    \/ copyuvmMem(p) \/ copyuvmMap(p) \/ copyuvmFails(p) \/ forkDone(p)
    \/ execSegment(p) \/ execTop(p) \/ execLoad(p)
    \/ \E len \in ArgSizes : execStack(p, len)
    \/ execCommit(p)
    \/ exit(p) \/ \E q \in Procs : wait(p, q)
    \/ container_malloc(p)

Spec == Init /\ [][Next]_vars

-----------------------------------------------------------------------------
PageNumbers == {0} \cup Pages

TypeOK ==
  /\ nfree \in [Pages -> Nat]
  /\ dir \in [Pages -> [0..NUDIR -> PageNumbers]]
  /\ tab \in [Pages -> [0..(NPTE - 1) -> [pa : PageNumbers, u : BOOLEAN]]]
  /\ state \in [Procs -> {"UNUSED", "EMBRYO", "RUNNABLE", "ZOMBIE"}]
  /\ parent \in [Procs -> 0..NPROC]
  /\ kstack \in [Procs -> PageNumbers] /\ pgdir \in [Procs -> PageNumbers]
  /\ sz \in [Procs -> 0..(KERNBASE - 1)]
  /\ ctab \in Seq(PageNumbers)

HasSpace(p) == state[p] \in {"RUNNABLE", "ZOMBIE"}
OwnsDir(p) == job[p].d # 0 /\ job[p].d # pgdir[p]

\* Every reference to a page that the kernel holds, tagged with its holder.
Holdings ==
  UNION {{<<<<"space", p>>, r>> : r \in freevm(pgdir[p])} : p \in {q \in Procs : HasSpace(q)}}
    \cup UNION {{<<<<"job", p>>, r>> : r \in mem(job[p]) \cup (IF OwnsDir(p) THEN built(job[p]) ELSE {})} : p \in Procs}
    \cup UNION {{<<<<"stack", p>>, r>> : r \in stack(p)} : p \in Procs}
    \cup {<<<<"container", i>>, <<"page", i, ctab[i]>>>> : i \in {k \in DOMAIN ctab : ctab[k] # 0}}

\* Every page is in one place: on the free list once, or in exactly one page
\* table, directory, kernel stack, container table or unfinished call.  No
\* page is leaked, shared or freed twice, wherever a call has failed for want
\* of memory (allocuvm, copyuvm, setupkvm, exec's bad:, fork, wait).
PagesAccounted ==
  LET held == Holdings
      free == {x \in Pages : nfree[x] > 0}
  IN /\ \A x \in Pages : nfree[x] <= 1
     /\ free \cup {h[2][3] : h \in held} = Pages
     /\ Cardinality(free) + Cardinality(held) = Cardinality(Pages)

\* The pages mapped in a process that is not growing are those below sz, with
\* none missing and none above, so that neither mappages panics with "remap"
\* nor copyuvm with "page not present"; or all are gone (sbrk(-sz)) and the
\* process can make no further call.
\* Included: the state is in its ranges.
SizeMapped ==
  /\ TypeOK
  /\ \A p \in Procs : HasSpace(p) /\ pc[p] \notin {"alloc", "allocmap"} =>
       LET mapped == {a \in UserPages : walkpgdir(pgdir[p], a).pa # 0}
       IN mapped = {a \in UserPages : a < sz[p]} \/ (mapped = {} /\ pc[p] = "user")

page(p, i) ==
  LET e == walkpgdir(pgdir[p], (i - 1) * PGSIZE)
  IN IF e.pa = 0 THEN [val |-> "none", u |-> FALSE] ELSE [val |-> data[e.pa], u |-> e.u]

\* What exec makes of a program: its segments, zeros between and behind them,
\* the guard page and the stack.
Image(prog) ==
  LET end == Max({prog[k].vaddr + prog[k].memsz : k \in DOMAIN prog})
      n == PGROUNDUP(end) \div PGSIZE
      last(i) == {k \in DOMAIN prog : prog[k].vaddr <= i * PGSIZE /\ i * PGSIZE < prog[k].vaddr + prog[k].filesz}
  IN [i \in 1..(n + 2) |->
        IF i = n + 2 THEN [val |-> "args", u |-> TRUE]
        ELSE IF i = n + 1 THEN [val |-> "zero", u |-> FALSE]
        ELSE [val |-> IF last(i - 1) = {} THEN "zero" ELSE prog[Max(last(i - 1))].text, u |-> TRUE]]

Space(p) ==
  IF HasSpace(p) THEN [i \in 1..(PGROUNDUP(sz[p]) \div PGSIZE) |-> page(p, i)] ELSE <<>>

S == INSTANCE Spaces WITH
       space <- [p \in Procs |-> Space(p)], Vals <- {"one"}, Images <- {Image(prog) : prog \in Programs}

\* Address spaces behave as private sequences of pages: fork copies, exec and
\* sbrk replace or extend as a whole or not at all, and no step of one process
\* changes what another one sees.
ImplementsSpaces == S!Spec
=============================================================================
