------------------------------ MODULE MCMemory ------------------------------
(* Address spaces of at most three pages; a memory in which hardly a call   *)
(* succeeds and one in which a process can exec, then fork, and go on.      *)
EXTENDS Memory

Segment(vaddr, memsz, filesz, text) ==
  [vaddr |-> vaddr, memsz |-> memsz, filesz |-> filesz, text |-> text]

\* A segment with more memory than file, and one that lies inside the first.
Program == <<Segment(0, 2, 1, "text"), Segment(0, 1, 0, "data")>>

SomePrograms == {Program}
SomeSizes == {1, -2}

\* Pages are alike: two states that differ only in which page stands where are
\* one.  A page directory is seen as the entries it leads to.
Entries(d) ==
  [i \in 0..NUDIR |-> IF dir[d][i] = 0 THEN <<>>
                      ELSE [k \in 0..(NPTE - 1) |->
                              LET e == tab[dir[d][i]][k] IN IF e.pa = 0 THEN <<>> ELSE <<data[e.pa], e.u>>]]
Job(p) ==
  LET j == job[p]
  IN <<[j EXCEPT !.d = IF OwnsDir(p) THEN 1 ELSE 0, !.mem = IF @ = 0 THEN 0 ELSE 1],
       IF j.mem = 0 THEN "none" ELSE data[j.mem],
       IF OwnsDir(p) THEN Entries(j.d) ELSE <<>>>>
PageNamesForgotten ==
  <<Cardinality(Pages), Cardinality({x \in Pages : nfree[x] > 0}), PagesAccounted,
    state, parent, [p \in Procs |-> kstack[p] # 0], sz, pc,
    [p \in Procs |-> IF HasSpace(p) THEN Entries(pgdir[p]) ELSE <<>>],
    [p \in Procs |-> Job(p)], [i \in DOMAIN ctab |-> ctab[i] # 0]>>
=============================================================================
