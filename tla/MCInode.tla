------------------------------ MODULE MCInode ------------------------------
(***************************************************************************)
(* Small sets of system calls for the model of inodes.                     *)
(***************************************************************************)
EXTENDS Inode, TLC

Opens(s, ro) == [op |-> "open", path |-> s, create |-> ~ro, rdonly |-> ro]
Unlinks(n) == [op |-> "unlink", path |-> <<n>>]
Links(n, m) == [op |-> "link", path |-> <<n>>, new |-> <<m>>]
Mkdir(n) == [op |-> "mknod", path |-> <<n>>, type |-> "DIR"]
Chdir(n) == [op |-> "chdir", path |-> <<n>>]

\* Process 1 makes and removes a directory in which process 2 creates nothing;
\* both work on the same files.  Process 2 is in container 1, so that its
\* open("f") means "f1".
FileCalls ==
  [p \in Procs |-> IF p = 1
     THEN {Opens(<<"f">>, FALSE), Opens(<<"f1">>, TRUE), Opens(<<"f1", "f">>, FALSE),
           Mkdir("f1"), Unlinks("f1"), Chdir("f1")}
     ELSE {Opens(<<"f">>, FALSE), Unlinks("f"), Links("f", "f1")}]
FileLimits == [p \in Procs |-> IF p = 1 THEN 3 ELSE 2]
TwoContainers == [p \in Procs |-> IF p = 1 THEN 0 ELSE 1]

\* Two processes of container 0 that create and remove the same file.
LeakCalls == [p \in Procs |-> {Opens(<<"f">>, FALSE), Unlinks("f")}]
LeakLimits == [p \in Procs |-> 2]
OneContainer == [p \in Procs |-> 0]

Digits == <<[n \in Names |-> "f1"]>> @@ (0 :> [n \in Names |-> n])
=============================================================================
