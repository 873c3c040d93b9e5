------------------------------ MODULE ByteFile ------------------------------
(***************************************************************************)
(* What the data layer of the file system promises: a file is a sequence   *)
(* of bytes of bounded length, every open file has an offset of its own,   *)
(* and the root directory is a file of entries, 0 for a free one.          *)
(***************************************************************************)
EXTENDS Integers, Sequences

CONSTANTS
  Root, FileOf,   \* FileOf: open file -> file
  Images,         \* the files mkfs was given: file -> bytes
  MaxBytes, Sources, Names

VARIABLES
  bytes,   \* file -> its bytes
  off,     \* open file -> offset
  got      \* the result of the last read; <<-1>> is an error

Error == <<-1>>
Opens == DOMAIN FileOf

overlay(s, at, src) == SubSeq(s, 1, at) \o src \o SubSeq(s, at + Len(src) + 1, Len(s))

Write(d, src) ==
  /\ off' = [off EXCEPT ![d] = @ + Len(src)] /\ off'[d] <= MaxBytes
  /\ UNCHANGED got
  /\ bytes' = [bytes EXCEPT ![FileOf[d]] = overlay(@, off[d], src)]

Read(d) ==
  /\ off' = [off EXCEPT ![d] = @ + Len(got')]
  /\ UNCHANGED bytes
  /\ off'[d] <= Len(bytes[FileOf[d]])
  /\ got' = SubSeq(bytes[FileOf[d]], off[d] + 1, off'[d])

ReadAt(f) ==
  /\ UNCHANGED off /\ got' # got
  /\ UNCHANGED bytes
  /\ \/ got' = Error
     \/ \E at, n \in 0..Len(bytes[f]) : got' = SubSeq(bytes[f], at + 1, n)

Open(d) == off' = [off EXCEPT ![d] = 0] /\ UNCHANGED <<bytes, got>>

Clear(f) ==
  /\ UNCHANGED <<off, got>>
  /\ f # Root
  /\ bytes' = [bytes EXCEPT ![f] = <<>>]

\* The first free entry, or a new one at the end.
Link(x) ==
  /\ UNCHANGED <<off, got>>
  /\ LET root == bytes[Root]
         free == {i \in 1..(Len(root) + 1) : i \in DOMAIN root => root[i] = 0}
     IN /\ \A i \in DOMAIN root : root[i] # x
        /\ \E i \in free : /\ \A j \in free : i <= j
                          /\ bytes' = [bytes EXCEPT ![Root] = overlay(root, i - 1, <<x>>)]

Unlink(x) ==
  /\ UNCHANGED <<off, got>>
  /\ bytes' = [bytes EXCEPT ![Root] = [i \in DOMAIN @ |-> IF @[i] = x THEN 0 ELSE @[i]]]

Next ==
  \/ \E d \in Opens : Read(d) \/ Open(d) \/ \E src \in Sources : Write(d, src)
  \/ \E f \in DOMAIN bytes : ReadAt(f) \/ Clear(f)
  \/ \E x \in Names : Link(x) \/ Unlink(x)

\* After mkfs the files hold their bytes, and the root has an entry for each.
Init ==
  /\ \E image \in Images : \A f \in DOMAIN bytes \ {Root} : bytes[f] = image[f]
  /\ \A f \in DOMAIN bytes \ {Root} : \E i \in DOMAIN bytes[Root] : bytes[Root][i] = f
  /\ off = [d \in Opens |-> 0]
  /\ got = <<>>

Spec == Init /\ [][Next]_<<bytes, off, got>>
=============================================================================
