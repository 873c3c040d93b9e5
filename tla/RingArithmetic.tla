--------------------------- MODULE RingArithmetic ---------------------------
(***************************************************************************)
(* Unsigned counters modulo U that index a ring of P slots, P dividing U:  *)
(* the arithmetic of pipe.c (nread, nwrite) and console.c (input.r, w, e). *)
(***************************************************************************)
EXTENDS Integers, TLAPS

\* Division with remainder.
LEMMA DivMod ==
  ASSUME NEW a \in Int, NEW n \in Nat \ {0}
  PROVE  a % n \in 0..(n - 1) /\ a \div n \in Int /\ a = n * (a \div n) + (a % n)
OBVIOUS

\* The remainder is the only one there is.
LEMMA ModUnique ==
  ASSUME NEW a \in Int, NEW n \in Nat \ {0}, NEW q \in Int, NEW k \in 0..(n - 1), a = n * q + k
  PROVE  a % n = k
OBVIOUS

\* The only multiple of n between -n and n is 0.
LEMMA SmallMultiple ==
  ASSUME NEW n \in Nat \ {0}, NEW k \in Int, n * k < n, -n < n * k
  PROVE  k = 0
OBVIOUS

\* The difference of two counters.
LEMMA Distance ==
  ASSUME NEW U \in Nat \ {0}, NEW a \in 0..(U - 1), NEW b \in 0..(U - 1)
  PROVE  (b + U - a) % U = IF b >= a THEN b - a ELSE b + U - a
OBVIOUS

\* A counter moved on by less than a full turn.
LEMMA Advance ==
  ASSUME NEW U \in Nat \ {0}, NEW a \in 0..(U - 1), NEW m \in 0..(U - 1)
  PROVE  (a + m) % U = IF a + m < U THEN a + m ELSE a + m - U
OBVIOUS

\* The slot of a counter does not notice that the counter has wrapped around.
LEMMA SlotWrap ==
  ASSUME NEW U \in Nat \ {0}, NEW P \in Nat \ {0}, U % P = 0, NEW a \in Int
  PROVE  (a - U) % P = a % P
<1> DEFINE q == a \div P
           d == U \div P
           k == a % P
<1>1. a = P * q + k /\ q \in Int /\ k \in 0..(P - 1)
  BY DivMod
<1>2. U = P * d /\ d \in Int
  BY DivMod
<1> HIDE DEF q, d, k
<1>3. a - U = P * (q - d) + k
  BY <1>1, <1>2
<1>4. (a - U) % P = k
  BY <1>1, <1>2, <1>3, ModUnique
<1> QED BY <1>4 DEF k

\* Counters less than P apart have different slots.
LEMMA DistinctSlots ==
  ASSUME NEW P \in Nat \ {0}, NEW a \in Nat, NEW i \in 0..(P - 1), NEW j \in 0..(P - 1),
         (a + i) % P = (a + j) % P
  PROVE  i = j
<1> DEFINE q == (a + i) \div P
           s == (a + j) \div P
           k == (a + i) % P
<1>0. a + i \in Int /\ a + j \in Int
  OBVIOUS
<1>1. a + i = P * q + k /\ q \in Int /\ k \in Int
  BY <1>0, DivMod
<1>2. a + j = P * s + k /\ s \in Int
  BY <1>0, DivMod
<1> HIDE DEF q, s, k
<1>3. i - j = P * (q - s)
  BY <1>1, <1>2
<1>4. q - s = 0
  BY <1>1, <1>2, <1>3, SmallMultiple
<1> QED BY <1>3, <1>4
=============================================================================
