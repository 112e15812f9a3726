------------------------- MODULE RobinHoodMapProofs -------------------------
(***************************************************************************)
(* Proofs about RobinHoodMap: for every hash function, any keys and any    *)
(* capacity the table implements a map.                                    *)
(*                                                                         *)
(* The first half is about one table B of n buckets and one probe; the     *)
(* second makes the invariant of the module of it.                         *)
(***************************************************************************)
EXTENDS RobinHoodMap, FiniteSetTheorems, WellFoundedInduction, TLAPS

\* The bucket that a probe from h reaches after e turns, and the one after i.
At(n, h, e) == IF h + e < n THEN h + e ELSE h + e - n
After(n, i) == IF i + 1 = n THEN 0 ELSE i + 1
HomeOf(n, k) == Hash[k] % n

EntriesOf(n) == [key : Keys, value : Values, distance : 0 .. n - 1]
Buckets(n) == [0 .. n - 1 -> EntriesOf(n) \cup {Free}]

\* Every entry of the table is as far from its home as it says; no key is there twice.
Rows(B, n) ==
  /\ B \in [0 .. n - 1 -> EntriesOf(n) \cup {Free}]
  /\ \A i \in 0 .. n - 1 : B[i] # Free => i = At(n, HomeOf(n, B[i].key), B[i].distance)
  /\ \A i, j \in 0 .. n - 1 : B[i] # Free /\ B[j] # Free /\ B[i].key = B[j].key => i = j

\* On the way to an entry there are entries that are at least as far from their homes.  While
\* entries are moved back the bucket hole is empty.
Paths(B, n, hole) ==
  \A i \in 0 .. n - 1 : B[i] # Free =>
    \A e \in 0 .. B[i].distance - 1 :
      LET p == At(n, HomeOf(n, B[i].key), e) IN
      p = hole \/ (B[p] # Free /\ B[p].distance >= e)

\* What a probe for k has seen in d turns.
Walked(B, n, k, d) ==
  \A e \in 0 .. d - 1 :
    LET p == At(n, HomeOf(n, k), e) IN
    B[p] # Free /\ B[p].key # k /\ B[p].distance >= e

\* No entry of the key k; the same but for the bucket i; an entry; a bucket set.
Apart(B, n, k) == \A i \in 0 .. n - 1 : B[i] # Free => B[i].key # k
Alike(B2, B, n, i) == \A j \in 0 .. n - 1 : j # i => B2[j] = B[j]
Entry(k, v, d) == [key |-> k, value |-> v, distance |-> d]
Put(B, i, x) == [B EXCEPT ![i] = x]

-----------------------------------------------------------------------------
\* The arithmetic of the ring.
LEMMA Mod ==
  ASSUME NEW n \in Nat \ {0}
  PROVE  /\ \A x \in Nat : x % n \in 0 .. n - 1
         /\ \A x \in 0 .. n - 1 : x % n = x
         /\ n % n = 0
         /\ \A x \in -n .. -1 : x % n = x + n
<1>1. \A x \in Nat : x % n \in 0 .. n - 1
  OBVIOUS
<1>2. \A x \in 0 .. n - 1 : x % n = x
  OBVIOUS
<1>3. n % n = 0
  OBVIOUS
<1>4. \A x \in -n .. -1 : x % n = x + n
  OBVIOUS
<1> QED
  BY <1>1, <1>2, <1>3, <1>4

LEMMA HomeType ==
  ASSUME NEW n \in Nat \ {0}, NEW k \in Keys
  PROVE  HomeOf(n, k) \in 0 .. n - 1
<1>1. Hash[k] \in Nat
  BY HashAssumption
<1> QED
  BY <1>1, Mod DEF HomeOf

LEMMA Ring ==
  ASSUME NEW n \in Nat \ {0}, NEW h \in 0 .. n - 1
  PROVE  /\ \A e \in 0 .. n : At(n, h, e) \in 0 .. n - 1
         /\ At(n, h, 0) = h /\ At(n, h, n) = h
         /\ \A e \in 0 .. n - 1 : At(n, h, e + 1) = After(n, At(n, h, e))
         /\ \A i \in 0 .. n - 1 : \E e \in 0 .. n - 1 : At(n, h, e) = i
         /\ \A d, e \in 0 .. n - 1 : At(n, h, d) = At(n, h, e) => d = e
         /\ \A i \in 0 .. n - 1 : After(n, i) \in 0 .. n - 1
         /\ \A i, j \in 0 .. n - 1 : After(n, i) = After(n, j) => i = j
<1>1. \A e \in 0 .. n : At(n, h, e) \in 0 .. n - 1
  BY DEF At
<1>2. At(n, h, 0) = h /\ At(n, h, n) = h
  BY DEF At
<1>3. \A e \in 0 .. n - 1 : At(n, h, e + 1) = After(n, At(n, h, e))
  BY DEF At, After
<1>4. ASSUME NEW i \in 0 .. n - 1 PROVE \E e \in 0 .. n - 1 : At(n, h, e) = i
  <2>1. CASE i >= h
    <3>1. i - h \in 0 .. n - 1 /\ At(n, h, i - h) = i
      BY <2>1 DEF At
    <3> QED
      BY <3>1
  <2>2. CASE i < h
    <3>1. i - h + n \in 0 .. n - 1 /\ At(n, h, i - h + n) = i
      BY <2>2 DEF At
    <3> QED
      BY <3>1
  <2> QED
    BY <2>1, <2>2
<1>5. \A d, e \in 0 .. n - 1 : At(n, h, d) = At(n, h, e) => d = e
  BY DEF At
<1>6. \A i \in 0 .. n - 1 : After(n, i) \in 0 .. n - 1
  BY DEF After
<1>7. \A i, j \in 0 .. n - 1 : After(n, i) = After(n, j) => i = j
  BY DEF After
<1> QED
  BY <1>1, <1>2, <1>3, <1>4, <1>5, <1>6, <1>7

LEMMA EntryTypes ==
  ASSUME NEW n \in Nat \ {0}, NEW e \in EntriesOf(n)
  PROVE  /\ e # Free
         /\ e.key \in Keys /\ e.value \in Values /\ e.distance \in 0 .. n - 1
         /\ HomeOf(n, e.key) \in 0 .. n - 1
<1>1. e.key \in Keys /\ e.value \in Values /\ e.distance \in 0 .. n - 1
  BY DEF EntriesOf
<1>2. Free.value = NoValue
  BY DEF Free
<1>3. e # Free
  BY <1>1, <1>2, HashAssumption
<1> QED
  BY <1>1, <1>3, HomeType

\* The type of what a bucket holds.
LEMMA RowTypes ==
  ASSUME NEW n \in Nat \ {0}, NEW B, Rows(B, n), NEW i \in 0 .. n - 1, B[i] # Free
  PROVE  /\ B[i] \in EntriesOf(n)
         /\ B[i].key \in Keys /\ B[i].value \in Values /\ B[i].distance \in 0 .. n - 1
         /\ HomeOf(n, B[i].key) \in 0 .. n - 1
         /\ i = At(n, HomeOf(n, B[i].key), B[i].distance)
<1>1. B[i] \in EntriesOf(n)
  BY DEF Rows
<1>2. i = At(n, HomeOf(n, B[i].key), B[i].distance)
  BY DEF Rows
<1> QED
  BY <1>1, <1>2, EntryTypes

-----------------------------------------------------------------------------
(***************************************************************************)
(* Lookups.  A probe that meets a free bucket, or an entry that is nearer  *)
(* to its home than the probe is to its own, can stop.                     *)
(***************************************************************************)
LEMMA StopsRightly ==
  ASSUME NEW n \in Nat \ {0}, NEW B, Rows(B, n), Paths(B, n, -1),
         NEW k \in Keys, NEW d \in 0 .. n, Walked(B, n, k, d),
         NEW i, i = At(n, HomeOf(n, k), d),
         B[i] = Free \/ B[i].distance < d
  PROVE  Apart(B, n, k)
<1> SUFFICES ASSUME NEW j \in 0 .. n - 1, B[j] # Free, B[j].key = k
             PROVE  FALSE
  BY DEF Apart
<1>1. /\ B[j].distance \in 0 .. n - 1
      /\ j = At(n, HomeOf(n, k), B[j].distance)
  BY RowTypes
<1>2. PICK c \in 0 .. n - 1 : c = B[j].distance
  BY <1>1
<1>3. c < d \/ c = d \/ d < c
  OBVIOUS
<1>4. CASE c < d
  <2>1. c \in 0 .. d - 1
    BY <1>4
  <2> QED
    BY <2>1, <1>1, <1>2 DEF Walked
<1>5. CASE c = d
  <2>1. j = i
    BY <1>1, <1>2, <1>5
  <2>2. B[i].distance = d /\ B[i] # Free
    BY <2>1, <1>2, <1>5
  <2> QED
    BY <2>2
<1>6. CASE d < c
  <2>1. d \in 0 .. B[j].distance - 1
    BY <1>2, <1>6
  <2>2. i = -1 \/ (B[i] # Free /\ B[i].distance >= d)
    BY <2>1 DEF Paths
  <2>3. i \in 0 .. n - 1
    BY HomeType, Ring
  <2>4. B[i] # Free /\ B[i].distance >= d
    BY <2>2, <2>3
  <2>5. B[i].distance \in 0 .. n - 1
    BY <2>3, <2>4, RowTypes
  <2> QED
    BY <2>4, <2>5
<1> QED
  BY <1>3, <1>4, <1>5, <1>6

LEMMA GoesOn ==
  ASSUME NEW n \in Nat \ {0}, NEW B, Rows(B, n), NEW k \in Keys, NEW d \in 0 .. n, Walked(B, n, k, d),
         NEW i, i = At(n, HomeOf(n, k), d), B[i] # Free, B[i].key # k, B[i].distance >= d
  PROVE  /\ d + 1 \in 0 .. n /\ Walked(B, n, k, d + 1)
         /\ After(n, i) = At(n, HomeOf(n, k), d + 1)
<1>1. HomeOf(n, k) \in 0 .. n - 1 /\ i \in 0 .. n - 1
  BY HomeType, Ring
<1>2. B[i].distance \in 0 .. n - 1
  BY <1>1, RowTypes
<1>3. d \in 0 .. n - 1
  BY <1>2
<1>4. ASSUME NEW e \in 0 .. (d + 1) - 1, NEW p, p = At(n, HomeOf(n, k), e)
      PROVE  B[p] # Free /\ B[p].key # k /\ B[p].distance >= e
  <2>1. CASE e = d
    BY <2>1, <1>4
  <2>2. CASE e # d
    <3>1. e \in 0 .. d - 1
      BY <2>2
    <3> QED
      BY <3>1, <1>4 DEF Walked
  <2> QED
    BY <2>1, <2>2
<1> QED
  BY <1>1, <1>3, <1>4, Ring DEF Walked

\* With a free bucket a probe ends before it is back where it started.
LEMMA NeverAround ==
  ASSUME NEW n \in Nat \ {0}, NEW B, NEW k \in Keys, NEW d \in 0 .. n, Walked(B, n, k, d),
         NEW f \in 0 .. n - 1, B[f] = Free
  PROVE  d \in 0 .. n - 1
<1>1. PICK e \in 0 .. n - 1 : At(n, HomeOf(n, k), e) = f
  BY HomeType, Ring
<1>2. ~ (e \in 0 .. d - 1)
  BY <1>1 DEF Walked
<1> QED
  BY <1>2

-----------------------------------------------------------------------------
(***************************************************************************)
(* Insertions.  An entry takes a bucket that is free or holds one that is  *)
(* nearer to its home: distances along the ring only grow by this.         *)
(***************************************************************************)
LEMMA Puts ==
  ASSUME NEW n \in Nat \ {0}, NEW B, Rows(B, n), Paths(B, n, -1),
         NEW k \in Keys, NEW v \in Values, NEW d \in 0 .. n - 1, Walked(B, n, k, d),
         NEW i, i = At(n, HomeOf(n, k), d), B[i] = Free \/ B[i].distance < d,
         Apart(B, n, k), NEW x, x = Entry(k, v, d), NEW B2, B2 = Put(B, i, x)
  PROVE  /\ i \in 0 .. n - 1 /\ x # Free
         /\ B2[i] = x /\ Alike(B2, B, n, i)
         /\ Rows(B2, n) /\ Paths(B2, n, -1)
<1>1. i \in 0 .. n - 1
  <2>1. d \in 0 .. n /\ HomeOf(n, k) \in 0 .. n - 1
    BY HomeType
  <2> QED
    BY <2>1, Ring
<1>2. x \in EntriesOf(n) /\ x.key = k /\ x.distance = d
  BY DEF EntriesOf, Entry
<1>3. x # Free
  BY <1>2, EntryTypes
<1>4. B \in [0 .. n - 1 -> EntriesOf(n) \cup {Free}]
  BY DEF Rows
<1>5. B2[i] = x /\ (\A j \in 0 .. n - 1 : j # i => B2[j] = B[j])
      /\ B2 \in [0 .. n - 1 -> EntriesOf(n) \cup {Free}]
  BY <1>1, <1>2, <1>4 DEF Put
<1>6. ASSUME NEW j \in 0 .. n - 1, B2[j] # Free
      PROVE  j = At(n, HomeOf(n, B2[j].key), B2[j].distance)
  <2>1. CASE j = i
    BY <2>1, <1>2, <1>5
  <2>2. CASE j # i
    <3>1. B2[j] = B[j]
      BY <2>2, <1>5
    <3> QED
      BY <3>1, <1>6 DEF Rows
  <2> QED
    BY <2>1, <2>2
<1>7. ASSUME NEW a \in 0 .. n - 1, NEW b \in 0 .. n - 1, B2[a] # Free, B2[b] # Free, B2[a].key = B2[b].key
      PROVE  a = b
  <2>1. CASE a # i /\ b # i
    <3>1. B2[a] = B[a] /\ B2[b] = B[b]
      BY <2>1, <1>5
    <3> QED
      BY <3>1, <1>7 DEF Rows
  <2>2. CASE a = i /\ b # i
    <3>1. B2[a].key = k /\ B2[b] = B[b]
      BY <2>2, <1>2, <1>5
    <3> QED
      BY <3>1, <1>7 DEF Apart
  <2>3. CASE a # i /\ b = i
    <3>1. B2[b].key = k /\ B2[a] = B[a]
      BY <2>3, <1>2, <1>5
    <3> QED
      BY <3>1, <1>7 DEF Apart
  <2> QED
    BY <2>1, <2>2, <2>3
<1>8. Rows(B2, n)
  BY <1>5, <1>6, <1>7 DEF Rows
<1>9. ASSUME NEW p \in 0 .. n - 1, NEW e \in 0 .. n - 1, B[p] # Free /\ B[p].distance >= e
      PROVE  B2[p] # Free /\ B2[p].distance >= e
  <2>1. CASE p = i
    <3>1. B[p].distance \in 0 .. n - 1 /\ B[p].distance < d
      BY <2>1, <1>9, RowTypes
    <3> QED
      BY <3>1, <2>1, <1>2, <1>3, <1>5, <1>9
  <2>2. CASE p # i
    BY <2>2, <1>5, <1>9
  <2> QED
    BY <2>1, <2>2
<1>10. ASSUME NEW j \in 0 .. n - 1, B2[j] # Free, NEW e \in 0 .. B2[j].distance - 1,
              NEW p, p = At(n, HomeOf(n, B2[j].key), e)
       PROVE  B2[p] # Free /\ B2[p].distance >= e
  <2>1. /\ B2[j].distance \in 0 .. n - 1 /\ HomeOf(n, B2[j].key) \in 0 .. n - 1
    BY <1>8, <1>10, RowTypes
  <2>2. e \in 0 .. n - 1 /\ e \in 0 .. n
    BY <2>1
  <2>3. p \in 0 .. n - 1
    BY <2>1, <2>2, <1>10, Ring
  <2>4. B[p] # Free /\ B[p].distance >= e
    <3>1. CASE j = i
      <4>1. e \in 0 .. d - 1 /\ p = At(n, HomeOf(n, k), e)
        BY <3>1, <1>2, <1>5, <1>10
      <4> QED
        BY <4>1 DEF Walked
    <3>2. CASE j # i
      <4>1. B2[j] = B[j]
        BY <3>2, <1>5
      <4>2. p = -1 \/ (B[p] # Free /\ B[p].distance >= e)
        BY <4>1, <1>10 DEF Paths
      <4> QED
        BY <4>2, <2>3
    <3> QED
      BY <3>1, <3>2
  <2> QED
    BY <2>2, <2>3, <2>4, <1>9
<1>11. Paths(B2, n, -1)
  BY <1>10 DEF Paths
<1> QED
  BY <1>1, <1>3, <1>5, <1>8, <1>11 DEF Alike

\* The entry that had the bucket is carried on from there, as if its own probe had come along.
LEMMA CarriesOn ==
  ASSUME NEW n \in Nat \ {0}, NEW B, Rows(B, n), Paths(B, n, -1),
         NEW i \in 0 .. n - 1, B[i] # Free, NEW x, NEW B2, Rows(B2, n),
         x # Free, B[i].distance < x.distance, B[i].key # x.key,
         B2[i] = x, Alike(B2, B, n, i)
  PROVE  /\ B[i].distance + 1 \in 0 .. n
         /\ After(n, i) = At(n, HomeOf(n, B[i].key), B[i].distance + 1)
         /\ Walked(B2, n, B[i].key, B[i].distance + 1)
         /\ Apart(B2, n, B[i].key)
<1>1. PICK k, c, h : k = B[i].key /\ c = B[i].distance /\ h = HomeOf(n, k)
  OBVIOUS
<1>2. k \in Keys /\ c \in 0 .. n - 1 /\ h \in 0 .. n - 1 /\ i = At(n, h, c)
  BY <1>1, RowTypes
<1>3. After(n, i) = At(n, h, c + 1)
  BY <1>2, Ring
<1>4. \A j \in 0 .. n - 1 : B2[j] # Free => B2[j].key # k
  <2>1. ASSUME NEW j \in 0 .. n - 1, B2[j] # Free, B2[j].key = k PROVE FALSE
    <3>1. CASE j = i
      BY <3>1, <2>1, <1>1
    <3>2. CASE j # i
      <4>1. B2[j] = B[j]
        BY <3>2 DEF Alike
      <4> QED
        BY <4>1, <3>2, <2>1, <1>1 DEF Rows
    <3> QED
      BY <3>1, <3>2
  <2> QED
    BY <2>1
<1>5. x.distance \in 0 .. n - 1
  BY RowTypes
<1>6. ASSUME NEW e \in 0 .. (c + 1) - 1, NEW p, p = At(n, h, e)
      PROVE  B2[p] # Free /\ B2[p].key # k /\ B2[p].distance >= e
  <2>1. e \in 0 .. n - 1 /\ e \in 0 .. n
    BY <1>2
  <2>2. e \in 0 .. n - 1 /\ p \in 0 .. n - 1
    BY <2>1, <1>2, <1>6, Ring
  <2>3. B2[p] # Free /\ B2[p].distance >= e
    <3>1. CASE e = c
      <4>1. p = i
        BY <3>1, <1>2, <1>6
      <4> QED
        BY <4>1, <3>1, <1>1, <1>2, <1>5
    <3>2. CASE e # c
      <4>1. e \in 0 .. B[i].distance - 1
        BY <3>2, <1>1, <1>2
      <4>2. p = -1 \/ (B[p] # Free /\ B[p].distance >= e)
        BY <4>1, <1>1, <1>6 DEF Paths
      <4>3. p # i
        BY <3>2, <2>2, <1>2, <1>6, Ring
      <4> QED
        BY <4>2, <4>3, <2>2 DEF Alike
    <3> QED
      BY <3>1, <3>2
  <2> QED
    BY <2>2, <2>3, <1>4
<1>7. Walked(B2, n, k, c + 1)
  BY <1>1, <1>6 DEF Walked
<1>8. c + 1 \in 0 .. n
  BY <1>2
<1> QED
  BY <1>1, <1>3, <1>4, <1>7, <1>8 DEF Apart

\* A key that is there gets another value.
LEMMA Updates ==
  ASSUME NEW n \in Nat \ {0}, NEW B, Rows(B, n), Paths(B, n, -1), NEW v \in Values,
         NEW i \in 0 .. n - 1, B[i] # Free,
         NEW x, x = Entry(B[i].key, v, B[i].distance), NEW B2, B2 = Put(B, i, x)
  PROVE  /\ x # Free /\ B2[i] = x /\ Alike(B2, B, n, i)
         /\ Rows(B2, n) /\ Paths(B2, n, -1)
<1>1. B[i] \in EntriesOf(n)
  BY RowTypes
<1>2. x \in EntriesOf(n) /\ x.key = B[i].key /\ x.distance = B[i].distance
  BY <1>1 DEF EntriesOf, Entry
<1>3. x # Free
  BY <1>2, EntryTypes
<1>4. B \in [0 .. n - 1 -> EntriesOf(n) \cup {Free}]
  BY DEF Rows
<1>5. B2[i] = x /\ (\A j \in 0 .. n - 1 : j # i => B2[j] = B[j])
      /\ B2 \in [0 .. n - 1 -> EntriesOf(n) \cup {Free}]
  BY <1>2, <1>4 DEF Put
<1>6. \A j \in 0 .. n - 1 : (B2[j] # Free <=> B[j] # Free) /\ B2[j].key = B[j].key /\ B2[j].distance = B[j].distance
  BY <1>2, <1>3, <1>5
<1>7. Rows(B2, n)
  BY <1>5, <1>6 DEF Rows
<1>8. ASSUME NEW j \in 0 .. n - 1, B2[j] # Free, NEW e \in 0 .. B2[j].distance - 1,
             NEW p, p = At(n, HomeOf(n, B2[j].key), e)
      PROVE  p = -1 \/ (B2[p] # Free /\ B2[p].distance >= e)
  <2>1. B2[j].distance \in 0 .. n - 1 /\ HomeOf(n, B2[j].key) \in 0 .. n - 1
    BY <1>7, <1>8, RowTypes
  <2>2. e \in 0 .. n
    BY <2>1
  <2>3. p \in 0 .. n - 1
    BY <2>1, <2>2, <1>8, Ring
  <2>4. p = -1 \/ (B[p] # Free /\ B[p].distance >= e)
    BY <1>6, <1>8 DEF Paths
  <2> QED
    BY <2>3, <2>4, <1>6
<1>9. Paths(B2, n, -1)
  BY <1>8 DEF Paths
<1> QED
  BY <1>3, <1>5, <1>7, <1>9 DEF Alike

-----------------------------------------------------------------------------
(***************************************************************************)
(* Removals.  The bucket that is freed is a hole in the paths of others;   *)
(* it moves along as entries move back, until nothing's path leads over it.*)
(***************************************************************************)
LEMMA Removes ==
  ASSUME NEW n \in Nat \ {0}, NEW B, Rows(B, n), Paths(B, n, -1), NEW i \in 0 .. n - 1,
         NEW B2, B2 = Put(B, i, Free)
  PROVE  /\ B2[i] = Free /\ Alike(B2, B, n, i)
         /\ Rows(B2, n) /\ Paths(B2, n, i)
<1>1. B \in [0 .. n - 1 -> EntriesOf(n) \cup {Free}]
  BY DEF Rows
<1>2. B2[i] = Free /\ (\A j \in 0 .. n - 1 : j # i => B2[j] = B[j])
      /\ B2 \in [0 .. n - 1 -> EntriesOf(n) \cup {Free}]
  BY <1>1 DEF Put
<1>3. \A j \in 0 .. n - 1 : B2[j] # Free => B2[j] = B[j] /\ B[j] # Free
  BY <1>2
<1>4. Rows(B2, n)
  BY <1>2, <1>3 DEF Rows
<1>5. ASSUME NEW j \in 0 .. n - 1, B2[j] # Free, NEW e \in 0 .. B2[j].distance - 1,
             NEW p, p = At(n, HomeOf(n, B2[j].key), e)
      PROVE  p = i \/ (B2[p] # Free /\ B2[p].distance >= e)
  <2>1. B2[j] = B[j] /\ B[j] # Free
    BY <1>3, <1>5
  <2>2. /\ B[j].distance \in 0 .. n - 1 /\ HomeOf(n, B[j].key) \in 0 .. n - 1
    BY <2>1, RowTypes
  <2>3. e \in 0 .. n
    BY <2>1, <2>2
  <2>4. p \in 0 .. n - 1
    BY <2>1, <2>2, <2>3, <1>5, Ring
  <2>5. p = -1 \/ (B[p] # Free /\ B[p].distance >= e)
    BY <2>1, <1>5 DEF Paths
  <2> QED
    BY <2>4, <2>5, <1>2
<1>6. Paths(B2, n, i)
  BY <1>5 DEF Paths
<1> QED
  BY <1>2, <1>4, <1>6 DEF Alike

\* The way of another entry over the hole leads on over the bucket after it, or ends there.
LEMMA OverHole ==
  ASSUME NEW n \in Nat \ {0}, NEW B, NEW hole \in 0 .. n - 1, Rows(B, n), Paths(B, n, hole),
         NEW j \in 0 .. n - 1, B[j] # Free, NEW e \in 0 .. B[j].distance - 1,
         hole = At(n, HomeOf(n, B[j].key), e), NEW q, q = After(n, hole)
  PROVE  /\ q # hole
         /\ B[q] # Free /\ B[q].distance >= e + 1
<1>1. PICK h, d : h = HomeOf(n, B[j].key) /\ d = B[j].distance
  OBVIOUS
<1>2. d \in 0 .. n - 1 /\ h \in 0 .. n - 1 /\ j = At(n, h, d)
  BY <1>1, RowTypes
<1>3. e \in 0 .. n - 1 /\ e + 1 \in 0 .. d
  BY <1>1, <1>2
<1>4. q = At(n, h, e + 1)
  BY <1>1, <1>2, <1>3, Ring
<1>5. q # hole
  <2>1. n > 1
    BY <1>2, <1>3
  <2> QED
    BY <2>1 DEF After
<1>6. CASE e + 1 = d
  <2>1. q = j
    BY <1>2, <1>4, <1>6
  <2>2. B[q].distance = e + 1
    BY <2>1, <1>1, <1>6
  <2>3. e + 1 >= e + 1
    BY <1>3
  <2> QED
    BY <2>1, <2>2, <2>3, <1>5
<1>7. CASE e + 1 # d
  <2>1. e + 1 \in 0 .. B[j].distance - 1
    BY <1>1, <1>2, <1>3, <1>7
  <2>2. q = hole \/ (B[q] # Free /\ B[q].distance >= e + 1)
    BY <2>1, <1>1, <1>4 DEF Paths
  <2> QED
    BY <2>2, <1>5
<1> QED
  BY <1>6, <1>7

LEMMA Shifts ==
  ASSUME NEW n \in Nat \ {0}, NEW B, NEW hole \in 0 .. n - 1, Rows(B, n), Paths(B, n, hole),
         B[hole] = Free, NEW q, q = After(n, hole), B[q] # Free, NEW m \in Nat, B[q].distance = m + 1,
         NEW x, x = Entry(B[q].key, B[q].value, m),
         NEW B1, B1 = Put(B, hole, x), NEW B2, B2 = Put(B1, q, Free)
  PROVE  /\ q \in 0 .. n - 1 /\ q # hole /\ x # Free
         /\ B2[hole] = x /\ B2[q] = Free /\ B1[hole] = x /\ B1[q] = B[q]
         /\ Alike(B1, B, n, hole) /\ Alike(B2, B1, n, q)
         /\ B1 \in Buckets(n)
         /\ Rows(B2, n) /\ Paths(B2, n, q)
<1>1. q \in 0 .. n - 1 /\ q # hole
  BY Ring
<1>2. PICK k, h, d : k = B[q].key /\ h = HomeOf(n, k) /\ d = B[q].distance
  OBVIOUS
<1>3. k \in Keys /\ d \in 1 .. n - 1 /\ h \in 0 .. n - 1 /\ q = At(n, h, d) /\ B[q].value \in Values
  BY <1>1, <1>2, RowTypes
<1>4. d - 1 \in 0 .. n - 1 /\ (d - 1) + 1 = d
  BY <1>3
<1>5. x \in EntriesOf(n) /\ x.key = k /\ x.distance = d - 1
  BY <1>2, <1>3, <1>4 DEF EntriesOf, Entry
<1>6. x # Free
  BY <1>5, EntryTypes
<1>7. hole = At(n, h, d - 1)
  <2>1. After(n, At(n, h, d - 1)) = q
    <3>1. PICK c \in 0 .. n - 1 : c = d - 1 /\ c + 1 = d
      BY <1>4
    <3>2. At(n, h, c + 1) = After(n, At(n, h, c))
      BY <3>1, <1>3, Ring
    <3> QED
      BY <3>1, <3>2, <1>3
  <2>2. d - 1 \in 0 .. n
    BY <1>4
  <2>3. At(n, h, d - 1) \in 0 .. n - 1
    BY <2>2, <1>3, Ring
  <2>4. PICK g \in 0 .. n - 1 : g = At(n, h, d - 1)
    BY <2>3
  <2>5. After(n, g) = After(n, hole)
    BY <2>1, <2>4
  <2> QED
    BY <2>4, <2>5 DEF After
<1>8. B \in [0 .. n - 1 -> EntriesOf(n) \cup {Free}]
  BY DEF Rows
<1>9. /\ B1[hole] = x /\ \A j \in 0 .. n - 1 : j # hole => B1[j] = B[j]
      /\ B1 \in [0 .. n - 1 -> EntriesOf(n) \cup {Free}]
  BY <1>5, <1>8 DEF Put
<1>10. /\ B2[q] = Free /\ \A j \in 0 .. n - 1 : j # q => B2[j] = B1[j]
       /\ B2 \in [0 .. n - 1 -> EntriesOf(n) \cup {Free}]
  BY <1>1, <1>9 DEF Put
<1>11. /\ B2[hole] = x /\ B2[q] = Free
       /\ \A j \in 0 .. n - 1 : j # hole /\ j # q => B2[j] = B[j]
       /\ B2 \in [0 .. n - 1 -> EntriesOf(n) \cup {Free}]
  BY <1>1, <1>9, <1>10
<1>12. ASSUME NEW j \in 0 .. n - 1, B2[j] # Free
       PROVE  j = At(n, HomeOf(n, B2[j].key), B2[j].distance)
  <2>1. CASE j = hole
    BY <2>1, <1>2, <1>5, <1>7, <1>11
  <2>2. CASE j # hole
    <3>1. B2[j] = B[j]
      BY <2>2, <1>11, <1>12
    <3> QED
      BY <3>1, <1>12 DEF Rows
  <2> QED
    BY <2>1, <2>2
<1>13. ASSUME NEW a \in 0 .. n - 1, NEW b \in 0 .. n - 1, B2[a] # Free, B2[b] # Free, B2[a].key = B2[b].key
       PROVE  a = b
  <2>1. \A j \in 0 .. n - 1 : j # hole /\ B2[j] # Free => j # q /\ B2[j] = B[j]
    BY <1>11
  <2>2. CASE a # hole /\ b # hole
    <3>1. B2[a] = B[a] /\ B2[b] = B[b]
      BY <2>1, <2>2, <1>13
    <3> QED
      BY <3>1, <1>13 DEF Rows
  <2>3. CASE a = hole /\ b # hole
    <3>1. B[q].key = B[b].key /\ B[b] # Free /\ b # q
      BY <2>1, <2>3, <1>2, <1>5, <1>11, <1>13
    <3> QED
      BY <3>1, <1>1 DEF Rows
  <2>4. CASE a # hole /\ b = hole
    <3>1. B[q].key = B[a].key /\ B[a] # Free /\ a # q
      BY <2>1, <2>4, <1>2, <1>5, <1>11, <1>13
    <3> QED
      BY <3>1, <1>1 DEF Rows
  <2> QED
    BY <2>2, <2>3, <2>4
<1>14. Rows(B2, n)
  BY <1>11, <1>12, <1>13 DEF Rows
<1>15. ASSUME NEW j \in 0 .. n - 1, B2[j] # Free, NEW e \in 0 .. B2[j].distance - 1,
              NEW p, p = At(n, HomeOf(n, B2[j].key), e), p # q
       PROVE  B2[p] # Free /\ B2[p].distance >= e
  <2>1. B2[j].distance \in 0 .. n - 1 /\ HomeOf(n, B2[j].key) \in 0 .. n - 1
    BY <1>14, <1>15, RowTypes
  <2>2. e \in 0 .. n - 1 /\ e \in 0 .. n
    BY <2>1
  <2>3. p \in 0 .. n - 1
    BY <2>1, <2>2, <1>15, Ring
  <2>4. CASE j = hole
    <3>1. e \in 0 .. d - 1 /\ e # d - 1 /\ p = At(n, h, e)
      BY <2>4, <1>2, <1>4, <1>5, <1>11, <1>15
    <3>2. p # hole
      BY <3>1, <2>2, <1>3, <1>4, <1>7, Ring
    <3>3. e \in 0 .. B[q].distance - 1
      BY <3>1, <1>2
    <3>4. p = hole \/ (B[p] # Free /\ B[p].distance >= e)
      BY <3>1, <3>3, <1>1, <1>2 DEF Paths
    <3> QED
      BY <3>2, <3>4, <2>3, <1>11, <1>15
  <2>5. CASE j # hole
    <3>1. B2[j] = B[j] /\ B[j] # Free /\ j # q
      BY <2>5, <1>11, <1>15
    <3>2. CASE p = hole
      <4>1. d >= e + 1
        BY <3>1, <3>2, <1>2, <1>15, OverHole
      <4>2. d - 1 >= e
        <5>1. d \in Int /\ e \in Int
          BY <2>2, <1>3
        <5> QED
          BY <5>1, <4>1
      <4>3. B2[p] = x
        BY <3>2, <1>11
      <4> QED
        BY <4>2, <4>3, <1>5, <1>6
    <3>3. CASE p # hole
      <4>1. p = hole \/ (B[p] # Free /\ B[p].distance >= e)
        BY <3>1, <1>15 DEF Paths
      <4> QED
        BY <4>1, <3>3, <2>3, <1>11, <1>15
    <3> QED
      BY <3>2, <3>3
  <2> QED
    BY <2>4, <2>5
<1>16. Paths(B2, n, q)
  BY <1>15 DEF Paths
<1> QED
  BY <1>1, <1>6, <1>11, <1>14, <1>16, <1>9, <1>10 DEF Alike, Buckets

LEMMA ShiftEnds ==
  ASSUME NEW n \in Nat \ {0}, NEW B, NEW hole \in 0 .. n - 1, Rows(B, n), Paths(B, n, hole),
         NEW q, q = After(n, hole), B[q] = Free \/ ~ (B[q].distance > 0)
  PROVE  Paths(B, n, -1)
<1>1. ASSUME NEW j \in 0 .. n - 1, B[j] # Free, NEW e \in 0 .. B[j].distance - 1,
             NEW p, p = At(n, HomeOf(n, B[j].key), e)
      PROVE  B[p] # Free /\ B[p].distance >= e
  <2>1. p = hole \/ (B[p] # Free /\ B[p].distance >= e)
    BY <1>1 DEF Paths
  <2>2. CASE p = hole
    <3>1. q # hole /\ B[q] # Free /\ B[q].distance >= e + 1
      BY <2>2, <1>1, OverHole
    <3>2. q \in 0 .. n - 1
      BY Ring
    <3>3. B[q].distance \in 0 .. n - 1
      BY <3>1, <3>2, RowTypes
    <3> QED
      BY <3>1, <3>3
  <2> QED
    BY <2>1, <2>2
<1> QED
  BY <1>1 DEF Paths

-----------------------------------------------------------------------------
(***************************************************************************)
(* Counting.                                                               *)
(***************************************************************************)
Full(B) == {i \in DOMAIN B : B[i] # Free}

LEMMA Capacity ==
  ASSUME NEW n \in Nat, NEW S, NEW B \in [0 .. n - 1 -> S]
  PROVE  /\ Cardinality(DOMAIN B) = n
         /\ IsFiniteSet(Full(B)) /\ Cardinality(Full(B)) \in 0 .. n
         /\ Cardinality(Full(B)) # n => \E f \in 0 .. n - 1 : B[f] = Free
<1>1. IsFiniteSet(0 .. n - 1) /\ Cardinality(0 .. n - 1) = n
  BY FS_Interval
<1>2. DOMAIN B = 0 .. n - 1 /\ Full(B) \in SUBSET (0 .. n - 1)
  BY DEF Full
<1>3. /\ IsFiniteSet(Full(B)) /\ Cardinality(Full(B)) <= n
      /\ n = Cardinality(Full(B)) => Full(B) = 0 .. n - 1
      /\ Full(B) = 0 .. n - 1 => Cardinality(Full(B)) = n
  BY <1>1, <1>2, FS_Subset
<1>4. Cardinality(Full(B)) \in Nat
  BY <1>3, FS_CardinalityType
<1>5. ASSUME Cardinality(Full(B)) # n PROVE \E f \in 0 .. n - 1 : B[f] = Free
  <2>1. PICK f \in 0 .. n - 1 : f \notin Full(B)
    BY <1>2, <1>3, <1>5
  <2> QED
    BY <2>1, <1>2 DEF Full
<1> QED
  BY <1>1, <1>2, <1>3, <1>4, <1>5

\* A bucket is filled, refilled or freed.
LEMMA Counting ==
  ASSUME NEW n \in Nat \ {0}, NEW B \in Buckets(n), NEW B2 \in Buckets(n), NEW i \in 0 .. n - 1,
         Alike(B2, B, n, i)
  PROVE  /\ B[i] = Free /\ B2[i] # Free => Cardinality(Full(B2)) = Cardinality(Full(B)) + 1
         /\ B[i] # Free /\ B2[i] # Free => Cardinality(Full(B2)) = Cardinality(Full(B))
         /\ B[i] # Free /\ B2[i] = Free => Cardinality(Full(B2)) = Cardinality(Full(B)) - 1
<1>1. IsFiniteSet(Full(B)) /\ IsFiniteSet(Full(B2))
  BY Capacity DEF Buckets
<1>2. DOMAIN B = 0 .. n - 1 /\ DOMAIN B2 = 0 .. n - 1
  BY DEF Buckets
<1>3. ASSUME B[i] = Free, B2[i] # Free
      PROVE  Cardinality(Full(B2)) = Cardinality(Full(B)) + 1
  <2>1. i \notin Full(B) /\ Full(B2) = Full(B) \cup {i}
    BY <1>2, <1>3 DEF Full, Alike
  <2> QED
    BY <2>1, <1>1, FS_AddElement
<1>4. ASSUME B[i] # Free, B2[i] # Free
      PROVE  Cardinality(Full(B2)) = Cardinality(Full(B))
  <2>1. Full(B2) = Full(B)
    BY <1>2, <1>4 DEF Full, Alike
  <2> QED
    BY <2>1
<1>5. ASSUME B[i] # Free, B2[i] = Free
      PROVE  Cardinality(Full(B2)) = Cardinality(Full(B)) - 1
  <2>1. i \in Full(B) /\ Full(B2) = Full(B) \ {i}
    BY <1>2, <1>5 DEF Full, Alike
  <2> QED
    BY <2>1, <1>1, FS_RemoveElement
<1> QED
  BY <1>3, <1>4, <1>5

-----------------------------------------------------------------------------
(***************************************************************************)
(* The inductive invariant: the table, the call, the probe of the call,    *)
(* what is still to be moved into a new table, the entry that is carried,  *)
(* and the iterator.                                                       *)
(***************************************************************************)
Carrying == pc = "place" \/ (pc = "probe" /\ call.reply = Yes)

CallSet == [op : {"none", "insert", "get", "has", "remove"}, key : Keys \cup {NoValue},
            value : Values \cup {NoValue}, reply : Values \cup {NoValue, Open, Yes, No}]

TableInv ==
  /\ Cap \in Nat \ {0}
  /\ Rows(buckets, Cap)
  /\ Paths(buckets, Cap, IF pc = "shift" THEN index ELSE -1)
  /\ len = Cardinality(Full(buckets))

CallInv ==
  /\ call \in CallSet
  /\ pc \in {"idle", "start", "rehash", "place", "probe", "find", "shift", "return"}
  /\ pc = "idle" => call = Idle
  /\ pc # "idle" => call.op # "none"
  /\ pc \in {"start", "rehash", "place", "probe"} =>
       call.op = "insert" /\ call.key \in Keys /\ call.value \in Values
  /\ pc \in {"start", "rehash", "place", "find"} => call.reply = Open
  /\ pc = "probe" => call.reply \in {Open, Yes}
  /\ pc = "find" => call.op \in {"get", "has", "remove"} /\ call.key \in Keys
  /\ pc = "shift" => call.op = "remove" /\ call.reply = Yes
  /\ pc = "return" => call.reply # Open

Walking(k) ==
  /\ distance \in 0 .. Cap
  /\ index = At(Cap, HomeOf(Cap, k), distance)
  /\ Walked(buckets, Cap, k, distance)

WalkInv ==
  /\ pc \in {"probe", "place"} =>
       /\ carry \in [key : Keys, value : Values]
       /\ Walking(carry.key)
       /\ \E f \in 0 .. Cap - 1 : buckets[f] = Free
  /\ pc = "find" => Walking(call.key)
  /\ pc = "shift" => index \in 0 .. Cap - 1 /\ buckets[index] = Free

OldInv ==
  /\ IsFiniteSet(DOMAIN old) /\ DOMAIN old \subseteq Nat
  /\ \A j \in DOMAIN old : old[j].key \in Keys /\ old[j].value \in Values
  /\ \A i, j \in DOMAIN old : old[i].key = old[j].key => i = j
  /\ \A j \in DOMAIN old : Apart(buckets, Cap, old[j].key)
  /\ pc \in {"rehash", "place"} =>
       2 * (len + Cardinality(DOMAIN old) + (IF pc = "place" THEN 1 ELSE 0)) <= Cap
  /\ pc \notin {"rehash", "place"} => DOMAIN old = {}

CarryInv ==
  /\ Carrying => /\ Apart(buckets, Cap, carry.key)
                 /\ \A j \in DOMAIN old : old[j].key # carry.key
  /\ pc = "probe" /\ call.reply = Open => carry = [key |-> call.key, value |-> call.value]

\* The keys before the bucket a.
Before(B, a) == {B[i].key : i \in {j \in Full(B) : j < a}}

IterInv ==
  \/ iter = NoIter
  \/ /\ call.op \in {"none", "get", "has"}
     /\ iter.at \in Full(buckets) \cup {Cap}
     /\ iter.seen \in Seq(Keys) /\ IsInjective(iter.seen)
     /\ ToSet(iter.seen) = Before(buckets, iter.at)

MapInv == TableInv /\ CallInv /\ WalkInv /\ OldInv /\ CarryInv /\ IterInv

-----------------------------------------------------------------------------
\* A new table is empty.
LEMMA EmptyTable ==
  ASSUME NEW n \in Nat \ {0}
  PROVE  /\ Cardinality(DOMAIN Table(n)) = n
         /\ Rows(Table(n), n) /\ Paths(Table(n), n, -1)
         /\ Full(Table(n)) = {} /\ Cardinality(Full(Table(n))) = 0
         /\ \A k : Apart(Table(n), n, k)
<1>1. PICK B : B = Table(n)
  OBVIOUS
<1>2. B \in [0 .. n - 1 -> EntriesOf(n) \cup {Free}] /\ \A i \in 0 .. n - 1 : B[i] = Free
  BY <1>1 DEF Table
<1>3. Cardinality(DOMAIN B) = n
  BY <1>2, Capacity
<1>4. Full(B) = {}
  BY <1>2 DEF Full
<1>5. Cardinality(Full(B)) = 0
  BY <1>4, FS_EmptySet
<1> QED
  BY <1>1, <1>2, <1>3, <1>4, <1>5 DEF Rows, Paths, Apart

LEMMA InitInv == Init => MapInv
<1> SUFFICES ASSUME Init PROVE MapInv
  OBVIOUS
<1>1. InitialCap \in Nat \ {0}
  BY HashAssumption
<1>2. buckets = Table(InitialCap) /\ Cap = InitialCap
  BY <1>1, EmptyTable DEF Init, Cap
<1>3. TableInv
  BY <1>1, <1>2, EmptyTable DEF Init, TableInv
<1>4. CallInv
  BY DEF Init, CallInv, Idle, CallSet
<1>5. DOMAIN old = {}
  BY DEF Init
<1>6. OldInv
  BY <1>5, FS_EmptySet DEF Init, OldInv
<1> QED
  BY <1>3, <1>4, <1>6 DEF Init, MapInv, WalkInv, CarryInv, Carrying, IterInv

-----------------------------------------------------------------------------
\* What stays of the invariant when the table stays, and of the iterator when it is not used.
LEMMA TableSame ==
  ASSUME TableInv, UNCHANGED <<buckets, len>>, pc # "shift", pc' # "shift"
  PROVE  TableInv' /\ Cap' = Cap
<1>1. Cap' = Cap
  BY DEF Cap
<1> QED
  BY <1>1 DEF TableInv

LEMMA OldNone ==
  ASSUME DOMAIN old = {}, UNCHANGED old, pc' \notin {"rehash", "place"}
  PROVE  OldInv'
BY FS_EmptySet DEF OldInv

LEMMA IterNone ==
  ASSUME IterInv, call.op \in {"insert", "remove"}, UNCHANGED iter
  PROVE  IterInv'
BY DEF IterInv

LEMMA IterSame ==
  ASSUME IterInv, UNCHANGED <<iter, buckets>>,
         call.op \in {"none", "get", "has"} => call'.op \in {"none", "get", "has"}
  PROVE  IterInv'
<1>1. Cap' = Cap
  BY DEF Cap
<1> QED
  BY <1>1 DEF IterInv

LEMMA Settles ==
  ASSUME call \in CallSet, NEW reply \in Values \cup {NoValue, Open, Yes, No}, Settle(reply)
  PROVE  /\ call' \in CallSet /\ call'.reply = reply
         /\ call'.op = call.op /\ call'.key = call.key /\ call'.value = call.value
BY DEF Settle, CallSet

LEMMA Homes ==
  ASSUME TableInv, NEW k \in Keys, NEW next, StartAt(k, next), UNCHANGED buckets
  PROVE  /\ Cap' = Cap /\ distance' = 0 /\ pc' = next
         /\ Walking(k)'
<1>1. Cap' = Cap
  BY DEF Cap
<1>2. PICK n \in Nat \ {0} : n = Cap
  BY DEF TableInv
<1>3. HomeOf(n, k) \in 0 .. n - 1
  BY HomeType
<1>4. index' = HomeOf(n, k) /\ distance' = 0 /\ pc' = next
  BY <1>2 DEF StartAt, Home, HomeOf
<1>5. At(n, HomeOf(n, k), 0) = HomeOf(n, k)
  BY <1>3, Ring
<1>6. distance' \in 0 .. n
  BY <1>4
<1>7. Walked(buckets, n, k, 0)
  BY DEF Walked
<1> QED
  BY <1>1, <1>2, <1>4, <1>5, <1>6, <1>7 DEF Walking

\* Calls begin and end.
LEMMA BeginInsertInv ==
  ASSUME MapInv, NEW c \in Inserts, BeginInsert(c)
  PROVE  MapInv'
<1>1. TableInv /\ CallInv /\ OldInv
  BY DEF MapInv
<1>2. call = Idle /\ call' = c /\ pc' = "start" /\ iter' = NoIter
      /\ UNCHANGED <<buckets, len, carry, index, distance, old>>
  BY DEF BeginInsert
<1>3. pc = "idle"
  BY <1>1, <1>2 DEF CallInv, Idle
<1>4. TableInv'
  BY <1>1, <1>2, <1>3, TableSame
<1>5. /\ c.op = "insert" /\ c.key \in Keys /\ c.value \in Values /\ c.reply = Open /\ c \in CallSet
  BY DEF Inserts, CallSet
<1>6. CallInv'
  BY <1>2, <1>5 DEF CallInv
<1>7. OldInv'
  BY <1>1, <1>2, <1>3, OldNone DEF OldInv
<1> QED
  BY <1>2, <1>4, <1>6, <1>7 DEF MapInv, WalkInv, CarryInv, Carrying, IterInv

LEMMA BeginLookupInv ==
  ASSUME MapInv, NEW c \in Lookups, BeginLookup(c)
  PROVE  MapInv'
<1>1. TableInv /\ CallInv /\ OldInv /\ IterInv
  BY DEF MapInv
<1>2. call = Idle /\ call' = c /\ StartAt(c.key, "find") /\ UNCHANGED <<buckets, len, carry, old>>
      /\ iter' = IF c.op = "remove" THEN NoIter ELSE iter
  BY DEF BeginLookup
<1>3. pc = "idle"
  BY <1>1, <1>2 DEF CallInv, Idle
<1>4. /\ c.op \in {"get", "has", "remove"} /\ c.key \in Keys /\ c.reply = Open /\ c \in CallSet
  BY DEF Lookups, CallSet
<1>5. pc' = "find" /\ Walking(c.key)'
  BY <1>1, <1>2, <1>4, Homes
<1>6. TableInv'
  BY <1>1, <1>2, <1>3, <1>5, TableSame
<1>7. CallInv'
  BY <1>2, <1>4, <1>5 DEF CallInv
<1>8. OldInv'
  BY <1>1, <1>2, <1>3, <1>5, OldNone DEF OldInv
<1>9. WalkInv'
  BY <1>2, <1>5 DEF WalkInv, Walking
<1>10. IterInv'
  <2>1. CASE c.op = "remove"
    BY <2>1, <1>2 DEF IterInv
  <2>2. CASE c.op # "remove"
    BY <2>2, <1>1, <1>2, <1>4, IterSame
  <2> QED
    BY <2>1, <2>2
<1> QED
  BY <1>5, <1>6, <1>7, <1>8, <1>9, <1>10 DEF MapInv, CarryInv, Carrying

\* What ends a call without the table: it is told, and returns.
LEMMA EndInv ==
  ASSUME MapInv, pc \in {"start", "rehash", "find", "shift"}, DOMAIN old = {}, pc' = "return",
         UNCHANGED <<buckets, len, old, iter>>, TableInv',
         call' \in CallSet, call'.op = call.op, call'.reply # Open
  PROVE  MapInv'
<1>1. CallInv /\ IterInv
  BY DEF MapInv
<1>2. CallInv'
  BY <1>1 DEF CallInv
<1>3. OldInv'
  BY OldNone
<1>4. IterInv'
  BY <1>1, IterSame
<1> QED
  BY <1>2, <1>3, <1>4 DEF MapInv, WalkInv, CarryInv, Carrying

LEMMA FailInv ==
  ASSUME MapInv, ResizeFails \/ ProbeFails
  PROVE  MapInv'
<1>1. TableInv /\ CallInv /\ OldInv
  BY DEF MapInv
<1>2. /\ pc \in {"start", "rehash"} /\ pc' = "return" /\ Settle(No)
      /\ UNCHANGED <<buckets, len, carry, index, distance, old, iter>>
      /\ pc = "rehash" => DOMAIN old = {}
  BY DEF ResizeFails, ProbeFails, Room
<1>3. DOMAIN old = {}
  BY <1>1, <1>2 DEF OldInv
<1>4. TableInv'
  BY <1>1, <1>2, TableSame
<1>5. call' \in CallSet /\ call'.op = call.op /\ call'.reply = No
  BY <1>1, <1>2, Settles DEF CallInv
<1>6. No # Open
  BY DEF No, Open
<1> QED
  BY <1>2, <1>3, <1>4, <1>5, <1>6, EndInv

LEMMA AbsentInv ==
  ASSUME MapInv, Absent
  PROVE  MapInv'
<1>1. TableInv /\ CallInv /\ OldInv
  BY DEF MapInv
<1>2. /\ pc = "find" /\ pc' = "return" /\ Settle(IF call.op = "get" THEN NoValue ELSE No)
      /\ UNCHANGED <<buckets, len, carry, index, distance, old, iter>>
  BY DEF Absent
<1>3. DOMAIN old = {}
  BY <1>1, <1>2 DEF OldInv
<1>4. TableInv'
  BY <1>1, <1>2, TableSame
<1>5. call' \in CallSet /\ call'.op = call.op /\ call'.reply \in {No, NoValue}
  BY <1>1, <1>2, Settles DEF CallInv
<1>6. No # Open /\ NoValue # Open
  BY ReplyAssumption DEF No, Open
<1> QED
  BY <1>2, <1>3, <1>4, <1>5, <1>6, EndInv

LEMMA ReturnInv ==
  ASSUME MapInv, Return
  PROVE  MapInv'
<1>1. TableInv /\ CallInv /\ OldInv /\ IterInv
  BY DEF MapInv
<1>2. pc = "return" /\ pc' = "idle" /\ call' = Idle /\ UNCHANGED <<buckets, len, carry, old, iter>>
  BY DEF Return
<1>3. TableInv'
  BY <1>1, <1>2, TableSame
<1>4. CallInv'
  BY <1>2 DEF CallInv, Idle, CallSet
<1>5. OldInv'
  BY <1>1, <1>2, OldNone DEF OldInv
<1>6. call'.op = "none"
  BY <1>2 DEF Idle
<1>7. IterInv'
  BY <1>1, <1>2, <1>6, IterSame
<1> QED
  BY <1>2, <1>3, <1>4, <1>5, <1>7 DEF MapInv, WalkInv, CarryInv, Carrying

LEMMA ClearInv ==
  ASSUME MapInv, Clear
  PROVE  MapInv'
<1>1. TableInv /\ CallInv /\ OldInv
  BY DEF MapInv
<1>2. /\ call = Idle /\ buckets' = Table(Cap) /\ len' = 0 /\ iter' = NoIter
      /\ UNCHANGED <<call, pc, carry, index, distance, old>>
  BY DEF Clear
<1>3. pc = "idle" /\ pc' = "idle"
  BY <1>1, <1>2 DEF CallInv, Idle
<1>4. PICK n \in Nat \ {0} : n = Cap
  BY <1>1 DEF TableInv
<1>5. Cap' = n
  BY <1>2, <1>4, EmptyTable DEF Cap
<1>6. TableInv'
  BY <1>2, <1>3, <1>4, <1>5, EmptyTable DEF TableInv
<1>7. OldInv'
  BY <1>1, <1>2, <1>3, OldNone DEF OldInv
<1>8. CallInv'
  BY <1>1, <1>2 DEF CallInv
<1> QED
  BY <1>2, <1>3, <1>6, <1>7, <1>8 DEF MapInv, WalkInv, CarryInv, Carrying, IterInv

-----------------------------------------------------------------------------
\* A table grows: what was in it has to be moved, and half of the new one suffices for that.
LEMMA ResizeInv ==
  ASSUME MapInv, Resize
  PROVE  MapInv'
<1>1. TableInv /\ CallInv /\ IterInv
  BY DEF MapInv
<1>2. /\ pc = "start" /\ pc' = "rehash" /\ len' = 0
      /\ old' = Restrict(buckets, Full(buckets)) /\ buckets' = Table(2 * Cap)
      /\ UNCHANGED <<call, carry, index, distance, iter>>
  BY DEF Resize, Occupied, Full
<1>3. PICK n \in Nat \ {0} : n = Cap
  BY <1>1 DEF TableInv
<1>4. 2 * n \in Nat \ {0}
  OBVIOUS
<1>5. /\ Cap' = 2 * n /\ Rows(buckets', 2 * n) /\ Paths(buckets', 2 * n, -1)
      /\ Cardinality(Full(buckets')) = 0
      /\ \A k : Apart(buckets', 2 * n, k)
  BY <1>2, <1>3, <1>4, EmptyTable DEF Cap
<1>6. TableInv'
  BY <1>2, <1>4, <1>5 DEF TableInv
<1>7. CallInv'
  BY <1>1, <1>2 DEF CallInv
<1>8. Rows(buckets, n) /\ DOMAIN buckets = 0 .. n - 1
  BY <1>1, <1>3 DEF TableInv, Rows
<1>9. IsFiniteSet(Full(buckets)) /\ Cardinality(Full(buckets)) \in 0 .. n
  BY <1>8, Capacity DEF Rows
<1>10. DOMAIN old' = Full(buckets) /\ \A j \in Full(buckets) : old'[j] = buckets[j]
  BY <1>2 DEF Restrict
<1>11. Full(buckets) \subseteq 0 .. n - 1 /\ \A j \in Full(buckets) : buckets[j] # Free
  BY <1>8 DEF Full
<1>12. OldInv'
  <2>1. IsFiniteSet(DOMAIN old') /\ DOMAIN old' \subseteq Nat
    BY <1>9, <1>10, <1>11
  <2>2. \A j \in DOMAIN old' : old'[j].key \in Keys /\ old'[j].value \in Values
    BY <1>8, <1>10, <1>11, RowTypes
  <2>3. \A i, j \in DOMAIN old' : old'[i].key = old'[j].key => i = j
    BY <1>8, <1>10, <1>11 DEF Rows
  <2>4. \A j \in DOMAIN old' : Apart(buckets', Cap', old'[j].key)
    BY <1>5
  <2>5. 2 * (len' + Cardinality(DOMAIN old') + 0) <= Cap'
    BY <1>2, <1>5, <1>9, <1>10
  <2> QED
    BY <1>2, <2>1, <2>2, <2>3, <2>4, <2>5 DEF OldInv
<1>13. IterInv'
  <2>1. iter = NoIter
    BY <1>1, <1>2 DEF IterInv, CallInv
  <2> QED
    BY <2>1, <1>2 DEF IterInv
<1> QED
  BY <1>2, <1>6, <1>7, <1>12, <1>13 DEF MapInv, WalkInv, CarryInv, Carrying

LEMMA Least ==
  ASSUME NEW S \in SUBSET Nat, S # {}
  PROVE  /\ Min(S) \in S
         /\ \A y \in S : Min(S) <= y
<1>1. PICK x \in S : \A y \in S : ~ (<<y, x>> \in OpToRel(<, Nat))
  BY WFMin, NatLessThanWellFounded, Zenon
<1>2. ASSUME NEW y \in S PROVE x <= y
  <2>1. <<y, x>> \in Nat \X Nat
    OBVIOUS
  <2>2. OpToRel(<, Nat) = {ss \in Nat \X Nat : ss[1] < ss[2]}
    BY Zenon DEF OpToRel
  <2>3. ~ (y < x)
    BY <2>1, <2>2, <1>1, <1>2
  <2> QED
    BY <2>3
<1> QED
  BY <1>2 DEF Min

\* The table of a call that may insert has a free bucket.
LEMMA FreeBucket ==
  ASSUME TableInv, len # Cap
  PROVE  \E f \in 0 .. Cap - 1 : buckets[f] = Free
<1>1. PICK n \in Nat \ {0} : n = Cap
  BY DEF TableInv
<1>2. buckets \in [0 .. n - 1 -> EntriesOf(n) \cup {Free}]
  BY <1>1 DEF TableInv, Rows
<1>3. Cardinality(Full(buckets)) # n
  BY <1>1 DEF TableInv
<1> QED
  BY <1>1, <1>2, <1>3, Capacity

LEMMA LenType ==
  ASSUME TableInv
  PROVE  len \in Nat /\ Cap \in Nat \ {0}
<1>1. PICK n \in Nat \ {0} : n = Cap
  BY DEF TableInv
<1>2. buckets \in [0 .. n - 1 -> EntriesOf(n) \cup {Free}]
  BY <1>1 DEF TableInv, Rows
<1>3. Cardinality(Full(buckets)) \in 0 .. n
  BY <1>2, Capacity
<1> QED
  BY <1>1, <1>3 DEF TableInv

LEMMA RehashInv ==
  ASSUME MapInv, Rehash
  PROVE  MapInv'
<1>1. TableInv /\ CallInv /\ IterInv /\ OldInv
  BY DEF MapInv
<1>2. DOMAIN old \subseteq Nat /\ DOMAIN old # {}
  BY <1>1 DEF OldInv, Rehash
<1>3. PICK i \in DOMAIN old : i = Min(DOMAIN old)
  BY <1>2, Least
<1>4. /\ pc = "rehash" /\ UNCHANGED <<buckets, len, call, iter>>
      /\ old' = Restrict(old, DOMAIN old \ {i})
      /\ \/ StartAt(old[i].key, "place") /\ carry' = [key |-> old[i].key, value |-> old[i].value]
         \/ UNCHANGED <<pc, index, distance, carry>>
  BY <1>3 DEF Rehash
<1>5. DOMAIN old' = DOMAIN old \ {i} /\ \A j \in DOMAIN old' : old'[j] = old[j]
  BY <1>4 DEF Restrict
<1>6. PICK k, v : k = old[i].key /\ v = old[i].value
  OBVIOUS
<1>7. k \in Keys /\ v \in Values
  BY <1>1, <1>6 DEF OldInv
<1>8. PICK m \in Nat : m = Cardinality(DOMAIN old)
  BY <1>1, FS_CardinalityType DEF OldInv
<1>9. /\ IsFiniteSet(DOMAIN old') /\ m >= 1
      /\ Cardinality(DOMAIN old') = m - 1
  <2>1. IsFiniteSet(DOMAIN old)
    BY <1>1 DEF OldInv
  <2>2. /\ IsFiniteSet(DOMAIN old \ {i})
        /\ Cardinality(DOMAIN old \ {i}) = Cardinality(DOMAIN old) - 1
    BY <2>1, FS_RemoveElement
  <2>3. m # 0
    BY <2>1, <1>2, <1>8, FS_EmptySet
  <2> QED
    BY <2>2, <2>3, <1>5, <1>8
<1>10. len \in Nat /\ Cap \in Nat \ {0} /\ 2 * (len + m + 0) <= Cap
  BY <1>1, <1>4, <1>8, LenType DEF OldInv
<1>11. Cap' = Cap
  BY <1>4 DEF Cap
<1>12. /\ \A j \in DOMAIN old' : old'[j].key \in Keys /\ old'[j].value \in Values
       /\ \A a, b \in DOMAIN old' : old'[a].key = old'[b].key => a = b
       /\ \A j \in DOMAIN old' : Apart(buckets', Cap', old'[j].key)
       /\ DOMAIN old' \subseteq Nat
  BY <1>1, <1>4, <1>5, <1>11 DEF OldInv
<1>13. pc' \in {"place", "rehash"}
  BY <1>4 DEF StartAt
<1>14. TableInv'
  BY <1>1, <1>4, <1>13, TableSame
<1>15. CallInv'
  BY <1>1, <1>4, <1>13 DEF CallInv
<1>16. IterInv'
  BY <1>1, <1>4, IterSame
<1>17. CASE UNCHANGED <<pc, index, distance, carry>>
  <2>1. 2 * (len' + Cardinality(DOMAIN old') + 0) <= Cap'
    BY <1>4, <1>8, <1>9, <1>10, <1>11
  <2>2. OldInv'
    BY <2>1, <1>4, <1>9, <1>12, <1>17 DEF OldInv
  <2> QED
    BY <2>2, <1>4, <1>14, <1>15, <1>16, <1>17 DEF MapInv, WalkInv, CarryInv, Carrying
<1>18. CASE StartAt(old[i].key, "place") /\ carry' = [key |-> old[i].key, value |-> old[i].value]
  <2>1. pc' = "place" /\ Walking(k)'
    BY <1>1, <1>4, <1>6, <1>7, <1>18, Homes
  <2>2. carry' = [key |-> k, value |-> v]
    BY <1>6, <1>18
  <2>3. \E f \in 0 .. Cap - 1 : buckets[f] = Free
    <3>1. len # Cap
      BY <1>9, <1>10
    <3> QED
      BY <3>1, <1>1, FreeBucket
  <2>4. WalkInv'
    BY <2>1, <2>2, <2>3, <1>4, <1>7, <1>11 DEF WalkInv, Walking
  <2>5. 2 * (len' + Cardinality(DOMAIN old') + 1) <= Cap'
    BY <1>4, <1>8, <1>9, <1>10, <1>11
  <2>6. OldInv'
    BY <2>1, <2>5, <1>4, <1>9, <1>12 DEF OldInv
  <2>7. \A j \in DOMAIN old' : old'[j].key # k
    BY <1>1, <1>5, <1>6 DEF OldInv
  <2>8. Apart(buckets', Cap', k)
    BY <1>1, <1>4, <1>6, <1>11 DEF OldInv
  <2>9. CarryInv'
    BY <2>1, <2>2, <2>7, <2>8 DEF CarryInv
  <2> QED
    BY <2>4, <2>6, <2>9, <1>14, <1>15, <1>16 DEF MapInv
<1> QED
  BY <1>4, <1>17, <1>18

LEMMA ProbeInv ==
  ASSUME MapInv, Probe
  PROVE  MapInv'
<1>1. TableInv /\ CallInv /\ IterInv /\ OldInv
  BY DEF MapInv
<1>2. /\ Room /\ StartAt(call.key, "probe") /\ carry' = [key |-> call.key, value |-> call.value]
      /\ UNCHANGED <<buckets, len, call, old, iter>>
  BY DEF Probe
<1>3. /\ call.key \in Keys /\ call.value \in Values /\ call.reply = Open /\ call.op = "insert"
      /\ pc \in {"start", "rehash"} /\ DOMAIN old = {}
  BY <1>1, <1>2 DEF Room, CallInv, OldInv
<1>4. pc' = "probe" /\ Walking(call.key)' /\ Cap' = Cap
  BY <1>1, <1>2, <1>3, Homes
<1>5. TableInv'
  BY <1>1, <1>2, <1>3, <1>4, TableSame
<1>6. CallInv'
  BY <1>1, <1>2, <1>3, <1>4 DEF CallInv
<1>7. OldInv'
  BY <1>2, <1>3, <1>4, OldNone
<1>8. IterInv'
  BY <1>1, <1>2, IterSame
<1>9. len # Cap
  <2>1. len \in Nat /\ Cap \in Nat \ {0}
    BY <1>1, LenType
  <2>2. CASE pc = "start"
    BY <2>1, <2>2, <1>2 DEF Room, Loaded
  <2>3. CASE pc = "rehash"
    <3>1. 2 * (len + 0 + 0) <= Cap
      BY <2>3, <1>1, <1>3, FS_EmptySet DEF OldInv
    <3> QED
      BY <2>1, <3>1
  <2> QED
    BY <2>2, <2>3, <1>3
<1>10. \E f \in 0 .. Cap - 1 : buckets[f] = Free
  BY <1>1, <1>9, FreeBucket
<1>11. WalkInv'
  BY <1>2, <1>3, <1>4, <1>10 DEF WalkInv, Walking
<1>12. Yes # Open
  BY DEF Yes, Open
<1>13. CarryInv'
  BY <1>2, <1>3, <1>4, <1>12 DEF CarryInv, Carrying
<1> QED
  BY <1>5, <1>6, <1>7, <1>8, <1>11, <1>13 DEF MapInv

-----------------------------------------------------------------------------
\* What is known at a turn of the inserting loop.
LEMMA AtProbe ==
  ASSUME MapInv, pc \in {"probe", "place"}
  PROVE  \E n \in Nat \ {0} :
           /\ n = Cap /\ Rows(buckets, n) /\ Paths(buckets, n, -1)
           /\ carry.key \in Keys /\ carry.value \in Values
           /\ distance \in 0 .. n - 1 /\ index \in 0 .. n - 1
           /\ index = At(n, HomeOf(n, carry.key), distance)
           /\ Walked(buckets, n, carry.key, distance)
           /\ Here = Free \/ Here.distance < distance => Apart(buckets, n, carry.key)
           /\ Here # Free => Here.distance \in 0 .. n - 1
           /\ \E f \in 0 .. n - 1 : buckets[f] = Free
           /\ call.op = "insert" /\ call.key \in Keys /\ call.value \in Values
           /\ call.reply \in {Open, Yes} /\ iter = NoIter
<1>1. TableInv /\ WalkInv /\ CallInv /\ IterInv
  BY DEF MapInv
<1>2. PICK n \in Nat \ {0} : n = Cap
  BY <1>1 DEF TableInv
<1>3. Rows(buckets, n) /\ Paths(buckets, n, -1)
  BY <1>1, <1>2 DEF TableInv
<1>4. /\ carry.key \in Keys /\ carry.value \in Values
      /\ distance \in 0 .. n
      /\ index = At(n, HomeOf(n, carry.key), distance)
      /\ Walked(buckets, n, carry.key, distance)
      /\ \E f \in 0 .. n - 1 : buckets[f] = Free
  BY <1>1, <1>2 DEF WalkInv, Walking
<1>5. distance \in 0 .. n - 1
  BY <1>4, NeverAround
<1>6. index \in 0 .. n - 1
  BY <1>4, HomeType, Ring
<1>7. Here = Free \/ Here.distance < distance => Apart(buckets, n, carry.key)
  BY <1>3, <1>4, StopsRightly DEF Here
<1>8. Here # Free => Here.distance \in 0 .. n - 1
  BY <1>3, <1>6, RowTypes DEF Here
<1>9. /\ call.op = "insert" /\ call.key \in Keys /\ call.value \in Values
      /\ call.reply \in {Open, Yes}
  BY <1>1 DEF CallInv
<1>10. iter = NoIter
  BY <1>1, <1>9 DEF IterInv
<1> QED
  BY <1>2, <1>3, <1>4, <1>5, <1>6, <1>7, <1>8, <1>9, <1>10

\* The loop ends: the next entry of the old table, or the end of the call.
LEMMA PlacedInv ==
  ASSUME MapInv, pc \in {"probe", "place"}, Placed,
         Cap' = Cap, Rows(buckets', Cap), Paths(buckets', Cap, -1),
         len' = Cardinality(Full(buckets')), len' = len \/ len' = len + 1,
         \A j \in DOMAIN old : Apart(buckets', Cap, old[j].key)
  PROVE  MapInv'
<1>1. TableInv /\ CallInv /\ OldInv
  BY DEF MapInv
<1>2. iter = NoIter /\ call.op = "insert"
  BY AtProbe
<1>3. /\ carry' = NoCarry /\ UNCHANGED <<index, distance, old, iter>>
      /\ pc = "place" => pc' = "rehash" /\ UNCHANGED call
      /\ pc = "probe" => pc' = "return" /\ Settle(Yes)
  BY DEF Placed
<1>4. Cap \in Nat \ {0} /\ len \in Nat
  BY <1>1, LenType
<1>5. TableInv'
  BY <1>3, <1>4 DEF TableInv
<1>6. Yes # Open /\ Yes \in Values \cup {NoValue, Open, Yes, No}
  BY DEF Yes, Open
<1>7. CallInv'
  <2>1. CASE pc = "place"
    BY <2>1, <1>1, <1>3 DEF CallInv
  <2>2. CASE pc = "probe"
    <3>1. call' \in CallSet /\ call'.op = call.op /\ call'.reply = Yes
      BY <2>2, <1>1, <1>3, <1>6, Settles DEF CallInv
    <3> QED
      BY <3>1, <2>2, <1>2, <1>3, <1>6 DEF CallInv
  <2> QED
    BY <2>1, <2>2
<1>8. OldInv'
  <2>1. CASE pc = "probe"
    <3>1. DOMAIN old = {}
      BY <2>1, <1>1 DEF OldInv
    <3> QED
      BY <3>1, <2>1, <1>3, OldNone
  <2>2. CASE pc = "place"
    <3>1. PICK m \in Nat : m = Cardinality(DOMAIN old)
      BY <1>1, FS_CardinalityType DEF OldInv
    <3>2. 2 * (len + m + 1) <= Cap
      BY <2>2, <3>1, <1>1 DEF OldInv
    <3>3. 2 * (len' + m + 0) <= Cap
      BY <3>2, <1>4
    <3> QED
      BY <3>1, <3>3, <2>2, <1>1, <1>3 DEF OldInv
  <2> QED
    BY <2>1, <2>2
<1>9. IterInv'
  BY <1>2, <1>3 DEF IterInv
<1> QED
  BY <1>3, <1>5, <1>7, <1>8, <1>9 DEF MapInv, WalkInv, CarryInv, Carrying

LEMMA PlaceFreeInv ==
  ASSUME MapInv, PlaceFree
  PROVE  MapInv'
<1>1. TableInv /\ OldInv /\ CarryInv
  BY DEF MapInv
<1>2. PICK B2, x : B2 = buckets' /\ x = Entry(carry.key, carry.value, distance)
  OBVIOUS
<1>3. /\ pc \in {"probe", "place"} /\ Here = Free /\ len' = len + 1 /\ Placed
      /\ B2 = Put(buckets, index, x)
  BY <1>2 DEF PlaceFree, Put, Entry
<1>4. PICK n \in Nat \ {0} :
           /\ n = Cap /\ Rows(buckets, n) /\ Paths(buckets, n, -1)
           /\ carry.key \in Keys /\ carry.value \in Values
           /\ distance \in 0 .. n - 1 /\ index \in 0 .. n - 1
           /\ index = At(n, HomeOf(n, carry.key), distance)
           /\ Walked(buckets, n, carry.key, distance)
           /\ Here = Free \/ Here.distance < distance => Apart(buckets, n, carry.key)
  BY <1>3, AtProbe
<1>5. Apart(buckets, n, carry.key) /\ buckets[index] = Free
  BY <1>3, <1>4 DEF Here
<1>6. /\ x # Free /\ B2[index] = x /\ Alike(B2, buckets, n, index)
      /\ Rows(B2, n) /\ Paths(B2, n, -1)
  BY <1>2, <1>3, <1>4, <1>5, Puts
<1>7. /\ buckets \in [0 .. n - 1 -> EntriesOf(n) \cup {Free}]
      /\ B2 \in [0 .. n - 1 -> EntriesOf(n) \cup {Free}]
  BY <1>4, <1>6 DEF Rows
<1>8. Cardinality(Full(B2)) = Cardinality(Full(buckets)) + 1
  <2>1. buckets \in Buckets(n) /\ B2 \in Buckets(n)
    BY <1>7 DEF Buckets
  <2> QED
    BY <2>1, <1>4, <1>5, <1>6, Counting
<1>9. Cap' = n
  BY <1>2, <1>7, Capacity DEF Cap
<1>10. \A j \in DOMAIN old : Apart(B2, n, old[j].key)
  <2>1. SUFFICES ASSUME NEW j \in DOMAIN old, NEW i \in 0 .. n - 1, B2[i] # Free
                 PROVE  B2[i].key # old[j].key
    BY DEF Apart
  <2>2. CASE i = index
    <3>1. pc = "place"
      BY <2>1, <1>1, <1>3 DEF OldInv
    <3>2. old[j].key # carry.key
      BY <3>1, <1>1 DEF CarryInv, Carrying
    <3> QED
      BY <3>2, <2>2, <1>2, <1>6 DEF Entry
  <2>3. CASE i # index
    <3>1. B2[i] = buckets[i]
      BY <2>3, <1>6 DEF Alike
    <3> QED
      BY <3>1, <2>1, <1>1, <1>4 DEF OldInv, Apart
  <2> QED
    BY <2>2, <2>3
<1>11. len' = Cardinality(Full(B2))
  BY <1>1, <1>3, <1>8 DEF TableInv
<1> QED
  BY <1>2, <1>3, <1>4, <1>6, <1>9, <1>10, <1>11, PlacedInv

\* Only the key of the call can be there already.
LEMMA KnownIsCalls ==
  ASSUME MapInv, PlaceKnown
  PROVE  pc = "probe" /\ call.reply = Open /\ carry.key = call.key /\ carry.value = call.value
<1>1. CarryInv
  BY DEF MapInv
<1>2. pc \in {"probe", "place"} /\ Here # Free /\ Here.key = carry.key
  BY DEF PlaceKnown
<1>3. index \in 0 .. Cap - 1 /\ call.reply \in {Open, Yes}
  BY <1>2, AtProbe
<1>4. ~ Carrying
  BY <1>1, <1>2, <1>3 DEF CarryInv, Apart, Here
<1>5. pc = "probe" /\ call.reply = Open
  BY <1>2, <1>3, <1>4 DEF Carrying
<1> QED
  BY <1>1, <1>5 DEF CarryInv

LEMMA KnownTable ==
  ASSUME MapInv, PlaceKnown
  PROVE  \E n, x :
           /\ n \in Nat \ {0}
           /\ n = Cap /\ index \in 0 .. n - 1 /\ Here # Free
           /\ x = Entry(Here.key, carry.value, Here.distance)
           /\ x # Free /\ buckets'[index] = x /\ Alike(buckets', buckets, n, index)
           /\ Rows(buckets, n) /\ Rows(buckets', n) /\ Paths(buckets', n, -1)
<1>1. /\ pc \in {"probe", "place"} /\ Here # Free /\ Here.key = carry.key
      /\ buckets' = [buckets EXCEPT ![index].value = carry.value]
  BY DEF PlaceKnown
<1>2. PICK n \in Nat \ {0} :
           /\ n = Cap /\ Rows(buckets, n) /\ Paths(buckets, n, -1)
           /\ carry.value \in Values /\ index \in 0 .. n - 1
  BY <1>1, AtProbe
<1>3. buckets[index] \in EntriesOf(n) /\ buckets[index] # Free
  BY <1>1, <1>2, RowTypes DEF Here
<1>4. PICK e : e = buckets[index] /\ e \in EntriesOf(n)
  BY <1>3
<1>5. PICK x : x = Entry(buckets[index].key, carry.value, buckets[index].distance)
  OBVIOUS
<1>6. [e EXCEPT !.value = carry.value] = x
  BY <1>4, <1>5 DEF EntriesOf, Entry
<1>7. PICK B2 : B2 = buckets'
  OBVIOUS
<1>8. B2 = Put(buckets, index, x)
  BY <1>1, <1>4, <1>6, <1>7 DEF Put
<1>9. /\ x # Free /\ B2[index] = x /\ Alike(B2, buckets, n, index)
      /\ Rows(B2, n) /\ Paths(B2, n, -1)
  BY <1>2, <1>3, <1>5, <1>8, Updates
<1> QED
  BY <1>2, <1>3, <1>5, <1>7, <1>9 DEF Here

LEMMA PlaceKnownInv ==
  ASSUME MapInv, PlaceKnown
  PROVE  MapInv'
<1>1. TableInv /\ OldInv
  BY DEF MapInv
<1>2. pc \in {"probe", "place"} /\ Here # Free /\ UNCHANGED len /\ Placed
  BY DEF PlaceKnown
<1>3. PICK n, x :
           /\ n \in Nat \ {0}
           /\ n = Cap /\ index \in 0 .. n - 1 /\ Here # Free
           /\ x # Free /\ buckets'[index] = x /\ Alike(buckets', buckets, n, index)
           /\ Rows(buckets, n) /\ Rows(buckets', n) /\ Paths(buckets', n, -1)
  BY KnownTable
<1>4. PICK B2 : B2 = buckets'
  OBVIOUS
<1>5. /\ buckets \in [0 .. n - 1 -> EntriesOf(n) \cup {Free}]
      /\ B2 \in [0 .. n - 1 -> EntriesOf(n) \cup {Free}]
  BY <1>3, <1>4 DEF Rows
<1>6. buckets[index] # Free /\ B2[index] # Free /\ Alike(B2, buckets, n, index)
  BY <1>3, <1>4 DEF Here
<1>7. Cardinality(Full(B2)) = Cardinality(Full(buckets))
  <2>1. buckets \in Buckets(n) /\ B2 \in Buckets(n)
    BY <1>5 DEF Buckets
  <2> QED
    BY <2>1, <1>3, <1>6, Counting
<1>8. Cap' = n
  BY <1>3, <1>4, <1>5, Capacity DEF Cap
<1>9. DOMAIN old = {}
  BY <1>1, KnownIsCalls DEF OldInv
<1>10. len' = Cardinality(Full(B2))
  BY <1>1, <1>2, <1>7 DEF TableInv
<1> QED
  BY <1>2, <1>3, <1>4, <1>8, <1>9, <1>10, PlacedInv

LEMMA FollowingIs ==
  ASSUME TableInv, NEW i \in 0 .. Cap - 1
  PROVE  Following(i) = After(Cap, i)
<1>1. PICK n \in Nat \ {0} : n = Cap
  BY DEF TableInv
<1>2. i + 1 = n \/ i + 1 \in 0 .. n - 1
  BY <1>1
<1> QED
  BY <1>1, <1>2, Mod DEF Following, After

LEMMA StealTable ==
  ASSUME MapInv, Steal
  PROVE  \E n, x :
           /\ n \in Nat \ {0}
           /\ n = Cap /\ index \in 0 .. n - 1 /\ Here # Free
           /\ x = Entry(carry.key, carry.value, distance)
           /\ x # Free /\ buckets'[index] = x /\ Alike(buckets', buckets, n, index)
           /\ Rows(buckets, n) /\ Rows(buckets', n) /\ Paths(buckets', n, -1)
           /\ Here.key \in Keys /\ Here.value \in Values
           /\ Here.distance + 1 \in 0 .. n
           /\ index' = At(n, HomeOf(n, Here.key), Here.distance + 1)
           /\ Walked(buckets', n, Here.key, Here.distance + 1)
           /\ Apart(buckets', n, Here.key) /\ Apart(buckets, n, carry.key)
<1>1. PICK B2, x : B2 = buckets' /\ x = Entry(carry.key, carry.value, distance)
  OBVIOUS
<1>2. /\ pc \in {"probe", "place"} /\ Here # Free /\ Here.key # carry.key /\ distance > Here.distance
      /\ B2 = Put(buckets, index, x) /\ index' = Following(index)
  BY <1>1 DEF Steal, Put, Entry, Onwards
<1>3. PICK n \in Nat \ {0} :
           /\ n = Cap /\ Rows(buckets, n) /\ Paths(buckets, n, -1)
           /\ carry.key \in Keys /\ carry.value \in Values
           /\ distance \in 0 .. n - 1 /\ index \in 0 .. n - 1
           /\ index = At(n, HomeOf(n, carry.key), distance)
           /\ Walked(buckets, n, carry.key, distance)
           /\ Here = Free \/ Here.distance < distance => Apart(buckets, n, carry.key)
           /\ Here # Free => Here.distance \in 0 .. n - 1
  BY <1>2, AtProbe
<1>4. /\ buckets[index] # Free /\ buckets[index].distance < distance /\ buckets[index].key # carry.key
      /\ Apart(buckets, n, carry.key)
  BY <1>2, <1>3 DEF Here
<1>5. /\ x # Free /\ B2[index] = x /\ Alike(B2, buckets, n, index)
      /\ Rows(B2, n) /\ Paths(B2, n, -1)
  BY <1>1, <1>2, <1>3, <1>4, Puts
<1>6. x.key = carry.key /\ x.distance = distance
  BY <1>1 DEF Entry
<1>7. /\ buckets[index].distance + 1 \in 0 .. n
      /\ After(n, index) = At(n, HomeOf(n, buckets[index].key), buckets[index].distance + 1)
      /\ Walked(B2, n, buckets[index].key, buckets[index].distance + 1)
      /\ Apart(B2, n, buckets[index].key)
  BY <1>3, <1>4, <1>5, <1>6, CarriesOn
<1>8. buckets[index].key \in Keys /\ buckets[index].value \in Values
  BY <1>3, <1>4, RowTypes
<1>9. index' = After(n, index)
  BY <1>2, <1>3, FollowingIs DEF MapInv
<1> QED
  BY <1>1, <1>2, <1>3, <1>4, <1>5, <1>7, <1>8, <1>9 DEF Here

LEMMA StealInv ==
  ASSUME MapInv, Steal
  PROVE  MapInv'
<1>1. TableInv /\ OldInv /\ CarryInv /\ WalkInv /\ CallInv
  BY DEF MapInv
<1>2. /\ pc \in {"probe", "place"} /\ UNCHANGED <<len, pc, old, iter>>
      /\ carry' = [key |-> Here.key, value |-> Here.value] /\ distance' = Here.distance + 1
      /\ pc = "probe" => Settle(Yes)
      /\ pc = "place" => UNCHANGED call
  BY DEF Steal, Onwards
<1>3. PICK n, x :
           /\ n \in Nat \ {0}
           /\ n = Cap /\ index \in 0 .. n - 1 /\ Here # Free
           /\ x = Entry(carry.key, carry.value, distance)
           /\ x # Free /\ buckets'[index] = x /\ Alike(buckets', buckets, n, index)
           /\ Rows(buckets, n) /\ Rows(buckets', n) /\ Paths(buckets', n, -1)
           /\ Here.key \in Keys /\ Here.value \in Values
           /\ Here.distance + 1 \in 0 .. n
           /\ index' = At(n, HomeOf(n, Here.key), Here.distance + 1)
           /\ Walked(buckets', n, Here.key, Here.distance + 1)
           /\ Apart(buckets', n, Here.key)
  BY StealTable
<1>4. PICK B2 : B2 = buckets'
  OBVIOUS
<1>5. B2 \in [0 .. n - 1 -> EntriesOf(n) \cup {Free}]
  BY <1>3, <1>4 DEF Rows
<1>6. Cap' = n
  BY <1>3, <1>4, <1>5, Capacity DEF Cap
<1>7. Cardinality(Full(B2)) = Cardinality(Full(buckets))
  <2>1. buckets \in Buckets(n) /\ B2 \in Buckets(n)
    BY <1>3, <1>4 DEF Buckets, Rows
  <2>2. buckets[index] # Free /\ B2[index] # Free /\ Alike(B2, buckets, n, index)
    BY <1>3, <1>4 DEF Here
  <2> QED
    BY <2>1, <2>2, <1>3, Counting
<1>8. TableInv'
  BY <1>1, <1>2, <1>3, <1>4, <1>6, <1>7 DEF TableInv
<1>9. /\ call.op = "insert" /\ call.key \in Keys /\ call.value \in Values
      /\ call.reply \in {Open, Yes} /\ iter = NoIter
  BY <1>2, AtProbe
<1>10. Yes # Open /\ Yes \in Values \cup {NoValue, Open, Yes, No}
  BY DEF Yes, Open
<1>11. CallInv' /\ (pc = "probe" => call'.reply = Yes)
  <2>1. CASE pc = "place"
    BY <2>1, <1>1, <1>2 DEF CallInv
  <2>2. CASE pc = "probe"
    <3>1. call' \in CallSet /\ call'.reply = Yes /\ call'.op = call.op /\ call'.key = call.key /\ call'.value = call.value
      BY <2>2, <1>1, <1>2, <1>10, Settles DEF CallInv
    <3> QED
      BY <3>1, <2>2, <1>2, <1>9, <1>10 DEF CallInv
  <2> QED
    BY <2>1, <2>2, <1>2
<1>12. WalkInv'
  <2>1. carry' \in [key : Keys, value : Values] /\ carry'.key = Here.key
    BY <1>2, <1>3
  <2>2. PICK f \in 0 .. n - 1 : buckets[f] = Free
    BY <1>1, <1>2, <1>3 DEF WalkInv
  <2>3. B2[f] = Free
    BY <2>2, <1>3, <1>4 DEF Alike, Here
  <2>4. Walking(carry.key)'
    BY <2>1, <1>2, <1>3, <1>6 DEF Walking
  <2> QED
    BY <2>1, <2>2, <2>3, <2>4, <1>2, <1>4, <1>6 DEF WalkInv
<1>13. \A j \in DOMAIN old : Apart(B2, n, old[j].key)
  <2>1. SUFFICES ASSUME NEW j \in DOMAIN old, NEW i \in 0 .. n - 1, B2[i] # Free
                 PROVE  B2[i].key # old[j].key
    BY DEF Apart
  <2>2. CASE i = index
    <3>1. pc = "place"
      BY <2>1, <1>1, <1>2 DEF OldInv
    <3>2. old[j].key # carry.key
      BY <3>1, <1>1 DEF CarryInv, Carrying
    <3> QED
      BY <3>2, <2>2, <1>3, <1>4 DEF Entry
  <2>3. CASE i # index
    <3>1. B2[i] = buckets[i]
      BY <2>3, <1>3, <1>4 DEF Alike
    <3> QED
      BY <3>1, <2>1, <1>1, <1>3 DEF OldInv, Apart
  <2> QED
    BY <2>2, <2>3
<1>14. OldInv'
  BY <1>1, <1>2, <1>3, <1>4, <1>6, <1>13 DEF OldInv
<1>15. CarryInv'
  <2>1. \A j \in DOMAIN old : old[j].key # Here.key
    BY <1>1, <1>3 DEF OldInv, Apart, Here
  <2>2. carry'.key = Here.key
    BY <1>2
  <2>3. pc' = "probe" => call'.reply # Open
    BY <1>2, <1>10, <1>11
  <2> QED
    BY <2>1, <2>2, <2>3, <1>2, <1>3, <1>6 DEF CarryInv
<1>16. IterInv'
  BY <1>2, <1>9 DEF IterInv
<1> QED
  BY <1>8, <1>11, <1>12, <1>14, <1>15, <1>16 DEF MapInv

\* The probe of an insertion or a lookup goes on.
LEMMA OnwardsInv ==
  ASSUME MapInv, NEW k \in Keys, pc \in {"probe", "place", "find"},
         k = (IF pc = "find" THEN call.key ELSE carry.key),
         Here # Free, Here.key # k, Here.distance >= distance,
         Onwards(distance), UNCHANGED <<buckets, len, call, pc, carry, old, iter>>
  PROVE  MapInv'
<1>1. TableInv /\ OldInv /\ CarryInv /\ WalkInv /\ CallInv /\ IterInv
  BY DEF MapInv
<1>2. PICK n \in Nat \ {0} : n = Cap
  BY <1>1 DEF TableInv
<1>3. Rows(buckets, n) /\ Cap' = n
  BY <1>1, <1>2 DEF TableInv, Cap
<1>4. Walking(k)
  BY <1>1 DEF WalkInv
<1>5. PICK B, d, i : B = buckets /\ d = distance /\ i = index
  OBVIOUS
<1>6. d \in 0 .. n /\ i = At(n, HomeOf(n, k), d) /\ Walked(B, n, k, d) /\ Rows(B, n)
  BY <1>2, <1>3, <1>4, <1>5 DEF Walking
<1>7. B[i] # Free /\ B[i].key # k /\ B[i].distance >= d
  BY <1>5 DEF Here
<1>8. /\ d + 1 \in 0 .. n /\ Walked(B, n, k, d + 1)
      /\ After(n, i) = At(n, HomeOf(n, k), d + 1)
  BY <1>6, <1>7, GoesOn
<1>9. index \in 0 .. n - 1
  <2>1. HomeOf(n, k) \in 0 .. n - 1
    BY <1>2, HomeType
  <2> QED
    BY <2>1, <1>2, <1>5, <1>6, Ring
<1>10. index' = After(n, i) /\ distance' = d + 1
  BY <1>1, <1>2, <1>5, <1>9, FollowingIs DEF Onwards
<1>11. Walking(k)'
  BY <1>3, <1>5, <1>8, <1>10 DEF Walking
<1>12. TableInv'
  <2>1. pc # "shift" /\ pc' # "shift"
    OBVIOUS
  <2> QED
    BY <2>1, <1>1, TableSame
<1>13. CallInv' /\ CarryInv' /\ OldInv' /\ IterInv'
  <2>1. Cap' = Cap
    BY <1>2, <1>3
  <2> QED
    BY <2>1, <1>1 DEF CallInv, CarryInv, OldInv, IterInv, Carrying
<1>14. WalkInv'
  <2>1. CASE pc = "find"
    BY <2>1, <1>11 DEF WalkInv, Walking
  <2>2. CASE pc # "find"
    BY <2>2, <1>1, <1>2, <1>3, <1>11 DEF WalkInv, Walking
  <2> QED
    BY <2>1, <2>2
<1> QED
  BY <1>12, <1>13, <1>14 DEF MapInv

LEMMA PassInv ==
  ASSUME MapInv, Pass
  PROVE  MapInv'
<1>1. /\ pc \in {"probe", "place"} /\ Here # Free /\ Here.key # carry.key /\ distance <= Here.distance
      /\ Onwards(distance) /\ UNCHANGED <<buckets, len, call, pc, carry, old, iter>>
  BY DEF Pass
<1>2. PICK n \in Nat \ {0} :
        carry.key \in Keys /\ distance \in 0 .. n - 1 /\ (Here # Free => Here.distance \in 0 .. n - 1)
  BY <1>1, AtProbe
<1>3. Here.distance >= distance
  BY <1>1, <1>2
<1> QED
  BY <1>1, <1>2, <1>3, OnwardsInv

-----------------------------------------------------------------------------
\* What is known at a turn of the searching loop.
LEMMA AtFind ==
  ASSUME MapInv, pc = "find"
  PROVE  \E n \in Nat \ {0} :
           /\ n = Cap /\ Rows(buckets, n) /\ Paths(buckets, n, -1)
           /\ call.key \in Keys /\ call.op \in {"get", "has", "remove"} /\ call.reply = Open
           /\ distance \in 0 .. n /\ index \in 0 .. n - 1
           /\ ~ (distance > Cap)
           /\ NotFurther => Apart(buckets, n, call.key)
           /\ ~ NotFurther => Here # Free /\ Here.distance >= distance
           /\ DOMAIN old = {}
<1>1. TableInv /\ WalkInv /\ CallInv /\ OldInv
  BY DEF MapInv
<1>2. PICK n \in Nat \ {0} : n = Cap
  BY <1>1 DEF TableInv
<1>3. Rows(buckets, n) /\ Paths(buckets, n, -1)
  BY <1>1, <1>2 DEF TableInv
<1>4. call.key \in Keys /\ call.op \in {"get", "has", "remove"} /\ call.reply = Open
  BY <1>1 DEF CallInv
<1>5. /\ distance \in 0 .. n
      /\ index = At(n, HomeOf(n, call.key), distance)
      /\ Walked(buckets, n, call.key, distance)
  BY <1>1, <1>2 DEF WalkInv, Walking
<1>6. index \in 0 .. n - 1
  <2>1. HomeOf(n, call.key) \in 0 .. n - 1
    BY <1>4, HomeType
  <2> QED
    BY <2>1, <1>5, Ring
<1>7. NotFurther => Apart(buckets, n, call.key)
  BY <1>3, <1>4, <1>5, StopsRightly DEF Here, NotFurther
<1>8. Here # Free => Here.distance \in 0 .. n - 1
  BY <1>3, <1>6, RowTypes DEF Here
<1>9. ~ NotFurther => Here # Free /\ Here.distance >= distance
  BY <1>5, <1>8 DEF NotFurther
<1>10. ~ (distance > Cap)
  BY <1>2, <1>5
<1>11. DOMAIN old = {}
  BY <1>1 DEF OldInv
<1> QED
  BY <1>2, <1>3, <1>4, <1>5, <1>6, <1>7, <1>9, <1>10, <1>11

LEMMA SeekInv ==
  ASSUME MapInv, Seek
  PROVE  MapInv'
<1>1. /\ pc = "find" /\ ~ NotFurther /\ Here.key # call.key /\ Onwards(distance)
      /\ UNCHANGED <<buckets, len, call, pc, carry, old, iter>>
  BY DEF Seek
<1>2. call.key \in Keys /\ Here # Free /\ Here.distance >= distance
  BY <1>1, AtFind
<1> QED
  BY <1>1, <1>2, OnwardsInv

\* A removal frees the bucket of its key.
LEMMA FoundTable ==
  ASSUME MapInv, Found, call.op = "remove"
  PROVE  \E n \in Nat \ {0} :
           /\ n = Cap /\ Cap' = n /\ index \in 0 .. n - 1 /\ Here # Free /\ Here.key = call.key
           /\ Rows(buckets, n) /\ Rows(buckets', n) /\ Paths(buckets', n, index)
           /\ buckets'[index] = Free /\ Alike(buckets', buckets, n, index)
           /\ len' = Cardinality(Full(buckets'))
<1>1. PICK B2 : B2 = buckets'
  OBVIOUS
<1>2. /\ pc = "find" /\ ~ NotFurther /\ Here.key = call.key
      /\ B2 = Put(buckets, index, Free) /\ len' = len - 1
  BY <1>1 DEF Found, Put
<1>3. PICK n \in Nat \ {0} :
           /\ n = Cap /\ Rows(buckets, n) /\ Paths(buckets, n, -1)
           /\ index \in 0 .. n - 1
           /\ ~ NotFurther => Here # Free /\ Here.distance >= distance
  BY <1>2, AtFind
<1>4. /\ B2[index] = Free /\ Alike(B2, buckets, n, index)
      /\ Rows(B2, n) /\ Paths(B2, n, index)
  BY <1>2, <1>3, Removes
<1>5. Cap' = n
  <2>1. B2 \in [0 .. n - 1 -> EntriesOf(n) \cup {Free}]
    BY <1>4 DEF Rows
  <2> QED
    BY <2>1, <1>1, <1>3, Capacity DEF Cap
<1>6. Cardinality(Full(B2)) = Cardinality(Full(buckets)) - 1
  <2>1. buckets \in Buckets(n) /\ B2 \in Buckets(n)
    BY <1>3, <1>4 DEF Buckets, Rows
  <2>2. buckets[index] # Free
    BY <1>2, <1>3 DEF Here
  <2> QED
    BY <2>1, <2>2, <1>3, <1>4, Counting
<1>7. len' = Cardinality(Full(B2))
  BY <1>2, <1>6 DEF MapInv, TableInv
<1> QED
  BY <1>1, <1>2, <1>3, <1>4, <1>5, <1>7

LEMMA FoundInv ==
  ASSUME MapInv, Found
  PROVE  MapInv'
<1>1. TableInv /\ CallInv /\ OldInv /\ IterInv
  BY DEF MapInv
<1>2. /\ pc = "find" /\ ~ NotFurther
      /\ Settle(IF call.op = "get" THEN Here.value ELSE Yes)
      /\ UNCHANGED <<carry, index, distance, old, iter>>
      /\ call.op = "remove" => pc' = "shift"
      /\ call.op # "remove" => pc' = "return" /\ UNCHANGED <<buckets, len>>
  BY DEF Found
<1>3. PICK n \in Nat \ {0} :
           /\ n = Cap /\ Rows(buckets, n) /\ index \in 0 .. n - 1
           /\ call.key \in Keys /\ call.op \in {"get", "has", "remove"}
           /\ ~ NotFurther => Here # Free
           /\ DOMAIN old = {}
  BY <1>2, AtFind
<1>4. Here.value \in Values
  BY <1>2, <1>3, RowTypes DEF Here
<1>5. Yes # Open /\ Here.value # Open
  BY <1>4, ReplyAssumption DEF Yes, Open
<1>6. CASE call.op # "remove"
  <2>1. PICK r : r = (IF call.op = "get" THEN Here.value ELSE Yes)
    OBVIOUS
  <2>2. r \in Values \cup {NoValue, Open, Yes, No} /\ r # Open
    BY <2>1, <1>4, <1>5
  <2>3. call' \in CallSet /\ call'.op = call.op /\ call'.reply = r
    BY <2>1, <2>2, <1>1, <1>2, Settles DEF CallInv
  <2>4. TableInv'
    BY <1>1, <1>2, <1>6, TableSame
  <2> QED
    BY <2>2, <2>3, <2>4, <1>2, <1>3, <1>6, EndInv
<1>7. CASE call.op = "remove"
  <2>1. PICK m \in Nat \ {0} :
           /\ m = Cap /\ Cap' = m /\ index \in 0 .. m - 1
           /\ Rows(buckets', m) /\ Paths(buckets', m, index)
           /\ buckets'[index] = Free
           /\ len' = Cardinality(Full(buckets'))
    BY <1>7, FoundTable
  <2>2. TableInv'
    BY <2>1, <1>2, <1>7 DEF TableInv
  <2>3. Yes \in Values \cup {NoValue, Open, Yes, No}
    OBVIOUS
  <2>4. call' \in CallSet /\ call'.op = "remove" /\ call'.reply = Yes
    BY <2>3, <1>1, <1>2, <1>7, Settles DEF CallInv
  <2>5. CallInv'
    BY <2>4, <1>2, <1>7 DEF CallInv
  <2>6. WalkInv'
    BY <2>1, <1>2, <1>7 DEF WalkInv
  <2>7. OldInv'
    BY <1>2, <1>3, <1>7, OldNone
  <2>8. IterInv'
    BY <1>1, <1>2, <1>7, IterNone
  <2> QED
    BY <2>2, <2>5, <2>6, <2>7, <2>8, <1>2, <1>7 DEF MapInv, CarryInv, Carrying
<1> QED
  BY <1>6, <1>7

\* The entry that follows moves back into the hole, which is where it was now.
LEMMA ShiftTable ==
  ASSUME MapInv, Shift
  PROVE  \E n, q, x :
           /\ n \in Nat \ {0}
           /\ n = Cap /\ Cap' = n /\ index \in 0 .. n - 1 /\ q \in 0 .. n - 1 /\ q # index
           /\ index' = q /\ buckets[index] = Free /\ buckets[q] # Free
           /\ x = Entry(buckets[q].key, buckets[q].value, buckets[q].distance - 1) /\ x # Free
           /\ buckets'[index] = x /\ buckets'[q] = Free
           /\ \A j \in 0 .. n - 1 : j # index /\ j # q => buckets'[j] = buckets[j]
           /\ Rows(buckets, n) /\ Rows(buckets', n) /\ Paths(buckets', n, q)
           /\ Cardinality(Full(buckets')) = Cardinality(Full(buckets))
<1>1. TableInv /\ WalkInv
  BY DEF MapInv
<1>2. /\ pc = "shift" /\ buckets[Following(index)] # Free /\ buckets[Following(index)].distance > 0
      /\ index' = Following(index)
      /\ buckets' = [buckets EXCEPT ![index] = [buckets[Following(index)] EXCEPT !.distance = @ - 1],
                                    ![Following(index)] = Free]
  BY DEF Shift, ToShift
<1>3. PICK n \in Nat \ {0} : n = Cap
  BY <1>1 DEF TableInv
<1>4. Rows(buckets, n) /\ Paths(buckets, n, index) /\ index \in 0 .. n - 1 /\ buckets[index] = Free
  BY <1>1, <1>2, <1>3 DEF TableInv, WalkInv
<1>5. PICK q : q = After(n, index)
  OBVIOUS
<1>6. q = Following(index) /\ q \in 0 .. n - 1
  BY <1>1, <1>3, <1>4, <1>5, FollowingIs, Ring
<1>7. PICK e : e = buckets[q]
  OBVIOUS
<1>8. e \in EntriesOf(n)
  BY <1>2, <1>4, <1>6, <1>7, RowTypes
<1>9. PICK x : x = Entry(buckets[q].key, buckets[q].value, buckets[q].distance - 1)
  OBVIOUS
<1>10. [e EXCEPT !.distance = @ - 1] = x
  BY <1>7, <1>8, <1>9 DEF EntriesOf, Entry
<1>11. PICK B1, B2 : B1 = Put(buckets, index, x) /\ B2 = buckets'
  OBVIOUS
<1>12. B2 = Put(B1, q, Free)
  BY <1>2, <1>6, <1>7, <1>10, <1>11 DEF Put
<1>13. buckets[q] # Free /\ buckets[q].distance > 0
  BY <1>2, <1>6
<1>14. /\ q \in 0 .. n - 1 /\ q # index /\ x # Free
       /\ B2[index] = x /\ B2[q] = Free /\ B1[index] = x /\ B1[q] = buckets[q]
       /\ Alike(B1, buckets, n, index) /\ Alike(B2, B1, n, q)
       /\ B1 \in Buckets(n)
       /\ Rows(B2, n) /\ Paths(B2, n, q)
  <2>1. PICK B, i, c : B = buckets /\ i = index /\ c = B[q].distance - 1
    OBVIOUS
  <2>2. /\ i \in 0 .. n - 1 /\ Rows(B, n) /\ Paths(B, n, i) /\ B[i] = Free
        /\ q = After(n, i) /\ B[q] # Free
        /\ c \in Nat /\ B[q].distance = c + 1 /\ x = Entry(B[q].key, B[q].value, c)
        /\ B1 = Put(B, i, x) /\ B2 = Put(B1, q, Free)
    <3>1. B[q].distance \in 0 .. n - 1
      BY <2>1, <1>4, <1>6, <1>13, RowTypes
    <3> QED
      BY <3>1, <2>1, <1>4, <1>5, <1>9, <1>11, <1>12, <1>13
  <2>3. /\ q \in 0 .. n - 1 /\ q # i /\ x # Free
        /\ B2[i] = x /\ B2[q] = Free /\ B1[i] = x /\ B1[q] = B[q]
        /\ Alike(B1, B, n, i) /\ Alike(B2, B1, n, q)
        /\ B1 \in Buckets(n)
        /\ Rows(B2, n) /\ Paths(B2, n, q)
    BY <2>2, <1>3, Shifts
  <2> QED
    BY <2>1, <2>3
<1>15. \A j \in 0 .. n - 1 : j # index /\ j # q => B2[j] = buckets[j]
  BY <1>14 DEF Alike
<1>16. buckets \in Buckets(n) /\ B2 \in Buckets(n)
  BY <1>4, <1>14 DEF Buckets, Rows
<1>17. Cap' = n
  BY <1>3, <1>11, <1>16, Capacity DEF Cap, Buckets
<1>18. PICK a, b, c : a = Cardinality(Full(buckets)) /\ b = Cardinality(Full(B1)) /\ c = Cardinality(Full(B2))
  OBVIOUS
<1>19. b = a + 1
  BY <1>3, <1>4, <1>14, <1>16, <1>18, Counting
<1>20. c = b - 1
  BY <1>3, <1>6, <1>13, <1>14, <1>16, <1>18, Counting
<1>21. a \in Nat
  <2>1. n \in Nat
    BY <1>3
  <2>2. a \in 0 .. n
    BY <2>1, <1>16, <1>18, Capacity DEF Buckets
  <2> QED
    BY <2>2
<1>22. c = a
  BY <1>19, <1>20, <1>21
<1> QED
  BY <1>2, <1>3, <1>4, <1>6, <1>9, <1>11, <1>13, <1>14, <1>15, <1>17, <1>18, <1>22

LEMMA ShiftInv ==
  ASSUME MapInv, Shift
  PROVE  MapInv'
<1>1. TableInv /\ CallInv /\ OldInv /\ IterInv
  BY DEF MapInv
<1>2. pc = "shift" /\ UNCHANGED <<len, call, pc, carry, distance, old, iter>>
  BY DEF Shift
<1>3. PICK n, q :
           /\ n \in Nat \ {0}
           /\ Cap' = n /\ q \in 0 .. n - 1 /\ index' = q /\ buckets'[q] = Free
           /\ Rows(buckets', n) /\ Paths(buckets', n, q)
           /\ Cardinality(Full(buckets')) = Cardinality(Full(buckets))
  BY ShiftTable
<1>4. TableInv'
  BY <1>1, <1>2, <1>3 DEF TableInv
<1>5. CallInv'
  BY <1>1, <1>2 DEF CallInv
<1>6. OldInv'
  BY <1>1, <1>2, OldNone DEF OldInv
<1>7. WalkInv'
  BY <1>2, <1>3 DEF WalkInv
<1>8. call.op = "remove"
  BY <1>1, <1>2 DEF CallInv
<1>9. IterInv'
  BY <1>1, <1>2, <1>8, IterNone
<1> QED
  BY <1>2, <1>4, <1>5, <1>6, <1>7, <1>9 DEF MapInv, CarryInv, Carrying

LEMMA ShiftDoneInv ==
  ASSUME MapInv, ShiftDone
  PROVE  MapInv'
<1>1. TableInv /\ WalkInv /\ CallInv /\ OldInv
  BY DEF MapInv
<1>2. /\ pc = "shift" /\ pc' = "return" /\ UNCHANGED <<buckets, len, call, carry, index, distance, old, iter>>
      /\ buckets[Following(index)] = Free \/ ~ (buckets[Following(index)].distance > 0)
  BY DEF ShiftDone, ToShift
<1>3. PICK n \in Nat \ {0} : n = Cap
  BY <1>1 DEF TableInv
<1>4. Rows(buckets, n) /\ Paths(buckets, n, index) /\ index \in 0 .. n - 1
  BY <1>1, <1>2, <1>3 DEF TableInv, WalkInv
<1>5. PICK q : q = After(n, index)
  OBVIOUS
<1>6. buckets[q] = Free \/ ~ (buckets[q].distance > 0)
  BY <1>1, <1>2, <1>3, <1>4, <1>5, FollowingIs
<1>7. Paths(buckets, n, -1)
  BY <1>3, <1>4, <1>5, <1>6, ShiftEnds
<1>8. Cap' = n
  BY <1>2, <1>3 DEF Cap
<1>9. TableInv'
  BY <1>1, <1>2, <1>3, <1>4, <1>7, <1>8 DEF TableInv
<1>10. call \in CallSet /\ call.reply = Yes /\ DOMAIN old = {}
  BY <1>1, <1>2 DEF CallInv, OldInv
<1>11. Yes # Open
  BY DEF Yes, Open
<1> QED
  BY <1>2, <1>9, <1>10, <1>11, EndInv

-----------------------------------------------------------------------------
(***************************************************************************)
(* Iterations.                                                             *)
(***************************************************************************)
LEMMA NextOccupied ==
  ASSUME TableInv, NEW i \in Nat, NEW a, a = OccupiedFrom(i)
  PROVE  /\ a \in Full(buckets) \cup {Cap}
         /\ a \in Full(buckets) => a >= i
         /\ \A j \in Full(buckets) : j >= i => a <= j
<1>1. PICK n \in Nat \ {0} : n = Cap
  BY DEF TableInv
<1>2. Full(buckets) \subseteq 0 .. n - 1
  BY <1>1 DEF TableInv, Rows, Full
<1>3. PICK S : S = {j \in Full(buckets) : j >= i} \cup {n}
  OBVIOUS
<1>4. a = Min(S)
  BY <1>1, <1>3 DEF OccupiedFrom, Occupied, Full
<1>5. S \in SUBSET Nat /\ S # {}
  BY <1>1, <1>2, <1>3
<1>6. a \in S /\ \A y \in S : a <= y
  BY <1>4, <1>5, Least
<1> QED
  BY <1>1, <1>2, <1>3, <1>6

LEMMA IterNewInv ==
  ASSUME MapInv, IterNew
  PROVE  MapInv'
<1>1. TableInv /\ CallInv /\ OldInv /\ CarryInv /\ WalkInv
  BY DEF MapInv
<1>2. /\ call = Idle /\ iter' = [at |-> OccupiedFrom(0), seen |-> <<>>]
      /\ UNCHANGED <<buckets, len, call, pc, carry, index, distance, old>>
  BY DEF IterNew
<1>3. PICK a : a = OccupiedFrom(0)
  OBVIOUS
<1>4. /\ a \in Full(buckets) \cup {Cap}
      /\ \A j \in Full(buckets) : j >= 0 => a <= j
  BY <1>1, <1>3, NextOccupied
<1>5. PICK n \in Nat \ {0} : n = Cap
  BY <1>1 DEF TableInv
<1>6. Full(buckets) \subseteq 0 .. n - 1
  BY <1>1, <1>5 DEF TableInv, Rows, Full
<1>7. {j \in Full(buckets) : j < a} = {}
  BY <1>4, <1>5, <1>6
<1>8. Before(buckets, a) = {}
  BY <1>7 DEF Before
<1>9. iter'.at = a /\ iter'.seen = <<>>
  BY <1>2, <1>3
<1>10. Cap' = Cap
  BY <1>2 DEF Cap
<1>11. call'.op = "none"
  BY <1>2 DEF Idle
<1>12. iter'.seen \in Seq(Keys) /\ IsInjective(iter'.seen) /\ ToSet(iter'.seen) = {}
  BY <1>9 DEF IsInjective, ToSet
<1>13. IterInv'
  BY <1>2, <1>4, <1>8, <1>9, <1>10, <1>11, <1>12 DEF IterInv
<1>14. TableInv' /\ CallInv' /\ OldInv' /\ CarryInv' /\ WalkInv'
  BY <1>1, <1>2, <1>10 DEF TableInv, CallInv, OldInv, CarryInv, WalkInv, Carrying, Walking
<1> QED
  BY <1>13, <1>14 DEF MapInv

LEMMA Appended ==
  ASSUME NEW S, NEW s \in Seq(S), IsInjective(s), NEW k \in S, k \notin ToSet(s)
  PROVE  /\ Append(s, k) \in Seq(S) /\ IsInjective(Append(s, k))
         /\ ToSet(Append(s, k)) = ToSet(s) \cup {k}
<1>1. PICK t : t = Append(s, k)
  OBVIOUS
<1>2. /\ t \in Seq(S) /\ Len(t) = Len(s) + 1 /\ Len(s) \in Nat
      /\ DOMAIN t = 1 .. Len(s) + 1 /\ DOMAIN s = 1 .. Len(s)
      /\ t[Len(s) + 1] = k /\ \A i \in 1 .. Len(s) : t[i] = s[i]
  BY <1>1
<1>3. ToSet(t) = ToSet(s) \cup {k}
  <2>1. \A i \in 1 .. Len(s) + 1 : i = Len(s) + 1 \/ i \in 1 .. Len(s)
    BY <1>2
  <2>2. \A i \in 1 .. Len(s) : i \in 1 .. Len(s) + 1
    BY <1>2
  <2>3. Len(s) + 1 \in 1 .. Len(s) + 1
    BY <1>2
  <2> QED
    BY <1>2, <2>1, <2>2, <2>3 DEF ToSet
<1>4. ASSUME NEW a \in DOMAIN t, NEW b \in DOMAIN t, t[a] = t[b] PROVE a = b
  <2>1. \A i \in 1 .. Len(s) : s[i] # k
    BY <1>2 DEF ToSet
  <2>2. \A i, j \in 1 .. Len(s) : s[i] = s[j] => i = j
    BY <1>2 DEF IsInjective
  <2>3. /\ a = Len(s) + 1 \/ a \in 1 .. Len(s)
        /\ b = Len(s) + 1 \/ b \in 1 .. Len(s)
    BY <1>2
  <2> QED
    BY <1>2, <1>4, <2>1, <2>2, <2>3
<1>5. IsInjective(t)
  BY <1>4 DEF IsInjective
<1> QED
  BY <1>1, <1>2, <1>3, <1>5

LEMMA IterNextInv ==
  ASSUME MapInv, IterNext
  PROVE  MapInv'
<1>1. TableInv /\ CallInv /\ OldInv /\ CarryInv /\ WalkInv /\ IterInv
  BY DEF MapInv
<1>2. PICK b, n : b = iter.at /\ n = Cap
  OBVIOUS
<1>3. /\ call = Idle /\ b \in Full(buckets)
      /\ iter' = [at |-> OccupiedFrom(b + 1), seen |-> Append(iter.seen, buckets[b].key)]
      /\ UNCHANGED <<buckets, len, call, pc, carry, index, distance, old>>
  BY <1>2 DEF IterNext, Occupied, Full
<1>4. n \in Nat \ {0} /\ Rows(buckets, n) /\ Full(buckets) \subseteq 0 .. n - 1
  BY <1>1, <1>2 DEF TableInv, Rows, Full
<1>5. b \in 0 .. n - 1 /\ buckets[b] # Free
  BY <1>3, <1>4 DEF Full
<1>6. iter # NoIter
  BY <1>2, <1>5 DEF NoIter
<1>7. /\ iter.seen \in Seq(Keys) /\ IsInjective(iter.seen)
      /\ ToSet(iter.seen) = Before(buckets, b)
  BY <1>1, <1>2, <1>6 DEF IterInv
<1>8. PICK a : a = OccupiedFrom(b + 1)
  OBVIOUS
<1>9. /\ a \in Full(buckets) \cup {n}
      /\ a \in Full(buckets) => a >= b + 1
      /\ \A j \in Full(buckets) : j >= b + 1 => a <= j
  <2>1. b + 1 \in Nat
    BY <1>5
  <2> QED
    BY <2>1, <1>1, <1>2, <1>8, NextOccupied
<1>10. {j \in Full(buckets) : j < a} = {j \in Full(buckets) : j < b} \cup {b}
  <2>1. a \in Nat /\ a > b
    BY <1>4, <1>5, <1>9
  <2>2. ASSUME NEW j \in Full(buckets) PROVE j < a <=> j < b \/ j = b
    BY <2>1, <1>4, <1>5, <1>9
  <2> QED
    BY <2>2, <1>3
<1>11. PICK k : k = buckets[b].key
  OBVIOUS
<1>12. k \in Keys
  BY <1>4, <1>5, <1>11, RowTypes
<1>13. k \notin ToSet(iter.seen)
  <2>1. ASSUME NEW i \in Full(buckets), i < b, buckets[i].key = k PROVE FALSE
    <3>1. i \in 0 .. n - 1 /\ buckets[i] # Free
      BY <1>4 DEF Full
    <3>2. i = b
      BY <3>1, <2>1, <1>4, <1>5, <1>11 DEF Rows
    <3> QED
      BY <3>1, <3>2, <2>1
  <2> QED
    BY <2>1, <1>7 DEF Before
<1>14. /\ iter'.seen \in Seq(Keys) /\ IsInjective(iter'.seen)
       /\ ToSet(iter'.seen) = ToSet(iter.seen) \cup {k}
  <2>1. iter'.seen = Append(iter.seen, k)
    BY <1>3, <1>11
  <2> QED
    BY <2>1, <1>7, <1>12, <1>13, Appended
<1>15. iter'.at = a
  BY <1>3, <1>8
<1>16. Cap' = Cap
  BY <1>3 DEF Cap
<1>17. Before(buckets, a) = Before(buckets, b) \cup {k}
  BY <1>10, <1>11 DEF Before
<1>18. call'.op = "none"
  BY <1>3 DEF Idle
<1>19. IterInv'
  BY <1>2, <1>3, <1>7, <1>9, <1>14, <1>15, <1>16, <1>17, <1>18 DEF IterInv
<1>20. TableInv' /\ CallInv' /\ OldInv' /\ CarryInv' /\ WalkInv'
  BY <1>1, <1>3, <1>16 DEF TableInv, CallInv, OldInv, CarryInv, WalkInv, Carrying, Walking
<1> QED
  BY <1>19, <1>20 DEF MapInv

-----------------------------------------------------------------------------
LEMMA StutterInv ==
  ASSUME MapInv, UNCHANGED vars
  PROVE  MapInv'
<1>1. UNCHANGED <<buckets, len, call, pc, carry, index, distance, old, iter>>
  BY DEF vars
<1>2. Cap' = Cap
  BY <1>1 DEF Cap
<1> QED
  BY <1>1, <1>2 DEF MapInv, TableInv, CallInv, OldInv, CarryInv, WalkInv, IterInv, Carrying, Walking

LEMMA NextInv == MapInv /\ [Next]_vars => MapInv'
<1> SUFFICES ASSUME MapInv, [Next]_vars PROVE MapInv'
  OBVIOUS
<1>1. CASE \E c \in Inserts : BeginInsert(c)
  BY <1>1, BeginInsertInv
<1>2. CASE \E c \in Lookups : BeginLookup(c)
  BY <1>2, BeginLookupInv
<1>3. CASE Step
  BY <1>3, ResizeInv, FailInv, RehashInv, ProbeInv, PlaceFreeInv, PlaceKnownInv, StealInv, PassInv,
     AbsentInv, SeekInv, FoundInv, ShiftInv, ShiftDoneInv, ReturnInv DEF Step
<1>4. CASE Clear
  BY <1>4, ClearInv
<1>5. CASE IterNew
  BY <1>5, IterNewInv
<1>6. CASE IterNext
  BY <1>6, IterNextInv
<1>7. CASE UNCHANGED vars
  BY <1>7, StutterInv
<1> QED
  BY <1>1, <1>2, <1>3, <1>4, <1>5, <1>6, <1>7 DEF Next

LEMMA Inductive == Spec => []MapInv
<1> QED
  BY InitInv, NextInv, PTL DEF Spec

-----------------------------------------------------------------------------
\* Between calls.
LEMMA AtRest ==
  ASSUME MapInv, call.op \in {"none", "get", "has"}
  PROVE  DOMAIN old = {} /\ ~ Carrying /\ (call.op = "none" => pc = "idle")
<1>1. CallInv /\ OldInv
  BY DEF MapInv
<1>2. pc \notin {"start", "rehash", "place", "probe"}
  BY <1>1 DEF CallInv
<1> QED
  BY <1>1, <1>2 DEF CallInv, OldInv, Carrying

LEMMA Back ==
  ASSUME NEW n \in Nat \ {0}, NEW h \in 0 .. n - 1, NEW d \in 0 .. n - 1, NEW i, i = At(n, h, d)
  PROVE  h = (i - d) % n
<1>1. CASE h + d < n
  <2>1. i - d = h
    BY <1>1 DEF At
  <2> QED
    BY <2>1, Mod
<1>2. CASE ~ (h + d < n)
  <2>1. i - d = h - n /\ h - n \in -n .. -1 /\ (h - n) + n = h
    BY <1>2 DEF At
  <2> QED
    BY <2>1, Mod
<1> QED
  BY <1>1, <1>2

LEMMA OrderHolds == MapInv => ProbeOrder
<1> SUFFICES ASSUME MapInv, call = Idle PROVE ProbeOrder
  BY DEF ProbeOrder
<1>1. TableInv
  BY DEF MapInv
<1>2. pc = "idle"
  BY AtRest DEF Idle
<1>3. PICK n \in Nat \ {0} : n = Cap
  BY <1>1 DEF TableInv
<1>4. Rows(buckets, n) /\ Paths(buckets, n, -1)
  BY <1>1, <1>2, <1>3 DEF TableInv
<1>5. Occupied = Full(buckets) /\ \A i \in Occupied : i \in 0 .. n - 1 /\ buckets[i] # Free
  BY <1>4 DEF Occupied, Full, Rows
<1>6. ASSUME NEW i \in Occupied
      PROVE  /\ Home(buckets[i].key) = (i - buckets[i].distance) % Cap
             /\ buckets[i].distance > 0 =>
                  \E j \in Occupied : Following(j) = i /\ buckets[j].distance >= buckets[i].distance - 1
  <2>1. PICK k, d, h : k = buckets[i].key /\ d = buckets[i].distance /\ h = HomeOf(n, k)
    OBVIOUS
  <2>2. i \in 0 .. n - 1 /\ k \in Keys /\ d \in 0 .. n - 1 /\ h \in 0 .. n - 1 /\ i = At(n, h, d)
    BY <2>1, <1>3, <1>4, <1>5, RowTypes
  <2>3. h = (i - d) % n
    BY <1>3, <2>2, Back
  <2>4. Home(k) = h
    BY <2>1, <1>3 DEF Home, HomeOf
  <2>5. ASSUME d > 0
        PROVE  \E j \in Occupied : Following(j) = i /\ buckets[j].distance >= d - 1
    <3>1. PICK e \in 0 .. n - 1 : e = d - 1 /\ e + 1 = d
      BY <2>2, <2>5
    <3>2. PICK j : j = At(n, h, e)
      OBVIOUS
    <3>3. e \in 0 .. n /\ e \in 0 .. buckets[i].distance - 1
      BY <3>1, <2>1, <2>2
    <3>4. j \in 0 .. n - 1 /\ i = After(n, j)
      BY <3>1, <3>2, <3>3, <2>2, <1>3, Ring
    <3>5. j = -1 \/ (buckets[j] # Free /\ buckets[j].distance >= e)
      BY <3>2, <3>3, <2>1, <2>2, <1>4, <1>5 DEF Paths
    <3>6. buckets[j] # Free /\ buckets[j].distance >= e
      BY <3>4, <3>5
    <3>7. j \in Occupied
      BY <3>4, <3>6, <1>4 DEF Occupied, Rows
    <3>8. Following(j) = i
      BY <3>4, <1>1, <1>3, FollowingIs
    <3> QED
      BY <3>1, <3>6, <3>7, <3>8
  <2> QED
    BY <2>1, <2>3, <2>4, <2>5, <1>3
<1>7. \A i, j \in Occupied : buckets[i].key = buckets[j].key => i = j
  BY <1>4, <1>5 DEF Rows
<1>8. len = Cardinality(Occupied)
  BY <1>1, <1>5 DEF TableInv
<1> QED
  BY <1>6, <1>7, <1>8 DEF ProbeOrder

(***************************************************************************)
(* wyn_hashmap_insert and wyn_hashmap_remove keep the order that lookups   *)
(* rely on: distances tell the truth and grow along the ring by one at the *)
(* most, no key is there twice, len is right.                              *)
(***************************************************************************)
THEOREM OrderCorrect == Spec => []ProbeOrder
<1> QED
  BY Inductive, OrderHolds, PTL

LEMMA IterationHolds == MapInv => IterationComplete
<1> SUFFICES ASSUME MapInv, iter.at = Cap PROVE IsInjective(iter.seen) /\ ToSet(iter.seen) = DOMAIN Contents
  BY DEF IterationComplete
<1>1. TableInv /\ IterInv
  BY DEF MapInv
<1>2. PICK n \in Nat \ {0} : n = Cap
  BY <1>1 DEF TableInv
<1>3. iter # NoIter
  BY <1>2 DEF NoIter
<1>4. /\ call.op \in {"none", "get", "has"} /\ IsInjective(iter.seen)
      /\ ToSet(iter.seen) = Before(buckets, n)
  BY <1>1, <1>2, <1>3 DEF IterInv
<1>5. Full(buckets) \subseteq 0 .. n - 1
  BY <1>1, <1>2 DEF TableInv, Rows, Full
<1>6. {j \in Full(buckets) : j < n} = Full(buckets)
  BY <1>2, <1>5
<1>7. Before(buckets, n) = {buckets[i].key : i \in Full(buckets)}
  BY <1>6 DEF Before
<1>8. Entries = {buckets[i] : i \in Full(buckets)}
  BY <1>4, AtRest DEF Entries, Carrying, Occupied, Full, ToSet
<1>9. DOMAIN Contents = {e.key : e \in Entries}
  BY DEF Contents
<1>10. {e.key : e \in Entries} = {buckets[i].key : i \in Full(buckets)}
  BY <1>8
<1> QED
  BY <1>4, <1>7, <1>9, <1>10

(***************************************************************************)
(* wyn_hashmap_iter_next gives every key of the map once, with lookups in  *)
(* between.                                                                *)
(***************************************************************************)
THEOREM IterationCorrect == Spec => []IterationComplete
<1> QED
  BY Inductive, IterationHolds, PTL

\* The inserting loop, which has no bound of its own, is never further than once around.
WithinTable == pc \in {"probe", "place"} => distance < Cap /\ \E f \in DOMAIN buckets : buckets[f] = Free

LEMMA WithinHolds == MapInv => WithinTable
<1> SUFFICES ASSUME MapInv, pc \in {"probe", "place"}
             PROVE  distance < Cap /\ \E f \in DOMAIN buckets : buckets[f] = Free
  BY DEF WithinTable
<1>1. PICK n \in Nat \ {0} :
           /\ n = Cap /\ Rows(buckets, n) /\ distance \in 0 .. n - 1
           /\ \E f \in 0 .. n - 1 : buckets[f] = Free
  BY AtProbe
<1> QED
  BY <1>1 DEF Rows

(***************************************************************************)
(* The loop of wyn_hashmap_insert ends only at a free bucket or at its     *)
(* key: there is always a free bucket, and the probe has not been around.  *)
(***************************************************************************)
THEOREM ProbesEnd == Spec => []WithinTable
<1> QED
  BY Inductive, WithinHolds, PTL

-----------------------------------------------------------------------------
(***************************************************************************)
(* What the map holds, as pairs of a key and a value: in the table, still  *)
(* in the old one, or carried.                                             *)
(***************************************************************************)
PairsOf(B) == {<<B[i].key, B[i].value>> : i \in Full(B)}
OldPairs == {<<old[i].key, old[i].value>> : i \in DOMAIN old}
CarryPair == IF Carrying THEN {<<carry.key, carry.value>>} ELSE {}
Pairs == PairsOf(buckets) \cup OldPairs \cup CarryPair

Without(P, k) == {p \in P : p[1] # k}
Single(P) == \A k, v, w : <<k, v>> \in P /\ <<k, w>> \in P => v = w
PairSet(P) == \A p \in P : p = <<p[1], p[2]>>
ValueIn(P, k) == CHOOSE v : <<k, v>> \in P
Dict(P) == [k \in {p[1] : p \in P} |-> ValueIn(P, k)]
With(P, k, v) == Without(P, k) \cup {<<k, v>>}
Extended(D, k, v) == [x \in DOMAIN D \cup {k} |-> IF x = k THEN v ELSE D[x]]
Reduced(D, k) == [x \in DOMAIN D \ {k} |-> D[x]]

LEMMA DictAt ==
  ASSUME NEW P, Single(P), PairSet(P)
  PROVE  /\ \A k, v : <<k, v>> \in P => k \in DOMAIN Dict(P) /\ Dict(P)[k] = v
         /\ \A k \in DOMAIN Dict(P) : <<k, Dict(P)[k]>> \in P
         /\ DOMAIN Dict(P) = {p[1] : p \in P}
<1>1. DOMAIN Dict(P) = {p[1] : p \in P} /\ \A k \in DOMAIN Dict(P) : Dict(P)[k] = ValueIn(P, k)
  BY DEF Dict
<1>2. ASSUME NEW k, NEW v, <<k, v>> \in P PROVE k \in DOMAIN Dict(P) /\ Dict(P)[k] = v
  <2>1. PICK p \in P : p = <<k, v>>
    BY <1>2
  <2>2. p[1] = k
    BY <2>1
  <2>3. k \in DOMAIN Dict(P)
    BY <2>1, <2>2, <1>1
  <2>4. <<k, ValueIn(P, k)>> \in P
    BY <1>2 DEF ValueIn
  <2>5. <<k, Dict(P)[k]>> \in P
    BY <2>3, <2>4, <1>1
  <2> QED
    BY <2>3, <2>5, <1>2 DEF Single
<1>3. ASSUME NEW k \in DOMAIN Dict(P) PROVE <<k, Dict(P)[k]>> \in P
  <2>1. PICK p \in P : p[1] = k
    BY <1>1, <1>3
  <2>2. PICK w : p = <<k, w>>
    BY <2>1 DEF PairSet
  <2>3. Dict(P)[k] = w
    BY <2>1, <2>2, <1>2
  <2> QED
    BY <2>1, <2>2, <2>3
<1> QED
  BY <1>1, <1>2, <1>3

\* A pair is put in, in place of one of that key; a key is dropped.
LEMMA DictPut ==
  ASSUME NEW P, Single(P), PairSet(P), NEW k, NEW v,
         NEW P2, P2 = With(P, k, v)
  PROVE  Dict(P2) = Extended(Dict(P), k, v)
<1>1. ASSUME NEW x, NEW w PROVE <<x, w>> \in P2 <=> (x = k /\ w = v) \/ (x # k /\ <<x, w>> \in P)
  BY DEF With, Without
<1>2. Single(P2)
  BY <1>1 DEF Single
<1>3. PairSet(P2)
  BY DEF PairSet, With, Without
<1>4. ASSUME NEW x PROVE x \in DOMAIN Dict(P2) <=> x \in DOMAIN Dict(P) \cup {k}
  <2>1. ASSUME x \in DOMAIN Dict(P2) PROVE x \in DOMAIN Dict(P) \cup {k}
    <3>1. <<x, Dict(P2)[x]>> \in P2
      BY <2>1, <1>2, <1>3, DictAt
    <3>2. x = k \/ <<x, Dict(P2)[x]>> \in P
      BY <3>1, <1>1
    <3> QED
      BY <3>2, DictAt
  <2>2. ASSUME x \in DOMAIN Dict(P), x # k PROVE x \in DOMAIN Dict(P2)
    <3>1. <<x, Dict(P)[x]>> \in P
      BY <2>2, DictAt
    <3>2. <<x, Dict(P)[x]>> \in P2
      BY <3>1, <2>2, <1>1
    <3> QED
      BY <3>2, <1>2, <1>3, DictAt
  <2>3. ASSUME x = k PROVE x \in DOMAIN Dict(P2)
    <3>1. <<k, v>> \in P2
      BY <1>1
    <3> QED
      BY <3>1, <2>3, <1>2, <1>3, DictAt
  <2> QED
    BY <2>1, <2>2, <2>3
<1>5. ASSUME NEW x \in DOMAIN Dict(P2) PROVE Dict(P2)[x] = IF x = k THEN v ELSE Dict(P)[x]
  <2>1. <<x, Dict(P2)[x]>> \in P2
    BY <1>2, <1>3, DictAt
  <2>2. CASE x = k
    BY <2>1, <2>2, <1>1
  <2>3. CASE x # k
    <3>1. <<x, Dict(P2)[x]>> \in P
      BY <2>1, <2>3, <1>1
    <3> QED
      BY <3>1, <2>3, DictAt
  <2> QED
    BY <2>2, <2>3
<1>6. DOMAIN Dict(P2) = DOMAIN Dict(P) \cup {k}
  BY <1>4
<1>7. Dict(P2) = [x \in DOMAIN Dict(P2) |-> Dict(P2)[x]]
  BY DEF Dict
<1> QED
  BY <1>5, <1>6, <1>7 DEF Extended

LEMMA DictDrop ==
  ASSUME NEW P, Single(P), PairSet(P), NEW k, NEW P2, P2 = Without(P, k)
  PROVE  Dict(P2) = Reduced(Dict(P), k)
<1>1. ASSUME NEW x, NEW w PROVE <<x, w>> \in P2 <=> x # k /\ <<x, w>> \in P
  BY DEF Without
<1>2. Single(P2)
  BY <1>1 DEF Single
<1>3. PairSet(P2)
  BY DEF PairSet, Without
<1>4. ASSUME NEW x PROVE x \in DOMAIN Dict(P2) <=> x \in DOMAIN Dict(P) \ {k}
  <2>1. ASSUME x \in DOMAIN Dict(P2) PROVE x \in DOMAIN Dict(P) \ {k}
    <3>1. <<x, Dict(P2)[x]>> \in P2
      BY <2>1, <1>2, <1>3, DictAt
    <3>2. x # k /\ <<x, Dict(P2)[x]>> \in P
      BY <3>1, <1>1
    <3> QED
      BY <3>2, DictAt
  <2>2. ASSUME x \in DOMAIN Dict(P), x # k PROVE x \in DOMAIN Dict(P2)
    <3>1. <<x, Dict(P)[x]>> \in P
      BY <2>2, DictAt
    <3>2. <<x, Dict(P)[x]>> \in P2
      BY <3>1, <2>2, <1>1
    <3> QED
      BY <3>2, <1>2, <1>3, DictAt
  <2> QED
    BY <2>1, <2>2
<1>5. ASSUME NEW x \in DOMAIN Dict(P2) PROVE Dict(P2)[x] = Dict(P)[x]
  <2>1. <<x, Dict(P2)[x]>> \in P2
    BY <1>2, <1>3, DictAt
  <2>2. <<x, Dict(P2)[x]>> \in P
    BY <2>1, <1>1
  <2> QED
    BY <2>2, DictAt
<1>6. DOMAIN Dict(P2) = DOMAIN Dict(P) \ {k}
  BY <1>4
<1>7. Dict(P2) = [x \in DOMAIN Dict(P2) |-> Dict(P2)[x]]
  BY DEF Dict
<1> QED
  BY <1>5, <1>6, <1>7 DEF Reduced

\* The pairs of a table of which one bucket changes.
LEMMA PairsFill ==
  ASSUME NEW n \in Nat \ {0}, NEW B \in Buckets(n), NEW B2 \in Buckets(n), NEW i \in 0 .. n - 1,
         Alike(B2, B, n, i), B[i] = Free, B2[i] # Free
  PROVE  PairsOf(B2) = PairsOf(B) \cup {<<B2[i].key, B2[i].value>>}
<1>1. DOMAIN B = 0 .. n - 1 /\ DOMAIN B2 = 0 .. n - 1
  BY DEF Buckets
<1>2. Full(B2) = Full(B) \cup {i} /\ i \notin Full(B)
  BY <1>1 DEF Full, Alike
<1>3. \A j \in Full(B) : B2[j] = B[j]
  BY <1>1, <1>2 DEF Full, Alike
<1> QED
  BY <1>2, <1>3 DEF PairsOf

LEMMA PairsFree ==
  ASSUME NEW n \in Nat \ {0}, NEW B, Rows(B, n), NEW B2, Rows(B2, n), NEW i \in 0 .. n - 1,
         Alike(B2, B, n, i), B[i] # Free, B2[i] = Free
  PROVE  PairsOf(B2) = Without(PairsOf(B), B[i].key)
<1>1. DOMAIN B = 0 .. n - 1 /\ DOMAIN B2 = 0 .. n - 1
  BY DEF Rows
<1>2. Full(B2) = Full(B) \ {i} /\ i \in Full(B)
  BY <1>1 DEF Full, Alike
<1>3. \A j \in Full(B2) : B2[j] = B[j]
  BY <1>1, <1>2 DEF Full, Alike
<1>4. \A j \in Full(B) : j # i <=> B[j].key # B[i].key
  BY <1>1 DEF Rows, Full
<1> QED
  BY <1>2, <1>3, <1>4 DEF PairsOf, Without

LEMMA PairsRefill ==
  ASSUME NEW n \in Nat \ {0}, NEW B, Rows(B, n), NEW B2, Rows(B2, n), NEW i \in 0 .. n - 1,
         Alike(B2, B, n, i), B[i] # Free, B2[i] # Free
  PROVE  PairsOf(B2) = Without(PairsOf(B), B[i].key) \cup {<<B2[i].key, B2[i].value>>}
<1>1. DOMAIN B = 0 .. n - 1 /\ DOMAIN B2 = 0 .. n - 1
  BY DEF Rows
<1>2. Full(B2) = Full(B) /\ i \in Full(B)
  BY <1>1 DEF Full, Alike
<1>3. \A j \in Full(B2) : j # i => B2[j] = B[j]
  BY <1>1, <1>2 DEF Full, Alike
<1>4. \A j \in Full(B) : j # i <=> B[j].key # B[i].key
  BY <1>1 DEF Rows, Full
<1>5. ASSUME NEW p \in PairsOf(B2)
      PROVE  p \in Without(PairsOf(B), B[i].key) \cup {<<B2[i].key, B2[i].value>>}
  <2>1. PICK j \in Full(B2) : p = <<B2[j].key, B2[j].value>>
    BY DEF PairsOf
  <2>2. CASE j = i
    BY <2>1, <2>2
  <2>3. CASE j # i
    <3>1. p = <<B[j].key, B[j].value>> /\ p[1] # B[i].key /\ j \in Full(B)
      BY <2>1, <2>3, <1>2, <1>3, <1>4
    <3> QED
      BY <3>1 DEF PairsOf, Without
  <2> QED
    BY <2>2, <2>3
<1>6. ASSUME NEW p \in Without(PairsOf(B), B[i].key)
      PROVE  p \in PairsOf(B2)
  <2>1. PICK j \in Full(B) : p = <<B[j].key, B[j].value>>
    BY DEF PairsOf, Without
  <2>2. j # i /\ B2[j] = B[j]
    BY <2>1, <1>2, <1>3 DEF Without
  <2> QED
    BY <2>1, <2>2, <1>2 DEF PairsOf
<1>7. <<B2[i].key, B2[i].value>> \in PairsOf(B2)
  BY <1>2 DEF PairsOf
<1> QED
  BY <1>5, <1>6, <1>7

\* No key is in two places; so the contents are the dictionary of the pairs.
LEMMA SinglePairs ==
  ASSUME MapInv
  PROVE  Single(Pairs) /\ PairSet(Pairs)
<1>1. TableInv /\ OldInv /\ CarryInv
  BY DEF MapInv
<1>2. PICK n \in Nat \ {0} : n = Cap
  BY <1>1 DEF TableInv
<1>3. Rows(buckets, n) /\ \A i \in Full(buckets) : i \in 0 .. n - 1 /\ buckets[i] # Free
  BY <1>1, <1>2 DEF TableInv, Rows, Full
<1>4. PairSet(Pairs)
  BY DEF PairSet, Pairs, PairsOf, OldPairs, CarryPair
<1>5. ASSUME NEW k, NEW v, NEW w, <<k, v>> \in PairsOf(buckets), <<k, w>> \in PairsOf(buckets)
      PROVE  v = w
  <2>1. PICK i \in Full(buckets) : k = buckets[i].key /\ v = buckets[i].value
    BY <1>5 DEF PairsOf
  <2>2. PICK j \in Full(buckets) : k = buckets[j].key /\ w = buckets[j].value
    BY <1>5 DEF PairsOf
  <2>3. i = j
    BY <2>1, <2>2, <1>3 DEF Rows
  <2> QED
    BY <2>1, <2>2, <2>3
<1>6. ASSUME NEW k, NEW v, NEW w, <<k, v>> \in OldPairs, <<k, w>> \in OldPairs
      PROVE  v = w
  <2>1. PICK i \in DOMAIN old : k = old[i].key /\ v = old[i].value
    BY <1>6 DEF OldPairs
  <2>2. PICK j \in DOMAIN old : k = old[j].key /\ w = old[j].value
    BY <1>6 DEF OldPairs
  <2>3. i = j
    BY <2>1, <2>2, <1>1 DEF OldInv
  <2> QED
    BY <2>1, <2>2, <2>3
<1>7. ASSUME NEW k, NEW v, NEW w, <<k, v>> \in CarryPair, <<k, w>> \in CarryPair
      PROVE  v = w
  BY <1>7 DEF CarryPair
<1>8. ASSUME NEW k, NEW v, NEW w, <<k, v>> \in PairsOf(buckets)
      PROVE  <<k, w>> \notin OldPairs /\ <<k, w>> \notin CarryPair
  <2>1. PICK i \in Full(buckets) : k = buckets[i].key
    BY <1>8 DEF PairsOf
  <2>2. i \in 0 .. Cap - 1 /\ buckets[i] # Free
    BY <1>2, <1>3
  <2>3. \A j \in DOMAIN old : old[j].key # k
    BY <2>1, <2>2, <1>1 DEF OldInv, Apart
  <2>4. Carrying => carry.key # k
    BY <2>1, <2>2, <1>1 DEF CarryInv, Apart
  <2> QED
    BY <2>3, <2>4 DEF OldPairs, CarryPair
<1>9. ASSUME NEW k, NEW v, NEW w, <<k, v>> \in OldPairs
      PROVE  <<k, w>> \notin CarryPair
  BY <1>1, <1>9 DEF OldPairs, CarryPair, CarryInv
<1>10. Single(Pairs)
  BY <1>5, <1>6, <1>7, <1>8, <1>9 DEF Single, Pairs
<1> QED
  BY <1>4, <1>10

LEMMA PairsOfEntries ==
  Pairs = {<<e.key, e.value>> : e \in Entries}
<1>1. Entries = {buckets[i] : i \in Full(buckets)} \cup {old[i] : i \in DOMAIN old}
                  \cup (IF Carrying THEN {carry} ELSE {})
  BY DEF Entries, Occupied, Full, Carrying, ToSet
<1>2. ASSUME NEW p \in Pairs PROVE p \in {<<e.key, e.value>> : e \in Entries}
  <2>1. CASE p \in PairsOf(buckets)
    BY <2>1, <1>1 DEF PairsOf
  <2>2. CASE p \in OldPairs
    BY <2>2, <1>1 DEF OldPairs
  <2>3. CASE p \in CarryPair
    BY <2>3, <1>1 DEF CarryPair
  <2> QED
    BY <2>1, <2>2, <2>3 DEF Pairs
<1>3. ASSUME NEW e \in Entries PROVE <<e.key, e.value>> \in Pairs
  <2>1. CASE e \in {buckets[i] : i \in Full(buckets)}
    BY <2>1 DEF Pairs, PairsOf
  <2>2. CASE e \in {old[i] : i \in DOMAIN old}
    BY <2>2 DEF Pairs, OldPairs
  <2>3. CASE Carrying /\ e = carry
    BY <2>3 DEF Pairs, CarryPair
  <2> QED
    BY <2>1, <2>2, <2>3, <1>1
<1> QED
  BY <1>2, <1>3

EntryOf(k) == CHOOSE e \in Entries : e.key = k

LEMMA ContentsAre ==
  ASSUME MapInv
  PROVE  Contents = Dict(Pairs)
<1>1. Contents = [k \in {e.key : e \in Entries} |-> EntryOf(k).value]
  BY DEF Contents, EntryOf
<1>2. {e.key : e \in Entries} = {p[1] : p \in Pairs}
  <2>1. ASSUME NEW e \in Entries PROVE \E p \in Pairs : p[1] = e.key
    <3>1. <<e.key, e.value>> \in Pairs /\ <<e.key, e.value>>[1] = e.key
      BY PairsOfEntries
    <3> QED
      BY <3>1
  <2>2. ASSUME NEW p \in Pairs PROVE \E e \in Entries : p[1] = e.key
    BY PairsOfEntries
  <2> QED
    BY <2>1, <2>2
<1>3. ASSUME NEW k \in {e.key : e \in Entries} PROVE EntryOf(k).value = ValueIn(Pairs, k)
  <2>1. EntryOf(k) \in Entries /\ EntryOf(k).key = k
    BY <1>3 DEF EntryOf
  <2>2. <<k, EntryOf(k).value>> \in Pairs
    BY <2>1, PairsOfEntries
  <2>3. <<k, ValueIn(Pairs, k)>> \in Pairs
    BY <2>2 DEF ValueIn
  <2> QED
    BY <2>2, <2>3, SinglePairs DEF Single
<1> QED
  BY <1>1, <1>2, <1>3 DEF Dict

LEMMA Dictionary == MapInv => Contents = Dict(Pairs) /\ Single(Pairs) /\ PairSet(Pairs)
BY ContentsAre, SinglePairs

\* What a step does to the pairs is what it does to the contents.
LEMMA ContentsSteps ==
  ASSUME MapInv, MapInv'
  PROVE  /\ Pairs' = Pairs => Contents' = Contents
         /\ \A k, v : Pairs' = With(Pairs, k, v) => Contents' = Extended(Contents, k, v)
         /\ \A k : Pairs' = Without(Pairs, k) => Contents' = Reduced(Contents, k)
<1>1. (MapInv => Contents = Dict(Pairs) /\ Single(Pairs) /\ PairSet(Pairs))'
  BY Dictionary, PTL
<1>2. PICK P, P2 : P = Pairs /\ P2 = Pairs'
  OBVIOUS
<1>3. Contents = Dict(P) /\ Single(P) /\ PairSet(P) /\ Contents' = Dict(P2)
  BY <1>1, <1>2, Dictionary
<1>4. ASSUME NEW k, NEW v, Pairs' = With(Pairs, k, v) PROVE Contents' = Extended(Contents, k, v)
  <2>1. P2 = With(P, k, v)
    BY <1>2, <1>4
  <2> QED
    BY <2>1, <1>3, DictPut
<1>5. ASSUME NEW k, Pairs' = Without(Pairs, k) PROVE Contents' = Reduced(Contents, k)
  <2>1. P2 = Without(P, k)
    BY <1>2, <1>5
  <2> QED
    BY <2>1, <1>3, DictDrop
<1> QED
  BY <1>2, <1>3, <1>4, <1>5

-----------------------------------------------------------------------------
(***************************************************************************)
(* Every step is one of KeyedMap, or changes nothing there.  An insertion  *)
(* takes effect when its entry first gets a bucket, from a free one or     *)
(* from another entry.                                                     *)
(***************************************************************************)
LEMMA PutIs ==
  ASSUME NEW n \in Nat \ {0}, NEW B \in Buckets(n), NEW i \in 0 .. n - 1, NEW x \in EntriesOf(n),
         NEW B2, B2 = Put(B, i, x)
  PROVE  B2 \in Buckets(n) /\ B2[i] = x /\ x # Free /\ Alike(B2, B, n, i)
<1>1. x # Free
  BY EntryTypes
<1> QED
  BY <1>1 DEF Buckets, Put, Alike

LEMMA PairsPlaceFree ==
  ASSUME MapInv, PlaceFree
  PROVE  /\ Pairs' = Pairs \cup {<<carry.key, carry.value>>}
         /\ Apart(buckets, Cap, carry.key)
<1>1. PICK B2, x : B2 = buckets' /\ x = Entry(carry.key, carry.value, distance)
  OBVIOUS
<1>2. /\ pc \in {"probe", "place"} /\ Here = Free /\ Placed
      /\ B2 = Put(buckets, index, x)
  BY <1>1 DEF PlaceFree, Put, Entry
<1>3. PICK n \in Nat \ {0} :
           /\ n = Cap /\ Rows(buckets, n)
           /\ carry.key \in Keys /\ carry.value \in Values
           /\ distance \in 0 .. n - 1 /\ index \in 0 .. n - 1
           /\ Here = Free \/ Here.distance < distance => Apart(buckets, n, carry.key)
  BY <1>2, AtProbe
<1>4. x \in EntriesOf(n) /\ x.key = carry.key /\ x.value = carry.value
  BY <1>1, <1>3 DEF EntriesOf, Entry
<1>5. buckets \in Buckets(n)
  BY <1>3 DEF Rows, Buckets
<1>6. B2 \in Buckets(n) /\ B2[index] = x /\ x # Free /\ Alike(B2, buckets, n, index)
  BY <1>2, <1>3, <1>4, <1>5, PutIs
<1>7. buckets[index] = Free
  BY <1>2 DEF Here
<1>8. PairsOf(B2) = PairsOf(buckets) \cup {<<carry.key, carry.value>>}
  <2>1. PairsOf(B2) = PairsOf(buckets) \cup {<<B2[index].key, B2[index].value>>}
    BY <1>3, <1>5, <1>6, <1>7, PairsFill
  <2> QED
    BY <2>1, <1>4, <1>6
<1>9. OldPairs' = OldPairs /\ CarryPair' = {}
  BY <1>2 DEF Placed, OldPairs, CarryPair, Carrying
<1>10. CarryPair \subseteq {<<carry.key, carry.value>>}
  BY DEF CarryPair
<1> QED
  BY <1>1, <1>2, <1>3, <1>8, <1>9, <1>10 DEF Pairs

LEMMA PairsSteal ==
  ASSUME MapInv, Steal
  PROVE  /\ Pairs' = Pairs \cup {<<carry.key, carry.value>>}
         /\ Apart(buckets, Cap, carry.key)
<1>1. /\ pc \in {"probe", "place"} /\ UNCHANGED <<pc, old>>
      /\ carry' = [key |-> Here.key, value |-> Here.value]
      /\ pc = "probe" => Settle(Yes)
  BY DEF Steal
<1>2. PICK n, x :
           /\ n \in Nat \ {0}
           /\ n = Cap /\ index \in 0 .. n - 1 /\ Here # Free
           /\ x = Entry(carry.key, carry.value, distance)
           /\ x # Free /\ buckets'[index] = x /\ Alike(buckets', buckets, n, index)
           /\ Rows(buckets, n) /\ Rows(buckets', n)
           /\ Apart(buckets, n, carry.key)
  BY StealTable
<1>3. PICK B, B2, i : B = buckets /\ B2 = buckets' /\ i = index
  OBVIOUS
<1>4. PairsOf(B2) = Without(PairsOf(B), B[i].key) \cup {<<B2[i].key, B2[i].value>>}
  <2>1. i \in 0 .. n - 1 /\ B[i] # Free /\ B2[i] # Free /\ Alike(B2, B, n, i) /\ Rows(B, n) /\ Rows(B2, n)
    BY <1>2, <1>3 DEF Here
  <2> QED
    BY <2>1, <1>2, PairsRefill
<1>5. B2[i].key = carry.key /\ B2[i].value = carry.value
  BY <1>2, <1>3 DEF Entry
<1>6. PairsOf(B) = Without(PairsOf(B), B[i].key) \cup {<<B[i].key, B[i].value>>}
  <2>1. i \in Full(B) /\ \A j \in Full(B) : j # i => B[j].key # B[i].key
    BY <1>2, <1>3 DEF Full, Rows, Here
  <2>2. ASSUME NEW p \in PairsOf(B), p[1] = B[i].key PROVE p = <<B[i].key, B[i].value>>
    BY <2>1, <2>2 DEF PairsOf
  <2>3. <<B[i].key, B[i].value>> \in PairsOf(B)
    BY <2>1 DEF PairsOf
  <2> QED
    BY <2>2, <2>3 DEF Without
<1>7. CallInv
  BY DEF MapInv
<1>8. Carrying'
  <2>1. CASE pc = "place"
    BY <2>1, <1>1 DEF Carrying
  <2>2. CASE pc = "probe"
    <3>1. Yes \in Values \cup {NoValue, Open, Yes, No}
      OBVIOUS
    <3>2. call'.reply = Yes
      BY <3>1, <2>2, <1>1, <1>7, Settles DEF CallInv
    <3> QED
      BY <3>2, <2>2, <1>1 DEF Carrying
  <2> QED
    BY <2>1, <2>2, <1>1
<1>9. OldPairs' = OldPairs /\ CarryPair' = {<<B[i].key, B[i].value>>}
  BY <1>1, <1>3, <1>8 DEF OldPairs, CarryPair, Here
<1>10. CarryPair \subseteq {<<carry.key, carry.value>>}
  BY DEF CarryPair
<1> QED
  BY <1>2, <1>3, <1>4, <1>5, <1>6, <1>9, <1>10 DEF Pairs

\* What these two mean for the map.
LEMMA InsertStep ==
  ASSUME MapInv, MapInv', pc \in {"probe", "place"},
         pc = "place" => UNCHANGED call, pc = "probe" => Settle(Yes),
         Pairs' = Pairs \cup {<<carry.key, carry.value>>}, Apart(buckets, Cap, carry.key)
  PROVE  Map!Insert \/ UNCHANGED <<Contents, call>>
<1>1. CallInv /\ TableInv /\ OldInv /\ CarryInv
  BY DEF MapInv
<1>2. CASE Carrying
  <2>1. Pairs' = Pairs
    BY <1>2 DEF Pairs, CarryPair
  <2>2. Contents' = Contents
    BY <2>1, ContentsSteps
  <2>3. call' = call
    <3>1. CASE pc = "place"
      BY <3>1
    <3>2. CASE pc = "probe"
      <4>1. call.reply = Yes /\ call \in CallSet /\ call' = [call EXCEPT !.reply = Yes]
        BY <3>2, <1>1, <1>2 DEF Carrying, CallInv, Settle
      <4> QED
        BY <4>1 DEF CallSet
    <3> QED
      BY <3>1, <3>2
  <2> QED
    BY <2>2, <2>3
<1>3. CASE ~ Carrying
  <2>1. pc = "probe" /\ call.reply = Open /\ DOMAIN old = {} /\ call.op = "insert"
    BY <1>1, <1>3 DEF Carrying, CallInv, OldInv
  <2>2. carry.key = call.key /\ carry.value = call.value
    BY <2>1, <1>1 DEF CarryInv
  <2>3. Pairs = PairsOf(buckets)
    BY <2>1, <1>3 DEF Pairs, OldPairs, CarryPair
  <2>4. Without(Pairs, call.key) = Pairs
    <3>1. ASSUME NEW p \in PairsOf(buckets) PROVE p[1] # call.key
      <4>1. PICK i \in Full(buckets) : p = <<buckets[i].key, buckets[i].value>>
        BY <3>1 DEF PairsOf
      <4>2. PICK n \in Nat \ {0} : n = Cap
        BY <1>1 DEF TableInv
      <4>3. i \in 0 .. n - 1 /\ buckets[i] # Free
        BY <4>2, <1>1 DEF TableInv, Rows, Full
      <4> QED
        BY <4>1, <4>2, <4>3, <2>2 DEF Apart
    <3> QED
      BY <3>1, <2>3 DEF Without
  <2>5. Pairs' = With(Pairs, call.key, call.value)
    BY <2>2, <2>4 DEF With
  <2>6. Contents' = Extended(Contents, call.key, call.value)
    BY <2>5, ContentsSteps
  <2>7. call' = [call EXCEPT !.reply = Yes]
    BY <2>1 DEF Settle
  <2> QED
    BY <2>1, <2>6, <2>7 DEF Extended, Map!Insert, Map!Settle, Map!Yes, Map!Open, Yes, Open
<1> QED
  BY <1>2, <1>3

LEMMA KnownStep ==
  ASSUME MapInv, MapInv', PlaceKnown
  PROVE  Map!Insert
<1>1. CallInv /\ OldInv
  BY DEF MapInv
<1>2. pc = "probe" /\ call.reply = Open /\ carry.key = call.key /\ carry.value = call.value
  BY KnownIsCalls
<1>3. /\ Here.key = carry.key /\ Placed
  BY DEF PlaceKnown
<1>4. PICK n, x :
           /\ n \in Nat \ {0}
           /\ n = Cap /\ index \in 0 .. n - 1 /\ Here # Free
           /\ x = Entry(Here.key, carry.value, Here.distance)
           /\ x # Free /\ buckets'[index] = x /\ Alike(buckets', buckets, n, index)
           /\ Rows(buckets, n) /\ Rows(buckets', n)
  BY KnownTable
<1>5. PICK B, B2, i : B = buckets /\ B2 = buckets' /\ i = index
  OBVIOUS
<1>6. PairsOf(B2) = Without(PairsOf(B), B[i].key) \cup {<<B2[i].key, B2[i].value>>}
  <2>1. i \in 0 .. n - 1 /\ B[i] # Free /\ B2[i] # Free /\ Alike(B2, B, n, i) /\ Rows(B, n) /\ Rows(B2, n)
    BY <1>4, <1>5 DEF Here
  <2> QED
    BY <2>1, <1>4, PairsRefill
<1>7. B[i].key = call.key /\ B2[i].key = call.key /\ B2[i].value = call.value
  BY <1>2, <1>3, <1>4, <1>5 DEF Here, Entry
<1>8. DOMAIN old = {} /\ ~ Carrying /\ call.op = "insert"
  <2>1. Yes # Open
    BY DEF Yes, Open
  <2> QED
    BY <2>1, <1>1, <1>2 DEF OldInv, Carrying, CallInv
<1>9. pc' = "return" /\ old' = old /\ Settle(Yes)
  BY <1>2, <1>3 DEF Placed
<1>10. Pairs = PairsOf(B) /\ Pairs' = PairsOf(B2)
  BY <1>5, <1>8, <1>9 DEF Pairs, OldPairs, CarryPair, Carrying
<1>11. Pairs' = With(Pairs, call.key, call.value)
  BY <1>6, <1>7, <1>10 DEF With
<1>12. Contents' = Extended(Contents, call.key, call.value)
  BY <1>11, ContentsSteps
<1>13. call' = [call EXCEPT !.reply = Yes]
  BY <1>9 DEF Settle
<1> QED
  BY <1>2, <1>8, <1>12, <1>13 DEF Extended, Map!Insert, Map!Settle, Map!Yes, Map!Open, Yes, Open

LEMMA PresentIs ==
  ASSUME MapInv
  PROVE  /\ Map!Present <=> \E v : <<call.key, v>> \in Pairs
         /\ \A v : <<call.key, v>> \in Pairs => Contents[call.key] = v
<1>1. Contents = Dict(Pairs) /\ Single(Pairs) /\ PairSet(Pairs)
  BY Dictionary
<1>2. PICK D, P : D = Dict(P) /\ P = Pairs
  OBVIOUS
<1>3. /\ \A k, v : <<k, v>> \in P => k \in DOMAIN D /\ D[k] = v
      /\ \A k \in DOMAIN D : <<k, D[k]>> \in P
  BY <1>1, <1>2, DictAt
<1> QED
  BY <1>1, <1>2, <1>3 DEF Map!Present

LEMMA AbsentStep ==
  ASSUME MapInv, MapInv', Absent
  PROVE  Map!Get \/ Map!Has \/ Map!Delete
<1>1. call' = [call EXCEPT !.reply = IF call.op = "get" THEN NoValue ELSE No]
  BY DEF Absent, Settle
<1>2. /\ pc = "find" /\ pc' = "return" /\ (distance > Cap \/ NotFurther)
      /\ UNCHANGED <<buckets, carry, old>>
  BY DEF Absent
<1>3. PICK n \in Nat \ {0} :
           /\ n = Cap /\ Rows(buckets, n)
           /\ call.op \in {"get", "has", "remove"} /\ call.reply = Open
           /\ ~ (distance > Cap)
           /\ NotFurther => Apart(buckets, n, call.key)
           /\ DOMAIN old = {}
  BY <1>2, AtFind
<1>4. Apart(buckets, n, call.key)
  BY <1>2, <1>3
<1>5. Pairs = PairsOf(buckets) /\ Pairs' = Pairs
  BY <1>2, <1>3 DEF Pairs, OldPairs, CarryPair, Carrying
<1>6. \A p \in Pairs : p[1] # call.key
  <2>1. ASSUME NEW p \in PairsOf(buckets) PROVE p[1] # call.key
    <3>1. PICK i \in Full(buckets) : p = <<buckets[i].key, buckets[i].value>>
      BY <2>1 DEF PairsOf
    <3>2. i \in 0 .. n - 1 /\ buckets[i] # Free
      BY <1>3 DEF Rows, Full
    <3> QED
      BY <3>1, <3>2, <1>4 DEF Apart
  <2> QED
    BY <2>1, <1>5
<1>7. ~ Map!Present
  <2>1. \A v : <<call.key, v>>[1] = call.key
    OBVIOUS
  <2> QED
    BY <2>1, <1>6, PresentIs
<1>8. Contents' = Contents
  BY <1>5, ContentsSteps
<1>9. Contents' = Reduced(Contents, call.key)
  <2>1. Pairs' = Without(Pairs, call.key)
    BY <1>5, <1>6 DEF Without
  <2> QED
    BY <2>1, ContentsSteps
<1> QED
  BY <1>1, <1>3, <1>7, <1>8, <1>9
     DEF Reduced, Map!Get, Map!Has, Map!Delete, Map!Settle, Map!Open, Map!Yes, Map!No, Open, Yes, No

LEMMA FoundStep ==
  ASSUME MapInv, MapInv', Found
  PROVE  Map!Get \/ Map!Has \/ Map!Delete
<1>1. /\ pc = "find" /\ ~ NotFurther /\ Here.key = call.key
      /\ call' = [call EXCEPT !.reply = IF call.op = "get" THEN Here.value ELSE Yes]
      /\ UNCHANGED <<carry, old>>
      /\ pc' \in {"shift", "return"}
      /\ call.op # "remove" => UNCHANGED buckets
  BY DEF Found, Settle
<1>2. PICK n \in Nat \ {0} :
           /\ n = Cap /\ Rows(buckets, n) /\ index \in 0 .. n - 1
           /\ call.op \in {"get", "has", "remove"} /\ call.reply = Open
           /\ ~ NotFurther => Here # Free
           /\ DOMAIN old = {}
  BY <1>1, AtFind
<1>3. Pairs = PairsOf(buckets) /\ Pairs' = PairsOf(buckets')
  BY <1>1, <1>2 DEF Pairs, OldPairs, CarryPair, Carrying
<1>4. <<call.key, Here.value>> \in Pairs
  <2>1. index \in Full(buckets)
    BY <1>1, <1>2 DEF Full, Rows, Here
  <2> QED
    BY <2>1, <1>1, <1>3 DEF PairsOf, Here
<1>5. Map!Present /\ Contents[call.key] = Here.value
  BY <1>4, PresentIs
<1>6. CASE call.op # "remove"
  <2>1. Pairs' = Pairs
    BY <1>1, <1>3, <1>6
  <2>2. Contents' = Contents
    BY <2>1, ContentsSteps
  <2> QED
    BY <2>2, <1>1, <1>2, <1>5, <1>6 DEF Map!Get, Map!Has, Map!Settle, Map!Open, Map!Yes, Map!No, Open, Yes, No
<1>7. CASE call.op = "remove"
  <2>1. PICK m \in Nat \ {0} :
           /\ index \in 0 .. m - 1 /\ Here # Free /\ Here.key = call.key
           /\ Rows(buckets, m) /\ Rows(buckets', m)
           /\ buckets'[index] = Free /\ Alike(buckets', buckets, m, index)
    BY <1>7, FoundTable
  <2>2. PICK B, B2, i : B = buckets /\ B2 = buckets' /\ i = index
    OBVIOUS
  <2>3. PairsOf(B2) = Without(PairsOf(B), B[i].key)
    <3>1. i \in 0 .. m - 1 /\ B[i] # Free /\ B2[i] = Free /\ Alike(B2, B, m, i) /\ Rows(B, m) /\ Rows(B2, m)
      BY <2>1, <2>2 DEF Here
    <3> QED
      BY <3>1, <2>1, PairsFree
  <2>4. Pairs' = Without(Pairs, call.key)
    BY <2>1, <2>2, <2>3, <1>3 DEF Here
  <2>5. Contents' = Reduced(Contents, call.key)
    BY <2>4, ContentsSteps
  <2> QED
    BY <2>5, <1>1, <1>2, <1>5, <1>7 DEF Reduced, Map!Delete, Map!Settle, Map!Open, Map!Yes, Map!No, Open, Yes, No
<1> QED
  BY <1>6, <1>7

\* Entries move within the table, into the old one and out of it: the pairs stay.
LEMMA PairsShift ==
  ASSUME MapInv, Shift
  PROVE  Pairs' = Pairs
<1>1. pc = "shift" /\ UNCHANGED <<call, pc, carry, old>>
  BY DEF Shift
<1>2. PICK n, q, x :
           /\ n \in Nat \ {0}
           /\ index \in 0 .. n - 1 /\ q \in 0 .. n - 1 /\ q # index
           /\ buckets[index] = Free /\ buckets[q] # Free
           /\ x = Entry(buckets[q].key, buckets[q].value, buckets[q].distance - 1) /\ x # Free
           /\ buckets'[index] = x /\ buckets'[q] = Free
           /\ \A j \in 0 .. n - 1 : j # index /\ j # q => buckets'[j] = buckets[j]
           /\ Rows(buckets, n) /\ Rows(buckets', n)
  BY ShiftTable
<1>3. PICK B, B2, i : B = buckets /\ B2 = buckets' /\ i = index
  OBVIOUS
<1>4. /\ i \in Full(B2) /\ q \in Full(B) /\ i \notin Full(B) /\ q \notin Full(B2)
      /\ \A j : j # i /\ j # q => (j \in Full(B) <=> j \in Full(B2))
      /\ \A j \in Full(B) : j # i /\ j # q => B2[j] = B[j]
      /\ B2[i].key = B[q].key /\ B2[i].value = B[q].value
  BY <1>2, <1>3 DEF Full, Rows, Entry
<1>5. ASSUME NEW p \in PairsOf(B) PROVE p \in PairsOf(B2)
  <2>1. PICK j \in Full(B) : p = <<B[j].key, B[j].value>>
    BY DEF PairsOf
  <2>2. CASE j = q
    <3>1. p = <<B2[i].key, B2[i].value>>
      BY <2>1, <2>2, <1>4
    <3> QED
      BY <3>1, <1>4 DEF PairsOf
  <2>3. CASE j # q
    <3>1. j \in Full(B2) /\ B2[j] = B[j]
      BY <2>3, <2>1, <1>4
    <3> QED
      BY <3>1, <2>1 DEF PairsOf
  <2> QED
    BY <2>2, <2>3
<1>6. ASSUME NEW p \in PairsOf(B2) PROVE p \in PairsOf(B)
  <2>1. PICK j \in Full(B2) : p = <<B2[j].key, B2[j].value>>
    BY DEF PairsOf
  <2>2. CASE j = i
    <3>1. p = <<B[q].key, B[q].value>>
      BY <2>1, <2>2, <1>4
    <3> QED
      BY <3>1, <1>4 DEF PairsOf
  <2>3. CASE j # i
    <3>1. j \in Full(B) /\ B2[j] = B[j]
      BY <2>3, <2>1, <1>4
    <3> QED
      BY <3>1, <2>1 DEF PairsOf
  <2> QED
    BY <2>2, <2>3
<1>7. PairsOf(B2) = PairsOf(B)
  BY <1>5, <1>6
<1>8. OldPairs' = OldPairs /\ CarryPair' = CarryPair
  BY <1>1 DEF OldPairs, CarryPair, Carrying
<1> QED
  BY <1>3, <1>7, <1>8 DEF Pairs

LEMMA PairsResize ==
  ASSUME MapInv, Resize
  PROVE  Pairs' = Pairs
<1>1. /\ pc = "start" /\ pc' = "rehash" /\ UNCHANGED <<call, carry>>
      /\ old' = Restrict(buckets, Full(buckets)) /\ buckets' = Table(2 * Cap)
  BY DEF Resize, Occupied, Full
<1>2. DOMAIN old' = Full(buckets) /\ \A j \in Full(buckets) : old'[j] = buckets[j]
  BY <1>1 DEF Restrict
<1>3. OldPairs' = PairsOf(buckets)
  BY <1>2 DEF OldPairs, PairsOf
<1>4. PICK m \in Nat \ {0} : m = 2 * Cap
  <2>1. PICK n \in Nat \ {0} : n = Cap
    BY DEF MapInv, TableInv
  <2>2. 2 * n \in Nat \ {0}
    BY <2>1
  <2> QED
    BY <2>1, <2>2
<1>5. PairsOf(buckets') = {}
  <2>1. buckets' = Table(m)
    BY <1>1, <1>4
  <2>2. Full(Table(m)) = {}
    BY <1>4, EmptyTable
  <2>3. Full(buckets') = {}
    BY <2>1, <2>2
  <2> QED
    BY <2>3 DEF PairsOf
<1>6. DOMAIN old = {}
  BY <1>1 DEF MapInv, OldInv
<1>7. OldPairs = {} /\ CarryPair = {} /\ CarryPair' = {}
  BY <1>1, <1>6 DEF OldPairs, CarryPair, Carrying
<1> QED
  BY <1>3, <1>5, <1>7 DEF Pairs

LEMMA PairsRehash ==
  ASSUME MapInv, Rehash, "rehash" \notin Failures
  PROVE  Pairs' = Pairs
<1>1. DOMAIN old \subseteq Nat /\ DOMAIN old # {}
  BY DEF MapInv, OldInv, Rehash
<1>2. PICK i \in DOMAIN old : i = Min(DOMAIN old)
  BY <1>1, Least
<1>3. /\ pc = "rehash" /\ UNCHANGED <<buckets, call>> /\ pc' = "place"
      /\ old' = Restrict(old, DOMAIN old \ {i})
      /\ carry' = [key |-> old[i].key, value |-> old[i].value]
  BY <1>2 DEF Rehash, StartAt
<1>4. DOMAIN old' = DOMAIN old \ {i} /\ \A j \in DOMAIN old' : old'[j] = old[j]
  BY <1>3 DEF Restrict
<1>5. CarryPair = {} /\ CarryPair' = {<<old[i].key, old[i].value>>}
  BY <1>3 DEF CarryPair, Carrying
<1>6. OldPairs = OldPairs' \cup {<<old[i].key, old[i].value>>}
  <2>1. PICK o : o = old'
    OBVIOUS
  <2>2. OldPairs' = {<<o[j].key, o[j].value>> : j \in DOMAIN o}
    BY <2>1 DEF OldPairs
  <2>3. DOMAIN old = DOMAIN o \cup {i} /\ \A j \in DOMAIN o : o[j] = old[j]
    BY <2>1, <1>2, <1>4
  <2> QED
    BY <2>2, <2>3 DEF OldPairs
<1> QED
  BY <1>3, <1>5, <1>6 DEF Pairs

\* The other steps leave the buckets, the old table and what is carried.
LEMMA PairsKept ==
  ASSUME MapInv, UNCHANGED <<buckets, old>>,
         \/ UNCHANGED <<carry, pc, call>>
         \/ ~ Carrying /\ ~ Carrying'
  PROVE  Pairs' = Pairs
<1>1. OldPairs' = OldPairs /\ PairsOf(buckets') = PairsOf(buckets)
  BY DEF OldPairs
<1>2. CarryPair' = CarryPair
  <2>1. CASE UNCHANGED <<carry, pc, call>>
    BY <2>1 DEF CarryPair, Carrying
  <2>2. CASE ~ Carrying /\ ~ Carrying'
    BY <2>2 DEF CarryPair
  <2> QED
    BY <2>1, <2>2
<1> QED
  BY <1>1, <1>2 DEF Pairs

LEMMA BeginStep ==
  ASSUME MapInv, MapInv', NEW c,
         \/ c \in Inserts /\ BeginInsert(c)
         \/ c \in Lookups /\ BeginLookup(c)
  PROVE  c \in Map!Calls /\ Map!Invoke(c)
<1>1. /\ call = Idle /\ call' = c /\ UNCHANGED <<buckets, old>>
      /\ pc' \in {"start", "find"}
  BY DEF BeginInsert, BeginLookup, StartAt
<1>2. ~ Carrying /\ ~ Carrying'
  BY <1>1, AtRest DEF Idle, Carrying
<1>3. Contents' = Contents
  BY <1>1, <1>2, PairsKept, ContentsSteps
<1>4. c \in Map!Calls
  BY DEF Map!Calls, Map!Lookups, Map!Inserts, Map!Open, Lookups, Inserts, Open
<1> QED
  BY <1>1, <1>3, <1>4 DEF Map!Invoke, Map!Idle, Map!Open, Idle, Open

LEMMA FailStep ==
  ASSUME MapInv, MapInv', ResizeFails \/ ProbeFails
  PROVE  Map!FailToInsert
<1>1. /\ pc \in {"start", "rehash"} /\ pc' = "return" /\ call' = [call EXCEPT !.reply = No]
      /\ UNCHANGED <<buckets, old>>
  BY DEF ResizeFails, ProbeFails, Room, Settle
<1>2. call.op = "insert" /\ call.reply = Open
  BY <1>1 DEF MapInv, CallInv
<1>3. ~ Carrying /\ ~ Carrying'
  BY <1>1 DEF Carrying
<1>4. Contents' = Contents
  BY <1>1, <1>3, PairsKept, ContentsSteps
<1> QED
  BY <1>1, <1>2, <1>4 DEF Map!FailToInsert, Map!Settle, Map!Open, Map!No, Open, No

LEMMA ReturnStep ==
  ASSUME MapInv, MapInv', Return
  PROVE  Map!Return
<1>1. pc = "return" /\ pc' = "idle" /\ call' = Idle /\ UNCHANGED <<buckets, old>>
  BY DEF Return
<1>2. call.op # "none" /\ call.reply # Open
  BY <1>1 DEF MapInv, CallInv
<1>3. ~ Carrying /\ ~ Carrying'
  BY <1>1 DEF Carrying
<1>4. Contents' = Contents
  BY <1>1, <1>3, PairsKept, ContentsSteps
<1> QED
  BY <1>1, <1>2, <1>4 DEF Map!Return, Map!Idle, Map!Open, Idle, Open

LEMMA ClearStep ==
  ASSUME MapInv, MapInv', Clear
  PROVE  Map!Clear
<1>1. call = Idle /\ buckets' = Table(Cap) /\ UNCHANGED <<call, pc, old>>
  BY DEF Clear
<1>2. DOMAIN old = {} /\ ~ Carrying
  BY <1>1, AtRest DEF Idle
<1>3. PICK n \in Nat \ {0} : n = Cap
  BY DEF MapInv, TableInv
<1>4. Full(Table(n)) = {}
  BY <1>3, EmptyTable
<1>5. Full(buckets') = {}
  BY <1>1, <1>3, <1>4
<1>6. Entries' = {}
  BY <1>1, <1>2, <1>5 DEF Entries, Occupied, Full, Carrying, ToSet
<1>7. {e.key : e \in Entries'} = {}
  BY <1>6
<1>8. Contents' = [k \in {} |-> NoValue]
  BY <1>7 DEF Contents
<1> QED
  BY <1>1, <1>8 DEF Map!Clear, Map!Idle, Map!Open, Idle, Open

\* Steps that nobody outside sees.
LEMMA Moves ==
  ASSUME MapInv, MapInv', "rehash" \notin Failures,
         \/ Resize \/ Rehash \/ Probe \/ Pass \/ Seek \/ Shift \/ ShiftDone
         \/ IterNew \/ IterNext \/ UNCHANGED vars
  PROVE  UNCHANGED <<Contents, call>>
<1>1. CASE Resize \/ Rehash \/ Shift
  <2>1. Pairs' = Pairs
    BY <1>1, PairsResize, PairsRehash, PairsShift
  <2> QED
    BY <2>1, <1>1, ContentsSteps DEF Resize, Rehash, Shift
<1>2. CASE Probe
  <2>1. pc \in {"start", "rehash"} /\ pc' = "probe" /\ UNCHANGED <<buckets, old, call>>
    BY <1>2 DEF Probe, Room, StartAt
  <2>2. call.reply = Open /\ Yes # Open
    BY <2>1 DEF MapInv, CallInv, Yes, Open
  <2>3. ~ Carrying /\ ~ Carrying'
    BY <2>1, <2>2 DEF Carrying
  <2> QED
    BY <2>1, <2>3, PairsKept, ContentsSteps
<1>3. CASE Pass \/ Seek \/ IterNew \/ IterNext \/ UNCHANGED vars
  <2>1. UNCHANGED <<buckets, old, carry, pc, call>>
    BY <1>3 DEF Pass, Seek, IterNew, IterNext, vars
  <2> QED
    BY <2>1, PairsKept, ContentsSteps
<1>4. CASE ShiftDone
  <2>1. pc = "shift" /\ pc' = "return" /\ UNCHANGED <<buckets, old, call>>
    BY <1>4 DEF ShiftDone
  <2>2. ~ Carrying /\ ~ Carrying'
    BY <2>1 DEF Carrying
  <2> QED
    BY <2>1, <2>2, PairsKept, ContentsSteps
<1> QED
  BY <1>1, <1>2, <1>3, <1>4

LEMMA PlaceStep ==
  ASSUME MapInv, MapInv', PlaceFree \/ Steal
  PROVE  Map!Insert \/ UNCHANGED <<Contents, call>>
<1>1. /\ pc \in {"probe", "place"}
      /\ pc = "place" => UNCHANGED call
      /\ pc = "probe" => Settle(Yes)
  BY DEF PlaceFree, Steal, Placed
<1>2. /\ Pairs' = Pairs \cup {<<carry.key, carry.value>>}
      /\ Apart(buckets, Cap, carry.key)
  BY PairsPlaceFree, PairsSteal
<1> QED
  BY <1>1, <1>2, InsertStep

LEMMA MapInit == Init => Map!Init
<1> SUFFICES ASSUME Init PROVE Map!Init
  OBVIOUS
<1>1. InitialCap \in Nat \ {0}
  BY HashAssumption
<1>2. PICK c \in Nat \ {0} : c = InitialCap
  BY <1>1
<1>3. Full(Table(c)) = {}
  BY <1>2, EmptyTable
<1>4. Full(buckets) = {} /\ DOMAIN old = {} /\ pc = "idle"
  BY <1>2, <1>3 DEF Init
<1>5. Entries = {}
  BY <1>4 DEF Entries, Occupied, Full, ToSet
<1>6. {e.key : e \in Entries} = {}
  BY <1>5
<1>7. Contents = [k \in {} |-> NoValue]
  BY <1>6 DEF Contents
<1> QED
  BY <1>7 DEF Init, Map!Init, Map!Idle, Map!Open, Idle, Open

LEMMA MapNext ==
  ASSUME "rehash" \notin Failures
  PROVE  MapInv /\ MapInv' /\ [Next]_vars => [Map!Next]_(Map!vars)
<1> SUFFICES ASSUME MapInv, MapInv', [Next]_vars PROVE Map!Next \/ UNCHANGED <<Contents, call>>
  BY DEF Map!vars
<1>1. CASE \E c \in Inserts : BeginInsert(c)
  <2>1. PICK c : c \in Inserts /\ BeginInsert(c)
    BY <1>1
  <2>2. c \in Map!Calls /\ Map!Invoke(c)
    BY <2>1, BeginStep
  <2> QED
    BY <2>2 DEF Map!Next
<1>2. CASE \E c \in Lookups : BeginLookup(c)
  <2>1. PICK c : c \in Lookups /\ BeginLookup(c)
    BY <1>2
  <2>2. c \in Map!Calls /\ Map!Invoke(c)
    BY <2>1, BeginStep
  <2> QED
    BY <2>2 DEF Map!Next
<1>3. CASE ResizeFails \/ ProbeFails
  BY <1>3, FailStep DEF Map!Next
<1>4. CASE PlaceFree \/ Steal
  BY <1>4, PlaceStep DEF Map!Next
<1>5. CASE PlaceKnown
  BY <1>5, KnownStep DEF Map!Next
<1>6. CASE Absent
  BY <1>6, AbsentStep DEF Map!Next
<1>7. CASE Found
  BY <1>7, FoundStep DEF Map!Next
<1>8. CASE Return
  BY <1>8, ReturnStep DEF Map!Next
<1>9. CASE Clear
  BY <1>9, ClearStep DEF Map!Next
<1>10. CASE \/ Resize \/ Rehash \/ Probe \/ Pass \/ Seek \/ Shift \/ ShiftDone
            \/ IterNew \/ IterNext \/ UNCHANGED vars
  BY <1>10, Moves
<1> QED
  BY <1>1, <1>2, <1>3, <1>4, <1>5, <1>6, <1>7, <1>8, <1>9, <1>10 DEF Next, Step

(***************************************************************************)
(* collections.c implements a map, for any hash function and any capacity, *)
(* when no allocation fails while entries are moved to a new table:        *)
(* wyn_hashmap_resize does not look whether an entry could be moved, and   *)
(* one that could not is gone.  A new table or an entry that cannot be had *)
(* makes the insertion fail and leaves the map alone.                      *)
(***************************************************************************)
THEOREM MapCorrect ==
  ASSUME "rehash" \notin Failures
  PROVE  Spec => ImplementsMap
<1>1. Init => Map!Init
  BY MapInit
<1>2. MapInv /\ MapInv' /\ [Next]_vars => [Map!Next]_(Map!vars)
  BY MapNext
<1>3. Spec => Map!Init /\ [][Map!Next]_(Map!vars)
  BY <1>1, <1>2, Inductive, PTL DEF Spec
<1> QED
  BY <1>3 DEF ImplementsMap, Map!Spec
=============================================================================
