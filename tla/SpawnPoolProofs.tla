-------------------------- MODULE SpawnPoolProofs --------------------------
(***************************************************************************)
(* How far the count of a node pool can drift, for every number of threads *)
(* and of slots, that one spawning thread keeps stores in the array, and   *)
(* that a pool which one thread uses loses no node.                        *)
(***************************************************************************)
EXTENDS SpawnPool, FiniteSetTheorems, TLAPS

LEMMA TypeInit == Init => TypeOK
BY PoolAssumption DEF Init, TypeOK

LEMMA HandOutType ==
  ASSUME TypeOK, NEW n \in Nodes \cup {Null}, HandOut(n)
  PROVE  out' \in [Nodes \cup {Null} -> Nat]
BY DEF TypeOK, HandOut

Labels == {"idle", "alloc_sub", "alloc_read", "free_add", "free_store"}

LEMMA GotoType ==
  ASSUME TypeOK, NEW t \in Threads, NEW l \in Labels, Goto(t, l)
  PROVE  /\ pc' \in [Threads -> Labels]
         /\ pc'[t] = l
         /\ \A u \in Threads : u # t => pc'[u] = pc[u]
BY DEF TypeOK, Goto, Labels

LEMMA MallocType ==
  ASSUME TypeOK, NEW t \in Threads, Malloc(t)
  PROVE  heap' \subseteq Nodes /\ out' \in [Nodes \cup {Null} -> Nat] /\ Goto(t, "idle")
BY HandOutType DEF TypeOK, Malloc

(* The locals of the threads that do not step stay.                        *)
LEMMA TypeNext == TypeOK /\ [Next]_vars => TypeOK'
<1> SUFFICES ASSUME TypeOK, [Next]_vars PROVE TypeOK'
  OBVIOUS
<1> USE PoolAssumption
<1>0. "idle" \in Labels /\ "alloc_sub" \in Labels /\ "alloc_read" \in Labels
      /\ "free_add" \in Labels /\ "free_store" \in Labels
  BY DEF Labels
<1>1. ASSUME NEW t \in Threads, AllocLoad(t) PROVE TypeOK'
  <2>1. CASE Offers
    <3>1. Goto(t, "alloc_sub") /\ UNCHANGED <<heap, out>>
      BY <1>1, <2>1 DEF AllocLoad
    <3>2. /\ pc' \in [Threads -> Labels]
          /\ pc'[t] = "alloc_sub" /\ \A u \in Threads : u # t => pc'[u] = pc[u]
      BY <1>0, <3>1, GotoType
    <3> QED BY <1>1, <3>1, <3>2 DEF AllocLoad, TypeOK, Labels
  <2>2. CASE ~Offers
    <3>1. Malloc(t)
      BY <1>1, <2>2 DEF AllocLoad
    <3>2. heap' \subseteq Nodes /\ out' \in [Nodes \cup {Null} -> Nat] /\ Goto(t, "idle")
      BY <3>1, MallocType
    <3>3. /\ pc' \in [Threads -> Labels]
          /\ pc'[t] = "idle" /\ \A u \in Threads : u # t => pc'[u] = pc[u]
      BY <1>0, <3>2, GotoType
    <3> QED BY <1>1, <3>2, <3>3 DEF AllocLoad, TypeOK, Labels
  <2> QED BY <2>1, <2>2
<1>2. ASSUME NEW t \in Threads, AllocSub(t) PROVE TypeOK'
  <2>1. /\ count' \in Int /\ idx' \in [Threads -> Int] /\ idx'[t] = Top
        /\ \A u \in Threads : u # t => idx'[u] = idx[u]
    BY <1>2 DEF AllocSub, TypeOK, Top
  <2>2. CASE InSlot(Top)
    <3>1. Goto(t, "alloc_read") /\ UNCHANGED <<heap, out>>
      BY <1>2, <2>2 DEF AllocSub
    <3>2. /\ pc' \in [Threads -> Labels]
          /\ pc'[t] = "alloc_read" /\ \A u \in Threads : u # t => pc'[u] = pc[u]
      BY <1>0, <3>1, GotoType
    <3>3. \A u \in Threads : pc'[u] = "alloc_read" => idx'[u] \in Slots
      BY <2>1, <2>2, <3>2 DEF TypeOK, InSlot
    <3> QED BY <1>2, <2>1, <3>1, <3>2, <3>3 DEF AllocSub, TypeOK, Labels
  <2>3. CASE ~InSlot(Top)
    <3>1. Malloc(t)
      BY <1>2, <2>3 DEF AllocSub
    <3>2. heap' \subseteq Nodes /\ out' \in [Nodes \cup {Null} -> Nat] /\ Goto(t, "idle")
      BY <3>1, MallocType
    <3>3. /\ pc' \in [Threads -> Labels]
          /\ pc'[t] = "idle" /\ \A u \in Threads : u # t => pc'[u] = pc[u]
      BY <1>0, <3>2, GotoType
    <3>4. \A u \in Threads : pc'[u] = "alloc_read" => idx'[u] \in Slots
      BY <2>1, <3>3 DEF TypeOK
    <3> QED BY <1>2, <2>1, <3>2, <3>3, <3>4 DEF AllocSub, TypeOK, Labels
  <2> QED BY <2>2, <2>3
<1>3. ASSUME NEW t \in Threads, AllocRead(t) PROVE TypeOK'
  <2>1. pool[idx[t]] \in Nodes \cup {Null} /\ HandOut(pool[idx[t]]) /\ Goto(t, "idle")
    BY <1>3 DEF AllocRead, TypeOK
  <2>2. out' \in [Nodes \cup {Null} -> Nat]
    BY <2>1, HandOutType
  <2>3. /\ pc' \in [Threads -> Labels]
        /\ pc'[t] = "idle" /\ \A u \in Threads : u # t => pc'[u] = pc[u]
    BY <1>0, <2>1, GotoType
  <2> QED BY <1>3, <2>2, <2>3 DEF AllocRead, TypeOK, Labels
<1>4. ASSUME NEW t \in Threads, NEW n \in Nodes, FreeLoad(t, n) PROVE TypeOK'
  <2>1. out' \in [Nodes \cup {Null} -> Nat]
    BY <1>4 DEF FreeLoad, TypeOK
  <2>2. CASE count < PoolSize
    <3>1. Goto(t, "free_add") /\ node' = [node EXCEPT ![t] = n] /\ heap' = heap
      BY <1>4, <2>2 DEF FreeLoad
    <3>2. /\ pc' \in [Threads -> Labels]
          /\ pc'[t] = "free_add" /\ \A u \in Threads : u # t => pc'[u] = pc[u]
      BY <1>0, <3>1, GotoType
    <3>3. node' \in [Threads -> Nodes \cup {Null}]
      BY <3>1 DEF TypeOK
    <3> QED BY <1>4, <2>1, <3>1, <3>2, <3>3 DEF FreeLoad, TypeOK, Labels
  <2>3. CASE ~(count < PoolSize)
    BY <1>4, <2>1, <2>3 DEF FreeLoad, TypeOK
  <2> QED BY <2>2, <2>3
<1>5. ASSUME NEW t \in Threads, FreeAdd(t) PROVE TypeOK'
  <2>1. /\ count' \in Int /\ idx' \in [Threads -> Int]
        /\ \A u \in Threads : u # t => idx'[u] = idx[u]
    BY <1>5 DEF FreeAdd, TypeOK
  <2>2. PICK l \in {"free_store", "idle"} : Goto(t, l)
    BY <1>5 DEF FreeAdd
  <2>3. /\ pc' \in [Threads -> Labels]
        /\ pc'[t] # "alloc_read" /\ \A u \in Threads : u # t => pc'[u] = pc[u]
    BY <1>0, <2>2, GotoType
  <2>4. heap' \subseteq Nodes /\ node' \in [Threads -> Nodes \cup {Null}]
    BY <1>5 DEF FreeAdd, TypeOK
  <2> QED BY <1>5, <2>1, <2>3, <2>4 DEF FreeAdd, TypeOK, Labels
<1>6. ASSUME NEW t \in Threads, FreeStore(t) PROVE TypeOK'
  <2>1. pool' \in [Slots -> Nodes \cup {Null}] /\ node' \in [Threads -> Nodes \cup {Null}]
    BY <1>6 DEF FreeStore, TypeOK
  <2>2. /\ pc' \in [Threads -> Labels]
        /\ pc'[t] = "idle" /\ \A u \in Threads : u # t => pc'[u] = pc[u]
    BY <1>0, <1>6, GotoType DEF FreeStore
  <2> QED BY <1>6, <2>1, <2>2 DEF FreeStore, TypeOK, Labels
<1>7. CASE UNCHANGED vars
  BY <1>7 DEF vars, TypeOK
<1> QED BY <1>1, <1>2, <1>3, <1>4, <1>5, <1>6, <1>7 DEF Next

(* The pool's variables keep their types for any program; a slot that is   *)
(* read by alloc_spawn exists even if the count was moved since its test.  *)
THEOREM TypeCorrect == Spec => []TypeOK
BY TypeInit, TypeNext, PTL DEF Spec

-----------------------------------------------------------------------------
(* The threads that have got to l.                                         *)
At(l) == {t \in Threads : pc[t] = l}

(* One thread steps: those at l change by that thread.                     *)
LEMMA StaysAway ==
  ASSUME NEW t \in Threads, NEW l, \A u \in Threads : u # t => pc'[u] = pc[u],
         pc[t] # l, pc'[t] # l
  PROVE  At(l)' = At(l)
BY DEF At

LEMMA Arrives ==
  ASSUME NEW t \in Threads, NEW l, \A u \in Threads : u # t => pc'[u] = pc[u],
         pc[t] # l, pc'[t] = l
  PROVE  /\ At(l)' = At(l) \cup {t}
         /\ Cardinality(At(l)') = Cardinality(At(l)) + 1
<1>1. IsFiniteSet(At(l))
  BY FS_Subset, PoolAssumption DEF At
<1>2. At(l)' = At(l) \cup {t} /\ t \notin At(l)
  BY DEF At
<1> QED BY <1>1, <1>2, FS_AddElement

LEMMA Leaves ==
  ASSUME NEW t \in Threads, NEW l, \A u \in Threads : u # t => pc'[u] = pc[u],
         pc[t] = l, pc'[t] # l
  PROVE  /\ At(l)' = At(l) \ {t}
         /\ Cardinality(At(l)') = Cardinality(At(l)) - 1
<1>1. IsFiniteSet(At(l))
  BY FS_Subset, PoolAssumption DEF At
<1>2. At(l)' = At(l) \ {t} /\ t \in At(l)
  BY DEF At
<1> QED BY <1>1, <1>2, FS_RemoveElement

(* The threads between test and move are of the program's, and the count   *)
(* is in bounds even after they all have moved it.                         *)
Drift ==
  /\ At("alloc_sub") \subseteq program.allocators
  /\ At("free_add") \subseteq program.freers
  /\ count - Cardinality(At("alloc_sub")) >= 1 - Cardinality(program.allocators)
  /\ count + Cardinality(At("free_add")) <= PoolSize + Cardinality(program.freers) - 1

PoolInv == TypeOK /\ program \in Programs /\ Drift /\ IndexInBounds

LEMMA Sizes ==
  ASSUME NEW p \in Programs
  PROVE  /\ IsFiniteSet(p.allocators) /\ Cardinality(p.allocators) \in Nat \ {0}
         /\ IsFiniteSet(p.freers) /\ Cardinality(p.freers) \in Nat \ {0}
<1>1. p.allocators \in SUBSET Threads /\ p.allocators # {}
      /\ p.freers \in SUBSET Threads /\ p.freers # {}
  BY PoolAssumption DEF Program
<1>2. IsFiniteSet(p.allocators) /\ IsFiniteSet(p.freers)
  BY <1>1, FS_Subset, PoolAssumption
<1> QED BY <1>1, <1>2, FS_CardinalityType, FS_EmptySet

LEMMA DriftInit == Init => Drift /\ IndexInBounds /\ program \in Programs
<1> SUFFICES ASSUME Init PROVE Drift /\ IndexInBounds /\ program \in Programs
  OBVIOUS
<1>1. At("alloc_sub") = {} /\ At("free_add") = {}
  BY DEF Init, At
<1>2. count = 0 /\ program \in Programs
  BY DEF Init
<1>3. Cardinality({}) = 0
  BY FS_EmptySet
<1>4. Drift
  <2>1. /\ Cardinality(program.allocators) \in Nat \ {0}
        /\ Cardinality(program.freers) \in Nat \ {0}
    BY <1>2, Sizes
  <2>2. PoolSize \in Nat
    BY PoolAssumption
  <2>3. /\ 0 - 0 >= 1 - Cardinality(program.allocators)
        /\ 0 + 0 <= PoolSize + Cardinality(program.freers) - 1
    BY <2>1, <2>2
  <2> QED BY <1>1, <1>2, <1>3, <2>3, Zenon DEF Drift
<1>5. IndexInBounds
  BY DEF Init, IndexInBounds
<1> QED BY <1>2, <1>4, <1>5

(* A thread between test and move is counted among those that can be.      *)
LEMMA Between ==
  ASSUME PoolInv
  PROVE  /\ Cardinality(At("alloc_sub")) \in Nat /\ Cardinality(At("free_add")) \in Nat
         /\ Cardinality(At("alloc_sub")) <= Cardinality(program.allocators)
         /\ Cardinality(At("free_add")) <= Cardinality(program.freers)
<1>1. IsFiniteSet(program.allocators) /\ IsFiniteSet(program.freers)
  BY Sizes DEF PoolInv
<1>2. IsFiniteSet(At("alloc_sub")) /\ IsFiniteSet(At("free_add"))
  BY <1>1, FS_Subset DEF PoolInv, Drift
<1> QED BY <1>1, <1>2, FS_Subset, FS_CardinalityType DEF PoolInv, Drift

LEMMA Moved ==
  ASSUME TypeOK, NEW t \in Threads, NEW l \in Labels, Goto(t, l)
  PROVE  /\ pc'[t] = l
         /\ \A u \in Threads : u # t => pc'[u] = pc[u]
BY GotoType

LEMMA DriftNext == PoolInv /\ [Next]_vars => Drift'
<1> SUFFICES ASSUME PoolInv, [Next]_vars PROVE Drift'
  OBVIOUS
<1>0. /\ "idle" \in Labels /\ "alloc_sub" \in Labels /\ "alloc_read" \in Labels
      /\ "free_add" \in Labels /\ "free_store" \in Labels
  BY DEF Labels
<1> DEFINE A == At("alloc_sub")
           F == At("free_add")
           a == Cardinality(program.allocators)
           f == Cardinality(program.freers)
<1>a. /\ TypeOK /\ count \in Int /\ PoolSize \in Nat
      /\ a \in Nat \ {0} /\ f \in Nat \ {0}
      /\ Cardinality(A) \in Nat /\ Cardinality(F) \in Nat
      /\ Cardinality(A) <= a /\ Cardinality(F) <= f
      /\ A \subseteq program.allocators /\ F \subseteq program.freers
      /\ count - Cardinality(A) >= 1 - a
      /\ count + Cardinality(F) <= PoolSize + f - 1
  BY Sizes, Between, PoolAssumption DEF PoolInv, TypeOK, Drift
<1>b. IsFiniteSet(program.allocators) /\ IsFiniteSet(program.freers)
  BY Sizes DEF PoolInv
<1>1. ASSUME NEW t \in Threads, AllocLoad(t) PROVE Drift'
  <2>1. pc[t] = "idle" /\ count' = count /\ program' = program
    BY <1>1 DEF AllocLoad
  <2>2. CASE Offers
    <3>1. pc'[t] = "alloc_sub" /\ \A u \in Threads : u # t => pc'[u] = pc[u]
      BY <1>0, <1>1, <1>a, <2>2, Moved DEF AllocLoad
    <3>2. /\ At("alloc_sub")' = A \cup {t}
          /\ Cardinality(At("alloc_sub")') = Cardinality(A) + 1
          /\ At("free_add")' = F
      BY <2>1, <3>1, Arrives, Leaves, StaysAway
    <3>3. A \cup {t} \subseteq program.allocators
      BY <1>1, <1>a DEF AllocLoad
    <3>4. Cardinality(A) + 1 <= a
      BY <1>b, <3>2, <3>3, FS_Subset
    <3>5. count > 0
      BY <2>2 DEF Offers
    <3>6. count - (Cardinality(A) + 1) >= 1 - a
      BY <1>a, <3>4, <3>5
    <3> QED BY <1>a, <2>1, <3>2, <3>3, <3>6 DEF Drift
  <2>3. CASE ~Offers
    <3>1. pc'[t] = "idle" /\ \A u \in Threads : u # t => pc'[u] = pc[u]
      BY <1>0, <1>1, <1>a, <2>3, Moved DEF AllocLoad, Malloc
    <3>2. At("alloc_sub")' = A /\ At("free_add")' = F
      BY <2>1, <3>1, Arrives, Leaves, StaysAway
    <3> QED BY <1>a, <2>1, <3>2 DEF Drift
  <2> QED BY <2>2, <2>3
<1>2. ASSUME NEW t \in Threads, AllocSub(t) PROVE Drift'
  <2>1. pc[t] = "alloc_sub" /\ count' = count - 1 /\ program' = program
    BY <1>2 DEF AllocSub
  <2>2. pc'[t] \in {"alloc_read", "idle"} /\ \A u \in Threads : u # t => pc'[u] = pc[u]
    <3>1. CASE InSlot(Top)
      BY <1>0, <1>2, <1>a, <3>1, Moved DEF AllocSub
    <3>2. CASE ~InSlot(Top)
      BY <1>0, <1>2, <1>a, <3>2, Moved DEF AllocSub, Malloc
    <3> QED BY <3>1, <3>2
  <2>3. /\ At("alloc_sub")' = A \ {t}
        /\ Cardinality(At("alloc_sub")') = Cardinality(A) - 1
        /\ At("free_add")' = F
    BY <2>1, <2>2, Arrives, Leaves, StaysAway
  <2>4. /\ (count - 1) - (Cardinality(A) - 1) >= 1 - a
        /\ (count - 1) + Cardinality(F) <= PoolSize + f - 1
    BY <1>a
  <2> QED BY <1>a, <2>1, <2>3, <2>4 DEF Drift
<1>3. ASSUME NEW t \in Threads, AllocRead(t) PROVE Drift'
  <2>1. pc[t] = "alloc_read" /\ count' = count /\ program' = program
    BY <1>3 DEF AllocRead
  <2>2. pc'[t] = "idle" /\ \A u \in Threads : u # t => pc'[u] = pc[u]
    BY <1>0, <1>3, <1>a, Moved DEF AllocRead
  <2>3. At("alloc_sub")' = A /\ At("free_add")' = F
    BY <2>1, <2>2, Arrives, Leaves, StaysAway
  <2> QED BY <1>a, <2>1, <2>3 DEF Drift
<1>4. ASSUME NEW t \in Threads, NEW n \in Nodes, FreeLoad(t, n) PROVE Drift'
  <2>1. pc[t] = "idle" /\ count' = count /\ program' = program
    BY <1>4 DEF FreeLoad
  <2>2. CASE count < PoolSize
    <3>1. pc'[t] = "free_add" /\ \A u \in Threads : u # t => pc'[u] = pc[u]
      BY <1>0, <1>4, <1>a, <2>2, Moved DEF FreeLoad
    <3>2. /\ At("free_add")' = F \cup {t}
          /\ Cardinality(At("free_add")') = Cardinality(F) + 1
          /\ At("alloc_sub")' = A
      BY <2>1, <3>1, Arrives, Leaves, StaysAway
    <3>3. F \cup {t} \subseteq program.freers
      BY <1>4, <1>a DEF FreeLoad
    <3>4. Cardinality(F) + 1 <= f
      BY <1>b, <3>2, <3>3, FS_Subset
    <3>5. count + (Cardinality(F) + 1) <= PoolSize + f - 1
      BY <1>a, <2>2, <3>4
    <3> QED BY <1>a, <2>1, <3>2, <3>3, <3>5 DEF Drift
  <2>3. CASE ~(count < PoolSize)
    <3>1. pc' = pc
      BY <1>4, <2>3 DEF FreeLoad
    <3>2. At("alloc_sub")' = A /\ At("free_add")' = F
      BY <3>1 DEF At
    <3> QED BY <1>a, <2>1, <3>2 DEF Drift
  <2> QED BY <2>2, <2>3
<1>5. ASSUME NEW t \in Threads, FreeAdd(t) PROVE Drift'
  <2>1. pc[t] = "free_add" /\ count' = count + 1 /\ program' = program
    BY <1>5 DEF FreeAdd
  <2>2. pc'[t] \in {"free_store", "idle"} /\ \A u \in Threads : u # t => pc'[u] = pc[u]
    <3>1. CASE count < PoolSize
      BY <1>0, <1>5, <1>a, <3>1, Moved DEF FreeAdd
    <3>2. CASE ~(count < PoolSize)
      BY <1>0, <1>5, <1>a, <3>2, Moved DEF FreeAdd
    <3> QED BY <3>1, <3>2
  <2>3. /\ At("free_add")' = F \ {t}
        /\ Cardinality(At("free_add")') = Cardinality(F) - 1
        /\ At("alloc_sub")' = A
    BY <2>1, <2>2, Arrives, Leaves, StaysAway
  <2>4. /\ (count + 1) - Cardinality(A) >= 1 - a
        /\ (count + 1) + (Cardinality(F) - 1) <= PoolSize + f - 1
    BY <1>a
  <2> QED BY <1>a, <2>1, <2>3, <2>4 DEF Drift
<1>6. ASSUME NEW t \in Threads, FreeStore(t) PROVE Drift'
  <2>1. pc[t] = "free_store" /\ count' = count /\ program' = program
    BY <1>6 DEF FreeStore
  <2>2. pc'[t] = "idle" /\ \A u \in Threads : u # t => pc'[u] = pc[u]
    BY <1>0, <1>6, <1>a, Moved DEF FreeStore
  <2>3. At("alloc_sub")' = A /\ At("free_add")' = F
    BY <2>1, <2>2, Arrives, Leaves, StaysAway
  <2> QED BY <1>a, <2>1, <2>3 DEF Drift
<1>7. CASE UNCHANGED vars
  <2>1. At("alloc_sub")' = A /\ At("free_add")' = F
    BY <1>7 DEF vars, At
  <2>2. count' = count /\ program' = program
    BY <1>7 DEF vars
  <2> QED BY <1>a, <2>1, <2>2 DEF Drift
<1> QED BY <1>1, <1>2, <1>3, <1>4, <1>5, <1>6, <1>7 DEF Next, PoolInv

(* With one spawning thread the count is never below 0.                    *)
LEMMA IndexNext == PoolInv /\ [Next]_vars => IndexInBounds'
<1> SUFFICES ASSUME PoolInv, [Next]_vars, (Cardinality(program.allocators) = 1)',
                    NEW t \in Threads, pc'[t] = "free_store"
             PROVE  idx'[t] \in Slots
  BY DEF IndexInBounds
<1>1. program' = program
  BY DEF Next, AllocLoad, AllocSub, AllocRead, FreeLoad, FreeAdd, FreeStore, vars
<1>2. Cardinality(program.allocators) = 1
  BY <1>1
<1>3. count >= 0
  <2>1. count - Cardinality(At("alloc_sub")) >= 0
    BY <1>2 DEF PoolInv, Drift
  <2>2. Cardinality(At("alloc_sub")) \in Nat /\ count \in Int
    BY Between DEF PoolInv, TypeOK
  <2> QED BY <2>1, <2>2
<1>4. TypeOK /\ \A u \in Threads : pc[u] = "free_store" => idx[u] \in Slots
  BY <1>2 DEF PoolInv, IndexInBounds
<1>5. ASSUME NEW u \in Threads, AllocLoad(u) PROVE idx'[t] \in Slots
  <2>1. idx' = idx /\ pc[t] = "free_store"
    BY <1>4, <1>5 DEF AllocLoad, Malloc, Goto, TypeOK
  <2> QED BY <1>4, <2>1
<1>6. ASSUME NEW u \in Threads, AllocSub(u) PROVE idx'[t] \in Slots
  <2>1. t # u /\ pc[t] = "free_store"
    BY <1>4, <1>6 DEF AllocSub, Malloc, Goto, TypeOK
  <2>2. idx'[t] = idx[t]
    BY <1>4, <1>6, <2>1 DEF AllocSub, TypeOK
  <2> QED BY <1>4, <2>1, <2>2
<1>7. ASSUME NEW u \in Threads, AllocRead(u) PROVE idx'[t] \in Slots
  <2>1. idx' = idx /\ pc[t] = "free_store"
    BY <1>4, <1>7 DEF AllocRead, Goto, TypeOK
  <2> QED BY <1>4, <2>1
<1>8. ASSUME NEW u \in Threads, NEW n \in Nodes, FreeLoad(u, n) PROVE idx'[t] \in Slots
  <2>1. idx' = idx /\ pc[t] = "free_store"
    BY <1>4, <1>8 DEF FreeLoad, Goto, TypeOK
  <2> QED BY <1>4, <2>1
<1>9. ASSUME NEW u \in Threads, FreeAdd(u) PROVE idx'[t] \in Slots
  <2>1. CASE t = u
    <3>1. count < PoolSize
      BY <1>4, <1>9, <2>1 DEF FreeAdd, Goto, TypeOK
    <3>2. idx'[t] = count
      BY <1>4, <1>9, <2>1 DEF FreeAdd, TypeOK
    <3>3. count \in Int /\ PoolSize \in Int
      BY <1>4, PoolAssumption DEF TypeOK
    <3> QED BY <1>3, <3>1, <3>2, <3>3 DEF Slots
  <2>2. CASE t # u
    <3>1. idx'[t] = idx[t] /\ pc[t] = "free_store"
      BY <1>4, <1>9, <2>2 DEF FreeAdd, Goto, TypeOK
    <3> QED BY <1>4, <3>1
  <2> QED BY <2>1, <2>2
<1>10. ASSUME NEW u \in Threads, FreeStore(u) PROVE idx'[t] \in Slots
  <2>1. idx' = idx /\ pc[t] = "free_store"
    BY <1>4, <1>10 DEF FreeStore, Goto, TypeOK
  <2> QED BY <1>4, <2>1
<1>11. CASE UNCHANGED vars
  BY <1>4, <1>11 DEF vars
<1> QED BY <1>5, <1>6, <1>7, <1>8, <1>9, <1>10, <1>11 DEF Next

LEMMA PoolInvariant == Spec => []PoolInv
<1>1. Init => PoolInv
  BY TypeInit, DriftInit DEF PoolInv
<1>2. PoolInv /\ [Next]_vars => PoolInv'
  <2> SUFFICES ASSUME PoolInv, [Next]_vars PROVE PoolInv'
    OBVIOUS
  <2>1. program' = program
    BY DEF Next, AllocLoad, AllocSub, AllocRead, FreeLoad, FreeAdd, FreeStore, vars
  <2> QED BY <2>1, TypeNext, DriftNext, IndexNext DEF PoolInv
<1> QED BY <1>1, <1>2, PTL DEF Spec

(* The count leaves the array's range by less than there are threads on    *)
(* either side, for any number of threads and any size of the pool.        *)
THEOREM CountCorrect == Spec => []CountInBounds
<1>1. PoolInv => CountInBounds
  <2> SUFFICES ASSUME PoolInv PROVE CountInBounds
    OBVIOUS
  <2>1. /\ Cardinality(program.allocators) \in Nat /\ Cardinality(program.freers) \in Nat
        /\ Cardinality(At("alloc_sub")) \in Nat /\ Cardinality(At("free_add")) \in Nat
        /\ count \in Int /\ PoolSize \in Nat
    BY Between, Sizes, PoolAssumption DEF PoolInv, TypeOK
  <2>2. /\ count - Cardinality(At("alloc_sub")) >= 1 - Cardinality(program.allocators)
        /\ count + Cardinality(At("free_add")) <= PoolSize + Cardinality(program.freers) - 1
    BY DEF PoolInv, Drift
  <2> QED BY <2>1, <2>2 DEF CountInBounds
<1> QED BY <1>1, PoolInvariant, PTL

(* A program that spawns from one thread stores inside the array only,     *)
(* however many threads give nodes back.                                   *)
THEOREM IndexCorrect == Spec => []IndexInBounds
<1>1. PoolInv => IndexInBounds
  BY DEF PoolInv
<1> QED BY <1>1, PoolInvariant, PTL

-----------------------------------------------------------------------------
(* One thread uses the pool: what it does is a sequence of calls.          *)
Alone(u) == u \in Threads /\ program.allocators \cup program.freers = {u}

(* Where thread u, and nobody else, can be while the count moves.          *)
Sequential(u) ==
  /\ \A t \in Threads : t # u => pc[t] = "idle"
  /\ count \in 0 .. PoolSize
  /\ pc[u] = "alloc_sub" => count > 0
  /\ pc[u] = "alloc_read" => idx[u] = count
  /\ pc[u] = "free_add" => count < PoolSize
  /\ pc[u] = "free_store" => idx[u] = count - 1 /\ count > 0

(* The slots below this one hold a node.                                   *)
Filled(u) == IF pc[u] = "free_store" THEN count - 1 ELSE count

(* The node that u takes out of the pool or gives back to it, if any.      *)
Carried(u) == CASE pc[u] = "alloc_read"                  -> pool[idx[u]]
                [] pc[u] \in {"free_add", "free_store"} -> node[u]
                [] OTHER                                -> Null

(* o, h and p are out, heap and pool; the slots below f are filled, and x  *)
(* is carried: every node that was supplied is in one place.               *)
Owned(o, h, p, f, x) ==
  /\ o[Null] = 0
  /\ \A n \in Nodes : o[n] \in 0 .. 1 /\ (o[n] = 1 => n \in h)
  /\ \A i \in 0 .. f - 1 : p[i] \in h /\ o[p[i]] = 0 /\ p[i] # x
  /\ \A i, j \in 0 .. f - 1 : p[i] = p[j] => i = j
  /\ x # Null => x \in h /\ o[x] = 0
  /\ \A n \in h : o[n] = 1 \/ n = x \/ \E i \in 0 .. f - 1 : p[i] = n

Sole(u) ==
  /\ Sequential(u)
  /\ pc[u] \in {"alloc_read", "free_add", "free_store"} => Carried(u) # Null
  /\ Owned(out, heap, pool, Filled(u), Carried(u))

Memory(o, h, p, f, x) ==
  /\ o \in [Nodes \cup {Null} -> Nat] /\ h \subseteq Nodes
  /\ p \in [Slots -> Nodes \cup {Null}]
  /\ f \in 0 .. PoolSize /\ x \in Nodes \cup {Null}

(* A node that malloc supplies goes to a spawn.                            *)
LEMMA OwnedMalloc ==
  ASSUME NEW o, NEW h, NEW p, NEW f, Memory(o, h, p, f, Null), Owned(o, h, p, f, Null),
         NEW n \in Nodes \ h
  PROVE  Owned([o EXCEPT ![n] = @ + 1], h \cup {n}, p, f, Null)
<1> DEFINE q == [o EXCEPT ![n] = @ + 1]
<1>0. Null \notin Nodes
  BY PoolAssumption
<1>1. o[n] = 0
  BY DEF Owned, Memory
<1>2. q[n] = 1 /\ \A m \in Nodes \cup {Null} : m # n => q[m] = o[m]
  BY <1>1 DEF Memory
<1>3. \A i \in 0 .. f - 1 : p[i] \in h /\ p[i] # n /\ p[i] \in Nodes
  BY DEF Owned, Memory
<1>4. q[Null] = 0 /\ \A m \in Nodes : q[m] \in 0 .. 1 /\ (q[m] = 1 => m \in h \cup {n})
  BY <1>0, <1>2 DEF Owned
<1>5. \A i \in 0 .. f - 1 : p[i] \in h \cup {n} /\ q[p[i]] = 0 /\ p[i] # Null
  BY <1>2, <1>3 DEF Owned
<1>6. \A m \in h \cup {n} : q[m] = 1 \/ m = Null \/ \E i \in 0 .. f - 1 : p[i] = m
  BY <1>2 DEF Owned, Memory
<1>7. \A i, j \in 0 .. f - 1 : p[i] = p[j] => i = j
  BY DEF Owned
<1> HIDE DEF q
<1>8. Owned(q, h \cup {n}, p, f, Null)
  BY <1>4, <1>5, <1>6, <1>7 DEF Owned
<1> QED BY <1>8 DEF q

(* The last filled slot is left for the thread to read.                    *)
LEMMA OwnedTake ==
  ASSUME NEW o, NEW h, NEW p, NEW f, Memory(o, h, p, f, Null), Owned(o, h, p, f, Null),
         f > 0
  PROVE  Owned(o, h, p, f - 1, p[f - 1]) /\ p[f - 1] \in Nodes
<1>0. Null \notin Nodes
  BY PoolAssumption
<1>1. f \in Int /\ f - 1 \in 0 .. f - 1 /\ f - 1 - 1 \in Int
  BY PoolAssumption DEF Memory
<1>2. p[f - 1] \in h /\ o[p[f - 1]] = 0 /\ p[f - 1] \in Nodes
  BY <1>1 DEF Owned, Memory
<1>3. \A i \in 0 .. f - 1 - 1 : i \in 0 .. f - 1 /\ i # f - 1
  BY <1>1
<1>4. \A i \in 0 .. f - 1 - 1 : p[i] \in h /\ o[p[i]] = 0 /\ p[i] # p[f - 1]
  BY <1>1, <1>3 DEF Owned
<1>5. \A i, j \in 0 .. f - 1 - 1 : p[i] = p[j] => i = j
  BY <1>3 DEF Owned
<1>6. \A n \in h : o[n] = 1 \/ n = p[f - 1] \/ \E i \in 0 .. f - 1 - 1 : p[i] = n
  <2> SUFFICES ASSUME NEW n \in h, o[n] # 1, n # p[f - 1]
               PROVE  \E i \in 0 .. f - 1 - 1 : p[i] = n
    OBVIOUS
  <2>1. n # Null
    BY <1>0 DEF Memory
  <2>2. PICK i \in 0 .. f - 1 : p[i] = n
    BY <2>1 DEF Owned
  <2>3. i \in 0 .. f - 1 - 1
    BY <1>1, <2>2
  <2> QED BY <2>2, <2>3
<1> QED BY <1>2, <1>4, <1>5, <1>6 DEF Owned

(* The node that is carried goes to a spawn.                               *)
LEMMA OwnedHandOut ==
  ASSUME NEW o, NEW h, NEW p, NEW f, NEW x, Memory(o, h, p, f, x), Owned(o, h, p, f, x),
         x # Null
  PROVE  Owned([o EXCEPT ![x] = @ + 1], h, p, f, Null)
<1> DEFINE q == [o EXCEPT ![x] = @ + 1]
<1>0. Null \notin Nodes
  BY PoolAssumption
<1>1. o[x] = 0 /\ x \in h /\ x \in Nodes
  BY DEF Owned, Memory
<1>2. q[x] = 1 /\ \A m \in Nodes \cup {Null} : m # x => q[m] = o[m]
  BY <1>1 DEF Memory
<1>3. \A i \in 0 .. f - 1 : p[i] \in h /\ p[i] # x /\ p[i] \in Nodes
  BY DEF Owned, Memory
<1>4. q[Null] = 0 /\ \A m \in Nodes : q[m] \in 0 .. 1 /\ (q[m] = 1 => m \in h)
  BY <1>0, <1>1, <1>2 DEF Owned
<1>5. \A i \in 0 .. f - 1 : p[i] \in h /\ q[p[i]] = 0 /\ p[i] # Null
  BY <1>0, <1>2, <1>3 DEF Owned
<1>6. \A m \in h : q[m] = 1 \/ m = Null \/ \E i \in 0 .. f - 1 : p[i] = m
  BY <1>2 DEF Owned, Memory
<1>7. \A i, j \in 0 .. f - 1 : p[i] = p[j] => i = j
  BY DEF Owned
<1> HIDE DEF q
<1>8. Owned(q, h, p, f, Null)
  BY <1>4, <1>5, <1>6, <1>7 DEF Owned
<1> QED BY <1>8 DEF q

(* A spawn has run, and its node is given back or freed.                   *)
LEMMA OwnedReturn ==
  ASSUME NEW o, NEW h, NEW p, NEW f, Memory(o, h, p, f, Null), Owned(o, h, p, f, Null),
         NEW n \in Nodes, o[n] > 0
  PROVE  /\ Owned([o EXCEPT ![n] = @ - 1], h, p, f, n)
         /\ Owned([o EXCEPT ![n] = @ - 1], h \ {n}, p, f, Null)
<1> DEFINE q == [o EXCEPT ![n] = @ - 1]
<1>0. Null \notin Nodes
  BY PoolAssumption
<1>1. o[n] = 1 /\ n \in h
  BY DEF Owned, Memory
<1>2. q[n] = 0 /\ \A m \in Nodes \cup {Null} : m # n => q[m] = o[m]
  BY <1>1 DEF Memory
<1>3. \A i \in 0 .. f - 1 : p[i] \in h \ {n} /\ p[i] # n /\ p[i] \in Nodes /\ p[i] # Null
  BY <1>0, <1>1 DEF Owned, Memory
<1>4. q[Null] = 0 /\ \A m \in Nodes : q[m] \in 0 .. 1 /\ (q[m] = 1 => m \in h \ {n})
  BY <1>0, <1>2 DEF Owned
<1>5. \A i \in 0 .. f - 1 : q[p[i]] = 0
  BY <1>2, <1>3 DEF Owned
<1>6. \A m \in h : q[m] = 1 \/ m = n \/ \E i \in 0 .. f - 1 : p[i] = m
  BY <1>0, <1>2 DEF Owned, Memory
<1>7. \A i, j \in 0 .. f - 1 : p[i] = p[j] => i = j
  BY DEF Owned
<1> HIDE DEF q
<1>8. Owned(q, h, p, f, n)
  BY <1>1, <1>2, <1>3, <1>4, <1>5, <1>6, <1>7 DEF Owned
<1>9. Owned(q, h \ {n}, p, f, Null)
  BY <1>1, <1>2, <1>3, <1>4, <1>5, <1>6, <1>7 DEF Owned
<1> QED BY <1>8, <1>9 DEF q

(* The node that is carried goes into the next slot.                       *)
LEMMA OwnedStore ==
  ASSUME NEW o, NEW h, NEW p, NEW f, NEW x, Memory(o, h, p, f, x), Owned(o, h, p, f, x),
         x # Null, f < PoolSize
  PROVE  Owned(o, h, [p EXCEPT ![f] = x], f + 1, Null)
<1> DEFINE r == [p EXCEPT ![f] = x]
<1>0. Null \notin Nodes /\ PoolSize \in Nat
  BY PoolAssumption
<1>1. f \in Int /\ f \in Slots /\ f + 1 - 1 = f
  BY <1>0 DEF Memory, Slots
<1>2. r[f] = x /\ \A i \in 0 .. f - 1 : i \in Slots /\ r[i] = p[i]
  BY <1>0, <1>1 DEF Memory, Slots
<1>3. \A i \in 0 .. f : i \in 0 .. f - 1 \/ i = f
  BY <1>1
<1>4. x \in h /\ o[x] = 0 /\ x \in Nodes
  BY DEF Owned, Memory
<1>5. \A i \in 0 .. f : r[i] \in h /\ o[r[i]] = 0
  BY <1>2, <1>3, <1>4 DEF Owned
<1>6. \A i \in 0 .. f : r[i] # Null
  BY <1>0, <1>5 DEF Memory
<1>7. ASSUME NEW i \in 0 .. f, NEW j \in 0 .. f, r[i] = r[j] PROVE i = j
  <2>1. CASE i = f /\ j \in 0 .. f - 1
    BY <1>2, <1>7, <2>1 DEF Owned
  <2>2. CASE j = f /\ i \in 0 .. f - 1
    BY <1>2, <1>7, <2>2 DEF Owned
  <2>3. CASE i \in 0 .. f - 1 /\ j \in 0 .. f - 1
    BY <1>2, <1>7, <2>3 DEF Owned
  <2> QED BY <1>3, <2>1, <2>2, <2>3
<1>8. ASSUME NEW m \in h PROVE o[m] = 1 \/ \E i \in 0 .. f : r[i] = m
  <2>1. f \in 0 .. f /\ \A i \in 0 .. f - 1 : i \in 0 .. f
    BY <1>1 DEF Memory
  <2> QED BY <1>2, <1>8, <2>1 DEF Owned
<1>9. o[Null] = 0 /\ \A m \in Nodes : o[m] \in 0 .. 1 /\ (o[m] = 1 => m \in h)
  BY DEF Owned
<1> HIDE DEF r
<1>10. Owned(o, h, r, f + 1, Null)
  BY <1>1, <1>5, <1>6, <1>7, <1>8, <1>9 DEF Owned
<1> QED BY <1>10 DEF r

LEMMA SoleMemory ==
  ASSUME TypeOK, NEW u \in Threads, Sole(u)
  PROVE  Memory(out, heap, pool, Filled(u), Carried(u)) /\ count \in Int /\ PoolSize \in Nat
<1>1. PoolSize \in Nat /\ count \in 0 .. PoolSize /\ count \in Int
  BY PoolAssumption DEF Sole, Sequential
<1>2. Filled(u) \in 0 .. PoolSize
  <2>1. CASE pc[u] = "free_store"
    <3>1. count > 0
      BY <2>1 DEF Sole, Sequential
    <3> QED BY <1>1, <2>1, <3>1 DEF Filled
  <2>2. CASE pc[u] # "free_store"
    BY <1>1, <2>2 DEF Filled
  <2> QED BY <2>1, <2>2
<1>3. Carried(u) \in Nodes \cup {Null}
  BY DEF Carried, TypeOK
<1> QED BY <1>1, <1>2, <1>3 DEF Memory, TypeOK

LEMMA SoleInit ==
  ASSUME Init, NEW u, Alone(u)
  PROVE  Sole(u)
<1>1. PoolSize \in Nat /\ Null \notin Nodes /\ u \in Threads
  BY PoolAssumption DEF Alone
<1>2. Sequential(u) /\ pc[u] = "idle"
  BY <1>1 DEF Init, Sequential
<1>3. Filled(u) = 0 /\ Carried(u) = Null
  BY <1>2 DEF Init, Filled, Carried
<1>4. Owned(out, heap, pool, 0, Null)
  BY <1>1 DEF Init, Owned
<1> QED BY <1>2, <1>3, <1>4 DEF Sole

(* Only the one thread steps.                                              *)
LEMMA SoleSteps ==
  ASSUME NEW u, Alone(u), Sole(u), NEW t \in Threads,
         t \in program.allocators \cup program.freers \/ pc[t] # "idle"
  PROVE  t = u
BY DEF Alone, Sole, Sequential

LEMMA SoleNext ==
  ASSUME TypeOK, NEW u, Alone(u), Sole(u), [Next]_vars
  PROVE  Sole(u)'
<1> USE DEF Labels
<1>0. /\ u \in Threads /\ PoolSize \in Nat /\ Null \notin Nodes /\ count \in Int
      /\ Memory(out, heap, pool, Filled(u), Carried(u))
      /\ Owned(out, heap, pool, Filled(u), Carried(u))
      /\ count \in 0 .. PoolSize
      /\ \A t \in Threads : t # u => pc[t] = "idle"
  BY PoolAssumption, SoleMemory DEF Alone, Sole, Sequential
<1>1. ASSUME NEW l \in Labels, Goto(u, l)
      PROVE  pc'[u] = l /\ \A t \in Threads : t # u => pc'[t] = "idle"
  BY <1>0, <1>1, GotoType
<1>2. ASSUME Malloc(u), Carried(u) = Null, pc[u] # "free_store",
             count' = Filled(u), pool' = pool
      PROVE  Sole(u)'
  <2>1. pc'[u] = "idle" /\ \A t \in Threads : t # u => pc'[t] = "idle"
    BY <1>1, <1>2 DEF Malloc
  <2>2. PICK n \in Nodes \ heap :
          out' = [out EXCEPT ![n] = @ + 1] /\ heap' = heap \cup {n}
    BY <1>2 DEF Malloc, HandOut
  <2>3. Memory(out, heap, pool, Filled(u), Null) /\ Owned(out, heap, pool, Filled(u), Null)
    BY <1>0, <1>2
  <2>4. Owned([out EXCEPT ![n] = @ + 1], heap \cup {n}, pool, Filled(u), Null)
    BY <2>3, OwnedMalloc
  <2>5. PICK f : f = Filled(u)
    OBVIOUS
  <2>6. Owned(out', heap', pool', f, Null)
    BY <1>2, <2>2, <2>4, <2>5
  <2>7. Filled(u)' = f /\ Carried(u)' = Null
    BY <1>2, <2>1, <2>5 DEF Filled, Carried
  <2>8. Sequential(u)'
    BY <1>0, <1>2, <2>1, <2>5 DEF Sequential, Memory
  <2> QED BY <2>1, <2>6, <2>7, <2>8 DEF Sole
<1>3. ASSUME NEW t \in Threads, AllocLoad(t) PROVE Sole(u)'
  <2>1. t = u /\ pc[u] = "idle"
    BY <1>3, SoleSteps DEF AllocLoad
  <2>2. Filled(u) = count /\ Carried(u) = Null
    BY <2>1 DEF Filled, Carried
  <2>3. CASE Offers
    <3>1. Goto(u, "alloc_sub") /\ UNCHANGED <<heap, out, count, pool, idx>>
      BY <1>3, <2>1, <2>3 DEF AllocLoad
    <3>2. pc'[u] = "alloc_sub" /\ \A v \in Threads : v # u => pc'[v] = "idle"
      BY <1>1, <3>1
    <3>3. Filled(u)' = count /\ Carried(u)' = Null
      BY <3>1, <3>2 DEF Filled, Carried
    <3>4. Sequential(u)'
      BY <1>0, <2>3, <3>1, <3>2 DEF Sequential, Offers
    <3>5. Owned(out, heap, pool, count, Null)
      BY <1>0, <2>2
    <3> QED BY <3>1, <3>2, <3>3, <3>4, <3>5 DEF Sole
  <2>4. CASE ~Offers
    <3>1. Malloc(u) /\ count' = count /\ pool' = pool
      BY <1>3, <2>1, <2>4 DEF AllocLoad
    <3> QED BY <1>2, <2>1, <2>2, <3>1
  <2> QED BY <2>3, <2>4
<1>4. ASSUME NEW t \in Threads, AllocSub(t) PROVE Sole(u)'
  <2>1. t = u /\ pc[u] = "alloc_sub"
    BY <1>4, SoleSteps DEF AllocSub
  <2>2. Filled(u) = count /\ Carried(u) = Null /\ count > 0
    BY <2>1 DEF Filled, Carried, Sole, Sequential
  <2>3. InSlot(Top) /\ Top = count - 1
    BY <1>0, <2>2 DEF InSlot, Top, Slots
  <2>4. /\ Goto(u, "alloc_read") /\ UNCHANGED <<heap, out, pool>>
        /\ count' = count - 1 /\ idx' = [idx EXCEPT ![u] = count - 1]
    BY <1>4, <2>1, <2>3 DEF AllocSub
  <2>5. pc'[u] = "alloc_read" /\ \A v \in Threads : v # u => pc'[v] = "idle"
    BY <1>1, <2>4
  <2>6. idx'[u] = count - 1
    BY <1>0, <2>4 DEF TypeOK
  <2>7. Owned(out, heap, pool, count - 1, pool[count - 1]) /\ pool[count - 1] \in Nodes
    BY <1>0, <2>2, OwnedTake
  <2>8. Filled(u)' = count - 1 /\ Carried(u)' = pool[count - 1]
    BY <2>4, <2>5, <2>6 DEF Filled, Carried
  <2>9. Sequential(u)'
    BY <1>0, <2>2, <2>4, <2>5, <2>6 DEF Sequential
  <2>10. Carried(u)' # Null
    BY <1>0, <2>7, <2>8
  <2> QED BY <2>4, <2>7, <2>8, <2>9, <2>10 DEF Sole
<1>5. ASSUME NEW t \in Threads, AllocRead(t) PROVE Sole(u)'
  <2>1. t = u /\ pc[u] = "alloc_read"
    BY <1>5, SoleSteps DEF AllocRead
  <2>2. Filled(u) = count /\ Carried(u) = pool[idx[u]] /\ Carried(u) # Null
    BY <2>1 DEF Filled, Carried, Sole
  <2>3. /\ Goto(u, "idle") /\ UNCHANGED <<heap, pool, count>>
        /\ out' = [out EXCEPT ![pool[idx[u]]] = @ + 1]
    BY <1>5, <2>1 DEF AllocRead, HandOut
  <2>4. pc'[u] = "idle" /\ \A v \in Threads : v # u => pc'[v] = "idle"
    BY <1>1, <2>3
  <2>5. PICK x : x = pool[idx[u]]
    OBVIOUS
  <2>6. Owned([out EXCEPT ![x] = @ + 1], heap, pool, count, Null)
    BY <1>0, <2>2, <2>5, OwnedHandOut
  <2>7. Owned(out', heap', pool', count, Null)
    BY <2>3, <2>5, <2>6
  <2>8. Filled(u)' = count /\ Carried(u)' = Null
    BY <2>3, <2>4 DEF Filled, Carried
  <2>9. Sequential(u)'
    BY <1>0, <2>3, <2>4 DEF Sequential
  <2> QED BY <2>4, <2>7, <2>8, <2>9 DEF Sole
<1>6. ASSUME NEW t \in Threads, NEW n \in Nodes, FreeLoad(t, n) PROVE Sole(u)'
  <2>1. t = u /\ pc[u] = "idle" /\ out[n] > 0
    BY <1>6, SoleSteps DEF FreeLoad
  <2>2. Filled(u) = count /\ Carried(u) = Null
    BY <2>1 DEF Filled, Carried
  <2>3. /\ Owned([out EXCEPT ![n] = @ - 1], heap, pool, count, n)
        /\ Owned([out EXCEPT ![n] = @ - 1], heap \ {n}, pool, count, Null)
    BY <1>0, <2>1, <2>2, OwnedReturn
  <2>4. out' = [out EXCEPT ![n] = @ - 1] /\ UNCHANGED <<count, pool, idx>>
    BY <1>6 DEF FreeLoad
  <2>5. CASE count < PoolSize
    <3>1. Goto(u, "free_add") /\ node' = [node EXCEPT ![u] = n] /\ heap' = heap
      BY <1>6, <2>1, <2>5 DEF FreeLoad
    <3>2. pc'[u] = "free_add" /\ \A v \in Threads : v # u => pc'[v] = "idle"
      BY <1>1, <3>1
    <3>3. Filled(u)' = count /\ Carried(u)' = n
      BY <1>0, <2>4, <3>1, <3>2 DEF Filled, Carried, TypeOK
    <3>4. Sequential(u)'
      BY <1>0, <2>4, <2>5, <3>2 DEF Sequential
    <3>5. Owned(out', heap', pool', count, n)
      BY <2>3, <2>4, <3>1
    <3> QED BY <1>0, <3>2, <3>3, <3>4, <3>5 DEF Sole
  <2>6. CASE ~(count < PoolSize)
    <3>1. heap' = heap \ {n} /\ UNCHANGED <<pc, node>>
      BY <1>6, <2>6 DEF FreeLoad
    <3>2. Filled(u)' = count /\ Carried(u)' = Null
      BY <2>1, <2>4, <3>1 DEF Filled, Carried
    <3>3. Sequential(u)'
      BY <1>0, <2>1, <2>4, <3>1 DEF Sequential
    <3>4. Owned(out', heap', pool', count, Null)
      BY <2>3, <2>4, <3>1
    <3> QED BY <2>1, <3>1, <3>2, <3>3, <3>4 DEF Sole
  <2> QED BY <2>5, <2>6
<1>7. ASSUME NEW t \in Threads, FreeAdd(t) PROVE Sole(u)'
  <2>1. t = u /\ pc[u] = "free_add"
    BY <1>7, SoleSteps DEF FreeAdd
  <2>2. Filled(u) = count /\ Carried(u) = node[u] /\ node[u] # Null /\ count < PoolSize
    BY <2>1 DEF Filled, Carried, Sole, Sequential
  <2>3. /\ Goto(u, "free_store") /\ UNCHANGED <<heap, out, pool, node>>
        /\ count' = count + 1 /\ idx' = [idx EXCEPT ![u] = count]
    BY <1>7, <2>1, <2>2 DEF FreeAdd
  <2>4. pc'[u] = "free_store" /\ \A v \in Threads : v # u => pc'[v] = "idle"
    BY <1>1, <2>3
  <2>5. idx'[u] = count /\ count' - 1 = count
    BY <1>0, <2>3 DEF TypeOK
  <2>6. Filled(u)' = count /\ Carried(u)' = node[u]
    BY <2>3, <2>4, <2>5 DEF Filled, Carried
  <2>7. Sequential(u)'
    BY <1>0, <2>2, <2>3, <2>4, <2>5 DEF Sequential
  <2>8. Owned(out, heap, pool, count, node[u])
    BY <1>0, <2>2
  <2> QED BY <2>2, <2>3, <2>6, <2>7, <2>8 DEF Sole
<1>8. ASSUME NEW t \in Threads, FreeStore(t) PROVE Sole(u)'
  <2>1. t = u /\ pc[u] = "free_store" /\ idx[u] \in Slots
    BY <1>8, SoleSteps DEF FreeStore
  <2>2. /\ Filled(u) = count - 1 /\ Carried(u) = node[u] /\ node[u] # Null
        /\ idx[u] = count - 1
    BY <2>1 DEF Filled, Carried, Sole, Sequential
  <2>3. /\ Goto(u, "idle") /\ UNCHANGED <<count, heap, out>>
        /\ pool' = [pool EXCEPT ![count - 1] = node[u]]
    BY <1>8, <2>1, <2>2 DEF FreeStore
  <2>4. pc'[u] = "idle" /\ \A v \in Threads : v # u => pc'[v] = "idle"
    BY <1>1, <2>3
  <2>5. count - 1 < PoolSize /\ count - 1 + 1 = count
    BY <1>0
  <2>6. PICK f, x : f = count - 1 /\ x = node[u]
    OBVIOUS
  <2>7. Owned(out, heap, [pool EXCEPT ![f] = x], f + 1, Null)
    BY <1>0, <2>2, <2>5, <2>6, OwnedStore
  <2>8. Owned(out', heap', pool', count, Null)
    BY <2>3, <2>5, <2>6, <2>7
  <2>9. Filled(u)' = count /\ Carried(u)' = Null
    BY <2>3, <2>4 DEF Filled, Carried
  <2>10. Sequential(u)'
    BY <1>0, <2>3, <2>4 DEF Sequential
  <2> QED BY <2>4, <2>8, <2>9, <2>10 DEF Sole
<1>9. CASE UNCHANGED vars
  <2>1. Filled(u)' = Filled(u) /\ Carried(u)' = Carried(u) /\ Sequential(u)'
    BY <1>9 DEF vars, Filled, Carried, Sole, Sequential
  <2> QED BY <1>9, <2>1 DEF vars, Sole
<1> QED BY <1>3, <1>4, <1>5, <1>6, <1>7, <1>8, <1>9 DEF Next

(* The sets that Holders counts.                                           *)
Stored(n) == {i \in Pooled : pool[i] = n /\ ~Awaited(i)}
Returned(n) == {t \in Threads : pc[t] \in {"free_add", "free_store"} /\ node[t] = n}
Fetched(n) == {t \in Threads : pc[t] = "alloc_read" /\ pool[idx[t]] = n}

(* They have one element or none.                                          *)
LEMMA SolePlaces ==
  ASSUME TypeOK, NEW u, Alone(u), Sole(u), NEW n \in Nodes
  PROVE  /\ Stored(n) = {i \in 0 .. Filled(u) - 1 : pool[i] = n}
         /\ Stored(n) = {} \/ \E i : Stored(n) = {i}
         /\ Returned(n) = IF pc[u] \in {"free_add", "free_store"} /\ Carried(u) = n
                          THEN {u} ELSE {}
         /\ Fetched(n) = IF pc[u] = "alloc_read" /\ Carried(u) = n THEN {u} ELSE {}
<1>1. /\ u \in Threads /\ PoolSize \in Nat /\ count \in Int /\ count \in 0 .. PoolSize
      /\ \A t \in Threads : t # u => pc[t] = "idle"
      /\ Filled(u) \in 0 .. PoolSize
      /\ Owned(out, heap, pool, Filled(u), Carried(u))
  BY PoolAssumption, SoleMemory DEF Alone, Sole, Sequential, Memory
<1>2. \A i : i \in Pooled /\ ~Awaited(i) <=> i \in 0 .. Filled(u) - 1
  <2>1. CASE pc[u] = "free_store"
    <3>1. idx[u] = count - 1 /\ Filled(u) = count - 1
      BY <2>1 DEF Sole, Sequential, Filled
    <3>2. \A i : Awaited(i) <=> i = count - 1
      BY <1>1, <2>1, <3>1 DEF Awaited
    <3>3. \A i : i \in Pooled <=> i \in 0 .. count - 1
      BY <1>1 DEF Pooled, Slots
    <3> QED BY <1>1, <3>1, <3>2, <3>3
  <2>2. CASE pc[u] # "free_store"
    <3>1. Filled(u) = count /\ \A i : ~Awaited(i)
      BY <1>1, <2>2 DEF Filled, Awaited
    <3>2. \A i : i \in Pooled <=> i \in 0 .. count - 1
      BY <1>1 DEF Pooled, Slots
    <3> QED BY <3>1, <3>2
  <2> QED BY <2>1, <2>2
<1>3. Stored(n) = {i \in 0 .. Filled(u) - 1 : pool[i] = n}
  BY <1>2 DEF Stored
<1>4. Stored(n) = {} \/ \E i : Stored(n) = {i}
  <2>1. \A i, j \in 0 .. Filled(u) - 1 : pool[i] = pool[j] => i = j
    BY <1>1 DEF Owned
  <2>2. \A i, j \in Stored(n) : i = j
    BY <1>3, <2>1
  <2> QED BY <2>2
<1>5. Returned(n) = IF pc[u] \in {"free_add", "free_store"} /\ Carried(u) = n
                    THEN {u} ELSE {}
  BY <1>1 DEF Carried, Returned
<1>6. Fetched(n) = IF pc[u] = "alloc_read" /\ Carried(u) = n THEN {u} ELSE {}
  BY <1>1 DEF Carried, Fetched
<1> QED BY <1>3, <1>4, <1>5, <1>6

LEMMA SoleHolders ==
  ASSUME TypeOK, NEW u, Alone(u), Sole(u), NEW n \in Nodes
  PROVE  Holders(n) = IF n \in heap THEN 1 ELSE 0
<1>0. PICK B, C, D : B = Stored(n) /\ C = Returned(n) /\ D = Fetched(n)
  OBVIOUS
<1>1. Holders(n) = out[n] + Cardinality(B) + Cardinality(C) + Cardinality(D)
  BY <1>0 DEF Holders, Stored, Returned, Fetched
<1>2. /\ B = {i \in 0 .. Filled(u) - 1 : pool[i] = n}
      /\ B = {} \/ \E i : B = {i}
      /\ C = IF pc[u] \in {"free_add", "free_store"} /\ Carried(u) = n
             THEN {u} ELSE {}
      /\ D = IF pc[u] = "alloc_read" /\ Carried(u) = n THEN {u} ELSE {}
  BY <1>0, SolePlaces
<1>3. /\ Cardinality({}) = 0
      /\ \A x : Cardinality({x}) = 1
  BY FS_EmptySet, FS_Singleton
<1>4. /\ Cardinality(B) = IF B = {} THEN 0 ELSE 1
      /\ Cardinality(C) = IF C = {} THEN 0 ELSE 1
      /\ Cardinality(D) = IF D = {} THEN 0 ELSE 1
  BY <1>2, <1>3
<1>5. /\ Owned(out, heap, pool, Filled(u), Carried(u)) /\ out[n] \in 0 .. 1
      /\ heap \subseteq Nodes /\ Null \notin Nodes
      /\ pc[u] \notin {"alloc_read", "free_add", "free_store"} => Carried(u) = Null
  BY PoolAssumption DEF Sole, Owned, Carried, TypeOK
<1>6. B # {} => n \in heap /\ out[n] = 0 /\ Carried(u) # n
  <2> SUFFICES ASSUME B # {} PROVE n \in heap /\ out[n] = 0 /\ Carried(u) # n
    OBVIOUS
  <2>1. PICK i \in 0 .. Filled(u) - 1 : pool[i] = n
    BY <1>2
  <2> QED BY <1>5, <2>1 DEF Owned
<1>7. Carried(u) = n => n \in heap /\ out[n] = 0 /\ ((C = {u} /\ D = {}) \/ (C = {} /\ D = {u}))
  BY <1>2, <1>5 DEF Owned
<1>8. Carried(u) # n => C = {} /\ D = {}
  BY <1>2
<1>9. out[n] = 1 => n \in heap
  BY <1>5 DEF Owned
<1>10. n \in heap => out[n] = 1 \/ Carried(u) = n \/ B # {}
  BY <1>2, <1>5 DEF Owned
<1>11. CASE B # {}
  <2>1. /\ Cardinality(B) = 1 /\ Cardinality(C) = 0 /\ Cardinality(D) = 0
        /\ out[n] = 0 /\ n \in heap
    BY <1>4, <1>6, <1>8, <1>11
  <2> QED BY <1>1, <2>1
<1>12. CASE B = {} /\ Carried(u) = n
  <2>1. /\ Cardinality(B) = 0 /\ out[n] = 0 /\ n \in heap
        /\ \/ Cardinality(C) = 1 /\ Cardinality(D) = 0
           \/ Cardinality(C) = 0 /\ Cardinality(D) = 1
    BY <1>4, <1>7, <1>12
  <2> QED BY <1>1, <2>1
<1>13. CASE B = {} /\ Carried(u) # n
  <2>1. Cardinality(B) = 0 /\ Cardinality(C) = 0 /\ Cardinality(D) = 0
    BY <1>4, <1>8, <1>13
  <2>2. out[n] = IF n \in heap THEN 1 ELSE 0
    BY <1>5, <1>9, <1>10, <1>13
  <2> QED BY <1>1, <2>1, <2>2
<1> QED BY <1>11, <1>12, <1>13

(* While one thread uses the pool, every node that malloc has supplied is  *)
(* in one place and no spawn is handed what was never stored.              *)
THEOREM NodesCorrect == Spec => []EachNodeOnce
<1> DEFINE SoleInv == TypeOK /\ \A u : Alone(u) => Sole(u)
<1>1. Init => SoleInv
  BY TypeInit, SoleInit
<1>2. SoleInv /\ [Next]_vars => SoleInv'
  <2> SUFFICES ASSUME SoleInv, [Next]_vars PROVE SoleInv'
    OBVIOUS
  <2>1. program' = program
    BY DEF Next, AllocLoad, AllocSub, AllocRead, FreeLoad, FreeAdd, FreeStore, vars
  <2>2. ASSUME NEW u, Alone(u)' PROVE Sole(u)'
    <3>1. Alone(u)
      BY <2>1, <2>2 DEF Alone
    <3> QED BY <3>1, SoleNext
  <2> QED BY <2>2, TypeNext
<1>3. SoleInv => EachNodeOnce
  <2> SUFFICES ASSUME SoleInv, Cardinality(program.allocators \cup program.freers) = 1
               PROVE  /\ out[Null] = 0
                      /\ \A n \in Nodes : Holders(n) = IF n \in heap THEN 1 ELSE 0
    BY DEF EachNodeOnce
  <2>1. program.allocators \cup program.freers \subseteq Threads
    BY DEF TypeOK, Program
  <2>2. IsFiniteSet(program.allocators \cup program.freers)
    BY <2>1, PoolAssumption, FS_Subset
  <2>3. PICK u : program.allocators \cup program.freers = {u}
    BY <2>2, FS_Singleton
  <2>4. Alone(u) /\ Sole(u)
    BY <2>1, <2>3 DEF Alone
  <2> QED BY <2>4, SoleHolders DEF Sole, Owned
<1> QED BY <1>1, <1>2, <1>3, PTL DEF Spec
=============================================================================
