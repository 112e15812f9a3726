----------------------------- MODULE SpawnPool -----------------------------
(***************************************************************************)
(* One of the node pools of src/spawn.c: an array of recycled WynSpawn     *)
(* nodes with an atomic count and no lock.  Whoever enqueues a spawn for   *)
(* the pool's worker allocates a node from it; whoever runs under the      *)
(* worker's index gives a node back when its spawn has run.                *)
(*                                                                         *)
(* A step is one access to the shared count or to a slot.                  *)
(***************************************************************************)
EXTENDS Integers, FiniteSets

CONSTANTS
  Threads,   \* the threads of a program
  Programs,  \* what they do with this pool in the programs to check
  PoolSize,  \* SPAWN_POOL_SIZE, scaled down
  Nodes,     \* bound: the nodes malloc can supply
  Null       \* what a slot holds that was never written

(* The threads that enqueue spawns for this worker, and those whose        *)
(* worker_id is this worker's.                                             *)
Program == [allocators : SUBSET Threads, freers : SUBSET Threads]

ASSUME PoolAssumption ==
  /\ IsFiniteSet(Threads)
  /\ Programs \subseteq Program
  /\ \A p \in Programs : p.allocators # {} /\ p.freers # {}
  /\ PoolSize \in Nat \ {0}
  /\ Null \notin Nodes

Slots == 0 .. PoolSize - 1

VARIABLES
  program,  \* chosen once
  count,  \* pool->count
  pool,   \* pool->pool
  heap,   \* the nodes malloc has supplied and free has not taken back
  out,    \* how many spawns each node is in use for
  pc,     \* where each thread is in alloc_spawn or free_spawn
  idx,    \* its local of this name
  node    \* the node it is giving back

vars == <<program, count, pool, heap, out, pc, idx, node>>

Init ==
  /\ program \in Programs
  /\ count = 0
  /\ pool = [i \in Slots |-> Null]
  /\ heap = {}
  /\ out = [n \in Nodes \cup {Null} |-> 0]
  /\ pc = [t \in Threads |-> "idle"]
  /\ idx = [t \in Threads |-> 0]
  /\ node = [t \in Threads |-> Null]

(* The thread that enqueues a spawn writes into its node: Null ends the     *)
(* program, and no thread begins anything after that.                      *)
Crashed == out[Null] > 0

Goto(t, label) == pc' = [pc EXCEPT ![t] = label]

-----------------------------------------------------------------------------
(* alloc_spawn.  n is handed to a spawn.                                   *)
HandOut(n) == out' = [out EXCEPT ![n] = @ + 1]

(* The fallback: a node that malloc has not supplied before, or not since  *)
(* it was freed.                                                           *)
Malloc(t) ==
  /\ \E n \in Nodes \ heap : HandOut(n) /\ heap' = heap \cup {n}
  /\ Goto(t, "idle")

(* Mutant: off by one.                                                     *)
OffersOneMore == count >= 0

(* What the load of the count decides.                                     *)
Offers == count > 0

AllocLoad(t) ==
  /\ t \in program.allocators /\ pc[t] = "idle" /\ ~Crashed
  /\ IF Offers
     THEN Goto(t, "alloc_sub") /\ UNCHANGED <<heap, out>>
     ELSE Malloc(t)
  /\ UNCHANGED <<program, count, pool, idx, node>>

(* Mutant: the index is what fetch_sub returned.                           *)
TopAbove == count

(* What fetch_sub returned, less one; and the check of it.                 *)
Top       == count - 1
InSlot(i) == i \in Slots

AllocSub(t) ==
  /\ pc[t] = "alloc_sub"
  /\ count' = count - 1
  /\ idx' = [idx EXCEPT ![t] = Top]
  /\ IF InSlot(Top)
     THEN Goto(t, "alloc_read") /\ UNCHANGED <<heap, out>>
     ELSE Malloc(t)
  /\ UNCHANGED <<program, pool, node>>

AllocRead(t) ==
  /\ pc[t] = "alloc_read"
  /\ HandOut(pool[idx[t]])
  /\ Goto(t, "idle")
  /\ UNCHANGED <<program, count, pool, heap, idx, node>>

-----------------------------------------------------------------------------
(* free_spawn, after the spawn that used node n has run.                   *)
FreeLoad(t, n) ==
  /\ t \in program.freers /\ pc[t] = "idle" /\ ~Crashed
  /\ out[n] > 0
  /\ out' = [out EXCEPT ![n] = @ - 1]
  /\ IF count < PoolSize
     THEN Goto(t, "free_add") /\ node' = [node EXCEPT ![t] = n] /\ UNCHANGED heap
     ELSE heap' = heap \ {n} /\ UNCHANGED <<pc, node>>
  /\ UNCHANGED <<program, count, pool, idx>>

FreeAdd(t) ==
  /\ pc[t] = "free_add"
  /\ count' = count + 1
  /\ idx' = [idx EXCEPT ![t] = count]
  /\ IF count < PoolSize
     THEN Goto(t, "free_store") /\ UNCHANGED <<heap, node>>
     ELSE /\ Goto(t, "idle")
          /\ heap' = heap \ {node[t]}
          /\ node' = [node EXCEPT ![t] = Null]
  /\ UNCHANGED <<program, pool, out>>

(* The index is checked against the end of the array only; what a store    *)
(* before its start does is not defined, nor modelled.                     *)
FreeStore(t) ==
  /\ pc[t] = "free_store"
  /\ idx[t] \in Slots
  /\ pool' = [pool EXCEPT ![idx[t]] = node[t]]
  /\ node' = [node EXCEPT ![t] = Null]
  /\ Goto(t, "idle")
  /\ UNCHANGED <<program, count, heap, out, idx>>

Next ==
  \E t \in Threads :
    \/ AllocLoad(t) \/ AllocSub(t) \/ AllocRead(t)
    \/ \E n \in Nodes : FreeLoad(t, n)
    \/ FreeAdd(t) \/ FreeStore(t)

Spec == Init /\ [][Next]_vars

-----------------------------------------------------------------------------
(* The variables stay in their ranges, and a slot that is read exists.     *)
TypeOK ==
  /\ program \in Program
  /\ count \in Int
  /\ pool \in [Slots -> Nodes \cup {Null}]
  /\ heap \subseteq Nodes
  /\ out \in [Nodes \cup {Null} -> Nat]
  /\ pc \in [Threads -> {"idle", "alloc_sub", "alloc_read", "free_add", "free_store"}]
  /\ idx \in [Threads -> Int]
  /\ node \in [Threads -> Nodes \cup {Null}]
  /\ \A t \in Threads : pc[t] = "alloc_read" => idx[t] \in Slots

(* The count is tested in one step and moved in the next, but it never     *)
(* leaves the array's range by more than the threads that can be between   *)
(* the two, however long the program runs: one less than the threads that  *)
(* spawn below 0, one less than the threads that give back above PoolSize. *)
CountInBounds ==
  count \in 1 - Cardinality(program.allocators)
             .. PoolSize + Cardinality(program.freers) - 1

(* In a program that spawns from one thread only, no node is stored        *)
(* outside the array, although free_spawn does not check for an index      *)
(* below 0: the one thread that lowers the count has seen it above 0.      *)
IndexInBounds ==
  Cardinality(program.allocators) = 1 =>
    \A t \in Threads : pc[t] = "free_store" => idx[t] \in Slots

(* The nodes in the slots that the count says are full.                    *)
Pooled == {i \in Slots : i < count}

Awaited(i) == \E t \in Threads : pc[t] = "free_store" /\ idx[t] = i

(* The places where a node is: in use for a spawn, in the pool, with a     *)
(* thread that gives it back, in the slot a thread is about to read.       *)
Holders(n) ==
  out[n]
  + Cardinality({i \in Pooled : pool[i] = n /\ ~Awaited(i)})
  + Cardinality({t \in Threads : pc[t] \in {"free_add", "free_store"} /\ node[t] = n})
  + Cardinality({t \in Threads : pc[t] = "alloc_read" /\ pool[idx[t]] = n})

(* If one thread at a time uses the pool, as "thread-local pool"           *)
(* (src/spawn.c:34, 52) says, each node that malloc has supplied is in     *)
(* exactly one of these places: none is lost, none handed out twice, and   *)
(* no spawn is handed Null.                                                *)
EachNodeOnce ==
  Cardinality(program.allocators \cup program.freers) = 1 =>
    /\ out[Null] = 0
    /\ \A n \in Nodes : Holders(n) = IF n \in heap THEN 1 ELSE 0

(* What examples/55_million_spawns.wyn:25 reports of its spawns ("All 1    *)
(* million spawns created!"): each has a node, and one of its own.         *)
OwnNode == out[Null] = 0 /\ \A n \in Nodes : out[n] <= 1
=============================================================================
