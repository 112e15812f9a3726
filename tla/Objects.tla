------------------------------ MODULE Objects ------------------------------
(***************************************************************************)
(* Reference counted objects shared by threads, retained and released by   *)
(* the checked calls of arc_operations.c or by the plain ones of           *)
(* arc_runtime.c, which programs and the strings of string_memory.c use,   *)
(* and the weak references to them (weak_references.c).                    *)
(*                                                                         *)
(* A checked call reads a count in one step and exchanges it in another, a *)
(* plain one adds or subtracts atomically; the walk over the registry      *)
(* holds its lock, looks at one weak reference and nullifies it in another *)
(* step.  All objects hash to one bucket, and the registry is initialized. *)
(*                                                                         *)
(* wyn_arc_deallocate is declared and called but defined nowhere: as the   *)
(* comments of its callers have it, it may or may not clear the magic      *)
(* number first, then nullifies the weak references, then frees.  A plain  *)
(* release runs the destructor and frees; it nullifies nothing.            *)
(*                                                                         *)
(* Touching what was freed, or lowering a count below 0, ends a behaviour: *)
(* state = "misuse".                                                       *)
(***************************************************************************)
EXTENDS Integers, FiniteSets

CONSTANTS
  Threads,
  Objs,        \* the addresses malloc has for objects
  Refs,        \* the addresses malloc has for weak references
  MaxHeld,     \* bound: the references to one object a thread may hold
  Null

ASSUME ObjectsAssumption ==
  /\ MaxHeld \in Nat \ {0}
  /\ Null \notin Threads \cup Objs \cup Refs

VARIABLES
  live,        \* the objects that are allocated
  magic,       \* those whose magic number is valid
  count,       \* header.ref_count
  held,        \* the strong references each thread owns, by object
  ref,         \* the weak references: target, next and prev
  valid,       \* those with is_valid
  owner,       \* the thread that has a weak reference; Null when it is freed
  head,        \* the bucket of the registry
  registry,    \* the thread that holds global_lock, or Null
  call,        \* what each thread is doing
  state,       \* "running", "panic" or "misuse"
  revived,     \* history: a promotion has raised a count from 0
  leftLinked,  \* history: a weak reference was freed without being unlinked
  silent       \* history: a plain release ended an object that had a weak reference

objects == <<live, magic, count, held>>
chain   == <<ref, valid, owner, head>>
history == <<revived, leftLinked, silent>>
vars    == <<objects, chain, registry, call, state, history>>

NoRef == [target |-> Null, next |-> Null, prev |-> Null]
Idle  == [at |-> "idle", obj |-> Null, ref |-> Null, old |-> 0]

At(t, at) == state = "running" /\ call[t].at = at
Goto(t, at) == call' = [call EXCEPT ![t].at = at]
Visit(t, w) == call' = [call EXCEPT ![t].at = "walk", ![t].ref = w]
Enter(t, at, o, w) == call' = [call EXCEPT ![t] = [at |-> at, obj |-> o, ref |-> w, old |-> 0]]
Return(t) == call' = [call EXCEPT ![t] = Idle]

Obj(t) == call[t].obj
Holds(t, o) == held[t][o] > 0
Dangling(w) == w # Null /\ owner[w] = Null

\* The lock of w is held over several steps by a promotion only.
Locked(w) == \E t \in Threads : call[t].ref = w /\ call[t].at \in {"retain", "load+", "swap+"}

Stop(how) == state' = how /\ UNCHANGED <<objects, chain, registry, call, history>>

Init ==
  /\ live = {} /\ magic = {}
  /\ count = [o \in Objs |-> 0]
  /\ held = [t \in Threads |-> [o \in Objs |-> 0]]
  /\ ref = [w \in Refs |-> NoRef]
  /\ valid = {}
  /\ owner = [w \in Refs |-> Null]
  /\ head = Null /\ registry = Null
  /\ call = [t \in Threads |-> Idle]
  /\ state = "running"
  /\ revived = FALSE /\ leftLinked = FALSE /\ silent = FALSE

-----------------------------------------------------------------------------
\* Strong references.

Alloc(t, o) ==
  /\ At(t, "idle") /\ o \notin live
  /\ held[t][o] < MaxHeld
  /\ live' = live \cup {o} /\ magic' = magic \cup {o}
  /\ count' = [count EXCEPT ![o] = 1]
  /\ held' = [held EXCEPT ![t][o] = @ + 1]
  /\ UNCHANGED <<chain, registry, call, state, history>>

\* wyn_arc_move: t clears its pointer and u has it now.
Move(t, u, o) ==
  /\ At(t, "idle") /\ At(u, "idle") /\ t # u
  /\ Holds(t, o) /\ held[u][o] < MaxHeld
  /\ held' = [held EXCEPT ![t][o] = @ - 1, ![u][o] = @ + 1]
  /\ UNCHANGED <<live, magic, count, chain, registry, call, state, history>>

BeginRetain(t, o) ==
  /\ At(t, "idle") /\ Holds(t, o) /\ held[t][o] < MaxHeld
  /\ Enter(t, "retain", o, Null)
  /\ UNCHANGED <<objects, chain, registry, state, history>>

BeginRelease(t, o) ==
  /\ At(t, "idle") /\ Holds(t, o)
  /\ Enter(t, "release", o, Null)
  /\ UNCHANGED <<objects, chain, registry, state, history>>

\* wyn_arc_is_valid reads the magic number of the object.
Check(t, at, next) ==
  /\ At(t, at)
  /\ \/ Obj(t) \notin live /\ Stop("misuse")
     \/ Obj(t) \in live \ magic /\ Stop("panic")
     \/ Obj(t) \in magic /\ Goto(t, next) /\ UNCHANGED <<objects, chain, registry, state, history>>

\* The count is read.
Load(t, at, next) ==
  /\ At(t, at)
  /\ IF Obj(t) \in live
     THEN /\ call' = [call EXCEPT ![t].at = next, ![t].old = count[Obj(t)]]
          /\ UNCHANGED <<objects, chain, registry, state, history>>
     ELSE Stop("misuse")

\* Mutant: the count is stored, whatever it is by now.
SameCountAlways(t) == TRUE

\* compare_exchange finds the count that was read.
SameCount(t) == count[Obj(t)] = call[t].old

RetainSwap(t) ==
  LET o == Obj(t) IN
  /\ At(t, "swap+")
  /\ o \in live /\ SameCount(t)
  /\ count' = [count EXCEPT ![o] = call[t].old + 1]
  /\ held' = [held EXCEPT ![t][o] = @ + 1]
  /\ revived' = (revived \/ call[t].old = 0)
  /\ Return(t)
  /\ UNCHANGED <<live, magic, chain, registry, state, leftLinked, silent>>

\* Mutant: the fast path, which never deallocates, is taken at 1 too.
LastOneNever(t) == FALSE
LastOne(t) == call[t].old = 1

ReleaseSwap(t) ==
  LET o == Obj(t) IN
  /\ At(t, "swap-")
  /\ o \in live /\ call[t].old > 0 /\ SameCount(t)
  /\ count' = [count EXCEPT ![o] = call[t].old - 1]
  /\ held' = [held EXCEPT ![t][o] = @ - 1]
  /\ IF LastOne(t) THEN Goto(t, "dying") ELSE Return(t)
  /\ UNCHANGED <<live, magic, chain, registry, state, history>>

\* The exchange fails and the count is read again; a release of 0 panics.
SwapFails(t, at, again) ==
  LET o == Obj(t) IN
  /\ At(t, at)
  /\ \/ o \notin live /\ Stop("misuse")
     \/ o \in live /\ at = "swap-" /\ call[t].old = 0 /\ Stop("panic")
     \/ /\ o \in live /\ (at = "swap-" => call[t].old > 0)
        /\ ~SameCount(t) /\ Goto(t, again)
        /\ UNCHANGED <<objects, chain, registry, state, history>>

\* wyn_arc_retain: the count is raised, whatever object it is.
PlainRetain(t, o) ==
  /\ At(t, "idle") /\ Holds(t, o) /\ held[t][o] < MaxHeld
  /\ IF o \in live
     THEN /\ count' = [count EXCEPT ![o] = @ + 1]
          /\ held' = [held EXCEPT ![t][o] = @ + 1]
          /\ UNCHANGED <<live, magic, chain, registry, call, state, history>>
     ELSE Stop("misuse")

Ends(o) == count[o] = 1

\* wyn_arc_release: the count is lowered, and the object freed at 0 as it is.
PlainRelease(t, o) ==
  /\ At(t, "idle") /\ Holds(t, o)
  /\ IF o \in live /\ count[o] > 0
     THEN /\ count' = [count EXCEPT ![o] = @ - 1]
          /\ held' = [held EXCEPT ![t][o] = @ - 1]
          /\ IF Ends(o) THEN Enter(t, "free", o, Null) ELSE UNCHANGED call
          /\ silent' = (silent \/ (Ends(o) /\ \E w \in Refs : owner[w] # Null /\ ref[w].target = o))
          /\ UNCHANGED <<live, magic, chain, registry, state, revived, leftLinked>>
     ELSE Stop("misuse")

-----------------------------------------------------------------------------
\* wyn_arc_deallocate, of the thread that released the last reference.

BeginDeallocate(t) ==
  /\ At(t, "dying")
  /\ magic' \in {magic, magic \ {Obj(t)}}
  /\ Goto(t, "nullify")
  /\ UNCHANGED <<live, count, held, chain, registry, state, history>>

\* wyn_weak_nullify_all takes global_lock and starts at the bucket.
Nullify(t) ==
  /\ At(t, "nullify") /\ registry = Null
  /\ registry' = t
  /\ Visit(t, head)
  /\ UNCHANGED <<objects, chain, state, history>>

\* One weak reference: does it refer to the object, as seen without its lock?
Walk(t) ==
  LET w == call[t].ref IN
  /\ At(t, "walk") /\ w # Null
  /\ IF owner[w] = Null THEN Stop("misuse")
     ELSE /\ IF ref[w].target = Obj(t) THEN Goto(t, "found") ELSE Visit(t, ref[w].next)
          /\ UNCHANGED <<objects, chain, registry, state, history>>

\* It is nullified, under its own lock, whatever it refers to by now.  (The code
\* has read next before; it changes under global_lock only.)
NullifyOne(t) ==
  LET w == call[t].ref IN
  /\ At(t, "found")
  /\ IF owner[w] = Null THEN Stop("misuse")
     ELSE /\ ~Locked(w)
          /\ valid' = valid \ {w} /\ ref' = [ref EXCEPT ![w].target = Null]
          /\ Visit(t, ref[w].next)
          /\ UNCHANGED <<objects, owner, head, registry, state, history>>

WalkEnds(t) ==
  /\ At(t, "walk") /\ call[t].ref = Null
  /\ registry' = Null
  /\ Goto(t, "free")
  /\ UNCHANGED <<objects, chain, state, history>>

Free(t) ==
  LET o == Obj(t) IN
  /\ At(t, "free")
  /\ IF o \in live
     THEN /\ live' = live \ {o} /\ magic' = magic \ {o}
          /\ count' = [count EXCEPT ![o] = 0]
          /\ Return(t)
          /\ UNCHANGED <<held, chain, registry, state, history>>
     ELSE Stop("misuse")

-----------------------------------------------------------------------------
\* Weak references.

\* wyn_weak_create by a thread that holds the object.
BeginCreate(t, o, w) ==
  /\ At(t, "idle") /\ Holds(t, o) /\ owner[w] = Null
  /\ IF o \in live
     THEN /\ o \in magic
          /\ ref' = [ref EXCEPT ![w] = [NoRef EXCEPT !.target = o]]
          /\ valid' = valid \cup {w}
          /\ owner' = [owner EXCEPT ![w] = t]
          /\ Enter(t, "link", o, w)
          /\ UNCHANGED <<objects, head, registry, state, history>>
     ELSE Stop("misuse")

\* Mutant: the old head is lost.
LinkedAlone(w) == [ref EXCEPT ![w].next = Null]

\* At the head of the chain.
Linked(w) ==
  [r \in Refs |-> [target |-> ref[r].target,
                   prev |-> IF r = head THEN w ELSE ref[r].prev,
                   next |-> IF r = w THEN head ELSE ref[r].next]]

Link(t) ==
  LET w == call[t].ref IN
  /\ At(t, "link") /\ registry = Null
  /\ IF Dangling(head) THEN Stop("misuse")
     ELSE /\ ref' = Linked(w) /\ head' = w
          /\ Return(t)
          /\ UNCHANGED <<objects, valid, owner, registry, state, history>>

\* The target is no object any more: the weak reference forgets it.
Expire(w) ==
  /\ valid' = valid \ {w} /\ ref' = [ref EXCEPT ![w].target = Null]
  /\ UNCHANGED <<objects, owner, head, registry, call, state, history>>

\* wyn_weak_promote, its own lock held: the target is there and its magic
\* number is read; a target that is being deallocated may be seen by it.
Promote(t, w) ==
  LET o == ref[w].target IN
  /\ At(t, "idle") /\ owner[w] = t
  /\ w \in valid /\ o # Null
  /\ held[t][o] < MaxHeld
  /\ \/ o \notin live /\ Stop("misuse")
     \/ o \in live \ magic /\ Expire(w)
     \/ o \in magic /\ Enter(t, "retain", o, w) /\ UNCHANGED <<objects, chain, registry, state, history>>

\* wyn_weak_access gives the target without retaining it, unless it is gone.
Access(t, w) ==
  LET o == ref[w].target IN
  /\ At(t, "idle") /\ owner[w] = t
  /\ w \in valid /\ o # Null
  /\ \/ o \notin live /\ Stop("misuse")
     \/ o \in live \ magic /\ Expire(w)

\* wyn_weak_destroy clears the target ...
BeginDestroy(t, w) ==
  /\ At(t, "idle") /\ owner[w] = t /\ ref[w].target # Null
  /\ valid' = valid \ {w}
  /\ ref' = [ref EXCEPT ![w].target = Null]
  /\ Enter(t, "unlink", ref[w].target, w)
  /\ UNCHANGED <<objects, owner, head, registry, state, history>>

\* Mutant: the successor keeps its way back.
UnlinkedForward(w) ==
  [r \in Refs |-> IF r = w THEN NoRef ELSE
     [ref[r] EXCEPT !.next = IF r = ref[w].prev THEN ref[w].next ELSE @]]

\* ... and what was linked to it is linked to each other.
Unlinked(w) ==
  [r \in Refs |-> IF r = w THEN NoRef ELSE
     [ref[r] EXCEPT !.next = IF r = ref[w].prev THEN ref[w].next ELSE @,
                    !.prev = IF r = ref[w].next THEN ref[w].prev ELSE @]]

Unlink(t) ==
  LET w == call[t].ref IN
  /\ At(t, "unlink") /\ registry = Null
  /\ IF Dangling(ref[w].prev) \/ Dangling(ref[w].next) THEN Stop("misuse")
     ELSE /\ head' = IF ref[w].prev = Null THEN ref[w].next ELSE head
          /\ ref' = Unlinked(w)
          /\ owner' = [owner EXCEPT ![w] = Null]
          /\ Return(t)
          /\ UNCHANGED <<objects, valid, registry, state, history>>

\* One whose target is gone already is freed without being unlinked.
DestroyNullified(t, w) ==
  /\ At(t, "idle") /\ owner[w] = t /\ ref[w].target = Null
  /\ valid' = valid \ {w}
  /\ ref' = [ref EXCEPT ![w] = NoRef]
  /\ owner' = [owner EXCEPT ![w] = Null]
  /\ leftLinked' = TRUE
  /\ UNCHANGED <<objects, head, registry, call, state, revived, silent>>

\* After a panic or a misuse nothing is claimed.
Ended == state # "running" /\ UNCHANGED vars

Strong(t) ==
  \/ \E o \in Objs : Alloc(t, o) \/ BeginRetain(t, o) \/ BeginRelease(t, o)
  \/ \E o \in Objs : PlainRetain(t, o) \/ PlainRelease(t, o)
  \/ \E u \in Threads, o \in Objs : Move(t, u, o)
  \/ Check(t, "retain", "load+") \/ Load(t, "load+", "swap+")
  \/ RetainSwap(t) \/ SwapFails(t, "swap+", "load+")
  \/ Check(t, "release", "load-") \/ Load(t, "load-", "swap-")
  \/ ReleaseSwap(t) \/ SwapFails(t, "swap-", "load-")

Deallocate(t) == BeginDeallocate(t) \/ Nullify(t) \/ Walk(t) \/ NullifyOne(t) \/ WalkEnds(t) \/ Free(t)

Weak(t) ==
  \/ \E o \in Objs, w \in Refs : BeginCreate(t, o, w)
  \/ \E w \in Refs : Promote(t, w) \/ Access(t, w) \/ BeginDestroy(t, w) \/ DestroyNullified(t, w)
  \/ Link(t) \/ Unlink(t)

Next == Ended \/ \E t \in Threads : Strong(t) \/ Deallocate(t) \/ Weak(t)

Spec == Init /\ [][Next]_vars

-----------------------------------------------------------------------------
Calls ==
  [at : {"idle", "retain", "load+", "swap+", "release", "load-", "swap-", "dying",
         "nullify", "walk", "found", "free", "link", "unlink"},
   obj : Objs \cup {Null}, ref : Refs \cup {Null}, old : Nat]

Walking == {"walk", "found"}

\* Every variable has its type, and global_lock is held by the thread that walks.
TypeOK ==
  /\ live \subseteq Objs /\ magic \subseteq live
  /\ count \in [Objs -> Nat]
  /\ held \in [Threads -> [Objs -> 0 .. MaxHeld]]
  /\ ref \in [Refs -> [target : Objs \cup {Null}, next : Refs \cup {Null}, prev : Refs \cup {Null}]]
  /\ valid \subseteq Refs
  /\ owner \in [Refs -> Threads \cup {Null}]
  /\ head \in Refs \cup {Null}
  /\ call \in [Threads -> Calls]
  /\ {t \in Threads : call[t].at \in Walking} = {registry} \ {Null}
  /\ state \in {"running", "panic", "misuse"}
  /\ revived \in BOOLEAN /\ leftLinked \in BOOLEAN /\ silent \in BOOLEAN

\* The strong references to an object, and the threads that deallocate it.
References(o) == {r \in Threads \X (1 .. MaxHeld) : r[2] <= held[r[1]][o]}
Dying(o) == {t \in Threads : Obj(t) = o /\ call[t].at \in {"dying", "nullify", "free"} \cup Walking}

\* The count of an object is the number of strong references that threads own,
\* whatever retains and releases do to each other between reading and swapping
\* it; only a promotion that raises a count from 0 breaks this.
CountIsHolders ==
  ~revived => \A o \in live : count[o] = Cardinality(References(o))

\* An object without a strong reference is being deallocated by one thread:
\* it is not lost, and not freed twice.
OneDeallocates ==
  ~revived => \A o \in live : Cardinality(Dying(o)) = IF count[o] = 0 THEN 1 ELSE 0

\* A weak reference outlives its target, with the target still in it, only
\* after a revival, after a nullified weak reference was freed in the chain, or
\* after a plain release, which nullifies nothing, ended an object that had one:
\* whoever links and unlinks during the walk, no other order lets it happen.
WeakEndsFirst ==
  ~revived /\ ~leftLinked /\ ~silent =>
    \A w \in Refs : owner[w] # Null /\ ref[w].target # Null => ref[w].target \in live

\* Freed memory is touched, or a count lowered below 0, only after one of these
\* three; and before them only a promotion can panic.
MisuseHasCause ==
  \/ state = "running" \/ revived \/ leftLinked \/ silent
  \/ state = "panic" /\ \E t \in Threads : call[t].at = "retain" /\ call[t].ref # Null
=============================================================================
