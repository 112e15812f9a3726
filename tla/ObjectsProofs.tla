--------------------------- MODULE ObjectsProofs ---------------------------
(***************************************************************************)
(* Reference counts and weak references, for any threads, objects, weak    *)
(* references and bound on what a thread may hold.                         *)
(***************************************************************************)
EXTENDS Objects, FiniteSetTheorems, TLAPS

Retaining == {"retain", "load+", "swap+"}
Releasing == {"release", "load-", "swap-"}
Ending    == {"dying", "nullify", "walk", "found", "free"}

(* What a call is about, and what its thread holds meanwhile.              *)
CallsHold ==
  \A t \in Threads :
    /\ call[t].at # "idle" => Obj(t) \in Objs
    /\ call[t].at \in {"link", "unlink", "found"} => call[t].ref \in Refs
    /\ call[t].at \in Releasing \cup {"link"} => Holds(t, Obj(t))
    /\ call[t].at \in Retaining => held[t][Obj(t)] < MaxHeld
    /\ call[t].at \in Retaining /\ call[t].ref = Null => Holds(t, Obj(t))

(* An object that is not allocated is not held; one without a reference is *)
(* being deallocated by one thread, and only then without magic number.    *)
Counted(o) == /\ IsFiniteSet(References(o))
              /\ count[o] = Cardinality(References(o))
              /\ o \notin live => count[o] = 0 /\ Dying(o) = {}
              /\ o \in live /\ count[o] = 0 => \E t \in Threads : Dying(o) = {t}
              /\ o \in live /\ count[o] > 0 => Dying(o) = {} /\ o \in magic

CountInv == /\ \A o \in Objs : Counted(o)
            /\ \A t \in Threads : call[t].at = "swap-" => call[t].old > 0

(* The weak references in the chain of the bucket.                         *)
Linking(w) == \E t \in Threads : call[t].at = "link" /\ call[t].ref = w
Chain == {w \in Refs : owner[w] # Null /\ ~Linking(w)}

(* A rank for each weak reference in the chain, higher nearer to the head. *)
(* Unlinking one leaves the ranks of the others as they are.               *)
NextBelow(rank, v, w) == /\ rank[w] < rank[v]
                         /\ \A r \in Chain : rank[r] <= rank[w] \/ rank[v] <= rank[r]

Ranked(rank) ==
  /\ \A v, w \in Chain : rank[v] = rank[w] => v = w
  /\ head = Null => Chain = {}
  /\ head # Null => head \in Chain /\ \A r \in Chain : rank[r] <= rank[head]
  /\ \A w \in Chain :
       LET n == ref[w].next
           p == ref[w].prev
       IN /\ n = Null => \A r \in Chain : rank[w] <= rank[r]
          /\ n # Null => n \in Chain /\ NextBelow(rank, w, n)
          /\ p = Null => \A r \in Chain : rank[r] <= rank[w]
          /\ p # Null => p \in Chain /\ NextBelow(rank, p, w)

(* What the walk has passed refers to the object no more.                  *)
Passed(rank) ==
  \A t \in Threads : call[t].at \in Walking =>
    /\ call[t].ref # Null => call[t].ref \in Chain
    /\ \A r \in Refs : owner[r] # Null /\ ref[r].target = Obj(t) =>
         r \in Chain /\ call[t].ref # Null /\ rank[r] <= rank[call[t].ref]

(* Whose a weak reference is, and what it refers to.                       *)
RefsOwned ==
  /\ \A w \in Refs : owner[w] = Null => ref[w] = NoRef
  /\ \A t \in Threads :
       /\ call[t].at \in {"link", "unlink"} \cup Retaining /\ call[t].ref # Null => owner[call[t].ref] = t
       /\ call[t].at \in {"link"} \cup Retaining /\ call[t].ref # Null => ref[call[t].ref].target = Obj(t)
       /\ call[t].at = "link" => ref[call[t].ref].prev = Null
TargetsLive ==
  /\ \A w \in Refs : owner[w] # Null /\ ref[w].target # Null => ref[w].target \in live
  /\ \A t \in Threads : call[t].at = "free" => \A w \in Refs : owner[w] # Null => ref[w].target # Obj(t)

WeakInv == /\ RefsOwned /\ TargetsLive
           /\ \E rank \in [Refs -> Nat] : Ranked(rank) /\ Passed(rank)

ObjectsInv ==
  /\ TypeOK /\ CallsHold
  /\ (~revived => CountInv)
  /\ (~revived /\ ~leftLinked /\ ~silent => WeakInv)
-----------------------------------------------------------------------------
\* What becomes of the calls.

Places == {"idle", "retain", "load+", "swap+", "release", "load-", "swap-", "dying",
           "nullify", "walk", "found", "free", "link", "unlink"}

LEMMA CallRecords ==
  /\ Calls = [at : Places, obj : Objs \cup {Null}, ref : Refs \cup {Null}, old : Nat]
  /\ Idle \in Calls
BY DEF Calls, Places, Idle

(* The call of t is now at a place, about an object and a weak reference.  *)
CallGoes(t, at, o, w) ==
  /\ call' \in [Threads -> Calls]
  /\ call'[t].at = at /\ call'[t].obj = o /\ call'[t].ref = w
  /\ \A u \in Threads : u # t => call'[u] = call[u]

LEMMA CallBecomes ==
  ASSUME TypeOK, NEW t \in Threads, NEW c \in Calls, call' = [call EXCEPT ![t] = c]
  PROVE  CallGoes(t, c.at, c.obj, c.ref) /\ call'[t] = c
BY DEF TypeOK, CallGoes

LEMMA Moved ==
  ASSUME TypeOK, NEW t \in Threads, NEW at \in Places, Goto(t, at)
  PROVE  CallGoes(t, at, call[t].obj, call[t].ref) /\ call'[t].old = call[t].old
<1> DEFINE r == [call[t] EXCEPT !.at = at]
<1>1. call[t] \in Calls
  BY DEF TypeOK
<1>2. r \in Calls /\ r.at = at /\ r.obj = call[t].obj /\ r.ref = call[t].ref /\ r.old = call[t].old
  BY <1>1, CallRecords
<1>3. PICK c \in Calls : c = r /\ c.at = at /\ c.obj = call[t].obj /\ c.ref = call[t].ref /\ c.old = call[t].old
  BY <1>2
<1>4. call' = [call EXCEPT ![t] = c]
  BY <1>3, Zenon DEF Goto
<1>5. CallGoes(t, c.at, c.obj, c.ref) /\ call'[t] = c
  BY <1>4, CallBecomes
<1> QED BY <1>3, <1>5

LEMMA Entered ==
  ASSUME TypeOK, NEW t \in Threads, NEW at \in Places, NEW o \in Objs \cup {Null},
         NEW w \in Refs \cup {Null}, Enter(t, at, o, w)
  PROVE  CallGoes(t, at, o, w)
<1> DEFINE r == [at |-> at, obj |-> o, ref |-> w, old |-> 0]
<1>1. r \in Calls /\ r.at = at /\ r.obj = o /\ r.ref = w
  BY CallRecords
<1>2. PICK c \in Calls : c = r /\ c.at = at /\ c.obj = o /\ c.ref = w
  BY <1>1
<1>3. call' = [call EXCEPT ![t] = c]
  BY <1>2, Zenon DEF Enter
<1>4. CallGoes(t, c.at, c.obj, c.ref)
  BY <1>3, CallBecomes
<1> QED BY <1>2, <1>4

LEMMA Returned ==
  ASSUME TypeOK, NEW t \in Threads, Return(t)
  PROVE  CallGoes(t, "idle", Null, Null)
<1>1. Idle.at = "idle" /\ Idle.obj = Null /\ Idle.ref = Null
  BY DEF Idle
<1>2. CallGoes(t, Idle.at, Idle.obj, Idle.ref)
  BY CallRecords, CallBecomes DEF Return
<1> QED BY <1>1, <1>2

LEMMA Loaded ==
  ASSUME TypeOK, NEW t \in Threads, NEW at \in Places, NEW n \in Nat,
         call' = [call EXCEPT ![t].at = at, ![t].old = n]
  PROVE  CallGoes(t, at, call[t].obj, call[t].ref) /\ call'[t].old = n
<1> DEFINE r == [call[t] EXCEPT !.at = at, !.old = n]
<1>1. call[t] \in Calls
  BY DEF TypeOK
<1>2. r \in Calls /\ r.at = at /\ r.obj = call[t].obj /\ r.ref = call[t].ref /\ r.old = n
  BY <1>1, CallRecords
<1>3. PICK c \in Calls : c = r /\ c.at = at /\ c.obj = call[t].obj /\ c.ref = call[t].ref /\ c.old = n
  BY <1>2
<1>4. call' = [call EXCEPT ![t] = c]
  BY <1>1, <1>3 DEF TypeOK
<1>5. CallGoes(t, c.at, c.obj, c.ref) /\ call'[t] = c
  BY <1>4, CallBecomes
<1> QED BY <1>3, <1>5

LEMMA Visited ==
  ASSUME TypeOK, NEW t \in Threads, NEW w \in Refs \cup {Null},
         Visit(t, w)
  PROVE  CallGoes(t, "walk", call[t].obj, w)
<1> DEFINE r == [call[t] EXCEPT !.at = "walk", !.ref = w]
<1>1. call[t] \in Calls
  BY DEF TypeOK
<1>2. r \in Calls /\ r.at = "walk" /\ r.obj = call[t].obj /\ r.ref = w
  BY <1>1, CallRecords DEF Places
<1>3. PICK c \in Calls : c = r /\ c.at = "walk" /\ c.obj = call[t].obj /\ c.ref = w
  BY <1>2
<1>4. call' = [call EXCEPT ![t] = c]
  BY <1>1, <1>3 DEF TypeOK, Visit
<1>5. CallGoes(t, c.at, c.obj, c.ref)
  BY <1>4, CallBecomes
<1> QED BY <1>3, <1>5

-----------------------------------------------------------------------------
\* Types.

LEMMA SameWalker ==
  ASSUME TypeOK, NEW t \in Threads, NEW at, NEW o, NEW w, CallGoes(t, at, o, w),
         at \in Walking <=> call[t].at \in Walking, registry' = registry
  PROVE  {u \in Threads : call'[u].at \in Walking} = {registry'} \ {Null}
<1>1. \A u \in Threads : call'[u].at \in Walking <=> call[u].at \in Walking
  BY DEF CallGoes
<1> QED BY <1>1 DEF TypeOK

(* A step that changes calls only, and no walk.                            *)
LEMMA TypesOfCall ==
  ASSUME TypeOK, NEW t \in Threads, NEW at, NEW o, NEW w, CallGoes(t, at, o, w),
         at \in Walking <=> call[t].at \in Walking,
         UNCHANGED <<objects, chain, registry, state, history>>
  PROVE  TypeOK'
<1>1. {u \in Threads : call'[u].at \in Walking} = {registry'} \ {Null}
  BY SameWalker
<1>2. UNCHANGED <<live, magic, count, held, ref, valid, owner, head, registry, state, revived, leftLinked, silent>>
  BY DEF objects, chain, history
<1> QED BY <1>1, <1>2 DEF TypeOK, CallGoes

LEMMA TypesOfStop ==
  ASSUME TypeOK, NEW how \in {"panic", "misuse"}, Stop(how)
  PROVE  TypeOK'
<1>1. /\ state' = how
      /\ UNCHANGED <<live, magic, count, held, ref, valid, owner, head, registry, call, revived, leftLinked, silent>>
  BY DEF Stop, objects, chain, history
<1> QED BY <1>1 DEF TypeOK, Obj

LEMMA WalkersSame ==
  ASSUME TypeOK, NEW t \in Threads
  PROVE  /\ registry = Null => call[t].at \notin Walking
         /\ call[t].at \in Walking => registry = t /\ \A u \in Threads : call[u].at \in Walking => u = t
BY ObjectsAssumption DEF TypeOK

LEMMA CallStays ==
  ASSUME TypeOK, NEW t \in Threads, UNCHANGED call
  PROVE  CallGoes(t, call[t].at, call[t].obj, call[t].ref)
BY DEF TypeOK, CallGoes

LEMMA CallType ==
  ASSUME TypeOK, NEW t \in Threads
  PROVE  /\ call[t].at \in Places /\ call[t].obj \in Objs \cup {Null}
         /\ call[t].ref \in Refs \cup {Null} /\ call[t].old \in Nat
<1>1. call[t] \in Calls
  BY DEF TypeOK
<1> QED BY <1>1, CallRecords

-----------------------------------------------------------------------------
\* What a step leaves as it is.

(* One thread goes on with its call.                                       *)
LEMMA CallsHoldStep ==
  ASSUME TypeOK, CallsHold, NEW t \in Threads, NEW at, NEW o, NEW w, CallGoes(t, at, o, w),
         \A u \in Threads : u # t => held'[u] = held[u],
         at # "idle" => o \in Objs,
         at \in {"link", "unlink", "found"} => w \in Refs,
         at \in Releasing \cup {"link"} => held'[t][o] > 0,
         at \in Retaining => held'[t][o] < MaxHeld,
         at \in Retaining /\ w = Null => held'[t][o] > 0
  PROVE  CallsHold'
<1>1. ASSUME NEW u \in Threads, u # t
      PROVE  /\ call'[u].at # "idle" => call'[u].obj \in Objs
             /\ call'[u].at \in {"link", "unlink", "found"} => call'[u].ref \in Refs
             /\ call'[u].at \in Releasing \cup {"link"} => held'[u][call'[u].obj] > 0
             /\ call'[u].at \in Retaining => held'[u][call'[u].obj] < MaxHeld
             /\ call'[u].at \in Retaining /\ call'[u].ref = Null => held'[u][call'[u].obj] > 0
  BY <1>1 DEF CallsHold, CallGoes, Holds, Obj
<1>2. call'[t].at = at /\ call'[t].obj = o /\ call'[t].ref = w
  BY DEF CallGoes
<1> QED BY <1>1, <1>2 DEF CallsHold, Holds, Obj

(* The threads that deallocate an object.                                  *)
LEMMA DyingSame ==
  ASSUME NEW t \in Threads, NEW at, NEW o, NEW w, CallGoes(t, at, o, w),
         at \in Ending <=> call[t].at \in Ending, at \in Ending => o = Obj(t), NEW x
  PROVE  Dying(x)' = Dying(x)
BY DEF CallGoes, Dying, Ending, Obj, Walking

LEMMA CountSame ==
  ASSUME CountInv, NEW t \in Threads, NEW at, NEW o, NEW w, CallGoes(t, at, o, w),
         at \in Ending <=> call[t].at \in Ending, at \in Ending => o = Obj(t),
         at = "swap-" => call'[t].old > 0,
         UNCHANGED objects
  PROVE  CountInv'
<1>1. \A x \in Objs : Counted(x)'
  <2>1. ASSUME NEW x \in Objs PROVE Counted(x)'
    <3>1. Dying(x)' = Dying(x)
      BY DyingSame
    <3>2. UNCHANGED <<live, magic, count, held>>
      BY DEF objects
    <3>3. References(x)' = References(x)
      BY <3>2 DEF References
    <3> QED BY <3>1, <3>2, <3>3 DEF CountInv, Counted
  <2> QED BY <2>1
<1>2. \A u \in Threads : call'[u].at = "swap-" => call'[u].old > 0
  BY DEF CountInv, CallGoes
<1> QED BY <1>1, <1>2 DEF CountInv

LEMMA ChainSame ==
  ASSUME NEW t \in Threads, NEW at, NEW o, NEW w, CallGoes(t, at, o, w),
         at # "link", call[t].at # "link", UNCHANGED owner
  PROVE  Chain' = Chain
<1>1. \A x : Linking(x)' <=> Linking(x)
  BY DEF Linking, CallGoes
<1> QED BY <1>1 DEF Chain

LEMMA OwnedSame ==
  ASSUME RefsOwned, NEW t \in Threads, NEW at, NEW o, NEW w, CallGoes(t, at, o, w), at # "link",
         at \in {"unlink"} \cup Retaining /\ w # Null => owner[w] = t,
         at \in Retaining /\ w # Null => ref[w].target = o,
         UNCHANGED <<ref, owner>>
  PROVE  RefsOwned'
<1>1. ASSUME NEW u \in Threads
      PROVE  /\ call'[u].at \in {"link", "unlink"} \cup Retaining /\ call'[u].ref # Null => owner[call'[u].ref] = u
             /\ call'[u].at \in {"link"} \cup Retaining /\ call'[u].ref # Null =>
                  ref[call'[u].ref].target = call'[u].obj
             /\ call'[u].at = "link" => ref[call'[u].ref].prev = Null
  <2>1. CASE u = t
    BY <2>1 DEF CallGoes
  <2>2. CASE u # t
    BY <2>2 DEF CallGoes, RefsOwned, Obj
  <2> QED BY <2>1, <2>2
<1> QED BY <1>1 DEF RefsOwned, Obj

LEMMA WeakSame ==
  ASSUME WeakInv, NEW t \in Threads, NEW at, NEW o, NEW w, CallGoes(t, at, o, w),
         call[t].at # "link", at \notin {"walk", "link", "unlink"},
         at = "found" => call[t].at \in Walking /\ o = Obj(t) /\ w = call[t].ref,
         at = "free" => \A r \in Refs : owner[r] # Null => ref[r].target # o,
         at \in Retaining /\ w # Null => owner[w] = t /\ ref[w].target = o,
         UNCHANGED chain,
         \A r \in Refs : owner[r] # Null /\ ref[r].target # Null => ref[r].target \in live'
  PROVE  WeakInv'
<1>1. UNCHANGED <<ref, valid, owner, head>>
  BY DEF chain
<1>2. Chain' = Chain
  BY <1>1, ChainSame
<1>3. RefsOwned'
  BY <1>1, OwnedSame DEF WeakInv
<1>4. TargetsLive'
  <2>1. ASSUME NEW u \in Threads, call'[u].at = "free", NEW r \in Refs, owner[r] # Null
        PROVE  ref[r].target # call'[u].obj
    <3>1. CASE u = t
      BY <2>1, <3>1 DEF CallGoes
    <3>2. CASE u # t
      BY <2>1, <3>2 DEF CallGoes, WeakInv, TargetsLive, Obj
    <3> QED BY <3>1, <3>2
  <2> QED BY <1>1, <2>1 DEF WeakInv, TargetsLive, Obj
<1>5. PICK rank \in [Refs -> Nat] : Ranked(rank) /\ Passed(rank)
  BY DEF WeakInv
<1>6. Ranked(rank)'
  BY <1>1, <1>2, <1>5 DEF Ranked, NextBelow
<1>7. Passed(rank)'
  <2>1. ASSUME NEW u \in Threads, call'[u].at \in Walking
        PROVE  call[u].at \in Walking /\ call'[u].obj = call[u].obj /\ call'[u].ref = call[u].ref
    BY <2>1 DEF CallGoes, Walking, Obj
  <2> QED BY <1>1, <1>2, <1>5, <2>1 DEF Passed, Obj
<1> QED BY <1>3, <1>4, <1>6, <1>7 DEF WeakInv

-----------------------------------------------------------------------------
\* Steps of retains and releases that change no object.

LEMMA QuietStep ==
  ASSUME ObjectsInv, NEW t \in Threads, NEW at, NEW o, NEW w, CallGoes(t, at, o, w),
         at \in {"idle"} \cup Retaining \cup Releasing,
         call[t].at \in {"idle"} \cup Retaining \cup Releasing,
         at # "idle" => o \in Objs,
         at \in Releasing => Holds(t, o),
         at \in Retaining => held[t][o] < MaxHeld /\ (w = Null => Holds(t, o)),
         ~revived => (at = "swap-" => call'[t].old > 0),
         ~revived /\ ~leftLinked /\ ~silent => (at \in Retaining /\ w # Null => owner[w] = t /\ ref[w].target = o),
         UNCHANGED <<objects, chain, registry, state, history>>
  PROVE  ObjectsInv'
<1>1. TypeOK /\ CallsHold
  BY DEF ObjectsInv
<1>2. UNCHANGED <<live, magic, count, held, ref, valid, owner, head, revived, leftLinked, silent>>
  BY DEF objects, chain, history
<1>3. /\ at \notin {"walk", "found", "free", "link", "unlink"} /\ at \notin Ending
      /\ call[t].at \notin {"walk", "found", "free", "link", "unlink"} /\ call[t].at \notin Ending
  BY DEF Retaining, Releasing, Ending
<1>4. TypeOK'
  BY <1>1, <1>3, TypesOfCall DEF Walking
<1>5. CallsHold'
  BY <1>1, <1>2, <1>3, CallsHoldStep DEF Holds
<1>6. ASSUME ~revived' PROVE CountInv'
  BY <1>2, <1>3, <1>6, CountSame DEF ObjectsInv
<1>7. ASSUME ~revived', ~leftLinked', ~silent' PROVE WeakInv'
  <2>1. WeakInv /\ UNCHANGED chain
    BY <1>2, <1>7 DEF ObjectsInv, chain
  <2>2. \A r \in Refs : owner[r] # Null /\ ref[r].target # Null => ref[r].target \in live'
    BY <1>2, <2>1 DEF WeakInv, TargetsLive
  <2>3. at \in Retaining /\ w # Null => owner[w] = t /\ ref[w].target = o
    BY <1>2, <1>7
  <2> QED BY <2>1, <2>2, <2>3, <1>3, WeakSame
<1> QED BY <1>4, <1>5, <1>6, <1>7 DEF ObjectsInv

(* A call that goes on, about what it was about.                           *)
LEMMA QuietGoes ==
  ASSUME ObjectsInv, NEW t \in Threads, NEW at, CallGoes(t, at, call[t].obj, call[t].ref),
         \/ at \in Retaining /\ call[t].at \in Retaining
         \/ at \in Releasing /\ call[t].at \in Releasing,
         ~revived => (at = "swap-" => call'[t].old > 0),
         UNCHANGED <<objects, chain, registry, state, history>>
  PROVE  ObjectsInv'
<1>1. call[t].at # "idle" /\ at # "idle"
  BY DEF Retaining, Releasing
<1>2. /\ Obj(t) \in Objs
      /\ at \in Releasing => Holds(t, Obj(t))
      /\ at \in Retaining => held[t][Obj(t)] < MaxHeld
      /\ at \in Retaining /\ call[t].ref = Null => Holds(t, Obj(t))
  BY <1>1 DEF ObjectsInv, CallsHold, Retaining, Releasing
<1>3. ~revived /\ ~leftLinked /\ ~silent => (at \in Retaining /\ call[t].ref # Null
                                    => owner[call[t].ref] = t /\ ref[call[t].ref].target = Obj(t))
  BY DEF ObjectsInv, WeakInv, RefsOwned, Retaining, Releasing
<1> QED BY <1>1, <1>2, <1>3, QuietStep DEF Obj

(* A step that stops changes nothing else.                                 *)
LEMMA StopStep ==
  ASSUME ObjectsInv, NEW how \in {"panic", "misuse"}, Stop(how)
  PROVE  ObjectsInv'
<1>1. TypeOK'
  BY TypesOfStop DEF ObjectsInv
<1>2. UNCHANGED <<live, magic, count, held, ref, valid, owner, head, call, revived, leftLinked, silent>>
  BY DEF Stop, objects, chain, history
<1>3. CallsHold'
  BY <1>2 DEF ObjectsInv, CallsHold, Holds, Obj
<1>4. ASSUME ~revived' PROVE CountInv'
  <2>1. \A x \in Objs : References(x)' = References(x) /\ Dying(x)' = Dying(x)
    BY <1>2 DEF References, Dying, Obj
  <2>2. CountInv
    BY <1>2, <1>4 DEF ObjectsInv
  <2> QED BY <1>2, <2>1, <2>2 DEF CountInv, Counted
<1>5. ASSUME ~revived', ~leftLinked', ~silent' PROVE WeakInv'
  <2>1. WeakInv
    BY <1>2, <1>5 DEF ObjectsInv
  <2>2. Chain' = Chain
    BY <1>2 DEF Chain, Linking
  <2>3. RefsOwned' /\ TargetsLive'
    BY <1>2, <2>1 DEF WeakInv, RefsOwned, TargetsLive, Obj
  <2>4. PICK rank \in [Refs -> Nat] : Ranked(rank) /\ Passed(rank)
    BY <2>1 DEF WeakInv
  <2>5. Ranked(rank)' /\ Passed(rank)'
    BY <1>2, <2>2, <2>4 DEF Ranked, NextBelow, Passed, Obj
  <2> QED BY <2>3, <2>5 DEF WeakInv
<1> QED BY <1>1, <1>3, <1>4, <1>5 DEF ObjectsInv

LEMMA BeginsKeep ==
  ASSUME ObjectsInv, NEW t \in Threads, NEW o \in Objs,
         BeginRetain(t, o) \/ BeginRelease(t, o)
  PROVE  ObjectsInv'
<1>1. call[t].at = "idle" /\ Holds(t, o) /\ UNCHANGED <<objects, chain, registry, state, history>>
  BY DEF BeginRetain, BeginRelease, At
<1>2. CASE BeginRetain(t, o)
  <2>1. CallGoes(t, "retain", o, Null) /\ held[t][o] < MaxHeld
    BY <1>2, Entered DEF ObjectsInv, BeginRetain, Places
  <2> QED BY <1>1, <2>1, QuietStep DEF Retaining, Releasing
<1>3. CASE BeginRelease(t, o)
  <2>1. CallGoes(t, "release", o, Null)
    BY <1>3, Entered DEF ObjectsInv, BeginRelease, Places
  <2> QED BY <1>1, <2>1, QuietStep DEF Retaining, Releasing
<1> QED BY <1>2, <1>3

LEMMA CheckKeeps ==
  ASSUME ObjectsInv, NEW t \in Threads, NEW at, NEW next, Check(t, at, next),
         <<at, next>> \in {<<"retain", "load+">>, <<"release", "load-">>}
  PROVE  ObjectsInv'
<1>1. CASE Stop("misuse") \/ Stop("panic")
  BY <1>1, StopStep
<1>2. CASE Goto(t, next) /\ UNCHANGED <<objects, chain, registry, state, history>>
  <2>1. CallGoes(t, next, call[t].obj, call[t].ref) /\ call[t].at = at
    BY <1>2, Moved DEF ObjectsInv, Places, Check, At
  <2> QED BY <1>2, <2>1, QuietGoes DEF Retaining, Releasing
<1> QED BY <1>1, <1>2 DEF Check

(* Who holds an object holds one that is allocated, whole and counted.     *)
LEMMA HolderCounted ==
  ASSUME TypeOK, CountInv, NEW t \in Threads, NEW o \in Objs, Holds(t, o)
  PROVE  o \in live /\ o \in magic /\ count[o] > 0 /\ Dying(o) = {}
<1>1. <<t, 1>> \in References(o)
  BY ObjectsAssumption DEF References, Holds, TypeOK
<1>2. Counted(o)
  BY DEF CountInv
<1>3. Cardinality(References(o)) # 0
  BY <1>1, <1>2, FS_EmptySet DEF Counted
<1>4. count[o] \in Nat
  BY DEF TypeOK
<1> QED BY <1>2, <1>3, <1>4 DEF Counted

LEMMA LoadKeeps ==
  ASSUME ObjectsInv, NEW t \in Threads, NEW at, NEW next, Load(t, at, next),
         <<at, next>> \in {<<"load+", "swap+">>, <<"load-", "swap-">>}
  PROVE  ObjectsInv'
<1>1. CASE Obj(t) \notin live
  BY <1>1, StopStep DEF Load
<1>2. CASE Obj(t) \in live
  <2>1. /\ call' = [call EXCEPT ![t].at = next, ![t].old = count[Obj(t)]] /\ call[t].at = at
        /\ UNCHANGED <<objects, chain, registry, state, history>>
    BY <1>2 DEF Load, At
  <2>2. next \in Places /\ count[Obj(t)] \in Nat
    BY <1>2 DEF Places, ObjectsInv, TypeOK
  <2>3. CallGoes(t, next, call[t].obj, call[t].ref) /\ call'[t].old = count[Obj(t)]
    BY <2>1, <2>2, Loaded DEF ObjectsInv
  <2>4. ASSUME ~revived, next = "swap-" PROVE count[Obj(t)] > 0
    <3>1. Holds(t, Obj(t)) /\ Obj(t) \in Objs
      BY <2>1, <2>4 DEF ObjectsInv, CallsHold, Releasing
    <3> QED BY <3>1, <2>4, HolderCounted DEF ObjectsInv
  <2> QED BY <2>1, <2>3, <2>4, QuietGoes DEF Retaining, Releasing
<1> QED BY <1>1, <1>2

LEMMA SwapFailsKeeps ==
  ASSUME ObjectsInv, NEW t \in Threads, NEW at, NEW again, SwapFails(t, at, again),
         <<at, again>> \in {<<"swap+", "load+">>, <<"swap-", "load-">>}
  PROVE  ObjectsInv'
<1>1. CASE Stop("misuse") \/ Stop("panic")
  BY <1>1, StopStep
<1>2. CASE Goto(t, again) /\ UNCHANGED <<objects, chain, registry, state, history>>
  <2>1. CallGoes(t, again, call[t].obj, call[t].ref) /\ call[t].at = at
    BY <1>2, Moved DEF ObjectsInv, Places, SwapFails, At
  <2> QED BY <1>2, <2>1, QuietGoes DEF Retaining, Releasing
<1> QED BY <1>1, <1>2 DEF SwapFails

-----------------------------------------------------------------------------
\* One reference more, and one less.

LEMMA OneMore ==
  ASSUME TypeOK, NEW t \in Threads, NEW o \in Objs, held[t][o] < MaxHeld,
         held' = [held EXCEPT ![t][o] = @ + 1]
  PROVE  /\ held' \in [Threads -> [Objs -> 0 .. MaxHeld]] /\ held'[t][o] = held[t][o] + 1
         /\ \A u \in Threads : u # t => held'[u] = held[u]
         /\ \A x \in Objs : x # o => References(x)' = References(x)
         /\ IsFiniteSet(References(o)) =>
              /\ IsFiniteSet(References(o)')
              /\ Cardinality(References(o)') = Cardinality(References(o)) + 1
<1>1. /\ held' \in [Threads -> [Objs -> 0 .. MaxHeld]] /\ held'[t][o] = held[t][o] + 1
      /\ \A u \in Threads : u # t => held'[u] = held[u]
      /\ \A x \in Objs : x # o => held'[t][x] = held[t][x]
  BY ObjectsAssumption DEF TypeOK
<1>2. ASSUME NEW x \in Objs, x # o PROVE References(x)' = References(x)
  <2>1. \A u \in Threads : held'[u][x] = held[u][x]
    BY <1>1, <1>2
  <2> QED BY <2>1 DEF References
<1>3. /\ References(o)' = References(o) \cup {<<t, held[t][o] + 1>>}
      /\ <<t, held[t][o] + 1>> \notin References(o)
  <2>1. \A u \in Threads : held[u][o] \in 0 .. MaxHeld
    BY DEF TypeOK
  <2>2. \A u \in Threads : held'[u][o] = IF u = t THEN held[t][o] + 1 ELSE held[u][o]
    BY <1>1
  <2>3. <<t, held[t][o] + 1>> \notin References(o)
    BY <2>1 DEF References
  <2>4. <<t, held[t][o] + 1>> \in Threads \X (1 .. MaxHeld)
    BY <2>1, ObjectsAssumption
  <2>5. ASSUME NEW r \in Threads \X (1 .. MaxHeld)
        PROVE  r[2] <= held'[r[1]][o] <=> r[2] <= held[r[1]][o] \/ r = <<t, held[t][o] + 1>>
    <3>1. PICK u \in Threads, i \in 1 .. MaxHeld : r = <<u, i>>
      BY <2>5
    <3>2. r[1] = u /\ r[2] = i
      BY <3>1
    <3>3. CASE u = t
      BY <3>1, <3>2, <3>3, <2>1, <2>2, ObjectsAssumption
    <3>4. CASE u # t
      BY <3>1, <3>2, <3>4, <2>1, <2>2
    <3> QED BY <3>3, <3>4
  <2> QED BY <2>3, <2>4, <2>5 DEF References
<1>4. ASSUME IsFiniteSet(References(o))
      PROVE  /\ IsFiniteSet(References(o)')
             /\ Cardinality(References(o)') = Cardinality(References(o)) + 1
  BY <1>3, <1>4, FS_AddElement
<1> QED BY <1>1, <1>2, <1>4

LEMMA OneLess ==
  ASSUME TypeOK, NEW t \in Threads, NEW o \in Objs, Holds(t, o),
         held' = [held EXCEPT ![t][o] = @ - 1]
  PROVE  /\ held' \in [Threads -> [Objs -> 0 .. MaxHeld]] /\ held'[t][o] = held[t][o] - 1
         /\ \A u \in Threads : u # t => held'[u] = held[u]
         /\ \A x \in Objs : x # o => References(x)' = References(x)
         /\ IsFiniteSet(References(o)) =>
              /\ IsFiniteSet(References(o)')
              /\ Cardinality(References(o)') = Cardinality(References(o)) - 1
<1>1. /\ held' \in [Threads -> [Objs -> 0 .. MaxHeld]] /\ held'[t][o] = held[t][o] - 1
      /\ \A u \in Threads : u # t => held'[u] = held[u]
      /\ \A x \in Objs : x # o => held'[t][x] = held[t][x]
  BY ObjectsAssumption DEF TypeOK, Holds
<1>2. ASSUME NEW x \in Objs, x # o PROVE References(x)' = References(x)
  <2>1. \A u \in Threads : held'[u][x] = held[u][x]
    BY <1>1, <1>2
  <2> QED BY <2>1 DEF References
<1>3. /\ References(o)' = References(o) \ {<<t, held[t][o]>>}
      /\ <<t, held[t][o]>> \in References(o)
  <2>1. \A u \in Threads : held[u][o] \in 0 .. MaxHeld
    BY DEF TypeOK
  <2>2. \A u \in Threads : held'[u][o] = IF u = t THEN held[t][o] - 1 ELSE held[u][o]
    BY <1>1
  <2>3. held[t][o] \in 1 .. MaxHeld
    BY <2>1, ObjectsAssumption DEF Holds
  <2>4. <<t, held[t][o]>> \in References(o)
    BY <2>3 DEF References
  <2>5. ASSUME NEW r \in Threads \X (1 .. MaxHeld)
        PROVE  r[2] <= held'[r[1]][o] <=> r[2] <= held[r[1]][o] /\ r # <<t, held[t][o]>>
    <3>1. PICK u \in Threads, i \in 1 .. MaxHeld : r = <<u, i>>
      BY <2>5
    <3>2. r[1] = u /\ r[2] = i
      BY <3>1
    <3>3. CASE u = t
      BY <3>1, <3>2, <3>3, <2>1, <2>2, ObjectsAssumption
    <3>4. CASE u # t
      BY <3>1, <3>2, <3>4, <2>1, <2>2
    <3> QED BY <3>3, <3>4
  <2> QED BY <2>4, <2>5 DEF References
<1>4. ASSUME IsFiniteSet(References(o))
      PROVE  /\ IsFiniteSet(References(o)')
             /\ Cardinality(References(o)') = Cardinality(References(o)) - 1
  <2> DEFINE last == <<t, held[t][o]>>
  <2>1. /\ IsFiniteSet(References(o) \ {last})
        /\ last \in References(o) => Cardinality(References(o) \ {last}) = Cardinality(References(o)) - 1
    <3> HIDE DEF last
    <3> QED BY <1>4, FS_RemoveElement
  <2> QED BY <1>3, <2>1
<1> QED BY <1>1, <1>2, <1>4

-----------------------------------------------------------------------------
\* Steps that change an object, or who holds it.

(* The invariant of the counts, when they change for one object only.      *)
LEMMA CountOfOne ==
  ASSUME TypeOK, CountInv, NEW t \in Threads, NEW at, NEW q, NEW w, CallGoes(t, at, q, w),
         NEW o \in Objs, Counted(o)',
         at = "swap-" => call'[t].old > 0,
         call[t].at \in Ending => Obj(t) = o, at \in Ending => q = o,
         \A x \in Objs : x # o => /\ References(x)' = References(x) /\ count'[x] = count[x]
                                  /\ x \in live' <=> x \in live
                                  /\ x \in magic' <=> x \in magic
  PROVE  CountInv'
<1>1. ASSUME NEW x \in Objs, x # o PROVE Counted(x)'
  <2>1. Dying(x)' = Dying(x)
    BY <1>1 DEF Dying, CallGoes, Obj, Ending, Walking
  <2> QED BY <1>1, <2>1 DEF CountInv, Counted
<1>2. \A u \in Threads : call'[u].at = "swap-" => call'[u].old > 0
  BY DEF CountInv, CallGoes
<1> QED BY <1>1, <1>2 DEF CountInv

LEMMA AllocKeeps ==
  ASSUME ObjectsInv, NEW t \in Threads, NEW o \in Objs, Alloc(t, o)
  PROVE  ObjectsInv'
<1>1. TypeOK /\ CallsHold
  BY DEF ObjectsInv
<1>2. /\ call[t].at = "idle" /\ o \notin live /\ held[t][o] < MaxHeld
      /\ live' = live \cup {o} /\ magic' = magic \cup {o}
      /\ count' = [count EXCEPT ![o] = 1] /\ held' = [held EXCEPT ![t][o] = @ + 1]
      /\ UNCHANGED <<chain, call>>
      /\ UNCHANGED <<ref, valid, owner, head, registry, call, state, revived, leftLinked, silent>>
  BY DEF Alloc, At, chain, history
<1>3. CallGoes(t, "idle", call[t].obj, call[t].ref)
  BY <1>1, <1>2, CallStays
<1>4. /\ held' \in [Threads -> [Objs -> 0 .. MaxHeld]] /\ held'[t][o] = held[t][o] + 1
      /\ \A u \in Threads : u # t => held'[u] = held[u]
      /\ \A x \in Objs : x # o => References(x)' = References(x)
      /\ IsFiniteSet(References(o)) =>
           /\ IsFiniteSet(References(o)')
           /\ Cardinality(References(o)') = Cardinality(References(o)) + 1
  BY <1>1, <1>2, OneMore
<1>5. TypeOK'
  BY <1>1, <1>2, <1>4 DEF TypeOK
<1>6. CallsHold'
  BY <1>1, <1>3, <1>4, CallsHoldStep DEF Retaining, Releasing
<1>7. ASSUME ~revived' PROVE CountInv'
  <2>1. CountInv
    BY <1>2, <1>7 DEF ObjectsInv
  <2>2. Counted(o) /\ count[o] = 0 /\ Dying(o) = {}
    BY <1>2, <2>1 DEF CountInv, Counted
  <2>3. Dying(o)' = {}
    BY <1>2, <2>2 DEF Dying, Obj
  <2>4. count'[o] = 1 /\ (\A x \in Objs : x # o => count'[x] = count[x])
    BY <1>1, <1>2 DEF TypeOK
  <2>5. Counted(o)'
    BY <1>2, <1>4, <2>2, <2>3, <2>4 DEF Counted
  <2> QED BY <1>1, <1>2, <1>3, <1>4, <2>1, <2>4, <2>5, CountOfOne DEF Ending
<1>8. ASSUME ~revived', ~leftLinked', ~silent' PROVE WeakInv'
  <2>1. WeakInv
    BY <1>2, <1>8 DEF ObjectsInv
  <2>2. \A r \in Refs : owner[r] # Null /\ ref[r].target # Null => ref[r].target \in live'
    BY <1>2, <2>1 DEF WeakInv, TargetsLive
  <2> QED BY <1>2, <1>3, <2>1, <2>2, WeakSame DEF Retaining
<1> QED BY <1>5, <1>6, <1>7, <1>8 DEF ObjectsInv

LEMMA RetainSwapKeeps ==
  ASSUME ObjectsInv, NEW t \in Threads, RetainSwap(t)
  PROVE  ObjectsInv'
<1>1. TypeOK /\ CallsHold
  BY DEF ObjectsInv
<1>2. PICK o \in Objs : o = Obj(t)
  BY <1>1 DEF CallsHold, RetainSwap, At
<1>3. /\ call[t].at = "swap+" /\ o \in live /\ count[o] = call[t].old
      /\ count' = [count EXCEPT ![o] = call[t].old + 1]
      /\ held' = [held EXCEPT ![t][o] = @ + 1]
      /\ revived' = (revived \/ call[t].old = 0) /\ Return(t)
      /\ UNCHANGED <<live, magic, ref, valid, owner, head, registry, state, leftLinked, silent>>
      /\ UNCHANGED chain
  BY <1>2 DEF RetainSwap, At, SameCount, chain
<1>4. held[t][o] < MaxHeld /\ call[t].old \in Nat
  BY <1>2, <1>1, <1>3, CallType DEF CallsHold, Retaining
<1>5. CallGoes(t, "idle", Null, Null)
  BY <1>1, <1>3, Returned
<1>6. /\ held' \in [Threads -> [Objs -> 0 .. MaxHeld]] /\ held'[t][o] = held[t][o] + 1
      /\ \A u \in Threads : u # t => held'[u] = held[u]
      /\ \A x \in Objs : x # o => References(x)' = References(x)
      /\ IsFiniteSet(References(o)) =>
           /\ IsFiniteSet(References(o)')
           /\ Cardinality(References(o)') = Cardinality(References(o)) + 1
  BY <1>1, <1>3, <1>4, OneMore
<1>7. /\ count' \in [Objs -> Nat] /\ count'[o] = call[t].old + 1
      /\ \A x \in Objs : x # o => count'[x] = count[x]
  BY <1>1, <1>3, <1>4 DEF TypeOK
<1>8. TypeOK'
  <2>1. {u \in Threads : call'[u].at \in Walking} = {registry'} \ {Null}
    BY <1>1, <1>3, <1>5, SameWalker DEF Walking
  <2> QED BY <1>1, <1>3, <1>5, <1>6, <1>7, <2>1 DEF TypeOK, CallGoes
<1>9. CallsHold'
  BY <1>1, <1>5, <1>6, CallsHoldStep DEF Retaining, Releasing
<1>10. ASSUME ~revived' PROVE CountInv'
  <2>1. CountInv /\ call[t].old # 0
    BY <1>3, <1>10 DEF ObjectsInv
  <2>2. Counted(o) /\ count[o] > 0 /\ Dying(o) = {} /\ o \in magic
    BY <1>3, <1>4, <2>1 DEF CountInv, Counted
  <2>3. Dying(o)' = {}
    BY <1>5, <2>2 DEF Dying, Obj, CallGoes, Walking
  <2>4. Counted(o)'
    BY <1>3, <1>4, <1>6, <1>7, <2>2, <2>3 DEF Counted
  <2> QED BY <1>1, <1>3, <1>4, <1>5, <1>6, <1>7, <2>1, <2>4, <1>2, CountOfOne DEF Ending
<1>11. ASSUME ~revived', ~leftLinked', ~silent' PROVE WeakInv'
  <2>1. WeakInv
    BY <1>3, <1>11 DEF ObjectsInv
  <2>2. \A r \in Refs : owner[r] # Null /\ ref[r].target # Null => ref[r].target \in live'
    BY <1>3, <2>1 DEF WeakInv, TargetsLive
  <2> QED BY <1>3, <1>5, <2>1, <2>2, WeakSame DEF Retaining
<1> QED BY <1>8, <1>9, <1>10, <1>11 DEF ObjectsInv

LEMMA ReleaseSwapKeeps ==
  ASSUME ObjectsInv, NEW t \in Threads, ReleaseSwap(t)
  PROVE  ObjectsInv'
<1>1. TypeOK /\ CallsHold
  BY DEF ObjectsInv
<1>2. PICK o \in Objs : o = Obj(t)
  BY <1>1 DEF CallsHold, ReleaseSwap, At
<1>3. /\ call[t].at = "swap-" /\ o \in live /\ count[o] = call[t].old /\ call[t].old > 0
      /\ count' = [count EXCEPT ![o] = call[t].old - 1]
      /\ held' = [held EXCEPT ![t][o] = @ - 1]
      /\ UNCHANGED <<live, magic, ref, valid, owner, head, registry, state, revived, leftLinked, silent>>
      /\ UNCHANGED chain
  BY <1>2 DEF ReleaseSwap, At, SameCount, chain, history
<1>4. Holds(t, o) /\ call[t].old \in Nat
  BY <1>2, <1>1, <1>3, CallType DEF CallsHold, Releasing
<1>5. \/ call[t].old = 1 /\ CallGoes(t, "dying", o, call[t].ref)
      \/ call[t].old # 1 /\ CallGoes(t, "idle", Null, Null)
  <2>1. CASE call[t].old = 1
    <3>1. Goto(t, "dying")
      BY <2>1 DEF ReleaseSwap, LastOne
    <3> QED BY <1>2, <1>1, <2>1, <3>1, Moved DEF Places, Obj
  <2>2. CASE call[t].old # 1
    <3>1. Return(t)
      BY <2>2 DEF ReleaseSwap, LastOne
    <3> QED BY <1>1, <2>2, <3>1, Returned
  <2> QED BY <2>1, <2>2
<1>6. PICK at, q, w : /\ CallGoes(t, at, q, w)
                      /\ \/ call[t].old = 1 /\ at = "dying" /\ q = o
                         \/ call[t].old # 1 /\ at = "idle"
  BY <1>5
<1>7. /\ held' \in [Threads -> [Objs -> 0 .. MaxHeld]] /\ held'[t][o] = held[t][o] - 1
      /\ \A u \in Threads : u # t => held'[u] = held[u]
      /\ \A x \in Objs : x # o => References(x)' = References(x)
      /\ IsFiniteSet(References(o)) =>
           /\ IsFiniteSet(References(o)')
           /\ Cardinality(References(o)') = Cardinality(References(o)) - 1
  BY <1>1, <1>3, <1>4, OneLess
<1>8. /\ count' \in [Objs -> Nat] /\ count'[o] = call[t].old - 1
      /\ \A x \in Objs : x # o => count'[x] = count[x]
  BY <1>1, <1>3, <1>4 DEF TypeOK
<1>9. TypeOK'
  <2>1. {u \in Threads : call'[u].at \in Walking} = {registry'} \ {Null}
    BY <1>1, <1>3, <1>6, SameWalker DEF Walking
  <2> QED BY <1>1, <1>3, <1>6, <1>7, <1>8, <2>1 DEF TypeOK, CallGoes
<1>10. CallsHold'
  BY <1>1, <1>4, <1>6, <1>7, CallsHoldStep DEF Retaining, Releasing
<1>11. ASSUME ~revived' PROVE CountInv'
  <2>1. CountInv
    BY <1>3, <1>11 DEF ObjectsInv
  <2>2. Counted(o) /\ count[o] > 0 /\ Dying(o) = {} /\ o \in magic
    BY <1>3, <1>4, <2>1 DEF CountInv, Counted
  <2>3. Dying(o)' = IF call[t].old = 1 THEN {t} ELSE {}
    <3>1. \A u \in Threads : u # t => u \notin Dying(o)'
      BY <1>6, <2>2 DEF Dying, Obj, CallGoes
    <3>2. t \in Dying(o)' <=> call[t].old = 1
      BY <1>6 DEF Dying, Obj, CallGoes, Walking
    <3>3. Dying(o)' \subseteq Threads
      BY DEF Dying
    <3> QED BY <3>1, <3>2, <3>3
  <2>4. Counted(o)'
    <3>1. IsFiniteSet(References(o)') /\ count'[o] = Cardinality(References(o)')
      BY <1>3, <1>7, <1>8, <2>2 DEF Counted
    <3>2. count'[o] = 0 <=> call[t].old = 1
      BY <1>3, <1>4, <1>8
    <3>3. count'[o] = 0 => Dying(o)' = {t}
      BY <2>3, <3>2
    <3>4. count'[o] > 0 => Dying(o)' = {} /\ o \in magic'
      BY <1>3, <1>4, <1>8, <2>2, <2>3, <3>2
    <3> QED BY <1>3, <3>1, <3>3, <3>4 DEF Counted
  <2> QED BY <1>1, <1>3, <1>4, <1>6, <1>7, <1>8, <2>1, <2>4, <1>2, CountOfOne DEF Ending
<1>12. ASSUME ~revived', ~leftLinked', ~silent' PROVE WeakInv'
  <2>1. WeakInv
    BY <1>3, <1>12 DEF ObjectsInv
  <2>2. \A r \in Refs : owner[r] # Null /\ ref[r].target # Null => ref[r].target \in live'
    BY <1>3, <2>1 DEF WeakInv, TargetsLive
  <2> QED BY <1>3, <1>6, <2>1, <2>2, WeakSame DEF Retaining
<1> QED BY <1>9, <1>10, <1>11, <1>12 DEF ObjectsInv

LEMMA PlainRetainKeeps ==
  ASSUME ObjectsInv, NEW t \in Threads, NEW o \in Objs, PlainRetain(t, o)
  PROVE  ObjectsInv'
<1>1. TypeOK /\ CallsHold /\ call[t].at = "idle" /\ Holds(t, o) /\ held[t][o] < MaxHeld
  BY DEF ObjectsInv, PlainRetain, At
<1>2. CASE o \notin live
  BY <1>2, StopStep DEF PlainRetain
<1>3. CASE o \in live
  <2>1. /\ count' = [count EXCEPT ![o] = @ + 1] /\ held' = [held EXCEPT ![t][o] = @ + 1]
        /\ UNCHANGED <<live, magic, ref, valid, owner, head, registry, call, state, revived, leftLinked, silent>>
        /\ UNCHANGED chain
    BY <1>3 DEF PlainRetain, chain, history
  <2>2. CallGoes(t, "idle", call[t].obj, call[t].ref)
    BY <1>1, <2>1, CallStays
  <2>3. /\ held' \in [Threads -> [Objs -> 0 .. MaxHeld]] /\ held'[t][o] = held[t][o] + 1
        /\ \A u \in Threads : u # t => held'[u] = held[u]
        /\ \A x \in Objs : x # o => References(x)' = References(x)
        /\ IsFiniteSet(References(o)) =>
             /\ IsFiniteSet(References(o)')
             /\ Cardinality(References(o)') = Cardinality(References(o)) + 1
    BY <1>1, <2>1, OneMore
  <2>4. /\ count' \in [Objs -> Nat] /\ count'[o] = count[o] + 1 /\ count[o] \in Nat
        /\ \A x \in Objs : x # o => count'[x] = count[x]
    BY <1>1, <2>1 DEF TypeOK
  <2>5. TypeOK'
    BY <1>1, <2>1, <2>3, <2>4 DEF TypeOK
  <2>6. CallsHold'
    BY <1>1, <2>2, <2>3, CallsHoldStep DEF Retaining, Releasing
  <2>7. ASSUME ~revived' PROVE CountInv'
    <3>1. CountInv
      BY <2>1, <2>7 DEF ObjectsInv
    <3>2. Counted(o) /\ count[o] > 0 /\ Dying(o) = {} /\ o \in magic
      BY <1>1, <3>1, HolderCounted DEF CountInv
    <3>3. Dying(o)' = {}
      BY <2>1, <3>2 DEF Dying, Obj
    <3>4. Counted(o)'
      BY <1>3, <2>1, <2>3, <2>4, <3>2, <3>3 DEF Counted
    <3> QED BY <1>1, <2>1, <2>2, <2>3, <2>4, <3>1, <3>4, CountOfOne DEF Ending
  <2>8. ASSUME ~revived', ~leftLinked', ~silent' PROVE WeakInv'
    <3>1. WeakInv
      BY <2>1, <2>8 DEF ObjectsInv
    <3>2. \A r \in Refs : owner[r] # Null /\ ref[r].target # Null => ref[r].target \in live'
      BY <2>1, <3>1 DEF WeakInv, TargetsLive
    <3> QED BY <1>1, <2>1, <2>2, <3>1, <3>2, WeakSame DEF Retaining
  <2> QED BY <2>5, <2>6, <2>7, <2>8 DEF ObjectsInv
<1> QED BY <1>2, <1>3

(* The object that a plain release frees has no weak reference, unless it  *)
(* ends silently.                                                          *)
LEMMA PlainReleaseKeeps ==
  ASSUME ObjectsInv, NEW t \in Threads, NEW o \in Objs, PlainRelease(t, o)
  PROVE  ObjectsInv'
<1>1. TypeOK /\ CallsHold /\ call[t].at = "idle" /\ Holds(t, o)
  BY DEF ObjectsInv, PlainRelease, At
<1>2. CASE ~(o \in live /\ count[o] > 0)
  BY <1>2, StopStep DEF PlainRelease
<1>3. CASE o \in live /\ count[o] > 0
  <2>1. /\ count' = [count EXCEPT ![o] = @ - 1] /\ held' = [held EXCEPT ![t][o] = @ - 1]
        /\ IF Ends(o) THEN Enter(t, "free", o, Null) ELSE UNCHANGED call
        /\ silent' = (silent \/ (Ends(o) /\ \E w \in Refs : owner[w] # Null /\ ref[w].target = o))
        /\ UNCHANGED <<live, magic, ref, valid, owner, head, registry, state, revived, leftLinked>>
        /\ UNCHANGED chain
    BY <1>3 DEF PlainRelease, chain
  <2>2. \/ count[o] = 1 /\ CallGoes(t, "free", o, Null)
        \/ count[o] # 1 /\ CallGoes(t, "idle", call[t].obj, call[t].ref)
    <3>1. CASE count[o] = 1
      BY <1>1, <2>1, <3>1, Entered DEF Places, Ends
    <3>2. CASE count[o] # 1
      BY <1>1, <2>1, <3>2, CallStays DEF Ends
    <3> QED BY <3>1, <3>2
  <2>3. PICK at, q, w : /\ CallGoes(t, at, q, w)
                        /\ \/ count[o] = 1 /\ at = "free" /\ q = o
                           \/ count[o] # 1 /\ at = "idle"
    BY <2>2
  <2>4. /\ held' \in [Threads -> [Objs -> 0 .. MaxHeld]] /\ held'[t][o] = held[t][o] - 1
        /\ \A u \in Threads : u # t => held'[u] = held[u]
        /\ \A x \in Objs : x # o => References(x)' = References(x)
        /\ IsFiniteSet(References(o)) =>
             /\ IsFiniteSet(References(o)')
             /\ Cardinality(References(o)') = Cardinality(References(o)) - 1
    BY <1>1, <2>1, OneLess
  <2>5. /\ count' \in [Objs -> Nat] /\ count'[o] = count[o] - 1 /\ count[o] \in Nat
        /\ \A x \in Objs : x # o => count'[x] = count[x]
    BY <1>1, <1>3, <2>1 DEF TypeOK
  <2>6. TypeOK'
    <3>1. {u \in Threads : call'[u].at \in Walking} = {registry'} \ {Null}
      BY <1>1, <2>1, <2>3, SameWalker DEF Walking
    <3>2. silent' \in BOOLEAN
      BY <2>1
    <3> QED BY <1>1, <2>1, <2>3, <2>4, <2>5, <3>1, <3>2 DEF TypeOK, CallGoes
  <2>7. CallsHold'
    BY <1>1, <2>3, <2>4, CallsHoldStep DEF Retaining, Releasing
  <2>8. ASSUME ~revived' PROVE CountInv'
    <3>1. CountInv
      BY <2>1, <2>8 DEF ObjectsInv
    <3>2. Counted(o) /\ Dying(o) = {} /\ o \in magic
      BY <1>1, <3>1, HolderCounted DEF CountInv
    <3>3. Dying(o)' = IF count[o] = 1 THEN {t} ELSE {}
      <4>1. \A u \in Threads : u # t => u \notin Dying(o)'
        BY <2>3, <3>2 DEF Dying, Obj, CallGoes
      <4>2. t \in Dying(o)' <=> count[o] = 1
        BY <2>3 DEF Dying, Obj, CallGoes, Walking
      <4>3. Dying(o)' \subseteq Threads
        BY DEF Dying
      <4> QED BY <4>1, <4>2, <4>3
    <3>4. Counted(o)'
      <4>1. IsFiniteSet(References(o)') /\ count'[o] = Cardinality(References(o)')
        BY <2>4, <2>5, <3>2 DEF Counted
      <4>2. count'[o] = 0 <=> count[o] = 1
        BY <1>3, <2>5
      <4>3. count'[o] = 0 => Dying(o)' = {t}
        BY <3>3, <4>2
      <4>4. count'[o] > 0 => Dying(o)' = {} /\ o \in magic'
        BY <2>1, <2>5, <3>2, <3>3, <4>2
      <4> QED BY <1>3, <2>1, <4>1, <4>3, <4>4 DEF Counted
    <3> QED BY <1>1, <2>1, <2>3, <2>4, <2>5, <3>1, <3>4, CountOfOne DEF Ending
  <2>9. ASSUME ~revived', ~leftLinked', ~silent' PROVE WeakInv'
    <3>1. WeakInv
      BY <2>1, <2>9 DEF ObjectsInv
    <3>2. \A r \in Refs : owner[r] # Null /\ ref[r].target # Null => ref[r].target \in live'
      BY <2>1, <3>1 DEF WeakInv, TargetsLive
    <3>3. at = "free" => \A r \in Refs : owner[r] # Null => ref[r].target # q
      BY <2>1, <2>3, <2>9 DEF Ends
    <3> QED BY <1>1, <2>1, <2>3, <3>1, <3>2, <3>3, WeakSame DEF Retaining
  <2> QED BY <2>6, <2>7, <2>8, <2>9 DEF ObjectsInv
<1> QED BY <1>2, <1>3

LEMMA MoveKeeps ==
  ASSUME ObjectsInv, NEW t \in Threads, NEW u \in Threads, NEW o \in Objs, Move(t, u, o)
  PROVE  ObjectsInv'
<1>1. TypeOK /\ CallsHold
  BY DEF ObjectsInv
<1>2. /\ call[t].at = "idle" /\ call[u].at = "idle" /\ t # u
      /\ held[t][o] > 0 /\ held[u][o] < MaxHeld
      /\ held' = [held EXCEPT ![t][o] = @ - 1, ![u][o] = @ + 1]
      /\ UNCHANGED <<live, magic, count, ref, valid, owner, head, registry, call, state, revived, leftLinked, silent>>
      /\ UNCHANGED chain
  BY DEF Move, At, Holds, chain, history
<1>3. /\ held' \in [Threads -> [Objs -> 0 .. MaxHeld]]
      /\ held'[t][o] = held[t][o] - 1 /\ held'[u][o] = held[u][o] + 1
      /\ \A v \in Threads \ {t, u} : held'[v] = held[v]
      /\ \A v \in Threads, x \in Objs \ {o} : held'[v][x] = held[v][x]
  <2> DEFINE mid == [held EXCEPT ![t][o] = @ - 1]
  <2>1. held \in [Threads -> [Objs -> 0 .. MaxHeld]] /\ held[t][o] - 1 \in 0 .. MaxHeld
    BY <1>1, <1>2, ObjectsAssumption DEF TypeOK
  <2>2. /\ mid \in [Threads -> [Objs -> 0 .. MaxHeld]] /\ mid[t][o] = held[t][o] - 1
        /\ \A v \in Threads \ {t} : mid[v] = held[v]
        /\ \A x \in Objs \ {o} : mid[t][x] = held[t][x]
    BY <2>1
  <2>3. held' = [mid EXCEPT ![u][o] = @ + 1]
    BY <1>2, <2>1
  <2> HIDE DEF mid
  <2>4. mid[u][o] = held[u][o] /\ mid[u][o] + 1 \in 0 .. MaxHeld
    BY <1>2, <2>1, <2>2, ObjectsAssumption
  <2>5. /\ held' \in [Threads -> [Objs -> 0 .. MaxHeld]] /\ held'[u][o] = mid[u][o] + 1
        /\ \A v \in Threads \ {u} : held'[v] = mid[v]
        /\ \A x \in Objs \ {o} : held'[u][x] = mid[u][x]
    BY <2>2, <2>3, <2>4
  <2> QED BY <1>2, <2>2, <2>4, <2>5
<1>4. CallGoes(t, "idle", call[t].obj, call[t].ref)
  BY <1>1, <1>2, CallStays
<1>5. TypeOK'
  BY <1>1, <1>2, <1>3 DEF TypeOK
<1>6. CallsHold'
  <2>1. \A v \in Threads : call[v].at # "idle" => held'[v] = held[v]
    BY <1>2, <1>3
  <2> QED BY <1>1, <1>2, <2>1 DEF CallsHold, Retaining, Releasing, Holds, Obj
<1>7. ASSUME ~revived' PROVE CountInv'
  <2> DEFINE less == <<t, held[t][o]>>
             more == <<u, held[u][o] + 1>>
  <2>1. CountInv
    BY <1>2, <1>7 DEF ObjectsInv
  <2>2. ASSUME NEW x \in Objs, x # o PROVE References(x)' = References(x)
    BY <1>3, <2>2 DEF References
  <2>3. /\ \A v \in Threads : held[v][o] \in 0 .. MaxHeld
        /\ held[t][o] \in 1 .. MaxHeld /\ held[u][o] + 1 \in 1 .. MaxHeld
    BY <1>1, <1>2, ObjectsAssumption DEF TypeOK
  <2>4. less \in References(o) /\ more \notin References(o) /\ more \in Threads \X (1 .. MaxHeld)
    BY <2>3 DEF References
  <2>5. References(o)' = (References(o) \ {less}) \cup {more}
    <3>1. ASSUME NEW r \in Threads \X (1 .. MaxHeld)
          PROVE  r[2] <= held'[r[1]][o] <=> (r[2] <= held[r[1]][o] /\ r # less) \/ r = more
      <4>1. PICK v \in Threads, i \in 1 .. MaxHeld : r = <<v, i>>
        BY <3>1
      <4>2. /\ r[1] = v /\ r[2] = i
            /\ r = less <=> v = t /\ i = held[t][o]
            /\ r = more <=> v = u /\ i = held[u][o] + 1
        BY <4>1
      <4> HIDE DEF less, more
      <4>3. CASE v = t
        <5>1. i <= held'[t][o] <=> i <= held[t][o] /\ i # held[t][o]
          BY <1>3, <2>3, ObjectsAssumption
        <5>2. r # more
          BY <1>2, <4>2, <4>3
        <5> QED BY <4>2, <4>3, <5>1, <5>2
      <4>4. CASE v = u
        BY <4>1, <4>2, <4>4, <1>2, <1>3, <2>3, ObjectsAssumption
      <4>5. CASE v \notin {t, u}
        BY <4>1, <4>2, <4>5, <1>3, <2>3
      <4> QED BY <4>3, <4>4, <4>5
    <3> QED BY <2>4, <3>1 DEF References
  <2> HIDE DEF less, more
  <2>6. Counted(o) /\ count[o] \in Nat
    BY <1>1, <2>1 DEF CountInv, TypeOK
  <2>7. /\ IsFiniteSet(References(o) \ {less})
        /\ Cardinality(References(o) \ {less}) = Cardinality(References(o)) - 1
    BY <2>4, <2>6, FS_RemoveElement DEF Counted
  <2>8. /\ IsFiniteSet(References(o)')
        /\ Cardinality(References(o)') = Cardinality(References(o)) - 1 + 1
    BY <2>4, <2>5, <2>7, FS_AddElement
  <2>9. Cardinality(References(o)') = Cardinality(References(o))
    BY <2>6, <2>8 DEF Counted
  <2>10. Dying(o)' = Dying(o)
    BY <1>2 DEF Dying, Obj
  <2>11. Counted(o)'
    BY <1>2, <2>6, <2>8, <2>9, <2>10 DEF Counted
  <2> QED BY <1>1, <1>2, <1>4, <2>1, <2>2, <2>11, CountOfOne DEF Ending
<1>8. ASSUME ~revived', ~leftLinked', ~silent' PROVE WeakInv'
  <2>1. WeakInv
    BY <1>2, <1>8 DEF ObjectsInv
  <2>2. \A r \in Refs : owner[r] # Null /\ ref[r].target # Null => ref[r].target \in live'
    BY <1>2, <2>1 DEF WeakInv, TargetsLive
  <2> QED BY <1>2, <1>4, <2>1, <2>2, WeakSame DEF Retaining
<1> QED BY <1>5, <1>6, <1>7, <1>8 DEF ObjectsInv

-----------------------------------------------------------------------------
\* The steps of a deallocation.

LEMMA BeginDeallocateKeeps ==
  ASSUME ObjectsInv, NEW t \in Threads, BeginDeallocate(t)
  PROVE  ObjectsInv'
<1>1. TypeOK /\ CallsHold
  BY DEF ObjectsInv
<1>2. PICK o \in Objs : o = Obj(t)
  BY <1>1 DEF CallsHold, BeginDeallocate, At
<1>3. /\ call[t].at = "dying" /\ magic' \in {magic, magic \ {o}} /\ Goto(t, "nullify")
      /\ UNCHANGED <<live, count, held, ref, valid, owner, head, registry, state, revived, leftLinked, silent>>
      /\ UNCHANGED chain
  BY <1>2 DEF BeginDeallocate, At, chain, history
<1>4. CallGoes(t, "nullify", o, call[t].ref)
  BY <1>1, <1>2, <1>3, Moved DEF Places, Obj
<1>5. TypeOK'
  <2>1. {v \in Threads : call'[v].at \in Walking} = {registry'} \ {Null}
    BY <1>1, <1>3, <1>4, SameWalker DEF Walking
  <2>2. magic' \subseteq live
    BY <1>1, <1>3 DEF TypeOK
  <2> QED BY <1>1, <1>3, <1>4, <2>1, <2>2 DEF TypeOK, CallGoes
<1>6. CallsHold'
  BY <1>1, <1>3, <1>4, CallsHoldStep DEF Retaining, Releasing
<1>7. ASSUME ~revived' PROVE CountInv'
  <2>1. CountInv
    BY <1>3, <1>7 DEF ObjectsInv
  <2>2. Counted(o) /\ Dying(o) # {} /\ count[o] \in Nat
    BY <1>1, <1>2, <1>3, <2>1 DEF CountInv, Dying, Obj, TypeOK
  <2>3. o \in live /\ count[o] = 0
    BY <2>2 DEF Counted
  <2>4. Dying(o)' = Dying(o)
    BY <1>2, <1>3, <1>4, DyingSame DEF Ending
  <2>5. \A x \in Objs : References(x)' = References(x)
    BY <1>3 DEF References
  <2>6. Counted(o)'
    BY <1>3, <2>2, <2>3, <2>4, <2>5 DEF Counted
  <2>7. \A x \in Objs : x # o => (x \in magic' <=> x \in magic)
    BY <1>3
  <2> QED BY <1>1, <1>2, <1>3, <1>4, <2>1, <2>5, <2>6, <2>7, CountOfOne DEF Ending
<1>8. ASSUME ~revived', ~leftLinked', ~silent' PROVE WeakInv'
  <2>1. WeakInv
    BY <1>3, <1>8 DEF ObjectsInv
  <2>2. \A r \in Refs : owner[r] # Null /\ ref[r].target # Null => ref[r].target \in live'
    BY <1>3, <2>1 DEF WeakInv, TargetsLive
  <2> QED BY <1>3, <1>4, <2>1, <2>2, WeakSame DEF Retaining
<1> QED BY <1>5, <1>6, <1>7, <1>8 DEF ObjectsInv

LEMMA NullifyKeeps ==
  ASSUME ObjectsInv, NEW t \in Threads, Nullify(t)
  PROVE  ObjectsInv'
<1>1. TypeOK /\ CallsHold
  BY DEF ObjectsInv
<1>2. /\ call[t].at = "nullify" /\ registry = Null /\ registry' = t
      /\ Visit(t, head)
      /\ UNCHANGED <<live, magic, count, held, ref, valid, owner, head, state, revived, leftLinked, silent>>
      /\ UNCHANGED objects
  BY DEF Nullify, At, objects, chain, history
<1>3. CallGoes(t, "walk", Obj(t), head)
  BY <1>1, <1>2, Visited DEF TypeOK, Obj
<1>4. \A v \in Threads : call'[v].at \in Walking <=> v = t
  BY <1>1, <1>2, <1>3, WalkersSame DEF CallGoes, Walking
<1>5. TypeOK'
  <2>1. {v \in Threads : call'[v].at \in Walking} = {registry'} \ {Null}
    BY <1>2, <1>4, ObjectsAssumption
  <2> QED BY <1>1, <1>2, <1>3, <2>1 DEF TypeOK, CallGoes
<1>6. Obj(t) \in Objs
  BY <1>1, <1>2 DEF CallsHold
<1>7. CallsHold'
  BY <1>1, <1>2, <1>3, <1>6, CallsHoldStep DEF Retaining, Releasing
<1>8. ASSUME ~revived' PROVE CountInv'
  BY <1>2, <1>3, <1>8, CountSame DEF ObjectsInv, Ending
<1>9. ASSUME ~revived', ~leftLinked', ~silent' PROVE WeakInv'
  <2>1. WeakInv /\ CountInv
    BY <1>2, <1>9 DEF ObjectsInv
  <2>2. Chain' = Chain
    BY <1>2, <1>3, ChainSame
  <2>3. RefsOwned'
    BY <1>2, <1>3, <2>1, OwnedSame DEF WeakInv, Retaining
  <2>4. TargetsLive'
    <3>1. \A v \in Threads : call'[v].at = "free" => call'[v] = call[v]
      BY <1>3 DEF CallGoes
    <3> QED BY <1>2, <2>1, <3>1 DEF WeakInv, TargetsLive, Obj
  <2>5. PICK rank \in [Refs -> Nat] : Ranked(rank) /\ Passed(rank)
    BY <2>1 DEF WeakInv
  <2>6. Ranked(rank)'
    BY <1>2, <2>2, <2>5 DEF Ranked, NextBelow
  <2>7. ASSUME NEW r \in Refs, owner[r] # Null, ref[r].target = Obj(t) PROVE r \in Chain
    <3>1. ASSUME NEW v \in Threads, call[v].at = "link", call[v].ref = r PROVE FALSE
      <4>1. r # Null
        BY ObjectsAssumption
      <4>2. Obj(v) = Obj(t)
        BY <2>1, <2>7, <3>1, <4>1 DEF WeakInv, RefsOwned
      <4>3. Holds(v, Obj(t))
        BY <1>1, <3>1, <4>2 DEF CallsHold
      <4>4. Dying(Obj(t)) = {}
        BY <1>1, <1>6, <2>1, <4>3, HolderCounted
      <4> QED BY <1>2, <4>4 DEF Dying
    <3> QED BY <2>7, <3>1 DEF Chain, Linking
  <2>8. Passed(rank)'
    <3>1. call'[t].ref = head /\ call'[t].obj = Obj(t)
      BY <1>3 DEF CallGoes
    <3>2. head # Null => head \in Chain
      BY <2>5 DEF Ranked
    <3>3. ASSUME NEW r \in Refs, owner[r] # Null, ref[r].target = Obj(t)
          PROVE  r \in Chain /\ head # Null /\ rank[r] <= rank[head]
      <4>1. r \in Chain
        BY <2>7, <3>3
      <4> QED BY <2>5, <4>1 DEF Ranked
    <3>4. ASSUME NEW v \in Threads, call'[v].at \in Walking
          PROVE  call'[v].ref = head /\ call'[v].obj = Obj(t)
      BY <1>4, <3>1, <3>4
    <3>5. ASSUME NEW v \in Threads, call'[v].at \in Walking
          PROVE  /\ call'[v].ref # Null => call'[v].ref \in Chain'
                 /\ \A r \in Refs : owner'[r] # Null /\ ref'[r].target = call'[v].obj =>
                      r \in Chain' /\ call'[v].ref # Null /\ rank[r] <= rank[call'[v].ref]
      <4>1. call'[v].ref = head /\ call'[v].obj = Obj(t)
        BY <3>4, <3>5
      <4>2. call'[v].ref # Null => call'[v].ref \in Chain'
        BY <2>2, <3>2, <4>1
      <4>3. ASSUME NEW r \in Refs, owner'[r] # Null, ref'[r].target = call'[v].obj
            PROVE  r \in Chain' /\ call'[v].ref # Null /\ rank[r] <= rank[call'[v].ref]
        <5>1. owner[r] # Null /\ ref[r].target = Obj(t)
          BY <1>2, <4>1, <4>3
        <5>2. r \in Chain /\ head # Null /\ rank[r] <= rank[head]
          BY <3>3, <5>1
        <5> QED BY <2>2, <4>1, <5>2
      <4> QED BY <4>2, <4>3
    <3> QED BY <3>5 DEF Passed, Obj
  <2> QED BY <2>3, <2>4, <2>6, <2>8 DEF WeakInv
<1> QED BY <1>5, <1>7, <1>8, <1>9 DEF ObjectsInv

LEMMA Below == \A i, j \in Nat : i <= j /\ i # j => i < j
OBVIOUS

(* A weak reference that forgets its target.                               *)
LEMMA Cleared ==
  ASSUME TypeOK, NEW w \in Refs, ref' = [ref EXCEPT ![w].target = Null]
  PROVE  /\ ref' \in [Refs -> [target : Objs \cup {Null}, next : Refs \cup {Null}, prev : Refs \cup {Null}]]
         /\ \A r \in Refs : ref'[r].next = ref[r].next /\ ref'[r].prev = ref[r].prev
         /\ \A r \in Refs : r # w => ref'[r] = ref[r]
         /\ ref'[w].target = Null
BY DEF TypeOK

(* One weak reference passed: t walks on below it.                         *)
LEMMA WalkPasses ==
  ASSUME WeakInv, TypeOK, CallsHold, NEW t \in Threads, call[t].at \in Walking,
         NEW w \in Refs, w = call[t].ref,
         CallGoes(t, "walk", Obj(t), ref[w].next),
         UNCHANGED <<live, owner, head>>,
         ref' \in [Refs -> [target : Objs \cup {Null}, next : Refs \cup {Null}, prev : Refs \cup {Null}]],
         \A r \in Refs : ref'[r].next = ref[r].next /\ ref'[r].prev = ref[r].prev,
         \A r \in Refs : r # w => ref'[r] = ref[r],
         ref'[w].target # Obj(t),
         \/ ref' = ref
         \/ ref'[w].target = Null /\ ~Locked(w)
  PROVE  WeakInv'
<1>1. w # Null /\ Obj(t) \in Objs
  BY ObjectsAssumption DEF CallsHold, Walking
<1>2. PICK rank \in [Refs -> Nat] : Ranked(rank) /\ Passed(rank)
  BY DEF WeakInv
<1>3. w \in Chain
  BY <1>1, <1>2 DEF Passed
<1>4. owner[w] # Null /\ \A u \in Threads : ~(call[u].at = "link" /\ call[u].ref = w)
  BY <1>3 DEF Chain, Linking
<1>5. Chain' = Chain
  BY ChainSame DEF Walking
<1>6. RefsOwned'
  <2>1. ASSUME NEW r \in Refs, owner[r] = Null PROVE ref'[r] = NoRef
    BY <1>4, <2>1 DEF WeakInv, RefsOwned
  <2>2. ASSUME NEW u \in Threads, call'[u].ref # Null, call'[u].at \in {"link", "unlink"} \cup Retaining
        PROVE  /\ owner[call'[u].ref] = u
               /\ call'[u].at \in {"link"} \cup Retaining => ref'[call'[u].ref].target = call'[u].obj
    <3>1. u # t /\ call'[u] = call[u]
      BY <2>2 DEF CallGoes, Retaining
    <3>2. owner[call[u].ref] = u
      BY <2>2, <3>1 DEF WeakInv, RefsOwned
    <3>3. ASSUME call[u].at \in {"link"} \cup Retaining
          PROVE  ref'[call[u].ref].target = call[u].obj
      <4>1. ref[call[u].ref].target = call[u].obj
        BY <2>2, <3>1, <3>3 DEF WeakInv, RefsOwned, Obj
      <4>2. call[u].ref \in Refs
        BY <2>2, <3>1, CallType
      <4>3. call[u].ref = w => ref' = ref
        BY <1>4, <3>3 DEF Locked, Retaining
      <4> QED BY <4>1, <4>2, <4>3
    <3> QED BY <3>1, <3>2, <3>3
  <2>3. ASSUME NEW u \in Threads, call'[u].at = "link" PROVE ref'[call'[u].ref].prev = Null
    <3>1. call'[u] = call[u]
      BY <2>3 DEF CallGoes
    <3>2. call[u].ref \in Refs /\ ref[call[u].ref].prev = Null
      BY <2>3, <3>1 DEF CallsHold, WeakInv, RefsOwned
    <3> QED BY <3>1, <3>2
  <2> QED BY <2>1, <2>2, <2>3 DEF RefsOwned, Obj
<1>7. \A r \in Refs : ref'[r].target # Null => ref'[r].target = ref[r].target
  OBVIOUS
<1>8. TargetsLive'
  <2>1. \A u \in Threads : call'[u].at = "free" => call'[u] = call[u] /\ call[u].obj # Null
    BY ObjectsAssumption DEF CallGoes, CallsHold, Obj
  <2> QED BY <1>7, <2>1 DEF WeakInv, TargetsLive, Obj
<1>9. Ranked(rank)'
  <2>1. Chain \subseteq Refs
    BY DEF Chain
  <2> QED BY <1>2, <1>5, <2>1 DEF Ranked, NextBelow
<1>10. Passed(rank)'
  <2> DEFINE n == ref[w].next
  <2>1. /\ n = Null => \A r \in Chain : rank[w] <= rank[r]
        /\ n # Null => n \in Chain /\ NextBelow(rank, w, n)
        /\ \A r \in Chain : rank[r] = rank[w] => r = w
    BY <1>2, <1>3 DEF Ranked
  <2>2. ASSUME NEW r \in Refs, owner[r] # Null, ref'[r].target = Obj(t)
        PROVE  r \in Chain /\ n # Null /\ rank[r] <= rank[n]
    <3>1. r # w /\ ref[r].target = Obj(t)
      BY <2>2, <1>7, <1>1, ObjectsAssumption
    <3>2. r \in Chain /\ rank[r] <= rank[w]
      BY <1>2, <2>2, <3>1 DEF Passed
    <3>3. rank[r] \in Nat /\ rank[w] \in Nat /\ rank[r] < rank[w]
      <4>1. rank[r] # rank[w]
        BY <2>1, <3>1, <3>2
      <4>2. rank[r] \in Nat /\ rank[w] \in Nat
        BY <1>2, <2>2
      <4> QED BY <3>2, <4>1, <4>2, Below, Zenon
    <3>4. n # Null
      BY <2>1, <3>2, <3>3
    <3>5. n \in Refs /\ rank[n] \in Nat
      BY <2>1, <3>4 DEF Chain
    <3> QED BY <2>1, <3>2, <3>3, <3>4, <3>5 DEF NextBelow
  <2>3. ASSUME NEW u \in Threads, call'[u].at \in Walking
        PROVE  /\ call'[u].ref # Null => call'[u].ref \in Chain'
               /\ \A r \in Refs : owner'[r] # Null /\ ref'[r].target = call'[u].obj =>
                    r \in Chain' /\ call'[u].ref # Null /\ rank[r] <= rank[call'[u].ref]
    <3>1. u = t
      BY <2>3, WalkersSame DEF CallGoes
    <3>2. call'[u].ref = n /\ call'[u].obj = Obj(t)
      BY <3>1 DEF CallGoes
    <3>3. n # Null => n \in Chain'
      BY <1>5, <2>1
    <3>4. ASSUME NEW r \in Refs, owner'[r] # Null, ref'[r].target = Obj(t)
          PROVE  r \in Chain' /\ n # Null /\ rank[r] <= rank[n]
      BY <1>5, <2>2, <3>4
    <3> HIDE DEF n
    <3> QED BY <3>2, <3>3, <3>4
  <2> QED BY <2>3 DEF Passed, Obj
<1> QED BY <1>6, <1>8, <1>9, <1>10 DEF WeakInv

LEMMA WalkKeeps ==
  ASSUME ObjectsInv, NEW t \in Threads, Walk(t)
  PROVE  ObjectsInv'
<1>1. TypeOK /\ CallsHold /\ call[t].at = "walk" /\ call[t].ref # Null
  BY DEF ObjectsInv, Walk, At
<1>2. PICK w \in Refs : w = call[t].ref
  BY <1>1, CallType
<1>3. CASE owner[w] = Null
  BY <1>2, <1>3, StopStep DEF Walk
<1>4. CASE owner[w] # Null
  <2>1. /\ IF ref[w].target = Obj(t) THEN Goto(t, "found") ELSE Visit(t, ref[w].next)
        /\ UNCHANGED <<live, magic, count, held, ref, valid, owner, head, registry, state, revived, leftLinked, silent>>
        /\ UNCHANGED <<objects, chain>>
    BY <1>2, <1>4 DEF Walk, objects, chain, history
  <2>2. ref[w].next \in Refs \cup {Null} /\ Obj(t) \in Objs
    BY <1>1 DEF TypeOK, CallsHold
  <2>3. \/ ref[w].target = Obj(t) /\ CallGoes(t, "found", Obj(t), w)
        \/ ref[w].target # Obj(t) /\ CallGoes(t, "walk", Obj(t), ref[w].next)
    <3>1. CASE ref[w].target = Obj(t)
      BY <1>1, <1>2, <2>1, <3>1, Moved DEF Places, Obj
    <3>2. CASE ref[w].target # Obj(t)
      BY <1>1, <2>1, <2>2, <3>2, Visited DEF Obj
    <3> QED BY <3>1, <3>2
  <2>4. PICK at \in Walking, q \in Refs \cup {Null} : CallGoes(t, at, Obj(t), q) /\ (at = "found" => q = w)
    BY <2>2, <2>3 DEF Walking
  <2>5. TypeOK'
    <3>1. {u \in Threads : call'[u].at \in Walking} = {registry'} \ {Null}
      BY <1>1, <2>1, <2>4, SameWalker DEF Walking
    <3> QED BY <1>1, <2>1, <2>4, <3>1 DEF TypeOK, CallGoes
  <2>6. CallsHold'
    BY <1>1, <2>1, <2>2, <2>4, CallsHoldStep DEF Retaining, Releasing, Walking
  <2>7. ASSUME ~revived' PROVE CountInv'
    BY <1>1, <2>1, <2>4, <2>7, CountSame DEF ObjectsInv, Ending, Walking
  <2>8. ASSUME ~revived', ~leftLinked', ~silent' PROVE WeakInv'
    <3>1. WeakInv
      BY <2>1, <2>8 DEF ObjectsInv
    <3>2. CASE ref[w].target = Obj(t) /\ CallGoes(t, "found", Obj(t), w)
      <4>1. \A r \in Refs : owner[r] # Null /\ ref[r].target # Null => ref[r].target \in live'
        BY <2>1, <3>1 DEF WeakInv, TargetsLive
      <4> QED BY <1>1, <1>2, <2>1, <3>1, <3>2, <4>1, WeakSame DEF Retaining, Walking
    <3>3. CASE ref[w].target # Obj(t) /\ CallGoes(t, "walk", Obj(t), ref[w].next)
      <4>1. ref' = ref /\ ref' \in [Refs -> [target : Objs \cup {Null}, next : Refs \cup {Null}, prev : Refs \cup {Null}]]
        BY <1>1, <2>1 DEF TypeOK
      <4> QED BY <1>1, <1>2, <2>1, <3>1, <3>3, <4>1, WalkPasses DEF Walking
    <3> QED BY <2>3, <3>2, <3>3
  <2> QED BY <2>5, <2>6, <2>7, <2>8 DEF ObjectsInv
<1> QED BY <1>3, <1>4

LEMMA NullifyOneKeeps ==
  ASSUME ObjectsInv, NEW t \in Threads, NullifyOne(t)
  PROVE  ObjectsInv'
<1>1. TypeOK /\ CallsHold /\ call[t].at = "found"
  BY DEF ObjectsInv, NullifyOne, At
<1>2. PICK w \in Refs : w = call[t].ref
  BY <1>1 DEF CallsHold
<1>3. CASE owner[w] = Null
  BY <1>2, <1>3, StopStep DEF NullifyOne
<1>4. CASE owner[w] # Null
  <2>1. /\ ~Locked(w) /\ valid' = valid \ {w} /\ ref' = [ref EXCEPT ![w].target = Null]
        /\ Visit(t, ref[w].next)
        /\ UNCHANGED <<live, magic, count, held, owner, head, registry, state, revived, leftLinked, silent>>
        /\ UNCHANGED objects
    BY <1>2, <1>4 DEF NullifyOne, objects, history
  <2>2. ref[w].next \in Refs \cup {Null} /\ Obj(t) \in Objs /\ Null # Obj(t)
    BY <1>1, ObjectsAssumption DEF TypeOK, CallsHold
  <2>3. CallGoes(t, "walk", Obj(t), ref[w].next)
    BY <1>1, <2>1, <2>2, Visited DEF Obj
  <2>4. /\ ref' \in [Refs -> [target : Objs \cup {Null}, next : Refs \cup {Null}, prev : Refs \cup {Null}]]
        /\ \A r \in Refs : ref'[r].next = ref[r].next /\ ref'[r].prev = ref[r].prev
        /\ \A r \in Refs : r # w => ref'[r] = ref[r]
        /\ ref'[w].target = Null
    BY <1>1, <2>1, Cleared
  <2>5. TypeOK'
    <3>1. {u \in Threads : call'[u].at \in Walking} = {registry'} \ {Null}
      BY <1>1, <2>1, <2>3, SameWalker DEF Walking
    <3>2. valid' \subseteq Refs
      BY <1>1, <2>1 DEF TypeOK
    <3> QED BY <1>1, <2>1, <2>3, <2>4, <3>1, <3>2 DEF TypeOK, CallGoes
  <2>6. CallsHold'
    BY <1>1, <2>1, <2>2, <2>3, CallsHoldStep DEF Retaining, Releasing
  <2>7. ASSUME ~revived' PROVE CountInv'
    BY <1>1, <2>1, <2>3, <2>7, CountSame DEF ObjectsInv, Ending
  <2>8. ASSUME ~revived', ~leftLinked', ~silent' PROVE WeakInv'
    <3>1. WeakInv
      BY <2>1, <2>8 DEF ObjectsInv
    <3> QED BY <1>1, <1>2, <2>1, <2>2, <2>3, <2>4, <3>1, WalkPasses DEF Walking
  <2> QED BY <2>5, <2>6, <2>7, <2>8 DEF ObjectsInv
<1> QED BY <1>3, <1>4

LEMMA WalkEndsKeeps ==
  ASSUME ObjectsInv, NEW t \in Threads, WalkEnds(t)
  PROVE  ObjectsInv'
<1>1. TypeOK /\ CallsHold
  BY DEF ObjectsInv
<1>2. /\ call[t].at = "walk" /\ call[t].ref = Null /\ registry' = Null /\ Goto(t, "free")
      /\ UNCHANGED <<live, magic, count, held, ref, valid, owner, head, state, revived, leftLinked, silent>>
      /\ UNCHANGED objects
  BY DEF WalkEnds, At, objects, chain, history
<1>3. CallGoes(t, "free", Obj(t), Null)
  BY <1>1, <1>2, Moved DEF Places, Obj
<1>4. \A u \in Threads : call'[u].at \notin Walking
  BY <1>1, <1>2, <1>3, WalkersSame DEF CallGoes, Walking
<1>5. TypeOK'
  BY <1>1, <1>2, <1>3, <1>4 DEF TypeOK, CallGoes
<1>6. CallsHold'
  BY <1>1, <1>2, <1>3, CallsHoldStep DEF CallsHold, Retaining, Releasing
<1>7. ASSUME ~revived' PROVE CountInv'
  BY <1>2, <1>3, <1>7, CountSame DEF ObjectsInv, Ending
<1>8. ASSUME ~revived', ~leftLinked', ~silent' PROVE WeakInv'
  <2>1. WeakInv
    BY <1>2, <1>8 DEF ObjectsInv
  <2>2. Chain' = Chain
    BY <1>2, <1>3, ChainSame
  <2>3. RefsOwned'
    BY <1>2, <1>3, <2>1, OwnedSame DEF WeakInv, Retaining
  <2>4. PICK rank \in [Refs -> Nat] : Ranked(rank) /\ Passed(rank)
    BY <2>1 DEF WeakInv
  <2>5. \A r \in Refs : owner[r] # Null => ref[r].target # Obj(t)
    BY <1>2, <2>4 DEF Passed, Walking
  <2>6. TargetsLive'
    <3>1. ASSUME NEW u \in Threads, call'[u].at = "free", NEW r \in Refs, owner[r] # Null
          PROVE  ref[r].target # call'[u].obj
      <4>1. CASE u = t
        BY <1>3, <2>5, <3>1, <4>1 DEF CallGoes
      <4>2. CASE u # t
        BY <1>3, <2>1, <3>1, <4>2 DEF CallGoes, WeakInv, TargetsLive, Obj
      <4> QED BY <4>1, <4>2
    <3> QED BY <1>2, <2>1, <3>1 DEF WeakInv, TargetsLive, Obj
  <2>7. Ranked(rank)'
    BY <1>2, <2>2, <2>4 DEF Ranked, NextBelow
  <2>8. Passed(rank)'
    BY <1>4 DEF Passed
  <2> QED BY <2>3, <2>4, <2>6, <2>7, <2>8 DEF WeakInv
<1> QED BY <1>5, <1>6, <1>7, <1>8 DEF ObjectsInv

LEMMA FreeKeeps ==
  ASSUME ObjectsInv, NEW t \in Threads, Free(t)
  PROVE  ObjectsInv'
<1>1. TypeOK /\ CallsHold /\ call[t].at = "free"
  BY DEF ObjectsInv, Free, At
<1>2. PICK o \in Objs : o = Obj(t)
  BY <1>1 DEF CallsHold
<1>3. CASE o \notin live
  BY <1>2, <1>3, StopStep DEF Free
<1>4. CASE o \in live
  <2>1. /\ live' = live \ {o} /\ magic' = magic \ {o} /\ count' = [count EXCEPT ![o] = 0] /\ Return(t)
        /\ UNCHANGED <<held, ref, valid, owner, head, registry, state, revived, leftLinked, silent>>
        /\ UNCHANGED chain
    BY <1>2, <1>4 DEF Free, chain, history
  <2>2. CallGoes(t, "idle", Null, Null)
    BY <1>1, <2>1, Returned
  <2>3. /\ count' \in [Objs -> Nat] /\ count'[o] = 0
        /\ \A x \in Objs : x # o => count'[x] = count[x]
    BY <1>1, <2>1 DEF TypeOK
  <2>4. TypeOK'
    <3>1. {u \in Threads : call'[u].at \in Walking} = {registry'} \ {Null}
      BY <1>1, <2>1, <2>2, SameWalker DEF Walking
    <3> QED BY <1>1, <2>1, <2>2, <2>3, <3>1 DEF TypeOK, CallGoes
  <2>5. CallsHold'
    BY <1>1, <2>1, <2>2, CallsHoldStep DEF Retaining, Releasing
  <2>6. ASSUME ~revived' PROVE CountInv'
    <3>1. CountInv
      BY <2>1, <2>6 DEF ObjectsInv
    <3>2. Counted(o) /\ count[o] \in Nat /\ t \in Dying(o)
      BY <1>1, <1>2, <3>1 DEF CountInv, TypeOK, Dying, Obj
    <3>3. count[o] = 0 /\ Dying(o) = {t}
      BY <1>4, <3>2 DEF Counted
    <3>4. Dying(o)' = {}
      BY <2>2, <3>3 DEF Dying, Obj, CallGoes, Walking
    <3>5. \A x \in Objs : References(x)' = References(x)
      BY <2>1 DEF References
    <3>6. Counted(o)'
      BY <2>1, <2>3, <3>2, <3>3, <3>4, <3>5 DEF Counted
    <3> QED BY <1>1, <1>2, <2>1, <2>2, <2>3, <3>1, <3>5, <3>6, CountOfOne DEF Ending
  <2>7. ASSUME ~revived', ~leftLinked', ~silent' PROVE WeakInv'
    <3>1. WeakInv
      BY <2>1, <2>7 DEF ObjectsInv
    <3>2. \A r \in Refs : owner[r] # Null /\ ref[r].target # Null => ref[r].target \in live'
      BY <1>1, <1>2, <2>1, <3>1 DEF WeakInv, TargetsLive
    <3> QED BY <1>1, <2>1, <2>2, <3>1, <3>2, WeakSame DEF Retaining
  <2> QED BY <2>4, <2>5, <2>6, <2>7 DEF ObjectsInv
<1> QED BY <1>3, <1>4

-----------------------------------------------------------------------------
\* The steps of weak references.

LEMMA BeginCreateKeeps ==
  ASSUME ObjectsInv, NEW t \in Threads, NEW o \in Objs, NEW w \in Refs, BeginCreate(t, o, w)
  PROVE  ObjectsInv'
<1>1. TypeOK /\ CallsHold /\ call[t].at = "idle" /\ Holds(t, o) /\ owner[w] = Null
  BY DEF ObjectsInv, BeginCreate, At
<1>2. CASE o \notin live
  BY <1>2, StopStep DEF BeginCreate
<1>3. CASE o \in live
  <2>1. /\ ref' = [ref EXCEPT ![w] = [NoRef EXCEPT !.target = o]]
        /\ valid' = valid \cup {w} /\ owner' = [owner EXCEPT ![w] = t] /\ Enter(t, "link", o, w)
        /\ UNCHANGED <<live, magic, count, held, head, registry, state, revived, leftLinked, silent>>
        /\ UNCHANGED objects
    BY <1>3 DEF BeginCreate, objects, history
  <2>2. CallGoes(t, "link", o, w)
    BY <1>1, <2>1, Entered DEF Places
  <2>3. PICK new \in [target : Objs \cup {Null}, next : Refs \cup {Null}, prev : Refs \cup {Null}] :
               new = [NoRef EXCEPT !.target = o] /\ new.target = o /\ new.prev = Null
    <3> DEFINE n == [NoRef EXCEPT !.target = o]
    <3>1. /\ n \in [target : Objs \cup {Null}, next : Refs \cup {Null}, prev : Refs \cup {Null}]
          /\ n.target = o /\ n.prev = Null
      BY DEF NoRef
    <3> HIDE DEF n
    <3>2. \E x \in [target : Objs \cup {Null}, next : Refs \cup {Null}, prev : Refs \cup {Null}] :
            x = n /\ x.target = o /\ x.prev = Null
      BY <3>1
    <3> QED BY <3>2, Zenon DEF n
  <2>4. ref' = [ref EXCEPT ![w] = new]
    BY <2>1, <2>3, Zenon
  <2>5. /\ ref' \in [Refs -> [target : Objs \cup {Null}, next : Refs \cup {Null}, prev : Refs \cup {Null}]]
        /\ owner' \in [Refs -> Threads \cup {Null}] /\ owner'[w] = t
        /\ ref'[w].target = o /\ ref'[w].prev = Null
        /\ \A r \in Refs : r # w => ref'[r] = ref[r] /\ owner'[r] = owner[r]
    BY <1>1, <2>1, <2>3, <2>4 DEF TypeOK
  <2>6. TypeOK'
    <3>1. {u \in Threads : call'[u].at \in Walking} = {registry'} \ {Null}
      BY <1>1, <2>1, <2>2, SameWalker DEF Walking
    <3> QED BY <1>1, <2>1, <2>2, <2>5, <3>1 DEF TypeOK, CallGoes
  <2>7. CallsHold'
    BY <1>1, <2>1, <2>2, CallsHoldStep DEF Retaining, Releasing, Holds
  <2>8. ASSUME ~revived' PROVE CountInv'
    BY <1>1, <2>1, <2>2, <2>8, CountSame DEF ObjectsInv, Ending
  <2>9. ASSUME ~revived', ~leftLinked', ~silent' PROVE WeakInv'
    <3>1. WeakInv /\ CountInv
      BY <2>1, <2>9 DEF ObjectsInv
    <3>2. Dying(o) = {}
      BY <1>1, <3>1, HolderCounted
    <3>3. Chain' = Chain
      <4>1. ASSUME NEW r \in Refs, r # w PROVE Linking(r)' <=> Linking(r)
        BY <1>1, <2>2, <4>1 DEF Linking, CallGoes
      <4>2. Linking(w)' /\ w \notin Chain
        BY <1>1, <2>2 DEF Linking, CallGoes, Chain
      <4> QED BY <2>5, <4>1, <4>2 DEF Chain
    <3>4. \A r \in Chain : r \in Refs /\ r # w /\ ref'[r] = ref[r]
      BY <1>1, <2>5 DEF Chain
    <3>5. RefsOwned'
      <4>1. \A r \in Refs : owner'[r] = Null => ref'[r] = NoRef
        BY <2>5, <3>1, ObjectsAssumption DEF WeakInv, RefsOwned
      <4>2. ASSUME NEW u \in Threads, u # t, call[u].ref # Null, call[u].at \in {"link", "unlink"} \cup Retaining
            PROVE  /\ owner'[call[u].ref] = u
                   /\ ref'[call[u].ref] = ref[call[u].ref]
        <5>1. owner[call[u].ref] = u /\ u # Null
          BY <3>1, <4>2, ObjectsAssumption DEF WeakInv, RefsOwned
        <5>2. call[u].ref \in Refs /\ call[u].ref # w
          BY <1>1, <4>2, <5>1, CallType
        <5> QED BY <2>5, <5>1, <5>2
      <4>3. ASSUME NEW u \in Threads
            PROVE  /\ call'[u].at \in {"link", "unlink"} \cup Retaining /\ call'[u].ref # Null =>
                        owner'[call'[u].ref] = u
                   /\ call'[u].at \in {"link"} \cup Retaining /\ call'[u].ref # Null =>
                        ref'[call'[u].ref].target = call'[u].obj
                   /\ call'[u].at = "link" => ref'[call'[u].ref].prev = Null
        <5>1. CASE u = t
          BY <2>2, <2>5, <5>1 DEF CallGoes
        <5>2. CASE u # t
          <6>1. call'[u] = call[u]
            BY <2>2, <5>2 DEF CallGoes
          <6>2. call[u].at = "link" => call[u].ref # Null
            BY <1>1, ObjectsAssumption DEF CallsHold
          <6> QED BY <3>1, <4>2, <5>2, <6>1, <6>2 DEF WeakInv, RefsOwned, Obj
        <5> QED BY <5>1, <5>2
      <4> QED BY <4>1, <4>3 DEF RefsOwned, Obj
    <3>6. \A u \in Threads : call'[u].at \in Walking \cup {"free"} => call'[u] = call[u] /\ Obj(u) # o
      BY <2>2, <3>2 DEF CallGoes, Dying, Walking
    <3>7. TargetsLive'
      <4>1. \A r \in Refs : owner'[r] # Null /\ ref'[r].target # Null => ref'[r].target \in live'
        BY <1>3, <2>1, <2>5, <3>1 DEF WeakInv, TargetsLive
      <4>2. ASSUME NEW u \in Threads, call'[u].at = "free", NEW r \in Refs, owner'[r] # Null
            PROVE  ref'[r].target # call'[u].obj
        <5>1. CASE r = w
          BY <2>5, <3>6, <4>2, <5>1 DEF Obj
        <5>2. CASE r # w
          BY <2>5, <3>1, <3>6, <4>2, <5>2 DEF WeakInv, TargetsLive, Obj
        <5> QED BY <5>1, <5>2
      <4> QED BY <4>1, <4>2 DEF TargetsLive, Obj
    <3>8. PICK rank \in [Refs -> Nat] : Ranked(rank) /\ Passed(rank)
      BY <3>1 DEF WeakInv
    <3>9. Ranked(rank)'
      BY <2>1, <3>3, <3>4, <3>8 DEF Ranked, NextBelow
    <3>10. Passed(rank)'
      <4>1. ASSUME NEW u \in Threads, call'[u].at \in Walking
            PROVE  /\ call'[u].ref # Null => call'[u].ref \in Chain'
                   /\ \A r \in Refs : owner'[r] # Null /\ ref'[r].target = call'[u].obj =>
                        r \in Chain' /\ call'[u].ref # Null /\ rank[r] <= rank[call'[u].ref]
        <5>1. call'[u] = call[u] /\ Obj(u) # o
          BY <3>6, <4>1
        <5>2. call'[u].ref # Null => call'[u].ref \in Chain'
          BY <3>3, <3>8, <4>1, <5>1 DEF Passed
        <5>3. ASSUME NEW r \in Refs, owner'[r] # Null, ref'[r].target = call'[u].obj
              PROVE  r \in Chain' /\ call'[u].ref # Null /\ rank[r] <= rank[call'[u].ref]
          <6>1. r # w
            BY <2>5, <5>1, <5>3 DEF Obj
          <6>2. owner[r] # Null /\ ref[r].target = Obj(u)
            BY <2>5, <5>1, <5>3, <6>1 DEF Obj
          <6> QED BY <3>3, <3>8, <4>1, <5>1, <6>2 DEF Passed
        <5> QED BY <5>2, <5>3
      <4> QED BY <4>1 DEF Passed, Obj
    <3> QED BY <3>5, <3>7, <3>8, <3>9, <3>10 DEF WeakInv
  <2> QED BY <2>6, <2>7, <2>8, <2>9 DEF ObjectsInv
<1> QED BY <1>2, <1>3

(* The thread that has w makes it forget its target, and goes on.          *)
LEMMA ForgetsKeeps ==
  ASSUME ObjectsInv, NEW t \in Threads, NEW w \in Refs, NEW at, NEW o, NEW q,
         call[t].at = "idle", owner[w] = t, CallGoes(t, at, o, q),
         at = "idle" \/ (at = "unlink" /\ o \in Objs /\ q = w),
         valid' = valid \ {w}, ref' = [ref EXCEPT ![w].target = Null],
         UNCHANGED <<objects, owner, head, registry, state, history>>
  PROVE  ObjectsInv'
<1>1. TypeOK /\ CallsHold
  BY DEF ObjectsInv
<1>2. UNCHANGED <<live, magic, count, held, revived, leftLinked, silent>>
  BY DEF objects, history
<1>3. /\ ref' \in [Refs -> [target : Objs \cup {Null}, next : Refs \cup {Null}, prev : Refs \cup {Null}]]
      /\ \A r \in Refs : ref'[r].next = ref[r].next /\ ref'[r].prev = ref[r].prev
      /\ \A r \in Refs : r # w => ref'[r] = ref[r]
      /\ ref'[w].target = Null
  BY <1>1, Cleared
<1>4. TypeOK'
  <2>1. {u \in Threads : call'[u].at \in Walking} = {registry'} \ {Null}
    BY <1>1, <1>2, SameWalker DEF Walking
  <2>2. valid' \subseteq Refs
    BY <1>1 DEF TypeOK
  <2> QED BY <1>1, <1>2, <1>3, <2>1, <2>2 DEF TypeOK, CallGoes
<1>5. CallsHold'
  BY <1>1, <1>2, CallsHoldStep DEF Retaining, Releasing
<1>6. ASSUME ~revived' PROVE CountInv'
  BY <1>2, <1>6, CountSame DEF ObjectsInv, Ending
<1>7. ASSUME ~revived', ~leftLinked', ~silent' PROVE WeakInv'
  <2>1. WeakInv
    BY <1>2, <1>7 DEF ObjectsInv
  <2>2. Chain' = Chain /\ Chain \subseteq Refs
    BY ChainSame DEF Chain
  <2>3. \A r \in Refs : ref'[r].target # Null => ref'[r].target = ref[r].target
    BY <1>3
  <2>4. RefsOwned'
    <3>1. \A r \in Refs : owner'[r] = Null => ref'[r] = NoRef
      BY <1>3, <2>1, ObjectsAssumption DEF WeakInv, RefsOwned
    <3>2. ASSUME NEW u \in Threads
          PROVE  /\ call'[u].at \in {"link", "unlink"} \cup Retaining /\ call'[u].ref # Null =>
                      owner'[call'[u].ref] = u
                 /\ call'[u].at \in {"link"} \cup Retaining /\ call'[u].ref # Null =>
                      ref'[call'[u].ref].target = call'[u].obj
                 /\ call'[u].at = "link" => ref'[call'[u].ref].prev = Null
      <4>1. CASE u = t
        BY <4>1 DEF CallGoes, Retaining
      <4>2. CASE u # t
        <5>1. call'[u] = call[u]
          BY <4>2 DEF CallGoes
        <5>2. ASSUME call[u].at \in {"link", "unlink"} \cup Retaining, call[u].ref # Null
              PROVE  owner[call[u].ref] = u /\ ref'[call[u].ref] = ref[call[u].ref]
          <6>1. call[u].ref \in Refs /\ owner[call[u].ref] = u
            BY <1>1, <2>1, <5>2, CallType DEF WeakInv, RefsOwned
          <6> QED BY <1>3, <4>2, <6>1
        <5>3. call[u].at = "link" => call[u].ref # Null
          BY <1>1, ObjectsAssumption DEF CallsHold
        <5> QED BY <2>1, <5>1, <5>2, <5>3 DEF WeakInv, RefsOwned, Obj
      <4> QED BY <4>1, <4>2
    <3> QED BY <3>1, <3>2 DEF RefsOwned, Obj
  <2>5. TargetsLive'
    <3>1. \A u \in Threads : call'[u].at = "free" => call'[u] = call[u] /\ call[u].obj # Null
      BY <1>1, ObjectsAssumption DEF CallGoes, CallsHold, Obj
    <3> QED BY <1>2, <2>1, <2>3, <3>1 DEF WeakInv, TargetsLive, Obj
  <2>6. PICK rank \in [Refs -> Nat] : Ranked(rank) /\ Passed(rank)
    BY <2>1 DEF WeakInv
  <2>7. Ranked(rank)'
    BY <1>3, <2>2, <2>6 DEF Ranked, NextBelow
  <2>8. Passed(rank)'
    <3>1. \A u \in Threads : call'[u].at \in Walking => call'[u] = call[u] /\ call[u].obj # Null
      BY <1>1, ObjectsAssumption DEF CallGoes, CallsHold, Obj, Walking
    <3> QED BY <2>2, <2>3, <2>6, <3>1 DEF Passed, Obj
  <2> QED BY <2>4, <2>5, <2>6, <2>7, <2>8 DEF WeakInv
<1> QED BY <1>4, <1>5, <1>6, <1>7 DEF ObjectsInv

LEMMA ExpireKeeps ==
  ASSUME ObjectsInv, NEW t \in Threads, NEW w \in Refs, call[t].at = "idle", owner[w] = t, Expire(w)
  PROVE  ObjectsInv'
<1>1. CallGoes(t, "idle", call[t].obj, call[t].ref)
  BY CallStays DEF ObjectsInv, Expire
<1> QED BY <1>1, ForgetsKeeps DEF Expire

LEMMA PromoteKeeps ==
  ASSUME ObjectsInv, NEW t \in Threads, NEW w \in Refs, Promote(t, w)
  PROVE  ObjectsInv'
<1> DEFINE o == ref[w].target
<1>1. call[t].at = "idle" /\ owner[w] = t /\ o # Null /\ held[t][o] < MaxHeld
  BY DEF Promote, At
<1>2. CASE Stop("misuse")
  BY <1>2, StopStep
<1>3. CASE Expire(w)
  BY <1>1, <1>3, ExpireKeeps
<1>4. CASE Enter(t, "retain", o, w) /\ UNCHANGED <<objects, chain, registry, state, history>>
  <2>1. o \in Objs /\ w # Null
    BY <1>1, ObjectsAssumption DEF ObjectsInv, TypeOK
  <2>2. CallGoes(t, "retain", o, w)
    BY <1>4, <2>1, Entered DEF ObjectsInv, Places
  <2> QED BY <1>1, <1>4, <2>1, <2>2, QuietStep DEF Retaining, Releasing
<1> QED BY <1>2, <1>3, <1>4 DEF Promote

LEMMA AccessKeeps ==
  ASSUME ObjectsInv, NEW t \in Threads, NEW w \in Refs, Access(t, w)
  PROVE  ObjectsInv'
<1>1. call[t].at = "idle" /\ owner[w] = t /\ (Stop("misuse") \/ Expire(w))
  BY DEF Access, At
<1> QED BY <1>1, StopStep, ExpireKeeps

LEMMA BeginDestroyKeeps ==
  ASSUME ObjectsInv, NEW t \in Threads, NEW w \in Refs, BeginDestroy(t, w)
  PROVE  ObjectsInv'
<1>1. /\ call[t].at = "idle" /\ owner[w] = t
      /\ valid' = valid \ {w} /\ ref' = [ref EXCEPT ![w].target = Null]
      /\ UNCHANGED <<objects, owner, head, registry, state, history>>
  BY DEF BeginDestroy, At
<1>2. PICK o \in Objs : o = ref[w].target
  BY DEF BeginDestroy, ObjectsInv, TypeOK
<1>3. CallGoes(t, "unlink", o, w)
  BY <1>2, Entered DEF BeginDestroy, ObjectsInv, Places
<1> QED BY <1>1, <1>3, ForgetsKeeps

LEMMA DestroyNullifiedKeeps ==
  ASSUME ObjectsInv, NEW t \in Threads, NEW w \in Refs, DestroyNullified(t, w)
  PROVE  ObjectsInv'
<1>1. /\ valid' = valid \ {w} /\ ref' = [ref EXCEPT ![w] = NoRef] /\ owner' = [owner EXCEPT ![w] = Null]
      /\ leftLinked' = TRUE /\ call[t].at = "idle"
      /\ UNCHANGED <<live, magic, count, held, head, registry, call, state, revived, silent>>
      /\ UNCHANGED objects
  BY DEF DestroyNullified, At, objects
<1>2. TypeOK /\ CallsHold
  BY DEF ObjectsInv
<1>3. CallGoes(t, "idle", call[t].obj, call[t].ref)
  BY <1>1, <1>2, CallStays
<1>4. TypeOK'
  <2>1. NoRef \in [target : Objs \cup {Null}, next : Refs \cup {Null}, prev : Refs \cup {Null}]
    BY DEF NoRef
  <2> QED BY <1>1, <1>2, <2>1 DEF TypeOK
<1>5. CallsHold'
  BY <1>1, <1>2, <1>3, CallsHoldStep DEF Retaining, Releasing
<1>6. ASSUME ~revived' PROVE CountInv'
  BY <1>1, <1>3, <1>6, CountSame DEF ObjectsInv, Ending
<1> QED BY <1>1, <1>4, <1>5, <1>6 DEF ObjectsInv

(* A linking weak reference is nowhere in the chain yet.                   *)
LEMMA LinksOne ==
  ASSUME TypeOK, CallsHold, RefsOwned, NEW t \in Threads, call[t].at = "link"
  PROVE  /\ call[t].ref \in Refs /\ call[t].ref \notin Chain /\ owner[call[t].ref] = t
         /\ \A u \in Threads : call[u].at = "link" /\ call[u].ref = call[t].ref => u = t
<1>1. call[t].ref \in Refs /\ call[t].ref # Null
  BY ObjectsAssumption DEF CallsHold
<1>2. owner[call[t].ref] = t
  BY <1>1 DEF RefsOwned
<1>3. call[t].ref \notin Chain
  BY DEF Chain, Linking
<1>4. ASSUME NEW u \in Threads, call[u].at = "link", call[u].ref = call[t].ref PROVE u = t
  BY <1>1, <1>2, <1>4 DEF RefsOwned
<1> QED BY <1>1, <1>2, <1>3, <1>4

(* The chain with w above it.                                              *)
LEMMA RankedLink ==
  ASSUME TypeOK, NEW rank \in [Refs -> Nat], Ranked(rank), NEW w \in Refs, w \notin Chain, ref[w].prev = Null,
         ref' = Linked(w), head' = w, Chain' = Chain \cup {w}
  PROVE  \E above \in [Refs -> Nat] : Ranked(above)'
<1> DEFINE top == IF head = Null THEN 0 ELSE rank[head] + 1
<1>1. Chain \subseteq Refs /\ w # Null
  BY ObjectsAssumption DEF Chain
<1>2. /\ \A u, v \in Chain : rank[u] = rank[v] => u = v
      /\ head = Null => Chain = {}
      /\ head # Null => head \in Chain /\ \A r \in Chain : rank[r] <= rank[head]
  BY DEF Ranked
<1>3. top \in Nat /\ \A r \in Chain : rank[r] < top
  <2>1. head # Null => rank[head] \in Nat
    BY <1>1, <1>2
  <2>2. \A r \in Chain : rank[r] \in Nat
    BY <1>1
  <2> QED BY <1>2, <2>1, <2>2
<1> HIDE DEF top
<1>4. PICK above \in [Refs -> Nat] : above[w] = top /\ \A r \in Chain : above[r] = rank[r] /\ r # w
  <2> DEFINE up == [rank EXCEPT ![w] = top]
  <2>1. up \in [Refs -> Nat] /\ up[w] = top /\ \A r \in Chain : up[r] = rank[r] /\ r # w
    BY <1>1, <1>3
  <2> QED BY <2>1
<1>5. \A r \in Chain : above[r] \in Nat /\ above[r] < above[w]
  BY <1>1, <1>3, <1>4
<1>6. head # w
  BY <1>1, <1>2
<1>7. /\ ref'[w].next = head /\ ref'[w].prev = Null
      /\ \A r \in Refs : r # w => ref'[r].next = ref[r].next
      /\ \A r \in Refs : ref'[r].prev = IF r = head THEN w ELSE ref[r].prev
  BY <1>6 DEF Linked
<1>8. \A u, v \in Chain \cup {w} : above[u] = above[v] => u = v
  BY <1>2, <1>4, <1>5
<1>9. \A r \in Chain \cup {w} : above[r] <= above[w]
  BY <1>4, <1>5
<1>10. ASSUME NEW x \in Chain
       PROVE  LET n == ref'[x].next
                  p == ref'[x].prev
              IN /\ n = Null => \A r \in Chain \cup {w} : above[x] <= above[r]
                 /\ n # Null => n \in Chain \cup {w} /\ above[n] < above[x]
                                  /\ \A r \in Chain \cup {w} : above[r] <= above[n] \/ above[x] <= above[r]
                 /\ p # Null /\ p \in Chain \cup {w} /\ above[x] < above[p]
                 /\ \A r \in Chain \cup {w} : above[r] <= above[x] \/ above[p] <= above[r]
  <2>1. /\ ref[x].next = Null => \A r \in Chain : rank[x] <= rank[r]
        /\ ref[x].next # Null => ref[x].next \in Chain /\ NextBelow(rank, x, ref[x].next)
        /\ ref[x].prev = Null => \A r \in Chain : rank[r] <= rank[x]
        /\ ref[x].prev # Null => ref[x].prev \in Chain /\ NextBelow(rank, ref[x].prev, x)
    BY DEF Ranked
  <2>2. x # w /\ ref'[x].next = ref[x].next /\ above[x] = rank[x]
    BY <1>1, <1>4, <1>7, <1>10
  <2>3. /\ ref[x].next = Null => \A r \in Chain \cup {w} : above[x] <= above[r]
        /\ ref[x].next # Null => /\ ref[x].next \in Chain \cup {w} /\ above[ref[x].next] < above[x]
                                 /\ \A r \in Chain \cup {w} : above[r] <= above[ref[x].next] \/ above[x] <= above[r]
    BY <1>4, <1>5, <1>10, <2>1 DEF NextBelow
  <2>4. CASE x = head
    <3>1. ref'[x].prev = w
      BY <1>1, <1>7, <2>4
    <3>2. \A r \in Chain \cup {w} : above[r] <= above[x] \/ above[w] <= above[r]
      BY <1>2, <1>4, <1>5, <1>9, <1>10, <2>4
    <3> QED BY <1>1, <1>5, <1>10, <2>2, <2>3, <3>1, <3>2
  <2>5. CASE x # head
    <3>1. ref'[x].prev = ref[x].prev
      BY <1>1, <1>7, <1>10, <2>5
    <3>2. ref[x].prev # Null
      <4>1. head \in Chain /\ rank[x] <= rank[head] /\ rank[x] # rank[head]
        BY <1>2, <1>10, <2>5
      <4>2. rank[x] \in Nat /\ rank[head] \in Nat
        BY <1>1, <1>10, <4>1
      <4>3. rank[x] < rank[head]
        BY <4>1, <4>2, Below, Zenon
      <4> QED BY <2>1, <4>1, <4>2, <4>3
    <3>3. /\ ref[x].prev \in Chain /\ above[x] < above[ref[x].prev]
          /\ \A r \in Chain \cup {w} : above[r] <= above[x] \/ above[ref[x].prev] <= above[r]
      BY <1>4, <1>5, <1>10, <2>1, <3>2 DEF NextBelow
    <3> QED BY <2>2, <2>3, <3>1, <3>2, <3>3
  <2> QED BY <2>4, <2>5
<1>11. /\ ref'[w].next = Null => \A r \in Chain \cup {w} : above[w] <= above[r]
       /\ ref'[w].next # Null => /\ ref'[w].next \in Chain \cup {w} /\ above[ref'[w].next] < above[w]
                                 /\ \A r \in Chain \cup {w} : above[r] <= above[ref'[w].next] \/ above[w] <= above[r]
  <2>1. CASE head = Null
    BY <1>2, <1>3, <1>4, <1>7, <2>1
  <2>2. CASE head # Null
    BY <1>2, <1>3, <1>4, <1>5, <1>7, <2>2
  <2> QED BY <2>1, <2>2
<1>12. ASSUME NEW x \in Chain'
       PROVE  LET n == ref'[x].next
                  p == ref'[x].prev
              IN /\ n = Null => \A r \in Chain' : above[x] <= above[r]
                 /\ n # Null => n \in Chain' /\ above[n] < above[x]
                                  /\ \A r \in Chain' : above[r] <= above[n] \/ above[x] <= above[r]
                 /\ p = Null => \A r \in Chain' : above[r] <= above[x]
                 /\ p # Null => p \in Chain' /\ above[x] < above[p]
                                  /\ \A r \in Chain' : above[r] <= above[x] \/ above[p] <= above[r]
  <2>1. CASE x = w
    BY <1>7, <1>9, <1>11, <2>1
  <2>2. CASE x # w
    <3>1. x \in Chain
      BY <1>12, <2>2
    <3> QED BY <1>10, <3>1
  <2> QED BY <2>1, <2>2
<1>13. Ranked(above)'
  BY <1>1, <1>8, <1>9, <1>12 DEF Ranked, NextBelow
<1> QED BY <1>4, <1>13

LEMMA LinkKeeps ==
  ASSUME ObjectsInv, NEW t \in Threads, Link(t)
  PROVE  ObjectsInv'
<1>1. TypeOK /\ CallsHold /\ call[t].at = "link" /\ registry = Null
  BY DEF ObjectsInv, Link, At
<1>2. CASE Dangling(head)
  BY <1>2, StopStep DEF Link
<1>3. CASE ~Dangling(head)
  <2>1. PICK w \in Refs : w = call[t].ref
    BY <1>1 DEF CallsHold
  <2>2. /\ ref' = Linked(w) /\ head' = w /\ Return(t)
        /\ UNCHANGED <<live, magic, count, held, valid, owner, registry, state, revived, leftLinked, silent>>
        /\ UNCHANGED objects
    BY <1>3, <2>1 DEF Link, objects, history
  <2>3. CallGoes(t, "idle", Null, Null)
    BY <1>1, <2>2, Returned
  <2>4. /\ ref' \in [Refs -> [target : Objs \cup {Null}, next : Refs \cup {Null}, prev : Refs \cup {Null}]]
        /\ \A r \in Refs : ref'[r].target = ref[r].target
    BY <1>1, <2>2 DEF TypeOK, Linked
  <2>5. TypeOK'
    <3>1. {u \in Threads : call'[u].at \in Walking} = {registry'} \ {Null}
      BY <1>1, <2>2, <2>3, SameWalker DEF Walking
    <3> QED BY <1>1, <2>2, <2>3, <2>4, <3>1 DEF TypeOK, CallGoes
  <2>6. CallsHold'
    BY <1>1, <2>2, <2>3, CallsHoldStep DEF Retaining, Releasing
  <2>7. ASSUME ~revived' PROVE CountInv'
    BY <1>1, <2>2, <2>3, <2>7, CountSame DEF ObjectsInv, Ending
  <2>8. ASSUME ~revived', ~leftLinked', ~silent' PROVE WeakInv'
    <3>1. WeakInv
      BY <2>2, <2>8 DEF ObjectsInv
    <3>2. /\ w \notin Chain /\ owner[w] = t
          /\ \A u \in Threads : call[u].at = "link" /\ call[u].ref = w => u = t
      BY <1>1, <2>1, <3>1, LinksOne DEF WeakInv
    <3>3. ref[w].prev = Null
      BY <1>1, <2>1, <3>1 DEF WeakInv, RefsOwned
    <3>4. Chain' = Chain \cup {w}
      <4>1. ASSUME NEW r \in Refs, r # w PROVE Linking(r)' <=> Linking(r)
        BY <1>1, <2>1, <2>3, <4>1 DEF Linking, CallGoes
      <4>2. ~Linking(w)'
        BY <2>3, <3>2 DEF Linking, CallGoes
      <4>3. owner[w] # Null
        BY <3>2, ObjectsAssumption
      <4> QED BY <2>2, <4>1, <4>2, <4>3 DEF Chain
    <3>5. PICK rank \in [Refs -> Nat] : Ranked(rank)
      BY <3>1 DEF WeakInv
    <3>6. PICK above \in [Refs -> Nat] : Ranked(above)'
      BY <1>1, <2>2, <3>2, <3>3, <3>4, <3>5, RankedLink
    <3>7. Passed(above)'
      BY <1>1, <2>3, WalkersSame DEF Passed, CallGoes, Walking
    <3>8. head # Null => head \in Chain
      BY <3>5 DEF Ranked
    <3>9. RefsOwned'
      <4>1. ASSUME NEW r \in Refs, owner[r] = Null PROVE ref'[r] = NoRef
        <5>1. r # w /\ r # head
          BY <3>2, <3>8, <4>1, ObjectsAssumption DEF Chain
        <5>2. ref[r] = NoRef
          BY <3>1, <4>1 DEF WeakInv, RefsOwned
        <5> QED BY <2>2, <5>1, <5>2 DEF Linked, NoRef
      <4>2. ASSUME NEW u \in Threads
            PROVE  /\ call'[u].at \in {"link", "unlink"} \cup Retaining /\ call'[u].ref # Null =>
                        owner'[call'[u].ref] = u
                   /\ call'[u].at \in {"link"} \cup Retaining /\ call'[u].ref # Null =>
                        ref'[call'[u].ref].target = call'[u].obj
                   /\ call'[u].at = "link" => ref'[call'[u].ref].prev = Null
        <5>1. CASE u = t
          BY <2>3, <5>1 DEF CallGoes, Retaining
        <5>2. CASE u # t
          <6>1. call'[u] = call[u] /\ call[u].ref \in Refs \cup {Null}
            BY <1>1, <2>3, <5>2, CallType DEF CallGoes
          <6>2. ASSUME call[u].at = "link" PROVE ref'[call[u].ref].prev = Null
            <7>1. call[u].ref \in Refs /\ call[u].ref \notin Chain
              BY <1>1, <3>1, <6>2, LinksOne DEF WeakInv
            <7>2. call[u].ref # head
              BY <3>8, <7>1, ObjectsAssumption
            <7>3. ref[call[u].ref].prev = Null
              BY <3>1, <6>2 DEF WeakInv, RefsOwned
            <7> QED BY <2>2, <7>1, <7>2, <7>3 DEF Linked
          <6> QED BY <2>2, <2>4, <3>1, <6>1, <6>2 DEF WeakInv, RefsOwned, Obj
        <5> QED BY <5>1, <5>2
      <4> QED BY <2>2, <4>1, <4>2 DEF RefsOwned, Obj
    <3>10. TargetsLive'
      <4>1. \A u \in Threads : call'[u].at = "free" => call'[u] = call[u]
        BY <2>3 DEF CallGoes
      <4> QED BY <2>2, <2>4, <3>1, <4>1 DEF WeakInv, TargetsLive, Obj
    <3> QED BY <3>6, <3>7, <3>9, <3>10 DEF WeakInv
  <2> QED BY <2>5, <2>6, <2>7, <2>8 DEF ObjectsInv
<1> QED BY <1>2, <1>3

LEMMA UnlinkedRefs ==
  ASSUME TypeOK, NEW w \in Refs, ref' = Unlinked(w)
  PROVE  /\ ref' \in [Refs -> [target : Objs \cup {Null}, next : Refs \cup {Null}, prev : Refs \cup {Null}]]
         /\ ref'[w] = NoRef
         /\ \A r \in Refs : r # w =>
              /\ ref'[r].target = ref[r].target
              /\ ref'[r].next = IF r = ref[w].prev THEN ref[w].next ELSE ref[r].next
              /\ ref'[r].prev = IF r = ref[w].next THEN ref[w].prev ELSE ref[r].prev
<1>1. ASSUME NEW r \in Refs, r # w
      PROVE  /\ ref'[r] \in [target : Objs \cup {Null}, next : Refs \cup {Null}, prev : Refs \cup {Null}]
             /\ ref'[r].target = ref[r].target
             /\ ref'[r].next = IF r = ref[w].prev THEN ref[w].next ELSE ref[r].next
             /\ ref'[r].prev = IF r = ref[w].next THEN ref[w].prev ELSE ref[r].prev
  <2> DEFINE n == IF r = ref[w].prev THEN ref[w].next ELSE ref[r].next
             p == IF r = ref[w].next THEN ref[w].prev ELSE ref[r].prev
  <2>1. /\ ref[r] \in [target : Objs \cup {Null}, next : Refs \cup {Null}, prev : Refs \cup {Null}]
        /\ n \in Refs \cup {Null} /\ p \in Refs \cup {Null}
    BY <1>1 DEF TypeOK
  <2>2. ref'[r] = [ref[r] EXCEPT !.next = n, !.prev = p]
    BY <1>1 DEF Unlinked
  <2> HIDE DEF n, p
  <2>3. /\ ref'[r] \in [target : Objs \cup {Null}, next : Refs \cup {Null}, prev : Refs \cup {Null}]
        /\ ref'[r].target = ref[r].target /\ ref'[r].next = n /\ ref'[r].prev = p
    BY <2>1, <2>2
  <2> QED BY <2>3 DEF n, p
<1>2. ref'[w] = NoRef /\ NoRef \in [target : Objs \cup {Null}, next : Refs \cup {Null}, prev : Refs \cup {Null}]
  BY DEF Unlinked, NoRef
<1>3. \A r \in Refs : ref'[r] \in [target : Objs \cup {Null}, next : Refs \cup {Null}, prev : Refs \cup {Null}]
  BY <1>1, <1>2
<1>4. ref' = [r \in Refs |-> ref'[r]]
  BY DEF Unlinked
<1>5. ref' \in [Refs -> [target : Objs \cup {Null}, next : Refs \cup {Null}, prev : Refs \cup {Null}]]
  BY <1>3, <1>4
<1> QED BY <1>1, <1>2, <1>5

(* The chain without w: its neighbours in the order of the ranks are next  *)
(* to each other now.                                                      *)
LEMMA RankedUnlink ==
  ASSUME TypeOK, NEW rank \in [Refs -> Nat], Ranked(rank), NEW w \in Chain,
         ref' = Unlinked(w), head' = IF ref[w].prev = Null THEN ref[w].next ELSE head,
         Chain' = Chain \ {w}
  PROVE  Ranked(rank)'
<1>1. PICK p, n : p = ref[w].prev /\ n = ref[w].next
  OBVIOUS
<1>2. Chain \subseteq Refs /\ w \in Refs /\ Null \notin Refs
  BY ObjectsAssumption DEF Chain
<1>3. \A r \in Chain : rank[r] \in Nat /\ (rank[r] = rank[w] => r = w)
  BY <1>2 DEF Ranked
<1>4. /\ n = Null => \A r \in Chain : rank[w] <= rank[r]
      /\ n # Null => n \in Chain /\ rank[n] < rank[w] /\ \A r \in Chain : rank[r] <= rank[n] \/ rank[w] <= rank[r]
      /\ p = Null => \A r \in Chain : rank[r] <= rank[w]
      /\ p # Null => p \in Chain /\ rank[w] < rank[p] /\ \A r \in Chain : rank[r] <= rank[w] \/ rank[p] <= rank[r]
  BY <1>1 DEF Ranked, NextBelow
<1>5. /\ n = Null => \A r \in Chain \ {w} : rank[w] < rank[r]
      /\ n # Null => n \in Chain \ {w} /\ \A r \in Chain \ {w} : rank[r] <= rank[n] \/ rank[w] < rank[r]
      /\ p = Null => \A r \in Chain \ {w} : rank[r] < rank[w]
      /\ p # Null => p \in Chain \ {w} /\ \A r \in Chain \ {w} : rank[r] < rank[w] \/ rank[p] <= rank[r]
  BY <1>3, <1>4
<1>6. \A r \in Chain \ {w} : /\ ref'[r].next = IF r = p THEN n ELSE ref[r].next
                             /\ ref'[r].prev = IF r = n THEN p ELSE ref[r].prev
  BY <1>1, <1>2, UnlinkedRefs
<1>7. /\ head' = Null => Chain' = {}
      /\ head' # Null => head' \in Chain' /\ \A r \in Chain' : rank[r] <= rank[head']
  <2>1. head # Null /\ head \in Chain /\ \A r \in Chain : rank[r] <= rank[head]
    BY DEF Ranked
  <2>2. CASE p = Null
    <3>1. head' = n
      BY <1>1, <2>2
    <3>2. CASE n = Null
      <4>1. \A r \in Chain \ {w} : rank[w] < rank[r] /\ rank[r] < rank[w]
        BY <1>5, <2>2, <3>2
      <4>2. Chain \ {w} = {}
        BY <1>2, <1>3, <4>1
      <4> QED BY <3>1, <3>2, <4>2
    <3>3. CASE n # Null
      <4>1. n \in Chain \ {w} /\ \A r \in Chain \ {w} : rank[r] <= rank[n]
        BY <1>2, <1>3, <1>5, <2>2, <3>3
      <4> QED BY <3>1, <3>3, <4>1
    <3> QED BY <3>2, <3>3
  <2>3. CASE p # Null
    <3>1. head' = head /\ head # w
      BY <1>1, <1>2, <1>3, <1>4, <2>1, <2>3
    <3> QED BY <2>1, <3>1
  <2> QED BY <2>2, <2>3
<1>8. ASSUME NEW x \in Chain \ {w}
      PROVE  /\ ref'[x].next = Null => \A r \in Chain \ {w} : rank[x] <= rank[r]
             /\ ref'[x].next # Null => /\ ref'[x].next \in Chain \ {w} /\ rank[ref'[x].next] < rank[x]
                                       /\ \A r \in Chain \ {w} : rank[r] <= rank[ref'[x].next] \/ rank[x] <= rank[r]
  <2>1. CASE x = p
    <3>1. ref'[x].next = n /\ p # Null
      BY <1>2, <1>6, <1>8, <2>1
    <3>2. CASE n = Null
      BY <1>3, <1>5, <1>8, <2>1, <3>1, <3>2
    <3>3. CASE n # Null
      <4>1. n \in Chain \ {w} /\ rank[n] < rank[x]
        BY <1>3, <1>4, <1>5, <1>8, <2>1, <3>1, <3>3
      <4>2. \A r \in Chain \ {w} : rank[r] <= rank[n] \/ rank[x] <= rank[r]
        BY <1>3, <1>5, <1>8, <2>1, <3>1, <3>3
      <4> QED BY <3>1, <3>3, <4>1, <4>2
    <3> QED BY <3>2, <3>3
  <2>2. CASE x # p
    <3>1. PICK m : m = ref[x].next /\ m = ref'[x].next
      BY <1>6, <1>8, <2>2
    <3>2. /\ m = Null => \A r \in Chain : rank[x] <= rank[r]
          /\ m # Null => m \in Chain /\ rank[m] < rank[x] /\ \A r \in Chain : rank[r] <= rank[m] \/ rank[x] <= rank[r]
      BY <1>8, <3>1 DEF Ranked, NextBelow
    <3>3. ASSUME m = w PROVE FALSE
      <4>1. rank[w] < rank[x]
        BY <1>2, <3>2, <3>3
      <4>2. p # Null
        BY <1>3, <1>5, <1>8, <4>1
      <4>3. rank[p] <= rank[x]
        BY <1>3, <1>5, <1>8, <4>1, <4>2
      <4>4. rank[x] <= rank[p]
        BY <1>2, <1>3, <1>4, <1>8, <3>2, <3>3, <4>2
      <4>5. rank[x] = rank[p]
        BY <1>3, <1>5, <1>8, <4>2, <4>3, <4>4
      <4> QED BY <1>5, <1>8, <2>2, <4>2, <4>5 DEF Ranked
    <3> QED BY <3>1, <3>2, <3>3
  <2> QED BY <2>1, <2>2
<1>9. ASSUME NEW x \in Chain \ {w}
      PROVE  /\ ref'[x].prev = Null => \A r \in Chain \ {w} : rank[r] <= rank[x]
             /\ ref'[x].prev # Null => /\ ref'[x].prev \in Chain \ {w} /\ rank[x] < rank[ref'[x].prev]
                                       /\ \A r \in Chain \ {w} : rank[r] <= rank[x] \/ rank[ref'[x].prev] <= rank[r]
  <2>1. CASE x = n
    <3>1. ref'[x].prev = p /\ n # Null
      BY <1>2, <1>6, <1>9, <2>1
    <3>2. CASE p = Null
      BY <1>3, <1>5, <1>9, <2>1, <3>1, <3>2
    <3>3. CASE p # Null
      <4>1. p \in Chain \ {w} /\ rank[x] < rank[p]
        BY <1>3, <1>4, <1>5, <1>9, <2>1, <3>1, <3>3
      <4>2. \A r \in Chain \ {w} : rank[r] <= rank[x] \/ rank[p] <= rank[r]
        BY <1>3, <1>5, <1>9, <2>1, <3>1, <3>3
      <4> QED BY <3>1, <3>3, <4>1, <4>2
    <3> QED BY <3>2, <3>3
  <2>2. CASE x # n
    <3>1. PICK m : m = ref[x].prev /\ m = ref'[x].prev
      BY <1>6, <1>9, <2>2
    <3>2. /\ m = Null => \A r \in Chain : rank[r] <= rank[x]
          /\ m # Null => m \in Chain /\ rank[x] < rank[m] /\ \A r \in Chain : rank[r] <= rank[x] \/ rank[m] <= rank[r]
      BY <1>9, <3>1 DEF Ranked, NextBelow
    <3>3. ASSUME m = w PROVE FALSE
      <4>1. rank[x] < rank[w]
        BY <1>2, <3>2, <3>3
      <4>2. n # Null
        BY <1>3, <1>5, <1>9, <4>1
      <4>3. rank[x] <= rank[n]
        BY <1>3, <1>5, <1>9, <4>1, <4>2
      <4>4. rank[n] <= rank[x]
        BY <1>2, <1>3, <1>4, <1>9, <3>2, <3>3, <4>2
      <4>5. rank[x] = rank[n]
        BY <1>3, <1>5, <1>9, <4>2, <4>3, <4>4
      <4> QED BY <1>5, <1>9, <2>2, <4>2, <4>5 DEF Ranked
    <3> QED BY <3>1, <3>2, <3>3
  <2> QED BY <2>1, <2>2
<1>10. \A u, v \in Chain' : rank[u] = rank[v] => u = v
  BY DEF Ranked
<1> QED BY <1>7, <1>8, <1>9, <1>10 DEF Ranked, NextBelow

LEMMA UnlinkKeeps ==
  ASSUME ObjectsInv, NEW t \in Threads, Unlink(t)
  PROVE  ObjectsInv'
<1>1. TypeOK /\ CallsHold /\ call[t].at = "unlink" /\ registry = Null
  BY DEF ObjectsInv, Unlink, At
<1>2. PICK w \in Refs : w = call[t].ref
  BY <1>1 DEF CallsHold
<1>3. CASE Dangling(ref[w].prev) \/ Dangling(ref[w].next)
  BY <1>2, <1>3, StopStep DEF Unlink
<1>4. CASE ~(Dangling(ref[w].prev) \/ Dangling(ref[w].next))
  <2>1. /\ head' = IF ref[w].prev = Null THEN ref[w].next ELSE head
        /\ ref' = Unlinked(w) /\ owner' = [owner EXCEPT ![w] = Null] /\ Return(t)
        /\ UNCHANGED <<live, magic, count, held, valid, registry, state, revived, leftLinked, silent>>
        /\ UNCHANGED objects
    BY <1>2, <1>4 DEF Unlink, objects, history
  <2>2. CallGoes(t, "idle", Null, Null)
    BY <1>1, <2>1, Returned
  <2>3. ref[w].prev \in Refs \cup {Null} /\ ref[w].next \in Refs \cup {Null}
    BY <1>1 DEF TypeOK
  <2>4. ref'[w] = NoRef /\ \A r \in Refs : r # w => ref'[r].target = ref[r].target
    BY <1>1, <2>1, UnlinkedRefs
  <2>5. ref' \in [Refs -> [target : Objs \cup {Null}, next : Refs \cup {Null}, prev : Refs \cup {Null}]]
    BY <1>1, <2>1, UnlinkedRefs
  <2>6. owner' \in [Refs -> Threads \cup {Null}] /\ owner'[w] = Null /\ \A r \in Refs : r # w => owner'[r] = owner[r]
    BY <1>1, <2>1 DEF TypeOK
  <2>7. TypeOK'
    <3>1. {u \in Threads : call'[u].at \in Walking} = {registry'} \ {Null}
      BY <1>1, <2>1, <2>2, SameWalker DEF Walking
    <3>2. head' \in Refs \cup {Null}
      BY <1>1, <2>1, <2>3 DEF TypeOK
    <3> QED BY <1>1, <2>1, <2>2, <2>5, <2>6, <3>1, <3>2 DEF TypeOK, CallGoes
  <2>8. CallsHold'
    BY <1>1, <2>1, <2>2, CallsHoldStep DEF Retaining, Releasing
  <2>9. ASSUME ~revived' PROVE CountInv'
    BY <1>1, <2>1, <2>2, <2>9, CountSame DEF ObjectsInv, Ending
  <2>10. ASSUME ~revived', ~leftLinked', ~silent' PROVE WeakInv'
    <3>1. WeakInv
      BY <2>1, <2>10 DEF ObjectsInv
    <3>2. owner[w] = t /\ w # Null
      BY <1>1, <1>2, <3>1, ObjectsAssumption DEF WeakInv, RefsOwned
    <3>3. w \in Chain
      <4>1. ASSUME NEW u \in Threads, call[u].at = "link", call[u].ref = w PROVE FALSE
        <5>1. owner[w] = u
          BY <3>1, <3>2, <4>1 DEF WeakInv, RefsOwned
        <5> QED BY <1>1, <3>2, <4>1, <5>1
      <4> QED BY <3>2, <4>1, ObjectsAssumption DEF Chain, Linking
    <3>4. Chain' = Chain \ {w}
      <4>1. \A r : Linking(r)' <=> Linking(r)
        BY <1>1, <2>2 DEF Linking, CallGoes
      <4> QED BY <2>6, <4>1 DEF Chain
    <3>5. PICK rank \in [Refs -> Nat] : Ranked(rank)
      BY <3>1 DEF WeakInv
    <3>6. Ranked(rank)'
      BY <1>1, <2>1, <3>3, <3>4, <3>5, RankedUnlink
    <3>7. Passed(rank)'
      BY <1>1, <2>2, WalkersSame DEF Passed, CallGoes, Walking
    <3>8. /\ ref[w].prev # Null => ref[w].prev \in Chain
          /\ ref[w].next # Null => ref[w].next \in Chain
      BY <3>3, <3>5 DEF Ranked
    <3>9. RefsOwned'
      <4>1. ASSUME NEW r \in Refs, owner'[r] = Null PROVE ref'[r] = NoRef
        <5>1. CASE r = w
          BY <2>4, <5>1
        <5>2. CASE r # w
          <6>1. owner[r] = Null /\ ref[r] = NoRef
            BY <2>6, <3>1, <4>1, <5>2 DEF WeakInv, RefsOwned
          <6>2. r # ref[w].prev /\ r # ref[w].next
            BY <3>8, <4>1, <6>1, ObjectsAssumption DEF Chain
          <6> QED BY <1>1, <2>1, <4>1, <5>2, <6>1, <6>2 DEF Unlinked, TypeOK, NoRef
        <5> QED BY <5>1, <5>2
      <4>2. ASSUME NEW u \in Threads
            PROVE  /\ call'[u].at \in {"link", "unlink"} \cup Retaining /\ call'[u].ref # Null =>
                        owner'[call'[u].ref] = u
                   /\ call'[u].at \in {"link"} \cup Retaining /\ call'[u].ref # Null =>
                        ref'[call'[u].ref].target = call'[u].obj
                   /\ call'[u].at = "link" => ref'[call'[u].ref].prev = Null
        <5>1. CASE u = t
          BY <2>2, <5>1 DEF CallGoes, Retaining
        <5>2. CASE u # t
          <6>1. call'[u] = call[u] /\ call[u].ref \in Refs \cup {Null}
            BY <1>1, <2>2, <5>2, CallType DEF CallGoes
          <6>2. ASSUME call[u].at \in {"link", "unlink"} \cup Retaining, call[u].ref # Null
                PROVE  /\ call[u].ref # w /\ owner'[call[u].ref] = u
                       /\ ref'[call[u].ref].target = ref[call[u].ref].target
            <7>1. owner[call[u].ref] = u
              BY <3>1, <6>2 DEF WeakInv, RefsOwned
            <7> QED BY <2>4, <2>6, <3>2, <5>2, <6>1, <6>2, <7>1
          <6>3. ASSUME call[u].at = "link" PROVE call[u].ref # Null /\ ref'[call[u].ref].prev = Null
            <7>1. call[u].ref \in Refs /\ call[u].ref \notin Chain
              BY <1>1, <3>1, <6>3, LinksOne DEF WeakInv
            <7>2. call[u].ref # ref[w].next /\ call[u].ref # w /\ call[u].ref # Null
              BY <3>3, <3>8, <7>1, ObjectsAssumption
            <7>3. ref[call[u].ref].prev = Null
              BY <3>1, <6>3 DEF WeakInv, RefsOwned
            <7> QED BY <1>1, <2>1, <7>1, <7>2, <7>3 DEF Unlinked, TypeOK
          <6> QED BY <3>1, <6>1, <6>2, <6>3 DEF WeakInv, RefsOwned, Obj
        <5> QED BY <5>1, <5>2
      <4> QED BY <4>1, <4>2 DEF RefsOwned, Obj
    <3>10. TargetsLive'
      <4>1. \A u \in Threads : call'[u].at = "free" => call'[u] = call[u]
        BY <2>2 DEF CallGoes
      <4>2. \A r \in Refs : owner'[r] # Null => owner[r] # Null /\ ref'[r].target = ref[r].target
        BY <2>4, <2>6
      <4> QED BY <2>1, <3>1, <4>1, <4>2 DEF WeakInv, TargetsLive, Obj
    <3> QED BY <3>5, <3>6, <3>7, <3>9, <3>10 DEF WeakInv
  <2> QED BY <2>7, <2>8, <2>9, <2>10 DEF ObjectsInv
<1> QED BY <1>3, <1>4

-----------------------------------------------------------------------------
\* The inductive invariant.

LEMMA InitObjects ==
  ASSUME Init
  PROVE  ObjectsInv
<1>1. \A t \in Threads : call[t] = Idle /\ call[t].at = "idle"
  BY DEF Init, Idle
<1>2. TypeOK
  <2>1. /\ live \subseteq Objs /\ magic \subseteq live /\ valid \subseteq Refs
        /\ count \in [Objs -> Nat] /\ owner \in [Refs -> Threads \cup {Null}] /\ head \in Refs \cup {Null}
        /\ state \in {"running", "panic", "misuse"} /\ revived \in BOOLEAN /\ leftLinked \in BOOLEAN /\ silent \in BOOLEAN
    BY DEF Init
  <2>2. held \in [Threads -> [Objs -> 0 .. MaxHeld]]
    BY ObjectsAssumption DEF Init
  <2>3. ref \in [Refs -> [target : Objs \cup {Null}, next : Refs \cup {Null}, prev : Refs \cup {Null}]]
    BY DEF Init, NoRef
  <2>4. call \in [Threads -> Calls]
    BY CallRecords, Zenon DEF Init
  <2>5. {t \in Threads : call[t].at \in Walking} = {registry} \ {Null}
    BY <1>1 DEF Init, Walking
  <2> QED BY <2>1, <2>2, <2>3, <2>4, <2>5 DEF TypeOK
<1>3. CallsHold
  BY <1>1 DEF CallsHold, Retaining, Releasing
<1>4. CountInv
  <2>1. ASSUME NEW o \in Objs PROVE References(o) = {} /\ Dying(o) = {} /\ count[o] = 0 /\ live = {}
    <3>1. References(o) = {}
      BY <2>1 DEF Init, References
    <3>2. Dying(o) = {}
      BY <1>1 DEF Dying, Walking
    <3> QED BY <2>1, <3>1, <3>2 DEF Init
  <2> QED BY <1>1, <2>1, FS_EmptySet DEF CountInv, Counted
<1>5. WeakInv
  <2> DEFINE rank == [r \in Refs |-> 0]
  <2>1. Chain = {}
    BY DEF Chain, Init
  <2>2. Ranked(rank) /\ Passed(rank)
    BY <1>1, <2>1 DEF Ranked, Passed, Init, Walking
  <2>3. RefsOwned /\ TargetsLive
    BY <1>1 DEF RefsOwned, TargetsLive, Init, Retaining
  <2> QED BY <2>2, <2>3 DEF WeakInv
<1> QED BY <1>2, <1>3, <1>4, <1>5 DEF ObjectsInv

LEMMA SameObjects ==
  ASSUME ObjectsInv, UNCHANGED vars
  PROVE  ObjectsInv'
<1>1. /\ UNCHANGED <<live, magic, count, held, ref, valid, owner, head, call, state, registry, revived, leftLinked, silent>>
  BY DEF vars, objects, chain, history
<1>2. \A o \in Objs : References(o)' = References(o) /\ Dying(o)' = Dying(o)
  BY <1>1 DEF References, Dying, Obj
<1>3. CountInv => CountInv'
  BY <1>1, <1>2 DEF CountInv, Counted
<1>4. WeakInv => WeakInv'
  <2>1. Chain' = Chain
    BY <1>1 DEF Chain, Linking
  <2>2. \A rank \in [Refs -> Nat] : Ranked(rank) /\ Passed(rank) => Ranked(rank)' /\ Passed(rank)'
    BY <1>1, <2>1 DEF Ranked, NextBelow, Passed, Obj
  <2>3. RefsOwned /\ TargetsLive => RefsOwned' /\ TargetsLive'
    BY <1>1 DEF RefsOwned, TargetsLive, Obj
  <2> QED BY <2>2, <2>3 DEF WeakInv
<1>5. TypeOK' /\ CallsHold'
  BY <1>1 DEF ObjectsInv, TypeOK, CallsHold, Holds, Obj
<1> QED BY <1>1, <1>3, <1>4, <1>5 DEF ObjectsInv

LEMMA StepObjects ==
  ASSUME ObjectsInv, [Next]_vars
  PROVE  ObjectsInv'
<1>1. CASE UNCHANGED vars
  BY <1>1, SameObjects
<1>2. CASE Ended
  BY <1>2, SameObjects DEF Ended
<1>3. ASSUME NEW t \in Threads, Strong(t) PROVE ObjectsInv'
  <2>1. CASE \E o \in Objs : Alloc(t, o) \/ BeginRetain(t, o) \/ BeginRelease(t, o)
    BY <2>1, <1>3, AllocKeeps, BeginsKeep
  <2>2. CASE \E u \in Threads, o \in Objs : Move(t, u, o)
    BY <2>2, <1>3, MoveKeeps
  <2>3. CASE Check(t, "retain", "load+") \/ Check(t, "release", "load-")
    BY <2>3, <1>3, CheckKeeps
  <2>4. CASE Load(t, "load+", "swap+") \/ Load(t, "load-", "swap-")
    BY <2>4, <1>3, LoadKeeps
  <2>5. CASE SwapFails(t, "swap+", "load+") \/ SwapFails(t, "swap-", "load-")
    BY <2>5, <1>3, SwapFailsKeeps
  <2>6. CASE RetainSwap(t)
    BY <2>6, <1>3, RetainSwapKeeps
  <2>7. CASE ReleaseSwap(t)
    BY <2>7, <1>3, ReleaseSwapKeeps
  <2>8. CASE \E o \in Objs : PlainRetain(t, o) \/ PlainRelease(t, o)
    BY <2>8, <1>3, PlainRetainKeeps, PlainReleaseKeeps
  <2> QED BY <1>3, <2>1, <2>2, <2>3, <2>4, <2>5, <2>6, <2>7, <2>8 DEF Strong
<1>4. ASSUME NEW t \in Threads, Deallocate(t) PROVE ObjectsInv'
  BY <1>4, BeginDeallocateKeeps, NullifyKeeps, WalkKeeps, NullifyOneKeeps, WalkEndsKeeps, FreeKeeps DEF Deallocate
<1>5. ASSUME NEW t \in Threads, Weak(t) PROVE ObjectsInv'
  <2>1. CASE \E o \in Objs, w \in Refs : BeginCreate(t, o, w)
    BY <2>1, <1>5, BeginCreateKeeps
  <2>2. CASE \E w \in Refs : Promote(t, w) \/ Access(t, w) \/ BeginDestroy(t, w) \/ DestroyNullified(t, w)
    BY <2>2, <1>5, PromoteKeeps, AccessKeeps, BeginDestroyKeeps, DestroyNullifiedKeeps
  <2>3. CASE Link(t) \/ Unlink(t)
    BY <2>3, <1>5, LinkKeeps, UnlinkKeeps
  <2> QED BY <1>5, <2>1, <2>2, <2>3 DEF Weak
<1> QED BY <1>1, <1>2, <1>3, <1>4, <1>5 DEF Next

LEMMA ObjectsInvariant == Spec => []ObjectsInv
BY InitObjects, StepObjects, PTL DEF Spec

-----------------------------------------------------------------------------
\* The theorems.

(* Every variable has its type: the walk over the registry is done by the  *)
(* thread that holds global_lock, and by no other.                         *)
THEOREM TypeCorrect == Spec => []TypeOK
<1>1. ObjectsInv => TypeOK
  BY DEF ObjectsInv
<1> QED BY <1>1, ObjectsInvariant, PTL

(* wyn_arc_retain and wyn_arc_release keep the count of an object equal to *)
(* the references that threads own, however they interleave, as long as no *)
(* wyn_weak_promote raises a count from 0.                                 *)
THEOREM CountCorrect == Spec => []CountIsHolders
<1>1. ObjectsInv => CountIsHolders
  BY DEF ObjectsInv, TypeOK, CountInv, Counted, CountIsHolders
<1> QED BY <1>1, ObjectsInvariant, PTL

(* The release that takes the count to 0 deallocates the object, and it    *)
(* alone: with the same exception, no object is lost and none is freed     *)
(* twice.                                                                  *)
THEOREM DeallocatesCorrect == Spec => []OneDeallocates
<1>1. ASSUME ObjectsInv PROVE OneDeallocates
  <2>1. ASSUME ~revived, NEW o \in live
        PROVE  Cardinality(Dying(o)) = IF count[o] = 0 THEN 1 ELSE 0
    <3>1. o \in Objs /\ count[o] \in Nat
      BY <1>1, <2>1 DEF ObjectsInv, TypeOK
    <3>2. Counted(o)
      BY <1>1, <2>1, <3>1 DEF ObjectsInv, CountInv
    <3>3. CASE count[o] = 0
      <4>1. PICK t \in Threads : Dying(o) = {t}
        BY <2>1, <3>2, <3>3 DEF Counted
      <4>2. Cardinality({t}) = 1
        BY FS_Singleton
      <4> QED BY <3>3, <4>1, <4>2
    <3>4. CASE count[o] # 0
      <4>1. Dying(o) = {}
        BY <2>1, <3>1, <3>2, <3>4 DEF Counted
      <4> QED BY <3>4, <4>1, FS_EmptySet
    <3> QED BY <3>3, <3>4
  <2> QED BY <2>1 DEF OneDeallocates
<1> QED BY <1>1, ObjectsInvariant, PTL

(* wyn_weak_nullify_all, which walks the chain that other threads link to  *)
(* and unlink from, reaches every weak reference to the object before the  *)
(* object is freed, unless a count was raised from 0, a nullified weak     *)
(* reference was freed in the chain, or wyn_arc_release, which walks no    *)
(* chain, ended an object that had a weak reference.                       *)
THEOREM WeakCorrect == Spec => []WeakEndsFirst
<1>1. ObjectsInv => WeakEndsFirst
  BY DEF ObjectsInv, WeakInv, TargetsLive, WeakEndsFirst
<1> QED BY <1>1, ObjectsInvariant, PTL

-----------------------------------------------------------------------------
\* Why a behaviour stops.

(* A call of a retain or a release is about an object that is allocated,   *)
(* and whole unless a promotion retains it.                                *)
LEMMA CallsLive ==
  ASSUME ObjectsInv, ~revived, ~leftLinked, ~silent, NEW t \in Threads, call[t].at \in Retaining \cup Releasing
  PROVE  /\ Obj(t) \in live
         /\ call[t].at \in Releasing \/ call[t].ref = Null => Obj(t) \in magic
<1>1. Obj(t) \in Objs
  BY DEF ObjectsInv, CallsHold, Retaining, Releasing
<1>2. CASE call[t].at \in Releasing \/ call[t].ref = Null
  <2>1. Holds(t, Obj(t))
    BY <1>2 DEF ObjectsInv, CallsHold
  <2> QED BY <1>1, <2>1, HolderCounted DEF ObjectsInv
<1>3. CASE call[t].at \notin Releasing /\ call[t].ref # Null
  <2>1. call[t].ref \in Refs /\ owner[call[t].ref] = t /\ ref[call[t].ref].target = Obj(t)
    BY <1>3, CallType DEF ObjectsInv, WeakInv, RefsOwned
  <2> QED BY <1>1, <1>3, <2>1, ObjectsAssumption DEF ObjectsInv, WeakInv, TargetsLive
<1> QED BY <1>2, <1>3

(* A promotion that finds the magic number gone.                           *)
PromotionPanics == state' = "panic" /\ UNCHANGED call /\ \E t \in Threads : call[t].at = "retain" /\ call[t].ref # Null

LEMMA StrongCause ==
  ASSUME ObjectsInv, ~revived, ~leftLinked, ~silent, NEW t \in Threads, Strong(t)
  PROVE  state' = "running" \/ PromotionPanics
<1>1. CASE \E o \in Objs : Alloc(t, o) \/ BeginRetain(t, o) \/ BeginRelease(t, o)
  BY <1>1 DEF Alloc, BeginRetain, BeginRelease, At
<1>2. CASE \E u \in Threads, o \in Objs : Move(t, u, o)
  BY <1>2 DEF Move, At
<1>3. CASE RetainSwap(t) \/ ReleaseSwap(t)
  BY <1>3 DEF RetainSwap, ReleaseSwap, At
<1>4. CASE Check(t, "retain", "load+")
  <2>1. call[t].at = "retain" /\ state = "running" /\ Obj(t) \in live /\ (call[t].ref = Null => Obj(t) \in magic)
    BY <1>4, CallsLive DEF Check, At, Retaining
  <2>2. CASE Obj(t) \in live \ magic /\ Stop("panic")
    BY <2>1, <2>2 DEF Stop, PromotionPanics
  <2> QED BY <1>4, <2>1, <2>2 DEF Check
<1>5. CASE Check(t, "release", "load-")
  <2>1. state = "running" /\ Obj(t) \in live /\ Obj(t) \in magic
    BY <1>5, CallsLive DEF Check, At, Releasing
  <2> QED BY <1>5, <2>1 DEF Check
<1>6. CASE Load(t, "load+", "swap+") \/ Load(t, "load-", "swap-")
  <2>1. state = "running" /\ Obj(t) \in live
    BY <1>6, CallsLive DEF Load, At, Retaining, Releasing
  <2> QED BY <1>6, <2>1 DEF Load
<1>7. CASE SwapFails(t, "swap+", "load+")
  <2>1. state = "running" /\ Obj(t) \in live
    BY <1>7, CallsLive DEF SwapFails, At, Retaining
  <2> QED BY <1>7, <2>1 DEF SwapFails
<1>8. CASE SwapFails(t, "swap-", "load-")
  <2>1. state = "running" /\ Obj(t) \in live /\ call[t].at = "swap-"
    BY <1>8, CallsLive DEF SwapFails, At, Releasing
  <2>2. call[t].old \in Nat /\ call[t].old > 0
    BY <2>1, CallType DEF ObjectsInv, CountInv
  <2> QED BY <1>8, <2>1, <2>2 DEF SwapFails
<1>9. ASSUME NEW o \in Objs, PlainRetain(t, o) \/ PlainRelease(t, o) PROVE state' = "running"
  <2>1. Holds(t, o) /\ state = "running"
    BY <1>9 DEF PlainRetain, PlainRelease, At
  <2>2. o \in live /\ count[o] > 0
    BY <2>1, HolderCounted DEF ObjectsInv
  <2> QED BY <1>9, <2>1, <2>2 DEF PlainRetain, PlainRelease
<1> QED BY <1>1, <1>2, <1>3, <1>4, <1>5, <1>6, <1>7, <1>8, <1>9 DEF Strong

LEMMA DeallocateCause ==
  ASSUME ObjectsInv, ~revived, ~leftLinked, ~silent, NEW t \in Threads, Deallocate(t)
  PROVE  state' = "running"
<1>1. CASE BeginDeallocate(t) \/ Nullify(t) \/ WalkEnds(t)
  BY <1>1 DEF BeginDeallocate, Nullify, WalkEnds, At
<1>2. CASE Walk(t)
  <2>1. call[t].at = "walk" /\ call[t].ref # Null /\ state = "running"
    BY <1>2 DEF Walk, At
  <2>2. owner[call[t].ref] # Null
    BY <2>1 DEF ObjectsInv, WeakInv, Passed, Chain, Walking
  <2> QED BY <1>2, <2>1, <2>2 DEF Walk
<1>3. CASE Free(t)
  <2>1. call[t].at = "free" /\ state = "running" /\ Obj(t) \in Objs
    BY <1>3 DEF Free, At, ObjectsInv, CallsHold
  <2>2. Counted(Obj(t)) /\ t \in Dying(Obj(t))
    BY <2>1 DEF ObjectsInv, CountInv, Dying
  <2>3. Obj(t) \in live
    BY <2>2 DEF Counted
  <2> QED BY <1>3, <2>1, <2>3 DEF Free
<1>4. CASE NullifyOne(t)
  <2>1. call[t].at = "found" /\ call[t].ref # Null /\ state = "running"
    BY <1>4, ObjectsAssumption DEF NullifyOne, At, ObjectsInv, CallsHold
  <2>2. owner[call[t].ref] # Null
    BY <2>1 DEF ObjectsInv, WeakInv, Passed, Chain, Walking
  <2> QED BY <1>4, <2>1, <2>2 DEF NullifyOne
<1> QED BY <1>1, <1>2, <1>3, <1>4 DEF Deallocate

LEMMA WeakCause ==
  ASSUME ObjectsInv, ~revived, ~leftLinked, ~silent, NEW t \in Threads, Weak(t)
  PROVE  state' = "running"
<1>1. PICK rank \in [Refs -> Nat] : Ranked(rank)
  BY DEF ObjectsInv, WeakInv
<1>2. TypeOK /\ CallsHold /\ RefsOwned /\ TargetsLive
  BY DEF ObjectsInv, WeakInv
<1>3. ASSUME NEW o \in Objs, NEW w \in Refs, BeginCreate(t, o, w) PROVE state' = "running"
  <2>1. Holds(t, o) /\ state = "running"
    BY <1>3 DEF BeginCreate, At
  <2>2. o \in live
    BY <1>3, <2>1, HolderCounted DEF ObjectsInv
  <2> QED BY <1>3, <2>1, <2>2 DEF BeginCreate
<1>4. ASSUME NEW w \in Refs, Promote(t, w) \/ Access(t, w) PROVE state' = "running"
  <2>1. state = "running" /\ owner[w] = t /\ ref[w].target # Null
    BY <1>4 DEF Promote, Access, At
  <2>2. ref[w].target \in live
    BY <1>2, <1>4, <2>1, ObjectsAssumption DEF TargetsLive
  <2> QED BY <1>4, <2>1, <2>2 DEF Promote, Access, Expire
<1>5. ASSUME NEW w \in Refs, BeginDestroy(t, w) \/ DestroyNullified(t, w) PROVE state' = "running"
  BY <1>5 DEF BeginDestroy, DestroyNullified, At
<1>6. CASE Link(t)
  <2>1. ~Dangling(head)
    BY <1>1 DEF Ranked, Chain, Dangling
  <2> QED BY <1>6, <2>1 DEF Link, At
<1>7. CASE Unlink(t)
  <2>1. PICK w \in Refs : w = call[t].ref
    BY <1>2, <1>7 DEF Unlink, At, CallsHold
  <2>2. state = "running" /\ call[t].at = "unlink" /\ w # Null
    BY <1>7, ObjectsAssumption DEF Unlink, At
  <2>3. owner[w] = t
    BY <1>2, <2>1, <2>2 DEF RefsOwned
  <2>4. w \in Chain
    <3>1. ASSUME NEW u \in Threads, call[u].at = "link", call[u].ref = w PROVE FALSE
      <4>1. owner[w] = u
        BY <1>2, <2>2, <3>1 DEF RefsOwned
      <4> QED BY <2>2, <2>3, <3>1, <4>1
    <3> QED BY <2>3, <3>1, ObjectsAssumption DEF Chain, Linking
  <2>5. ~Dangling(ref[w].prev) /\ ~Dangling(ref[w].next)
    BY <1>1, <2>4 DEF Ranked, Chain, Dangling
  <2> QED BY <1>7, <2>1, <2>2, <2>5 DEF Unlink
<1> QED BY <1>3, <1>4, <1>5, <1>6, <1>7 DEF Weak

(* What was noted of the past stays noted.                                 *)
LEMMA HistoryStays ==
  ASSUME NEW t \in Threads, Strong(t) \/ Deallocate(t) \/ Weak(t)
  PROVE  (revived \/ leftLinked \/ silent => revived' \/ leftLinked' \/ silent') /\ state = "running"
<1>1. CASE \E o \in Objs : Alloc(t, o) \/ BeginRetain(t, o) \/ BeginRelease(t, o)
  BY <1>1 DEF Alloc, BeginRetain, BeginRelease, At, history
<1>2. CASE (\E u \in Threads, o \in Objs : Move(t, u, o)) \/ RetainSwap(t) \/ ReleaseSwap(t)
  <2>1. CASE RetainSwap(t)
    <3>1. state = "running" /\ revived' = (revived \/ call[t].old = 0) /\ UNCHANGED <<leftLinked, silent>>
      BY <2>1 DEF RetainSwap, At
    <3> QED BY <3>1, Zenon
  <2>2. CASE \E u \in Threads, o \in Objs : Move(t, u, o)
    BY <2>2 DEF Move, At, history
  <2>3. CASE ReleaseSwap(t)
    BY <2>3 DEF ReleaseSwap, At, history
  <2> QED BY <1>2, <2>1, <2>2, <2>3
<1>3. CASE Check(t, "retain", "load+") \/ Check(t, "release", "load-")
  BY <1>3 DEF Check, At, Stop, history
<1>4. CASE Load(t, "load+", "swap+") \/ Load(t, "load-", "swap-")
  BY <1>4 DEF Load, At, Stop, history
<1>5. CASE SwapFails(t, "swap+", "load+") \/ SwapFails(t, "swap-", "load-")
  BY <1>5 DEF SwapFails, At, Stop, history
<1>6. CASE Deallocate(t)
  BY <1>6 DEF Deallocate, BeginDeallocate, Nullify, Walk, NullifyOne, WalkEnds, Free, At, Stop, history
<1>7. CASE \E o \in Objs, w \in Refs : BeginCreate(t, o, w)
  BY <1>7 DEF BeginCreate, At, Stop, history
<1>8. CASE \E w \in Refs : Promote(t, w) \/ Access(t, w) \/ BeginDestroy(t, w) \/ DestroyNullified(t, w)
  BY <1>8 DEF Promote, Access, Expire, BeginDestroy, DestroyNullified, At, Stop, history
<1>9. CASE Link(t) \/ Unlink(t)
  BY <1>9 DEF Link, Unlink, At, Stop, history
<1>10. ASSUME NEW o \in Objs, PlainRetain(t, o) \/ PlainRelease(t, o)
       PROVE  (revived \/ leftLinked \/ silent => revived' \/ leftLinked' \/ silent') /\ state = "running"
  <2>1. CASE PlainRetain(t, o)
    BY <2>1 DEF PlainRetain, At, Stop, history
  <2>2. CASE PlainRelease(t, o)
    <3>1. state = "running" /\ UNCHANGED <<revived, leftLinked>> /\ (silent => silent')
      BY <2>2, Zenon DEF PlainRelease, At, Stop, history
    <3> QED BY <3>1, Zenon
  <2> QED BY <1>10, <2>1, <2>2
<1>11. CASE Strong(t)
  BY <1>1, <1>2, <1>3, <1>4, <1>5, <1>11, <1>10 DEF Strong
<1>12. CASE Weak(t)
  BY <1>7, <1>8, <1>9, <1>12 DEF Weak
<1> QED BY <1>6, <1>11, <1>12

(* Memory of a freed object or weak reference is touched only after a      *)
(* promotion raised a count from 0 (wyn_weak_promote does not look at the  *)
(* count), after wyn_weak_destroy freed a nullified weak reference in the  *)
(* chain, or after wyn_arc_release ended an object that had a weak         *)
(* reference; and before that only such a promotion can panic.             *)
THEOREM MisuseCorrect == Spec => []MisuseHasCause
<1>1. Init => MisuseHasCause
  BY DEF Init, MisuseHasCause
<1>2. ASSUME MisuseHasCause, ObjectsInv, [Next]_vars PROVE MisuseHasCause'
  <2>1. CASE UNCHANGED vars
    BY <1>2, <2>1 DEF vars, history, MisuseHasCause
  <2>2. CASE Ended
    BY <1>2, <2>2 DEF Ended, vars, history, MisuseHasCause
  <2>3. ASSUME NEW t \in Threads, Strong(t) \/ Deallocate(t) \/ Weak(t) PROVE MisuseHasCause'
    <3>1. CASE revived \/ leftLinked \/ silent
      BY <2>3, <3>1, HistoryStays DEF MisuseHasCause
    <3>2. CASE ~revived /\ ~leftLinked /\ ~silent
      <4>1. state' = "running" \/ PromotionPanics
        BY <1>2, <2>3, <3>2, StrongCause, DeallocateCause, WeakCause
      <4> QED BY <4>1 DEF PromotionPanics, MisuseHasCause
    <3> QED BY <3>1, <3>2
  <2> QED BY <1>2, <2>1, <2>2, <2>3 DEF Next
<1> QED BY <1>1, <1>2, ObjectsInvariant, PTL DEF Spec
=============================================================================
