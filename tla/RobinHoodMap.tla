---------------------------- MODULE RobinHoodMap ----------------------------
(***************************************************************************)
(* The hash map of collections.c: open addressing, an entry that is far    *)
(* from its home bucket takes the place of one that is nearer to its own   *)
(* (Robin Hood), removal shifts back what follows, the table doubles at    *)
(* three quarters of its length.                                           *)
(*                                                                         *)
(* One turn of a loop is a step.  malloc may fail where Failures says.     *)
(***************************************************************************)
EXTENDS Integers, SequencesExt

CONSTANTS
  Keys,
  Values,
  NoValue,
  Hash,          \* hash_fn
  InitialCap,    \* capacity of a new map
  Failures       \* the allocations that may fail: "table", "entry", "rehash"

ASSUME HashAssumption ==
  /\ Hash \in [Keys -> Nat]
  /\ InitialCap \in Nat \ {0}
  /\ Failures \subseteq {"table", "entry", "rehash"}
  /\ NoValue \notin Values

VARIABLES
  buckets,       \* map->buckets
  len,           \* map->len
  call,          \* the call in progress and, once settled, what it returns
  pc,            \* the loop the call is in
  carry,         \* insert_key and insert_value
  index,
  distance,
  old,           \* resizing: the occupied ones of old_buckets still to be moved
  iter           \* an iterator: its index and the keys it gave, or NoIter

vars == <<buckets, len, call, pc, carry, index, distance, old, iter>>

Open  == "open"          \* not yet settled
Yes   == "yes"
No    == "no"
Idle  == [op |-> "none", key |-> NoValue, value |-> NoValue, reply |-> Open]
Lookups   == [op : {"get", "has", "remove"}, key : Keys, value : {NoValue}, reply : {Open}]
Inserts   == [op : {"insert"}, key : Keys, value : Values, reply : {Open}]

ASSUME ReplyAssumption == Open \notin Values \cup {NoValue}

Free    == [key |-> NoValue, value |-> NoValue, distance |-> 0]      \* ~occupied
NoCarry == [key |-> NoValue, value |-> NoValue]
NoIter  == [at |-> -1, seen |-> <<>>]

Cap == Cardinality(DOMAIN buckets)
Here == buckets[index]
Home(k) == Hash[k] % Cap
Following(i) == (i + 1) % Cap
Occupied == {i \in DOMAIN buckets : buckets[i] # Free}
Table(n) == [i \in 0 .. n - 1 |-> Free]

\* len / cap >= 0.75
Loaded == 4 * len >= 3 * Cap

-----------------------------------------------------------------------------
\* The loop of an insertion or a lookup starts at the home of its key.
StartAt(k, next) ==
  /\ pc' = next
  /\ index' = Home(k)
  /\ distance' = 0

Settle(reply) == call' = [call EXCEPT !.reply = reply]

BeginInsert(c) ==
  /\ call = Idle
  /\ call' = c
  /\ pc' = "start"
  /\ iter' = NoIter
  /\ UNCHANGED <<buckets, len, carry, index, distance, old>>

BeginLookup(c) ==
  /\ call = Idle
  /\ call' = c
  /\ StartAt(c.key, "find")
  /\ iter' = IF c.op = "remove" THEN NoIter ELSE iter
  /\ UNCHANGED <<buckets, len, carry, old>>

\* wyn_hashmap_resize: a table of twice the length, or none at all.
Resize ==
  /\ pc = "start" /\ Loaded
  /\ pc' = "rehash"
  /\ old' = Restrict(buckets, Occupied)
  /\ buckets' = Table(2 * Cap)
  /\ len' = 0
  /\ UNCHANGED <<call, carry, index, distance, iter>>

ResizeFails ==
  /\ pc = "start" /\ Loaded
  /\ "table" \in Failures
  /\ pc' = "return"
  /\ Settle(No)
  /\ UNCHANGED <<buckets, len, carry, index, distance, old, iter>>

\* The next entry of the old table is inserted; whether it could be is not looked at.
Rehash ==
  /\ pc = "rehash"
  /\ DOMAIN old # {}
  /\ LET i == Min(DOMAIN old) IN
     /\ \/ StartAt(old[i].key, "place") /\ carry' = [key |-> old[i].key, value |-> old[i].value]
        \/ "rehash" \in Failures /\ UNCHANGED <<pc, index, distance, carry>>
     /\ old' = Restrict(old, DOMAIN old \ {i})
  /\ UNCHANGED <<buckets, len, call, iter>>

\* There is room, or all was moved: insert_key and insert_value are allocated.
Room == (pc = "start" /\ ~Loaded) \/ (pc = "rehash" /\ DOMAIN old = {})

Probe ==
  /\ Room
  /\ StartAt(call.key, "probe")
  /\ carry' = [key |-> call.key, value |-> call.value]
  /\ UNCHANGED <<buckets, len, call, old, iter>>

ProbeFails ==
  /\ Room
  /\ "entry" \in Failures
  /\ pc' = "return"
  /\ Settle(No)
  /\ UNCHANGED <<buckets, len, carry, index, distance, old, iter>>

-----------------------------------------------------------------------------
\* What was carried is in the table: of the old one the next, else the call is done.
Placed ==
  /\ carry' = NoCarry
  /\ IF pc = "place" THEN pc' = "rehash" /\ UNCHANGED call
                     ELSE pc' = "return" /\ Settle(Yes)
  /\ UNCHANGED <<index, distance, old, iter>>

PlaceFree ==
  /\ pc \in {"probe", "place"}
  /\ Here = Free
  /\ buckets' = [buckets EXCEPT ![index] = [key |-> carry.key, value |-> carry.value, distance |-> distance]]
  /\ len' = len + 1
  /\ Placed

PlaceKnown ==
  /\ pc \in {"probe", "place"}
  /\ Here # Free /\ Here.key = carry.key
  /\ buckets' = [buckets EXCEPT ![index].value = carry.value]
  /\ UNCHANGED len
  /\ Placed

\* Mutant: the distance is not counted.
OnwardsAlone(d) ==
  /\ index' = Following(index)
  /\ distance' = d

Onwards(d) ==
  /\ index' = Following(index)
  /\ distance' = d + 1

\* The bucket's entry is nearer to its home: it is carried on instead.  The code
\* allocates two buffers for the exchange and does not look if it got them: when
\* it did not, the program crashes, and no call returns.
Steal ==
  /\ pc \in {"probe", "place"}
  /\ Here # Free /\ Here.key # carry.key
  /\ distance > Here.distance
  /\ buckets' = [buckets EXCEPT ![index] = [key |-> carry.key, value |-> carry.value, distance |-> distance]]
  /\ carry' = [key |-> Here.key, value |-> Here.value]
  /\ Onwards(Here.distance)
  /\ IF pc = "probe" THEN Settle(Yes) ELSE UNCHANGED call
  /\ UNCHANGED <<len, pc, old, iter>>

Pass ==
  /\ pc \in {"probe", "place"}
  /\ Here # Free /\ Here.key # carry.key
  /\ distance <= Here.distance
  /\ Onwards(distance)
  /\ UNCHANGED <<buckets, len, call, pc, carry, old, iter>>

-----------------------------------------------------------------------------
\* Mutant: the search stops at an entry that has come as far.
NotFurtherAtEqual == Here = Free \/ Here.distance <= distance

\* No entry of that key can be here or further on.
NotFurther == Here = Free \/ Here.distance < distance

Absent ==
  /\ pc = "find"
  /\ distance > Cap \/ NotFurther
  /\ pc' = "return"
  /\ Settle(IF call.op = "get" THEN NoValue ELSE No)
  /\ UNCHANGED <<buckets, len, carry, index, distance, old, iter>>

Seek ==
  /\ pc = "find"
  /\ distance <= Cap /\ ~NotFurther
  /\ Here.key # call.key
  /\ Onwards(distance)
  /\ UNCHANGED <<buckets, len, call, pc, carry, old, iter>>

Found ==
  /\ pc = "find"
  /\ distance <= Cap /\ ~NotFurther
  /\ Here.key = call.key
  /\ Settle(IF call.op = "get" THEN Here.value ELSE Yes)
  /\ IF call.op = "remove"
       THEN buckets' = [buckets EXCEPT ![index] = Free] /\ len' = len - 1 /\ pc' = "shift"
       ELSE pc' = "return" /\ UNCHANGED <<buckets, len>>
  /\ UNCHANGED <<carry, index, distance, old, iter>>

\* Mutant: entries that are at home move as well.
ToShiftAll == buckets[Following(index)] # Free

\* Entries that follow and are not at home move one back.
ToShift == buckets[Following(index)] # Free /\ buckets[Following(index)].distance > 0

Shift ==
  /\ pc = "shift"
  /\ ToShift
  /\ LET next == buckets[Following(index)] IN
     buckets' = [buckets EXCEPT ![index] = [next EXCEPT !.distance = @ - 1], ![Following(index)] = Free]
  /\ index' = Following(index)
  /\ UNCHANGED <<len, call, pc, carry, distance, old, iter>>

ShiftDone ==
  /\ pc = "shift"
  /\ ~ToShift
  /\ pc' = "return"
  /\ UNCHANGED <<buckets, len, call, carry, index, distance, old, iter>>

Return ==
  /\ pc = "return"
  /\ pc' = "idle"
  /\ call' = Idle
  /\ index' = 0 /\ distance' = 0
  /\ UNCHANGED <<buckets, len, carry, old, iter>>

Clear ==
  /\ call = Idle
  /\ buckets' = Table(Cap)
  /\ len' = 0
  /\ iter' = NoIter
  /\ UNCHANGED <<call, pc, carry, index, distance, old>>

-----------------------------------------------------------------------------
\* Mutant: the bucket the search starts at is left out.
OccupiedFromNext(i) == Min({j \in Occupied : j > i} \cup {Cap})

\* The first occupied bucket from i on, or the length of the table.
OccupiedFrom(i) == Min({j \in Occupied : j >= i} \cup {Cap})

IterNew ==
  /\ call = Idle
  /\ iter' = [at |-> OccupiedFrom(0), seen |-> <<>>]
  /\ UNCHANGED <<buckets, len, call, pc, carry, index, distance, old>>

IterNext ==
  /\ call = Idle
  /\ iter.at \in Occupied
  /\ iter' = [at |-> OccupiedFrom(iter.at + 1), seen |-> Append(iter.seen, buckets[iter.at].key)]
  /\ UNCHANGED <<buckets, len, call, pc, carry, index, distance, old>>

-----------------------------------------------------------------------------
Init ==
  /\ buckets = Table(InitialCap)
  /\ len = 0
  /\ call = Idle
  /\ pc = "idle"
  /\ carry = NoCarry
  /\ index = 0 /\ distance = 0
  /\ old = <<>>
  /\ iter = NoIter

Step == \/ Resize \/ ResizeFails \/ Rehash \/ Probe \/ ProbeFails
        \/ PlaceFree \/ PlaceKnown \/ Steal \/ Pass
        \/ Absent \/ Seek \/ Found \/ Shift \/ ShiftDone
        \/ Return

Next == \/ \E c \in Inserts : BeginInsert(c)
        \/ \E c \in Lookups : BeginLookup(c)
        \/ Step
        \/ Clear
        \/ IterNew \/ IterNext

Spec == Init /\ [][Next]_vars /\ WF_vars(Step)

-----------------------------------------------------------------------------
\* The entries of the map, wherever they are at the moment.
Entries ==
  {buckets[i] : i \in Occupied} \cup ToSet(old)
    \cup (IF pc = "place" \/ (pc = "probe" /\ call.reply = Yes) THEN {carry} ELSE {})

Contents == [k \in {e.key : e \in Entries} |-> (CHOOSE e \in Entries : e.key = k).value]

Map == INSTANCE KeyedMap WITH dict <- Contents

(***************************************************************************)
(* The table is a map: an insertion that swaps entries along a probe,      *)
(* doubles the table first or fails changes the value of its key only, a   *)
(* removal that shifts entries removes its key only, and a lookup that     *)
(* stops early misses nothing.                                             *)
(***************************************************************************)
ImplementsMap == Map!Spec

(***************************************************************************)
(* Between calls: every entry is as far from its home as it says, what     *)
(* lies between is not nearer to its own home by more than the way         *)
(* allows, no key is there twice and len counts the entries.               *)
(***************************************************************************)
ProbeOrder ==
  call = Idle =>
    /\ \A i \in Occupied :
         /\ Home(buckets[i].key) = (i - buckets[i].distance) % Cap
         /\ buckets[i].distance > 0 =>
              \E j \in Occupied : Following(j) = i /\ buckets[j].distance >= buckets[i].distance - 1
         /\ \A j \in Occupied : buckets[i].key = buckets[j].key => i = j
    /\ len = Cardinality(Occupied)

(***************************************************************************)
(* An iteration during which the map is not changed gives every key once.  *)
(***************************************************************************)
IterationComplete ==
  iter.at = Cap => IsInjective(iter.seen) /\ ToSet(iter.seen) = DOMAIN Contents

(***************************************************************************)
(* Every call returns: the probing loop, which has no bound, finds a free  *)
(* bucket or its key, and moving back stops.                               *)
(***************************************************************************)
CallsReturn == call # Idle ~> call = Idle
=============================================================================
