----------------------- MODULE SpawnSchedulerProofs -----------------------
(***************************************************************************)
(* The scheduler runs every spawn exactly once and shuts down quietly, for *)
(* every number of workers, of spawns and every width of int.              *)
(***************************************************************************)
EXTENDS SpawnScheduler, TLAPS

LEMMA TypeInit == Init => TypeOK
<1> SUFFICES ASSUME Init PROVE TypeOK
  OBVIOUS
<1> USE SchedulerAssumption
<1>1. ticket \in [Actors -> [task : Tasks, target : Int] \cup {NoTicket}]
  BY DEF Init
<1>2. queues \in [Workers -> Seq(Tasks)]
  BY DEF Init
<1>3. /\ pc \in [Workers -> {"unborn", "find", "loop", "own", "steal", "run", "exited"}]
      /\ worker_id \in [Workers -> Workers]
      /\ probe \in [Workers -> 0 .. N]
      /\ hand \in [Workers -> Tasks \cup {NoTask}]
      /\ runs \in [Tasks -> Nat]
      /\ \A w \in Workers : pc[w] # "steal"
  BY DEF Init, Workers
<1>4. /\ main \in {"start", "serve", "join", "freed", "gone"}
      /\ created \in 0 .. N /\ stored \in 0 .. N /\ joined \in 0 .. N
      /\ running \in BOOLEAN
      /\ next_worker \in -(IntMax + 1) .. IntMax
      /\ issued \in 0 .. MaxSpawns
  BY DEF Init
<1> QED BY <1>1, <1>2, <1>3, <1>4 DEF TypeOK

(* The queue index is an integer whatever the sign of the ticket.          *)
LEMMA DealtInt ==
  ASSUME NEW i \in Int
  PROVE  Dealt(i) \in Int
BY SchedulerAssumption DEF Dealt, Remainder

LEMMA PopType ==
  ASSUME TypeOK, NEW w \in Workers, NEW q \in Workers, Pop(w, q)
  PROVE  /\ hand' \in [Workers -> Tasks \cup {NoTask}]
         /\ queues' \in [Workers -> Seq(Tasks)]
         /\ pc' = [pc EXCEPT ![w] = "run"]
<1>1. queues[q] \in Seq(Tasks) /\ queues[q] # <<>>
  BY DEF TypeOK, Pop
<1>2. Head(queues[q]) \in Tasks /\ Tail(queues[q]) \in Seq(Tasks)
  BY <1>1
<1> QED BY <1>2 DEF TypeOK, Pop, Goto

LEMMA VictimType ==
  ASSUME TypeOK, NEW w \in Workers
  PROVE  Victim(w) \in Workers
<1>1. worker_id[w] + probe[w] \in Int
  BY SchedulerAssumption DEF TypeOK, Workers
<1>2. \A i \in Int : i % N \in 0 .. N - 1
  BY SchedulerAssumption
<1> QED BY <1>1, <1>2 DEF Victim, Workers

LEMMA TypeNext == TypeOK /\ [Next]_vars => TypeOK'
<1> SUFFICES ASSUME TypeOK, [Next]_vars PROVE TypeOK'
  OBVIOUS
<1> USE SchedulerAssumption DEF boot, deal, work
<1>1. CASE CreateWorker
  <2>1. created' \in 0 .. N
    BY <1>1 DEF TypeOK, CreateWorker
  <2>2. pc' \in [Workers -> {"unborn", "find", "loop", "own", "steal", "run", "exited"}]
    BY <1>1 DEF TypeOK, CreateWorker
  <2> QED BY <1>1, <2>1, <2>2 DEF TypeOK, CreateWorker
<1>2. CASE StoreHandle
  BY <1>2 DEF TypeOK, StoreHandle
<1>3. ASSUME NEW a \in Actors, TakeTicket(a) PROVE TypeOK'
  <2>1. Dealt(next_worker) \in Int
    BY DealtInt DEF TypeOK
  <2>2. issued + 1 \in Tasks /\ issued' \in 0 .. MaxSpawns
    BY <1>3 DEF TypeOK, TakeTicket, Tasks
  <2>3. next_worker' \in -(IntMax + 1) .. IntMax
    BY <1>3 DEF TypeOK, TakeTicket, Wrapped
  <2>4. ticket' \in [Actors -> [task : Tasks, target : Int] \cup {NoTicket}]
    BY <1>3, <2>1, <2>2 DEF TypeOK, TakeTicket
  <2> QED BY <1>3, <2>2, <2>3, <2>4 DEF TypeOK, TakeTicket
<1>4. ASSUME NEW a \in Actors, Push(a) PROVE TypeOK'
  <2>1. ticket[a].task \in Tasks
    BY <1>4 DEF TypeOK, Push
  <2>2. Pushed(ticket[a].task, ticket[a].target) \in Seq(Tasks)
    BY <1>4, <2>1 DEF TypeOK, Push, Pushed
  <2>3. queues' \in [Workers -> Seq(Tasks)]
    BY <1>4, <2>2 DEF TypeOK, Push
  <2>4. ticket' \in [Actors -> [task : Tasks, target : Int] \cup {NoTicket}]
    BY <1>4 DEF TypeOK, Push
  <2> QED BY <1>4, <2>3, <2>4 DEF TypeOK, Push
<1>5. ASSUME NEW w \in Workers, FindId(w) PROVE TypeOK'
  <2>1. Found(w) \in Workers
    BY DEF Found, Workers
  <2> QED BY <1>5, <2>1 DEF TypeOK, FindId, Goto
<1>6. ASSUME NEW w \in Workers, Loop(w) PROVE TypeOK'
  BY <1>6 DEF TypeOK, Loop, Goto
<1>7. ASSUME NEW w \in Workers, PopOwn(w) PROVE TypeOK'
  <2>1. Pop(w, worker_id[w]) /\ worker_id[w] \in Workers
    BY <1>7 DEF PopOwn, TypeOK
  <2> QED BY <1>7, <2>1, PopType DEF TypeOK, PopOwn
<1>8. ASSUME NEW w \in Workers, OwnEmpty(w) PROVE TypeOK'
  BY <1>8 DEF TypeOK, OwnEmpty, Goto
<1>9. ASSUME NEW w \in Workers, Steal(w) PROVE TypeOK'
  <2>1. Pop(w, Victim(w)) /\ Victim(w) \in Workers
    BY <1>9, VictimType DEF Steal
  <2> QED BY <1>9, <2>1, PopType DEF TypeOK, Steal
<1>10. ASSUME NEW w \in Workers, StealEmpty(w) PROVE TypeOK'
  <2>1. probe[w] \in 1 .. N - 1 /\ probe' = [probe EXCEPT ![w] = @ + 1]
    BY <1>10 DEF TypeOK, StealEmpty
  <2>2. probe' \in [Workers -> 0 .. N]
    BY <2>1 DEF TypeOK
  <2>3. pc' = [pc EXCEPT ![w] = IF probe[w] + 1 < N THEN "steal" ELSE "loop"]
    BY <1>10 DEF StealEmpty, Goto
  <2>4. \A v \in Workers : pc'[v] = "steal" => probe'[v] \in 1 .. N - 1
    BY <2>1, <2>3 DEF TypeOK
  <2>5. pc' \in [Workers -> {"unborn", "find", "loop", "own", "steal", "run", "exited"}]
    BY <2>3 DEF TypeOK
  <2> QED BY <1>10, <2>2, <2>4, <2>5 DEF TypeOK, StealEmpty
<1>11. ASSUME NEW w \in Workers, Finish(w) PROVE TypeOK'
  <2>1. runs' \in [Tasks -> Nat]
    <3>1. runs \in [Tasks -> Nat] /\ runs' = [runs EXCEPT ![hand[w]] = runs[hand[w]] + 1]
      BY <1>11 DEF TypeOK, Finish
    <3>2. CASE hand[w] \in Tasks
      BY <3>1, <3>2
    <3>3. CASE hand[w] \notin Tasks
      BY <3>1, <3>3
    <3> QED BY <3>2, <3>3
  <2>2. hand' \in [Workers -> Tasks \cup {NoTask}]
    BY <1>11 DEF TypeOK, Finish
  <2> QED BY <1>11, <2>1, <2>2 DEF TypeOK, Finish, Goto
<1>12. CASE Stopping
  <2>1. CASE JoinWorker
    <3>1. joined' \in 0 .. N
      BY <2>1 DEF TypeOK, JoinWorker
    <3> QED BY <2>1, <3>1 DEF TypeOK, JoinWorker
  <2>2. CASE Shutdown \/ FreeScheduler \/ ExitProcess
    BY <2>2 DEF TypeOK, Shutdown, FreeScheduler, ExitProcess
  <2> QED BY <1>12, <2>1, <2>2 DEF Stopping
<1>13. CASE UNCHANGED vars
  BY <1>13 DEF TypeOK, vars
<1> QED BY <1>1, <1>2, <1>3, <1>4, <1>5, <1>6, <1>7, <1>8, <1>9, <1>10, <1>11,
           <1>12, <1>13 DEF Next, Starting, Worker, Take

-----------------------------------------------------------------------------
(* What a push and a pop do to the set of spawns in a queue.               *)
LEMMA PushSeq ==
  ASSUME NEW s \in Seq(Tasks), NEW t \in Tasks
  PROVE  /\ ToSet(<<t>> \o s) = ToSet(s) \cup {t}
         /\ t \notin ToSet(s) /\ IsInjective(s) => IsInjective(<<t>> \o s)
<1> DEFINE p == <<t>> \o s
<1>1. /\ p \in Seq(Tasks) /\ Len(p) = Len(s) + 1 /\ p[1] = t
      /\ \A i \in 1 .. Len(s) : p[i + 1] = s[i]
      /\ \A i \in 2 .. Len(p) : p[i] = s[i - 1] /\ i - 1 \in 1 .. Len(s)
      /\ DOMAIN p = 1 .. Len(p) /\ DOMAIN s = 1 .. Len(s)
  OBVIOUS
<1> HIDE DEF p
<1>2. ToSet(p) = ToSet(s) \cup {t}
  <2>1. ASSUME NEW x \in ToSet(p) PROVE x \in ToSet(s) \cup {t}
    <3>1. PICK i \in 1 .. Len(p) : p[i] = x
      BY <1>1 DEF ToSet
    <3>2. CASE i = 1
      BY <1>1, <3>1, <3>2
    <3>3. CASE i # 1
      <4>1. i - 1 \in DOMAIN s /\ s[i - 1] = x
        BY <1>1, <3>1, <3>3
      <4> QED BY <4>1 DEF ToSet
    <3> QED BY <3>2, <3>3
  <2>2. ASSUME NEW x \in ToSet(s) PROVE x \in ToSet(p)
    <3>1. PICK i \in 1 .. Len(s) : s[i] = x
      BY <1>1 DEF ToSet
    <3>2. i + 1 \in 1 .. Len(p) /\ p[i + 1] = x
      BY <1>1, <3>1
    <3> QED BY <1>1, <3>2 DEF ToSet
  <2>3. t \in ToSet(p)
    <3>1. 1 \in DOMAIN p /\ p[1] = t
      BY <1>1
    <3> QED BY <3>1 DEF ToSet
  <2> QED BY <2>1, <2>2, <2>3
<1>3. ASSUME t \notin ToSet(s), IsInjective(s), NEW i \in DOMAIN p, NEW j \in DOMAIN p,
             p[i] = p[j]
      PROVE  i = j
  <2>1. \A k \in 2 .. Len(p) : p[k] \in ToSet(s)
    BY <1>1 DEF ToSet
  <2>2. (i = 1) <=> (j = 1)
    BY <1>1, <1>3, <2>1
  <2>3. CASE i # 1 /\ j # 1
    <3>1. /\ i - 1 \in DOMAIN s /\ j - 1 \in DOMAIN s /\ s[i - 1] = s[j - 1]
          /\ i \in Int /\ j \in Int
      BY <1>1, <1>3, <2>3
    <3>2. i - 1 = j - 1
      BY <1>3, <3>1 DEF IsInjective
    <3> QED BY <3>1, <3>2
  <2> QED BY <2>2, <2>3
<1>4. t \notin ToSet(s) /\ IsInjective(s) => IsInjective(p)
  BY <1>3 DEF IsInjective
<1> QED BY <1>2, <1>4 DEF p

LEMMA PopSeq ==
  ASSUME NEW s \in Seq(Tasks), s # <<>>, IsInjective(s)
  PROVE  /\ Head(s) \in ToSet(s) /\ Head(s) \in Tasks
         /\ ToSet(Tail(s)) = ToSet(s) \ {Head(s)}
         /\ IsInjective(Tail(s))
<1> DEFINE p == Tail(s)
<1>1. /\ p \in Seq(Tasks) /\ Len(s) = Len(p) + 1 /\ Head(s) = s[1] /\ Len(p) \in Nat
      /\ \A i \in 1 .. Len(p) : p[i] = s[i + 1] /\ i + 1 \in 2 .. Len(s)
      /\ DOMAIN p = 1 .. Len(p) /\ DOMAIN s = 1 .. Len(s) /\ s[1] \in Tasks
  OBVIOUS
<1> HIDE DEF p
<1>2. Head(s) \in ToSet(s)
  <2>1. 1 \in DOMAIN s
    BY <1>1
  <2> QED BY <1>1, <2>1 DEF ToSet
<1>3. \A i \in 2 .. Len(s) : s[i] # s[1]
  BY <1>1 DEF IsInjective
<1>4. ASSUME NEW x \in ToSet(p) PROVE x \in ToSet(s) \ {Head(s)}
  <2>1. PICK i \in 1 .. Len(p) : p[i] = x
    BY <1>1 DEF ToSet
  <2>2. i + 1 \in DOMAIN s /\ i + 1 \in 2 .. Len(s) /\ s[i + 1] = x
    BY <1>1, <2>1
  <2> QED BY <1>1, <1>3, <2>2 DEF ToSet
<1>5. ASSUME NEW x \in ToSet(s), x # Head(s) PROVE x \in ToSet(p)
  <2>1. PICK i \in 1 .. Len(s) : s[i] = x
    BY <1>1 DEF ToSet
  <2>2. i - 1 \in 1 .. Len(p) /\ (i - 1) + 1 = i
    BY <1>1, <1>5, <2>1
  <2>3. p[i - 1] = x
    BY <1>1, <2>1, <2>2
  <2> QED BY <1>1, <2>2, <2>3 DEF ToSet
<1>6. ASSUME NEW i \in DOMAIN p, NEW j \in DOMAIN p, p[i] = p[j]
      PROVE  i = j
  <2>1. i + 1 \in DOMAIN s /\ j + 1 \in DOMAIN s /\ s[i + 1] = s[j + 1]
    BY <1>1, <1>6
  <2>2. i + 1 = j + 1
    BY <2>1 DEF IsInjective
  <2> QED BY <1>1, <2>2
<1>7. IsInjective(p)
  BY <1>6 DEF IsInjective
<1> QED BY <1>1, <1>2, <1>4, <1>5, <1>7 DEF p

-----------------------------------------------------------------------------
(* What ties the program counters together: a worker holds a spawn exactly *)
(* while it runs one, threads enqueue only while they run the program, and *)
(* shutdown has joined workers that have exited.                           *)
Control ==
  /\ \A w \in Workers : w >= created => pc[w] = "unborn"
  /\ \A w \in Workers : pc[w] = "run" <=> hand[w] # NoTask
  /\ \A w \in Workers : ticket[w] # NoTicket => pc[w] = "run"
  /\ ticket[Main] # NoTicket => main = "serve"
  /\ \A w \in Workers : w < joined => pc[w] = "exited"
  /\ main = "start" => joined = 0
  /\ main = "freed" => joined = N

(* Only spawns that were made are on their way.                            *)
Tracked ==
  \A t \in Tasks : InFlight(t) => t \in Issued

(* The inductive invariant: what is to be shown, what the control state    *)
(* adds to it, and that a new ticket names a spawn nobody has yet.         *)
Placed == Tracked /\ OnePlace /\ ExactlyOnce
IInv   == TypeOK /\ Control /\ Placed

LEMMA InvInit == Init => IInv
<1> SUFFICES ASSUME Init PROVE IInv
  OBVIOUS
<1> USE SchedulerAssumption
<1>1. TypeOK
  BY TypeInit
<1>2. Control
  BY DEF Init, Control, Workers, Actors, Main
<1>3. ASSUME NEW t \in Tasks PROVE ~Ticketed(t) /\ ~Queued(t) /\ ~InHand(t)
  <2>1. ~Ticketed(t) /\ ~InHand(t)
    BY DEF Init, Ticketed, InHand, Tasks, NoTicket, NoTask
  <2>2. ASSUME NEW w \in Workers PROVE t \notin ToSet(queues[w])
    BY DEF Init, ToSet
  <2> QED BY <2>1, <2>2 DEF Queued
<1>4. Tracked
  BY <1>3 DEF Tracked, InFlight
<1>5. ExactlyOnce
  BY DEF Init, ExactlyOnce, Issued
<1>6. OnePlace
  <2>1. \A w \in Workers : queues[w] = <<>> /\ hand[w] = NoTask
    BY DEF Init
  <2>2. \A w \in Workers : IsInjective(queues[w]) /\ ToSet(queues[w]) = {}
    BY <2>1 DEF IsInjective, ToSet
  <2>3. \A a \in Actors : ticket[a] = NoTicket
    BY DEF Init
  <2> QED BY <1>3, <2>1, <2>2, <2>3 DEF OnePlace
<1> QED BY <1>1, <1>2, <1>4, <1>5, <1>6 DEF IInv, Placed

(* A step that moves no spawn leaves every spawn where it is.              *)
LEMMA PlacedFrame ==
  ASSUME Placed, UNCHANGED <<issued, ticket, queues, hand, runs>>
  PROVE  Placed'
<1>1. \A t \in Tasks : /\ Ticketed(t)' <=> Ticketed(t)
                       /\ Queued(t)' <=> Queued(t)
                       /\ InHand(t)' <=> InHand(t)
  BY DEF Ticketed, Queued, InHand
<1>2. Issued' = Issued
  BY DEF Issued
<1>3. Tracked' /\ ExactlyOnce'
  BY <1>1, <1>2 DEF Placed, Tracked, ExactlyOnce, InFlight
<1>4. OnePlace'
  BY <1>1 DEF Placed, OnePlace
<1> QED BY <1>3, <1>4 DEF Placed

(* A new spawn enters the scheduler with the ticket of its thread.         *)
LEMMA PlacedTakeTicket ==
  ASSUME IInv, NEW a \in Actors, TakeTicket(a)
  PROVE  Placed'
<1> DEFINE n == issued + 1
<1>1. /\ n \in Tasks /\ n \notin Issued /\ Issued' = Issued \cup {n}
      /\ Issued \subseteq Tasks /\ NoTask \notin Tasks
  BY SchedulerAssumption DEF IInv, TypeOK, TakeTicket, Issued, Tasks, NoTask
<1>2. /\ ticket[a] = NoTicket /\ ticket'[a].task = n /\ ticket'[a] # NoTicket
      /\ \A b \in Actors : b # a => ticket'[b] = ticket[b]
      /\ UNCHANGED <<queues, hand, runs>>
  BY <1>1 DEF IInv, TypeOK, TakeTicket, NoTicket, work
<1> HIDE DEF n
<1>3. ~Ticketed(n) /\ ~Queued(n) /\ ~InHand(n)
  BY <1>1 DEF IInv, Placed, Tracked, InFlight
<1>4. ASSUME NEW t \in Tasks
      PROVE  /\ Ticketed(t)' <=> Ticketed(t) \/ t = n
             /\ Queued(t)' <=> Queued(t)
             /\ InHand(t)' <=> InHand(t)
  <2>1. Queued(t)' <=> Queued(t)
    BY <1>2 DEF Queued
  <2>2. InHand(t)' <=> InHand(t)
    BY <1>2 DEF InHand
  <2>3. ticket[a].task # t
    BY <1>1, <1>2 DEF NoTicket
  <2>4. Ticketed(t)' <=> Ticketed(t) \/ t = n
    BY <1>2, <2>3 DEF Ticketed
  <2> QED BY <2>1, <2>2, <2>4
<1>5. Tracked'
  BY <1>1, <1>4 DEF IInv, Placed, Tracked, InFlight
<1>6. ExactlyOnce'
  <2>1. ASSUME NEW t \in Tasks
        PROVE  (t \in Issued /\ ~InFlight(t))' <=> (t \in Issued /\ ~InFlight(t))
    BY <1>1, <1>3, <1>4 DEF InFlight
  <2> QED BY <1>2, <2>1 DEF IInv, Placed, ExactlyOnce
<1>7. OnePlace'
  <2>1. ASSUME NEW b \in Actors, NEW c \in Actors, b # c, (ticket[b] # NoTicket)'
        PROVE  (ticket[b].task # ticket[c].task)'
    <3>1. \A d \in Actors : ticket[d].task # n
      BY <1>3 DEF Ticketed
    <3> QED BY <1>2, <2>1, <3>1 DEF IInv, Placed, OnePlace, TypeOK
  <2>2. \A t \in Tasks : /\ ~(Ticketed(t) /\ Queued(t))'
                         /\ ~(Queued(t) /\ InHand(t))'
                         /\ ~(InHand(t) /\ Ticketed(t))'
    BY <1>3, <1>4 DEF IInv, Placed, OnePlace
  <2> QED BY <1>2, <2>1, <2>2 DEF IInv, Placed, OnePlace
<1> QED BY <1>5, <1>6, <1>7 DEF Placed

(* The push moves the spawn from its thread's ticket to one queue.         *)
LEMMA PlacedPush ==
  ASSUME IInv, NEW a \in Actors, Push(a)
  PROVE  Placed'
<1> DEFINE n == ticket[a].task
           q == ticket[a].target
<1>1. /\ n \in Tasks /\ q \in Workers /\ ticket[a] # NoTicket
      /\ queues[q] \in Seq(Tasks) /\ NoTask \notin Tasks
  BY DEF IInv, TypeOK, Push, Tasks, NoTask
<1>2. /\ ticket'[a] = NoTicket
      /\ \A b \in Actors : b # a => ticket'[b] = ticket[b]
      /\ queues'[q] = <<n>> \o queues[q]
      /\ \A w \in Workers : w # q => queues'[w] = queues[w]
      /\ UNCHANGED <<issued, hand, runs>>
  BY <1>1 DEF IInv, TypeOK, Push, Pushed, work
<1>3. Ticketed(n) /\ ~Queued(n) /\ ~InHand(n)
  <2>1. Ticketed(n)
    BY DEF Ticketed
  <2> QED BY <1>1, <2>1 DEF IInv, Placed, OnePlace
<1>4. \A b \in Actors : b # a => ticket[b].task # n
  BY <1>1 DEF IInv, Placed, OnePlace
<1> HIDE DEF n, q
<1>5. n \notin ToSet(queues[q]) /\ IsInjective(queues[q])
  BY <1>1, <1>3 DEF Queued, IInv, Placed, OnePlace
<1>6. ToSet(queues'[q]) = ToSet(queues[q]) \cup {n} /\ IsInjective(queues'[q])
  BY <1>1, <1>2, <1>5, PushSeq
<1>7. ASSUME NEW t \in Tasks
      PROVE  /\ Ticketed(t)' <=> Ticketed(t) /\ t # n
             /\ Queued(t)' <=> Queued(t) \/ t = n
             /\ InHand(t)' <=> InHand(t)
  <2>1. Queued(t)' <=> Queued(t) \/ t = n
    BY <1>1, <1>2, <1>6 DEF Queued
  <2>2. InHand(t)' <=> InHand(t)
    BY <1>2 DEF InHand
  <2>3. ticket'[a].task # t
    BY <1>1, <1>2 DEF NoTicket
  <2>4. ticket[a].task = n
    BY DEF n
  <2>5. Ticketed(t)' <=> Ticketed(t) /\ t # n
    BY <1>2, <1>4, <2>3, <2>4 DEF Ticketed
  <2> QED BY <2>1, <2>2, <2>5
<1>8. Issued' = Issued
  BY <1>2 DEF Issued
<1>9. \A t \in Tasks : InFlight(t)' <=> InFlight(t)
  BY <1>3, <1>7 DEF InFlight
<1>10. Tracked' /\ ExactlyOnce'
  BY <1>2, <1>8, <1>9 DEF IInv, Placed, Tracked, ExactlyOnce
<1>11. OnePlace'
  <2>1. ASSUME NEW b \in Actors, NEW c \in Actors, b # c, (ticket[b] # NoTicket)'
        PROVE  (ticket[b].task # ticket[c].task)'
    <3>1. b # a /\ ticket[b] # NoTicket /\ ticket'[b] = ticket[b]
      BY <1>2, <2>1
    <3>2. ticket[b].task \in Tasks
      BY <3>1 DEF IInv, TypeOK
    <3> QED BY <1>1, <1>2, <2>1, <3>1, <3>2 DEF IInv, Placed, OnePlace, NoTicket
  <2>2. \A w \in Workers : IsInjective(queues'[w])
    BY <1>2, <1>6 DEF IInv, Placed, OnePlace
  <2>3. \A v \in Workers : n \notin ToSet(queues[v])
    BY <1>3 DEF Queued
  <2>4. ASSUME NEW v \in Workers, NEW w \in Workers, v # w
        PROVE  ToSet(queues'[v]) \cap ToSet(queues'[w]) = {}
    <3>1. ToSet(queues[v]) \cap ToSet(queues[w]) = {}
      BY <2>4 DEF IInv, Placed, OnePlace
    <3> QED BY <1>2, <1>6, <2>3, <2>4, <3>1
  <2>5. \A t \in Tasks : /\ ~(Ticketed(t) /\ Queued(t))'
                         /\ ~(Queued(t) /\ InHand(t))'
                         /\ ~(InHand(t) /\ Ticketed(t))'
    BY <1>3, <1>7 DEF IInv, Placed, OnePlace
  <2> QED BY <1>2, <2>1, <2>2, <2>4, <2>5 DEF IInv, Placed, OnePlace
<1> QED BY <1>10, <1>11 DEF Placed

(* A pop, from the own queue or a stolen one, moves the spawn into the     *)
(* hands of one worker.                                                    *)
LEMMA PlacedPop ==
  ASSUME IInv, NEW w \in Workers, NEW q \in Workers, pc[w] # "run", Pop(w, q),
         UNCHANGED <<issued, ticket, runs>>
  PROVE  Placed'
<1> DEFINE n == Head(queues[q])
<1>1. /\ queues[q] \in Seq(Tasks) /\ queues[q] # <<>> /\ IsInjective(queues[q])
      /\ hand[w] = NoTask /\ NoTask \notin Tasks
  BY DEF IInv, TypeOK, Pop, Control, Placed, OnePlace, Tasks, NoTask
<1>2. /\ hand'[w] = n
      /\ \A v \in Workers : v # w => hand'[v] = hand[v]
      /\ queues'[q] = Tail(queues[q])
      /\ \A v \in Workers : v # q => queues'[v] = queues[v]
  BY DEF IInv, TypeOK, Pop
<1> HIDE DEF n
<1>3. /\ n \in ToSet(queues[q]) /\ n \in Tasks
      /\ ToSet(queues'[q]) = ToSet(queues[q]) \ {n}
      /\ IsInjective(queues'[q])
  BY <1>1, <1>2, PopSeq DEF n
<1>4. Queued(n) /\ ~Ticketed(n) /\ ~InHand(n)
  <2>1. Queued(n)
    BY <1>3 DEF Queued
  <2> QED BY <1>3, <2>1 DEF IInv, Placed, OnePlace
<1>5. \A v \in Workers : v # q => n \notin ToSet(queues[v])
  BY <1>3 DEF IInv, Placed, OnePlace
<1>6. ASSUME NEW t \in Tasks
      PROVE  /\ Ticketed(t)' <=> Ticketed(t)
             /\ Queued(t)' <=> Queued(t) /\ t # n
             /\ InHand(t)' <=> InHand(t) \/ t = n
  <2>1. Queued(t)' <=> Queued(t) /\ t # n
    BY <1>2, <1>3, <1>5 DEF Queued
  <2>2. InHand(t)' <=> InHand(t) \/ t = n
    BY <1>1, <1>2 DEF InHand
  <2>3. Ticketed(t)' <=> Ticketed(t)
    BY DEF Ticketed
  <2> QED BY <2>1, <2>2, <2>3
<1>7. Issued' = Issued
  BY DEF Issued
<1>8. \A t \in Tasks : InFlight(t)' <=> InFlight(t)
  BY <1>4, <1>6 DEF InFlight
<1>9. Tracked' /\ ExactlyOnce'
  BY <1>7, <1>8 DEF IInv, Placed, Tracked, ExactlyOnce
<1>10. OnePlace'
  <2>1. \A v \in Workers : IsInjective(queues'[v])
    BY <1>2, <1>3 DEF IInv, Placed, OnePlace
  <2>2. ASSUME NEW u \in Workers, NEW v \in Workers, u # v
        PROVE  ToSet(queues'[u]) \cap ToSet(queues'[v]) = {}
    <3>1. ToSet(queues[u]) \cap ToSet(queues[v]) = {}
      BY <2>2 DEF IInv, Placed, OnePlace
    <3> QED BY <1>2, <1>3, <2>2, <3>1
  <2>3. ASSUME NEW u \in Workers, NEW v \in Workers, u # v, hand'[u] # NoTask
        PROVE  hand'[u] # hand'[v]
    <3>1. \A x \in Workers : hand[x] # n
      BY <1>4 DEF InHand
    <3> QED BY <1>2, <2>3, <3>1 DEF IInv, Placed, OnePlace
  <2>4. \A t \in Tasks : /\ ~(Ticketed(t) /\ Queued(t))'
                         /\ ~(Queued(t) /\ InHand(t))'
                         /\ ~(InHand(t) /\ Ticketed(t))'
    BY <1>4, <1>6 DEF IInv, Placed, OnePlace
  <2> QED BY <2>1, <2>2, <2>3, <2>4 DEF IInv, Placed, OnePlace
<1> QED BY <1>9, <1>10 DEF Placed

(* The end of a spawn's function takes it out of the scheduler and counts  *)
(* its one run.                                                            *)
LEMMA PlacedFinish ==
  ASSUME IInv, NEW w \in Workers, Finish(w)
  PROVE  Placed'
<1>0. PICK n \in Tasks : n = hand[w]
  BY DEF IInv, TypeOK, Finish, Control
<1>1. n = hand[w] /\ n # NoTask /\ NoTask \notin Tasks
  BY <1>0 DEF IInv, Finish, Control, Tasks, NoTask
<1>2. /\ hand'[w] = NoTask
      /\ \A v \in Workers : v # w => hand'[v] = hand[v]
      /\ runs'[n] = runs[n] + 1
      /\ \A t \in Tasks : t # n => runs'[t] = runs[t]
      /\ UNCHANGED <<issued, ticket, queues>>
  BY <1>1 DEF IInv, TypeOK, Finish, deal
<1>3. \A v \in Workers : v # w => hand[v] # n
  BY <1>1 DEF IInv, Placed, OnePlace
<1>4. InHand(n) /\ ~Ticketed(n) /\ ~Queued(n)
  <2>1. InHand(n)
    BY <1>1 DEF InHand
  <2> QED BY <1>1, <2>1 DEF IInv, Placed, OnePlace
<1>5. ASSUME NEW t \in Tasks
      PROVE  /\ Ticketed(t)' <=> Ticketed(t)
             /\ Queued(t)' <=> Queued(t)
             /\ InHand(t)' <=> InHand(t) /\ t # n
  <2>1. Ticketed(t)' <=> Ticketed(t)
    BY <1>2 DEF Ticketed
  <2>2. Queued(t)' <=> Queued(t)
    BY <1>2 DEF Queued
  <2>3. InHand(t)' <=> InHand(t) /\ t # n
    BY <1>1, <1>2, <1>3 DEF InHand
  <2> QED BY <2>1, <2>2, <2>3
<1>6. Issued' = Issued
  BY <1>2 DEF Issued
<1>7. Tracked'
  BY <1>5, <1>6 DEF IInv, Placed, Tracked, InFlight
<1>8. ExactlyOnce'
  <2>1. n \in Issued /\ runs[n] = 0
    BY <1>1, <1>4 DEF IInv, Placed, Tracked, ExactlyOnce, InFlight
  <2>2. runs'[n] = 1 /\ ~InFlight(n)'
    BY <1>1, <1>2, <1>4, <1>5, <2>1 DEF InFlight
  <2>3. \A t \in Tasks : t # n => (InFlight(t)' <=> InFlight(t))
    BY <1>5 DEF InFlight
  <2>4. ASSUME NEW t \in Tasks
        PROVE  runs'[t] = IF t \in Issued /\ ~InFlight(t)' THEN 1 ELSE 0
    <3>1. CASE t = n
      BY <2>1, <2>2, <3>1
    <3>2. CASE t # n
      BY <1>2, <2>3, <3>2 DEF IInv, Placed, ExactlyOnce
    <3> QED BY <3>1, <3>2
  <2> QED BY <1>6, <2>4 DEF ExactlyOnce
<1>9. OnePlace'
  <2>1. \A t \in Tasks : /\ ~(Ticketed(t) /\ Queued(t))'
                         /\ ~(Queued(t) /\ InHand(t))'
                         /\ ~(InHand(t) /\ Ticketed(t))'
    BY <1>5 DEF IInv, Placed, OnePlace
  <2>2. ASSUME NEW u \in Workers, NEW v \in Workers, u # v, hand'[u] # NoTask
        PROVE  hand'[u] # hand'[v]
    BY <1>2, <2>2 DEF IInv, Placed, OnePlace
  <2> QED BY <1>2, <2>1, <2>2 DEF IInv, Placed, OnePlace
<1> QED BY <1>7, <1>8, <1>9 DEF Placed

-----------------------------------------------------------------------------
LEMMA ControlNext == IInv /\ [Next]_vars => Control'
<1> SUFFICES ASSUME IInv, [Next]_vars PROVE Control'
  OBVIOUS
<1> USE SchedulerAssumption DEF boot, deal, work
<1>1. /\ TypeOK /\ Control
      /\ \A a \in Actors : a = Main \/ a \in Workers
      /\ Main \in Actors /\ Main \notin Workers /\ Workers \subseteq Actors
      /\ NoTask \notin Tasks /\ \A w \in Workers : w \in Int
  BY DEF IInv, Actors, Workers, Main, Tasks, NoTask
<1>2. CASE CreateWorker
  <2>1. /\ created \in Workers /\ joined = 0 /\ created' = created + 1
        /\ pc[created] = "unborn" /\ pc'[created] = "find"
        /\ \A w \in Workers : w # created => pc'[w] = pc[w]
        /\ UNCHANGED <<main, joined, ticket, hand>>
    BY <1>1, <1>2 DEF TypeOK, Control, CreateWorker, Workers
  <2> QED BY <1>1, <2>1 DEF TypeOK, Control
<1>3. CASE StoreHandle
  BY <1>1, <1>3 DEF Control, StoreHandle
<1>4. ASSUME NEW a \in Actors, TakeTicket(a) PROVE Control'
  BY <1>1, <1>4 DEF TypeOK, Control, TakeTicket, RunsProgram
<1>5. ASSUME NEW a \in Actors, Push(a) PROVE Control'
  BY <1>1, <1>5 DEF TypeOK, Control, Push
<1>6. ASSUME NEW w \in Workers, NEW l \in {"loop", "own", "steal", "exited"},
             Alive(w), pc[w] # "run", Goto(w, l), pc[w] # "exited",
             UNCHANGED <<main, created, joined, ticket, hand>>
      PROVE  Control'
  BY <1>1, <1>6 DEF TypeOK, Control, Goto, Alive
<1>7. ASSUME NEW w \in Workers, FindId(w) \/ Loop(w) \/ OwnEmpty(w) \/ StealEmpty(w)
      PROVE  Control'
  <2>1. /\ Alive(w) /\ pc[w] # "run" /\ pc[w] # "exited"
        /\ \E l \in {"loop", "own", "steal", "exited"} : Goto(w, l)
        /\ UNCHANGED <<main, created, joined, ticket, hand>>
    BY <1>7 DEF FindId, Loop, OwnEmpty, StealEmpty
  <2> QED BY <1>6, <2>1
<1>8. ASSUME NEW w \in Workers, PopOwn(w) \/ Steal(w) PROVE Control'
  <2>1. PICK q \in Workers : Pop(w, q)
    BY <1>8, VictimType, <1>1 DEF PopOwn, Steal, TypeOK
  <2>2. /\ Alive(w) /\ pc[w] # "run" /\ pc[w] # "exited"
        /\ UNCHANGED <<main, created, joined, ticket>>
    BY <1>8 DEF PopOwn, Steal, Alive
  <2>3. Head(queues[q]) \in Tasks
    <3>1. queues[q] \in Seq(Tasks) /\ queues[q] # <<>>
      BY <1>1, <2>1 DEF TypeOK, Pop
    <3> QED BY <3>1
  <2>4. /\ pc' = [pc EXCEPT ![w] = "run"]
        /\ hand'[w] # NoTask /\ \A v \in Workers : v # w => hand'[v] = hand[v]
    BY <1>1, <2>1, <2>3 DEF TypeOK, Pop, Goto
  <2> QED BY <1>1, <2>2, <2>4 DEF TypeOK, Control, Alive
<1>9. ASSUME NEW w \in Workers, Finish(w) PROVE Control'
  BY <1>1, <1>9 DEF TypeOK, Control, Finish, Goto
<1>10. CASE Shutdown
  BY <1>1, <1>10 DEF Control, Shutdown
<1>11. CASE JoinWorker
  <2>1. /\ pc[joined] = "exited" /\ joined' = joined + 1 /\ joined \in Int
        /\ main = "join" /\ UNCHANGED <<main, created, ticket, hand, pc>>
    BY <1>1, <1>11 DEF JoinWorker, Joinable, TypeOK
  <2>2. \A w \in Workers : w < joined' => pc'[w] = "exited"
    BY <1>1, <2>1 DEF Control
  <2> QED BY <1>1, <2>1, <2>2 DEF Control
<1>12. CASE FreeScheduler
  BY <1>1, <1>12 DEF Control, FreeScheduler
<1>13. CASE ExitProcess
  BY <1>1, <1>13 DEF Control, ExitProcess
<1>14. CASE UNCHANGED vars
  BY <1>1, <1>14 DEF Control, vars
<1> QED BY <1>2, <1>3, <1>4, <1>5, <1>7, <1>8, <1>9, <1>10, <1>11, <1>12, <1>13,
           <1>14 DEF Next, Starting, Stopping, Worker, Take

LEMMA PlacedNext == IInv /\ [Next]_vars => Placed'
<1> SUFFICES ASSUME IInv, [Next]_vars PROVE Placed'
  OBVIOUS
<1> USE DEF boot, deal, work
<1>1. CASE Starting
  BY <1>1, PlacedFrame DEF IInv, Starting, CreateWorker, StoreHandle
<1>2. CASE Stopping
  BY <1>2, PlacedFrame DEF IInv, Stopping, Shutdown, JoinWorker, FreeScheduler, ExitProcess
<1>3. ASSUME NEW a \in Actors, TakeTicket(a) \/ Push(a) PROVE Placed'
  BY <1>3, PlacedTakeTicket, PlacedPush
<1>4. ASSUME NEW w \in Workers, FindId(w) \/ Loop(w) \/ OwnEmpty(w) \/ StealEmpty(w)
      PROVE  Placed'
  BY <1>4, PlacedFrame DEF IInv, FindId, Loop, OwnEmpty, StealEmpty
<1>5. ASSUME NEW w \in Workers, PopOwn(w) \/ Steal(w) PROVE Placed'
  <2>1. /\ worker_id[w] \in Workers /\ Victim(w) \in Workers
        /\ pc[w] # "run" /\ UNCHANGED <<issued, ticket, runs>>
    BY <1>5, VictimType DEF IInv, TypeOK, PopOwn, Steal
  <2>2. CASE Pop(w, worker_id[w])
    BY <2>1, <2>2, PlacedPop
  <2>3. CASE Pop(w, Victim(w))
    BY <2>1, <2>3, PlacedPop
  <2> QED BY <1>5, <2>2, <2>3 DEF PopOwn, Steal
<1>6. ASSUME NEW w \in Workers, Finish(w) PROVE Placed'
  BY <1>6, PlacedFinish
<1>7. CASE UNCHANGED vars
  BY <1>7, PlacedFrame DEF IInv, vars
<1> QED BY <1>1, <1>2, <1>3, <1>4, <1>5, <1>6, <1>7 DEF Next, Worker, Take

-----------------------------------------------------------------------------
LEMMA InvNext == IInv /\ [Next]_vars => IInv'
BY TypeNext, ControlNext, PlacedNext DEF IInv

LEMMA Invariance == Spec => []IInv
BY InvInit, InvNext, PTL DEF Spec, SafeSpec

(* The variables of the scheduler keep their types.                        *)
THEOREM TypeCorrect == Spec => []TypeOK
<1>1. IInv => TypeOK
  BY DEF IInv
<1> QED BY <1>1, Invariance, PTL

(* Every spawn is in one place, and is run exactly once if the scheduler   *)
(* is given the time.                                                      *)
THEOREM ExactlyOnceCorrect == Spec => [](OnePlace /\ ExactlyOnce)
<1>1. IInv => OnePlace /\ ExactlyOnce
  BY DEF IInv, Placed
<1> QED BY <1>1, Invariance, PTL

(* Shutdown frees queues and locks that no thread will touch again.        *)
THEOREM QuietCorrect == Spec => []FreedWhenQuiet
<1>1. ASSUME IInv PROVE FreedWhenQuiet
  <2> SUFFICES ASSUME main = "freed" PROVE FreedWhenQuiet
    BY DEF FreedWhenQuiet
  <2>1. \A w \in Workers : pc[w] = "exited"
    BY <1>1, SchedulerAssumption DEF IInv, Control, Workers
  <2>2. \A w \in Workers : ticket[w] = NoTicket
    BY <1>1, <2>1 DEF IInv, Control
  <2>3. ticket[Main] = NoTicket
    BY <1>1 DEF IInv, Control
  <2> QED BY <2>1, <2>2, <2>3 DEF FreedWhenQuiet, Actors
<1> QED BY <1>1, Invariance, PTL
=============================================================================
