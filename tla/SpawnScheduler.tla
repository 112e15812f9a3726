-------------------------- MODULE SpawnScheduler --------------------------
(***************************************************************************)
(* The work-stealing scheduler of src/spawn.c that runs the "spawn f()"    *)
(* statements of a compiled Wyn program: one LIFO queue and one lock per   *)
(* worker thread, spawns dealt to the queues in turn, idle workers         *)
(* stealing from the others.                                               *)
(*                                                                         *)
(* The main thread starts the workers on its first spawn.  It and every    *)
(* spawn that is running may spawn more.  The program either shuts the     *)
(* scheduler down or just returns from main, which kills the workers.      *)
(* A step is the code from taking a queue's lock to releasing it, or one   *)
(* access to a variable that no lock protects.  The node that alloc_spawn  *)
(* supplies for a spawn is the subject of SpawnPool.                       *)
(***************************************************************************)
EXTENDS Integers, Sequences, SequencesExt, FiniteSets

CONSTANTS
  N,          \* num_workers
  MaxSpawns,  \* bound: how many spawns the program makes
  IntMax      \* INT_MAX of the build, scaled down

ASSUME SchedulerAssumption ==
  /\ N \in Nat \ {0}
  /\ MaxSpawns \in Nat
  /\ IntMax \in Nat

Workers == 0 .. N - 1
Main    == N                 \* the main thread, next to the workers
Actors  == Workers \cup {Main}
Tasks   == 1 .. MaxSpawns    \* spawns, numbered in the order they are made
NoTask  == 0

VARIABLES
  main,         \* what the main thread is doing
  created,      \* how many workers pthread_create has started
  stored,       \* how many handles it has stored into workers[]
  joined,       \* how many workers shutdown has joined
  running,
  next_worker,  \* the ticket counter of wyn_scheduler_enqueue
  issued,       \* how many spawns were made
  ticket,       \* the spawn each thread is enqueuing, and for which queue
  queues,
  pc,           \* where each worker is in worker_thread
  worker_id,    \* the index each worker found for itself
  probe,        \* how far it is in its round of stealing
  hand,         \* the spawn it has taken from a queue
  runs          \* how often each spawn's function was run to its end

boot == <<main, created, stored, joined, running>>
deal == <<next_worker, issued, ticket>>
work == <<pc, worker_id, probe, hand, runs>>
vars == <<boot, deal, queues, work>>

NoTicket == [task |-> NoTask, target |-> 0]

(* wyn_scheduler_init, on the first wyn_spawn.                             *)
Init ==
  /\ main = "start" /\ created = 0 /\ stored = 0 /\ joined = 0
  /\ running = TRUE
  /\ next_worker = 0 /\ issued = 0
  /\ ticket = [a \in Actors |-> NoTicket]
  /\ queues = [w \in Workers |-> <<>>]
  /\ pc = [w \in Workers |-> "unborn"]
  /\ worker_id = [w \in Workers |-> 0]
  /\ probe = [w \in Workers |-> 0]
  /\ hand = [w \in Workers |-> NoTask]
  /\ runs = [t \in Tasks |-> 0]

-----------------------------------------------------------------------------
(* wyn_scheduler_start: the new thread may run before pthread_create has   *)
(* stored its handle, and the handle of worker i is stored before worker   *)
(* i + 1 is created.                                                       *)
CreateWorker ==
  /\ main = "start" /\ created = stored /\ created < N
  /\ created' = created + 1
  /\ pc' = [pc EXCEPT ![created] = "find"]
  /\ UNCHANGED <<main, stored, joined, running, deal, queues,
                 worker_id, probe, hand, runs>>

StoreHandle ==
  /\ main = "start" /\ stored < created
  /\ stored' = stored + 1
  /\ main' = IF stored' = N THEN "serve" ELSE "start"
  /\ UNCHANGED <<created, joined, running, deal, queues, work>>

(* A thread spawns while it runs the program's code: the main thread, or   *)
(* a worker inside a spawn's function.                                     *)
RunsProgram(a) == IF a = Main THEN main = "serve" ELSE pc[a] = "run"

(* int arithmetic: atomic_fetch_add wraps, % truncates towards zero.       *)
Wrapped(i)      == IF i > IntMax THEN i - 2 * (IntMax + 1) ELSE i
Remainder(a, b) == IF a >= 0 THEN a % b ELSE - ((-a) % b)

(* Round-robin assignment to workers.  After the wrap the counter is       *)
(* negative, and the index is negative or 0.                               *)
Dealt(ticket_no) == Remainder(ticket_no, N)

(* wyn_scheduler_enqueue up to the lock: the choice of a queue.            *)
TakeTicket(a) ==
  /\ main # "gone" /\ RunsProgram(a)
  /\ ticket[a] = NoTicket
  /\ issued < MaxSpawns
  /\ issued' = issued + 1
  /\ next_worker' = Wrapped(next_worker + 1)
  /\ ticket' = [ticket EXCEPT ![a] =
                 [task |-> issued + 1, target |-> Dealt(next_worker)]]
  /\ UNCHANGED <<boot, queues, work>>

(* Mutant: the rest of the queue is not linked behind the new head.        *)
PushedAlone(task, q) == <<task>>

(* The queue q with a new head.                                            *)
Pushed(task, q) == <<task>> \o queues[q]

(* ... and the push at the head of that queue, under its lock.  What an    *)
(* index outside locks[] and queues[] does is not defined, nor modelled.   *)
Push(a) ==
  /\ main # "gone"
  /\ ticket[a] # NoTicket
  /\ ticket[a].target \in Workers
  /\ queues' = [queues EXCEPT ![ticket[a].target] =
                   Pushed(ticket[a].task, ticket[a].target)]
  /\ ticket' = [ticket EXCEPT ![a] = NoTicket]
  /\ UNCHANGED <<boot, next_worker, issued, work>>

-----------------------------------------------------------------------------
(* A worker runs from its creation until it exits or the process does.     *)
Alive(w) == main # "gone" /\ pc[w] \notin {"unborn", "exited"}

Goto(w, label) == pc' = [pc EXCEPT ![w] = label]

(* Mutant: an index of its own for a handle that is not found.             *)
FoundOrMinusOne(w) == IF w < stored THEN w ELSE -1

(* worker_thread looks its handle up in workers[]: a handle that is not    *)
(* stored yet is not found, and the index stays 0.                         *)
Found(w) == IF w < stored THEN w ELSE 0

FindId(w) ==
  /\ Alive(w) /\ pc[w] = "find"
  /\ worker_id' = [worker_id EXCEPT ![w] = Found(w)]
  /\ Goto(w, "loop")
  /\ UNCHANGED <<boot, deal, queues, probe, hand, runs>>

(* Mutant: the flag is read once, before the loop.                         *)
LoopForever(w) ==
  /\ Alive(w) /\ pc[w] = "loop"
  /\ Goto(w, "own")
  /\ UNCHANGED <<boot, deal, queues, worker_id, probe, hand, runs>>

(* while (sched->running): running is read without a lock.                 *)
Loop(w) ==
  /\ Alive(w) /\ pc[w] = "loop"
  /\ Goto(w, IF running THEN "own" ELSE "exited")
  /\ UNCHANGED <<boot, deal, queues, worker_id, probe, hand, runs>>

(* Takes the head of queue q.                                              *)
Pop(w, q) ==
  /\ queues[q] # <<>>
  /\ hand' = [hand EXCEPT ![w] = Head(queues[q])]
  /\ queues' = [queues EXCEPT ![q] = Tail(@)]
  /\ Goto(w, "run")

PopOwn(w) ==
  /\ Alive(w) /\ pc[w] = "own"
  /\ Pop(w, worker_id[w])
  /\ UNCHANGED <<boot, deal, worker_id, probe, runs>>

(* The own queue is empty: a round over the others, or the backoff.        *)
OwnEmpty(w) ==
  /\ Alive(w) /\ pc[w] = "own"
  /\ queues[worker_id[w]] = <<>>
  /\ probe' = [probe EXCEPT ![w] = 1]
  /\ Goto(w, IF N > 1 THEN "steal" ELSE "loop")
  /\ UNCHANGED <<boot, deal, queues, worker_id, hand, runs>>

(* Mutant: the round stays at the own queue.                               *)
VictimSelf(w) == worker_id[w]

(* The queue a round of stealing has got to.                               *)
Victim(w) == (worker_id[w] + probe[w]) % N

Steal(w) ==
  /\ Alive(w) /\ pc[w] = "steal"
  /\ Pop(w, Victim(w))
  /\ UNCHANGED <<boot, deal, worker_id, probe, runs>>

(* Nothing to steal there: the next queue, or the backoff after the last.  *)
StealEmpty(w) ==
  /\ Alive(w) /\ pc[w] = "steal"
  /\ queues[Victim(w)] = <<>>
  /\ probe' = [probe EXCEPT ![w] = @ + 1]
  /\ Goto(w, IF probe[w] + 1 < N THEN "steal" ELSE "loop")
  /\ UNCHANGED <<boot, deal, queues, worker_id, hand, runs>>

(* The spawn's function returns and its node goes back to the pool.        *)
Finish(w) ==
  /\ Alive(w) /\ pc[w] = "run"
  /\ ticket[w] = NoTicket
  /\ runs' = [runs EXCEPT ![hand[w]] = @ + 1]
  /\ hand' = [hand EXCEPT ![w] = NoTask]
  /\ Goto(w, "loop")
  /\ UNCHANGED <<boot, deal, queues, worker_id, probe>>

-----------------------------------------------------------------------------
(* wyn_scheduler_shutdown                                                  *)
Shutdown ==
  /\ main = "serve" /\ ticket[Main] = NoTicket
  /\ running' = FALSE
  /\ main' = "join"
  /\ UNCHANGED <<created, stored, joined, deal, queues, work>>

(* Mutant: shutdown does not wait for a worker that is idle.               *)
JoinableIdle(w) == pc[w] # "run"

(* pthread_join returns.                                                   *)
Joinable(w) == pc[w] = "exited"

JoinWorker ==
  /\ main = "join" /\ joined < N
  /\ Joinable(joined)
  /\ joined' = joined + 1
  /\ UNCHANGED <<main, created, stored, running, deal, queues, work>>

(* The locks and the queues are destroyed and freed.                       *)
FreeScheduler ==
  /\ main = "join" /\ joined = N
  /\ main' = "freed"
  /\ UNCHANGED <<created, stored, joined, running, deal, queues, work>>

(* main returns without a shutdown, as the code generated for a program    *)
(* does: the process ends and the workers with it.                         *)
ExitProcess ==
  /\ main = "serve" /\ ticket[Main] = NoTicket
  /\ main' = "gone"
  /\ UNCHANGED <<created, stored, joined, running, deal, queues, work>>

Take(w)   == PopOwn(w) \/ OwnEmpty(w) \/ Steal(w) \/ StealEmpty(w)
Worker(w) == FindId(w) \/ Loop(w) \/ Take(w) \/ Finish(w)
Starting  == CreateWorker \/ StoreHandle
Stopping  == Shutdown \/ JoinWorker \/ FreeScheduler \/ ExitProcess

Next ==
  \/ Starting \/ Stopping
  \/ \E a \in Actors : TakeTicket(a) \/ Push(a)
  \/ \E w \in Workers : Worker(w)

(* Every thread that can run does, and the function of a spawn returns.    *)
(* Whether and when the program spawns, shuts down or exits is its choice. *)
Fairness ==
  /\ WF_vars(Starting) /\ WF_vars(JoinWorker \/ FreeScheduler)
  /\ \A a \in Actors : WF_vars(Push(a))
  /\ \A w \in Workers : WF_vars(Worker(w))

SafeSpec == Init /\ [][Next]_vars
Spec     == SafeSpec /\ Fairness

-----------------------------------------------------------------------------
(* The variables stay in their ranges, and a round of stealing never gets  *)
(* to the own queue or round a second time.                                *)
TypeOK ==
  /\ main \in {"start", "serve", "join", "freed", "gone"}
  /\ created \in 0 .. N /\ stored \in 0 .. N /\ joined \in 0 .. N
  /\ running \in BOOLEAN
  /\ next_worker \in -(IntMax + 1) .. IntMax
  /\ issued \in 0 .. MaxSpawns
  /\ ticket \in [Actors -> [task : Tasks, target : Int] \cup {NoTicket}]
  /\ queues \in [Workers -> Seq(Tasks)]
  /\ pc \in [Workers -> {"unborn", "find", "loop", "own", "steal", "run", "exited"}]
  /\ worker_id \in [Workers -> Workers]
  /\ probe \in [Workers -> 0 .. N]
  /\ \A w \in Workers : pc[w] = "steal" => probe[w] \in 1 .. N - 1
  /\ hand \in [Workers -> Tasks \cup {NoTask}]
  /\ runs \in [Tasks -> Nat]

Issued == 1 .. issued

(* Where a spawn can be between its ticket and its end: with the thread    *)
(* that enqueues it, in a queue, or with the worker that runs it.          *)
Ticketed(t) == \E a \in Actors : ticket[a].task = t
Queued(t)   == \E w \in Workers : t \in ToSet(queues[w])
InHand(t)   == \E w \in Workers : hand[w] = t
InFlight(t) == Ticketed(t) \/ Queued(t) \/ InHand(t)

(* A spawn is in one place only, however pushes, pops and steals           *)
(* interleave: no queue holds it twice, no two queues hold it, no worker   *)
(* has it while a queue or another worker does.                            *)
OnePlace ==
  /\ \A a, b \in Actors : a # b /\ ticket[a] # NoTicket => ticket[a].task # ticket[b].task
  /\ \A w \in Workers : IsInjective(queues[w])
  /\ \A v, w \in Workers : v # w => ToSet(queues[v]) \cap ToSet(queues[w]) = {}
  /\ \A v, w \in Workers : v # w /\ hand[v] # NoTask => hand[v] # hand[w]
  /\ \A t \in Tasks : ~(Ticketed(t) /\ Queued(t))
  /\ \A t \in Tasks : ~(Queued(t) /\ InHand(t))
  /\ \A t \in Tasks : ~(InHand(t) /\ Ticketed(t))

(* A spawn's function is run to its end exactly once: never while the      *)
(* spawn is still on its way, and once it no longer is, it has been.       *)
(* Nothing is lost or run twice by stealing, by two workers that took the  *)
(* same index, or by a shutdown.                                           *)
ExactlyOnce ==
  \A t \in Tasks : runs[t] = IF t \in Issued /\ ~InFlight(t) THEN 1 ELSE 0

(* When shutdown frees the queues and locks no thread is left that could   *)
(* touch them, not even a spawn that was spawning when shutdown began.     *)
FreedWhenQuiet ==
  main = "freed" =>
    /\ \A w \in Workers : pc[w] = "exited"
    /\ \A a \in Actors : ticket[a] = NoTicket

(* A program that has returned from main has run all it spawned, as        *)
(* examples/test_spawn_memory.wyn:24 expects of the counter it prints      *)
(* ("Expected: 1000") after its loop of spawns.  Nothing waits for them:   *)
(* the code does not have this property.                                   *)
AllRunAtExit == main = "gone" => \A t \in Issued : runs[t] = 1

(* As long as the scheduler runs, every spawn is eventually run, whichever *)
(* queue it is in and even if no worker considers that queue its own.      *)
EveryTaskRuns ==
  \A t \in Tasks : (t \in Issued) ~> (runs[t] = 1 \/ main \in {"join", "freed", "gone"})

(* Shutdown ends: no worker stays in its loop once running is cleared.     *)
ShutdownCompletes == (main = "join") ~> (main = "freed")
=============================================================================
