---------------------------- MODULE TaskChannel ----------------------------
(***************************************************************************)
(* WynTask of src/spawn.c: the channel that spawns use to communicate, a   *)
(* ring buffer under one mutex with two condition variables.               *)
(*                                                                         *)
(* A thread that is in a call either contends for the mutex or sleeps in   *)
(* pthread_cond_wait.  What it does from taking the mutex to releasing it  *)
(* or to going to sleep is one step, since every access to the task is     *)
(* made under the mutex.  A signalled thread contends for the mutex again, *)
(* against threads that have just called, and re-evaluates its condition.  *)
(***************************************************************************)
EXTENDS Integers, Sequences, FiniteSets

CONSTANTS
  Threads,   \* the threads that share the task
  Values,    \* the pointers they send
  Capacity,  \* the capacity given to wyn_task_new
  NoValue    \* the NULL that recv returns at the end

ASSUME ChannelAssumption ==
  /\ IsFiniteSet(Threads)
  /\ Capacity \in Nat
  /\ NoValue \notin Values

VARIABLES
  buffer,     \* the slots; NoValue stands for what malloc left in one
  size,
  read_pos,
  write_pos,
  closed,
  not_full,   \* the threads asleep on the condition variable of this name
  not_empty,  \* likewise
  call,       \* the call each thread is in, or Idle
  result      \* what the last recv of each thread returned

ring  == <<buffer, size, read_pos, write_pos>>
vars  == <<ring, closed, not_full, not_empty, call, result>>

Slots == 0 .. Capacity - 1

Idle     == [op |-> "none",  value |-> NoValue]
Receive  == [op |-> "recv",  value |-> NoValue]
Shut     == [op |-> "close", value |-> NoValue]
Transmit == [op : {"send"}, value : Values]
Calls    == Transmit \cup {Receive, Shut}

(* The state wyn_task_new leaves, with no thread in a call. *)
Init ==
  /\ buffer = [i \in Slots |-> NoValue]
  /\ size = 0 /\ read_pos = 0 /\ write_pos = 0
  /\ closed = FALSE
  /\ not_full = {} /\ not_empty = {}
  /\ call = [t \in Threads |-> Idle]
  /\ result = [t \in Threads |-> NoValue]

-----------------------------------------------------------------------------
(* t, in a call of kind op, takes the mutex. *)
Enters(t, op) == call[t].op = op /\ t \notin not_full \cup not_empty

Return(t) == call' = [call EXCEPT ![t] = Idle]

(* Mutant: only the first value and the first free slot are signalled.     *)
SignalledAtEdge(sleepers) ==
  IF sleepers = {} \/ size \in 1 .. Capacity - 1
  THEN {sleepers} ELSE {sleepers \ {u} : u \in sleepers}

(* pthread_cond_signal: one sleeper, if there is any, contends again. *)
Signalled(sleepers) ==
  IF sleepers = {} THEN {{}} ELSE {sleepers \ {u} : u \in sleepers}

(* pthread_cond_broadcast: every sleeper does. *)
Broadcast(sleepers) == {{}}

(* Mutants: the position does not go round; it does not move.              *)
AdvancedOut(pos)   == pos + 1
AdvancedStuck(pos) == pos

(* The next position in the ring. *)
Advanced(pos) == (pos + 1) % Capacity

(* A thread that is in no call makes one. *)
Invoke(t, c) ==
  /\ call[t] = Idle
  /\ call' = [call EXCEPT ![t] = c]
  /\ UNCHANGED <<ring, closed, not_full, not_empty, result>>

(* wyn_task_send *)
SendWait(t) ==
  /\ Enters(t, "send")
  /\ size = Capacity /\ ~closed
  /\ not_full' = not_full \cup {t}
  /\ UNCHANGED <<ring, closed, not_empty, call, result>>

SendDropped(t) ==
  /\ Enters(t, "send")
  /\ closed
  /\ Return(t)
  /\ UNCHANGED <<ring, closed, not_full, not_empty, result>>

SendStore(t) ==
  /\ Enters(t, "send")
  /\ size # Capacity /\ ~closed
  /\ buffer' = [buffer EXCEPT ![write_pos] = call[t].value]
  /\ write_pos' = Advanced(write_pos)
  /\ size' = size + 1
  /\ not_empty' \in Signalled(not_empty)
  /\ Return(t)
  /\ UNCHANGED <<read_pos, closed, not_full, result>>

(* wyn_task_recv *)
RecvWait(t) ==
  /\ Enters(t, "recv")
  /\ size = 0 /\ ~closed
  /\ not_empty' = not_empty \cup {t}
  /\ UNCHANGED <<ring, closed, not_full, call, result>>

(* Mutant: a closed channel is not drained.                                *)
RecvEndAtClose(t) ==
  /\ Enters(t, "recv")
  /\ closed
  /\ result' = [result EXCEPT ![t] = NoValue]
  /\ Return(t)
  /\ UNCHANGED <<ring, closed, not_full, not_empty>>

RecvEnd(t) ==
  /\ Enters(t, "recv")
  /\ size = 0 /\ closed
  /\ result' = [result EXCEPT ![t] = NoValue]
  /\ Return(t)
  /\ UNCHANGED <<ring, closed, not_full, not_empty>>

RecvTake(t) ==
  /\ Enters(t, "recv")
  /\ size # 0
  /\ result' = [result EXCEPT ![t] = buffer[read_pos]]
  /\ read_pos' = Advanced(read_pos)
  /\ size' = size - 1
  /\ not_full' \in Signalled(not_full)
  /\ Return(t)
  /\ UNCHANGED <<buffer, write_pos, closed, not_empty>>

(* wyn_task_close *)
Close(t) ==
  /\ Enters(t, "close")
  /\ closed' = TRUE
  /\ not_empty' \in Broadcast(not_empty)
  /\ not_full' \in Broadcast(not_full)
  /\ Return(t)
  /\ UNCHANGED <<ring, result>>

(* POSIX lets pthread_cond_wait return without a signal, and lets one      *)
(* signal wake several sleepers.                                           *)
SpuriousWakeup(t) ==
  /\ t \in not_full \cup not_empty
  /\ not_full' = not_full \ {t}
  /\ not_empty' = not_empty \ {t}
  /\ UNCHANGED <<ring, closed, call, result>>

Send(t) == SendWait(t) \/ SendDropped(t) \/ SendStore(t)
Recv(t) == RecvWait(t) \/ RecvEnd(t) \/ RecvTake(t)

(* The critical section of the call t is in. *)
Proceed(t) == Send(t) \/ Recv(t) \/ Close(t)

Next ==
  \E t \in Threads :
    \/ \E c \in Calls : Invoke(t, c)
    \/ Proceed(t)
    \/ SpuriousWakeup(t)

(* A thread that contends for the mutex gets it sooner or later: the       *)
(* critical sections are short and none of them blocks.  Nothing obliges a *)
(* thread to call, or a sleeper to wake without a signal.                  *)
Fairness == \A t \in Threads : WF_vars(Proceed(t))

SafeSpec == Init /\ [][Next]_vars
Spec     == SafeSpec /\ Fairness

-----------------------------------------------------------------------------
(* The variables stay in their ranges: in particular the positions stay in *)
(* the buffer and size between 0 and the capacity.                         *)
TypeOK ==
  /\ buffer \in [Slots -> Values \cup {NoValue}]
  /\ size \in 0 .. Capacity
  /\ read_pos \in Slots \cup {0}
  /\ write_pos \in Slots \cup {0}
  /\ closed \in BOOLEAN
  /\ not_full \subseteq Threads
  /\ not_empty \subseteq Threads
  /\ call \in [Threads -> Calls \cup {Idle}]
  /\ result \in [Threads -> Values \cup {NoValue}]

(* The slot i places after read_pos, going round the ring. *)
Slot(i) == IF read_pos + i < Capacity THEN read_pos + i ELSE read_pos + i - Capacity

(* The three counters agree although send moves one position, recv the     *)
(* other and both move size: write_pos is size places after read_pos, and  *)
(* every slot in between holds a value some send stored there.             *)
RingConsistent ==
  /\ Capacity > 0 => write_pos = Slot(size)
  /\ \A i \in 0 .. size - 1 : buffer[Slot(i)] \in Values

(* Senders sleep on not_full, receivers on not_empty, and nobody sleeps on *)
(* a closed channel: close wakes everybody and nobody goes back to sleep.  *)
SleepersWait ==
  /\ \A t \in not_full : call[t].op = "send"
  /\ \A t \in not_empty : call[t].op = "recv"
  /\ closed => not_full = {} /\ not_empty = {}

Contending(op) == {t \in Threads : Enters(t, op)}

(* One signal per send and per recv is enough, although a late caller may  *)
(* overtake the thread a signal woke: while a receiver sleeps, at least as *)
(* many receivers are on their way to the mutex as there are values, and   *)
(* while a sender sleeps, as many senders as there are free slots.         *)
NoLostWakeup ==
  /\ not_empty # {} => Cardinality(Contending("recv")) >= size
  /\ not_full # {} => Cardinality(Contending("send")) >= Capacity - size

-----------------------------------------------------------------------------
(* The channel implements the bounded FIFO queue: values come out in the   *)
(* order they went in, each one once, none of them invented, none lost but *)
(* those sent to a closed channel.                                         *)
Contents == [i \in 1 .. size |-> buffer[Slot(i - 1)]]

Fifo == INSTANCE BoundedFifo WITH queue <- Contents

ImplementsFifo == Fifo!SafeSpec

Calling(t, op) == call[t].op = op

(* A receiver that finds a value waiting is not left asleep: it returns,   *)
(* unless the other receivers keep the channel empty.                      *)
ReceiverServed ==
  \A t \in Threads :
    (Calling(t, "recv") /\ size > 0) ~> (~Calling(t, "recv") \/ size = 0)

(* Likewise a sender when there is room.                                   *)
SenderServed ==
  \A t \in Threads :
    (Calling(t, "send") /\ size < Capacity)
      ~> (~Calling(t, "send") \/ size = Capacity)

(* Once the channel is closed every call returns, whatever it waited for.  *)
CloseReleases ==
  \A t \in Threads : (closed /\ call[t] # Idle) ~> (call[t] = Idle)
=============================================================================
