---------------------------- MODULE BoundedFifo ----------------------------
(***************************************************************************)
(* What a channel between spawns promises, whatever it is made of: a FIFO  *)
(* queue of at most Capacity values that can be closed.  A call is pending *)
(* from its invocation to its return and takes effect in one step between *)
(* the two.  A send to a closed queue drops its value; a receive from a   *)
(* closed queue drains it before it reports the end with NoValue.         *)
(***************************************************************************)
EXTENDS Naturals, Sequences

CONSTANTS
  Threads,   \* the threads that share the queue
  Values,    \* what they send through it
  Capacity,  \* how many values the queue holds
  NoValue    \* the answer of a receive that finds the end of the queue

VARIABLES
  queue,   \* the values sent and not yet received, oldest first
  closed,  \* whether the queue was closed
  call,    \* the call each thread is in, or Idle
  result   \* what the last receive of each thread returned

vars == <<queue, closed, call, result>>

Idle     == [op |-> "none",  value |-> NoValue]
Receive  == [op |-> "recv",  value |-> NoValue]
Shut     == [op |-> "close", value |-> NoValue]
Transmit == [op : {"send"}, value : Values]
Calls    == Transmit \cup {Receive, Shut}

Init ==
  /\ queue = <<>>
  /\ closed = FALSE
  /\ call = [t \in Threads |-> Idle]
  /\ result = [t \in Threads |-> NoValue]

Return(t) == call' = [call EXCEPT ![t] = Idle]

Invoke(t, c) ==
  /\ call[t] = Idle
  /\ call' = [call EXCEPT ![t] = c]
  /\ UNCHANGED <<queue, closed, result>>

Put(t) ==
  /\ call[t].op = "send"
  /\ ~closed
  /\ Len(queue) < Capacity
  /\ queue' = Append(queue, call[t].value)
  /\ Return(t)
  /\ UNCHANGED <<closed, result>>

Drop(t) ==
  /\ call[t].op = "send"
  /\ closed
  /\ Return(t)
  /\ UNCHANGED <<queue, closed, result>>

Take(t) ==
  /\ call[t] = Receive
  /\ queue # <<>>
  /\ queue' = Tail(queue)
  /\ result' = [result EXCEPT ![t] = Head(queue)]
  /\ Return(t)
  /\ UNCHANGED closed

End(t) ==
  /\ call[t] = Receive
  /\ queue = <<>>
  /\ closed
  /\ result' = [result EXCEPT ![t] = NoValue]
  /\ Return(t)
  /\ UNCHANGED <<queue, closed>>

Close(t) ==
  /\ call[t] = Shut
  /\ closed' = TRUE
  /\ Return(t)
  /\ UNCHANGED <<queue, result>>

Next ==
  \E t \in Threads :
    \/ \E c \in Calls : Invoke(t, c)
    \/ Put(t) \/ Drop(t) \/ Take(t) \/ End(t) \/ Close(t)

SafeSpec == Init /\ [][Next]_vars
=============================================================================
