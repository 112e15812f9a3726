------------------------- MODULE TaskChannelProofs -------------------------
(***************************************************************************)
(* The invariants of TaskChannel for every number of threads, every        *)
(* capacity (0 included) and every set of values.                          *)
(***************************************************************************)
EXTENDS TaskChannel, FiniteSetTheorems, TLAPS

(* The arithmetic of the ring, the only place where % is reasoned about.   *)
LEMMA AdvancedWraps ==
  ASSUME NEW p \in Slots
  PROVE  Advanced(p) = IF p + 1 < Capacity THEN p + 1 ELSE 0
<1>1. Capacity \in Nat /\ Capacity > 0 /\ p \in 0 .. Capacity - 1
  BY ChannelAssumption DEF Slots
<1>2. CASE p + 1 < Capacity
  <2>1. (p + 1) % Capacity = p + 1
    BY <1>1, <1>2
  <2> QED BY <2>1, <1>2 DEF Advanced
<1>3. CASE p + 1 = Capacity
  <2>1. (p + 1) % Capacity = 0
    BY <1>1, <1>3
  <2> QED BY <1>1, <2>1, <1>3 DEF Advanced
<1> QED BY <1>1, <1>2, <1>3

(* A thread that is in a send holds a value, whatever else it does.        *)
LEMMA CallKinds ==
  ASSUME TypeOK, NEW t \in Threads
  PROVE  /\ call[t].op = "send" => call[t] \in Transmit /\ call[t].value \in Values
         /\ call[t].op = "recv" => call[t] = Receive
         /\ call[t].op = "close" => call[t] = Shut
         /\ Idle.op = "none"
BY DEF TypeOK, Calls, Idle, Receive, Shut, Transmit

-----------------------------------------------------------------------------
LEMMA TypeInit == Init => TypeOK
<1> SUFFICES ASSUME Init PROVE TypeOK
  OBVIOUS
<1>1. size \in 0 .. Capacity /\ read_pos \in Slots \cup {0} /\ write_pos \in Slots \cup {0}
  BY ChannelAssumption DEF Init
<1>2. call \in [Threads -> Calls \cup {Idle}]
  BY DEF Init
<1>3. closed \in BOOLEAN /\ not_full \subseteq Threads /\ not_empty \subseteq Threads
  BY DEF Init
<1> QED BY <1>1, <1>2, <1>3 DEF Init, TypeOK

LEMMA TypeNext == TypeOK /\ [Next]_vars => TypeOK'
<1> SUFFICES ASSUME TypeOK, [Next]_vars PROVE TypeOK'
  OBVIOUS
<1> USE ChannelAssumption
<1>1. ASSUME NEW t \in Threads, NEW c \in Calls, Invoke(t, c) PROVE TypeOK'
  BY <1>1 DEF TypeOK, Invoke, ring
<1>2. ASSUME NEW t \in Threads, SendWait(t) PROVE TypeOK'
  BY <1>2 DEF TypeOK, SendWait, ring
<1>3. ASSUME NEW t \in Threads, SendDropped(t) PROVE TypeOK'
  BY <1>3 DEF TypeOK, SendDropped, Return, ring
<1>4. ASSUME NEW t \in Threads, SendStore(t) PROVE TypeOK'
  <2>1. write_pos \in Slots /\ Advanced(write_pos) \in Slots
    BY <1>4, AdvancedWraps DEF TypeOK, SendStore, Slots
  <2>2. buffer' \in [Slots -> Values \cup {NoValue}]
    BY <1>4, CallKinds DEF TypeOK, SendStore, Enters
  <2>3. not_empty' \subseteq Threads
    BY <1>4 DEF TypeOK, SendStore, Signalled
  <2> QED BY <1>4, <2>1, <2>2, <2>3 DEF TypeOK, SendStore, Return
<1>5. ASSUME NEW t \in Threads, RecvWait(t) PROVE TypeOK'
  BY <1>5 DEF TypeOK, RecvWait, ring
<1>6. ASSUME NEW t \in Threads, RecvEnd(t) PROVE TypeOK'
  BY <1>6 DEF TypeOK, RecvEnd, Return, ring
<1>7. ASSUME NEW t \in Threads, RecvTake(t) PROVE TypeOK'
  <2>1. read_pos \in Slots /\ Advanced(read_pos) \in Slots
    BY <1>7, AdvancedWraps DEF TypeOK, RecvTake, Slots
  <2>2. not_full' \subseteq Threads
    BY <1>7 DEF TypeOK, RecvTake, Signalled
  <2>3. result' \in [Threads -> Values \cup {NoValue}]
    BY <1>7, <2>1 DEF TypeOK, RecvTake
  <2> QED BY <1>7, <2>1, <2>2, <2>3 DEF TypeOK, RecvTake, Return
<1>8. ASSUME NEW t \in Threads, Close(t) PROVE TypeOK'
  BY <1>8 DEF TypeOK, Close, Return, Broadcast, ring
<1>9. ASSUME NEW t \in Threads, SpuriousWakeup(t) PROVE TypeOK'
  BY <1>9 DEF TypeOK, SpuriousWakeup, ring
<1>10. CASE UNCHANGED vars
  BY <1>10 DEF TypeOK, vars, ring
<1> QED BY <1>1, <1>2, <1>3, <1>4, <1>5, <1>6, <1>7, <1>8, <1>9, <1>10
        DEF Next, Proceed, Send, Recv

-----------------------------------------------------------------------------
(* The slots between read_pos and write_pos are distinct, and one step of  *)
(* recv renumbers them.                                                    *)
LEMMA SlotFacts ==
  ASSUME TypeOK
  PROVE  /\ \A i \in 0 .. Capacity - 1 : Slot(i) \in Slots
         /\ \A i, j \in 0 .. Capacity - 1 : i # j => Slot(i) # Slot(j)
         /\ \A i \in 0 .. Capacity - 1 : Advanced(Slot(i)) = Slot(i + 1)
         /\ Slot(0) = read_pos
<1> USE ChannelAssumption
<1>1. \A i \in 0 .. Capacity - 1 : Slot(i) \in Slots
  BY DEF TypeOK, Slot, Slots
<1>2. \A i, j \in 0 .. Capacity - 1 : i # j => Slot(i) # Slot(j)
  BY DEF TypeOK, Slot, Slots
<1>3. ASSUME NEW i \in 0 .. Capacity - 1 PROVE Advanced(Slot(i)) = Slot(i + 1)
  <2>1. Advanced(Slot(i)) = IF Slot(i) + 1 < Capacity THEN Slot(i) + 1 ELSE 0
    BY <1>1, AdvancedWraps
  <2> QED BY <2>1, <1>1 DEF TypeOK, Slot, Slots
<1>4. Slot(0) = read_pos
  BY DEF TypeOK, Slot, Slots
<1> QED BY <1>1, <1>2, <1>3, <1>4

LEMMA RingNext ==
  TypeOK /\ RingConsistent /\ [Next]_vars => RingConsistent'
<1> SUFFICES ASSUME TypeOK, RingConsistent, [Next]_vars PROVE RingConsistent'
  OBVIOUS
<1> USE ChannelAssumption
<1>1. ASSUME NEW t \in Threads, SendStore(t) PROVE RingConsistent'
  <2>1. size \in 0 .. Capacity - 1 /\ size' = size + 1 /\ Capacity > 0
    BY <1>1 DEF SendStore, TypeOK
  <2>2. write_pos = Slot(size) /\ write_pos' = Advanced(write_pos)
    BY <1>1, <2>1 DEF SendStore, RingConsistent
  <2>3. \A i \in Int : Slot(i)' = Slot(i)
    BY <1>1 DEF SendStore, Slot
  <2>4. write_pos' = Slot(size)'
    <3>1. Slot(size)' = Slot(size + 1)
      BY <1>1, <2>1 DEF SendStore, Slot
    <3>2. Advanced(Slot(size)) = Slot(size + 1)
      BY <2>1, SlotFacts
    <3> QED BY <2>2, <3>1, <3>2
  <2>5. ASSUME NEW i \in 0 .. size PROVE buffer'[Slot(i)] \in Values
    <3>1. call[t].value \in Values
      BY <1>1, CallKinds DEF SendStore, Enters
    <3>2. buffer' = [buffer EXCEPT ![Slot(size)] = call[t].value]
      BY <1>1, <2>2 DEF SendStore
    <3>3. Slot(i) \in Slots /\ Slot(size) \in Slots
      BY <2>1, SlotFacts DEF TypeOK
    <3>4. CASE i = size
      BY <3>1, <3>2, <3>3, <3>4 DEF TypeOK
    <3>5. CASE i # size
      <4>1. i \in 0 .. size - 1 /\ i \in 0 .. Capacity - 1
        BY <2>1, <3>5
      <4>2. Slot(i) # Slot(size)
        BY <2>1, <3>5, <4>1, SlotFacts
      <4>3. buffer[Slot(i)] \in Values
        BY <4>1 DEF RingConsistent
      <4> QED BY <3>2, <3>3, <4>2, <4>3 DEF TypeOK
    <3> QED BY <3>4, <3>5
  <2>6. \A i \in 0 .. size' - 1 : buffer'[Slot(i)'] \in Values
    BY <2>1, <2>3, <2>5
  <2> QED BY <2>4, <2>6 DEF RingConsistent
<1>2. ASSUME NEW t \in Threads, RecvTake(t) PROVE RingConsistent'
  <2>1. size \in 1 .. Capacity /\ size' = size - 1 /\ Capacity > 0
    BY <1>2 DEF RecvTake, TypeOK
  <2>2. read_pos \in Slots /\ read_pos' = Advanced(read_pos)
    BY <1>2, <2>1 DEF RecvTake, TypeOK, Slots
  <2>3. read_pos' = IF read_pos + 1 < Capacity THEN read_pos + 1 ELSE 0
    BY <2>2, AdvancedWraps
  <2>4. ASSUME NEW i \in 0 .. Capacity - 1 PROVE Slot(i)' = Slot(i + 1)
    BY <2>1, <2>2, <2>3 DEF Slot, Slots
  <2>5. Slot(size)' = Slot(size)
    BY <2>1, <2>2, <2>3 DEF Slot, Slots
  <2>6. write_pos' = Slot(size)'
    BY <1>2, <2>1, <2>5 DEF RecvTake, RingConsistent
  <2>7. \A i \in 0 .. size' - 1 : buffer'[Slot(i)'] \in Values
    BY <1>2, <2>1, <2>4 DEF RecvTake, RingConsistent
  <2> QED BY <2>6, <2>7 DEF RingConsistent
<1>3. CASE UNCHANGED ring
  BY <1>3 DEF RingConsistent, Slot, ring
<1>4. ASSUME NEW t \in Threads, ~SendStore(t), ~RecvTake(t),
             \/ \E c \in Calls : Invoke(t, c)
             \/ Proceed(t)
             \/ SpuriousWakeup(t)
      PROVE UNCHANGED ring
  BY <1>4 DEF Proceed, Send, Recv, Invoke, SendWait, SendDropped, RecvWait,
              RecvEnd, Close, SpuriousWakeup
<1>5. UNCHANGED vars => UNCHANGED ring
  BY DEF vars
<1> QED BY <1>1, <1>2, <1>3, <1>4, <1>5 DEF Next

LEMMA SleepersNext ==
  TypeOK /\ SleepersWait /\ [Next]_vars => SleepersWait'
<1> SUFFICES ASSUME TypeOK, SleepersWait, [Next]_vars PROVE SleepersWait'
  OBVIOUS
<1>1. ASSUME NEW t \in Threads, NEW c \in Calls, Invoke(t, c) PROVE SleepersWait'
  BY <1>1, CallKinds DEF TypeOK, SleepersWait, Invoke
<1>2. ASSUME NEW t \in Threads, SendWait(t) PROVE SleepersWait'
  BY <1>2 DEF TypeOK, SleepersWait, SendWait, Enters
<1>3. ASSUME NEW t \in Threads, SendDropped(t) PROVE SleepersWait'
  BY <1>3 DEF TypeOK, SleepersWait, SendDropped, Enters, Return
<1>4. ASSUME NEW t \in Threads, SendStore(t) PROVE SleepersWait'
  BY <1>4 DEF TypeOK, SleepersWait, SendStore, Enters, Return, Signalled
<1>5. ASSUME NEW t \in Threads, RecvWait(t) PROVE SleepersWait'
  BY <1>5 DEF TypeOK, SleepersWait, RecvWait, Enters
<1>6. ASSUME NEW t \in Threads, RecvEnd(t) PROVE SleepersWait'
  BY <1>6 DEF TypeOK, SleepersWait, RecvEnd, Enters, Return
<1>7. ASSUME NEW t \in Threads, RecvTake(t) PROVE SleepersWait'
  BY <1>7 DEF TypeOK, SleepersWait, RecvTake, Enters, Return, Signalled
<1>8. ASSUME NEW t \in Threads, Close(t) PROVE SleepersWait'
  BY <1>8 DEF TypeOK, SleepersWait, Close, Return, Broadcast
<1>9. ASSUME NEW t \in Threads, SpuriousWakeup(t) PROVE SleepersWait'
  BY <1>9 DEF TypeOK, SleepersWait, SpuriousWakeup
<1>10. CASE UNCHANGED vars
  BY <1>10 DEF SleepersWait, vars
<1> QED BY <1>1, <1>2, <1>3, <1>4, <1>5, <1>6, <1>7, <1>8, <1>9, <1>10
        DEF Next, Proceed, Send, Recv

-----------------------------------------------------------------------------
LEMMA ContendingFinite ==
  ASSUME NEW op
  PROVE  /\ IsFiniteSet(Contending(op)) /\ Cardinality(Contending(op)) \in Nat
         /\ IsFiniteSet(Contending(op)') /\ Cardinality(Contending(op)') \in Nat
<1>1. Contending(op) \subseteq Threads /\ Contending(op)' \subseteq Threads
  BY DEF Contending
<1>2. IsFiniteSet(Contending(op)) /\ IsFiniteSet(Contending(op)')
  BY <1>1, ChannelAssumption, FS_Subset
<1> QED BY <1>2, FS_CardinalityType

(* The same threads or more contend after a step.                          *)
LEMMA ContendingGrows ==
  ASSUME NEW op, Contending(op) \subseteq Contending(op)'
  PROVE  Cardinality(Contending(op)') >= Cardinality(Contending(op))
<1>1. Cardinality(Contending(op)) <= Cardinality(Contending(op)')
  BY ContendingFinite, FS_Subset
<1> QED BY <1>1, ContendingFinite

LEMMA ContendingLeaves ==
  ASSUME NEW op, NEW t \in Contending(op), Contending(op)' = Contending(op) \ {t}
  PROVE  Cardinality(Contending(op)') = Cardinality(Contending(op)) - 1
BY ContendingFinite, FS_RemoveElement

LEMMA ContendingJoins ==
  ASSUME NEW op, NEW u, u \notin Contending(op), Contending(op)' = Contending(op) \cup {u}
  PROVE  Cardinality(Contending(op)') = Cardinality(Contending(op)) + 1
BY ContendingFinite, FS_AddElement

LEMMA WakeupNext ==
  TypeOK /\ SleepersWait /\ NoLostWakeup /\ [Next]_vars => NoLostWakeup'
<1> SUFFICES ASSUME TypeOK, SleepersWait, NoLostWakeup, [Next]_vars
             PROVE  NoLostWakeup'
  OBVIOUS
<1> DEFINE S == Contending("send")
           R == Contending("recv")
<1> USE ChannelAssumption
<1>0. /\ Cardinality(S) \in Nat /\ Cardinality(S') \in Nat
      /\ Cardinality(R) \in Nat /\ Cardinality(R') \in Nat
      /\ size \in 0 .. Capacity /\ Capacity \in Nat
  BY ContendingFinite DEF TypeOK
<1> USE DEF Contending, Enters
<1>1. ASSUME NEW t \in Threads, NEW c \in Calls, Invoke(t, c) PROVE NoLostWakeup'
  <2>1. S \subseteq S' /\ R \subseteq R'
    BY <1>1, CallKinds DEF Invoke, TypeOK
  <2>2. Cardinality(S') >= Cardinality(S) /\ Cardinality(R') >= Cardinality(R)
    BY <2>1, ContendingGrows
  <2>3. UNCHANGED <<size, not_full, not_empty>>
    BY <1>1 DEF Invoke, ring
  <2> QED BY <1>0, <2>2, <2>3 DEF NoLostWakeup
<1>2. ASSUME NEW t \in Threads, SendWait(t) PROVE NoLostWakeup'
  <2>1. R \subseteq R'
    BY <1>2 DEF SendWait
  <2>2. Cardinality(R') >= Cardinality(R)
    BY <2>1, ContendingGrows
  <2>3. size' = size /\ size = Capacity /\ not_empty' = not_empty
    BY <1>2 DEF SendWait, ring
  <2> QED BY <1>0, <2>2, <2>3 DEF NoLostWakeup
<1>3. ASSUME NEW t \in Threads, SendDropped(t) \/ RecvEnd(t) \/ Close(t)
      PROVE NoLostWakeup'
  <2>1. not_full' = {} /\ not_empty' = {}
    BY <1>3 DEF SendDropped, RecvEnd, Close, SleepersWait, Broadcast
  <2> QED BY <2>1 DEF NoLostWakeup
<1>4. ASSUME NEW t \in Threads, SendStore(t) PROVE NoLostWakeup'
  <2>1. t \in S /\ S' = S \ {t}
    BY <1>4, CallKinds DEF SendStore, Return, TypeOK, SleepersWait, Signalled
  <2>2. Cardinality(S') = Cardinality(S) - 1
    BY <2>1, ContendingLeaves
  <2>3. size' = size + 1 /\ not_full' = not_full
    BY <1>4 DEF SendStore
  <2>4. ASSUME not_empty' # {} PROVE Cardinality(R') >= size'
    <3>1. PICK u \in not_empty : not_empty' = not_empty \ {u}
      BY <1>4, <2>4 DEF SendStore, Signalled
    <3>2. u \notin R /\ R' = R \cup {u}
      BY <1>4, <3>1, CallKinds DEF SendStore, Return, TypeOK, SleepersWait
    <3>3. Cardinality(R') = Cardinality(R) + 1
      BY <3>2, ContendingJoins
    <3> QED BY <1>0, <2>3, <3>1, <3>3 DEF NoLostWakeup
  <2> QED BY <1>0, <2>2, <2>3, <2>4 DEF NoLostWakeup
<1>5. ASSUME NEW t \in Threads, RecvWait(t) PROVE NoLostWakeup'
  <2>1. S \subseteq S'
    BY <1>5 DEF RecvWait
  <2>2. Cardinality(S') >= Cardinality(S)
    BY <2>1, ContendingGrows
  <2>3. size' = size /\ size = 0 /\ not_full' = not_full
    BY <1>5 DEF RecvWait, ring
  <2> QED BY <1>0, <2>2, <2>3 DEF NoLostWakeup
<1>6. ASSUME NEW t \in Threads, RecvTake(t) PROVE NoLostWakeup'
  <2>1. t \in R /\ R' = R \ {t}
    BY <1>6, CallKinds DEF RecvTake, Return, TypeOK, SleepersWait, Signalled
  <2>2. Cardinality(R') = Cardinality(R) - 1
    BY <2>1, ContendingLeaves
  <2>3. size' = size - 1 /\ not_empty' = not_empty
    BY <1>6 DEF RecvTake
  <2>4. ASSUME not_full' # {} PROVE Cardinality(S') >= Capacity - size'
    <3>1. PICK u \in not_full : not_full' = not_full \ {u}
      BY <1>6, <2>4 DEF RecvTake, Signalled
    <3>2. u \notin S /\ S' = S \cup {u}
      BY <1>6, <3>1, CallKinds DEF RecvTake, Return, TypeOK, SleepersWait
    <3>3. Cardinality(S') = Cardinality(S) + 1
      BY <3>2, ContendingJoins
    <3> QED BY <1>0, <2>3, <3>1, <3>3 DEF NoLostWakeup
  <2> QED BY <1>0, <2>2, <2>3, <2>4 DEF NoLostWakeup
<1>7. ASSUME NEW t \in Threads, SpuriousWakeup(t) PROVE NoLostWakeup'
  <2>1. S \subseteq S' /\ R \subseteq R'
    BY <1>7 DEF SpuriousWakeup
  <2>2. Cardinality(S') >= Cardinality(S) /\ Cardinality(R') >= Cardinality(R)
    BY <2>1, ContendingGrows
  <2>3. /\ size' = size
        /\ not_full' # {} => not_full # {}
        /\ not_empty' # {} => not_empty # {}
    BY <1>7 DEF SpuriousWakeup, ring
  <2> QED BY <1>0, <2>2, <2>3 DEF NoLostWakeup
<1>8. CASE UNCHANGED vars
  BY <1>8 DEF NoLostWakeup, vars, ring
<1> QED BY <1>1, <1>2, <1>3, <1>4, <1>5, <1>6, <1>7, <1>8
        DEF Next, Proceed, Send, Recv

-----------------------------------------------------------------------------
(* RingConsistent and NoLostWakeup are inductive only together with the    *)
(* ranges of the positions and with who sleeps where.                      *)
IInv == TypeOK /\ RingConsistent /\ SleepersWait /\ NoLostWakeup

LEMMA InvInit == Init => IInv
<1> SUFFICES ASSUME Init PROVE IInv
  OBVIOUS
<1>1. TypeOK
  BY TypeInit
<1>2. RingConsistent
  BY ChannelAssumption DEF Init, RingConsistent, Slot
<1>3. SleepersWait /\ NoLostWakeup
  BY DEF Init, SleepersWait, NoLostWakeup
<1> QED BY <1>1, <1>2, <1>3 DEF IInv

LEMMA InvNext == IInv /\ [Next]_vars => IInv'
BY TypeNext, RingNext, SleepersNext, WakeupNext DEF IInv

LEMMA Invariance == Spec => []IInv
<1>1. Spec => Init /\ [][Next]_vars
  BY DEF Spec, SafeSpec
<1> QED BY <1>1, InvInit, InvNext, PTL

(* Every variable of the channel stays in its range: in particular send    *)
(* and recv never leave the buffer (wyn_task_send, wyn_task_recv).         *)
THEOREM TypeCorrect == Spec => []TypeOK
<1>1. IInv => TypeOK
  BY DEF IInv
<1> QED BY <1>1, Invariance, PTL

(* The counters of the ring agree and no recv reads a slot that no send    *)
(* has filled (wyn_task_send, wyn_task_recv).                              *)
THEOREM RingCorrect == Spec => []RingConsistent
<1>1. IInv => RingConsistent
  BY DEF IInv
<1> QED BY <1>1, Invariance, PTL

(* Whatever overtakes a woken thread, as many threads are awake as there   *)
(* is work for while others sleep, and nobody sleeps on a closed channel   *)
(* (the signals of wyn_task_send and wyn_task_recv, wyn_task_close).       *)
THEOREM WakeupCorrect == Spec => [](SleepersWait /\ NoLostWakeup)
<1>1. IInv => SleepersWait /\ NoLostWakeup
  BY DEF IInv
<1> QED BY <1>1, Invariance, PTL

-----------------------------------------------------------------------------
(* The slots from read_pos on are the queue they implement.                *)
ContentsOK ==
  /\ Contents \in Seq(Values) /\ Len(Contents) = size
  /\ \A i \in 1 .. size : Contents[i] = buffer[Slot(i - 1)]

LEMMA ContentsSeq == IInv => ContentsOK
<1> SUFFICES ASSUME IInv PROVE ContentsOK
  OBVIOUS
<1>1. size \in Nat
  BY ChannelAssumption DEF IInv, TypeOK
<1>2. \A i \in 1 .. size : buffer[Slot(i - 1)] \in Values
  BY <1>1 DEF IInv, RingConsistent
<1>3. Contents \in [1 .. size -> Values]
  BY <1>2 DEF Contents
<1>4. Contents \in Seq(Values) /\ Len(Contents) = size
  BY <1>1, <1>3
<1> QED BY <1>4 DEF Contents, ContentsOK

LEMMA SameSeq ==
  ASSUME NEW s, NEW u, s \in Seq(Values), u \in Seq(Values), Len(s) = Len(u),
         \A i \in 1 .. Len(s) : s[i] = u[i]
  PROVE  s = u
OBVIOUS

LEMMA StoreAppends ==
  ASSUME IInv, NEW t \in Threads, SendStore(t)
  PROVE  Contents' = Append(Contents, call[t].value)
<1> USE ChannelAssumption
<1> DEFINE v == call[t].value
<1>1. /\ size \in 0 .. Capacity - 1 /\ size' = size + 1
      /\ write_pos = Slot(size) /\ v \in Values
  BY CallKinds DEF IInv, SendStore, Enters, TypeOK, RingConsistent
<1>2. IInv'
  BY InvNext DEF Next, Proceed, Send
<1>3. ContentsOK /\ ContentsOK'
  <2>1. IInv' => ContentsOK'
    BY ContentsSeq, PTL
  <2> QED BY <1>2, <2>1, ContentsSeq
<1>4. ASSUME NEW i \in 1 .. size + 1
      PROVE  Contents'[i] = Append(Contents, v)[i]
  <2>1. Slot(i - 1)' = Slot(i - 1)
    BY DEF SendStore, Slot
  <2>2. Contents'[i] = buffer'[Slot(i - 1)]
    BY <1>1, <1>3, <2>1 DEF ContentsOK
  <2>3. buffer' = [buffer EXCEPT ![Slot(size)] = v]
    BY <1>1 DEF SendStore
  <2>4. Slot(i - 1) \in Slots /\ (i - 1 # size => Slot(i - 1) # Slot(size))
    BY <1>1, SlotFacts DEF IInv
  <2>5. CASE i = size + 1
    <3>1. Contents'[i] = v
      BY <1>1, <2>2, <2>3, <2>4, <2>5 DEF IInv, TypeOK
    <3>2. Append(Contents, v)[i] = v
      BY <1>1, <1>3, <2>5 DEF ContentsOK
    <3> QED BY <3>1, <3>2
  <2>6. CASE i \in 1 .. size
    <3>1. Contents'[i] = buffer[Slot(i - 1)]
      BY <1>1, <2>2, <2>3, <2>4, <2>6 DEF IInv, TypeOK
    <3>2. Append(Contents, v)[i] = Contents[i]
      BY <1>1, <1>3, <2>6 DEF ContentsOK
    <3> QED BY <1>3, <2>6, <3>1, <3>2 DEF ContentsOK
  <2>7. i = size + 1 \/ i \in 1 .. size
    BY <1>1
  <2> QED BY <2>5, <2>6, <2>7
<1>5. /\ Append(Contents, v) \in Seq(Values) /\ Len(Append(Contents, v)) = size + 1
      /\ Contents' \in Seq(Values) /\ Len(Contents') = size + 1
  BY <1>1, <1>3 DEF ContentsOK
<1> HIDE DEF v
<1>6. Contents' = Append(Contents, v)
  BY <1>4, <1>5, SameSeq
<1> QED BY <1>6 DEF v

LEMMA TakeTails ==
  ASSUME IInv, NEW t \in Threads, RecvTake(t)
  PROVE  /\ Contents # <<>> /\ buffer[read_pos] = Head(Contents)
         /\ Contents' = Tail(Contents)
<1> USE ChannelAssumption
<1>1. size \in 1 .. Capacity /\ size' = size - 1 /\ buffer' = buffer
  BY DEF IInv, RecvTake, TypeOK
<1>2. IInv'
  BY InvNext DEF Next, Proceed, Recv
<1>3. ContentsOK /\ ContentsOK'
  <2>1. IInv' => ContentsOK'
    BY ContentsSeq, PTL
  <2> QED BY <1>2, <2>1, ContentsSeq
<1>4. Contents # <<>> /\ Head(Contents) = buffer[read_pos]
  BY <1>1, <1>3, SlotFacts DEF ContentsOK, IInv
<1>5. ASSUME NEW i \in 1 .. size - 1
      PROVE  Contents'[i] = Tail(Contents)[i]
  <2>1. read_pos \in Slots /\ read_pos' = Advanced(read_pos)
    BY <1>1 DEF RecvTake, IInv, TypeOK, Slots
  <2>2. Slot(i - 1)' = Slot(i)
    BY <1>1, <2>1, AdvancedWraps DEF Slot, Slots
  <2>3. Contents'[i] = buffer[Slot(i)]
    BY <1>1, <1>3, <2>2 DEF ContentsOK
  <2>4. Tail(Contents)[i] = Contents[i + 1]
    BY <1>1, <1>3 DEF ContentsOK
  <2> QED BY <1>1, <1>3, <2>3, <2>4 DEF ContentsOK
<1>6. /\ Tail(Contents) \in Seq(Values) /\ Len(Tail(Contents)) = size - 1
      /\ Contents' \in Seq(Values) /\ Len(Contents') = size - 1
  BY <1>1, <1>3, <1>4 DEF ContentsOK
<1>7. Contents' = Tail(Contents)
  BY <1>5, <1>6, SameSeq
<1> QED BY <1>4, <1>7

LEMMA ContentsKept ==
  ASSUME UNCHANGED ring
  PROVE  Contents' = Contents
BY DEF Contents, Slot, ring

LEMMA FifoInit == Init => Fifo!Init
<1> SUFFICES ASSUME Init PROVE Fifo!Init
  OBVIOUS
<1>1. ContentsOK
  BY InvInit, ContentsSeq
<1>2. Contents = <<>>
  BY <1>1 DEF Init, ContentsOK
<1> QED BY <1>2 DEF Init, Fifo!Init, Idle, Fifo!Idle

LEMMA FifoNext == IInv /\ [Next]_vars => [Fifo!Next]_(Fifo!vars)
<1> SUFFICES ASSUME IInv, [Next]_vars PROVE [Fifo!Next]_(Fifo!vars)
  OBVIOUS
<1> USE DEF Return, Fifo!Return, Idle, Fifo!Idle, Receive, Fifo!Receive,
            Shut, Fifo!Shut, Transmit, Fifo!Transmit, Calls, Fifo!Calls
<1>0. ContentsOK /\ size \in Nat
  BY ContentsSeq, ChannelAssumption DEF IInv, TypeOK
<1>1. ASSUME NEW t \in Threads, NEW c \in Calls, Invoke(t, c) PROVE Fifo!Invoke(t, c)
  BY <1>1, ContentsKept DEF Invoke, Fifo!Invoke
<1>2. ASSUME NEW t \in Threads, SendWait(t) \/ RecvWait(t) \/ SpuriousWakeup(t)
      PROVE UNCHANGED Fifo!vars
  BY <1>2, ContentsKept DEF SendWait, RecvWait, SpuriousWakeup, Fifo!vars
<1>3. ASSUME NEW t \in Threads, SendDropped(t) PROVE Fifo!Drop(t)
  BY <1>3, ContentsKept DEF SendDropped, Enters, Fifo!Drop
<1>4. ASSUME NEW t \in Threads, SendStore(t) PROVE Fifo!Put(t)
  <2>1. Len(Contents) < Capacity
    BY <1>0, <1>4, ChannelAssumption DEF ContentsOK, SendStore, IInv, TypeOK
  <2> QED BY <1>4, <2>1, StoreAppends DEF SendStore, Enters, Fifo!Put
<1>5. ASSUME NEW t \in Threads, RecvEnd(t) PROVE Fifo!End(t)
  <2>1. Contents = <<>>
    BY <1>0, <1>5 DEF ContentsOK, RecvEnd
  <2>2. call[t] = Receive
    BY <1>5, CallKinds DEF RecvEnd, Enters, IInv
  <2> QED BY <1>5, <2>1, <2>2, ContentsKept DEF RecvEnd, Fifo!End
<1>6. ASSUME NEW t \in Threads, RecvTake(t) PROVE Fifo!Take(t)
  <2>1. call[t] = Receive
    BY <1>6, CallKinds DEF RecvTake, Enters, IInv
  <2> QED BY <1>6, <2>1, TakeTails DEF RecvTake, Fifo!Take
<1>7. ASSUME NEW t \in Threads, Close(t) PROVE Fifo!Close(t)
  <2>1. call[t] = Shut
    BY <1>7, CallKinds DEF Close, Enters, IInv
  <2> QED BY <1>7, <2>1, ContentsKept DEF Close, Fifo!Close
<1>8. CASE UNCHANGED vars
  BY <1>8, ContentsKept DEF vars, Fifo!vars
<1> QED BY <1>1, <1>2, <1>3, <1>4, <1>5, <1>6, <1>7, <1>8
        DEF Next, Proceed, Send, Recv, Fifo!Next

(* The channel implements the bounded FIFO queue: no value is lost,        *)
(* repeated, invented or overtaken between wyn_task_send and               *)
(* wyn_task_recv, however calls interleave and whatever the capacity.      *)
THEOREM FifoCorrect == Spec => ImplementsFifo
<1>1. Spec => Init /\ [][Next]_vars
  BY DEF Spec, SafeSpec
<1>2. Spec => Fifo!Init /\ [][Fifo!Next]_(Fifo!vars)
  BY <1>1, FifoInit, FifoNext, Invariance, PTL
<1> QED BY <1>2 DEF ImplementsFifo, Fifo!SafeSpec
=============================================================================
