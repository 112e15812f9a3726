\* Two slots, two values, three threads: the ring wraps, two threads can
\* sleep on one condition variable while the third runs or overtakes them.
CONSTANTS
  t1 = t1  t2 = t2  t3 = t3
  v1 = v1  v2 = v2
  Threads <- MCThreads
  Values <- MCValues
  NoValue = NoValue
  Capacity = 2
SPECIFICATION Spec
INVARIANTS TypeOK RingConsistent NoLostWakeup
PROPERTIES ImplementsFifo ReceiverServed SenderServed CloseReleases
