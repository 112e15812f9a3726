\* Two threads, two objects in one bucket, two weak references whose memory
\* is reused.
CONSTANTS
  t1 = t1  t2 = t2
  o1 = o1  o2 = o2
  w1 = w1  w2 = w2
  Threads = {t1, t2}
  Objs = {o1, o2}
  Refs = {w1, w2}
  MaxHeld = 2
  Null = Null
SPECIFICATION Spec
SYMMETRY MCSymmetry
INVARIANTS CountIsHolders OneDeallocates WeakEndsFirst MisuseHasCause
CONSTRAINT Explored
