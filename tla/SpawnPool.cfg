\* Four nodes and two slots: the pool runs empty, fills up and overflows.
CONSTANTS
  n1 = n1  n2 = n2  n3 = n3  n4 = n4
  u = u  a = a  f = f  g = g
  Threads <- MCThreads
  Programs <- MCPrograms
  PoolSize = 2
  Nodes <- MCNodes
  Null = Null
SPECIFICATION Spec
SYMMETRY MCSymmetry
INVARIANTS CountInBounds IndexInBounds EachNodeOnce
\* A spawn that is handed Null ends the program.
CHECK_DEADLOCK FALSE
