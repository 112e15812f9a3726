\* The main thread spawns, one worker runs.
CONSTANTS
  n1 = n1  n2 = n2  n3 = n3  n4 = n4
  u = u  a = a  f = f  g = g
  Threads <- MCThreads
  Programs <- MCPlainPrograms
  PoolSize = 2
  Nodes <- MCNodes
  Null = Null
SPECIFICATION Spec
SYMMETRY MCSymmetry
INVARIANTS OwnNode
\* A spawn that is handed Null ends the program.
CHECK_DEADLOCK FALSE
