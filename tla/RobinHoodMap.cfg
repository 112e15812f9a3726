SPECIFICATION Spec
CONSTANTS
  k1 = k1  k2 = k2  k3 = k3  k4 = k4  k5 = k5
  v1 = v1  v2 = v2
  Keys = {k1, k2, k3, k4, k5}
  Values = {v1, v2}
  NoValue = NoValue
  Hash <- MCHash
  InitialCap = 2
  Failures = {"table", "entry"}
INVARIANTS ProbeOrder IterationComplete
PROPERTIES ImplementsMap CallsReturn
