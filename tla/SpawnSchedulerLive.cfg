\* Three workers, so that stealing may have to go past one queue; three spawns,
\* so that one can be in the making while others wait, are stolen and run.
CONSTANTS
  N = 3
  MaxSpawns = 3
  IntMax = 7
SPECIFICATION Spec
PROPERTIES EveryTaskRuns ShutdownCompletes
\* The program ends by returning from main or by shutting down.
CHECK_DEADLOCK FALSE
