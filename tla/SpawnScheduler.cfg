\* Three workers, so that a round of stealing visits two queues and can miss
\* one; four spawns, so that one is dealt to a queue that holds another.
CONSTANTS
  N = 3
  MaxSpawns = 4
  IntMax = 7
SPECIFICATION SafeSpec
INVARIANTS TypeOK ExactlyOnce FreedWhenQuiet
\* The program ends by returning from main or by shutting down.
CHECK_DEADLOCK FALSE
