\* A module imports { f } from another.
CONSTANTS
  Names <- MCNames
  Projects <- MCProjects
  Slashed <- MCSlashed
  StackSize = 5
  RegistrySize = 4
  CallDepth = 6
SPECIFICATION SafeSpec
INVARIANT AllModulesChecked
\* The compiler ends.
CHECK_DEADLOCK FALSE
