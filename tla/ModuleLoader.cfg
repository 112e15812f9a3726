\* Projects of three to five modules, for which the stack is long enough and
\* the registry is not always.
CONSTANTS
  Names <- MCNames
  Projects <- MCProjects
  Slashed <- MCSlashed
  StackSize = 5
  RegistrySize = 4
  CallDepth = 6
SPECIFICATION Spec
INVARIANTS StackIsCalls ParsedOnce PathIsCallers PreloadComplete DependenciesFirst CyclesReported
PROPERTY LoadingEnds
\* The compiler ends.
CHECK_DEADLOCK FALSE
