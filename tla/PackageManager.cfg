SPECIFICATION FairSpec
CONSTANTS
  a = a
  b = b
  c = c
  srcA = srcA
  srcB = srcB
  srcC = srcC
  Names = {a, b, c}
  Sources = {srcA, srcB, srcC}
  Manifest <- MCManifest
  Projects <- MCProjects
  MaxPackages = 2
  Absent = Absent
  RegistryFile = RegistryFile
  Starts <- MCStarts
  Long = {srcB}
  Numbers = {0, 1}
INVARIANTS
  CompleteUnlessDisturbed
  RegisteredHasDirectory
  NoCircle
  FoundAsSemver
PROPERTIES
  OnlyRemoveForgets
  CommandsEnd
CONSTRAINT
  Explored
