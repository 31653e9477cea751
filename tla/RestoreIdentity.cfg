SPECIFICATION Spec
CONSTANTS
  Installations = {s1, s2}
  Keys = {k1, k2, k3}
  Names = {n1, n2}
  None = None
  Deleting = {s2}
  MaxArchives = 2
SYMMETRY Symmetry
INVARIANTS
  AliasesSound
  OwnArchiveAccepted
  DistinctUnlessAliased
  RestoreSettles
