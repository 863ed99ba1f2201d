SPECIFICATION Spec
CONSTANTS
  Loaders = {l1, l2}
  NArtifacts = 3
  RemoteServes = {"good", "bad"}
  Faults = TRUE
SYMMETRY LoaderSymmetry
INVARIANTS LoadFailsOnlyOnFault CacheRepairedWhenNoFault
