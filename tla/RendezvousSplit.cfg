\* Two of three agents make a cluster, and nothing goes wrong.
SPECIFICATION Spec
CONSTANTS
  Agents = {1, 2, 3}
  K = 2
  Known <- FullMesh
  NoAgent = none
  Duplicating = FALSE
  Expiring = {}
  Restarting = {}
INVARIANT Agreement
CHECK_DEADLOCK FALSE
