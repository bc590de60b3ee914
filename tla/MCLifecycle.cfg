\* Four chip handles and five descriptors: failed calls can use them up.
CONSTANTS
  k1 = k1
  k2 = k2
  k3 = k3
  k4 = k4
  Chip <- Chips
  Null = Null
  MaxFd = 4
SYMMETRY Symmetry
SPECIFICATION Spec
INVARIANTS TypeOK HandlesLive EnabledHasResources ResourcesAccounted
