\* Among others, both devices on one GPIO line.
CONSTANTS
  k1 = k1
  k2 = k2
  k3 = k3
  k4 = k4
  Chip <- Chips
  Null = Null
  MaxFd = 2
SYMMETRY Symmetry
SPECIFICATION Spec
INVARIANT ReleasedOnce
