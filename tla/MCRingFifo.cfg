\* Lengths 1, 2, 4 and 8 (3 is refused), two distinguishable samples.
CONSTANTS
  s1 = s1
  s2 = s2
  Zero = Zero
  NoBuffer = NoBuffer
  Sample <- MCSample
  Length <- MCLength
  Width = 4
SPECIFICATION Spec
INVARIANTS TypeOK NoStaleSlot
PROPERTY ImplementsQueue
