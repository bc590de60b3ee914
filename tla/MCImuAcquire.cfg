\* One controlling thread, one reader, separate lines, a FIFO of three samples,
\* four readings: the FIFO can overflow.
CONSTANTS
  c1 = c1
  c2 = c2
  r1 = r1
  a = a
  b = b
  NoSlot = NoSlot
  Free = Free
  Controller <- OneController
  Reader <- OneReader
  Slot <- Slots
  FifoLength = 4
  FifoMode = "OVERWRITE"
  SharedLine = FALSE
  LineDepth = 2
  MaxTime = 4
SYMMETRY Symmetry
SPECIFICATION Spec
INVARIANTS TypeOK MutexProtects ThreadsOwned FlagTellsTruth DataNotStale EventStillThere SamplesInOrder
