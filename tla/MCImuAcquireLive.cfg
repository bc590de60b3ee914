\* Liveness, and the stream the readers see: a FIFO of one sample that drops when
\* full, two readings.
CONSTANTS
  c1 = c1
  c2 = c2
  r1 = r1
  a = a
  b = b
  NoSlot = NoSlot
  Free = Free
  Controller <- OneController
  Reader <- OneReader
  Slot <- Slots
  FifoLength = 2
  FifoMode = "DROP"
  SharedLine = FALSE
  LineDepth = 1
  MaxTime = 2
SPECIFICATION FairSpec
PROPERTIES ImplementsStream DisableReturns SamplePushed
