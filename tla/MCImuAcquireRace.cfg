\* Two threads may both enable and disable the device; no samples.
CONSTANTS
  c1 = c1
  c2 = c2
  r1 = r1
  a = a
  b = b
  NoSlot = NoSlot
  Free = Free
  Controller <- TwoControllers
  Reader <- OneReader
  Slot <- Slots
  FifoLength = 2
  FifoMode = "OVERWRITE"
  SharedLine = FALSE
  LineDepth = 2
  MaxTime = 0
SPECIFICATION Spec
INVARIANT OneThreadPerDevice
