\* One thread enables, reads and disables; the FIFO holds three samples.
\* read_fused waits for ever when the clock has reached its bound.
CONSTANTS
  r1 = r1
  Reader <- OneReader
  NoSample = NoSample
  Capacity = 3
  Policy = "OVERWRITE"
  MaxAge = 2
  TimestampMod = 16
  MaxTime = 5
  ReadsAnytime = FALSE
SPECIFICATION Spec
INVARIANTS TypeOK FusionWindow FusedInOrder FrameComplete TargetBetween
PROPERTY NoFusableSkipped
CHECK_DEADLOCK FALSE
