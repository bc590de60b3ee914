\* One reader that keeps reading while another thread enables the device.
CONSTANTS
  r1 = r1
  Reader <- OneReader
  NoSample = NoSample
  Capacity = 3
  Policy = "OVERWRITE"
  MaxAge = 2
  TimestampMod = 16
  MaxTime = 4
  ReadsAnytime = TRUE
SPECIFICATION Spec
INVARIANT FrameComplete
CHECK_DEADLOCK FALSE
