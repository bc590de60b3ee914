\* The node initialises one handle once: two chips and two descriptors besides 0.
CONSTANTS
  k1 = k1
  k2 = k2
  Chip <- Chips
  Null = Null
  MaxFd = 2
SPECIFICATION FairNodeSpec
\* The process ends.
CHECK_DEADLOCK FALSE
INVARIANTS NodeTypeOK ThreadsHaveResources ExitReleasesAll
 
