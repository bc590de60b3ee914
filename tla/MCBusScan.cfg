\* A byte of three values, two addresses on a bus, two attempts over SPI.
CONSTANTS
  ByteMod = 3
  FirstAddr = 1
  LastAddr = 2
  Attempts = 2
  MaxFaults = 2
  Directory <- Directories
  Layout <- Layouts
SPECIFICATION FairSpec
INVARIANTS TypeOK Reliable NamedTaken NothingOverlooked FirstTaken NothingLeftOpen
PROPERTY Returns
CHECK_DEADLOCK FALSE
