\* The caller may be IMU.bus of the Python wrapper.
\* A byte of three values, two addresses on a bus, two attempts over SPI.
CONSTANTS
  ByteMod = 3
  FirstAddr = 1
  LastAddr = 2
  Attempts = 2
  MaxFaults = 2
  Directory <- Directories
  Layout <- Layouts
SPECIFICATION Spec
INVARIANT ArgumentsTaken
CHECK_DEADLOCK FALSE
