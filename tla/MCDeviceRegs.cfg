\* Two calls with any of eight configurations each.
CONSTANTS
  Config <- Configs
  PowerUp <- Defaults
  Sample <- Samples
  EnableTries = 3
  GyroTries = 2
  MaxCalls = 2
SPECIFICATION Spec
INVARIANTS TypeOK Configured OthersKept WorkingSensorAccepted MappedToOnePin SamplesTrue
CHECK_DEADLOCK FALSE
