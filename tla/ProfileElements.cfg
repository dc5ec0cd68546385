SPECIFICATION Spec
CONSTANTS
  Profiles <- MCProfiles
  MaxOps = 3
  MaxLoads = 2
INVARIANTS IdentificationUnique AppliedIsWritten
PROPERTIES RemovedWithoutTrace ChecksKept
CHECK_DEADLOCK FALSE
