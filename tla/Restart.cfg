SPECIFICATION Spec
CONSTANTS
  Child = {"COMMS", "LOGGER"}
  MaxRuns = 3
CHECK_DEADLOCK FALSE
INVARIANT TypeOK
INVARIANT SemExcludes
INVARIANT SharedBusSharedSem
INVARIANT OneGroundReader
INVARIANT CleanEndHeals
