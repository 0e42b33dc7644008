SPECIFICATION FairSpec
CONSTANT N = 4
INVARIANT TypeOK
INVARIANT CleanupAfterLastChild
INVARIANT RunningChildrenKnown
PROPERTY SupervisionSafe
PROPERTY ShutdownTerminates
PROPERTY ZombiesReaped
