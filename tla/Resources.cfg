SPECIFICATION FairSpec
CONSTANTS
  Running = {"watchdog", "battery", "power_writer", "downlink"}
  MQ_MAX_MESSAGES = 1
  LoggerMayDie = TRUE
CHECK_DEADLOCK FALSE
INVARIANT TypeOK
INVARIANT LockOrder
INVARIANT RaceFree
INVARIANT NoStandstill
PROPERTY RoundsEnd
PROPERTY ShutdownCompletes
