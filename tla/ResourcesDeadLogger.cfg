SPECIFICATION FairSpec
CONSTANTS
  Running = {"watchdog", "battery", "power_writer"}
  MQ_MAX_MESSAGES = 1
  LoggerMayDie = TRUE
CHECK_DEADLOCK FALSE
PROPERTY WatchdogReturns
