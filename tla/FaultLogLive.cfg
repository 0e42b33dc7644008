SPECIFICATION FairSpec
CONSTANTS
  Sender = {battery, downlink}
  battery = battery
  downlink = downlink
  Severities = {"CRITICAL", "INFO"}
  MQ_MAX_MESSAGES = 1
  MaxReports = 2
  MaxMissions = 1
  Crashes = 0
  IoErrors = 0
CHECK_DEADLOCK FALSE
PROPERTY CriticalEventuallyLogged
