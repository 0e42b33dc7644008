SPECIFICATION Spec
CONSTANTS
  Sender = {battery}
  battery = battery
  Severities = {"CRITICAL", "INFO"}
  MQ_MAX_MESSAGES = 2
  MaxReports = 3
  MaxMissions = 2
  Crashes = 2
  IoErrors = 2
CHECK_DEADLOCK FALSE
INVARIANT TypeOK
INVARIANT LogOrder
INVARIANT CountLags
PROPERTY FateSpec
