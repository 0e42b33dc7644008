SPECIFICATION FairSpec
CONSTANTS
  N = 3
  BATTERY_FULL = 2
  BATTERY_WARNING = 1
  BATTERY_CRITICAL = 0
  Drains = {2}
  Charges = {1}
  ECLIPSE_START = 1
  ECLIPSE_END = 1
  THERMAL_SPIKE = 1
  COOLING_STEP = 20
  COOLING_TICKS = 1
  TEMP_WARNING = 85
  TEMP_CRITICAL = 95
  NormalTemps = {30}
  SPIKE_TEMP = 110
  COOLING_FLOOR = 35
  Prompt = {1, 2, 3}
  Paced = FALSE
  Ground = FALSE
  Mortal = {}
PROPERTY AuthorityFair
PROPERTY MissionEndsNormal
PROPERTY WatchdogKeepsRunning
