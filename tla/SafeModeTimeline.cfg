SPECIFICATION Spec
CONSTANTS
  N = 3
  BATTERY_FULL = 100
  BATTERY_WARNING = 20
  BATTERY_CRITICAL = 10
  Drains = {12, 15}
  Charges = {6}
  ECLIPSE_START = 2
  ECLIPSE_END = 8
  THERMAL_SPIKE = 15
  COOLING_STEP = 5
  COOLING_TICKS = 8
  TEMP_WARNING = 85
  TEMP_CRITICAL = 95
  NormalTemps = {30}
  SPIKE_TEMP = 110
  COOLING_FLOOR = 35
  Prompt = {1, 2, 3}
  Paced = TRUE
  Ground = FALSE
  Mortal = {}
PROPERTY OverheatCaught
PROPERTY LeavesAfterRecovery
PROPERTY OverheatObeyed
