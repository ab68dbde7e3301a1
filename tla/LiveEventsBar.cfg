SPECIFICATION LiveSpec
CONSTANTS
  MaxEvents = 0
  MaxAlerts = 1
  MaxBreaks = 0
  MaxSignIns = 1
PROPERTIES
  BarAlwaysResolves
CHECK_DEADLOCK FALSE
