SPECIFICATION Spec
CONSTANTS
  Minute = 3
  Hour = 6
  Day = 12
  TicksPerDay = 3
  Last = 13
  Alarms <- MCAlarms
  Counts = {2}
INVARIANT AlarmRings
