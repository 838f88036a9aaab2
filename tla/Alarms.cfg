CONSTANTS
  Slots = 2
  Base = 4
  MaxGeneration = 2
  MaxPending = 1
  AlarmId = {a1, a2}
  NoId = NoId
  MaxUses = 3
  MaxUnseen = 2
  Years = {1899, 1900, 1904, 1969, 1970, 2000, 2001, 9999}
  DaySeconds = 86400
  MaxEvents = 2
  MaxAlarms = 3
  Pins = {0, 1, 4, 2}
  Slices = 2
  Frequencies = {1, 3}
  Duties = {0, 3, 7}
  Clock16 = 40
  One = 2
  MaxDivider = 7
  Top = 8
SPECIFICATION RunsSpec
SYMMETRY Interchangeable
INVARIANTS AlarmMatchesSlot HandleNamesItsAlarm SlotReachable ExpiriesReported DueAlarmsCounted PinsShowTheirWave
CHECK_DEADLOCK FALSE
