CONSTANTS
  MaxRtc = 2
  MaxTime = 1
  Second = 2
  MaxLate = 3
  Width = 65536
  Absent = absent
  MaxCycles = 3
  MaxCapacity = 3
  Levels = {0, 1, 3}
  kCCBackupTrigger = 2
  kLCBackupTrigger = 2
SPECIFICATION MCSpec
INVARIANTS TimekeepTypeOK NeverAhead FileAgrees
INVARIANTS TypeOK Agreement
PROPERTIES FileKeepsBest DriverNotSpoiled
