CONSTANTS
  MaxRtc = 2
  MaxTime = 1
  Second = 2
  MaxLate = 3
  Width = 65536
  Absent = absent
SPECIFICATION ReadableSpec
PROPERTY OffsetKept
