CONSTANTS
  Exports = {e1}
  Lengths = {1, 3}
  MaxAge = 2
  PreferredMinAge = 1
  MaxFileBytes = 2
  MaxTotalBytes = 3
  MaxRecordBytes = 2
  CleanupEveryBytes = 2
  Horizon = 3
  MaxBytes = 5
  MaxOpens = 2
  MaxFaults = 1
  None = None
SPECIFICATION FairSpec
CHECK_DEADLOCK FALSE
INVARIANTS KeptIsTail DiskIsBounded ExportIsExact
PROPERTY MaintenanceEnds
