CONSTANTS
  VersionOf <- Rebuilt
  Broken = {2}
  MaxSaves = 2
  MaxFaults = 2
  Torn = Torn
  Absent = Absent
SPECIFICATION Spec
INVARIANTS BinaryIsRecoverable DatabaseIsRecoverable ServiceCanOpen
PROPERTY RollbackRestores
