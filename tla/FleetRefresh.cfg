CONSTANTS
  Fleet <- ThreeTools
  MaxWorkers = 2
  MaxRevision = 2
  NoTool = NoTool
SPECIFICATION FairSpec
INVARIANT ProbedOnce
PROPERTIES ScanIsComplete ScanEnds ImplementsService
