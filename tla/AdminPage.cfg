CONSTANTS
  Ports = {p1, p2}
  Versions = {v1, v2}
  Revisions = {0, 1, 2}
  Fresh = Fresh
SPECIFICATION FairPageSpec
INVARIANT AnnouncedIsApplied
PROPERTIES TableGetsNewer WorkflowEnds
