CONSTANTS
  StatusCalls = {s1}
  CommandCalls = {c1}
  AdminCalls = {a1, a2}
  MaxStatusAttempts = 2
  NoCall = NoCall
SPECIFICATION FairSpec
INVARIANTS WaitersExact ProbeIsPreempted
PROPERTIES ImplementsSlot EveryCallEnds
