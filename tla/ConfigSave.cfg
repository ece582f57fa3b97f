CONSTANTS
  A = A
  B = B
  Puts = {p1, p2}
  Names = {A, B}
  Key <- OwnKey
  ToolPorts = {8081, 8082}
  MaxTools = 2
  Changes = {"keep", "new"}
  NoPw = NoPw
  OldPw = OldPw
  Uninitialized = Uninitialized
  Empty = Empty
  Torn = Torn
  Mixed = Mixed
SPECIFICATION Spec
SYMMETRY Symmetry
INVARIANTS MemoryIsDatabase MirrorWasCommitted
PROPERTIES IdentityFollowsName SerialPasswordsPreserved
