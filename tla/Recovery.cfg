CONSTANTS
  Callers = {h1, h2, h3}
  Cooldown = 8
  RebootTimeout = 2
  MaxLag = 2
  MaxTime = 20
SPECIFICATION RecoverySpec
SYMMETRY Symmetry
INVARIANT OneRebootAtATime
PROPERTY RebootsAreSpaced
