CONSTANTS
  Handlers = {h1, h2}
  Probe = Probe
  Reboot = Reboot
  MaxRevision = 4
  MaxWrites = 3
SPECIFICATION Spec
CHECK_DEADLOCK FALSE
INVARIANTS SerialRowIsCurrent DisplacedIsPublished
PROPERTIES ScanYieldsToFBS RefreshVerifies
