SPECIFICATION Spec
CONSTANTS
  MaxFaults = 3
  MaxLosses = 1
  MaxExpiries = 1
INVARIANTS OneCertificate FilesAgree
PROPERTIES InitConverges
CHECK_DEADLOCK FALSE
