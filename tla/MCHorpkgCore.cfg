SPECIFICATION Spec
CONSTANTS
  Packages = {"git", "vim", "neovim"}
  Versions = {1, 2}
  FileOf <- FileName
  Url = {"git"}
  MaxFaults = 1
  MaxLosses = 1
INVARIANTS DeviceConsistent
PROPERTIES PackagesKept RecordedArrives
CHECK_DEADLOCK FALSE
