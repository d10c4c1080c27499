CONSTANTS
  Partitions = {1, 2}
  FullCheck = {1}
  OsVersions = {1, 2, 4}
  Latest = 3
  OsOf <- OsOfDef
  OldReleases = {2}
  MaxFaults = 2
  CyclePasses = 2
  Onroad = {1}
  Offroad = {2}
  Always = {3}
SPECIFICATION MCSpec
CHECK_DEADLOCK FALSE
INVARIANTS
  DiskIsWhole
  ProcessesAreRight
PROPERTIES
  HardwareRules
  MCInTheEnd
