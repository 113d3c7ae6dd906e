SPECIFICATION PartitionSpec
CONSTANTS
  Events = {}
  InstallMonth = 11
  LastMonth = 14
  Retention = 36
  MaxFaults = 0
CHECK_DEADLOCK FALSE
INVARIANT PartitionIsThere
