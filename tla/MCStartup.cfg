SPECIFICATION FairSpec
CONSTANTS
  NoRow = NoRow
  Files <- MCFiles
  Environments <- MCEnvironments
  AdminRows <- MCAdminRows
  MaxStarts = 2
  MaxFaults = 1
INVARIANTS
  TypeOK
  OverridesSettle
  ManagedAddressAnswered
  DirectOnlyAsEncrypted
  StopLeavesNoContainer
PROPERTY
  StartAndStopEnd
CHECK_DEADLOCK FALSE
