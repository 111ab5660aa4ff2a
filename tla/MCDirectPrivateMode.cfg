SPECIFICATION Spec
CONSTANTS
  NoRow = NoRow
  Files <- MCFiles
  Environments <- MCEnvironments
  AdminRows <- MCAdminRows
  MaxStarts = 2
  MaxFaults = 1
INVARIANT
  DirectIsPlaintext
CHECK_DEADLOCK FALSE
