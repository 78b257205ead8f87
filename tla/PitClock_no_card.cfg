\* A file command fails before the card is mounted, then an index is sought.
SPECIFICATION FairSpec
CONSTANTS
  NO_IDX_COUNT = 2
  MaxIndex = 2
  MsPerSecond = 2
  Width = 8
  MaxLate = 1
  MaxTurns = 4
  MaxFileTurns = 1
  MaxCommands = 2
PROPERTY IndexTimeout
