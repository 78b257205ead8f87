\* Any three commands; a file command may return before it has mounted the card.
SPECIFICATION FairSpec
CONSTANTS
  NO_IDX_COUNT = 3
  MaxIndex = 2
  MsPerSecond = 3
  Width = 8
  MaxLate = 1
  MaxTurns = 5
  MaxFileTurns = 5
  MaxCommands = 3
INVARIANTS ClockSound IndexTimesTrue
PROPERTIES IndexWaitEnds SpinningDiskIsFound
