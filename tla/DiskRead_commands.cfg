\* Commands in any order, whole disks among them, on a card with any directories.
SPECIFICATION Spec
CONSTANTS
  MAX_TRACK = 1
  CAP = 5
  SEEK_STEPS = 4
  HeadMax = 3
  DirMax = 2
  StepArgs <- StepArguments
  MaxArgs <- MaxArguments
  Ranges <- TrackRanges
  MaxCommands = 3
INVARIANTS HeadCounted SavedUnderItsName DiskComplete
PROPERTIES NoDiskOverwritten DriveRestored
