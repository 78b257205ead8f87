\* Commands on small volumes of both formats, with an error at any disk operation or a loss of power.
SPECIFICATION Spec
CONSTANTS
  SS = 2
  FatPerSector = 4
  DirPerSector = 3
  Formats <- Volumes
  Disks = {0, 10}
  Tracks = {0, 1}
  Sizes = {1, 5}
  NUM_BANKS = 2
  ForeignSizes = {2}
  Faults = {"error", "power"}
  MaxCommands = 3
INVARIANTS VolumeSound RedundancyExact FoundIsFresh
PROPERTIES SavedIsComplete ImplementsTrackStore
CHECK_DEADLOCK FALSE
