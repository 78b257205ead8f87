\* A disk of one or two sides, or a track, with any failures of the sampler and any stream.
SPECIFICATION FairSpec
CONSTANTS
  Configs <- CommandLines
  Streams <- ShortStreams
  SPI_BLOCK_SIZE = 3
  WaitBlocks = 2
  MaxBlocks = 4
  CmdTimeout = 2
INVARIANTS HeadInStep TrackDecoded
PROPERTIES GoodTrackTaken ImplementsDiskCapture HostEnds
