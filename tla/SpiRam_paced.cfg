\* Two sessions of a stream as slow as the flux of a disk, over both chips to
\* exactly their capacity: 2 * (3 * 7 - 3) = 36 bytes.
SPECIFICATION FairSpec
CONSTANTS
  NUM_BUFFER = 4
  BUFFER_SIZE = 7
  NUM_BANKS = 3
  NUM_CHIPS = 2
  MaxCode = 2
  BytesPerTransfer = 2
  PowerUpModes = {"seq"}
  MaxBytes = 36
  MaxSessions = 2
INVARIANTS StreamPlaced NoOverrun
PROPERTIES ImplementsByteStream ChipSwitchQuiet
