\* Bytes faster than the DMA: the ring overruns, the writer may lap the buffer
\* being sent, and the stream may pass the capacity of the chips (10 bytes).
SPECIFICATION FairSpec
CONSTANTS
  NUM_BUFFER = 4
  BUFFER_SIZE = 4
  NUM_BANKS = 2
  NUM_CHIPS = 2
  MaxCode = 3
  BytesPerTransfer = 18
  PowerUpModes = {"seq"}
  MaxBytes = 18
  MaxSessions = 1
INVARIANTS RingSound
PROPERTIES DropOnlyWhenRingFull FlushTerminates
