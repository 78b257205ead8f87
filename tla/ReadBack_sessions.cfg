\* Two sessions that may fill both chips to the last byte, then any commands;
\* chips that may be in byte mode until a session or a memory test sets them.
SPECIFICATION SpecReadBack
CONSTANTS
  NUM_BUFFER = 2
  BUFFER_SIZE = 6
  NUM_BANKS = 2
  NUM_CHIPS = 2
  MaxCode = 1
  BytesPerTransfer = 2
  PowerUpModes = {"seq", "byte"}
  MaxBytes = 18
  MaxSessions = 2
  MaxCommands = 2
INVARIANTS CheckTrustworthy SavedFileIsTrack
