\* Short tracks with any two damaged cells.
SPECIFICATION Spec
CONSTANTS
  Tracks <- ShortTracks
  Damages = {"split", "index", "timer", "flip", "slow", "weak", "overrun", "long", "longlow"}
  MaxDamages = 2
  DataCells = 1
  NumSectors = 3
INVARIANTS AnalyzerSound IndexInPlace
