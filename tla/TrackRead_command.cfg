\* One command with any status words, pulses 4 to 6 steps apart; or with a ring that refuses bytes.
SPECIFICATION FairSpec
CONSTANTS
  MaxIndex = 2
  NoIdxCount = 3
  Regimes <- SampledOrLossy
INVARIANTS IndicesRight CleanTrackIsWhole
PROPERTIES Terminates
