\* Any session with a card of any kind, which may fail or be changed, and the timer.
SPECIFICATION FairSpec
CONSTANTS
  ReadyTime = 3
  TokenTime = 3
  InitTime = 8
  Retries = 4
  Kinds = {"SDHC", "SD1", "MMC"}
  MaxCount = 2
  MaxCalls = 3
INVARIANT CardProtocol
PROPERTIES OkMeansDone GoodCardServed CardIdentified CallsEnd
