SPECIFICATION FairSpec
CONSTANTS
  MaxEth = 9
  Genesis = 3
  BridgeStart = 1
  MaxBridge = 9
  ForceHeight = 0
  HeadersPerBatch = 1
  Word = 16
  Faults = {}
  MaxCrash = 1
  MaxPool = 2
PROPERTIES HeadersFlow
