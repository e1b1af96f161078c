SPECIFICATION FairSpec
CONSTANTS
  MaxEth = 9
  Genesis = 3
  BridgeStart = 1
  MaxBridge = 2
  ForceHeight = 0
  HeadersPerBatch = 2
  Word = 16
  Faults = {}
  MaxCrash = 0
  MaxPool = 2
PROPERTIES HeadersFlow
