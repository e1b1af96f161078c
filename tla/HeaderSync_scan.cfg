SPECIFICATION Spec
CONSTANTS
  MaxEth = 7
  Genesis = 2
  BridgeStart = 1
  MaxBridge = 3
  ForceHeight = 1
  HeadersPerBatch = 2
  Word = 8
  Faults = {"rpc", "lag", "refuse", "parent", "execute", "others"}
  MaxCrash = 2
  MaxPool = 2
INVARIANTS TypeOK Linkable FetchedFirst
PROPERTIES OnlyConfirmedBlocks ImplementsScan
