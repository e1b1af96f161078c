SPECIFICATION Spec
CONSTANTS
  Sender = {s1, s2}
  MaxBridge = 5
  FirstHeight = 2
  Epoch = 2
  StartFlag = 0
  Word = 16
  Word32 = 8
  Faults = {"rpc", "pack", "nonce", "send", "revert", "db"}
  MaxCrash = 1
  MaxNonce = 2
INVARIANTS TypeOK NoneSkipped OnlyConfirmedBlocks
