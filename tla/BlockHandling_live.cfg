SPECIFICATION HandlingFairSpec
CONSTANTS
  s1 = s1
  s2 = s2
  Sender = {s1, s2}
  Senders <- MCSenders
  MaxBridge = 5
  FirstHeight = 2
  Epoch = 1
  StartFlag = 0
  Word = 16
  Word32 = 8
  Faults = {"rpc"}
  MaxCrash = 1
  MaxNonce = 7
  TxsOf <- MCTxsOf
  ValsOf <- MCValsOf
  PerPage = 2
  Balances = {0, 1, 3}
  Int64 = 8
  MaxFail = 2
INVARIANTS HandlingTypeOK BlockComplete ChoiceByBalance
PROPERTIES ImplementsBridgeRelay AllRelayed ConfirmEnds
