SPECIFICATION FairSpec
CONSTANTS
  d1 = d1
  d2 = d2
  Deposit = {d1, d2}
  NoDeposit = NoDeposit
  BlockOf <- MCBlockOf
  KeyRank <- MCKeyRank
  MaxNum = 2
  EthTip = 5
  Genesis = 1
  BlockConfig = 1
  ForceHeight = 0
  Faults = {"execute"}
  MaxCrash = 0
  MaxTx = 2
PROPERTIES FailedProofReturns
