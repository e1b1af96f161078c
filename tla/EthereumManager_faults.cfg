SPECIFICATION ManagerFairSpec
CONSTANTS
  d1 = d1
  Deposit = {d1}
  NoDeposit = NoDeposit
  BlockOf <- MCBlockOf
  KeyRank <- MCKeyRank
  MaxNum = 1
  EthTip = 3
  Genesis = 1
  BlockConfig = 0
  ForceHeight = 0
  Faults = {"fetch", "proof", "execute", "slow", "others", "lost"}
  MaxCrash = 1
  MaxTx = 3
  First = 1
  MaxSeq = 6
  MaxBridge = 2
  NodeFaults = {"refuse", "timeout"}
INVARIANTS ManagerTypeOK HeaderNotPassed FlightAgrees
PROPERTIES Delivered
