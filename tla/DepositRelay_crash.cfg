SPECIFICATION FairSpec
CONSTANTS
  d1 = d1
  d2 = d2
  Deposit = {d1, d2}
  NoDeposit = NoDeposit
  BlockOf <- MCBlockOf
  KeyRank <- MCKeyRank
  MaxNum = 1
  EthTip = 5
  Genesis = 1
  BlockConfig = 1
  ForceHeight = 0
  Faults = {"proof", "execute", "lost"}
  MaxCrash = 2
  MaxTx = 4
INVARIANTS TypeOK Confirmed NothingMissed Accounted ClosedStaysClosed
PROPERTIES EventuallySubmitted
