SPECIFICATION Spec
CONSTANTS
  d1 = d1
  d2 = d2
  Deposit = {d1, d2}
  NoDeposit = NoDeposit
  BlockOf <- MCSameBlock
  KeyRank <- MCKeyRank
  MaxNum = 1
  EthTip = 4
  Genesis = 1
  BlockConfig = 1
  ForceHeight = 1
  Faults = {"fetch", "db", "proof", "reject", "execute", "others", "slow", "lost"}
  MaxCrash = 1
  MaxTx = 2
INVARIANTS Confirmed NotForgotten CheckNamesDeposit
