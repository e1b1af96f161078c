SPECIFICATION FairSpec
CONSTANTS
  Sender = {s1, s2}
  MaxBridge = 5
  FirstHeight = 2
  Epoch = 1
  StartFlag = 0
  Word = 16
  Word32 = 8
  Faults = {"send"}
  MaxCrash = 0
  MaxNonce = 7
PROPERTIES ConfirmEnds
