SPECIFICATION FairSpec
CONSTANTS
  r1 = r1
  r2 = r2
  monitor = monitor
  Route = {r1, r2}
  Monitor = monitor
  ChanLen = 1
  MaxNonce = 3
  Faults = {"sign", "send", "answer", "nonce"}
  MaxCrash = 1
INVARIANTS TypeOK NoncesConserved OneHolder
PROPERTIES ImplementsAllocator WaitsEnd MonitorGoesOn
