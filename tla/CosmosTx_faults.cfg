SPECIFICATION FairSpec
CONSTANTS
  header = header
  proof = proof
  Thread = {header, proof}
  Prover = {proof}
  First = 1
  MaxSeq = 6
  Faults = {"refuse", "timeout", "forget"}
  MaxCrash = 2
INVARIANTS TypeOK UniqueSeq NoGap
PROPERTIES SendsEnd
