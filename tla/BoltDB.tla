------------------------------- MODULE BoltDB -------------------------------
(***************************************************************************)
(* The relayer's local database (db/db.go): the Retry bucket, whose keys   *)
(* are the deposits still to be relayed, and the Check bucket, which maps  *)
(* the hash of a submitted proof transaction to its deposit.  Every        *)
(* operation takes the database lock for the whole of one bolt             *)
(* transaction, so each is one atomic and durable step.  The Height bucket *)
(* is used by the other manager only and is modelled with it.              *)
(***************************************************************************)
EXTENDS Integers, FiniteSets

CONSTANTS
  Deposit,   \* the deposits, each standing for one serialised CrossTransfer
  KeyRank,   \* the position of a deposit in the byte order of the keys
  MaxNum     \* MAX_NUM, the most entries one listing returns

ASSUME KeyRankAssumption ==
  /\ KeyRank \in [Deposit -> Nat]
  /\ \A j, k \in Deposit : KeyRank[j] = KeyRank[k] => j = k

ASSUME MaxNumAssumption == MaxNum \in Nat \ {0}

VARIABLES
  retryBkt,  \* set of deposits: the keys of the Retry bucket
  checkBkt   \* set of <<transaction, deposit>>: the Check bucket

(***************************************************************************)
(* Writing a key that is there already leaves the Retry bucket as it was.  *)
(***************************************************************************)
PutRetry(d) == retryBkt' = retryBkt \cup {d}

DeleteRetry(d) == retryBkt' = retryBkt \ {d}

PutCheck(t, d) ==
  checkBkt' = {e \in checkBkt : e[1] # t} \cup {<<t, d>>}

DeleteCheck(t) == checkBkt' = {e \in checkBkt : e[1] # t}

(***************************************************************************)
(* A listing walks the bucket in key order and stops after MaxNum entries. *)
(* Transaction hashes are in no particular order, so for the Check bucket  *)
(* any MaxNum entries may be the first ones.                               *)
(***************************************************************************)
Before(d) == {k \in retryBkt : KeyRank[k] < KeyRank[d]}

\* A wrong variant: the listing stops one entry too early.
GetAllRetryShort == {d \in retryBkt : Cardinality(Before(d)) + 1 < MaxNum}

GetAllRetry == {d \in retryBkt : Cardinality(Before(d)) < MaxNum}

GetAllCheck ==
  IF Cardinality(checkBkt) <= MaxNum
  THEN {checkBkt}
  ELSE {S \in SUBSET checkBkt : Cardinality(S) = MaxNum}
=============================================================================
