--------------------------- MODULE EthSendProofs ---------------------------
(***************************************************************************)
(* The nonces of an account, for any number of routes, of nonces and of    *)
(* transactions in a channel, with all failures and crashes.               *)
(***************************************************************************)
EXTENDS EthSend, Arithmetic, SequenceTheorems, FiniteSetTheorems

Ascending(s) == \A i, j \in 1..Len(s) : i < j => s[i] < s[j]

(***************************************************************************)
(* The permutation that sorts: what is above the new nonce moves up.       *)
(***************************************************************************)
LEMMA SorterExists ==
  ASSUME NEW n \in Nat, returnedNonce \in Seq(Nat), Ascending(returnedNonce)
  PROVE  LET s == Append(returnedNonce, n)
         IN  \E q \in Bijection(DOMAIN s, DOMAIN s) : Sorts(q, s)
  <1>. DEFINE r == returnedNonce
              L == Len(r)
              s == Append(r, n)
              Above == {i \in 1..L + 1 : i = L + 1 \/ n < r[i]}
  <1>1. /\ L \in Nat /\ DOMAIN s = 1..L + 1 /\ s[L + 1] = n
        /\ \A i \in 1..L : r[i] \in Nat /\ s[i] = r[i]
    BY AppendProperties, LenProperties
  <1>2. Above \subseteq Nat /\ L + 1 \in Above
    BY <1>1
  <1>3. PICK k \in Above : \A i \in Above : k <= i
    <2>. HIDE DEF Above
    <2>. QED
      BY <1>2, Least
  <1>4. k \in 1..L + 1 /\ \A i \in 1..k - 1 : i \in 1..L /\ r[i] <= n
    <2>1. k \in 1..L + 1
      BY <1>3
    <2>. SUFFICES ASSUME NEW i \in 1..k - 1 PROVE i \in 1..L /\ r[i] <= n
      BY <2>1
    <2>2. i \in 1..L /\ i < k /\ r[i] \in Nat
      BY <1>1, <2>1
    <2>3. i \notin Above
      <3>1. i \in Nat /\ k \in Nat /\ ~(k <= i)
        BY <2>1, <2>2
      <3>. QED
        BY <1>3, <3>1
    <2>. QED
      BY <1>1, <2>2, <2>3
  <1>5. \A i \in k..L : n < r[i]
    <2>. SUFFICES ASSUME NEW i \in k..L PROVE n < r[i]
      OBVIOUS
    <2>1. k \in 1..L /\ i \in 1..L /\ k <= i
      BY <1>1, <1>4
    <2>2. n < r[k] /\ r[k] \in Nat /\ r[i] \in Nat
      BY <1>1, <1>3, <2>1
    <2>3. k = i \/ r[k] < r[i]
      BY <2>1 DEF Ascending
    <2>. QED
      BY <2>2, <2>3
  <1>. DEFINE q == [i \in 1..L + 1 |-> IF i < k THEN i
                                       ELSE IF i = k THEN L + 1 ELSE i - 1]
  <1>. HIDE DEF Above
  <1>6. q \in Bijection(1..L + 1, 1..L + 1)
    <2>1. q \in [1..L + 1 -> 1..L + 1]
      BY <1>1, <1>4
    <2>2. \A i, j \in 1..L + 1 : q[i] = q[j] => i = j
      BY <1>1, <1>4
    <2>3. \A j \in 1..L + 1 : \E i \in 1..L + 1 : q[i] = j
      <3>. SUFFICES ASSUME NEW j \in 1..L + 1
                    PROVE  \E i \in 1..L + 1 : q[i] = j
        OBVIOUS
      <3>1. CASE j < k
        BY <1>4, <3>1
      <3>2. CASE j = L + 1
        BY <1>4, <3>2
      <3>3. CASE k <= j /\ j < L + 1
        <4>1. j + 1 \in 1..L + 1 /\ q[j + 1] = j
          BY <1>1, <1>4, <3>3
        <4>. QED
          BY <4>1
      <3>. QED
        BY <1>1, <1>4, <3>1, <3>2, <3>3
    <2>. HIDE DEF q
    <2>. QED
      BY <2>1, <2>2, <2>3 DEF Bijection, Injection, Surjection, IsInjective
  <1>7. ASSUME NEW i \in 1..L + 1, NEW j \in 1..L + 1, i < j
        PROVE  s[q[i]] <= s[q[j]]
    <2>. HIDE DEF s
    <2>1. CASE j < k
      <3>1. i \in 1..L /\ j \in 1..L /\ q[i] = i /\ q[j] = j
        BY <1>1, <1>4, <1>7, <2>1
      <3>. QED
        BY <1>1, <1>7, <3>1 DEF Ascending
    <2>2. CASE j = k
      <3>1. i \in 1..k - 1 /\ q[i] = i /\ q[j] = L + 1
        BY <1>1, <1>4, <1>7, <2>2
      <3>. QED
        BY <1>1, <1>4, <3>1
    <2>3. CASE k < j /\ i < k
      <3>1. i \in 1..L /\ j - 1 \in 1..L /\ i < j - 1
            /\ q[i] = i /\ q[j] = j - 1
        BY <1>1, <1>4, <1>7, <2>3
      <3>2. r[i] < r[j - 1]
        BY <3>1 DEF Ascending
      <3>3. /\ s[i] = r[i] /\ s[j - 1] = r[j - 1]
            /\ r[i] \in Nat /\ r[j - 1] \in Nat
        BY <1>1, <3>1
      <3>. HIDE DEF q, r
      <3>. QED
        BY <3>1, <3>2, <3>3
    <2>4. CASE k < j /\ i = k
      <3>1. j - 1 \in k..L /\ j - 1 \in 1..L /\ q[i] = L + 1 /\ q[j] = j - 1
        BY <1>1, <1>4, <1>7, <2>4
      <3>. QED
        BY <1>1, <1>5, <3>1
    <2>5. CASE k < i
      <3>1. i - 1 \in 1..L /\ j - 1 \in 1..L /\ i - 1 < j - 1
            /\ q[i] = i - 1 /\ q[j] = j - 1
        BY <1>1, <1>4, <1>7, <2>5
      <3>2. r[i - 1] < r[j - 1]
        BY <3>1 DEF Ascending
      <3>3. /\ s[i - 1] = r[i - 1] /\ s[j - 1] = r[j - 1]
            /\ r[i - 1] \in Nat /\ r[j - 1] \in Nat
        BY <1>1, <3>1
      <3>. HIDE DEF q, r
      <3>. QED
        BY <3>1, <3>2, <3>3
    <2>. QED
      BY <1>1, <1>4, <1>7, <2>1, <2>2, <2>3, <2>4, <2>5
  <1>8. q \in Bijection(DOMAIN s, DOMAIN s) /\ Sorts(q, s)
    <2>. HIDE DEF q, s
    <2>. QED
      BY <1>1, <1>6, <1>7 DEF Sorts
  <1>. QED
    BY <1>8

(***************************************************************************)
(* A nonce that is returned is put in its place.                           *)
(***************************************************************************)
LEMMA ReturnedSorted ==
  ASSUME NEW n \in Nat, returnedNonce \in Seq(Nat), Ascending(returnedNonce),
         n \notin Range(returnedNonce)
  PROVE  /\ Returned(n) \in Seq(Nat) /\ Ascending(Returned(n))
         /\ Range(Returned(n)) = Range(returnedNonce) \cup {n}
  <1>. DEFINE r == returnedNonce
              L == Len(r)
              s == Append(r, n)
              p == CHOOSE q \in Bijection(DOMAIN s, DOMAIN s) : Sorts(q, s)
              t == [i \in DOMAIN s |-> s[p[i]]]
  <1>1. /\ L \in Nat /\ DOMAIN s = 1..L + 1 /\ s[L + 1] = n
        /\ \A i \in 1..L : r[i] \in Nat /\ s[i] = r[i]
    BY AppendProperties, LenProperties
  <1>2. p \in Bijection(DOMAIN s, DOMAIN s) /\ Sorts(p, s)
    BY SorterExists
  <1>3. Returned(n) = t
    BY DEF Returned
  <1>. HIDE DEF p
  <1>4. /\ p \in [1..L + 1 -> 1..L + 1]
        /\ \A i, j \in 1..L + 1 : p[i] = p[j] => i = j
        /\ \A j \in 1..L + 1 : \E i \in 1..L + 1 : p[i] = j
    BY <1>1, <1>2 DEF Bijection, Injection, Surjection, IsInjective
  <1>5. \A i \in 1..L : r[i] # n
    BY LenProperties DEF Range
  <1>6. \A i, j \in 1..L + 1 : s[i] = s[j] => i = j
    <2>1. \A i, j \in 1..L : r[i] = r[j] => i = j
      <3>. SUFFICES ASSUME NEW i \in 1..L, NEW j \in 1..L, r[i] = r[j]
                    PROVE  i = j
        OBVIOUS
      <3>1. ~(r[i] < r[j]) /\ ~(r[j] < r[i])
        BY <1>1
      <3>2. ~(i < j) /\ ~(j < i)
        BY <3>1 DEF Ascending
      <3>. QED
        BY <1>1, <3>2
    <2>. HIDE DEF s
    <2>. QED
      BY <1>1, <1>5, <2>1
  <1>7. \A i \in 1..L + 1 : s[i] \in Nat
    <2>. HIDE DEF s
    <2>. QED
      BY <1>1
  <1>8. t \in [1..L + 1 -> Nat] /\ L + 1 \in Nat
    <2>1. \A i \in 1..L + 1 : p[i] \in 1..L + 1
      BY <1>4
    <2>2. \A i \in 1..L + 1 : s[p[i]] \in Nat
      BY <1>7, <2>1
    <2>. HIDE DEF s, L
    <2>. QED
      BY <1>1, <2>2
  <1>9. t \in Seq(Nat) /\ Len(t) = L + 1
    <2>. HIDE DEF t
    <2>. QED
      BY <1>8, LenProperties
  <1>10. ASSUME NEW i \in 1..L + 1, NEW j \in 1..L + 1, i < j
         PROVE  t[i] < t[j]
    <2>. HIDE DEF s
    <2>1. t[i] <= t[j]
      BY <1>1, <1>2, <1>10 DEF Sorts
    <2>2. t[i] # t[j]
      <3>1. p[i] \in 1..L + 1 /\ p[j] \in 1..L + 1 /\ i # j
        <4>1. p[i] \in 1..L + 1 /\ p[j] \in 1..L + 1
          BY <1>4
        <4>2. i # j
          BY <1>10
        <4>. QED
          BY <4>1, <4>2
      <3>2. p[i] # p[j]
        BY <1>4, <3>1
      <3>3. s[p[i]] # s[p[j]]
        BY <1>6, <3>1, <3>2
      <3>. QED
        BY <1>1, <3>3
    <2>. QED
      BY <1>8, <2>1, <2>2
  <1>11. Range(t) = Range(s)
    <2>1. DOMAIN t = 1..L + 1 /\ DOMAIN s = 1..L + 1
          /\ \A i \in 1..L + 1 : t[i] = s[p[i]]
      BY <1>1
    <2>. HIDE DEF s, t, L
    <2>2. Range(t) \subseteq Range(s)
      BY <1>4, <2>1 DEF Range
    <2>3. Range(s) \subseteq Range(t)
      BY <1>4, <2>1 DEF Range
    <2>. QED
      BY <2>2, <2>3
  <1>12. Range(s) = Range(r) \cup {n}
    <2>1. DOMAIN r = 1..L
      BY LenProperties
    <2>2. \A i \in 1..L + 1 : i = L + 1 \/ i \in 1..L
      BY <1>1
    <2>3. \A i \in 1..L : i \in 1..L + 1
      BY <1>1
    <2>4. L + 1 \in 1..L + 1
      BY <1>1
    <2>. HIDE DEF s, r, L
    <2>. QED
      BY <1>1, <2>1, <2>2, <2>3, <2>4 DEF Range
  <1>. HIDE DEF t
  <1>. QED
    BY <1>3, <1>9, <1>10, <1>11, <1>12 DEF Ascending

-----------------------------------------------------------------------------
(***************************************************************************)
(* A nonce that was given out has one place: one goroutine has it, or it   *)
(* waits, once, among the returned ones.  A dead process has none.         *)
(***************************************************************************)
GivenOut(n) == addressNonce \in Nat /\ n < addressNonce

Owned ==
  /\ \A p \in Holders : GivenOut(nonce[p]) /\ nonce[p] < MaxNonce
  /\ \A p, q \in Holders : nonce[p] = nonce[q] => p = q
  /\ \A n \in Range(returnedNonce) :
       GivenOut(n) /\ \A p \in Holders : nonce[p] # n
  /\ Ascending(returnedNonce)
  /\ ~up => Holders = {}

IInv == TypeOK /\ Owned

Steps == {"none", "idle", "put", "nonce"} \cup Holding

LEMMA FunctionIsSeq ==
  ASSUME NEW S, NEW m \in Nat, NEW f \in [1..m -> S]
  PROVE  f \in Seq(S)
  OBVIOUS

LEMMA ElementsOf ==
  ASSUME NEW S, NEW z \in Seq(S)
  PROVE  /\ Range(z) \subseteq S
         /\ \A i \in 1..Len(z) : z[i] \in Range(z)
  <1>1. DOMAIN z = 1..Len(z)
    BY LenProperties
  <1>2. \A i \in 1..Len(z) : z[i] \in S
    BY ElementOfSeq
  <1>. QED
    BY <1>1, <1>2 DEF Range

(***************************************************************************)
(* Ethereum expects the first nonce it has not taken.                      *)
(***************************************************************************)
LEMMA PendingNonceTyped ==
  ASSUME TypeOK
  PROVE  /\ PendingNonceAt \in 0..MaxNonce
         /\ ~Taken(PendingNonceAt)
         /\ \A k \in 0..PendingNonceAt - 1 : Taken(k)
  <1>. DEFINE Free == {n \in ethNonce..MaxNonce : ~Taken(n)}
  <1>1. /\ MaxNonce \in Nat /\ ethNonce \in 0..MaxNonce
        /\ pool \subseteq 0..MaxNonce - 1
    BY SendAssumption DEF TypeOK
  <1>2. Free \subseteq Nat /\ MaxNonce \in Free
    BY <1>1 DEF Taken
  <1>3. PICK n \in Free : \A m \in Free : n <= m
    <2>. HIDE DEF Free
    <2>. QED
      BY <1>2, Least
  <1>4. \A k \in ethNonce..n - 1 : Taken(k)
    <2>. TAKE k \in ethNonce..n - 1
    <2>1. k \in ethNonce..MaxNonce /\ ~(n <= k)
      BY <1>1, <1>3
    <2>. QED
      BY <1>3, <2>1
  <1>5. \E m \in ethNonce..MaxNonce :
          ~Taken(m) /\ \A k \in ethNonce..m - 1 : Taken(k)
    BY <1>3, <1>4
  <1>. DEFINE c == PendingNonceAt
  <1>6. /\ c \in ethNonce..MaxNonce /\ ~Taken(c)
        /\ \A k \in ethNonce..c - 1 : Taken(k)
    BY <1>5 DEF PendingNonceAt
  <1>. HIDE DEF c
  <1>7. \A k \in 0..c - 1 : Taken(k)
    <2>. TAKE k \in 0..c - 1
    <2>1. CASE k < ethNonce
      BY <2>1 DEF Taken
    <2>2. CASE ~(k < ethNonce)
      BY <1>1, <1>6, <2>2
    <2>. QED
      BY <2>1, <2>2
  <1>8. c \in 0..MaxNonce
    BY <1>1, <1>6
  <1>. QED
    BY <1>6, <1>7, <1>8 DEF c

LEMMA InitHolds == Init => IInv
  <1>. SUFFICES ASSUME Init PROVE IInv
    OBVIOUS
  <1>1. MaxNonce \in Nat /\ MaxCrash \in Nat /\ ChanLen \in Nat
    BY SendAssumption
  <1>2. NoRoute \in Route
    BY SendAssumption DEF NoRoute
  <1>3. up \in BOOLEAN /\ mixed \in BOOLEAN
    BY DEF Init
  <1>4. pc \in [Thread -> Steps] /\ Holders = {}
    BY DEF Init, Steps, Holders, Holding
  <1>5. returnedNonce = <<>> /\ returnedNonce \in Seq(0..MaxNonce - 1)
    BY DEF Init
  <1>6. TypeOK
    BY <1>1, <1>2, <1>3, <1>4, <1>5 DEF Init, TypeOK, Steps, Unknown
  <1>7. Range(returnedNonce) = {} /\ Ascending(returnedNonce)
    BY <1>5 DEF Range, Ascending
  <1>. QED
    BY <1>4, <1>6, <1>7 DEF IInv, Owned

(***************************************************************************)
(* What a goroutine that gives up leaves behind.                           *)
(***************************************************************************)
LEMMA GivenUp ==
  ASSUME IInv, NEW p \in Thread, pc[p] = "send", GiveUp(p)
  PROVE  /\ nonce[p] \in 0..MaxNonce - 1
         /\ returnedNonce' \in Seq(0..MaxNonce - 1)
         /\ Ascending(returnedNonce')
         /\ Range(returnedNonce') =
              IF p = Monitor THEN Range(returnedNonce)
              ELSE Range(returnedNonce) \cup {nonce[p]}
         /\ Holders' = Holders \ {p} /\ p \in Holders
         /\ \A q \in Holders' : nonce'[q] = nonce[q]
         /\ pc' \in [Thread -> Steps]
         /\ nonce' \in [Thread -> 0..MaxNonce]
  <1>1. /\ returnedNonce \in Seq(0..MaxNonce - 1) /\ MaxNonce \in Nat
        /\ pc \in [Thread -> Steps] /\ nonce \in [Thread -> 0..MaxNonce]
    BY SendAssumption DEF IInv, TypeOK, Steps
  <1>2. p \in Holders
    BY DEF Holders, Holding
  <1>3. nonce[p] \in 0..MaxNonce - 1 /\ nonce[p] \notin Range(returnedNonce)
    BY <1>1, <1>2 DEF IInv, Owned
  <1>4. /\ returnedNonce \in Seq(Nat) /\ Ascending(returnedNonce)
        /\ Range(returnedNonce) \subseteq 0..MaxNonce - 1
    BY <1>1, ElementsOf DEF IInv, Owned
  <1>5. /\ returnedNonce' \in Seq(0..MaxNonce - 1)
        /\ Ascending(returnedNonce')
        /\ Range(returnedNonce') =
             IF p = Monitor THEN Range(returnedNonce)
             ELSE Range(returnedNonce) \cup {nonce[p]}
    <2>1. CASE p = Monitor
      BY <1>1, <1>4, <2>1 DEF GiveUp
    <2>2. CASE p # Monitor
      <3>. DEFINE t == Returned(nonce[p])
      <3>1. returnedNonce' = t
        BY <2>2 DEF GiveUp
      <3>2. /\ t \in Seq(Nat) /\ Ascending(t)
            /\ Range(t) = Range(returnedNonce) \cup {nonce[p]}
        BY <1>3, <1>4, ReturnedSorted
      <3>. HIDE DEF t
      <3>3. \A i \in 1..Len(t) : t[i] \in 0..MaxNonce - 1
        <4>1. \A i \in 1..Len(t) : t[i] \in Range(t)
          BY <3>2, ElementsOf
        <4>. QED
          BY <1>3, <1>4, <3>2, <4>1
      <3>4. t \in Seq(0..MaxNonce - 1)
        <4>1. t = [i \in 1..Len(t) |-> t[i]] /\ Len(t) \in Nat
          BY <3>2, LenProperties
        <4>2. t \in [1..Len(t) -> 0..MaxNonce - 1]
          BY <3>3, <4>1, Zenon
        <4>. QED
          BY <4>1, <4>2, FunctionIsSeq
      <3>. QED
        BY <2>2, <3>1, <3>2, <3>4
    <2>. QED
      BY <2>1, <2>2
  <1>6. Holders' = Holders \ {p} /\ pc' \in [Thread -> Steps]
    BY <1>1 DEF GiveUp, At, Holders, Holding, Steps
  <1>7. /\ nonce' \in [Thread -> 0..MaxNonce]
        /\ \A q \in Holders' : nonce'[q] = nonce[q]
    BY <1>1, <1>6 DEF GiveUp, Holders
  <1>. QED
    BY <1>2, <1>3, <1>5, <1>6, <1>7

(***************************************************************************)
(* The smallest returned nonce leaves the array.                           *)
(***************************************************************************)
LEMMA Reused ==
  ASSUME IInv, NEW p \in Thread, pc[p] = "nonce",
         ReuseNonce(p), At(p, "send")
  PROVE  /\ nonce'[p] \in Range(returnedNonce)
         /\ nonce'[p] \in 0..MaxNonce - 1
         /\ \A k \in Range(returnedNonce) : nonce'[p] <= k
         /\ returnedNonce' \in Seq(0..MaxNonce - 1)
         /\ Ascending(returnedNonce')
         /\ Range(returnedNonce') = Range(returnedNonce) \ {nonce'[p]}
         /\ Holders' = Holders \cup {p} /\ p \notin Holders
         /\ \A q \in Holders : nonce'[q] = nonce[q]
         /\ pc' \in [Thread -> Steps]
         /\ nonce' \in [Thread -> 0..MaxNonce]
  <1>. DEFINE r == returnedNonce
              L == Len(r)
              n == nonce'[p]
  <1>1. /\ r \in Seq(0..MaxNonce - 1) /\ MaxNonce \in Nat
        /\ pc \in [Thread -> Steps] /\ nonce \in [Thread -> 0..MaxNonce]
    BY SendAssumption DEF IInv, TypeOK, Steps
  <1>2. Ascending(r)
    BY DEF IInv, Owned
  <1>3. r # <<>> /\ r' = Tail(r) /\ n = Head(r)
    BY <1>1 DEF ReuseNonce
  <1>4. L \in Nat \ {0} /\ n = r[1] /\ DOMAIN r = 1..L
    BY <1>1, <1>3, LenProperties, EmptySeq
  <1>5. /\ r' \in Seq(0..MaxNonce - 1) /\ Len(r') = L - 1
        /\ \A i \in 1..L - 1 : r'[i] = r[i + 1]
    BY <1>1, <1>3, <1>4, HeadTailProperties
  <1>6. \A i \in 1..L : r[i] \in 0..MaxNonce - 1
    BY <1>1, ElementOfSeq
  <1>7. n \in 0..MaxNonce - 1
    BY <1>4, <1>6
  <1>8. Ascending(r')
    BY <1>2, <1>4, <1>5 DEF Ascending
  <1>9. \A i \in 2..L : n < r[i]
    BY <1>2, <1>4 DEF Ascending
  <1>10. n \in Range(r) /\ \A k \in Range(r) : n <= k
    <2>1. \A i \in 1..L : n <= r[i]
      BY <1>4, <1>6, <1>7, <1>9
    <2>2. 1 \in 1..L
      BY <1>4
    <2>. QED
      BY <1>4, <2>1, <2>2 DEF Range
  <1>11. Range(r') = Range(r) \ {n}
    <2>1. DOMAIN r' = 1..L - 1
      BY <1>5, LenProperties
    <2>2. ASSUME NEW x \in Range(r') PROVE x \in Range(r) \ {n}
      <3>1. PICK i \in 1..L - 1 : x = r[i + 1]
        BY <1>5, <2>1, <2>2 DEF Range
      <3>2. i + 1 \in 2..L /\ i + 1 \in 1..L
        BY <1>4
      <3>3. x # n
        BY <1>6, <1>7, <1>9, <3>1, <3>2
      <3>. QED
        BY <1>4, <3>1, <3>2, <3>3 DEF Range
    <2>3. ASSUME NEW x \in Range(r) \ {n} PROVE x \in Range(r')
      <3>1. PICK i \in 1..L : x = r[i]
        BY <1>4, <2>3 DEF Range
      <3>2. i # 1
        BY <1>4, <2>3, <3>1
      <3>3. i - 1 \in 1..L - 1 /\ r'[i - 1] = r[i]
        BY <1>4, <1>5, <3>2
      <3>. QED
        BY <2>1, <3>1, <3>3 DEF Range
    <2>. QED
      BY <2>2, <2>3
  <1>12. Holders' = Holders \cup {p} /\ p \notin Holders
         /\ pc' \in [Thread -> Steps]
    BY <1>1 DEF At, Holders, Holding, Steps
  <1>13. /\ nonce' \in [Thread -> 0..MaxNonce]
         /\ \A q \in Holders : nonce'[q] = nonce[q]
    BY <1>1, <1>3, <1>7, <1>12 DEF ReuseNonce, Holders
  <1>. QED
    BY <1>5, <1>7, <1>8, <1>10, <1>11, <1>12, <1>13

(***************************************************************************)
(* A new nonce is larger than all that were given out.                     *)
(***************************************************************************)
LEMMA Fresh ==
  ASSUME IInv, NEW p \in Thread, pc[p] = "nonce",
         NewNonce(p), At(p, "send")
  PROVE  /\ nonce'[p] \in 0..MaxNonce - 1
         /\ addressNonce' = nonce'[p] + 1
         /\ addressNonce # Unknown => nonce'[p] = addressNonce
         /\ addressNonce = Unknown => Holders = {}
         /\ returnedNonce = <<>> /\ returnedNonce' = <<>>
         /\ Holders' = Holders \cup {p} /\ p \notin Holders
         /\ \A q \in Holders : nonce'[q] = nonce[q]
         /\ pc' \in [Thread -> Steps]
         /\ nonce' \in [Thread -> 0..MaxNonce]
  <1>1. /\ MaxNonce \in Nat /\ addressNonce \in {Unknown} \cup 0..MaxNonce
        /\ pc \in [Thread -> Steps] /\ nonce \in [Thread -> 0..MaxNonce]
    BY SendAssumption DEF IInv, TypeOK, Steps
  <1>2. Asked \subseteq 0..MaxNonce
    BY <1>1, PendingNonceTyped DEF Asked, IInv
  <1>3. PICK n \in Asked :
          n < MaxNonce /\ nonce' = [nonce EXCEPT ![p] = n]
          /\ addressNonce' = n + 1
    BY DEF NewNonce
  <1>4. n \in 0..MaxNonce - 1 /\ nonce'[p] = n
    BY <1>1, <1>2, <1>3
  <1>5. addressNonce # Unknown => n = addressNonce
    BY <1>3 DEF Asked
  <1>6. addressNonce = Unknown => Holders = {}
    BY DEF IInv, Owned, GivenOut, Unknown
  <1>7. Holders' = Holders \cup {p} /\ p \notin Holders
        /\ pc' \in [Thread -> Steps]
    BY <1>1 DEF At, Holders, Holding, Steps
  <1>8. /\ nonce' \in [Thread -> 0..MaxNonce]
        /\ \A q \in Holders : nonce'[q] = nonce[q]
    BY <1>1, <1>3, <1>4, <1>7 DEF Holders
  <1>9. returnedNonce = <<>> /\ returnedNonce' = <<>>
    BY DEF NewNonce
  <1>. QED
    BY <1>3, <1>4, <1>5, <1>6, <1>7, <1>8, <1>9

-----------------------------------------------------------------------------
(***************************************************************************)
(* Every step keeps a nonce in one place.                                  *)
(***************************************************************************)
LEMMA OwnedKept ==
  ASSUME Owned, UNCHANGED manager, Holders' \subseteq Holders,
         \A q \in Holders' : nonce'[q] = nonce[q],
         up' = up
  PROVE  Owned'
  <1>1. Range(returnedNonce') = Range(returnedNonce)
        /\ (Ascending(returnedNonce))'
    BY DEF Owned, manager, Ascending
  <1>2. \A n : (GivenOut(n))' = GivenOut(n)
    BY DEF GivenOut, manager
  <1>. QED
    BY <1>1, <1>2 DEF Owned

LEMMA OwnedStep == IInv /\ [Next]_vars => Owned'
  <1>. SUFFICES ASSUME IInv, [Next]_vars PROVE Owned'
    OBVIOUS
  <1>1. /\ Owned /\ MaxNonce \in Nat
        /\ pc \in [Thread -> Steps] /\ nonce \in [Thread -> 0..MaxNonce]
        /\ addressNonce \in {Unknown} \cup 0..MaxNonce
        /\ Monitor \in Thread /\ Route \subseteq Thread
    BY SendAssumption DEF IInv, TypeOK, Steps, Thread
  <1>2. \A p \in Holders : nonce[p] \in 0..MaxNonce - 1
    BY <1>1 DEF Owned, Holders
  <1>3. CASE GetRouter
    BY <1>1, <1>3, OwnedKept DEF GetRouter, Holders, Holding, proc
  <1>4. CASE PutInChannel
    BY <1>1, <1>4, OwnedKept DEF PutInChannel, At, Holders, Holding, proc
  <1>5. CASE CommitHeader
    BY <1>1, <1>5, OwnedKept DEF CommitHeader, At, Holders, Holding, proc
  <1>6. CASE UNCHANGED vars
    BY <1>1, <1>6, OwnedKept DEF vars, Holders, proc
  <1>7. ASSUME NEW r \in Route, TakeFromChannel(r) PROVE Owned'
    BY <1>1, <1>7, OwnedKept DEF TakeFromChannel, At, Holders, Holding, proc
  <1>8. ASSUME NEW p \in Thread, GetAddressNonce(p) PROVE Owned'
    <2>1. pc[p] = "nonce" /\ At(p, "send") /\ up /\ up'
      BY <1>8 DEF GetAddressNonce, proc
    <2>2. CASE ReuseNonce(p)
      <3>1. addressNonce' = addressNonce
        BY <2>2 DEF ReuseNonce
      <3>2. \A n \in Range(returnedNonce) :
              GivenOut(n) /\ \A q \in Holders : nonce[q] # n
        BY <1>1 DEF Owned
      <3>3. \A q \in Holders : nonce'[q] # nonce'[p]
        BY <2>1, <2>2, <3>2, Reused
      <3>4. \A q \in Holders' :
              (GivenOut(nonce[q]))' /\ nonce'[q] < MaxNonce
        <4>1. GivenOut(nonce'[p]) /\ nonce'[p] < MaxNonce
          BY <1>1, <2>1, <2>2, <3>2, Reused
        <4>2. \A q \in Holders :
                nonce'[q] = nonce[q] /\ GivenOut(nonce[q])
                /\ nonce[q] < MaxNonce
          BY <1>1, <2>1, <2>2, Reused DEF Owned
        <4>. QED
          BY <2>1, <2>2, <3>1, <4>1, <4>2, Reused DEF GivenOut
      <3>5. \A q, z \in Holders' : nonce'[q] = nonce'[z] => q = z
        BY <1>1, <2>1, <2>2, <3>3, Reused DEF Owned
      <3>6. \A n \in Range(returnedNonce') :
              (GivenOut(n))' /\ \A q \in Holders' : nonce'[q] # n
        BY <2>1, <2>2, <3>1, <3>2, Reused DEF GivenOut
      <3>7. Ascending(returnedNonce')
        BY <2>1, <2>2, Reused
      <3>. QED
        BY <2>1, <3>4, <3>5, <3>6, <3>7 DEF Owned, Ascending
    <2>3. CASE NewNonce(p)
      <3>1. \A q \in Holders :
              addressNonce \in Nat /\ nonce[q] < addressNonce
              /\ nonce'[q] = nonce[q] /\ nonce'[p] = addressNonce
        <4>1. addressNonce \in Nat => addressNonce # Unknown
          BY DEF Unknown
        <4>. QED
          BY <1>1, <2>1, <2>3, <4>1, Fresh DEF Owned, GivenOut
      <3>2. \A q \in Holders' :
              (GivenOut(nonce[q]))' /\ nonce'[q] < MaxNonce
        <4>1. addressNonce' \in Nat /\ nonce'[p] < addressNonce'
              /\ nonce'[p] < MaxNonce
          BY <1>1, <2>1, <2>3, Fresh
        <4>2. \A q \in Holders : nonce'[q] < addressNonce'
                                /\ nonce'[q] < MaxNonce
          BY <1>1, <1>2, <2>1, <2>3, <3>1, Fresh
        <4>. QED
          BY <2>1, <2>3, <4>1, <4>2, Fresh DEF GivenOut
      <3>3. \A q \in Holders : nonce'[q] # nonce'[p]
        BY <1>2, <3>1
      <3>4. \A q, z \in Holders' : nonce'[q] = nonce'[z] => q = z
        BY <1>1, <2>1, <2>3, <3>1, <3>3, Fresh DEF Owned
      <3>5. Range(returnedNonce') = {} /\ Ascending(returnedNonce')
        BY <2>1, <2>3, Fresh DEF Range, Ascending
      <3>. QED
        BY <2>1, <3>2, <3>4, <3>5 DEF Owned, Ascending
    <2>. QED
      BY <1>8, <2>2, <2>3 DEF GetAddressNonce
  <1>9. ASSUME NEW p \in Thread, pc[p] = "send", up, GiveUp(p)
        PROVE  Owned'
    <2>1. addressNonce' = addressNonce /\ up'
      BY <1>9 DEF GiveUp, proc
    <2>2. \A n : (GivenOut(n))' = GivenOut(n)
      BY <2>1 DEF GivenOut
    <2>3. /\ \A q \in Holders' : (GivenOut(nonce[q]))' /\ nonce'[q] < MaxNonce
          /\ \A q, z \in Holders' : nonce'[q] = nonce'[z] => q = z
      BY <1>1, <1>9, <2>2, GivenUp DEF Owned
    <2>4. \A n \in Range(returnedNonce') :
            (GivenOut(n))' /\ \A q \in Holders' : nonce'[q] # n
      <3>1. \A n \in Range(returnedNonce) :
              GivenOut(n) /\ \A q \in Holders : nonce[q] # n
        BY <1>1 DEF Owned
      <3>2. GivenOut(nonce[p]) /\ \A q \in Holders \ {p} : nonce[q] # nonce[p]
        BY <1>1, <1>9, GivenUp DEF Owned
      <3>. QED
        BY <1>9, <2>2, <3>1, <3>2, GivenUp
    <2>5. Ascending(returnedNonce')
      BY <1>9, GivenUp
    <2>. QED
      BY <2>1, <2>3, <2>4, <2>5 DEF Owned, Ascending
  <1>10. ASSUME NEW p \in Thread, SendTransaction(p) PROVE Owned'
    BY <1>1, <1>10, OwnedKept
    DEF SendTransaction, At, Holders, Holding, proc
  <1>11. ASSUME NEW p \in Thread, ConfirmTransaction(p) PROVE Owned'
    BY <1>1, <1>11, OwnedKept
    DEF ConfirmTransaction, At, Holders, Holding, proc
  <1>12. CASE Crash
    <2>1. Holders' = {} /\ returnedNonce' = <<>>
      BY <1>12 DEF Crash, Holders, Holding
    <2>. QED
      BY <2>1 DEF Owned, Range, Ascending
  <1>13. CASE Restart
    <2>1. Holders = {} /\ Holders' = {} /\ UNCHANGED manager
      BY <1>1, <1>13 DEF Restart, Owned, At, Holders, Holding
    <2>2. Range(returnedNonce') = Range(returnedNonce)
          /\ (Ascending(returnedNonce))' = Ascending(returnedNonce)
      BY <2>1 DEF manager, Ascending
    <2>3. \A n : (GivenOut(n))' = GivenOut(n)
      BY <2>1 DEF GivenOut, manager
    <2>. QED
      BY <1>1, <2>1, <2>2, <2>3 DEF Owned
  <1>14. CASE EthBlock
    BY <1>1, <1>14, OwnedKept DEF EthBlock, Holders, proc
  <1>. QED
    BY <1>3, <1>4, <1>5, <1>6, <1>7, <1>8, <1>9, <1>10, <1>11, <1>12,
       <1>13, <1>14
    DEF Next, Wait, SendTxToEth, NotSent, SentWithoutAnswer

-----------------------------------------------------------------------------
LEMMA TypingStep == IInv /\ [Next]_vars => TypeOK'
  <1>. SUFFICES ASSUME IInv, [Next]_vars PROVE TypeOK'
    OBVIOUS
  <1>. DEFINE Fixed ==
         /\ route \in Route /\ queue \in [Route -> 0..ChanLen]
         /\ up \in BOOLEAN /\ crashes \in 0..MaxCrash
              Nonces ==
         /\ pc \in [Thread -> Steps] /\ nonce \in [Thread -> 0..MaxNonce]
         /\ addressNonce \in {Unknown} \cup 0..MaxNonce
         /\ returnedNonce \in Seq(0..MaxNonce - 1)
              Chain ==
         /\ ethNonce \in 0..MaxNonce /\ pool \subseteq 0..MaxNonce - 1
         /\ gone \subseteq 0..MaxNonce - 1
  <1>1. /\ MaxNonce \in Nat /\ MaxCrash \in Nat /\ ChanLen \in Nat \ {0}
        /\ NoRoute \in Route
        /\ Monitor \in Thread /\ Route \subseteq Thread
    BY SendAssumption DEF NoRoute, Thread
  <1>2. Fixed /\ Nonces /\ Chain
    BY DEF IInv, TypeOK, Steps
  <1>3. mixed \in BOOLEAN
    BY DEF IInv, TypeOK
  <1>4. \A p \in Holders : nonce[p] \in 0..MaxNonce - 1
    BY <1>1, <1>2 DEF IInv, Owned, Holders
  <1>5. mixed' \in BOOLEAN
    <2>1. CASE UNCHANGED mixed
      BY <1>3, <2>1
    <2>2. ASSUME NEW p \in Thread, SendTxToEth(p) PROVE mixed' \in BOOLEAN
      <3>1. CASE GetAddressNonce(p)
        BY <1>3, <3>1, Zenon DEF GetAddressNonce, ReuseNonce, NewNonce
      <3>2. CASE SentWithoutAnswer(p)
        BY <1>3, <3>2, Zenon DEF SentWithoutAnswer
      <3>3. CASE NotSent(p) \/ SendTransaction(p) \/ ConfirmTransaction(p)
        BY <1>3, <3>3 DEF NotSent, SendTransaction, ConfirmTransaction, history
      <3>. QED
        BY <2>2, <3>1, <3>2, <3>3 DEF SendTxToEth
    <2>. QED
      BY <2>1, <2>2
      DEF Next, GetRouter, PutInChannel, CommitHeader, Wait, TakeFromChannel,
          Crash, Restart, EthBlock, vars, history
  <1>6. CASE GetRouter
    BY <1>1, <1>2, <1>5, <1>6
    DEF GetRouter, TypeOK, Steps, node, proc, manager, history
  <1>7. CASE PutInChannel
    BY <1>1, <1>2, <1>5, <1>7
    DEF PutInChannel, At, TypeOK, Steps, node, proc, manager, history
  <1>8. CASE CommitHeader
    BY <1>1, <1>2, <1>5, <1>8
    DEF CommitHeader, At, TypeOK, Steps, node, proc, manager, history
  <1>9. CASE UNCHANGED vars
    BY <1>2, <1>5, <1>9
    DEF TypeOK, Steps, vars, node, proc, manager, history
  <1>10. ASSUME NEW r \in Route, TakeFromChannel(r) PROVE TypeOK'
    BY <1>1, <1>2, <1>5, <1>10
    DEF TakeFromChannel, At, TypeOK, Steps, node, proc, manager, history
  <1>11. ASSUME NEW p \in Thread, GetAddressNonce(p) PROVE TypeOK'
    <2>1. pc[p] = "nonce" /\ At(p, "send")
          /\ (ReuseNonce(p) \/ NewNonce(p))
          /\ UNCHANGED <<node, proc, route, queue, gone>>
      BY <1>11 DEF GetAddressNonce
    <2>2. Fixed' /\ Chain'
      BY <1>2, <2>1 DEF node, proc
    <2>3. Nonces'
      <3>1. CASE ReuseNonce(p)
        BY <1>2, <2>1, <3>1, Reused DEF ReuseNonce
      <3>2. CASE NewNonce(p)
        BY <1>1, <1>2, <2>1, <3>2, Fresh
      <3>. QED
        BY <2>1, <3>1, <3>2
    <2>. QED
      BY <1>5, <2>2, <2>3 DEF TypeOK, Steps
  <1>12. ASSUME NEW p \in Thread, pc[p] = "send", GiveUp(p),
                Chain'
         PROVE  TypeOK'
    <2>1. Fixed' /\ Nonces'
      BY <1>2, <1>12, GivenUp DEF GiveUp, proc
    <2>. QED
      BY <1>5, <1>12, <2>1 DEF TypeOK, Steps
  <1>13. ASSUME NEW p \in Thread, NotSent(p) PROVE TypeOK'
    <2>1. pc[p] = "send" /\ GiveUp(p)
      BY <1>13 DEF NotSent
    <2>2. Chain'
      BY <1>2, <1>13, <2>1, GivenUp DEF NotSent, GiveUp
    <2>. QED
      BY <1>12, <2>1, <2>2
  <1>14. ASSUME NEW p \in Thread, SentWithoutAnswer(p) PROVE TypeOK'
    <2>1. pc[p] = "send" /\ GiveUp(p)
      BY <1>14 DEF SentWithoutAnswer
    <2>2. Chain'
      BY <1>2, <1>14, <2>1, GivenUp DEF SentWithoutAnswer, GiveUp
    <2>. QED
      BY <1>12, <2>1, <2>2
  <1>15. ASSUME NEW p \in Thread, SendTransaction(p) PROVE TypeOK'
    <2>1. p \in Holders
      BY <1>15 DEF SendTransaction, Holders, Holding
    <2>. QED
      BY <1>2, <1>4, <1>5, <1>15, <2>1
      DEF SendTransaction, At, TypeOK, Steps, Holding, proc, manager, history
  <1>16. ASSUME NEW p \in Thread, ConfirmTransaction(p) PROVE TypeOK'
    <2>1. UNCHANGED <<node, proc, route, queue, manager, history>>
      BY <1>16 DEF ConfirmTransaction
    <2>2. pc' \in [Thread -> Steps] /\ nonce' \in [Thread -> 0..MaxNonce]
      <3>1. CASE nonce[p] < ethNonce
        <4>1. pc' = [pc EXCEPT ![p] = "idle"]
              /\ nonce' = [nonce EXCEPT ![p] = 0]
          BY <1>16, <3>1 DEF ConfirmTransaction, At
        <4>. QED
          BY <1>1, <1>2, <4>1 DEF Steps
      <3>2. CASE ~(nonce[p] < ethNonce)
        BY <1>2, <1>16, <3>2 DEF ConfirmTransaction
      <3>. QED
        BY <3>1, <3>2
    <2>. QED
      BY <1>2, <1>5, <2>1, <2>2
      DEF TypeOK, Steps, node, proc, manager, history
  <1>17. CASE Crash
    <2>1. Fixed'
      <3>1. up' \in BOOLEAN
        BY <1>17 DEF Crash
      <3>. QED
        BY <1>1, <1>2, <1>17, <3>1 DEF Crash
    <2>2. Nonces'
      BY <1>1, <1>17, EmptySeq DEF Crash, Steps
    <2>3. Chain'
      BY <1>2, <1>17 DEF Crash, node
    <2>. QED
      BY <1>5, <2>1, <2>2, <2>3 DEF TypeOK, Steps
  <1>18. CASE Restart
    BY <1>1, <1>2, <1>5, <1>18
    DEF Restart, At, TypeOK, Steps, node, manager, history
  <1>19. CASE EthBlock
    BY <1>1, <1>2, <1>5, <1>19
    DEF EthBlock, TypeOK, Steps, proc, manager, history
  <1>. QED
    BY <1>6, <1>7, <1>8, <1>9, <1>10, <1>11, <1>13, <1>14, <1>15, <1>16,
       <1>17, <1>18, <1>19
    DEF Next, Wait, SendTxToEth

LEMMA Invariance == Spec => []IInv
  <1>1. Init => IInv
    BY InitHolds
  <1>2. IInv /\ [Next]_vars => IInv'
    BY OwnedStep, TypingStep DEF IInv
  <1>. QED
    BY <1>1, <1>2, PTL DEF Spec

(***************************************************************************)
(* Whatever fails, the variables keep their types; in particular a channel *)
(* never holds more than its capacity.                                     *)
(***************************************************************************)
THEOREM TypeCorrect == Spec => []TypeOK
  <1>1. IInv => TypeOK
    BY DEF IInv
  <1>. QED
    BY <1>1, Invariance, PTL

(***************************************************************************)
(* With any number of routes, and whatever fails, two goroutines never     *)
(* send with the same nonce, and GetAddressNonce never hands out one that  *)
(* a goroutine holds.                                                      *)
(***************************************************************************)
THEOREM NoncesUnshared == Spec => []OneHolder
  <1>1. IInv => OneHolder
    <2>. SUFFICES ASSUME IInv PROVE IsInjective(returnedNonce)
      BY DEF IInv, Owned, OneHolder
    <2>1. returnedNonce \in Seq(Nat) /\ Ascending(returnedNonce)
      BY SendAssumption DEF IInv, Owned, TypeOK
    <2>. QED
      BY <2>1 DEF Ascending, IsInjective
  <1>. QED
    BY <1>1, Invariance, PTL

-----------------------------------------------------------------------------
(***************************************************************************)
(* What the allocator sees of a step.                                      *)
(***************************************************************************)
HeldNonces == {nonce[p] : p \in Holders}

LEMMA Unseen ==
  ASSUME UNCHANGED manager, Holders' = Holders,
         \A q \in Holders : nonce'[q] = nonce[q]
  PROVE  UNCHANGED Allocator!allocVars
  <1>1. HeldNonces' = HeldNonces
    BY DEF HeldNonces
  <1>2. Range(returnedNonce') = Range(returnedNonce)
    BY DEF manager
  <1>. QED
    BY <1>1, <1>2 DEF Allocator!allocVars, manager, HeldNonces, Holders

LEMMA LeavesHeld ==
  ASSUME Owned, NEW p \in Holders, Holders' = Holders \ {p},
         \A q \in Holders' : nonce'[q] = nonce[q]
  PROVE  HeldNonces' = HeldNonces \ {nonce[p]} /\ nonce[p] \in HeldNonces
  BY DEF Owned, HeldNonces

LEMMA EntersHeld ==
  ASSUME NEW p, Holders' = Holders \cup {p},
         \A q \in Holders : nonce'[q] = nonce[q]
  PROVE  HeldNonces' \subseteq HeldNonces \cup {nonce'[p]}
         /\ HeldNonces \cup {nonce'[p]} \subseteq HeldNonces'
  BY DEF HeldNonces

LEMMA AllocStep == IInv /\ [Next]_vars
                     => [Allocator!AllocNext]_Allocator!allocVars
  <1>. SUFFICES ASSUME IInv, [Next]_vars
                PROVE  [Allocator!AllocNext]_Allocator!allocVars
    OBVIOUS
  <1>1. /\ Owned /\ MaxNonce \in Nat
        /\ pc \in [Thread -> Steps] /\ nonce \in [Thread -> 0..MaxNonce]
        /\ addressNonce \in {Unknown} \cup 0..MaxNonce
        /\ Monitor \in Thread /\ Route \subseteq Thread
    BY SendAssumption DEF IInv, TypeOK, Steps, Thread
  <1>2. CASE GetRouter
    BY <1>1, <1>2, Unseen DEF GetRouter, Holders, Holding
  <1>3. CASE PutInChannel
    BY <1>1, <1>3, Unseen DEF PutInChannel, At, Holders, Holding
  <1>4. CASE CommitHeader
    BY <1>1, <1>4, Unseen DEF CommitHeader, At, Holders, Holding
  <1>5. CASE UNCHANGED vars
    BY <1>1, <1>5, Unseen DEF vars, Holders
  <1>6. ASSUME NEW r \in Route, TakeFromChannel(r)
        PROVE  UNCHANGED Allocator!allocVars
    BY <1>1, <1>6, Unseen DEF TakeFromChannel, At, Holders, Holding
  <1>7. ASSUME NEW p \in Thread, GetAddressNonce(p)
        PROVE  Allocator!AllocNext
    <2>1. pc[p] = "nonce" /\ At(p, "send")
      BY <1>7 DEF GetAddressNonce
    <2>2. CASE ReuseNonce(p)
      <3>1. HeldNonces' = HeldNonces \cup {nonce'[p]}
        BY <2>1, <2>2, Reused, EntersHeld
      <3>2. nonce'[p] \notin HeldNonces
        BY <1>1, <2>1, <2>2, Reused DEF Owned, HeldNonces
      <3>3. Allocator!AllocateFreed
        BY <2>1, <2>2, <3>1, <3>2, Reused
        DEF Allocator!AllocateFreed, ReuseNonce, HeldNonces, Holders
      <3>. QED
        BY <3>3 DEF Allocator!AllocNext
    <2>3. CASE NewNonce(p)
      <3>1. HeldNonces' = HeldNonces \cup {nonce'[p]}
        BY <2>1, <2>3, Fresh, EntersHeld
      <3>2. Range(returnedNonce) = {} /\ Range(returnedNonce') = {}
        BY <2>1, <2>3, Fresh DEF Range
      <3>3. nonce'[p] \in 0..MaxNonce - 1 /\ addressNonce' = nonce'[p] + 1
        BY <2>1, <2>3, Fresh
      <3>4. CASE addressNonce = Unknown
        <4>1. HeldNonces' = {nonce'[p]}
          BY <2>1, <2>3, <3>1, <3>4, Fresh DEF HeldNonces
        <4>2. Allocator!AllocateFirst
          BY <3>2, <3>3, <3>4, <4>1
          DEF Allocator!AllocateFirst, HeldNonces, Holders
        <4>. QED
          BY <4>2 DEF Allocator!AllocNext
      <3>5. CASE addressNonce # Unknown
        <4>1. nonce'[p] = addressNonce
          BY <2>1, <2>3, <3>5, Fresh
        <4>2. Allocator!AllocateNew
          BY <3>1, <3>2, <3>3, <4>1
          DEF Allocator!AllocateNew, HeldNonces, Holders
        <4>. QED
          BY <4>2 DEF Allocator!AllocNext
      <3>. QED
        BY <3>4, <3>5
    <2>. QED
      BY <1>7, <2>2, <2>3 DEF GetAddressNonce
  <1>8. ASSUME NEW p \in Thread, pc[p] = "send", GiveUp(p)
        PROVE  Allocator!AllocNext
    <2>1. HeldNonces' = HeldNonces \ {nonce[p]} /\ nonce[p] \in HeldNonces
      BY <1>1, <1>8, GivenUp, LeavesHeld
    <2>2. addressNonce' = addressNonce
      BY <1>8 DEF GiveUp
    <2>3. CASE p = Monitor
      <3>1. Range(returnedNonce') = Range(returnedNonce)
        BY <1>8, <2>3, GivenUp
      <3>2. Allocator!Retire
        BY <2>1, <2>2, <3>1 DEF Allocator!Retire, HeldNonces, Holders
      <3>. QED
        BY <3>2 DEF Allocator!AllocNext
    <2>4. CASE p # Monitor
      <3>1. Range(returnedNonce') = Range(returnedNonce) \cup {nonce[p]}
        BY <1>8, <2>4, GivenUp
      <3>2. nonce[p] \notin Range(returnedNonce)
        BY <1>1, <1>8, GivenUp DEF Owned
      <3>3. Allocator!Release
        BY <2>1, <2>2, <3>1, <3>2 DEF Allocator!Release, HeldNonces, Holders
      <3>. QED
        BY <3>3 DEF Allocator!AllocNext
    <2>. QED
      BY <2>3, <2>4
  <1>9. ASSUME NEW p \in Thread, SendTransaction(p)
        PROVE  UNCHANGED Allocator!allocVars
    BY <1>1, <1>9, Unseen DEF SendTransaction, At, Holders, Holding
  <1>10. ASSUME NEW p \in Thread, ConfirmTransaction(p)
         PROVE  [Allocator!AllocNext]_Allocator!allocVars
    <2>1. UNCHANGED manager /\ p \in Holders
      BY <1>10 DEF ConfirmTransaction, Holders, Holding
    <2>2. CASE nonce[p] < ethNonce
      <3>1. /\ Holders' = Holders \ {p}
            /\ \A q \in Holders' : nonce'[q] = nonce[q]
        BY <1>1, <1>10, <2>2 DEF ConfirmTransaction, At, Holders, Holding
      <3>2. HeldNonces' = HeldNonces \ {nonce[p]} /\ nonce[p] \in HeldNonces
        BY <1>1, <2>1, <3>1, LeavesHeld
      <3>3. Range(returnedNonce') = Range(returnedNonce)
        BY <2>1 DEF manager
      <3>4. Allocator!Retire
        BY <2>1, <3>2, <3>3
        DEF Allocator!Retire, manager, HeldNonces, Holders
      <3>. QED
        BY <3>4 DEF Allocator!AllocNext
    <2>3. CASE ~(nonce[p] < ethNonce)
      BY <1>10, <2>1, <2>3, Unseen DEF ConfirmTransaction, Holders
    <2>. QED
      BY <2>2, <2>3
  <1>11. CASE Crash
    <2>1. Range(returnedNonce') = {} /\ HeldNonces' = {}
          /\ addressNonce' = Unknown
      BY <1>11 DEF Crash, Range, HeldNonces, Holders, Holding
    <2>2. Allocator!Forget
      BY <2>1 DEF Allocator!Forget, HeldNonces, Holders
    <2>. QED
      BY <2>2 DEF Allocator!AllocNext
  <1>12. CASE Restart
    <2>1. Holders = {} /\ Holders' = {}
      BY <1>1, <1>12 DEF Restart, Owned, At, Holders, Holding
    <2>. QED
      BY <1>12, <2>1, Unseen DEF Restart
  <1>13. CASE EthBlock
    BY <1>1, <1>13, Unseen DEF EthBlock, Holders
  <1>. QED
    BY <1>2, <1>3, <1>4, <1>5, <1>6, <1>7, <1>8, <1>9, <1>10, <1>11,
       <1>12, <1>13
    DEF Next, Wait, SendTxToEth, NotSent, SentWithoutAnswer

(***************************************************************************)
(* The nonce manager implements the allocator for any number of routes:    *)
(* under all failures and crashes nobody gets a nonce another goroutine    *)
(* has, and a nonce that was returned goes before a new one.               *)
(***************************************************************************)
THEOREM NonceManagerImplements == Spec => ImplementsAllocator
  <1>1. Init => Allocator!AllocInit
    <2>1. ASSUME Init PROVE Range(returnedNonce) = {} /\ HeldNonces = {}
      BY <2>1 DEF Init, Range, HeldNonces, Holders, Holding
    <2>. QED
      BY <2>1 DEF Init, Allocator!AllocInit, HeldNonces, Holders
  <1>2. IInv /\ [Next]_vars => [Allocator!AllocNext]_Allocator!allocVars
    BY AllocStep
  <1>. QED
    BY <1>1, <1>2, Invariance, PTL
    DEF Spec, ImplementsAllocator, Allocator!AllocSpec

-----------------------------------------------------------------------------
(***************************************************************************)
(* As long as no nonce in use counts as unused, those that were given out  *)
(* fall into four parts.                                                   *)
(***************************************************************************)
Used == {n \in 0..MaxNonce - 1 : Taken(n)}

SendingNonces == {nonce[p] : p \in Sending}

FourParts(U, G, R, S, n) ==
  /\ U \cup G \cup R \cup S = 0..n - 1
  /\ U \cap G = {} /\ (U \cup G) \cap R = {} /\ (U \cup G \cup R) \cap S = {}

Counted == addressNonce # Unknown /\ ~mixed

Parts ==
  /\ addressNonce = Unknown => gone = {}
  /\ Counted => FourParts(Used, gone, Range(returnedNonce), SendingNonces,
                          addressNonce)

LEMMA PartsKept ==
  ASSUME Parts, UNCHANGED <<manager, history>>, Used' = Used,
         Sending' = Sending, \A q \in Sending : nonce'[q] = nonce[q]
  PROVE  Parts'
  <1>1. SendingNonces' = SendingNonces
    BY DEF SendingNonces
  <1>2. /\ Range(returnedNonce') = Range(returnedNonce)
        /\ addressNonce' = addressNonce /\ gone' = gone
    BY DEF manager, history
  <1>3. Counted' = Counted
    BY Zenon DEF Counted, manager, history
  <1>. QED
    BY <1>1, <1>2, <1>3, Zenon DEF Parts

LEMMA SendingLeaves ==
  ASSUME Owned, NEW p \in Sending, Sending' = Sending \ {p},
         \A q \in Sending' : nonce'[q] = nonce[q]
  PROVE  SendingNonces' = SendingNonces \ {nonce[p]}
         /\ nonce[p] \in SendingNonces
  <1>1. Sending \subseteq Holders
    BY DEF Sending, Holders, Holding
  <1>. QED
    BY <1>1 DEF Owned, SendingNonces

LEMMA UsedGrows ==
  ASSUME NEW n \in 0..MaxNonce - 1, UNCHANGED ethNonce, pool' = pool \cup {n}
  PROVE  Used' = Used \cup {n}
  BY DEF Used, Taken

LEMMA PartsStep == IInv /\ Parts /\ [Next]_vars => Parts'
  <1>. SUFFICES ASSUME IInv, Parts, [Next]_vars PROVE Parts'
    OBVIOUS
  <1>1. /\ Owned /\ MaxNonce \in Nat
        /\ pc \in [Thread -> Steps] /\ nonce \in [Thread -> 0..MaxNonce]
        /\ addressNonce \in {Unknown} \cup 0..MaxNonce
        /\ ethNonce \in 0..MaxNonce /\ pool \subseteq 0..MaxNonce - 1
        /\ Monitor \in Thread /\ Route \subseteq Thread
    BY SendAssumption DEF IInv, TypeOK, Steps, Thread
  <1>2. UNCHANGED node => Used' = Used
    BY DEF node, Used, Taken
  <1>3. CASE GetRouter
    BY <1>1, <1>2, <1>3, PartsKept DEF GetRouter, Sending
  <1>4. CASE PutInChannel
    BY <1>1, <1>2, <1>4, PartsKept DEF PutInChannel, At, Sending
  <1>5. CASE CommitHeader
    BY <1>1, <1>2, <1>5, PartsKept DEF CommitHeader, At, Sending
  <1>6. CASE UNCHANGED vars
    BY <1>1, <1>2, <1>6, PartsKept DEF vars, Sending
  <1>7. ASSUME NEW r \in Route, TakeFromChannel(r) PROVE Parts'
    BY <1>1, <1>2, <1>7, PartsKept DEF TakeFromChannel, At, Sending
  <1>8. ASSUME NEW p \in Thread, GetAddressNonce(p) PROVE Parts'
    <2>1. /\ pc[p] = "nonce" /\ At(p, "send")
          /\ Used' = Used /\ gone' = gone
      BY <1>2, <1>8 DEF GetAddressNonce
    <2>2. Sending' = Sending \cup {p} /\ p \notin Sending
          /\ Sending \subseteq Holders
      BY <1>1, <2>1 DEF At, Sending, Holders, Holding
    <2>3. CASE ReuseNonce(p)
      <3>1. SendingNonces' = SendingNonces \cup {nonce'[p]}
        BY <2>1, <2>2, <2>3, Reused DEF SendingNonces
      <3>2. addressNonce' = addressNonce
        BY <2>3 DEF ReuseNonce
      <3>3. Counted' = Counted
        BY <2>3, Zenon DEF Counted, ReuseNonce
      <3>4. /\ Range(returnedNonce') = Range(returnedNonce) \ {nonce'[p]}
            /\ nonce'[p] \in Range(returnedNonce)
        BY <2>1, <2>3, Reused
      <3>5. ASSUME Counted
            PROVE  FourParts(Used', gone', Range(returnedNonce'),
                             SendingNonces', addressNonce')
        BY <2>1, <3>1, <3>2, <3>4, <3>5 DEF Parts, FourParts
      <3>. QED
        BY <2>1, <3>2, <3>3, <3>5, Zenon DEF Parts
    <2>4. CASE NewNonce(p)
      <3>1. SendingNonces' = SendingNonces \cup {nonce'[p]}
        BY <2>1, <2>2, <2>4, Fresh DEF SendingNonces
      <3>2. Range(returnedNonce') = {} /\ Range(returnedNonce) = {}
        BY <2>1, <2>4, Fresh DEF Range
      <3>3. /\ nonce'[p] \in 0..MaxNonce - 1 /\ addressNonce' = nonce'[p] + 1
            /\ addressNonce # Unknown => nonce'[p] = addressNonce
        BY <2>1, <2>4, Fresh
      <3>4. PICK n \in Asked :
              nonce'[p] = n
              /\ (mixed' = (mixed \/ \E k \in n..MaxNonce : Taken(k)))
        BY <1>1, <2>4 DEF NewNonce
      <3>5. ASSUME ~mixed'
            PROVE  ~mixed /\ \A k \in nonce'[p]..MaxNonce : ~Taken(k)
        BY <3>4, <3>5, Zenon
      <3>6. ASSUME Counted'
            PROVE  FourParts(Used', gone', Range(returnedNonce'),
                             SendingNonces', addressNonce')
        <4>1. ~mixed /\ \A k \in nonce'[p]..MaxNonce : ~Taken(k)
          BY <3>5, <3>6 DEF Counted
        <4>2. CASE addressNonce # Unknown
          <5>1. FourParts(Used, gone, {}, SendingNonces, nonce'[p])
            BY <3>2, <3>3, <4>1, <4>2 DEF Parts, Counted
          <5>. QED
            BY <2>1, <3>1, <3>2, <3>3, <5>1 DEF FourParts
        <4>3. CASE addressNonce = Unknown
          <5>1. gone = {} /\ SendingNonces = {}
            BY <2>1, <2>2, <2>4, <4>3, Fresh DEF Parts, SendingNonces
          <5>2. \A k \in 0..nonce'[p] - 1 : Taken(k)
            BY <3>3, <3>4, <4>3, PendingNonceTyped DEF Asked, IInv
          <5>3. Used = 0..nonce'[p] - 1
            BY <1>1, <3>3, <4>1, <5>2 DEF Used
          <5>. QED
            BY <2>1, <3>1, <3>2, <3>3, <5>1, <5>3 DEF FourParts
        <4>. QED
          BY <4>2, <4>3
      <3>7. addressNonce' # Unknown
        BY <3>3 DEF Unknown
      <3>. QED
        BY <3>6, <3>7, Zenon DEF Parts
    <2>. QED
      BY <1>8, <2>3, <2>4 DEF GetAddressNonce
  <1>9. ASSUME NEW p \in Thread, pc[p] = "send", GiveUp(p)
        PROVE  /\ SendingNonces' = SendingNonces \ {nonce[p]}
               /\ nonce[p] \in SendingNonces
               /\ addressNonce' = addressNonce /\ addressNonce # Unknown
    <2>1. p \in Sending /\ Sending' = Sending \ {p}
          /\ Sending \subseteq Holders
      BY <1>1, <1>9 DEF GiveUp, At, Sending, Holders, Holding
    <2>2. \A q \in Sending' : nonce'[q] = nonce[q]
      BY <1>9, <2>1, GivenUp
    <2>3. addressNonce # Unknown
      BY <1>1, <2>1 DEF Owned, GivenOut, Unknown
    <2>. QED
      BY <1>1, <1>9, <2>1, <2>2, <2>3, SendingLeaves DEF GiveUp
  <1>10. ASSUME NEW p \in Thread, NotSent(p) PROVE Parts'
    <2>1. pc[p] = "send" /\ GiveUp(p) /\ UNCHANGED mixed /\ Used' = Used
      BY <1>10 DEF NotSent, GiveUp, Used, Taken
    <2>2. Counted' = Counted
      BY <1>9, <2>1, Zenon DEF Counted
    <2>3. nonce[p] \in 0..MaxNonce - 1
      BY <2>1, GivenUp
    <2>4. gone' = IF p = Monitor /\ ~Taken(nonce[p])
                  THEN gone \cup {nonce[p]} ELSE gone
      BY <1>10 DEF NotSent
    <2>5. ASSUME Counted
          PROVE  FourParts(Used', gone', Range(returnedNonce'),
                           SendingNonces', addressNonce')
      <3>1. FourParts(Used, gone, Range(returnedNonce), SendingNonces,
                      addressNonce)
        BY <2>5 DEF Parts
      <3>2. ~Taken(nonce[p])
        BY <1>9, <2>1, <2>3, <3>1 DEF FourParts, Used
      <3>3. CASE p = Monitor
        <4>1. /\ Range(returnedNonce') = Range(returnedNonce)
              /\ gone' = gone \cup {nonce[p]}
          BY <2>1, <2>4, <3>2, <3>3, GivenUp
        <4>. QED
          BY <1>9, <2>1, <3>1, <4>1 DEF FourParts
      <3>4. CASE p # Monitor
        <4>1. /\ Range(returnedNonce') = Range(returnedNonce) \cup {nonce[p]}
              /\ gone' = gone
          BY <2>1, <2>4, <3>4, GivenUp
        <4>. QED
          BY <1>9, <2>1, <3>1, <4>1 DEF FourParts
      <3>. QED
        BY <3>3, <3>4
    <2>. QED
      BY <1>9, <2>1, <2>2, <2>5, Zenon DEF Parts
  <1>11. ASSUME NEW p \in Thread, SentWithoutAnswer(p) PROVE Parts'
    <2>1. /\ pc[p] = "send" /\ GiveUp(p) /\ gone' = gone
          /\ ~Taken(nonce[p]) /\ UNCHANGED ethNonce
          /\ pool' = pool \cup {nonce[p]}
      BY <1>11 DEF SentWithoutAnswer, GiveUp
    <2>2. Used' = Used \cup {nonce[p]}
      BY <2>1, GivenUp, UsedGrows
    <2>3. ASSUME Counted' PROVE Counted /\ p = Monitor
      BY <1>9, <1>11, <2>1, <2>3, Zenon DEF Counted, SentWithoutAnswer
    <2>4. ASSUME Counted'
          PROVE  FourParts(Used', gone', Range(returnedNonce'),
                           SendingNonces', addressNonce')
      <3>1. FourParts(Used, gone, Range(returnedNonce), SendingNonces,
                      addressNonce)
        BY <2>3, <2>4 DEF Parts
      <3>2. Range(returnedNonce') = Range(returnedNonce)
        BY <2>1, <2>3, <2>4, GivenUp
      <3>. QED
        BY <1>9, <2>1, <2>2, <3>1, <3>2 DEF FourParts
    <2>. QED
      BY <1>9, <2>1, <2>4, Zenon DEF Parts
  <1>12. ASSUME NEW p \in Thread, SendTransaction(p) PROVE Parts'
    <2>1. /\ p \in Sending /\ Sending' = Sending \ {p}
          /\ p \in Holders /\ nonce' = nonce
          /\ UNCHANGED <<manager, history>>
          /\ UNCHANGED ethNonce /\ pool' = pool \cup {nonce[p]}
      BY <1>1, <1>12 DEF SendTransaction, At, Sending, Holders, Holding
    <2>2. SendingNonces' = SendingNonces \ {nonce[p]}
          /\ nonce[p] \in SendingNonces
      BY <1>1, <2>1, SendingLeaves
    <2>3. Used' = Used \cup {nonce[p]}
      BY <1>1, <2>1, UsedGrows DEF Owned, Holders
    <2>4. /\ Range(returnedNonce') = Range(returnedNonce)
          /\ addressNonce' = addressNonce /\ gone' = gone
      BY <2>1 DEF manager, history
    <2>5. Counted' = Counted
      BY <2>1, Zenon DEF Counted, manager, history
    <2>6. ASSUME Counted
          PROVE  FourParts(Used', gone', Range(returnedNonce'),
                           SendingNonces', addressNonce')
      BY <2>2, <2>3, <2>4, <2>6 DEF Parts, FourParts
    <2>. QED
      BY <2>4, <2>5, <2>6, Zenon DEF Parts
  <1>13. ASSUME NEW p \in Thread, ConfirmTransaction(p) PROVE Parts'
    <2>1. /\ Sending' = Sending /\ \A q \in Sending : nonce'[q] = nonce[q]
          /\ UNCHANGED <<node, manager, history>>
      <3>1. CASE nonce[p] < ethNonce
        BY <1>1, <1>13, <3>1 DEF ConfirmTransaction, At, Sending
      <3>2. CASE ~(nonce[p] < ethNonce)
        BY <1>13, <3>2 DEF ConfirmTransaction, Sending
      <3>. QED
        BY <3>1, <3>2
    <2>. QED
      BY <1>2, <2>1, PartsKept
  <1>14. CASE Crash
    <2>1. addressNonce' = Unknown /\ gone' = {}
      BY <1>14 DEF Crash
    <2>. QED
      BY <2>1, Zenon DEF Parts, Counted
  <1>15. CASE Restart
    <2>1. Sending = {} /\ Sending' = {}
      BY <1>1, <1>15 DEF Restart, Owned, At, Holders, Holding, Sending
    <2>. QED
      BY <1>2, <1>15, <2>1, PartsKept DEF Restart
  <1>16. CASE EthBlock
    <2>1. Used' = Used
      BY <1>1, <1>16 DEF EthBlock, Used, Taken
    <2>. QED
      BY <1>16, <2>1, PartsKept DEF EthBlock, Sending
  <1>. QED
    BY <1>3, <1>4, <1>5, <1>6, <1>7, <1>8, <1>10, <1>11, <1>12, <1>13,
       <1>14, <1>15, <1>16
    DEF Next, Wait, SendTxToEth

LEMMA UnionOfDisjoint ==
  ASSUME NEW S, IsFiniteSet(S), NEW T, IsFiniteSet(T), S \cap T = {}
  PROVE  /\ IsFiniteSet(S \cup T)
         /\ Cardinality(S \cup T) = Cardinality(S) + Cardinality(T)
  <1>1. /\ IsFiniteSet(S \cup T)
        /\ Cardinality(S \cup T)
             = Cardinality(S) + Cardinality(T) - Cardinality(S \cap T)
    BY FS_Union
  <1>2. Cardinality(S \cap T) = 0
    BY FS_EmptySet
  <1>3. Cardinality(S) \in Nat /\ Cardinality(T) \in Nat
    BY FS_CardinalityType
  <1>. QED
    BY <1>1, <1>2, <1>3

(***************************************************************************)
(* Each part has as many nonces as there are places that hold one.         *)
(***************************************************************************)
LEMMA Counts ==
  ASSUME IInv, Counted,
         FourParts(Used, gone, Range(returnedNonce), SendingNonces,
                   addressNonce)
  PROVE  Cardinality(Used) + Cardinality(gone) + Len(returnedNonce)
           + Cardinality(Sending) = addressNonce
  <1>. DEFINE R == Range(returnedNonce)
              L == Len(returnedNonce)
              A == 0..addressNonce - 1
  <1>1. /\ addressNonce \in Nat /\ MaxNonce \in Nat /\ L \in Nat
        /\ returnedNonce \in [1..L -> 0..MaxNonce - 1]
        /\ DOMAIN returnedNonce = 1..L
        /\ nonce \in [Thread -> 0..MaxNonce]
    BY SendAssumption, LenProperties DEF IInv, TypeOK, Counted
  <1>2. IsFiniteSet(A) /\ Cardinality(A) = addressNonce
    <2>1. /\ IsFiniteSet(A)
          /\ Cardinality(A) = IF 0 > addressNonce - 1 THEN 0
                              ELSE (addressNonce - 1) - 0 + 1
      <3>1. 0 \in Int /\ addressNonce - 1 \in Int
        BY <1>1
      <3>. QED
        BY <3>1, FS_Interval
    <2>. HIDE DEF A
    <2>. QED
      BY <1>1, <2>1
  <1>3. /\ IsFiniteSet(Used) /\ IsFiniteSet(gone)
        /\ IsFiniteSet(R) /\ IsFiniteSet(SendingNonces)
    <2>1. /\ Used \in SUBSET A /\ gone \in SUBSET A
          /\ R \in SUBSET A /\ SendingNonces \in SUBSET A
      BY DEF FourParts
    <2>. HIDE DEF A, R
    <2>. QED
      BY <1>2, <2>1, FS_Subset
  <1>4. Cardinality(R) = L
    <2>1. returnedNonce \in Bijection(1..L, R)
      <3>1. \A i, j \in 1..L : returnedNonce[i] = returnedNonce[j] => i = j
        <4>. SUFFICES ASSUME NEW i \in 1..L, NEW j \in 1..L,
                             returnedNonce[i] = returnedNonce[j]
                      PROVE  i = j
          OBVIOUS
        <4>1. /\ ~(returnedNonce[i] < returnedNonce[j])
              /\ ~(returnedNonce[j] < returnedNonce[i])
          BY <1>1
        <4>2. ~(i < j) /\ ~(j < i)
          BY <4>1 DEF IInv, Owned, Ascending
        <4>. QED
          BY <1>1, <4>2
      <3>. QED
        BY <1>1, <3>1
        DEF Bijection, Injection, Surjection, IsInjective, Range
    <2>2. ExistsBijection(1..L, R)
      BY <2>1 DEF ExistsBijection
    <2>. HIDE DEF L, R
    <2>. QED
      BY <1>1, <2>2, FS_CountingElements
  <1>5. Cardinality(SendingNonces) = Cardinality(Sending)
    <2>. DEFINE f == [p \in Sending |-> nonce[p]]
    <2>1. \A p, q \in Sending : nonce[p] = nonce[q] => p = q
      BY DEF IInv, Owned, Sending, Holders, Holding
    <2>2. f \in Injection(Sending, SendingNonces)
      BY <2>1 DEF SendingNonces, Injection, IsInjective
    <2>3. f \in Surjection(Sending, SendingNonces)
      BY DEF SendingNonces, Surjection
    <2>. HIDE DEF f
    <2>. QED
      BY <1>3, <2>2, <2>3, FS_Injection
  <1>6. /\ IsFiniteSet(Used \cup gone)
        /\ Cardinality(Used \cup gone) = Cardinality(Used) + Cardinality(gone)
    <2>1. Used \cap gone = {}
      BY DEF FourParts
    <2>. QED
      BY <1>3, <2>1, UnionOfDisjoint
  <1>7. /\ IsFiniteSet(Used \cup gone \cup R)
        /\ Cardinality(Used \cup gone \cup R)
             = Cardinality(Used \cup gone) + Cardinality(R)
    <2>1. (Used \cup gone) \cap R = {}
      BY DEF FourParts
    <2>. HIDE DEF R
    <2>. QED
      BY <1>3, <1>6, <2>1, UnionOfDisjoint
  <1>8. Cardinality(Used \cup gone \cup R \cup SendingNonces)
          = Cardinality(Used \cup gone \cup R) + Cardinality(SendingNonces)
    <2>1. (Used \cup gone \cup R) \cap SendingNonces = {}
      BY DEF FourParts
    <2>. HIDE DEF R
    <2>. QED
      BY <1>3, <1>7, <2>1, UnionOfDisjoint
  <1>9. Used \cup gone \cup R \cup SendingNonces = A
    BY DEF FourParts
  <1>. HIDE DEF A, L, R
  <1>10. Cardinality(Used) \in Nat /\ Cardinality(gone) \in Nat
         /\ Cardinality(R) \in Nat /\ Cardinality(SendingNonces) \in Nat
    BY <1>3, FS_CardinalityType
  <1>. QED
    BY <1>2, <1>4, <1>5, <1>6, <1>7, <1>8, <1>9, <1>10 DEF L

(***************************************************************************)
(* No nonce is lost and none is in two places, for any number of routes    *)
(* and of nonces: every one that was given out is used, or was returned,   *)
(* or is on its way, or went with a header that could not be sent.         *)
(***************************************************************************)
THEOREM NothingLost == Spec => []NoncesConserved
  <1>1. Init => Parts
    BY DEF Init, Parts, Counted
  <1>2. IInv /\ Parts /\ [Next]_vars => Parts'
    BY PartsStep
  <1>3. IInv /\ Parts => NoncesConserved
    <2>. SUFFICES ASSUME IInv, Parts, Counted PROVE NoncesConserved
      BY Zenon DEF NoncesConserved, Counted
    <2>1. FourParts(Used, gone, Range(returnedNonce), SendingNonces,
                    addressNonce)
      BY DEF Parts
    <2>. QED
      BY <2>1, Counts
      DEF NoncesConserved, FourParts, Used, SendingNonces
  <1>. QED
    BY <1>1, <1>2, <1>3, Invariance, PTL DEF Spec
=============================================================================
