---------------------------- MODULE CreditProofs ----------------------------
(***************************************************************************)
(* What Credit guarantees for every set of requests, reviewers, customers  *)
(* and transfers.  The argument is one inductive invariant, IInv: a        *)
(* request past its insert owns its key, so that the record of a key, its  *)
(* assessment and what callers are told of it appear together; and what a  *)
(* request has counted lies between what there was when it began and what  *)
(* there is, because an outcome is never taken back.                       *)
(***************************************************************************)
EXTENDS Credit, FiniteSetTheorems, TLAPS

\* What the code keeps of a request in its transaction.
Counting == {"countSettled", "countFailed", "create", "advance"}
Owning == {"readCustomer"} \cup Counting

OutcomesTyped ==
    /\ status \in [TransferIds -> {"absent", "PENDING_EXTERNAL", "SETTLED", "COMPENSATED"}]
    /\ taken \in [TransferIds -> Nat]

PC == {"idle", "insertRecord", "readCustomer", "countSettled", "countFailed",
       "create", "advance", "decide", "audit", "done"}

Replies == [kind : {"none", "created", "replayed", "decided", "conflict", "unique_violation",
                    "customer_not_found", "forbidden", "not_found", "not_reviewable", "error"},
            assessment : Requests \cup {None}]

Typed ==
    /\ held \in [Sessions -> SUBSET {KeyRow(k) : k \in Keys}]
    /\ record \in [Keys -> KeyRecord \cup {None}]
    /\ assessment \in [Requests -> Assessment \cup {None}]
    /\ pc \in [Sessions -> PC]
    /\ input \in [Requests -> Inputs \cup {None}]
    /\ reading \in [Requests -> Readings]
    /\ draft \in [Requests -> Drafts \cup {None}]
    /\ review \in [Reviewers -> ReviewOf \cup {None}]
    /\ reply \in [Sessions -> Replies]
    /\ began \in [Requests -> [average : {0}, settled : Nat, failed : Nat]]
    /\ lateReviews \subseteq Reviewers

\* Where a request stands: its key is locked and free of a record until it
\* commits, and it has no assessment before.
Control(r) ==
    /\ pc[r] # "idle" => input[r] \in Inputs
    /\ pc[r] \in Owning => KeyRow(input[r].key) \in held[r] /\ record[input[r].key] = None
    /\ pc[r] \in Counting => input[r].customer \in Customers
    /\ IF pc[r] = "advance" THEN draft[r] \in Drafts ELSE draft[r] = None
    /\ assessment[r] # None => pc[r] = "done"
    /\ pc[r] # "done" => reply[r] = NoReply

\* What a request has counted so far was there, and missed nothing that was
\* there when it began.
Counted(r) ==
    LET c == input[r].customer IN
    /\ pc[r] = "countSettled" => began[r].settled <= SettledTransferCount(c)
    /\ pc[r] \in Counting \ {"countSettled"} =>
          /\ began[r].settled <= reading[r].settled
          /\ reading[r].settled <= SettledTransferCount(c)
    /\ pc[r] \in {"countSettled", "countFailed"} => began[r].failed <= FailedTransferCount(c)
    /\ pc[r] \in {"create", "advance"} =>
          /\ began[r].failed <= reading[r].failed
          /\ reading[r].failed <= FailedTransferCount(c)

\* A record names the assessment of the request that made it.
Recorder(k) ==
    record[k] # None =>
        LET s == record[k].assessment IN
        /\ assessment[s] # None
        /\ input[s].key = k
        /\ record[k].hash = Payload(input[s])

\* An assessment has its record, and is of the customer it was asked for.
Kept(r) ==
    assessment[r] # None =>
        /\ record[input[r].key] # None
        /\ record[input[r].key].assessment = r
        /\ assessment[r].customer = input[r].customer

\* What a caller was told of.
Answered(r) ==
    reply[r].kind \in {"created", "replayed"} =>
        LET s == reply[r].assessment IN
        /\ s \in Requests
        /\ assessment[s] # None
        /\ assessment[s].customer = input[r].customer
        /\ input[s].key = input[r].key

\* A reviewer under way found the assessment undecided when nobody had been told
\* of a decision; one who was told of his has decided.
Reviewing(p) ==
    /\ pc[p] \in {"idle", "decide", "audit", "done"}
    /\ pc[p] \in {"decide", "audit"} =>
          /\ review[p] \in ReviewOf
          /\ assessment[review[p].assessment] # None
    /\ pc[p] = "audit" => Decided(review[p].assessment)
    /\ pc[p] # "done" => p \notin lateReviews
    /\ reply[p].kind = "decided" =>
          /\ p \notin lateReviews
          /\ reply[p].assessment \in Requests
          /\ assessment[reply[p].assessment] # None
          /\ Decided(reply[p].assessment)

\* Whoever is on record has begun his review, and was not late.
DecidedBy(r) ==
    assessment[r] # None /\ assessment[r].reviewedBy # None =>
        /\ assessment[r].reviewedBy \in Reviewers
        /\ pc[assessment[r].reviewedBy] # "idle"
        /\ assessment[r].reviewedBy \notin lateReviews

\* An assessment has the score of the profile and the counts kept with it.
Traced ==
    \A r \in Requests : assessment[r] # None =>
        /\ assessment[r].score = Score(assessment[r].profile)
        /\ assessment[r].profile = Profile([average |-> assessment[r].profile.average,
                                            settled |-> assessment[r].counts.settled,
                                            failed |-> assessment[r].counts.failed])

IInv ==
    /\ OutcomesTyped
    /\ Typed
    /\ LocksExclusive
    /\ \A r \in Requests :
          /\ Control(r)
          /\ Counted(r)
          /\ Kept(r)
          /\ Answered(r)
          /\ DecidedBy(r)
    /\ \A k \in Keys : Recorder(k)
    /\ \A p \in Reviewers : Reviewing(p)
    /\ Traced
    /\ CountsAreOfTheirTime

-----------------------------------------------------------------------------
(* Sums over finite sets are integers.  The fold of the library is a        *)
(* recursive function on the subsets of the set; that there is such a       *)
(* function, and what its values are, follows by induction on the size of   *)
(* the subsets, which is stated as the least size that fails.               *)

LEMMA LeastElement ==
    ASSUME NEW T, T \subseteq Nat, T # {}
    PROVE  \E n \in T : \A m \in T : n <= m
<1>1. PICK n \in T : \A m \in T : <<m, n>> \notin OpToRel(<, Nat)
  BY NatLessThanWellFounded, WFMin
<1>2. \A m \in T : ~ (m < n)
  BY <1>1 DEF OpToRel
<1> QED BY <1>2

\* The element of a set that the fold takes next.
Pick(s) == CHOOSE x \in s : TRUE

\* h sums g over each subset of S.
Sums(h, g, S) ==
    h = [s \in SUBSET S |-> IF s = {} THEN 0 ELSE g[Pick(s)] + h[s \ {Pick(s)}]]

LEMMA OneLess ==
    ASSUME NEW S, IsFiniteSet(S), NEW s \in SUBSET S, s # {}
    PROVE  /\ Pick(s) \in s /\ Pick(s) \in S /\ s \ {Pick(s)} \in SUBSET S
           /\ Cardinality(s) \in Nat /\ Cardinality(s \ {Pick(s)}) \in Nat
           /\ Cardinality(s) = Cardinality(s \ {Pick(s)}) + 1
<1>1. Pick(s) \in s
  BY DEF Pick
<1>2. IsFiniteSet(s)
  BY FS_Subset
<1> QED BY <1>1, <1>2, FS_RemoveElement, FS_CardinalityType, FS_Subset

LEMMA SumsTyped ==
    ASSUME NEW S, IsFiniteSet(S), NEW g, \A x \in S : g[x] \in Int, NEW h, Sums(h, g, S)
    PROVE  \A s \in SUBSET S : h[s] \in Int
<1> DEFINE Bad == {n \in Nat : \E s \in SUBSET S : Cardinality(s) = n /\ h[s] \notin Int}
<1>1. Bad = {}
  <2> SUFFICES ASSUME Bad # {} PROVE FALSE
    OBVIOUS
  <2>1. PICK n \in Bad : \A m \in Bad : n <= m
    BY LeastElement
  <2>2. PICK s \in SUBSET S : Cardinality(s) = n /\ h[s] \notin Int
    OBVIOUS
  <2>3. h[s] = IF s = {} THEN 0 ELSE g[Pick(s)] + h[s \ {Pick(s)}]
    BY DEF Sums
  <2>4. s # {}
    BY <2>2, <2>3
  <2>5. h[s \ {Pick(s)}] \in Int
    BY <2>1, <2>2, <2>4, OneLess
  <2> QED BY <2>2, <2>3, <2>4, <2>5, OneLess
<1> QED BY <1>1, FS_Subset, FS_CardinalityType

LEMMA SumsExist ==
    ASSUME NEW S, IsFiniteSet(S), NEW g
    PROVE  \E h : Sums(h, g, S)
<1> DEFINE Upto(n) == {s \in SUBSET S : Cardinality(s) <= n}
           Good(n, h) == h = [s \in Upto(n) |-> IF s = {} THEN 0 ELSE g[Pick(s)] + h[s \ {Pick(s)}]]
           Bad == {n \in Nat : ~ \E h : Good(n, h)}
<1>1. Bad = {}
  <2> SUFFICES ASSUME Bad # {} PROVE FALSE
    OBVIOUS
  <2>1. PICK n \in Bad : \A m \in Bad : n <= m
    BY LeastElement
  <2>2. CASE n = 0
    <3>1. Upto(0) = {{}}
      BY FS_EmptySet, FS_Subset, FS_CardinalityType
    <3>2. Good(0, [s \in Upto(0) |-> 0])
      BY <3>1
    <3> QED BY <2>2, <3>2
  <2>3. CASE n # 0
    <3>1. n - 1 \in Nat /\ n - 1 \notin Bad
      <4>1. n \in Nat
        OBVIOUS
      <4> HIDE DEF Bad
      <4> QED BY <2>1, <2>3, <4>1
    <3>2. PICK h : Good(n - 1, h)
      BY <3>1
    <3> DEFINE k == [s \in Upto(n) |-> IF s = {} THEN 0 ELSE g[Pick(s)] + h[s \ {Pick(s)}]]
    <3>3. ASSUME NEW s \in Upto(n), s # {}
          PROVE  s \ {Pick(s)} \in Upto(n - 1) /\ s \ {Pick(s)} \in Upto(n)
      BY <3>3, OneLess
    <3>4. ASSUME NEW s \in Upto(n - 1) PROVE k[s] = h[s]
      <4>1. s \in Upto(n)
        BY FS_Subset, FS_CardinalityType
      <4> QED BY <3>2, <4>1
    <3>5. \A s \in Upto(n) : k[s] = IF s = {} THEN 0 ELSE g[Pick(s)] + k[s \ {Pick(s)}]
      BY <3>3, <3>4
    <3>6. Good(n, k)
      BY <3>5
    <3> HIDE DEF k
    <3> QED BY <3>6
  <2> QED BY <2>2, <2>3
<1>2. Cardinality(S) \in Nat /\ Upto(Cardinality(S)) = SUBSET S
  BY FS_Subset, FS_CardinalityType
<1>3. PICK h : Good(Cardinality(S), h)
  BY <1>1, <1>2
<1> QED BY <1>2, <1>3 DEF Sums

LEMMA SumTyped ==
    ASSUME NEW S, IsFiniteSet(S), NEW g, \A x \in S : g[x] \in Int
    PROVE  SumFunctionOnSet(g, S) \in Int
<1>1. \E k : k = [s \in SUBSET S |-> IF s = {} THEN 0 ELSE g[Pick(s)] + k[s \ {Pick(s)}]]
  <2>1. PICK k : Sums(k, g, S)
    BY SumsExist
  <2>2. k = [s \in SUBSET S |-> IF s = {} THEN 0 ELSE g[Pick(s)] + k[s \ {Pick(s)}]]
    BY <2>1 DEF Sums
  <2> QED BY <2>2, Zenon
<1> DEFINE h == CHOOSE k : k = [s \in SUBSET S |-> IF s = {} THEN 0 ELSE g[Pick(s)] + k[s \ {Pick(s)}]]
<1>2. Sums(h, g, S)
  BY <1>1, Zenon DEF Sums
<1>3. h[S] \in Int
  BY <1>2, SumsTyped
<1>4. SumFunctionOnSet(g, S) = h[S]
  BY DEF SumFunctionOnSet, FoldFunctionOnSet, MapThenFoldSet, Pick
<1> QED BY <1>3, <1>4

-----------------------------------------------------------------------------
(* The scoring policy.                                                     *)

LEMMA MaxMin ==
    ASSUME NEW a \in Int, NEW b \in Int
    PROVE  /\ Max({a, b}) = IF a >= b THEN a ELSE b
           /\ Min({a, b}) = IF a <= b THEN a ELSE b
<1>1. ASSUME NEW m \in Int, m \in {a, b}, m >= a, m >= b PROVE Max({a, b}) = m
  <2>1. \E x \in {a, b} : \A y \in {a, b} : x >= y
    BY <1>1
  <2>2. Max({a, b}) \in {a, b} /\ \A y \in {a, b} : Max({a, b}) >= y
    BY <2>1 DEF Max
  <2> QED BY <1>1, <2>2
<1>2. ASSUME NEW m \in Int, m \in {a, b}, m <= a, m <= b PROVE Min({a, b}) = m
  <2>1. \E x \in {a, b} : \A y \in {a, b} : x <= y
    BY <1>2
  <2>2. Min({a, b}) \in {a, b} /\ \A y \in {a, b} : Min({a, b}) <= y
    BY <2>1 DEF Min
  <2> QED BY <1>2, <2>2
<1> QED BY <1>1, <1>2

LEMMA BetweenIs ==
    ASSUME NEW low \in Int, NEW high \in Int, low <= high, NEW n \in Int
    PROVE  Between(low, high, n) = IF n <= low THEN low ELSE IF n >= high THEN high ELSE n
<1>1. Min({high, n}) = IF high <= n THEN high ELSE n
  BY MaxMin
<1>2. Max({low, Min({high, n})}) = IF low >= Min({high, n}) THEN low ELSE Min({high, n})
  BY <1>1, MaxMin
<1> QED BY <1>1, <1>2 DEF Between

LEMMA BetweenMonotone ==
    ASSUME NEW low \in Int, NEW high \in Int, low <= high, NEW m \in Int, NEW n \in Int, m <= n
    PROVE  Between(low, high, m) <= Between(low, high, n)
  BY BetweenIs

\* BigInt division by the number of minor units a point stands for, or of accounts.
LEMMA QuotientTyped ==
    ASSUME NEW n \in Int, NEW d \in Nat \ {0}
    PROVE  Quotient(n, d) \in Int
  BY DEF Quotient

LEMMA QuotientMonotone ==
    ASSUME NEW m \in Int, NEW n \in Int, m <= n
    PROVE  Quotient(m, 5000) <= Quotient(n, 5000)
  BY DEF Quotient

LEMMA ProfileTyped ==
    ASSUME NEW rd \in Readings
    PROVE  /\ Profile(rd) \in Profiles
           /\ Profile(rd).points = IF 120 + rd.settled * 12 - rd.failed * 20 <= 0 THEN 0
                                   ELSE 120 + rd.settled * 12 - rd.failed * 20
           /\ Profile(rd).average = rd.average
           /\ Profile(rd).frequency = rd.settled
<1>1. rd.settled \in Nat /\ rd.failed \in Nat /\ rd.average \in Int
  BY DEF Readings
<1>2. 120 + rd.settled * 12 - rd.failed * 20 \in Int
  BY <1>1
<1>3. Max({0, 120 + rd.settled * 12 - rd.failed * 20})
        = IF 0 >= 120 + rd.settled * 12 - rd.failed * 20 THEN 0
          ELSE 120 + rd.settled * 12 - rd.failed * 20
  BY <1>2, MaxMin
<1> QED BY <1>1, <1>2, <1>3 DEF Profile, Profiles

\* The three components before their caps.
LEMMA Raw ==
    ASSUME NEW p \in Profiles
    PROVE  /\ p.points \in Int
           /\ Quotient(p.average, 5000) \in Int
           /\ p.frequency * 5 \in Int
<1>1. p.points \in Nat /\ p.average \in Int /\ p.frequency \in Nat
  BY DEF Profiles
<1> QED BY <1>1, QuotientTyped

LEMMA ComponentsTyped ==
    ASSUME NEW p \in Profiles
    PROVE  /\ Components(p)[1] = Between(0, 220, p.points)
           /\ Components(p)[2] = Between(0, 180, Quotient(p.average, 5000))
           /\ Components(p)[3] = Between(0, 150, p.frequency * 5)
           /\ Components(p)[1] \in Int /\ Components(p)[2] \in Int /\ Components(p)[3] \in Int
<1>1. /\ Components(p)[1] = Between(0, 220, p.points)
      /\ Components(p)[2] = Between(0, 180, Quotient(p.average, 5000))
      /\ Components(p)[3] = Between(0, 150, p.frequency * 5)
  BY DEF Components
<1>2. \A n \in Int : /\ Between(0, 220, n) \in Int
                    /\ Between(0, 180, n) \in Int
                    /\ Between(0, 150, n) \in Int
  BY BetweenIs
<1> QED BY <1>1, <1>2, Raw

LEMMA ScoreTyped ==
    ASSUME NEW p \in Profiles
    PROVE  Score(p) \in 300 .. 850
<1> DEFINE n == 300 + Components(p)[1] + Components(p)[2] + Components(p)[3]
<1>1. n \in Int
  BY ComponentsTyped
<1>2. Score(p) = Between(300, 850, n)
  BY DEF Score
<1>3. \A k \in Int : Between(300, 850, k) \in Int /\ Between(300, 850, k) >= 300
                    /\ Between(300, 850, k) <= 850
  BY BetweenIs
<1> HIDE DEF n
<1>4. Score(p) \in Int /\ Score(p) >= 300 /\ Score(p) <= 850
  BY <1>1, <1>2, <1>3
<1> QED BY <1>4

\* The score grows with the money and the settled transfers, and falls with the
\* failed ones.
LEMMA ScoreMonotone ==
    ASSUME NEW a \in Readings, NEW b \in Readings,
           a.average >= b.average, a.settled >= b.settled, a.failed <= b.failed
    PROVE  Score(Profile(a)) >= Score(Profile(b))
<1> DEFINE p == Profile(a)
           q == Profile(b)
           m == 300 + Components(q)[1] + Components(q)[2] + Components(q)[3]
           n == 300 + Components(p)[1] + Components(p)[2] + Components(p)[3]
<1>1. p \in Profiles /\ q \in Profiles
  BY ProfileTyped
<1>2. p.points >= q.points /\ p.average >= q.average /\ p.frequency >= q.frequency
  BY ProfileTyped DEF Readings
<1>3. Score(p) = Between(300, 850, n) /\ Score(q) = Between(300, 850, m)
  BY DEF Score
<1> HIDE DEF p, q
<1>4. p.average \in Int /\ q.average \in Int /\ p.frequency \in Nat /\ q.frequency \in Nat
  BY <1>1 DEF Profiles
<1>5. Quotient(q.average, 5000) <= Quotient(p.average, 5000)
  BY <1>2, <1>4, QuotientMonotone
<1>6. q.frequency * 5 <= p.frequency * 5
  BY <1>2, <1>4
<1>7. Components(q)[1] <= Components(p)[1]
  <2>1. Between(0, 220, q.points) <= Between(0, 220, p.points)
    BY <1>1, <1>2, Raw, BetweenMonotone
  <2> QED BY <1>1, <2>1, ComponentsTyped
<1>8. Components(q)[2] <= Components(p)[2]
  <2>1. Between(0, 180, Quotient(q.average, 5000)) <= Between(0, 180, Quotient(p.average, 5000))
    BY <1>1, <1>5, Raw, BetweenMonotone
  <2> QED BY <1>1, <2>1, ComponentsTyped
<1>9. Components(q)[3] <= Components(p)[3]
  <2>1. Between(0, 150, q.frequency * 5) <= Between(0, 150, p.frequency * 5)
    BY <1>1, <1>6, Raw, BetweenMonotone
  <2> QED BY <1>1, <2>1, ComponentsTyped
<1>10. m \in Int /\ n \in Int /\ m <= n
  BY <1>1, <1>7, <1>8, <1>9, ComponentsTyped
<1> HIDE DEF m, n
<1>11. Between(300, 850, m) <= Between(300, 850, n)
  BY <1>10, BetweenMonotone
<1>12. Score(p) \in Int /\ Score(q) \in Int
  BY <1>1, ScoreTyped
<1> QED BY <1>3, <1>11, <1>12 DEF p, q

-----------------------------------------------------------------------------
(* What a request reads.                                                   *)

\* BigInt averages are integers, however the transfers stand.
LEMMA AverageTyped ==
    ASSUME OutcomesTyped, NEW c \in Customers
    PROVE  AverageBalance(c) \in Int
<1>1. /\ IsFiniteSet(TransferIds) /\ IsFiniteSet(AccountsOf[c])
      /\ \A a \in AccountsOf[c] : OpeningBalance[a] \in Int
  BY CreditAssumption DEF CreditAssumption
<1>2. ASSUME NEW a \in AccountsOf[c] PROVE Balance(a) \in Int
  <2> DEFINE S == {t \in TransferIds : Source[t] = a}
  <2>1. IsFiniteSet(S) /\ \A t \in S : taken[t] \in Int
    BY <1>1, FS_Subset DEF OutcomesTyped
  <2> HIDE DEF S
  <2>2. SumFunctionOnSet(taken, S) \in Int
    BY <2>1, SumTyped
  <2>3. Balance(a) = OpeningBalance[a] - SumFunctionOnSet(taken, S)
    BY DEF Balance, S
  <2> QED BY <1>1, <2>2, <2>3
<1> DEFINE f == [a \in AccountsOf[c] |-> Balance(a)]
<1>3. SumFunction(f) \in Int
  <2>1. DOMAIN f = AccountsOf[c] /\ \A a \in AccountsOf[c] : f[a] \in Int
    BY <1>2
  <2> HIDE DEF f
  <2>2. SumFunctionOnSet(f, AccountsOf[c]) \in Int
    BY <1>1, <2>1, SumTyped
  <2>3. SumFunction(f) = SumFunctionOnSet(f, AccountsOf[c])
    BY <2>1 DEF SumFunction, SumFunctionOnSet, FoldFunction
  <2> QED BY <2>2, <2>3
<1>4. CASE AccountsOf[c] = {}
  BY <1>4 DEF AverageBalance
<1>5. CASE AccountsOf[c] # {}
  <2>1. Cardinality(AccountsOf[c]) \in Nat \ {0}
    BY <1>1, <1>5, FS_CardinalityType, FS_EmptySet
  <2>2. AverageBalance(c) = Quotient(SumFunction(f), Cardinality(AccountsOf[c]))
    BY <1>5 DEF AverageBalance
  <2> HIDE DEF f
  <2> QED BY <1>3, <2>1, <2>2, QuotientTyped
<1> QED BY <1>4, <1>5

LEMMA CountsTyped ==
    ASSUME NEW c \in Customers
    PROVE  SettledTransferCount(c) \in Nat /\ FailedTransferCount(c) \in Nat
<1>1. Earlier[c].settled \in Nat /\ Earlier[c].failed \in Nat /\ IsFiniteSet(TransferIds)
  BY CreditAssumption DEF CreditAssumption, Counts
<1>2. ASSUME NEW st PROVE Cardinality(TransfersOf(c, st)) \in Nat
  BY <1>1, FS_Subset, FS_CardinalityType DEF TransfersOf
<1> QED BY <1>1, <1>2 DEF SettledTransferCount, FailedTransferCount

\* A settled or failed transfer stays one.
LEMMA OutcomesKept ==
    ASSUME OutcomesTyped, OutcomesNext
    PROVE  /\ OutcomesTyped'
           /\ \A t \in TransferIds : status[t] \in {"SETTLED", "COMPENSATED"} => status'[t] = status[t]
<1>1. PICK t \in TransferIds : Created(t) \/ ProviderSettles(t) \/ Compensated(t)
  BY DEF OutcomesNext
<1>2. PICK to \in {"PENDING_EXTERNAL", "SETTLED", "COMPENSATED"}, n \in Nat :
         /\ status[t] \notin {"SETTLED", "COMPENSATED"}
         /\ status' = [status EXCEPT ![t] = to]
         /\ taken' = [taken EXCEPT ![t] = n]
  BY <1>1, OutcomesAssumption
     DEF OutcomesTyped, OutcomesAssumption, Created, ProviderSettles, Compensated, Turns
<1> QED BY <1>2 DEF OutcomesTyped

LEMMA CountsGrow ==
    ASSUME OutcomesTyped, OutcomesNext, NEW c \in Customers
    PROVE  /\ SettledTransferCount(c)' \in Nat /\ FailedTransferCount(c)' \in Nat
           /\ SettledTransferCount(c) <= SettledTransferCount(c)'
           /\ FailedTransferCount(c) <= FailedTransferCount(c)'
<1>1. Earlier[c].settled \in Nat /\ Earlier[c].failed \in Nat /\ IsFiniteSet(TransferIds)
  BY CreditAssumption DEF CreditAssumption, Counts
<1>2. ASSUME NEW S \in SUBSET TransferIds, NEW U \in SUBSET TransferIds, S \subseteq U
      PROVE  Cardinality(S) \in Nat /\ Cardinality(U) \in Nat /\ Cardinality(S) <= Cardinality(U)
  BY <1>1, <1>2, FS_Subset, FS_CardinalityType
<1>3. /\ TransfersOf(c, {"SETTLED"}) \subseteq TransfersOf(c, {"SETTLED"})'
      /\ TransfersOf(c, {"FAILED", "COMPENSATED"}) \subseteq TransfersOf(c, {"FAILED", "COMPENSATED"})'
  BY OutcomesKept DEF TransfersOf, OutcomesTyped
<1>4. /\ TransfersOf(c, {"SETTLED"}) \in SUBSET TransferIds
      /\ TransfersOf(c, {"SETTLED"})' \in SUBSET TransferIds
      /\ TransfersOf(c, {"FAILED", "COMPENSATED"}) \in SUBSET TransferIds
      /\ TransfersOf(c, {"FAILED", "COMPENSATED"})' \in SUBSET TransferIds
  BY DEF TransfersOf
<1> QED BY <1>1, <1>2, <1>3, <1>4 DEF SettledTransferCount, FailedTransferCount

LEMMA CountsSame ==
    ASSUME UNCHANGED outcomeVars, NEW c
    PROVE  /\ SettledTransferCount(c)' = SettledTransferCount(c)
           /\ FailedTransferCount(c)' = FailedTransferCount(c)
  BY DEF outcomeVars, SettledTransferCount, FailedTransferCount, TransfersOf

-----------------------------------------------------------------------------
(* Steps that leave the tables alone.                                      *)

LEMMA SessionsSplit ==
    /\ Sessions = Requests \cup Reviewers
    /\ Requests \cap Reviewers = {}
    /\ None \notin Requests /\ None \notin Reviewers /\ None \notin Drafts /\ None \notin Inputs
    /\ None \notin Assessment /\ None \notin KeyRecord /\ None \notin ReviewOf
  BY CreditAssumption DEF CreditAssumption

LEMMA InitInv == Init => IInv
<1> SUFFICES ASSUME Init PROVE IInv
  OBVIOUS
<1>1. OutcomesTyped
  BY DEF Init, OutcomesInit, OutcomesTyped
<1>2. Typed /\ LocksExclusive
  BY SessionsSplit DEF Init, NoLocks, NoReply, NothingRead, Typed, PC, Replies, Readings, LocksExclusive
<1>3. ASSUME NEW r \in Requests
      PROVE  Control(r) /\ Counted(r) /\ Kept(r) /\ Answered(r) /\ DecidedBy(r)
  BY SessionsSplit
     DEF Init, NoReply, Control, Counted, Kept, Answered, DecidedBy, Owning, Counting
<1>4. ASSUME NEW k \in Keys PROVE Recorder(k)
  BY DEF Init, Recorder
<1>5. ASSUME NEW p \in Reviewers PROVE Reviewing(p)
  BY SessionsSplit DEF Init, NoReply, Reviewing
<1>6. Traced /\ CountsAreOfTheirTime
  BY DEF Init, Traced, CountsAreOfTheirTime
<1> QED BY <1>1, <1>2, <1>3, <1>4, <1>5, <1>6 DEF IInv

\* The calls that are not p stay where they are.
Unmoved(p) ==
    /\ \A q \in Sessions \ {p} : pc'[q] = pc[q] /\ reply'[q] = reply[q] /\ held'[q] = held[q]
    /\ \A q \in Requests \ {p} :
          input'[q] = input[q] /\ reading'[q] = reading[q] /\ draft'[q] = draft[q] /\ began'[q] = began[q]

\* A request that has not committed concerns nobody else.
LEMMA RequestStep ==
    ASSUME IInv, NEW r \in Requests, pc[r] # "done", Unmoved(r),
           UNCHANGED <<outcomeVars, record, assessment, review, lateReviews>>,
           Typed', LocksExclusive', Control(r)', Counted(r)', Answered(r)'
    PROVE  IInv'
<1> Typed /\ Control(r)
  BY DEF IInv
<1>1. assessment[r] = None /\ assessment'[r] = None
  BY DEF Control
<1>2. OutcomesTyped'
  BY DEF IInv, OutcomesTyped, outcomeVars
<1>3. ASSUME NEW q \in Requests \ {r} PROVE Control(q)' /\ Counted(q)'
  <2>1. /\ pc'[q] = pc[q] /\ reply'[q] = reply[q] /\ held'[q] = held[q]
        /\ input'[q] = input[q] /\ reading'[q] = reading[q] /\ draft'[q] = draft[q]
        /\ began'[q] = began[q]
    BY SessionsSplit DEF Unmoved
  <2>2. Control(q)'
    BY <2>1 DEF IInv, Control
  <2>3. Counted(q)'
    BY <2>1, CountsSame DEF IInv, Counted
  <2> QED BY <2>2, <2>3
<1>4. ASSUME NEW q \in Requests PROVE Kept(q)'
  BY <1>1 DEF IInv, Kept, Unmoved
<1>5. ASSUME NEW q \in Requests \ {r} PROVE Answered(q)'
  <2>1. reply'[q] = reply[q] /\ input'[q] = input[q]
    BY SessionsSplit DEF Unmoved
  <2>2. reply[q].kind \in {"created", "replayed"} => reply[q].assessment # r
    BY <1>1 DEF IInv, Answered
  <2> QED BY <2>1, <2>2 DEF IInv, Answered, Unmoved
<1>6. ASSUME NEW q \in Requests PROVE DecidedBy(q)'
  BY SessionsSplit DEF IInv, DecidedBy, Decided, Unmoved
<1>7. ASSUME NEW k \in Keys PROVE Recorder(k)'
  <2>1. record[k] # None => record[k].assessment \in Requests
    BY SessionsSplit DEF Typed, KeyRecord
  <2>2. record[k] # None => record[k].assessment # r
    BY <1>1 DEF IInv, Recorder
  <2> QED BY <2>1, <2>2 DEF IInv, Recorder, Unmoved
<1>8. ASSUME NEW p \in Reviewers PROVE Reviewing(p)'
  <2>1. pc'[p] = pc[p] /\ reply'[p] = reply[p]
    BY SessionsSplit DEF Unmoved
  <2> QED BY <2>1 DEF IInv, Reviewing, Decided
<1>9. Traced'
  BY DEF IInv, Traced
<1>10. CountsAreOfTheirTime'
  <2>1. \A q \in Requests : assessment'[q] # None => began'[q] = began[q]
    BY <1>1 DEF Unmoved
  <2> QED BY <2>1, CountsSame DEF IInv, CountsAreOfTheirTime
<1> QED BY <1>2, <1>3, <1>4, <1>5, <1>6, <1>7, <1>8, <1>9, <1>10 DEF IInv

\* Nor does a reviewer who does not decide.
LEMMA ReviewerStep ==
    ASSUME IInv, NEW p \in Reviewers, UNCHANGED <<outcomeVars, held, record, assessment, requestVars>>,
           \A q \in Sessions \ {p} : pc'[q] = pc[q] /\ reply'[q] = reply[q],
           \A q \in Reviewers \ {p} : review'[q] = review[q] /\ (q \in lateReviews' <=> q \in lateReviews),
           pc'[p] # "idle", pc[p] # "idle" => lateReviews' = lateReviews,
           Typed', Reviewing(p)'
    PROVE  IInv'
<1> Typed /\ Reviewing(p)
  BY DEF IInv
<1>1. ASSUME NEW q \in Requests PROVE pc'[q] = pc[q] /\ reply'[q] = reply[q]
  BY SessionsSplit
<1>2. OutcomesTyped' /\ LocksExclusive'
  BY DEF IInv, OutcomesTyped, LocksExclusive, outcomeVars
<1>3. ASSUME NEW q \in Requests PROVE Control(q)' /\ Counted(q)' /\ Kept(q)' /\ Answered(q)'
  <2>1. Control(q)'
    BY <1>1 DEF IInv, Control, requestVars
  <2>2. Counted(q)'
    BY <1>1, CountsSame DEF IInv, Counted, requestVars
  <2>3. Kept(q)' /\ Answered(q)'
    BY <1>1 DEF IInv, Kept, Answered, requestVars
  <2> QED BY <2>1, <2>2, <2>3
<1>4. ASSUME NEW q \in Requests PROVE DecidedBy(q)'
  BY SessionsSplit DEF IInv, DecidedBy, Decided
<1>5. ASSUME NEW k \in Keys PROVE Recorder(k)'
  BY DEF IInv, Recorder, requestVars
<1>6. ASSUME NEW q \in Reviewers \ {p} PROVE Reviewing(q)'
  <2>1. pc'[q] = pc[q] /\ reply'[q] = reply[q]
    BY SessionsSplit
  <2> QED BY <2>1 DEF IInv, Reviewing, Decided
<1>7. Traced'
  BY DEF IInv, Traced
<1>8. CountsAreOfTheirTime'
  BY CountsSame DEF IInv, CountsAreOfTheirTime, requestVars
<1> QED BY <1>2, <1>3, <1>4, <1>5, <1>6, <1>7, <1>8 DEF IInv

LEMMA ReleaseExclusive ==
    ASSUME Typed, LocksExclusive, NEW p \in Sessions, Release(p)
    PROVE  LocksExclusive' /\ held' \in [Sessions -> SUBSET {KeyRow(k) : k \in Keys}]
<1> DEFINE Rows == {KeyRow(k) : k \in Keys}
<1>1. held \in [Sessions -> SUBSET Rows]
  BY DEF Typed
<1> HIDE DEF Rows
<1>2. LocksExclusive' /\ held' \in [Sessions -> SUBSET Rows]
  BY <1>1 DEF Release, LocksExclusive
<1> QED BY <1>2 DEF Rows

LEMMA AcquireExclusive ==
    ASSUME Typed, LocksExclusive, NEW p \in Sessions, NEW k \in Keys, Acquire(p, KeyRow(k))
    PROVE  /\ LocksExclusive'
           /\ held' \in [Sessions -> SUBSET {KeyRow(n) : n \in Keys}]
           /\ KeyRow(k) \in held'[p]
<1> DEFINE Rows == {KeyRow(n) : n \in Keys}
<1>1. held \in [Sessions -> SUBSET Rows] /\ KeyRow(k) \in Rows
  BY DEF Typed
<1> HIDE DEF Rows
<1>2. /\ LocksExclusive' /\ held' \in [Sessions -> SUBSET Rows]
      /\ KeyRow(k) \in held'[p]
  BY <1>1 DEF Acquire, Free, LocksExclusive
<1> QED BY <1>2 DEF Rows

-----------------------------------------------------------------------------
(* createAssessment until it commits.                                      *)

\* The fields of what a request reads may be put in one by one.
LEMMA ReadingTyped ==
    ASSUME Typed, NEW r \in Requests
    PROVE  /\ reading[r] \in Readings
           /\ reading[r].average \in Int /\ reading[r].settled \in Nat /\ reading[r].failed \in Nat
           /\ began[r].settled \in Nat /\ began[r].failed \in Nat
  BY DEF Typed, Readings

LEMMA InputTyped ==
    ASSUME NEW r \in Requests, Control(r), pc[r] # "idle"
    PROVE  input[r] \in Inputs /\ input[r].key \in Keys
  BY CreditAssumption DEF Control, CreditAssumption

LEMMA ThrowInv ==
    ASSUME IInv, NEW r \in Requests, pc[r] \notin {"idle", "done"},
           NEW kind \in {"conflict", "unique_violation", "customer_not_found", "forbidden", "error"},
           Throw(r, kind)
    PROVE  IInv'
<1> Typed /\ LocksExclusive /\ Control(r) /\ r \in Sessions
  BY SessionsSplit DEF IInv
<1>1. /\ Release(r)
      /\ draft' = [draft EXCEPT ![r] = None]
      /\ reading' = [reading EXCEPT ![r] = NothingRead]
      /\ began' = [began EXCEPT ![r] = NothingRead]
      /\ reply' = [reply EXCEPT ![r] = Refused(kind)]
      /\ pc' = [pc EXCEPT ![r] = "done"]
      /\ UNCHANGED <<outcomeVars, record, assessment, audit, input, review, lateReviews>>
  BY DEF Throw, Answer, Goto, tableVars, reviewVars
<1>2. LocksExclusive' /\ held' \in [Sessions -> SUBSET {KeyRow(k) : k \in Keys}]
  BY <1>1, ReleaseExclusive
<1>3. Refused(kind) \in Replies /\ NothingRead \in Readings
      /\ NothingRead \in [average : {0}, settled : Nat, failed : Nat]
  BY DEF Refused, Replies, NothingRead, Readings
<1>4. Typed'
  BY <1>1, <1>2, <1>3 DEF Typed, PC
<1>5. Unmoved(r)
  BY <1>1, SessionsSplit DEF Unmoved, Typed, Release
<1>6. Control(r)' /\ Counted(r)'
  BY <1>1 DEF Typed, Control, Counted, Owning, Counting
<1>7. Answered(r)'
  BY <1>1 DEF Typed, Answered, Refused
<1> QED BY <1>1, <1>2, <1>4, <1>5, <1>6, <1>7, RequestStep

LEMMA BeginInv == ASSUME IInv, NEW r \in Requests, Begin(r) PROVE IInv'
<1> Typed /\ LocksExclusive /\ Control(r) /\ Answered(r) /\ r \in Sessions
  BY SessionsSplit DEF IInv
<1>1. PICK i \in Inputs :
         /\ pc[r] = "idle"
         /\ input' = [input EXCEPT ![r] = i]
         /\ \/ record[i.key] # None /\ Answer(r, Recorded(record[i.key], i))
            \/ record[i.key] = None /\ Goto(r, "insertRecord") /\ UNCHANGED reply
         /\ UNCHANGED <<outcomeVars, held, record, assessment, audit, reading, draft, review,
                        lateReviews, began>>
  BY DEF Begin, tableVars, reviewVars
<1>2. i.key \in Keys
  BY CreditAssumption DEF CreditAssumption
<1>3. LocksExclusive'
  BY <1>1 DEF LocksExclusive
<1>4. CASE record[i.key] # None /\ Answer(r, Recorded(record[i.key], i))
  <2>1. PICK a : a = Recorded(record[i.key], i)
    OBVIOUS
  <2>2. /\ reply' = [reply EXCEPT ![r] = a]
        /\ pc' = [pc EXCEPT ![r] = "done"]
    BY <1>4, <2>1 DEF Answer, Goto
  <2>3. record[i.key] \in KeyRecord
    BY <1>2, <1>4 DEF Typed
  <2>4. record[i.key].assessment \in Requests
    BY <2>3 DEF KeyRecord
  <2>5. a \in Replies
    BY <2>1, <2>4 DEF Recorded, Refused, Replies
  <2>6. Typed'
    BY <1>1, <2>2, <2>5 DEF Typed, PC
  <2>7. Unmoved(r)
    BY <1>1, <2>2, SessionsSplit DEF Unmoved, Typed
  <2>8. Control(r)' /\ Counted(r)'
    BY <1>1, <2>2 DEF Typed, Control, Counted, Owning, Counting
  <2>9. Answered(r)'
    <3> SUFFICES ASSUME a.kind \in {"created", "replayed"}
                 PROVE  LET s == a.assessment IN
                        /\ s \in Requests
                        /\ assessment[s] # None
                        /\ assessment[s].customer = i.customer
                        /\ input'[s].key = i.key
      BY <1>1, <2>2 DEF Answered, Typed
    <3> DEFINE s == record[i.key].assessment
    <3>1. record[i.key].hash = Payload(i) /\ a.assessment = s
      BY <2>1 DEF Recorded, Refused
    <3>2. /\ assessment[s] # None
          /\ input[s].key = i.key
          /\ record[i.key].hash = Payload(input[s])
      BY <1>2, <1>4 DEF IInv, Recorder
    <3>3. input[s].customer = i.customer
      BY <3>1, <3>2 DEF Payload
    <3>4. assessment[s].customer = input[s].customer
      BY <2>4, <3>2 DEF IInv, Kept
    <3>5. s # r
      BY <1>1, <3>2 DEF Control
    <3>6. input'[s] = input[s]
      BY <1>1, <2>4, <3>5 DEF Typed
    <3> QED BY <2>4, <3>1, <3>2, <3>3, <3>4, <3>6
  <2> QED BY <1>1, <1>3, <2>6, <2>7, <2>8, <2>9, RequestStep
<1>5. CASE record[i.key] = None /\ Goto(r, "insertRecord") /\ UNCHANGED reply
  <2>1. pc' = [pc EXCEPT ![r] = "insertRecord"] /\ reply' = reply
    BY <1>5 DEF Goto
  <2>2. Typed'
    BY <1>1, <2>1 DEF Typed, PC
  <2>3. Unmoved(r)
    BY <1>1, <2>1, SessionsSplit DEF Unmoved, Typed
  <2>4. Control(r)' /\ Counted(r)' /\ Answered(r)'
    BY <1>1, <2>1 DEF Typed, Control, Counted, Answered, Owning, Counting, NoReply
  <2> QED BY <1>1, <1>3, <2>2, <2>3, <2>4, RequestStep
<1> QED BY <1>1, <1>4, <1>5

LEMMA InsertRecordInv == ASSUME IInv, NEW r \in Requests, InsertRecord(r) PROVE IInv'
<1> Typed /\ LocksExclusive /\ Control(r) /\ r \in Sessions /\ pc[r] = "insertRecord"
  BY SessionsSplit DEF IInv, InsertRecord
<1>1. CASE Throw(r, "unique_violation")
  BY <1>1, ThrowInv
<1>2. CASE /\ record[input[r].key] = None
           /\ Acquire(r, KeyRow(input[r].key))
           /\ Goto(r, "readCustomer")
           /\ UNCHANGED <<outcomeVars, tableVars, requestVars, reviewVars, reply>>
  <2>1. /\ pc' = [pc EXCEPT ![r] = "readCustomer"]
        /\ UNCHANGED <<outcomeVars, record, assessment, audit, input, reading, draft, began,
                       review, lateReviews, reply>>
    BY <1>2 DEF Goto, tableVars, requestVars, reviewVars
  <2>2. input[r].key \in Keys
    BY InputTyped
  <2>3. /\ LocksExclusive' /\ held' \in [Sessions -> SUBSET {KeyRow(n) : n \in Keys}]
        /\ KeyRow(input[r].key) \in held'[r]
    BY <1>2, <2>2, AcquireExclusive
  <2>4. Typed'
    BY <2>1, <2>3 DEF Typed, PC
  <2>5. Unmoved(r)
    BY <1>2, <2>1, SessionsSplit DEF Unmoved, Typed, Acquire
  <2>6. Control(r)' /\ Counted(r)' /\ Answered(r)'
    BY <1>2, <2>1, <2>3 DEF Typed, Control, Counted, Answered, Owning, Counting, NoReply
  <2> QED BY <2>1, <2>3, <2>4, <2>5, <2>6, RequestStep
<1> QED BY <1>1, <1>2 DEF InsertRecord

LEMMA ReadCustomerInv == ASSUME IInv, NEW r \in Requests, ReadCustomer(r) PROVE IInv'
<1> Typed /\ LocksExclusive /\ Control(r) /\ r \in Sessions /\ pc[r] = "readCustomer"
  BY SessionsSplit DEF IInv, ReadCustomer
<1> DEFINE c == input[r].customer
<1>1. CASE Throw(r, "customer_not_found") \/ Throw(r, "forbidden")
  BY <1>1, ThrowInv
<1>2. CASE /\ c \in Customers
           /\ MayAssess(input[r])
           /\ reading' = [reading EXCEPT ![r].average = AverageBalance(c)]
           /\ began' = [began EXCEPT ![r].settled = SettledTransferCount(c),
                                     ![r].failed = FailedTransferCount(c)]
           /\ Goto(r, "countSettled")
           /\ UNCHANGED <<outcomeVars, held, tableVars, input, draft, reviewVars, reply>>
  <2>1. /\ pc' = [pc EXCEPT ![r] = "countSettled"]
        /\ UNCHANGED <<outcomeVars, held, record, assessment, audit, input, draft,
                       review, lateReviews, reply>>
    BY <1>2 DEF Goto, tableVars, reviewVars
  <2>2. AverageBalance(c) \in Int /\ SettledTransferCount(c) \in Nat /\ FailedTransferCount(c) \in Nat
    BY <1>2, AverageTyped, CountsTyped DEF IInv
  <2>3. PICK av \in Int, ns \in Nat, nf \in Nat :
           av = AverageBalance(c) /\ ns = SettledTransferCount(c) /\ nf = FailedTransferCount(c)
    BY <2>2
  <2>4. /\ reading' = [reading EXCEPT ![r].average = av]
        /\ began' = [began EXCEPT ![r].settled = ns, ![r].failed = nf]
    BY <1>2, <2>3
  <2>5. Typed' /\ began'[r].settled = ns /\ began'[r].failed = nf
    BY <2>1, <2>4 DEF Typed, PC, Readings
  <2>6. Unmoved(r)
    BY <2>1, <2>4, SessionsSplit DEF Unmoved, Typed
  <2>7. Control(r)' /\ Answered(r)'
    BY <1>2, <2>1 DEF Typed, Control, Answered, Owning, Counting, NoReply
  <2>8. Counted(r)'
    <3>1. /\ SettledTransferCount(input[r].customer)' = ns
          /\ FailedTransferCount(input[r].customer)' = nf
      BY <2>1, <2>3
         DEF SettledTransferCount, FailedTransferCount, TransfersOf, outcomeVars
    <3> QED BY <2>1, <2>5, <3>1 DEF Typed, Counted, Counting
  <2>9. LocksExclusive'
    BY <2>1 DEF LocksExclusive
  <2> QED BY <2>1, <2>5, <2>6, <2>7, <2>8, <2>9, RequestStep
<1> QED BY <1>1, <1>2 DEF ReadCustomer

\* The two counts: they are numbers of transfers that are there as they are read.
LEMMA ReadInv ==
    ASSUME IInv, NEW r \in Requests, NEW from, NEW rd \in Readings, NEW to,
           Read(r, from, rd, to),
           \/ /\ from = "countSettled" /\ to = "countFailed"
              /\ rd.settled = SettledTransferCount(input[r].customer)
           \/ /\ from = "countFailed" /\ to = "create"
              /\ rd.settled = reading[r].settled
              /\ rd.failed = FailedTransferCount(input[r].customer)
    PROVE  IInv'
<1> Typed /\ LocksExclusive /\ Control(r) /\ Counted(r) /\ r \in Sessions /\ pc[r] = from
  BY SessionsSplit DEF IInv, Read
<1> DEFINE c == input[r].customer
<1>1. /\ pc' = [pc EXCEPT ![r] = to]
      /\ reading' = [reading EXCEPT ![r] = rd]
      /\ UNCHANGED <<outcomeVars, held, record, assessment, audit, input, draft, began,
                     review, lateReviews, reply>>
  BY DEF Read, Goto, tableVars, reviewVars
<1>2. Typed'
  BY <1>1 DEF Typed, PC
<1>3. Unmoved(r)
  BY <1>1, SessionsSplit DEF Unmoved, Typed
<1>4. Control(r)' /\ Answered(r)'
  BY <1>1 DEF Typed, Control, Answered, Owning, Counting, NoReply
<1>5. c \in Customers
  BY DEF Control, Counting
<1>6. PICK ns \in Nat, nf \in Nat : ns = SettledTransferCount(c) /\ nf = FailedTransferCount(c)
  BY <1>5, CountsTyped
<1>7. SettledTransferCount(input[r].customer)' = ns /\ FailedTransferCount(input[r].customer)' = nf
  BY <1>1, <1>6 DEF SettledTransferCount, FailedTransferCount, TransfersOf, outcomeVars
<1>8. Counted(r)'
  BY <1>1, <1>6, <1>7 DEF Typed, Counted, Counting
<1>9. LocksExclusive'
  BY <1>1 DEF LocksExclusive
<1> QED BY <1>1, <1>2, <1>3, <1>4, <1>8, <1>9, RequestStep

LEMMA CountInv == ASSUME IInv, NEW r \in Requests, CountSettled(r) \/ CountFailed(r) PROVE IInv'
<1> Typed /\ Control(r) /\ r \in Sessions
  BY SessionsSplit DEF IInv
<1>1. input[r].customer \in Customers
  BY DEF Control, Counting, CountSettled, CountFailed, Read
<1>2. PICK ns \in Nat, nf \in Nat : /\ ns = SettledTransferCount(input[r].customer)
                                    /\ nf = FailedTransferCount(input[r].customer)
  BY <1>1, CountsTyped
<1>3. PICK old \in Readings : old = reading[r]
  BY DEF Typed
<1>4. CASE CountSettled(r)
  <2>1. [old EXCEPT !.settled = ns] \in Readings /\ [old EXCEPT !.settled = ns].settled = ns
    BY DEF Readings
  <2>2. Read(r, "countSettled", [old EXCEPT !.settled = ns], "countFailed")
    BY <1>2, <1>3, <1>4 DEF CountSettled
  <2> QED BY <1>2, <2>1, <2>2, ReadInv
<1>5. CASE CountFailed(r)
  <2>1. /\ [old EXCEPT !.failed = nf] \in Readings
        /\ [old EXCEPT !.failed = nf].failed = nf
        /\ [old EXCEPT !.failed = nf].settled = reading[r].settled
    BY <1>3 DEF Readings
  <2>2. Read(r, "countFailed", [old EXCEPT !.failed = nf], "create")
    BY <1>2, <1>3, <1>5 DEF CountFailed
  <2> QED BY <1>2, <2>1, <2>2, ReadInv
<1> QED BY <1>4, <1>5

LEMMA DraftInv == ASSUME IInv, NEW r \in Requests, CreateAssessment(r) \/ Advance(r) PROVE IInv'
<1> Typed /\ LocksExclusive /\ Control(r) /\ Counted(r) /\ r \in Sessions
  BY SessionsSplit DEF IInv
<1>1. pc[r] \in {"create", "advance"} /\ (pc[r] = "advance" => draft[r] \in Drafts)
  BY DEF CreateAssessment, Advance, Control
<1>2. PICK s \in Drafts :
         /\ draft' = [draft EXCEPT ![r] = s]
         /\ pc' = [pc EXCEPT ![r] = "advance"]
         /\ UNCHANGED <<outcomeVars, held, record, assessment, audit, input, reading, began,
                        review, lateReviews, reply>>
  <2>1. CASE CreateAssessment(r)
    BY <2>1 DEF CreateAssessment, Goto, Drafts, tableVars, reviewVars
  <2>2. CASE Advance(r)
    <3>1. Following[draft[r]] \in Drafts
      BY <1>1, <2>2 DEF Advance, Following, Drafts
    <3>2. pc' = [pc EXCEPT ![r] = "advance"]
      BY <2>2 DEF Advance, Typed
    <3> QED BY <2>2, <3>1, <3>2 DEF Advance, tableVars, reviewVars
  <2> QED BY <2>1, <2>2
<1>3. Typed'
  BY <1>2 DEF Typed, PC
<1>4. Unmoved(r)
  BY <1>2, SessionsSplit DEF Unmoved, Typed
<1>5. Control(r)' /\ Answered(r)'
  BY <1>1, <1>2 DEF Typed, Control, Answered, Owning, Counting, NoReply
<1>6. /\ SettledTransferCount(input[r].customer)' = SettledTransferCount(input[r].customer)
      /\ FailedTransferCount(input[r].customer)' = FailedTransferCount(input[r].customer)
  BY <1>2 DEF SettledTransferCount, FailedTransferCount, TransfersOf, outcomeVars
<1>7. Counted(r)'
  BY <1>1, <1>2, <1>6 DEF Typed, Counted, Counting
<1>8. LocksExclusive'
  BY <1>2 DEF LocksExclusive
<1> QED BY <1>1, <1>2, <1>3, <1>4, <1>5, <1>7, <1>8, RequestStep

-----------------------------------------------------------------------------
(* The commit of createAssessment.                                         *)

\* The row that is written is an assessment of what was read.
LEMMA AssessedTyped ==
    ASSUME Typed, NEW r \in Requests, input[r].customer \in Customers, draft[r] = "UNDER_REVIEW"
    PROVE  /\ Assessed(r) \in Assessment
           /\ Assessed(r).status = "UNDER_REVIEW"
           /\ Assessed(r).customer = input[r].customer
           /\ Assessed(r).profile = Profile(reading[r])
           /\ Assessed(r).score = Score(Profile(reading[r]))
           /\ Assessed(r).counts.settled = reading[r].settled
           /\ Assessed(r).counts.failed = reading[r].failed
           /\ Assessed(r).reviewedBy = None
<1>1. PICK p \in Profiles : p = Profile(reading[r])
  BY ReadingTyped, ProfileTyped
<1>2. PICK n \in 300 .. 850 : n = Score(Profile(reading[r]))
  BY <1>1, ScoreTyped
<1>3. PICK k \in Counts : k = [settled |-> reading[r].settled, failed |-> reading[r].failed]
  BY ReadingTyped DEF Counts
<1>4. Assessed(r) = [status |-> "UNDER_REVIEW", customer |-> input[r].customer, profile |-> p,
                     score |-> n, counts |-> k, reviewedBy |-> None]
  BY <1>1, <1>2, <1>3 DEF Assessed
<1> QED BY <1>1, <1>2, <1>3, <1>4 DEF Assessment

LEMMA KeyRowOwned ==
    ASSUME LocksExclusive, NEW p \in Sessions, NEW q \in Sessions, p # q, NEW k, KeyRow(k) \in held[p]
    PROVE  KeyRow(k) \notin held[q]
  BY DEF LocksExclusive

LEMMA CommitInv == ASSUME IInv, NEW r \in Requests, Commit(r) PROVE IInv'
<1> Typed /\ LocksExclusive /\ Control(r) /\ Counted(r) /\ r \in Sessions
  BY SessionsSplit DEF IInv
<1>1. PICK k, a, rec, answer :
         /\ k = input[r].key
         /\ a = Assessed(r)
         /\ rec = [hash |-> Payload(input[r]), assessment |-> r]
         /\ answer \in {[kind |-> "created", assessment |-> r], Refused("error")}
         /\ Answer(r, answer)
  BY DEF Commit
<1>2. /\ pc[r] = "advance" /\ draft[r] = "UNDER_REVIEW"
      /\ assessment' = [assessment EXCEPT ![r] = a]
      /\ record' = [record EXCEPT ![k] = rec]
      /\ Release(r)
      /\ draft' = [draft EXCEPT ![r] = None]
      /\ reading' = [reading EXCEPT ![r] = NothingRead]
      /\ reply' = [reply EXCEPT ![r] = answer]
      /\ pc' = [pc EXCEPT ![r] = "done"]
      /\ UNCHANGED <<outcomeVars, input, review, lateReviews, began>>
  BY <1>1 DEF Commit, Answer, Goto, reviewVars
<1>3. /\ input[r] \in Inputs /\ k \in Keys /\ record[k] = None /\ KeyRow(k) \in held[r]
      /\ input[r].customer \in Customers /\ assessment[r] = None
  BY <1>1, <1>2, InputTyped DEF Control, Owning, Counting
<1>4. /\ a \in Assessment
      /\ a.status = "UNDER_REVIEW"
      /\ a.customer = input[r].customer
      /\ a.profile = Profile(reading[r])
      /\ a.score = Score(Profile(reading[r]))
      /\ a.counts.settled = reading[r].settled
      /\ a.counts.failed = reading[r].failed
      /\ a.reviewedBy = None
  BY <1>1, <1>2, <1>3, AssessedTyped
<1>5. rec \in KeyRecord /\ rec.assessment = r /\ rec.hash = Payload(input[r])
  BY <1>1, <1>3 DEF KeyRecord
<1>6. answer \in Replies /\ (answer.kind \in {"created", "replayed"} => answer.assessment = r)
  BY <1>1 DEF Replies, Refused
<1>7. a # None /\ rec # None /\ NothingRead \in Readings
  BY <1>4, <1>5, SessionsSplit DEF NothingRead, Readings
<1>8. LocksExclusive' /\ held' \in [Sessions -> SUBSET {KeyRow(n) : n \in Keys}]
  BY <1>2, ReleaseExclusive
<1>9. Typed'
  BY <1>2, <1>3, <1>4, <1>5, <1>6, <1>7, <1>8 DEF Typed, PC
<1>10. OutcomesTyped'
  BY <1>2 DEF IInv, OutcomesTyped, outcomeVars
<1>11. /\ record'[k] = rec /\ assessment'[r] = a
       /\ \A n \in Keys \ {k} : record'[n] = record[n]
       /\ \A q \in Requests \ {r} : assessment'[q] = assessment[q]
  BY <1>2, <1>3 DEF Typed
<1>12. ASSUME NEW q \in Requests \ {r}
       PROVE  /\ pc'[q] = pc[q] /\ reply'[q] = reply[q] /\ held'[q] = held[q]
              /\ reading'[q] = reading[q] /\ draft'[q] = draft[q]
  BY <1>2, SessionsSplit DEF Typed, Release
<1>13. ASSUME NEW q \in Requests \ {r} PROVE Control(q)' /\ Counted(q)'
  <2>1. pc[q] \in Owning => input[q].key # k
    BY <1>3, KeyRowOwned, SessionsSplit DEF IInv, Control
  <2>2. pc[q] \in Owning => record'[input[q].key] = None
    <3>1. pc[q] \in Owning => input[q].key \in Keys
      BY InputTyped DEF IInv, Owning, Counting
    <3> QED BY <1>11, <2>1, <3>1 DEF IInv, Control
  <2>3. Control(q)'
    BY <1>2, <1>11, <1>12, <2>2 DEF IInv, Control
  <2>4. /\ SettledTransferCount(input[q].customer)' = SettledTransferCount(input[q].customer)
        /\ FailedTransferCount(input[q].customer)' = FailedTransferCount(input[q].customer)
    BY <1>2 DEF SettledTransferCount, FailedTransferCount, TransfersOf, outcomeVars
  <2>5. Counted(q)'
    BY <1>2, <1>12, <2>4 DEF IInv, Counted
  <2> QED BY <2>3, <2>5
<1>14. Control(r)' /\ Counted(r)'
  BY <1>2, <1>3 DEF Typed, Control, Counted, Owning, Counting
<1>15. ASSUME NEW q \in Requests PROVE Kept(q)'
  <2>1. CASE q = r
    BY <1>1, <1>2, <1>4, <1>5, <1>7, <1>11, <2>1 DEF Kept
  <2>2. CASE q # r
    <3>1. assessment[q] # None => input[q].key # k
      BY <1>3 DEF IInv, Kept
    <3>2. assessment[q] # None => input[q].key \in Keys
      <4>1. assessment[q] # None => pc[q] = "done"
        BY DEF IInv, Control
      <4> QED BY <4>1, InputTyped DEF IInv
    <3> QED BY <1>2, <1>11, <2>2, <3>1, <3>2 DEF IInv, Kept
  <2> QED BY <2>1, <2>2
<1>16. ASSUME NEW q \in Requests PROVE Answered(q)'
  <2>1. CASE q = r
    BY <1>2, <1>4, <1>6, <1>7, <1>11, <2>1 DEF Answered, Typed
  <2>2. CASE q # r
    <3>1. reply'[q] = reply[q]
      BY <1>12, <2>2
    <3>2. reply[q].kind \in {"created", "replayed"} => reply[q].assessment # r
      BY <1>3 DEF IInv, Answered
    <3> QED BY <1>2, <1>11, <3>1, <3>2 DEF IInv, Answered
  <2> QED BY <2>1, <2>2
<1>17. ASSUME NEW q \in Requests PROVE DecidedBy(q)'
  <2>1. CASE q = r
    <3>1. assessment'[q] = a /\ a.reviewedBy = None
      BY <1>4, <1>11, <2>1
    <3> QED BY <3>1 DEF DecidedBy
  <2>2. CASE q # r
    <3>1. \A p \in Reviewers : pc'[p] = pc[p]
      BY <1>2, SessionsSplit DEF Typed
    <3> QED BY <1>2, <1>11, <2>2, <3>1 DEF IInv, DecidedBy, Decided
  <2> QED BY <2>1, <2>2
<1>18. ASSUME NEW n \in Keys PROVE Recorder(n)'
  <2>1. CASE n = k
    BY <1>1, <1>2, <1>5, <1>7, <1>11, <2>1 DEF Recorder
  <2>2. CASE n # k
    <3>1. record[n] # None => record[n].assessment \in Requests
      BY SessionsSplit DEF Typed, KeyRecord
    <3>2. record[n] # None => record[n].assessment # r
      BY <1>3 DEF IInv, Recorder
    <3> QED BY <1>2, <1>11, <2>2, <3>1, <3>2 DEF IInv, Recorder
  <2> QED BY <2>1, <2>2
<1>19. ASSUME NEW p \in Reviewers PROVE Reviewing(p)'
  <2>1. pc'[p] = pc[p] /\ reply'[p] = reply[p]
    BY <1>2, SessionsSplit DEF Typed
  <2>2. review[p] \in ReviewOf => review[p].assessment \in Requests
    BY DEF ReviewOf
  <2>3. \A q \in Requests : assessment[q] # None => q # r /\ assessment'[q] = assessment[q]
    BY <1>2, <1>3, <1>11
  <2>4. Reviewing(p) /\ review'[p] = review[p] /\ lateReviews' = lateReviews
    BY <1>2 DEF IInv
  <2>5. pc[p] \in {"decide", "audit"} =>
          LET q == review[p].assessment IN
          q \in Requests /\ assessment[q] # None /\ assessment'[q] = assessment[q]
    BY <2>2, <2>3, <2>4 DEF Reviewing
  <2>6. reply[p].kind = "decided" =>
          LET q == reply[p].assessment IN
          q \in Requests /\ assessment[q] # None /\ assessment'[q] = assessment[q]
    BY <2>3, <2>4 DEF Reviewing
  <2> QED BY <2>1, <2>4, <2>5, <2>6 DEF Reviewing, Decided
<1>20. Traced'
  <2>1. PICK rd \in Readings : rd = reading[r]
    BY ReadingTyped
  <2>2. Profile(rd).average = rd.average
    BY ProfileTyped
  <2>3. rd = [average |-> rd.average, settled |-> rd.settled, failed |-> rd.failed]
    BY DEF Readings
  <2>4. a.profile = Profile([average |-> a.profile.average, settled |-> a.counts.settled,
                             failed |-> a.counts.failed])
    BY <1>4, <2>1, <2>2, <2>3
  <2>5. a.score = Score(a.profile)
    BY <1>4
  <2> QED BY <1>11, <2>4, <2>5 DEF IInv, Traced
<1>21. CountsAreOfTheirTime'
  <2>1. \A q \in Requests \ {r} :
           assessment'[q] = assessment[q] /\ began'[q] = began[q]
    BY <1>2, <1>11
  <2>2. /\ SettledTransferCount(input[r].customer)' = SettledTransferCount(input[r].customer)
        /\ FailedTransferCount(input[r].customer)' = FailedTransferCount(input[r].customer)
    BY <1>2 DEF SettledTransferCount, FailedTransferCount, TransfersOf, outcomeVars
  <2>3. /\ began'[r].settled <= a.counts.settled
        /\ a.counts.settled <= SettledTransferCount(input[r].customer)'
        /\ began'[r].failed <= a.counts.failed
        /\ a.counts.failed <= FailedTransferCount(input[r].customer)'
    BY <1>2, <1>4, <2>2 DEF Counted, Counting
  <2>4. a.customer = input[r].customer /\ assessment'[r] = a
    BY <1>4, <1>11
  <2>5. ASSUME NEW q \in Requests, assessment'[q] # None
        PROVE  /\ began'[q].settled <= assessment'[q].counts.settled
               /\ assessment'[q].counts.settled <= SettledTransferCount(assessment[q].customer)'
               /\ began'[q].failed <= assessment'[q].counts.failed
               /\ assessment'[q].counts.failed <= FailedTransferCount(assessment[q].customer)'
    <3>1. CASE q = r
      <4>1. assessment'[r].customer = input'[r].customer
        BY <1>2, <2>4
      <4>2. /\ SettledTransferCount(assessment[r].customer)' = SettledTransferCount(input[r].customer)'
            /\ FailedTransferCount(assessment[r].customer)' = FailedTransferCount(input[r].customer)'
        BY <4>1 DEF SettledTransferCount, FailedTransferCount, TransfersOf
      <4> QED BY <2>3, <2>4, <3>1, <4>2
    <3>2. CASE q # r
      <4>1. assessment'[q] = assessment[q] /\ assessment[q] # None /\ began'[q] = began[q]
        BY <2>1, <2>5, <3>2
      <4>2. /\ SettledTransferCount(assessment[q].customer)' = SettledTransferCount(assessment[q].customer)
            /\ FailedTransferCount(assessment[q].customer)' = FailedTransferCount(assessment[q].customer)
        BY <1>2, <4>1
           DEF SettledTransferCount, FailedTransferCount, TransfersOf, outcomeVars
      <4> QED BY <4>1, <4>2 DEF IInv, CountsAreOfTheirTime
    <3> QED BY <3>1, <3>2
  <2> QED BY <2>5 DEF CountsAreOfTheirTime
<1> QED BY <1>8, <1>9, <1>10, <1>13, <1>14, <1>15, <1>16, <1>17, <1>18, <1>19, <1>20, <1>21 DEF IInv

-----------------------------------------------------------------------------
(* reviewAssessment                                                        *)

LEMMA LoadInv == ASSUME IInv, NEW p \in Reviewers, Load(p) PROVE IInv'
<1> Typed /\ Reviewing(p) /\ p \in Sessions
  BY SessionsSplit DEF IInv
<1>1. PICK a \in Requests, d \in Decisions :
         /\ pc[p] = "idle"
         /\ lateReviews' = lateReviews \cup {q \in {p} : Told(a)}
         /\ \/ /\ Answer(p, Refused("not_found")) \/ Answer(p, Refused("not_reviewable"))
               /\ UNCHANGED review
            \/ /\ assessment[a] # None /\ Reviewable(a)
               /\ review' = [review EXCEPT ![p] = [assessment |-> a, decision |-> d]]
               /\ Goto(p, "decide") /\ UNCHANGED reply
         /\ UNCHANGED <<outcomeVars, held, record, assessment, audit, requestVars>>
  BY DEF Load, tableVars
<1>2. [assessment |-> a, decision |-> d] \in ReviewOf
  BY DEF ReviewOf
<1>3. PICK to \in {"decide", "done"}, answer \in Replies, plan \in ReviewOf \cup {None} :
         /\ pc' = [pc EXCEPT ![p] = to]
         /\ reply' = [reply EXCEPT ![p] = answer]
         /\ answer.kind = "decided" => to = "decide" /\ answer = reply[p]
         /\ review' = [review EXCEPT ![p] = plan]
         /\ to = "decide" => /\ assessment[a] # None /\ ~ Decided(a)
                             /\ plan = [assessment |-> a, decision |-> d]
  <2>1. CASE /\ Answer(p, Refused("not_found")) \/ Answer(p, Refused("not_reviewable"))
             /\ UNCHANGED review
    <3>1. PICK kind \in {"not_found", "not_reviewable"} : Answer(p, Refused(kind))
      BY <2>1
    <3>2. Refused(kind) \in Replies /\ Refused(kind).kind # "decided"
      BY DEF Refused, Replies
    <3>3. review[p] \in ReviewOf \cup {None} /\ review' = [review EXCEPT ![p] = review[p]]
      BY <2>1 DEF Typed
    <3> QED BY <3>1, <3>2, <3>3 DEF Answer, Goto
  <2>2. CASE /\ assessment[a] # None /\ Reviewable(a)
             /\ review' = [review EXCEPT ![p] = [assessment |-> a, decision |-> d]]
             /\ Goto(p, "decide") /\ UNCHANGED reply
    <3>1. reply[p] \in Replies /\ reply' = [reply EXCEPT ![p] = reply[p]]
      BY <2>2 DEF Typed
    <3> QED BY <1>2, <2>2, <3>1 DEF Goto, Reviewable, Decided, Decisions
  <2> QED BY <1>1, <2>1, <2>2
<1>4. Told(a) => assessment[a] # None /\ Decided(a)
  BY DEF Told, IInv, Reviewing
<1>5. p \notin lateReviews
  BY <1>1 DEF Reviewing
<1>6. /\ lateReviews' \subseteq lateReviews \cup {p} /\ lateReviews \subseteq lateReviews'
      /\ to = "decide" => p \notin lateReviews'
  BY <1>1, <1>3, <1>4, <1>5
<1>7. Typed'
  BY <1>1, <1>3, <1>6 DEF Typed, PC, requestVars
<1>8. Reviewing(p)'
  <2>1. pc'[p] = to /\ reply'[p] = answer /\ review'[p] = plan
    BY <1>1, <1>3 DEF Typed
  <2>2. answer.kind = "decided" => answer = reply[p]
    BY <1>3
  <2> QED BY <1>1, <1>2, <1>3, <1>6, <2>1, <2>2 DEF Reviewing, Decided
<1> QED BY <1>1, <1>3, <1>6, <1>7, <1>8, ReviewerStep DEF Typed

LEMMA AuditReviewInv == ASSUME IInv, NEW p \in Reviewers, AuditReview(p) PROVE IInv'
<1> Typed /\ Reviewing(p) /\ p \in Sessions
  BY SessionsSplit DEF IInv
<1>1. PICK answer : answer = [kind |-> "decided", assessment |-> review[p].assessment]
  OBVIOUS
<1>2. /\ pc[p] = "audit"
      /\ pc' = [pc EXCEPT ![p] = "done"]
      /\ reply' = [reply EXCEPT ![p] = answer]
      /\ UNCHANGED <<outcomeVars, held, record, assessment, requestVars, review, lateReviews>>
  BY <1>1 DEF AuditReview, Answer, Goto, reviewVars
<1>3. /\ review[p].assessment \in Requests
      /\ assessment[review[p].assessment] # None /\ Decided(review[p].assessment)
  BY <1>2 DEF Reviewing, ReviewOf
<1>4. answer \in Replies
  BY <1>1, <1>3 DEF Replies
<1>5. Typed'
  BY <1>2, <1>4 DEF Typed, PC, requestVars
<1>6. Reviewing(p)'
  <2>1. reply'[p] = answer /\ pc'[p] = "done"
    BY <1>2 DEF Typed
  <2>2. answer.assessment = review[p].assessment
    BY <1>1
  <2> QED BY <1>2, <1>3, <2>1, <2>2 DEF Reviewing, Decided
<1> QED BY <1>2, <1>5, <1>6, ReviewerStep DEF Typed

\* The update is by id alone: the row is there, decided or not.
LEMMA DecideInv == ASSUME IInv, NEW p \in Reviewers, Decide(p) PROVE IInv'
<1> Typed /\ Reviewing(p) /\ p \in Sessions
  BY SessionsSplit DEF IInv
<1>1. PICK a, old, new :
         /\ a = review[p].assessment
         /\ old = assessment[a]
         /\ new = [old EXCEPT !.status = review[p].decision, !.reviewedBy = p]
  OBVIOUS
<1>2. /\ pc[p] = "decide"
      /\ pc' = [pc EXCEPT ![p] = "audit"]
      /\ UNCHANGED <<outcomeVars, held, record, requestVars, review, lateReviews, reply>>
  BY DEF Decide, Goto, reviewVars
<1>3. /\ review[p] \in ReviewOf /\ a \in Requests /\ old # None
      /\ review[p] = [assessment |-> a, decision |-> review[p].decision]
      /\ review[p].decision \in Decisions
  BY <1>1, <1>2 DEF Reviewing, ReviewOf
<1>4. old \in Assessment
  BY <1>1, <1>3 DEF Typed
<1>5. /\ new \in Assessment
      /\ new.status = review[p].decision /\ new.reviewedBy = p
      /\ new.customer = old.customer /\ new.profile = old.profile
      /\ new.score = old.score /\ new.counts = old.counts
  <2>1. PICK d \in {"UNDER_REVIEW"} \cup Decisions : d = review[p].decision
    BY <1>3
  <2>2. PICK n : n = [old EXCEPT !.status = d]
    OBVIOUS
  <2>3. /\ n \in Assessment /\ n.status = d
        /\ n.customer = old.customer /\ n.profile = old.profile
        /\ n.score = old.score /\ n.counts = old.counts
    BY <1>4, <2>2 DEF Assessment
  <2>4. new = [n EXCEPT !.reviewedBy = p]
    BY <1>1, <2>1, <2>2
  <2> QED BY <2>1, <2>3, <2>4 DEF Assessment
<1>6. assessment' = [assessment EXCEPT ![a] = new]
  <2>1. assessment' = [assessment EXCEPT ![a].status = review[p].decision, ![a].reviewedBy = p]
    BY <1>1 DEF Decide
  <2>2. assessment' = [assessment EXCEPT ![a] = [@ EXCEPT !.status = review[p].decision,
                                                          !.reviewedBy = p]]
    BY <1>3, <2>1 DEF Typed
  <2> QED BY <1>1, <2>2
<1>7. new # None
  BY <1>5, SessionsSplit
<1>8. /\ assessment'[a] = new
      /\ \A q \in Requests \ {a} : assessment'[q] = assessment[q]
      /\ \A q \in Requests : assessment'[q] # None <=> assessment[q] # None
      /\ \A q \in Requests : assessment[q] # None =>
            /\ assessment'[q].customer = assessment[q].customer
            /\ assessment'[q].profile = assessment[q].profile
            /\ assessment'[q].score = assessment[q].score
            /\ assessment'[q].counts = assessment[q].counts
            /\ Decided(q) => assessment'[q].status \in Decisions
      /\ assessment'[a].status \in Decisions
  BY <1>1, <1>3, <1>5, <1>6, <1>7 DEF Typed, Decided
<1>9. Typed' /\ LocksExclusive' /\ OutcomesTyped'
  BY <1>2, <1>5, <1>6
     DEF IInv, Typed, PC, LocksExclusive, OutcomesTyped, outcomeVars, requestVars
<1>10. ASSUME NEW q \in Requests
       PROVE  pc'[q] = pc[q] /\ reply'[q] = reply[q] /\ input'[q] = input[q]
              /\ reading'[q] = reading[q] /\ draft'[q] = draft[q] /\ began'[q] = began[q]
  BY <1>2, SessionsSplit DEF Typed, requestVars
<1>11. ASSUME NEW q \in Requests PROVE Control(q)' /\ Counted(q)' /\ Kept(q)' /\ Answered(q)'
  <2>1. Control(q)'
    BY <1>2, <1>8, <1>10 DEF IInv, Control
  <2>2. /\ SettledTransferCount(input[q].customer)' = SettledTransferCount(input[q].customer)
        /\ FailedTransferCount(input[q].customer)' = FailedTransferCount(input[q].customer)
    BY <1>2, <1>10 DEF SettledTransferCount, FailedTransferCount, TransfersOf, outcomeVars
  <2>3. Counted(q)'
    BY <1>10, <2>2 DEF IInv, Counted
  <2>4. Kept(q)'
    BY <1>2, <1>8, <1>10 DEF IInv, Kept
  <2>5. Answered(q)'
    BY <1>8, <1>10 DEF IInv, Answered
  <2> QED BY <2>1, <2>3, <2>4, <2>5
<1>12. ASSUME NEW q \in Requests PROVE DecidedBy(q)'
  <2>1. CASE q = a
    <3>1. assessment'[q].reviewedBy = p /\ pc'[p] = "audit" /\ p \notin lateReviews'
      BY <1>2, <1>5, <1>8, <2>1 DEF Reviewing, Typed
    <3> QED BY <3>1 DEF DecidedBy
  <2>2. CASE q # a
    <3>1. \A x \in Reviewers : pc[x] # "idle" => pc'[x] # "idle"
      BY <1>2, SessionsSplit DEF Typed
    <3> QED BY <1>2, <1>8, <2>2, <3>1 DEF IInv, DecidedBy, Decided
  <2> QED BY <2>1, <2>2
<1>13. ASSUME NEW k \in Keys PROVE Recorder(k)'
  <2>1. record[k] # None => record[k].assessment \in Requests
    BY SessionsSplit DEF Typed, KeyRecord
  <2> QED BY <1>2, <1>8, <1>10, <2>1 DEF IInv, Recorder
<1>14. ASSUME NEW q \in Reviewers PROVE Reviewing(q)'
  <2>1. review[q] \in ReviewOf => review[q].assessment \in Requests
    BY DEF ReviewOf
  <2>2. /\ pc'[q] = IF q = p THEN "audit" ELSE pc[q]
        /\ reply'[q] = reply[q] /\ review'[q] = review[q] /\ lateReviews' = lateReviews
    BY <1>2, SessionsSplit DEF Typed
  <2>3. Reviewing(q)
    BY DEF IInv
  <2>4. pc'[q] \in {"decide", "audit"} =>
          /\ review'[q] \in ReviewOf
          /\ assessment'[review'[q].assessment] # None
    BY <1>2, <1>8, <2>1, <2>2, <2>3 DEF Reviewing
  <2>5. pc'[q] = "audit" => assessment'[review'[q].assessment].status \in Decisions
    BY <1>1, <1>2, <1>8, <2>1, <2>2, <2>3 DEF Reviewing
  <2>6. reply'[q].kind = "decided" =>
          /\ q \notin lateReviews'
          /\ reply'[q].assessment \in Requests
          /\ assessment'[reply'[q].assessment] # None
          /\ assessment'[reply'[q].assessment].status \in Decisions
    BY <1>8, <2>2, <2>3 DEF Reviewing
  <2>7. pc'[q] # "done" => q \notin lateReviews'
    BY <1>2, <2>2, <2>3 DEF Reviewing
  <2>8. pc'[q] \in {"idle", "decide", "audit", "done"}
    BY <2>2, <2>3 DEF Reviewing
  <2> QED BY <2>4, <2>5, <2>6, <2>7, <2>8 DEF Reviewing, Decided
<1>15. Traced'
  BY <1>8 DEF IInv, Traced
<1>16. CountsAreOfTheirTime'
  <2>1. ASSUME NEW q \in Requests, assessment'[q] # None
        PROVE  /\ began'[q].settled <= assessment'[q].counts.settled
               /\ assessment'[q].counts.settled <= SettledTransferCount(assessment[q].customer)'
               /\ began'[q].failed <= assessment'[q].counts.failed
               /\ assessment'[q].counts.failed <= FailedTransferCount(assessment[q].customer)'
    <3>1. assessment[q] # None
      BY <1>8, <2>1
    <3>2. /\ SettledTransferCount(assessment[q].customer)' = SettledTransferCount(assessment[q].customer)
          /\ FailedTransferCount(assessment[q].customer)' = FailedTransferCount(assessment[q].customer)
      BY <1>2, <1>8, <3>1
         DEF SettledTransferCount, FailedTransferCount, TransfersOf, outcomeVars
    <3> QED BY <1>8, <1>10, <3>1, <3>2 DEF IInv, CountsAreOfTheirTime
  <2> QED BY <2>1 DEF CountsAreOfTheirTime
<1> QED BY <1>9, <1>11, <1>12, <1>13, <1>14, <1>15, <1>16 DEF IInv

LEMMA FailInv == ASSUME IInv, NEW p \in Sessions, Fail(p) PROVE IInv'
<1>1. CASE p \in Requests /\ pc[p] \notin {"idle", "done"} /\ Throw(p, "error")
  BY <1>1, ThrowInv
<1>2. CASE /\ p \in Reviewers
           /\ pc[p] \in {"decide", "audit"}
           /\ Answer(p, Refused("error"))
           /\ UNCHANGED <<outcomeVars, held, tableVars, requestVars, reviewVars>>
  <2> Typed /\ Reviewing(p)
    BY <1>2 DEF IInv
  <2>1. /\ pc' = [pc EXCEPT ![p] = "done"]
        /\ reply' = [reply EXCEPT ![p] = Refused("error")]
        /\ UNCHANGED <<outcomeVars, held, record, assessment, requestVars, review, lateReviews>>
    BY <1>2 DEF Answer, Goto, tableVars, reviewVars
  <2>2. Refused("error") \in Replies /\ Refused("error").kind # "decided"
    BY DEF Refused, Replies
  <2>3. Typed'
    BY <2>1, <2>2 DEF Typed, PC, requestVars
  <2>4. Reviewing(p)'
    BY <1>2, <2>1, <2>2 DEF Reviewing, Typed
  <2> QED BY <1>2, <2>1, <2>3, <2>4, ReviewerStep DEF Typed
<1> QED BY <1>1, <1>2 DEF Fail

-----------------------------------------------------------------------------
(* Transfers come to their outcomes while requests count them.             *)

LEMMA OutcomesInv == ASSUME IInv, OutcomesNext, UNCHANGED creditVars PROVE IInv'
<1> Typed
  BY DEF IInv
<1>1. UNCHANGED <<held, pc, reply, record, assessment, input, reading, draft, began, review,
                  lateReviews>>
  BY DEF creditVars, tableVars, requestVars, reviewVars
<1>2. OutcomesTyped'
  BY OutcomesKept DEF IInv
<1>3. Typed' /\ LocksExclusive'
  BY <1>1 DEF IInv, Typed, LocksExclusive
<1>4. ASSUME NEW c \in Customers
      PROVE  /\ SettledTransferCount(c) \in Nat /\ SettledTransferCount(c)' \in Nat
             /\ SettledTransferCount(c) <= SettledTransferCount(c)'
             /\ FailedTransferCount(c) \in Nat /\ FailedTransferCount(c)' \in Nat
             /\ FailedTransferCount(c) <= FailedTransferCount(c)'
  BY CountsTyped, CountsGrow DEF IInv
<1>5. ASSUME NEW r \in Requests
      PROVE  Control(r)' /\ Kept(r)' /\ Answered(r)' /\ DecidedBy(r)'
  BY <1>1 DEF IInv, Control, Kept, Answered, DecidedBy, Decided
<1>6. ASSUME NEW r \in Requests PROVE Counted(r)'
  <2>1. CASE pc[r] \notin Counting
    BY <1>1, <2>1 DEF Counted, Counting
  <2>2. CASE pc[r] \in Counting
    <3>1. PICK c \in Customers : c = input[r].customer
      BY <2>2 DEF IInv, Control
    <3>2. PICK n \in Nat, m \in Nat, x \in Nat, y \in Nat :
             /\ n = SettledTransferCount(input[r].customer)
             /\ m = SettledTransferCount(input[r].customer)'
             /\ x = FailedTransferCount(input[r].customer)
             /\ y = FailedTransferCount(input[r].customer)'
             /\ n <= m /\ x <= y
      <4>1. /\ SettledTransferCount(input[r].customer) = SettledTransferCount(c)
            /\ FailedTransferCount(input[r].customer) = FailedTransferCount(c)
        BY <3>1
      <4>2. /\ SettledTransferCount(input[r].customer)' = SettledTransferCount(c)'
            /\ FailedTransferCount(input[r].customer)' = FailedTransferCount(c)'
        BY <1>1, <3>1 DEF SettledTransferCount, FailedTransferCount, TransfersOf
      <4> QED BY <1>4, <4>1, <4>2
    <3>3. began[r].settled \in Nat /\ began[r].failed \in Nat
          /\ reading[r].settled \in Nat /\ reading[r].failed \in Nat
      BY ReadingTyped
    <3> QED BY <1>1, <3>2, <3>3 DEF IInv, Counted
  <2> QED BY <2>1, <2>2
<1>7. ASSUME NEW k \in Keys PROVE Recorder(k)'
  BY <1>1 DEF IInv, Recorder
<1>8. ASSUME NEW p \in Reviewers PROVE Reviewing(p)'
  BY <1>1 DEF IInv, Reviewing, Decided
<1>9. Traced'
  BY <1>1 DEF IInv, Traced
<1>10. CountsAreOfTheirTime'
  <2>1. ASSUME NEW r \in Requests, assessment'[r] # None
        PROVE  /\ began'[r].settled <= assessment'[r].counts.settled
               /\ assessment'[r].counts.settled <= SettledTransferCount(assessment[r].customer)'
               /\ began'[r].failed <= assessment'[r].counts.failed
               /\ assessment'[r].counts.failed <= FailedTransferCount(assessment[r].customer)'
    <3>1. assessment[r] \in Assessment /\ assessment[r] # None
      BY <1>1, <2>1 DEF Typed
    <3>2. PICK c \in Customers : c = assessment[r].customer
      BY <3>1 DEF Assessment
    <3>3. PICK n \in Nat, m \in Nat, x \in Nat, y \in Nat :
             /\ n = SettledTransferCount(assessment[r].customer)
             /\ m = SettledTransferCount(assessment[r].customer)'
             /\ x = FailedTransferCount(assessment[r].customer)
             /\ y = FailedTransferCount(assessment[r].customer)'
             /\ n <= m /\ x <= y
      <4>1. /\ SettledTransferCount(assessment[r].customer) = SettledTransferCount(c)
            /\ FailedTransferCount(assessment[r].customer) = FailedTransferCount(c)
        BY <3>2
      <4>2. /\ SettledTransferCount(assessment[r].customer)' = SettledTransferCount(c)'
            /\ FailedTransferCount(assessment[r].customer)' = FailedTransferCount(c)'
        BY <1>1, <3>2 DEF SettledTransferCount, FailedTransferCount, TransfersOf
      <4> QED BY <1>4, <4>1, <4>2
    <3>4. assessment[r].counts.settled \in Nat /\ assessment[r].counts.failed \in Nat
      <4>1. assessment[r].counts \in Counts
        BY <3>1 DEF Assessment
      <4> QED BY <4>1 DEF Counts
    <3> QED BY <1>1, <3>1, <3>3, <3>4 DEF IInv, CountsAreOfTheirTime
  <2> QED BY <2>1 DEF CountsAreOfTheirTime
<1> QED BY <1>2, <1>3, <1>5, <1>6, <1>7, <1>8, <1>9, <1>10 DEF IInv

LEMMA StutterInv == ASSUME IInv, UNCHANGED vars PROVE IInv'
<1>1. UNCHANGED <<outcomeVars, held, pc, reply, record, assessment, input, reading, draft, began,
                  review, lateReviews>>
  BY DEF vars, creditVars, tableVars, requestVars, reviewVars
<1>2. OutcomesTyped' /\ Typed' /\ LocksExclusive'
  BY <1>1 DEF IInv, OutcomesTyped, Typed, LocksExclusive, outcomeVars
<1>3. ASSUME NEW r \in Requests
      PROVE  Control(r)' /\ Kept(r)' /\ Answered(r)' /\ DecidedBy(r)'
  BY <1>1 DEF IInv, Control, Kept, Answered, DecidedBy, Decided
<1>4. ASSUME NEW r \in Requests PROVE Counted(r)'
  BY <1>1 DEF IInv, Counted, SettledTransferCount, FailedTransferCount, TransfersOf, outcomeVars
<1>5. ASSUME NEW k \in Keys PROVE Recorder(k)'
  BY <1>1 DEF IInv, Recorder
<1>6. ASSUME NEW p \in Reviewers PROVE Reviewing(p)'
  BY <1>1 DEF IInv, Reviewing, Decided
<1>7. Traced'
  BY <1>1 DEF IInv, Traced
<1>8. CountsAreOfTheirTime'
  BY <1>1
     DEF IInv, CountsAreOfTheirTime, SettledTransferCount, FailedTransferCount, TransfersOf, outcomeVars
<1> QED BY <1>2, <1>3, <1>4, <1>5, <1>6, <1>7, <1>8 DEF IInv

-----------------------------------------------------------------------------
\* The invariant holds in every reachable state.
THEOREM Invariance == Spec => []IInv
<1>1. IInv /\ [Next]_vars => IInv'
  <2> SUFFICES ASSUME IInv, [Next]_vars PROVE IInv'
    OBVIOUS
  <2>1. CASE OutcomesNext /\ UNCHANGED creditVars
    BY <2>1, OutcomesInv
  <2>2. ASSUME NEW r \in Requests, Create(r) PROVE IInv'
    BY <2>2, BeginInv, InsertRecordInv, ReadCustomerInv, CountInv, DraftInv, CommitInv DEF Create
  <2>3. ASSUME NEW p \in Reviewers, Review(p) PROVE IInv'
    BY <2>3, LoadInv, DecideInv, AuditReviewInv DEF Review
  <2>4. ASSUME NEW p \in Sessions, Fail(p) PROVE IInv'
    BY <2>4, FailInv
  <2>5. CASE UNCHANGED vars
    BY <2>5, StutterInv
  <2> QED BY <2>1, <2>2, <2>3, <2>4, <2>5 DEF Next
<1> QED BY InitInv, <1>1, PTL DEF Spec

\* The rows and the readings are what the schema and the policy say they are:
\* in particular every score is between 300 and 850.
THEOREM TypeCorrect == Spec => []TypeOK
<1>1. IInv => TypeOK
  BY DEF IInv, Typed, TypeOK, PC, Replies
<1> QED BY <1>1, Invariance, PTL

\* However requests with one idempotency key overlap, one of them makes an
\* assessment, and whoever is accepted is told of that one.
THEOREM OnePerKey == Spec => []OneAssessmentPerKey
<1>1. IInv => OneAssessmentPerKey
  <2> SUFFICES ASSUME IInv, NEW r \in Requests, NEW s \in Requests
               PROVE  /\ assessment[r] # None /\ assessment[s] # None /\ input[r].key = input[s].key
                            => r = s
                      /\ reply[r].kind \in {"created", "replayed"} /\ reply[r].assessment = s =>
                            /\ assessment[s] # None
                            /\ assessment[s].customer = input[r].customer
                            /\ input[s].key = input[r].key
    BY DEF OneAssessmentPerKey
  <2> QED BY DEF IInv, Kept, Answered
<1> QED BY <1>1, Invariance, PTL

\* The policy is monotone: with as much money, as many settled transfers and no
\* more failed ones, a customer scores no less.
THEOREM MoreScoresMore == Spec => []BetterRecordScoresNoLess
<1>1. IInv => BetterRecordScoresNoLess
  <2> SUFFICES ASSUME IInv, NEW r \in Requests, NEW s \in Requests,
                      assessment[r] # None, assessment[s] # None,
                      assessment[r].profile.average >= assessment[s].profile.average,
                      assessment[r].counts.settled >= assessment[s].counts.settled,
                      assessment[r].counts.failed <= assessment[s].counts.failed
               PROVE  assessment[r].score >= assessment[s].score
    BY DEF BetterRecordScoresNoLess
  <2> DEFINE Snapshot(q) == [average |-> assessment[q].profile.average,
                             settled |-> assessment[q].counts.settled,
                             failed |-> assessment[q].counts.failed]
  <2>1. ASSUME NEW q \in Requests, assessment[q] # None
        PROVE  Snapshot(q) \in Readings /\ assessment[q].score = Score(Profile(Snapshot(q)))
    <3>1. assessment[q] \in Assessment
      BY <2>1 DEF IInv, Typed
    <3>2. assessment[q].profile \in Profiles /\ assessment[q].counts \in Counts
      BY <3>1 DEF Assessment
    <3>3. Snapshot(q) \in Readings
      BY <3>2 DEF Profiles, Counts, Readings
    <3> QED BY <2>1, <3>3 DEF IInv, Traced
  <2>2. PICK a \in Readings : a = Snapshot(r)
    BY <2>1
  <2>3. PICK b \in Readings : b = Snapshot(s)
    BY <2>1
  <2>4. a.average >= b.average /\ a.settled >= b.settled /\ a.failed <= b.failed
    BY <2>2, <2>3
  <2>5. Score(Profile(a)) >= Score(Profile(b))
    BY <2>4, ScoreMonotone
  <2> QED BY <2>1, <2>2, <2>3, <2>5
<1> QED BY <1>1, Invariance, PTL

\* What an assessment counted was there no later than it was read and no
\* earlier than the request.
THEOREM CountedInTime == Spec => []CountsAreOfTheirTime
<1>1. IInv => CountsAreOfTheirTime
  BY DEF IInv
<1> QED BY <1>1, Invariance, PTL

\* Once somebody was told that he decided, no later review decides or is on
\* record.
THEOREM ToldStands == Spec => []ToldDecisionStands
<1>1. IInv => ToldDecisionStands
  BY SessionsSplit DEF IInv, Typed, Reviewing, DecidedBy, ToldDecisionStands
<1> QED BY <1>1, Invariance, PTL
=============================================================================
