--------------------------- MODULE PaymentsProofs ---------------------------
(***************************************************************************)
(* What Payments guarantees for every set of requests, workers, operators  *)
(* and provider events: a transfer that is pending is published or its     *)
(* client was told of an error, the ledger is used as LedgerSpec says, and *)
(* all of it comes to no more than TransferOutcomes.                       *)
(*                                                                         *)
(* The invariant, IInv, is about what the requests and the sessions of the *)
(* rail do to each other: a transfer exists once its request has           *)
(* committed, and a session that has seen a transfer pending deals with an *)
(* interbank one that exists.  That the money of a transfer is given back  *)
(* once also needs providers that report one result of a transfer, and a   *)
(* failure under one id: a hypothesis of the theorems that use it.         *)
(***************************************************************************)
EXTENDS Payments, LedgerProofs, FiniteSetTheorems

-----------------------------------------------------------------------------
(* What an entry adds to what the journal has taken.  FoldLeft is a         *)
(* recursive function on the sets of positions; that there is such a        *)
(* function, and that it depends on no later position, follows by induction *)
(* on the size of the sets, stated as the least size that fails.            *)

LEMMA LeastElement ==
    ASSUME NEW S, S \subseteq Nat, S # {}
    PROVE  \E n \in S : \A m \in S : n <= m
<1>1. PICK n \in S : \A m \in S : <<m, n>> \notin OpToRel(<, Nat)
  BY NatLessThanWellFounded, WFMin
<1>2. \A m \in S : ~ (m < n)
  BY <1>1 DEF OpToRel
<1> QED BY <1>2

\* What is taken once e has been, after v.
Takes(v, e, t, i) == IF e.transfer = t THEN v - Effect(e, i.source) ELSE v

\* h folds Takes over each set of positions, the last position last.
Folds(h, s, t, i, S) ==
    h = [P \in SUBSET S |-> IF P = {} THEN 0 ELSE Takes(h[P \ {Max(P)}], s[Max(P)], t, i)]

\* The positions of a sequence of length n.
Positions(n) == 1 .. n

LEMMA PositionsFinite ==
    ASSUME NEW n \in Nat
    PROVE  /\ IsFiniteSet(Positions(n))
           /\ \A x \in Positions(n) : x \in Nat /\ n - x \in Nat
           /\ \A P \in SUBSET Positions(n) : IsFiniteSet(P) /\ Cardinality(P) \in Nat
<1>1. IsFiniteSet(Positions(n))
  BY FS_Interval DEF Positions
<1>2. \A x \in Positions(n) : x \in Nat /\ n - x \in Nat
  BY DEF Positions
<1>3. \A P \in SUBSET Positions(n) : IsFiniteSet(P) /\ Cardinality(P) \in Nat
  BY <1>1, FS_Subset, FS_CardinalityType
<1> QED BY <1>1, <1>2, <1>3

LEMMA LastOne ==
    ASSUME NEW n \in Nat, NEW P \in SUBSET Positions(n), P # {}
    PROVE  /\ Max(P) \in P /\ Max(P) \in Positions(n)
           /\ \A x \in P : Max(P) >= x
           /\ P \ {Max(P)} \in SUBSET Positions(n)
           /\ Cardinality(P) \in Nat /\ Cardinality(P \ {Max(P)}) \in Nat
           /\ Cardinality(P) = Cardinality(P \ {Max(P)}) + 1
<1>1. \E m \in P : \A x \in P : m >= x
  <2>0. ASSUME NEW x \in P PROVE x \in Nat /\ n - x \in Nat
    BY PositionsFinite
  <2>1. PICK Above : Above = {n - x : x \in P}
    OBVIOUS
  <2>2. Above \subseteq Nat /\ Above # {}
    BY <2>0, <2>1
  <2>3. PICK k \in Above : \A m \in Above : k <= m
    BY <2>2, LeastElement
  <2>4. PICK x \in P : k = n - x
    BY <2>1
  <2>5. ASSUME NEW y \in P PROVE x >= y
    <3>1. n - x <= n - y
      BY <2>1, <2>3, <2>4
    <3> QED BY <2>0, <3>1
  <2> QED BY <2>5
<1>2. Max(P) \in P /\ \A x \in P : Max(P) >= x
  BY <1>1 DEF Max
<1>3. PICK m : m = Max(P)
  OBVIOUS
<1>4. m \in P /\ m \in Positions(n)
  BY <1>2, <1>3
<1>5. IsFiniteSet(P) /\ Cardinality(P) \in Nat
  BY PositionsFinite
<1>6. PICK Q : Q = P \ {m}
  OBVIOUS
<1>7. Q \in SUBSET Positions(n)
  BY <1>6
<1>8. Cardinality(Q) = Cardinality(P) - 1
  BY <1>4, <1>5, <1>6, FS_RemoveElement
<1>9. Cardinality(Q) \in Nat
  BY <1>7, PositionsFinite
<1>10. Cardinality(P) = Cardinality(Q) + 1
  BY <1>5, <1>8, <1>9
<1> QED BY <1>2, <1>3, <1>4, <1>5, <1>6, <1>7, <1>9, <1>10

LEMMA FoldsExist ==
    ASSUME NEW m \in Nat, NEW s, NEW t, NEW i
    PROVE  \E h : Folds(h, s, t, i, Positions(m))
<1> DEFINE S == Positions(m)
           Upto(n) == {P \in SUBSET S : Cardinality(P) <= n}
           Good(n, h) == h = [P \in Upto(n) |-> IF P = {} THEN 0
                                                ELSE Takes(h[P \ {Max(P)}], s[Max(P)], t, i)]
           Bad == {n \in Nat : ~ \E h : Good(n, h)}
<1>0. \A P \in SUBSET S : IsFiniteSet(P) /\ Cardinality(P) \in Nat
  BY PositionsFinite
<1>1. Bad = {}
  <2> SUFFICES ASSUME Bad # {} PROVE FALSE
    OBVIOUS
  <2>1. PICK n \in Bad : \A k \in Bad : n <= k
    BY LeastElement
  <2>2. CASE n = 0
    <3>1. Upto(0) = {{}}
      BY <1>0, FS_EmptySet
    <3>2. Good(0, [P \in Upto(0) |-> 0])
      BY <3>1
    <3> QED BY <2>2, <3>2
  <2>3. CASE n # 0
    <3>1. n \in Nat /\ n - 1 \in Nat /\ n - 1 \notin Bad
      <4>1. n \in Nat
        OBVIOUS
      <4> HIDE DEF Bad
      <4> QED BY <2>1, <2>3, <4>1
    <3>2. PICK h : Good(n - 1, h)
      BY <3>1
    <3> DEFINE k == [P \in Upto(n) |-> IF P = {} THEN 0
                                       ELSE Takes(h[P \ {Max(P)}], s[Max(P)], t, i)]
    <3>3. ASSUME NEW P \in Upto(n), P # {}
          PROVE  P \ {Max(P)} \in Upto(n - 1) /\ P \ {Max(P)} \in Upto(n)
      <4>1. /\ P \ {Max(P)} \in SUBSET S
            /\ Cardinality(P) \in Nat /\ Cardinality(P \ {Max(P)}) \in Nat
            /\ Cardinality(P) = Cardinality(P \ {Max(P)}) + 1
        BY <3>3, LastOne
      <4> HIDE DEF Bad
      <4> QED BY <3>1, <4>1
    <3>4. ASSUME NEW P \in Upto(n - 1) PROVE k[P] = h[P]
      <4>1. P \in Upto(n)
        <5>1. Cardinality(P) \in Nat /\ Cardinality(P) <= n - 1 /\ P \in SUBSET S
          BY <1>0
        <5> HIDE DEF Bad
        <5> QED BY <3>1, <5>1
      <4> QED BY <3>2, <4>1
    <3>5. \A P \in Upto(n) :
             k[P] = IF P = {} THEN 0 ELSE Takes(k[P \ {Max(P)}], s[Max(P)], t, i)
      BY <3>3, <3>4
    <3>6. Good(n, k)
      BY <3>5
    <3> HIDE DEF k
    <3> QED BY <3>6
  <2> QED BY <2>2, <2>3
<1>2. Cardinality(S) \in Nat /\ Upto(Cardinality(S)) = SUBSET S
  BY <1>0, PositionsFinite, FS_Subset
<1>3. PICK h : Good(Cardinality(S), h)
  BY <1>1, <1>2
<1> QED BY <1>2, <1>3 DEF Folds

\* What TakenBy is: the fold over all positions.
LEMMA TakenByFolds ==
    ASSUME NEW m \in Nat, NEW s, DOMAIN s = Positions(m), NEW t, NEW i
    PROVE  \E h : Folds(h, s, t, i, Positions(m)) /\ TakenBy(s, t, i) = h[Positions(m)]
<1> DEFINE S == Positions(m)
<1>1. \E k : k = [P \in SUBSET S |-> IF P = {} THEN 0 ELSE Takes(k[P \ {Max(P)}], s[Max(P)], t, i)]
  <2>1. PICK k : Folds(k, s, t, i, S)
    BY FoldsExist
  <2>2. k = [P \in SUBSET S |-> IF P = {} THEN 0 ELSE Takes(k[P \ {Max(P)}], s[Max(P)], t, i)]
    BY <2>1 DEF Folds
  <2> QED BY <2>2, Zenon
<1> DEFINE h == CHOOSE k : k = [P \in SUBSET S |-> IF P = {} THEN 0
                                 ELSE Takes(k[P \ {Max(P)}], s[Max(P)], t, i)]
<1>2. Folds(h, s, t, i, S)
  BY <1>1, Zenon DEF Folds
<1>3. TakenBy(s, t, i) = h[S]
  BY DEF TakenBy, FoldLeft, MapThenFoldSet, Takes
<1> QED BY <1>2, <1>3

\* Two folds agree on the positions on which their sequences do.
LEMMA FoldsAgree ==
    ASSUME NEW m \in Nat, NEW n \in Nat, m <= n, NEW s, NEW u, NEW t, NEW i,
           \A x \in Positions(m) : s[x] = u[x],
           NEW g, Folds(g, s, t, i, Positions(m)), NEW h, Folds(h, u, t, i, Positions(n))
    PROVE  g[Positions(m)] = h[Positions(m)]
<1> DEFINE Bad == {k \in Nat : \E P \in SUBSET Positions(m) : Cardinality(P) = k /\ g[P] # h[P]}
<1>1. Bad = {}
  <2> SUFFICES ASSUME Bad # {} PROVE FALSE
    OBVIOUS
  <2>1. PICK k \in Bad : \A l \in Bad : k <= l
    BY LeastElement
  <2>2. PICK P \in SUBSET Positions(m) : Cardinality(P) = k /\ g[P] # h[P]
    OBVIOUS
  <2>3. P \in SUBSET Positions(n)
    BY DEF Positions
  <2>4. /\ g[P] = IF P = {} THEN 0 ELSE Takes(g[P \ {Max(P)}], s[Max(P)], t, i)
        /\ h[P] = IF P = {} THEN 0 ELSE Takes(h[P \ {Max(P)}], u[Max(P)], t, i)
    BY <2>3 DEF Folds
  <2>5. P # {}
    BY <2>2, <2>4
  <2>6. s[Max(P)] = u[Max(P)]
    BY <2>5, LastOne
  <2>7. g[P \ {Max(P)}] = h[P \ {Max(P)}]
    <3>1. PICK Q \in SUBSET Positions(m) : Q = P \ {Max(P)}
      BY <2>5, LastOne
    <3>2. Cardinality(Q) \in Nat /\ k = Cardinality(Q) + 1
      BY <2>2, <2>5, <3>1, LastOne
    <3>3. Cardinality(Q) \notin Bad
      <4> HIDE DEF Bad
      <4> QED BY <2>1, <3>2
    <3> QED BY <3>1, <3>2, <3>3
  <2> QED BY <2>2, <2>4, <2>5, <2>6, <2>7
<1>2. Cardinality(Positions(m)) \in Nat
  BY PositionsFinite
<1> QED BY <1>1, <1>2

\* One more entry.
LEMMA TakenAppend ==
    ASSUME NEW s \in Seq(Entry), NEW e \in Entry, NEW t, NEW i
    PROVE  TakenBy(Append(s, e), t, i) = Takes(TakenBy(s, t, i), e, t, i)
<1>1. PICK m \in Nat : m = Len(s) /\ DOMAIN s = Positions(m)
  BY DEF Positions
<1>2. PICK u : u = Append(s, e)
  OBVIOUS
<1>3. DOMAIN u = Positions(m + 1) /\ u[m + 1] = e /\ \A x \in Positions(m) : s[x] = u[x]
  BY <1>1, <1>2 DEF Positions
<1>4. PICK g : Folds(g, s, t, i, Positions(m)) /\ TakenBy(s, t, i) = g[Positions(m)]
  BY <1>1, TakenByFolds
<1>5. PICK h : Folds(h, u, t, i, Positions(m + 1)) /\ TakenBy(u, t, i) = h[Positions(m + 1)]
  BY <1>3, TakenByFolds
<1>6. g[Positions(m)] = h[Positions(m)]
  BY <1>3, <1>4, <1>5, FoldsAgree
<1>7. PICK P : P = Positions(m + 1)
  OBVIOUS
<1>8. P # {} /\ Max(P) = m + 1 /\ P \ {Max(P)} = Positions(m)
  <2>0. m + 1 \in Positions(m + 1) /\ \A x \in Positions(m + 1) : x \in Nat /\ x <= m + 1
    BY DEF Positions
  <2>1. P # {} /\ m + 1 \in P /\ \A x \in P : x \in Nat /\ x <= m + 1
    BY <1>7, <2>0
  <2>2. Max(P) \in P /\ \A x \in P : Max(P) >= x
    BY <1>7, <2>1, LastOne
  <2>3. Max(P) = m + 1
    BY <2>1, <2>2
  <2>4. P \ {m + 1} = Positions(m)
    BY <1>7 DEF Positions
  <2> QED BY <2>1, <2>3, <2>4
<1>9. h[P] = Takes(h[P \ {Max(P)}], u[Max(P)], t, i)
  BY <1>5, <1>7, <1>8 DEF Folds
<1> QED BY <1>2, <1>3, <1>4, <1>5, <1>6, <1>7, <1>8, <1>9

\* Nothing is taken for a transfer the entries do not mention.
LEMMA TakenNothing ==
    ASSUME NEW s \in Seq(Entry), NEW t, NEW i, \A x \in DOMAIN s : s[x].transfer # t
    PROVE  TakenBy(s, t, i) = 0
<1>1. PICK m \in Nat : m = Len(s) /\ DOMAIN s = Positions(m)
  BY DEF Positions
<1>2. PICK h : Folds(h, s, t, i, Positions(m)) /\ TakenBy(s, t, i) = h[Positions(m)]
  BY <1>1, TakenByFolds
<1> DEFINE Bad == {k \in Nat : \E P \in SUBSET Positions(m) : Cardinality(P) = k /\ h[P] # 0}
<1>3. Bad = {}
  <2> SUFFICES ASSUME Bad # {} PROVE FALSE
    OBVIOUS
  <2>1. PICK k \in Bad : \A l \in Bad : k <= l
    BY LeastElement
  <2>2. PICK P \in SUBSET Positions(m) : Cardinality(P) = k /\ h[P] # 0
    OBVIOUS
  <2>3. h[P] = IF P = {} THEN 0 ELSE Takes(h[P \ {Max(P)}], s[Max(P)], t, i)
    BY <1>2 DEF Folds
  <2>4. P # {}
    BY <2>2, <2>3
  <2>5. s[Max(P)].transfer # t
    BY <1>1, <2>4, LastOne
  <2>6. h[P \ {Max(P)}] = 0
    <3>1. PICK Q \in SUBSET Positions(m) : Q = P \ {Max(P)}
      BY <2>4, LastOne
    <3>2. Cardinality(Q) \in Nat /\ k = Cardinality(Q) + 1
      BY <2>2, <2>4, <3>1, LastOne
    <3>3. Cardinality(Q) \notin Bad
      <4> HIDE DEF Bad
      <4> QED BY <2>1, <3>2
    <3> QED BY <3>1, <3>2, <3>3
  <2> QED BY <2>2, <2>3, <2>4, <2>5, <2>6 DEF Takes
<1>4. Cardinality(Positions(m)) \in Nat
  BY PositionsFinite
<1> QED BY <1>2, <1>3, <1>4

-----------------------------------------------------------------------------
(* The invariant.                                                          *)

\* What the sessions are given: what providers call back with and what the
\* submission of a transfer answers.
Reports ==
    Inbound \cup {X!Event(t, <<t, "submit", "ACKNOWLEDGED">>, "ACKNOWLEDGED") : t \in Requests}
            \cup {X!TerminalEvent(t, "submit") : t \in Requests}

\* applyNormalizedEvent, and what follows its two lookups.
Busy == {"read", "insert", "update", "post", "commit", "audit"}
Applying == Busy \ {"read"}

\* The statuses a commit leaves.
Committed == {"absent", "PENDING_EXTERNAL", "SETTLED", "COMPENSATED"}

\* A transfer to another bank, from the commit of its request on.
Interbank(t) == status[t] # "absent" /\ input[t].dest = External

\* A request has checked its source before it writes anything, keeps what it was
\* asked, and has no transfer before it commits; a pending transfer is published
\* or about to be, or its client was told of an error.
Request(r) ==
    /\ reqPc[r] # "idle" => input[r] \in Inputs /\ Described(r)
    /\ reqPc[r] \in {"validate", "route", "post"} \/ status[r] # "absent" =>
          T!SourceAccepted(input[r])
    /\ entry[r] = IF reqPc[r] = "post" THEN T!TransferEntry(r) ELSE None
    /\ reqPc[r] = "post" =>
          entry[r] # None /\ (reqRow[r] = "PENDING_EXTERNAL" <=> input[r].dest = External)
    /\ status[r] # "absent" => reqPc[r] \in {"enqueue", "answer", "done"}
    /\ status[r] \in {"PENDING_EXTERNAL", "COMPENSATED"} => input[r].dest = External
    /\ status[r] = "PENDING_EXTERNAL" /\ r \notin Published =>
          reqPc[r] = "enqueue" \/ (reqPc[r] = "done" /\ reply[r].kind = "error")

\* Where a session stands: its event, the transfer it matched, which exists and
\* is an interbank one if it was seen pending, and what it has written so far.
Session(p) ==
    /\ pc[p] \in Busy => inbox[p] # <<>>
    /\ pc[p] \in Applying =>
          /\ target[p] \in X!Matches(Head(inbox[p]))
          /\ seen[p] = "PENDING_EXTERNAL" => Interbank(target[p])
    /\ pc[p] = "publish" => target[p] \in Requests
    /\ p \in Workers /\ pc[p] # "idle" => serving[p] \in DOMAIN job
    /\ pc[p] \notin {"post", "commit", "audit"} => row[p] = None
    /\ pc[p] \in {"update", "post"} \/ row[p] # None => seen[p] = "PENDING_EXTERNAL"
    /\ pc[p] = "post" => row[p] = "FAILED" /\ Head(inbox[p]).type = "FAILED"
    /\ pc[p] = "commit" =>
          \/ row[p] = None
          \/ row[p] = "SETTLED" /\ Head(inbox[p]).type = "SETTLED"
          \/ row[p] = "COMPENSATED" /\ Head(inbox[p]).type = "FAILED"
    /\ entry[p] =
          IF pc[p] = "post" \/ (pc[p] = "commit" /\ row[p] = "COMPENSATED")
          THEN X!CompensationEntry(target[p], Head(inbox[p]).id) ELSE None

\* An open transaction owns its event.
Owner(p) ==
    pc[p] \in {"update", "post", "commit"} =>
        /\ CauseRow(Head(inbox[p]).id) \in held[p]
        /\ ~ X!Recorded(Head(inbox[p]).id)

\* No entry is of a transfer that does not exist.
Journalled ==
    \A n \in DOMAIN journal :
        journal[n].transfer \in Requests /\ status[journal[n].transfer] # "absent"

RequestPC == {"idle", "insertRecord", "readSource", "validate", "route", "post", "enqueue",
              "answer", "done"}
SessionPC == {"idle", "read", "insert", "update", "post", "commit", "audit",
              "complete", "publish", "auditReconciled", "auditRedriven", "done"}

RequestTypeOK ==
    /\ reqPc \in [Requests -> RequestPC]
    /\ input \in [Requests -> Inputs \cup {None}]
    /\ reqRow \in [Requests -> T!Status]
    /\ record \in [Causes -> T!Record \cup {None}]
    /\ reply \in [Requests -> T!Reply]

RailTypeOK ==
    /\ pc \in [X!Users -> SessionPC]
    /\ inbox \in [X!Users -> Seq(Reports)]
    /\ target \in [X!Users -> Requests \cup {None}]
    /\ seen \in [X!Users -> Committed \cup {None}]
    /\ row \in [X!Users -> {"SETTLED", "FAILED", "COMPENSATED", None}]
    /\ serving \in [X!Users -> 0 .. Len(job)]

SharedTypeOK ==
    /\ status \in [Requests -> Committed]
    /\ job \in Seq(X!Job)

IInv ==
    /\ LedgerInv
    /\ SharedTypeOK /\ RequestTypeOK /\ RailTypeOK
    /\ \A r \in Requests : Request(r)
    /\ \A p \in X!Users : Session(p) /\ Owner(p)
    /\ Journalled

-----------------------------------------------------------------------------
(* The constants, and the two modules over one ledger.                     *)

LEMMA Constants ==
    /\ Requests \subseteq Sessions /\ TransferIds = Requests /\ None \notin Requests
    /\ Clearing \in SystemAccounts /\ External \notin Accounts
    /\ \A i \in Inputs : i.key \in Causes /\ i.amount \in Int
    /\ None \notin T!Record
    /\ X!Users \subseteq Sessions /\ Requests \cap X!Users = {}
    /\ Workers \subseteq X!Users /\ Operators \subseteq X!Users \ Workers
    /\ Callbacks \subseteq X!Users \ Workers
    /\ None \notin {"PENDING_EXTERNAL", "SETTLED", "FAILED", "COMPENSATED"}
    /\ RetryLimit \in Nat
    /\ \A t \in Requests :
          /\ Detail[t].source \in Accounts
          /\ Detail[t].clearing \in SystemAccounts
          /\ Detail[t].amount \in Nat \ {0}
          /\ Detail[t].outcome \in {"SETTLED", "FAILED"}
    /\ \A c \in Causes : <<c, "compensated">> \notin Causes
    /\ \A r \in Requests : <<r, "submitted">> \notin Causes
  BY PaymentsAssumption
     DEF PaymentsAssumption, T!TransfersAssumption, T!RecordAssumption, X!RailAssumption,
         X!EventAssumption, X!Users, X!Status

LEMMA ReportsTyped ==
    \E X1, Y1 : Reports \subseteq [id : Causes, transfer : X1, ref : Y1,
                                   type : {"ACKNOWLEDGED", "SETTLED", "FAILED"}]
<1>1. Reports \subseteq X!Normalized
  BY DEF Reports, X!Normalized, X!Adapted
<1> QED BY <1>1, PaymentsAssumption DEF PaymentsAssumption, X!EventAssumption

\* Transfers and ExternalRail each name the ledger's operations.
LEMMA OneLedger ==
    ASSUME NEW p
    PROVE  /\ T!RollbackEntry(p) <=> RollbackEntry(p)
           /\ X!RollbackEntry(p) <=> RollbackEntry(p)
           /\ T!CommitEntry(p) <=> CommitEntry(p)
           /\ X!CommitEntry(p) <=> CommitEntry(p)
           /\ T!ReadProjection(p) <=> ReadProjection(p)
           /\ X!ReadProjection(p) <=> ReadProjection(p)
           /\ T!UpsertProjection(p) <=> UpsertProjection(p)
           /\ X!UpsertProjection(p) <=> UpsertProjection(p)
           /\ \A e : T!OpenEntry(p, e) <=> OpenEntry(p, e)
           /\ \A e : X!OpenEntry(p, e) <=> OpenEntry(p, e)
           /\ \A x : T!Acquire(p, x) <=> Acquire(p, x)
           /\ \A x : X!Acquire(p, x) <=> Acquire(p, x)
<1>1. (T!RollbackEntry(p) <=> RollbackEntry(p)) /\ (X!RollbackEntry(p) <=> RollbackEntry(p))
  BY DEF RollbackEntry, T!RollbackEntry, X!RollbackEntry, EndTransaction, T!EndTransaction,
         X!EndTransaction, Release, T!Release, X!Release, NothingWritten, T!NothingWritten,
         X!NothingWritten
<1>2. (T!CommitEntry(p) <=> CommitEntry(p)) /\ (X!CommitEntry(p) <=> CommitEntry(p))
  BY DEF CommitEntry, T!CommitEntry, X!CommitEntry, EndTransaction, T!EndTransaction,
         X!EndTransaction, Release, T!Release, X!Release, NothingWritten, T!NothingWritten,
         X!NothingWritten, Posted, T!Posted, X!Posted
<1>3. /\ \A x : T!Acquire(p, x) <=> Acquire(p, x)
      /\ \A x : X!Acquire(p, x) <=> Acquire(p, x)
  BY DEF Acquire, T!Acquire, X!Acquire, Free, T!Free, X!Free
<1>4. /\ T!NextAccount(p) = NextAccount(p) /\ X!NextAccount(p) = NextAccount(p)
      /\ T!NextDirection(p) = NextDirection(p) /\ X!NextDirection(p) = NextDirection(p)
  BY DEF NextAccount, T!NextAccount, X!NextAccount, NextDirection, T!NextDirection,
         X!NextDirection, PostingAccount, T!PostingAccount, X!PostingAccount
<1>5. (T!ReadProjection(p) <=> ReadProjection(p)) /\ (X!ReadProjection(p) <=> ReadProjection(p))
  BY <1>4 DEF ReadProjection, T!ReadProjection, X!ReadProjection
<1>6. /\ T!UpsertProjection(p) <=> UpsertProjection(p)
      /\ X!UpsertProjection(p) <=> UpsertProjection(p)
  BY <1>3, <1>4
     DEF UpsertProjection, T!UpsertProjection, X!UpsertProjection, ProjectionRow,
         T!ProjectionRow, X!ProjectionRow, ComputeBalanceEffect, T!ComputeBalanceEffect,
         X!ComputeBalanceEffect
<1>7. /\ \A e : T!OpenEntry(p, e) <=> OpenEntry(p, e)
      /\ \A e : X!OpenEntry(p, e) <=> OpenEntry(p, e)
  BY DEF OpenEntry, T!OpenEntry, X!OpenEntry, PostingAccount, T!PostingAccount, X!PostingAccount
<1> QED BY <1>1, <1>2, <1>3, <1>5, <1>6, <1>7

-----------------------------------------------------------------------------
(* What a step of one request or session leaves alone.                     *)

\* The jobs keep their places and their transfers.
QueueGrows == \A j \in DOMAIN job : j \in DOMAIN job' /\ job'[j].transfer = job[j].transfer

OthersWait(r) ==
    \A q \in Requests \ {r} :
        /\ reqPc'[q] = reqPc[q] /\ input'[q] = input[q]
        /\ reqRow'[q] = reqRow[q] /\ reply'[q] = reply[q]

Unmoved(p) ==
    \A q \in X!Users \ {p} :
        /\ pc'[q] = pc[q] /\ inbox'[q] = inbox[q] /\ target'[q] = target[q]
        /\ seen'[q] = seen[q] /\ row'[q] = row[q] /\ serving'[q] = serving[q]

\* A committed transfer changes by the outcome of an interbank one.
Resolves(t) ==
    status'[t] = status[t] \/ (Interbank(t) /\ status'[t] \in {"SETTLED", "COMPENSATED"})

LEMMA RequestKeeps ==
    ASSUME IInv, NEW q \in Requests, reqPc'[q] = reqPc[q], input'[q] = input[q],
           reqRow'[q] = reqRow[q], reply'[q] = reply[q], entry'[q] = entry[q],
           Resolves(q), QueueGrows
    PROVE  Request(q)'
<1> Request(q)
  BY DEF IInv
<1>1. Described(q)' <=> Described(q)
  BY DEF Described, T!SourceAccepted
<1>2. T!SourceAccepted(input[q])' <=> T!SourceAccepted(input[q])
  BY DEF T!SourceAccepted
<1>3. T!TransferEntry(q)' = T!TransferEntry(q)
  BY DEF T!TransferEntry
<1>4. q \in Published => q \in Published'
  BY DEF Published, QueueGrows
<1>5. status'[q] # "absent" <=> status[q] # "absent"
  BY DEF Resolves, Interbank
<1>6. status'[q] \in {"PENDING_EXTERNAL", "COMPENSATED"} => input[q].dest = External
  BY DEF Resolves, Interbank, Request
<1>7. status'[q] = "PENDING_EXTERNAL" => status[q] = "PENDING_EXTERNAL"
  BY DEF Resolves
<1> QED BY <1>1, <1>2, <1>3, <1>4, <1>5, <1>6, <1>7 DEF Request

LEMMA SessionKeeps ==
    ASSUME IInv, NEW q \in X!Users,
           pc'[q] = pc[q], inbox'[q] = inbox[q], target'[q] = target[q],
           seen'[q] = seen[q], row'[q] = row[q], serving'[q] = serving[q],
           entry'[q] = entry[q], held'[q] = held[q], QueueGrows,
           \A t \in Requests : Interbank(t) => Interbank(t)',
           pc[q] \in {"update", "post", "commit"} => \A e \in events' : e.id # Head(inbox[q]).id
    PROVE  Session(q)' /\ Owner(q)'
<1> Session(q) /\ Owner(q)
  BY DEF IInv
<1>1. X!CompensationEntry(target[q], Head(inbox[q]).id)'
        = X!CompensationEntry(target[q], Head(inbox[q]).id)
  BY DEF X!CompensationEntry
<1>2. pc[q] \in Applying /\ seen[q] = "PENDING_EXTERNAL" => Interbank(target[q])'
  <2>1. PICK t : t = target[q]
    OBVIOUS
  <2>2. pc[q] \in Applying /\ seen[q] = "PENDING_EXTERNAL" => Interbank(t)'
    BY <2>1 DEF Session, X!Matches
  <2> QED BY <2>1, <2>2 DEF Interbank
<1>3. X!Matches(Head(inbox[q]))' = X!Matches(Head(inbox[q]))
  BY DEF X!Matches
<1>4. Session(q)'
  BY <1>1, <1>2, <1>3 DEF Session, QueueGrows
<1>5. Owner(q)'
  BY DEF Owner, X!Recorded, CauseRow
<1> QED BY <1>4, <1>5

LEMMA ServingKept ==
    ASSUME IInv, SharedTypeOK', QueueGrows
    PROVE  0 .. Len(job) \subseteq 0 .. Len(job)'
<1>1. PICK n \in Nat : n = Len(job) /\ DOMAIN job = 1 .. n
  BY DEF IInv, SharedTypeOK
<1>2. PICK m \in Nat : m = Len(job') /\ DOMAIN job' = 1 .. m
  BY DEF SharedTypeOK
<1>3. n <= m
  <2>1. n # 0 => n \in DOMAIN job
    BY <1>1
  <2>2. n # 0 => n \in 1 .. m
    BY <1>2, <2>1 DEF QueueGrows
  <2> QED BY <1>1, <1>2, <2>2
<1> QED BY <1>1, <1>2, <1>3

\* A request keeps IInv if it does so for itself.
LEMMA RequestMoves ==
    ASSUME IInv, NEW r \in Requests, LedgerStep(r) \/ UNCHANGED ledgerVars,
           UNCHANGED railOnly, OthersWait(r), QueueGrows, SharedTypeOK', RequestTypeOK',
           \A q \in Requests \ {r} : status'[q] = status[q],
           status[r] # "absent" => status'[r] = status[r] /\ input'[r] = input[r],
           \A e \in events' : e \in events \/ e.id \notin Causes,
           Request(r)', Journalled'
    PROVE  IInv'
<1> r \in Sessions /\ r \notin X!Users
  BY Constants
<1>1. LedgerInv'
  BY LedgerStepInv, LedgerStutterInv DEF LedgerInv, IInv
<1>2. ASSUME NEW q \in Sessions \ {r} PROVE entry'[q] = entry[q] /\ held'[q] = held[q]
  BY LedgerStepFrame DEF LedgerInv, IInv, ledgerVars, sessionVars
<1>3. \A q \in Requests \ {r} : Request(q)'
  BY <1>2, RequestKeeps, Constants DEF OthersWait, Resolves
<1>4. \A t \in Requests : Interbank(t) => Interbank(t)'
  BY DEF Interbank, OthersWait
<1>5. ASSUME NEW q \in X!Users PROVE Session(q)' /\ Owner(q)'
  <2>1. ASSUME pc[q] \in {"update", "post", "commit"}, NEW e \in events'
        PROVE  e.id # Head(inbox[q]).id
    <3>1. Session(q) /\ Owner(q) /\ RailTypeOK
      BY DEF IInv
    <3>2. Head(inbox[q]) \in Reports /\ ~ X!Recorded(Head(inbox[q]).id)
      BY <2>1, <3>1 DEF Session, Owner, Busy, RailTypeOK
    <3>3. Head(inbox[q]).id \in Causes
      BY <3>2, ReportsTyped
    <3> QED BY <3>2, <3>3 DEF X!Recorded
  <2> QED BY <1>2, <1>4, <2>1, SessionKeeps, Constants DEF railOnly
<1>6. RailTypeOK'
  BY ServingKept DEF RailTypeOK, railOnly, IInv
<1> QED BY <1>1, <1>3, <1>5, <1>6 DEF IInv

\* So does a session.
LEMMA SessionMoves ==
    ASSUME IInv, NEW p \in X!Users, LedgerStep(p) \/ UNCHANGED ledgerVars,
           UNCHANGED requestOnly, Unmoved(p), QueueGrows, SharedTypeOK', RailTypeOK',
           \A t \in Requests : Resolves(t),
           \A q \in X!Users \ {p} : pc[q] \in {"update", "post", "commit"} =>
               \A e \in events' : e.id # Head(inbox[q]).id,
           Session(p)', Owner(p)', Journalled'
    PROVE  IInv'
<1> p \in Sessions /\ p \notin Requests
  BY Constants
<1>1. LedgerInv'
  BY LedgerStepInv, LedgerStutterInv DEF LedgerInv, IInv
<1>2. ASSUME NEW q \in Sessions \ {p} PROVE entry'[q] = entry[q] /\ held'[q] = held[q]
  BY LedgerStepFrame DEF LedgerInv, IInv, ledgerVars, sessionVars
<1>3. \A q \in Requests : Request(q)'
  BY <1>2, RequestKeeps, Constants DEF requestOnly
<1>4. \A t \in Requests : Interbank(t) => Interbank(t)'
  BY DEF Interbank, Resolves, requestOnly
<1>5. \A q \in X!Users \ {p} : Session(q)' /\ Owner(q)'
  BY <1>2, <1>4, SessionKeeps, Constants DEF Unmoved
<1>6. RequestTypeOK'
  BY DEF RequestTypeOK, requestOnly, IInv
<1> QED BY <1>1, <1>3, <1>5, <1>6 DEF IInv

LEMMA NothingCommitted ==
    ASSUME IInv, UNCHANGED <<status, events, journal>>
    PROVE  /\ Journalled'
           /\ \A t \in Requests : Resolves(t)
           /\ \A q \in X!Users : pc[q] \in {"update", "post", "commit"} =>
                 \A e \in events' : e.id # Head(inbox[q]).id
  BY DEF IInv, Journalled, Resolves, Owner, X!Recorded

LEMMA RequestQuiet ==
    ASSUME IInv, NEW r \in Requests, LedgerStep(r) \/ UNCHANGED ledgerVars,
           UNCHANGED <<railOnly, status, events, journal>>, OthersWait(r), QueueGrows,
           job' \in Seq(X!Job), RequestTypeOK',
           status[r] # "absent" => input'[r] = input[r], Request(r)'
    PROVE  IInv'
<1>1. Journalled'
  BY NothingCommitted
<1>2. SharedTypeOK'
  BY DEF IInv, SharedTypeOK
<1> QED BY <1>1, <1>2, RequestMoves

LEMMA SessionQuiet ==
    ASSUME IInv, NEW p \in X!Users, LedgerStep(p) \/ UNCHANGED ledgerVars,
           UNCHANGED <<requestOnly, status, events, journal>>, Unmoved(p), QueueGrows,
           job' \in Seq(X!Job), RailTypeOK', Session(p)', Owner(p)'
    PROVE  IInv'
<1>1. SharedTypeOK'
  BY DEF IInv, SharedTypeOK
<1> QED BY <1>1, NothingCommitted, SessionMoves

-----------------------------------------------------------------------------
(* The requests, up to their commits.                                      *)

LEMMA InputTyped ==
    ASSUME IInv, NEW r \in Requests, reqPc[r] # "idle"
    PROVE  /\ r \in Sessions /\ r \in TransferIds
           /\ input[r] \in Inputs /\ input[r].key \in Causes /\ input[r].amount \in Int
           /\ CauseRow(input[r].key) \in Row
<1>1. r \in Sessions /\ r \in TransferIds /\ input[r] \in Inputs
  BY Constants DEF IInv, Request
<1> QED BY <1>1, Constants DEF CauseRow, Row

\* What a request posts is a journal entry with two sides that takes the amount
\* from its source.
LEMMA TransferEntryTyped ==
    ASSUME NEW r \in Requests, input[r] \in Inputs, T!SourceAccepted(input[r]),
           input[r].dest # External => T!DestinationAccepted(r)
    PROVE  /\ T!TransferEntry(r) \in Entry /\ Postable(T!TransferEntry(r))
           /\ T!TransferEntry(r) # None
           /\ T!TransferEntry(r).transfer = r
           /\ Effect(T!TransferEntry(r), input[r].source) = -input[r].amount
           /\ input[r].amount \in Nat \ {0}
<1>1. PICK d : d = IF input[r].dest = External THEN Clearing ELSE input[r].dest
  OBVIOUS
<1>2. r \in TransferIds /\ input[r].key \in Causes /\ input[r].amount \in Nat \ {0}
  BY Constants DEF T!SourceAccepted
<1>3. d \in Accounts \cup SystemAccounts /\ input[r].source \in Accounts
  BY <1>1, Constants DEF T!SourceAccepted, T!DestinationAccepted
<1>4. input[r].source # d
  <2>1. CASE input[r].dest = External
    BY <1>1, <1>3, <2>1, LedgerAssumption, Constants DEF LedgerAssumption
  <2>2. CASE input[r].dest # External
    BY <1>1, <2>2 DEF T!DestinationAccepted, T!Postable, T!TransferEntry
  <2> QED BY <2>1, <2>2
<1>5. PICK o \in Operation : T!TransferEntry(r) =
        [operation |-> o, transfer |-> r, debit |-> input[r].source, credit |-> d,
         amount |-> input[r].amount, cause |-> input[r].key]
  BY <1>1 DEF T!TransferEntry, Operation
<1>6. T!TransferEntry(r) \in Entry
  BY <1>2, <1>3, <1>5 DEF Entry
<1> QED BY <1>2, <1>3, <1>4, <1>5, <1>6, LedgerAssumption DEF Postable, Effect, LedgerAssumption

LEMMA SameJobs == ASSUME IInv, UNCHANGED job PROVE QueueGrows /\ job' \in Seq(X!Job)
  BY DEF IInv, SharedTypeOK, QueueGrows

LEMMA RequestThrows ==
    ASSUME IInv, NEW r \in Requests, T!InTransaction(r), NEW kind, T!Refused(kind) \in T!Reply,
           T!Throw(r, kind), UNCHANGED <<job, railOnly>>
    PROVE  IInv'
<1> RequestTypeOK /\ Request(r) /\ LedgerTypeOK /\ reqPc[r] # "idle"
  BY DEF IInv, LedgerInv, LedgerInvOf, T!InTransaction
<1> r \in Sessions /\ input[r] \in Inputs
  BY InputTyped
<1>1. /\ RollbackEntry(r)
      /\ reqPc' = [reqPc EXCEPT ![r] = "done"] /\ reqRow' = [reqRow EXCEPT ![r] = "absent"]
      /\ reply' = [reply EXCEPT ![r] = T!Refused(kind)]
      /\ UNCHANGED <<input, status, record, events, audit>>
  BY OneLedger DEF T!Throw, T!Answer, T!Goto, T!Update, T!tableVars
<1>2. entry'[r] = None /\ journal' = journal
  BY <1>1 DEF RollbackEntry, EndTransaction, LedgerTypeOK
<1>3. LedgerStep(r)
  BY <1>1 DEF LedgerStep
<1>4. RequestTypeOK' /\ OthersWait(r)
  BY <1>1 DEF RequestTypeOK, RequestPC, T!Status, OthersWait
<1>5. status'[r] = "absent"
  BY <1>1 DEF Request, T!InTransaction
<1>6. Described(r)'
  BY <1>1 DEF Request, Described, T!SourceAccepted
<1>7. Request(r)'
  BY <1>1, <1>2, <1>5, <1>6 DEF Request, RequestTypeOK
<1> QED BY <1>1, <1>2, <1>3, <1>4, <1>7, SameJobs, RequestQuiet

LEMMA RequestBeginsInv == ASSUME IInv, NEW r \in Requests, RequestBegins(r) PROVE IInv'
<1> RequestTypeOK /\ Request(r)
  BY DEF IInv
<1> PICK i \in Inputs :
       /\ reqPc[r] = "idle"
       /\ input' = [input EXCEPT ![r] = i]
       /\ \/ T!Answer(r, T!Refused("unsupported_currency"))
          \/ record[i.key] # None /\ T!Answer(r, T!Recorded(record[i.key], i))
          \/ T!Goto(r, "insertRecord") /\ UNCHANGED reply
       /\ UNCHANGED <<ledgerVars, reqRow, status, record, events, audit>>
  BY DEF RequestBegins, T!Begin, T!ledgerVars, T!sessionVars, ledgerVars, sessionVars, T!tableVars
<1>1. \E a \in T!Reply, label \in {"insertRecord", "done"} :
         reply' = [reply EXCEPT ![r] = a] /\ reqPc' = [reqPc EXCEPT ![r] = label]
  <2>1. CASE T!Answer(r, T!Refused("unsupported_currency"))
    <3>1. T!Refused("unsupported_currency") \in T!Reply
      BY DEF T!Refused, T!Reply, T!Status
    <3> QED BY <2>1, <3>1 DEF T!Answer, T!Goto
  <2>2. CASE record[i.key] # None /\ T!Answer(r, T!Recorded(record[i.key], i))
    <3>1. record[i.key] \in T!Record
      BY <2>2, Constants DEF RequestTypeOK
    <3>2. T!Recorded(record[i.key], i) \in T!Reply
      BY <3>1 DEF T!Recorded, T!Record, T!Refused, T!Reply, T!Status
    <3> QED BY <2>2, <3>2 DEF T!Answer, T!Goto
  <2>3. CASE T!Goto(r, "insertRecord") /\ UNCHANGED reply
    <3>1. reply' = [reply EXCEPT ![r] = reply[r]] /\ reply[r] \in T!Reply
      BY <2>3 DEF RequestTypeOK
    <3> QED BY <2>3, <3>1 DEF T!Goto
  <2> QED BY <2>1, <2>2, <2>3
<1>2. RequestTypeOK' /\ OthersWait(r)
  BY <1>1 DEF RequestTypeOK, RequestPC, OthersWait
<1>3. UNCHANGED <<entry, journal, job, railOnly>> /\ input'[r] = i /\ Described(r)'
  BY DEF ledgerVars, sessionVars, RequestBegins, RequestTypeOK
<1>4. status[r] = "absent"
  BY DEF Request
<1>5. Request(r)'
  BY <1>1, <1>3, <1>4 DEF Request, RequestTypeOK
<1> QED BY <1>2, <1>3, <1>4, <1>5, SameJobs, RequestQuiet

\* The steps of an open transaction that do not throw: they touch no table.
LEMMA RequestAdvances ==
    ASSUME IInv, NEW r \in Requests, T!InTransaction(r), LedgerStep(r) \/ UNCHANGED ledgerVars,
           NEW label \in {"readSource", "validate", "route", "post"},
           reqPc' = [reqPc EXCEPT ![r] = label],
           NEW s \in T!Status, reqRow' = [reqRow EXCEPT ![r] = s],
           UNCHANGED <<input, reply, status, record, events, audit, job, railOnly, journal>>,
           label # "readSource" => T!SourceAccepted(input[r]),
           entry'[r] = IF label = "post" THEN T!TransferEntry(r) ELSE None,
           label = "post" => entry'[r] # None /\ (s = "PENDING_EXTERNAL" <=> input[r].dest = External)
    PROVE  IInv'
<1> RequestTypeOK /\ Request(r)
  BY DEF IInv
<1>1. RequestTypeOK' /\ OthersWait(r)
  BY DEF RequestTypeOK, RequestPC, OthersWait
<1>2. reqPc'[r] = label /\ reqRow'[r] = s /\ status'[r] = "absent" /\ reqPc[r] # "idle"
  BY DEF Request, RequestTypeOK, T!InTransaction
<1>3. Described(r)' /\ (T!SourceAccepted(input[r])' <=> T!SourceAccepted(input[r]))
      /\ T!TransferEntry(r)' = T!TransferEntry(r)
  BY <1>2 DEF Request, Described, T!SourceAccepted, T!TransferEntry
<1>4. Request(r)'
  BY <1>2, <1>3 DEF Request
<1> QED BY <1>1, <1>4, SameJobs, RequestQuiet

LEMMA InsertRecordInv ==
    ASSUME IInv, NEW r \in Requests, T!InsertRecord(r), UNCHANGED <<job, railOnly>>
    PROVE  IInv'
<1> RequestTypeOK /\ Request(r) /\ reqPc[r] = "insertRecord" /\ r \in Sessions /\ LedgerTypeOK
  BY InputTyped DEF IInv, LedgerInv, LedgerInvOf, T!InsertRecord
<1>1. CASE T!Throw(r, "unique_violation")
  <2>1. T!Refused("unique_violation") \in T!Reply
    BY DEF T!Refused, T!Reply, T!Status
  <2> QED BY <1>1, <2>1, RequestThrows DEF T!InTransaction
<1>2. CASE ~ T!Throw(r, "unique_violation")
  <2>1. /\ Acquire(r, CauseRow(input[r].key))
        /\ reqPc' = [reqPc EXCEPT ![r] = "readSource"]
        /\ UNCHANGED <<input, reqRow, reply, status, record, events, audit, projection, journal,
                       overwritten, sessionVars, entry>>
    BY <1>2, OneLedger
       DEF T!InsertRecord, T!Goto, T!tableVars, T!sessionVars, sessionVars, T!CauseRow, CauseRow
  <2>2. LedgerStep(r)
    BY <2>1, InputTyped DEF LedgerStep, CallerLocks
  <2>3. reqRow' = [reqRow EXCEPT ![r] = reqRow[r]] /\ reqRow[r] \in T!Status
    BY <2>1 DEF RequestTypeOK
  <2> QED BY <2>1, <2>2, <2>3, RequestAdvances DEF T!InTransaction, Request
<1> QED BY <1>1, <1>2

LEMMA ReadSourceInv ==
    ASSUME IInv, NEW r \in Requests, T!ReadSource(r), UNCHANGED <<job, railOnly>>
    PROVE  IInv'
<1> RequestTypeOK /\ Request(r) /\ reqPc[r] = "readSource"
  BY DEF IInv, T!ReadSource
<1>1. ASSUME NEW kind \in {"source_refused", "insufficient_funds"}, T!Throw(r, kind) PROVE IInv'
  <2>1. T!Refused(kind) \in T!Reply
    BY DEF T!Refused, T!Reply, T!Status
  <2> QED BY <1>1, <2>1, RequestThrows DEF T!InTransaction
<1>2. CASE /\ T!SourceAccepted(input[r])
           /\ T!Update(r, "RECEIVED")
           /\ T!Goto(r, "validate")
           /\ UNCHANGED <<T!ledgerVars, input, reply, T!tableVars>>
  <2>1. /\ reqPc' = [reqPc EXCEPT ![r] = "validate"]
        /\ reqRow' = [reqRow EXCEPT ![r] = "RECEIVED"] /\ "RECEIVED" \in T!Status
        /\ UNCHANGED <<ledgerVars, input, reply, status, record, events, audit, journal, entry>>
    BY <1>2 DEF T!Goto, T!Update, T!ledgerVars, T!sessionVars, ledgerVars, sessionVars,
                T!tableVars, T!Status
  <2> QED BY <1>2, <2>1, RequestAdvances DEF T!InTransaction, Request
<1> QED BY <1>1, <1>2 DEF T!ReadSource

LEMMA ValidateInv ==
    ASSUME IInv, NEW r \in Requests, T!Validate(r), UNCHANGED <<job, railOnly>>
    PROVE  IInv'
<1>1. /\ reqPc[r] = "validate" /\ Request(r)
      /\ reqPc' = [reqPc EXCEPT ![r] = "route"]
      /\ reqRow' = [reqRow EXCEPT ![r] = "VALIDATED"] /\ "VALIDATED" \in T!Status
      /\ UNCHANGED <<ledgerVars, input, reply, status, record, events, audit, journal, entry>>
  BY DEF T!Validate, T!Goto, T!Update, T!ledgerVars, T!sessionVars, ledgerVars, sessionVars,
         T!tableVars, T!Status, IInv
<1> QED BY <1>1, RequestAdvances DEF T!InTransaction, Request

\* The statement that opens the entry, for either kind of destination.
LEMMA RouteInv ==
    ASSUME IInv, NEW r \in Requests, reqPc[r] = "route", NEW s \in T!Status,
           s = "PENDING_EXTERNAL" <=> input[r].dest = External,
           input[r].dest # External => T!DestinationAccepted(r),
           T!OpenEntry(r, T!TransferEntry(r)), T!Update(r, s), T!Goto(r, "post"),
           UNCHANGED <<held, input, reply, T!tableVars, job, railOnly>>
    PROVE  IInv'
<1> RequestTypeOK /\ Request(r) /\ LedgerTypeOK /\ r \in Sessions /\ input[r] \in Inputs
  BY InputTyped DEF IInv, LedgerInv, LedgerInvOf
<1>1. /\ T!TransferEntry(r) \in Entry /\ T!TransferEntry(r) # None /\ Postable(T!TransferEntry(r))
      /\ T!SourceAccepted(input[r]) /\ entry[r] = None
  BY TransferEntryTyped DEF Request
<1>2. OpenEntry(r, T!TransferEntry(r))
  BY OneLedger
<1>3. entry'[r] = T!TransferEntry(r) /\ journal' = journal
  BY <1>1, <1>2 DEF OpenEntry, LedgerTypeOK
<1>4. LedgerStep(r)
  BY <1>1, <1>2, <1>3 DEF LedgerStep, CallerLocks
<1>5. /\ reqPc' = [reqPc EXCEPT ![r] = "post"] /\ reqRow' = [reqRow EXCEPT ![r] = s]
      /\ UNCHANGED <<status, record, events, audit>>
  BY DEF T!Goto, T!Update, T!tableVars
<1> QED BY <1>1, <1>3, <1>4, <1>5, RequestAdvances DEF T!InTransaction

LEMMA RouteInternalInv ==
    ASSUME IInv, NEW r \in Requests, T!RouteInternal(r), UNCHANGED <<job, railOnly>>
    PROVE  IInv'
<1>1. CASE T!Throw(r, "destination_refused")
  <2>1. T!Refused("destination_refused") \in T!Reply
    BY DEF T!Refused, T!Reply, T!Status
  <2> QED BY <1>1, <2>1, RequestThrows DEF T!InTransaction, T!RouteInternal
<1>2. CASE ~ T!Throw(r, "destination_refused")
  <2>1. "PENDING_LEDGER" \in T!Status
    BY DEF T!Status
  <2> QED BY <1>2, <2>1, RouteInv DEF T!RouteInternal
<1> QED BY <1>1, <1>2

LEMMA RouteExternalInv ==
    ASSUME IInv, NEW r \in Requests, T!RouteExternal(r), UNCHANGED <<job, railOnly>>
    PROVE  IInv'
<1>1. "PENDING_EXTERNAL" \in T!Status
  BY DEF T!Status
<1> QED BY <1>1, RouteInv DEF T!RouteExternal

LEMMA RequestPostInv ==
    ASSUME IInv, NEW r \in Requests, T!Post(r), UNCHANGED <<job, railOnly>>
    PROVE  IInv'
<1> RequestTypeOK /\ Request(r) /\ reqPc[r] = "post"
  BY DEF IInv, T!Post
<1>1. LedgerStep(r) /\ UNCHANGED <<entry, journal>>
  BY OneLedger DEF T!Post, LedgerStep, ReadProjection, UpsertProjection
<1>2. UNCHANGED <<reqPc, reqRow, input, reply, status, record, events, audit>>
  BY DEF T!Post, T!requestVars, T!tableVars
<1>3. /\ reqPc' = [reqPc EXCEPT ![r] = "post"]
      /\ reqRow' = [reqRow EXCEPT ![r] = reqRow[r]] /\ reqRow[r] \in T!Status
  BY <1>2 DEF RequestTypeOK
<1> QED BY <1>1, <1>2, <1>3, RequestAdvances DEF T!InTransaction, Request

LEMMA SettleInv ==
    ASSUME IInv, NEW r \in Requests, T!Settle(r), UNCHANGED <<job, railOnly>>
    PROVE  IInv'
<1>1. /\ reqPc[r] = "post" /\ Request(r) /\ reqRow[r] = "PENDING_LEDGER"
      /\ reqPc' = [reqPc EXCEPT ![r] = "post"]
      /\ reqRow' = [reqRow EXCEPT ![r] = "SETTLED"] /\ "SETTLED" \in T!Status
      /\ UNCHANGED <<ledgerVars, input, reply, status, record, events, audit, journal, entry>>
  BY DEF T!Settle, T!Update, T!ledgerVars, T!sessionVars, ledgerVars, sessionVars, T!tableVars,
         T!Status, IInv, RequestTypeOK
<1> QED BY <1>1, RequestAdvances DEF T!InTransaction, Request

LEMMA DeadlockVictimInv ==
    ASSUME IInv, NEW r \in Requests, T!DeadlockVictim(r), UNCHANGED <<job, railOnly>>
    PROVE  IInv'
<1>1. T!Refused("deadlock") \in T!Reply
  BY DEF T!Refused, T!Reply, T!Status
<1>2. T!InTransaction(r)
  BY Constants DEF T!DeadlockVictim, T!Deadlocked, T!Wanted, T!InTransaction
<1> QED BY <1>1, <1>2, RequestThrows DEF T!DeadlockVictim

LEMMA RequestCommitInv ==
    ASSUME IInv, NEW r \in Requests, T!Commit(r), UNCHANGED <<job, railOnly>>
    PROVE  IInv'
<1> RequestTypeOK /\ SharedTypeOK /\ Request(r) /\ LedgerTypeOK /\ r \in Sessions
    /\ reqPc[r] = "post" /\ input[r] \in Inputs /\ input[r].key \in Causes
  BY InputTyped DEF IInv, LedgerInv, LedgerInvOf, T!Commit
<1>1. PICK s \in {"SETTLED", "PENDING_EXTERNAL"} :
        /\ s = reqRow[r]
        /\ CommitEntry(r)
        /\ events' = IF s = "SETTLED" THEN events ELSE events \cup {T!SubmittedEvent(r)}
        /\ status' = [status EXCEPT ![r] = s]
        /\ record' = [record EXCEPT ![input[r].key] = T!Succeeded(r)]
        /\ reqPc' = [reqPc EXCEPT ![r] = IF s = "PENDING_EXTERNAL" THEN "enqueue" ELSE "answer"]
        /\ UNCHANGED <<input, reqRow, reply>>
  BY OneLedger DEF T!Commit, T!Complete, T!Goto
<1>2. LedgerStep(r)
  BY <1>1 DEF LedgerStep
<1>3. T!Succeeded(r) \in T!Record
  BY DEF T!Succeeded, T!Record, RequestTypeOK
<1>4. RequestTypeOK'
  BY <1>1, <1>3 DEF RequestTypeOK, RequestPC
<1>5. SharedTypeOK' /\ OthersWait(r) /\ QueueGrows
  BY <1>1 DEF SharedTypeOK, OthersWait, QueueGrows, Committed
<1>6. status[r] = "absent" /\ status'[r] = s /\ \A q \in Requests \ {r} : status'[q] = status[q]
  BY <1>1 DEF Request, SharedTypeOK
<1>7. \A e \in events' : e \in events \/ e.id \notin Causes
  BY <1>1, Constants DEF T!SubmittedEvent
<1>8. entry'[r] = None
  BY <1>1 DEF CommitEntry, EndTransaction, LedgerTypeOK
<1>9. Journalled'
  <2>1. journal' = Append(journal, entry[r]) /\ entry[r] \in Entry /\ entry[r].transfer = r
    BY <1>1 DEF CommitEntry, Request, LedgerTypeOK, T!TransferEntry
  <2>2. /\ DOMAIN journal' = DOMAIN journal \cup {Len(journal) + 1}
        /\ \A n \in DOMAIN journal : journal'[n] = journal[n]
        /\ journal'[Len(journal) + 1] = entry[r]
    BY <2>1 DEF LedgerTypeOK
  <2> QED BY <1>6, <2>1, <2>2 DEF IInv, Journalled
<1>10. Described(r)' /\ (T!SourceAccepted(input[r])' <=> T!SourceAccepted(input[r]))
  BY <1>1 DEF Request, Described, T!SourceAccepted
<1>11. reqPc'[r] = IF s = "PENDING_EXTERNAL" THEN "enqueue" ELSE "answer"
  BY <1>1 DEF RequestTypeOK
<1>12. Request(r)'
  BY <1>1, <1>6, <1>8, <1>10, <1>11 DEF Request
<1> QED BY <1>2, <1>4, <1>5, <1>6, <1>7, <1>9, <1>12, RequestMoves

-----------------------------------------------------------------------------
(* The requests, after their commits.                                      *)

\* The steps that touch no table: a transfer is left unpublished with an error only.
LEMMA RequestAnswers ==
    ASSUME IInv, NEW r \in Requests, reqPc[r] \in {"enqueue", "answer"},
           NEW label \in {"answer", "done"}, reqPc' = [reqPc EXCEPT ![r] = label],
           NEW a \in T!Reply, reply' = [reply EXCEPT ![r] = a],
           UNCHANGED <<ledgerVars, input, reqRow, status, record, events, audit, railOnly>>,
           QueueGrows, job' \in Seq(X!Job),
           status[r] = "PENDING_EXTERNAL" /\ r \notin Published' => label = "done" /\ a.kind = "error"
    PROVE  IInv'
<1> RequestTypeOK /\ Request(r)
  BY DEF IInv
<1>1. RequestTypeOK' /\ OthersWait(r)
  BY DEF RequestTypeOK, RequestPC, OthersWait
<1>2. reqPc'[r] = label /\ reply'[r] = a /\ UNCHANGED <<entry, journal>>
  BY DEF RequestTypeOK, ledgerVars, sessionVars
<1>3. Described(r)' /\ (T!SourceAccepted(input[r])' <=> T!SourceAccepted(input[r]))
  BY DEF Request, Described, T!SourceAccepted
<1>4. Request(r)'
  BY <1>2, <1>3 DEF Request
<1> QED BY <1>1, <1>2, <1>4, RequestQuiet

LEMMA RespondInv ==
    ASSUME IInv, NEW r \in Requests, T!Respond(r), UNCHANGED <<job, railOnly>>
    PROVE  IInv'
<1> RequestTypeOK /\ Request(r) /\ reqPc[r] = "answer"
  BY DEF IInv, T!Respond
<1>1. PICK a \in T!Reply : reply' = [reply EXCEPT ![r] = a]
  BY DEF T!Respond, T!Answer, T!Reply, RequestTypeOK
<1>2. /\ reqPc' = [reqPc EXCEPT ![r] = "done"]
      /\ UNCHANGED <<ledgerVars, input, reqRow, status, record, events, audit>>
  BY DEF T!Respond, T!Answer, T!Goto, T!ledgerVars, T!sessionVars, ledgerVars, sessionVars,
         T!tableVars
<1>3. status[r] = "PENDING_EXTERNAL" => r \in Published'
  BY DEF Request, Published
<1> QED BY <1>1, <1>2, <1>3, SameJobs, RequestAnswers

LEMMA RequestFailsInv == ASSUME IInv, NEW r \in Requests, RequestFails(r) PROVE IInv'
<1>1. T!Refused("error") \in T!Reply /\ T!Refused("error").kind = "error"
  BY DEF T!Refused, T!Reply, T!Status
<1>2. CASE T!InTransaction(r) /\ T!Throw(r, "error")
  BY <1>1, <1>2, RequestThrows DEF RequestFails
<1>3. CASE /\ reqPc[r] \in {"enqueue", "answer"}
           /\ T!Answer(r, T!Refused("error"))
           /\ UNCHANGED <<T!ledgerVars, input, reqRow, T!tableVars>>
  <2>1. /\ reqPc' = [reqPc EXCEPT ![r] = "done"]
        /\ reply' = [reply EXCEPT ![r] = T!Refused("error")]
        /\ UNCHANGED <<ledgerVars, input, reqRow, status, record, events, audit, job, railOnly>>
    BY <1>3 DEF T!Answer, T!Goto, T!ledgerVars, T!sessionVars, ledgerVars, sessionVars,
                T!tableVars, RequestFails
  <2> QED BY <1>1, <1>3, <2>1, SameJobs, RequestAnswers
<1> QED BY <1>2, <1>3 DEF RequestFails, T!Fail

\* A job more.
LEMMA PublishTyped ==
    ASSUME IInv, NEW t \in Requests, job' = Append(job, X!NewJob(t))
    PROVE  QueueGrows /\ job' \in Seq(X!Job) /\ t \in Published'
<1>1. X!NewJob(t) \in X!Job /\ X!NewJob(t).transfer = t
  BY Constants DEF X!NewJob, X!Job
<1>2. PICK k : k = X!NewJob(t)
  OBVIOUS
<1>3. job \in Seq(X!Job) /\ job' = Append(job, k)
  BY <1>2 DEF IInv, SharedTypeOK
<1>4. /\ DOMAIN job' = DOMAIN job \cup {Len(job) + 1} /\ job'[Len(job) + 1] = k
      /\ \A j \in DOMAIN job : job'[j] = job[j]
  BY <1>1, <1>2, <1>3
<1>5. job' \in Seq(X!Job)
  BY <1>1, <1>2, <1>3
<1> QED BY <1>1, <1>2, <1>4, <1>5 DEF QueueGrows, Published

LEMMA EnqueueInv == ASSUME IInv, NEW r \in Requests, Enqueue(r) PROVE IInv'
<1> RequestTypeOK
  BY DEF IInv
<1>1. /\ reqPc[r] = "enqueue" /\ reqPc' = [reqPc EXCEPT ![r] = "answer"]
      /\ UNCHANGED <<ledgerVars, input, reqRow, reply, status, record, events, audit, railOnly>>
  BY DEF Enqueue, T!Enqueue, T!Goto, T!ledgerVars, T!sessionVars, ledgerVars, sessionVars
<1>2. reply' = [reply EXCEPT ![r] = reply[r]] /\ reply[r] \in T!Reply
  BY <1>1 DEF RequestTypeOK
<1>3. QueueGrows /\ job' \in Seq(X!Job) /\ r \in Published'
  BY PublishTyped DEF Enqueue
<1> QED BY <1>1, <1>2, <1>3, RequestAnswers

-----------------------------------------------------------------------------
(* The rail's sessions: what they work on.                                 *)

LEMMA HeadTyped ==
    ASSUME IInv, NEW p \in X!Users, pc[p] \in Busy
    PROVE  /\ inbox[p] \in Seq(Reports) /\ Tail(inbox[p]) \in Seq(Reports)
           /\ Head(inbox[p]) \in Reports
           /\ Head(inbox[p]).id \in Causes
           /\ Head(inbox[p]).type \in {"ACKNOWLEDGED", "SETTLED", "FAILED"}
           /\ CauseRow(Head(inbox[p]).id) \in Row
<1>1. inbox[p] \in Seq(Reports) /\ inbox[p] # <<>>
  BY DEF IInv, RailTypeOK, Session
<1>2. Head(inbox[p]) \in Reports
  BY <1>1
<1>3. Tail(inbox[p]) \in Seq(Reports)
  BY <1>1
<1>4. /\ Head(inbox[p]).id \in Causes
      /\ Head(inbox[p]).type \in {"ACKNOWLEDGED", "SETTLED", "FAILED"}
  BY <1>2, ReportsTyped
<1> QED BY <1>1, <1>2, <1>3, <1>4 DEF CauseRow, Row

LEMMA TargetTyped ==
    ASSUME IInv, NEW p \in X!Users, pc[p] \in Applying
    PROVE  /\ target[p] \in Requests /\ TransferRow(target[p]) \in Row
           /\ target[p] \in X!Matches(Head(inbox[p]))
<1>1. target[p] \in Requests /\ target[p] \in X!Matches(Head(inbox[p]))
  BY DEF IInv, Session, X!Matches
<1> QED BY <1>1, Constants DEF TransferRow, Row

\* What a compensation posts is a journal entry with two sides that gives the
\* amount back to the source.
LEMMA CompensationTyped ==
    ASSUME NEW t \in Requests, NEW c \in Causes
    PROVE  /\ X!CompensationEntry(t, c) \in Entry
           /\ X!CompensationEntry(t, c) # None
           /\ Postable(X!CompensationEntry(t, c))
           /\ X!CompensationEntry(t, c).transfer = t
           /\ Effect(X!CompensationEntry(t, c), Detail[t].source) = Detail[t].amount
<1>1. /\ t \in TransferIds /\ Detail[t].source \in Accounts /\ Detail[t].clearing \in SystemAccounts
      /\ Detail[t].amount \in Nat \ {0}
  BY Constants
<1>2. X!CompensationEntry(t, c) \in Entry
  BY <1>1 DEF X!CompensationEntry, Entry, Operation
<1>3. Postable(X!CompensationEntry(t, c))
  BY <1>1, LedgerAssumption DEF X!CompensationEntry, Postable, LedgerAssumption
<1> QED BY <1>1, <1>2, <1>3, LedgerAssumption
        DEF X!CompensationEntry, LedgerAssumption, Effect

LEMMA MoreToApply == ASSUME NEW S, NEW s \in Seq(S), Len(s) > 1 PROVE Tail(s) # <<>>
<1>1. DOMAIN Tail(s) = 1 .. (Len(s) - 1)
  OBVIOUS
<1>2. 1 \in DOMAIN Tail(s)
  BY <1>1
<1>3. 1 \notin DOMAIN <<>>
  OBVIOUS
<1> QED BY <1>2, <1>3

\* A retried job keeps its place in the queue and its transfer.
LEMMA RetryTyped ==
    ASSUME IInv, NEW j \in DOMAIN job, X!Retry(j)
    PROVE  QueueGrows /\ job' \in Seq(X!Job) /\ Len(job') = Len(job)
<1> DEFINE r == job[j]
<1>0. job \in Seq(X!Job) /\ r \in X!Job
  BY DEF IInv, SharedTypeOK
<1> HIDE DEF r
<1>1. r \in X!Job /\ r.tries \in 0 .. RetryLimit /\ RetryLimit \in Nat
  BY <1>0, Constants DEF X!Job
<1>2. X!Retried(r) \in X!Job /\ X!Retried(r).transfer = r.transfer
  <2>1. CASE r.state = "active" /\ r.tries < RetryLimit
    <3>1. r.tries + 1 \in 0 .. RetryLimit
      BY <1>1, <2>1
    <3>2. /\ [r EXCEPT !.state = "created", !.tries = r.tries + 1] \in X!Job
          /\ [r EXCEPT !.state = "created", !.tries = r.tries + 1].transfer = r.transfer
      BY <1>1, <3>1 DEF X!Job
    <3> QED BY <2>1, <3>2 DEF X!Retried
  <2>2. CASE r.state = "active" /\ ~ (r.tries < RetryLimit)
    <3>1. /\ [r EXCEPT !.state = "failed"] \in X!Job
          /\ [r EXCEPT !.state = "failed"].transfer = r.transfer
      BY <1>1 DEF X!Job
    <3> QED BY <2>2, <3>1 DEF X!Retried
  <2>3. CASE r.state # "active"
    BY <1>1, <2>3 DEF X!Retried
  <2> QED BY <2>1, <2>2, <2>3
<1>3. job' = [job EXCEPT ![j] = X!Retried(r)]
  BY DEF X!Retry, r
<1> QED BY <1>0, <1>2, <1>3 DEF QueueGrows, r

LEMMA JobStateTyped ==
    ASSUME IInv, NEW j \in DOMAIN job,
           NEW s \in {"created", "active", "completed", "failed"}, X!JobState(j, s)
    PROVE  QueueGrows /\ job' \in Seq(X!Job) /\ Len(job') = Len(job)
<1>1. PICK r : r = job[j]
  OBVIOUS
<1>2. job \in Seq(X!Job) /\ r \in X!Job
  BY <1>1 DEF IInv, SharedTypeOK
<1>3. [r EXCEPT !.state = s] \in X!Job /\ [r EXCEPT !.state = s].transfer = r.transfer
  BY <1>2 DEF X!Job
<1>4. job' = [job EXCEPT ![j] = [r EXCEPT !.state = s]]
  BY <1>1 DEF X!JobState
<1> QED BY <1>1, <1>2, <1>3, <1>4 DEF QueueGrows

-----------------------------------------------------------------------------
(* Failures, and where sessions get their work from.                       *)

LEMMA AbandonInv ==
    ASSUME IInv, NEW p \in X!Users, X!Abandon(p), UNCHANGED requestOnly,
           QueueGrows, job' \in Seq(X!Job), Len(job') = Len(job)
    PROVE  IInv'
<1> RailTypeOK /\ LedgerTypeOK /\ p \in Sessions
  BY Constants DEF IInv, LedgerInv, LedgerInvOf
<1>1. /\ RollbackEntry(p)
      /\ pc' = [pc EXCEPT ![p] = IF p \in Workers THEN "idle" ELSE "done"]
      /\ inbox' = [inbox EXCEPT ![p] = <<>>]
      /\ target' = [target EXCEPT ![p] = None]
      /\ seen' = [seen EXCEPT ![p] = None]
      /\ row' = [row EXCEPT ![p] = None]
      /\ serving' = [serving EXCEPT ![p] = 0]
      /\ UNCHANGED <<status, events>>
  BY OneLedger DEF X!Abandon, X!Goto
<1>2. RailTypeOK' /\ Unmoved(p)
  BY <1>1 DEF RailTypeOK, SessionPC, Unmoved
<1>3. entry'[p] = None /\ journal' = journal
  BY <1>1 DEF RollbackEntry, EndTransaction, LedgerTypeOK
<1>4. pc'[p] = (IF p \in Workers THEN "idle" ELSE "done") /\ row'[p] = None
  BY <1>1 DEF RailTypeOK
<1>5. Session(p)' /\ Owner(p)'
  BY <1>3, <1>4 DEF Session, Owner, Busy, Applying
<1> QED BY <1>1, <1>2, <1>3, <1>5, SessionQuiet DEF LedgerStep

LEMMA ThrowInv ==
    ASSUME IInv, NEW p \in X!Users, pc[p] # "idle", X!Throw(p), UNCHANGED requestOnly
    PROVE  IInv'
<1>1. p \in Workers => QueueGrows /\ job' \in Seq(X!Job) /\ Len(job') = Len(job)
  BY RetryTyped DEF X!Throw, IInv, Session
<1>2. p \notin Workers => QueueGrows /\ job' \in Seq(X!Job) /\ Len(job') = Len(job)
  BY SameJobs DEF X!Throw
<1> QED BY <1>1, <1>2, AbandonInv DEF X!Throw

LEMMA RailFailsInv == ASSUME IInv, NEW p \in X!Users, RailFails(p) PROVE IInv'
<1>1. CASE X!Throw(p)
  BY <1>1, ThrowInv DEF RailFails, X!Fail
<1>2. CASE X!Abandon(p) /\ UNCHANGED job
  BY <1>2, SameJobs, AbandonInv DEF RailFails
<1> QED BY <1>1, <1>2 DEF RailFails, X!Fail

\* The queue gives up on a run; the run may go on.
LEMMA ExpireInv == ASSUME IInv, NEW j \in DOMAIN job, ExpireJob(j) PROVE IInv'
<1>1. QueueGrows /\ job' \in Seq(X!Job) /\ Len(job') = Len(job)
  BY RetryTyped DEF ExpireJob, X!Expire
<1>2. UNCHANGED <<ledgerVars, status, events, journal, held, entry, requestOnly,
                  pc, inbox, target, seen, row, serving>>
  BY DEF ExpireJob, X!Expire, X!ledgerVars, X!sessionVars, X!sessionState, ledgerVars, sessionVars
<1>3. SharedTypeOK' /\ RailTypeOK' /\ RequestTypeOK'
  BY <1>1, <1>2 DEF IInv, SharedTypeOK, RailTypeOK, RequestTypeOK, requestOnly
<1>4. LedgerInv' /\ Journalled' /\ \A t \in Requests : Resolves(t)
  BY <1>2, LedgerStutterInv, NothingCommitted DEF LedgerInv, IInv
<1>5. \A q \in Requests : Request(q)'
  BY <1>1, <1>2, <1>4, RequestKeeps DEF requestOnly
<1>6. \A t \in Requests : Interbank(t) => Interbank(t)'
  BY <1>2 DEF Interbank, requestOnly
<1>7. \A q \in X!Users : Session(q)' /\ Owner(q)'
  BY <1>1, <1>2, <1>6, NothingCommitted, SessionKeeps
<1> QED BY <1>3, <1>4, <1>5, <1>7 DEF IInv

LEMMA FetchJobInv ==
    ASSUME IInv, NEW w \in Workers, NEW j \in DOMAIN job, FetchJob(w, j)
    PROVE  IInv'
<1> RailTypeOK /\ Session(w) /\ w \in X!Users
  BY Constants DEF IInv
<1> DEFINE t == job[j].transfer
<1>1. /\ pc[w] = "idle"
      /\ UNCHANGED <<ledgerVars, status, events, journal, held, entry, target, seen, row, requestOnly>>
  BY DEF FetchJob, X!FetchJob, X!ledgerVars, X!sessionVars, ledgerVars, sessionVars
<1>2. QueueGrows /\ job' \in Seq(X!Job) /\ Len(job') = Len(job) /\ DOMAIN job' = DOMAIN job
  BY JobStateTyped DEF FetchJob, X!FetchJob, IInv, SharedTypeOK
<1>3. CASE UNCHANGED <<pc, inbox, serving>>
  <2>1. RailTypeOK' /\ Unmoved(w)
    BY <1>1, <1>2, <1>3 DEF RailTypeOK, Unmoved
  <2>2. Session(w)' /\ Owner(w)'
    BY <1>1, <1>2, <1>3 DEF IInv, Session, Owner, Busy, Applying
  <2> QED BY <1>1, <1>2, <2>1, <2>2, SessionQuiet
<1>4. CASE /\ inbox' = [inbox EXCEPT ![w] = X!SubmitTransfer(t)]
           /\ serving' = [serving EXCEPT ![w] = j]
           /\ pc' = [pc EXCEPT ![w] = "read"]
  <2>1. t \in Requests
    <3>1. job[j] \in X!Job
      BY DEF IInv, SharedTypeOK
    <3> QED BY <3>1 DEF X!Job
  <2>2. X!SubmitTransfer(t) \in Seq(Reports) /\ X!SubmitTransfer(t) # <<>>
    BY <2>1 DEF X!SubmitTransfer, Reports
  <2>3. RailTypeOK' /\ Unmoved(w)
    BY <1>1, <1>2, <1>4, <2>2 DEF RailTypeOK, Unmoved, SessionPC
  <2>4. pc'[w] = "read" /\ inbox'[w] # <<>> /\ serving'[w] = j /\ row'[w] = None /\ entry'[w] = None
    BY <1>1, <1>4, <2>2 DEF RailTypeOK, Session
  <2>5. Session(w)' /\ Owner(w)'
    BY <1>2, <2>4 DEF Session, Owner, Busy, Applying
  <2> QED BY <1>1, <1>2, <2>3, <2>5, SessionQuiet
<1> QED BY <1>3, <1>4 DEF FetchJob, X!FetchJob, X!Goto

LEMMA CallbackInv ==
    ASSUME IInv, NEW c \in Callbacks, NEW e \in Inbound, Callback(c, e)
    PROVE  IInv'
<1> RailTypeOK /\ Session(c) /\ c \in X!Users /\ c \notin Workers /\ e \in Reports
  BY Constants DEF IInv, Reports
<1>1. /\ pc[c] = "idle"
      /\ inbox' = [inbox EXCEPT ![c] = <<e>>]
      /\ pc' = [pc EXCEPT ![c] = "read"]
      /\ UNCHANGED <<ledgerVars, status, events, journal, held, entry, job, target, seen, row,
                     serving, requestOnly>>
  BY DEF Callback, X!Callback, X!Goto, X!ledgerVars, X!sessionVars, ledgerVars, sessionVars
<1>2. RailTypeOK' /\ Unmoved(c)
  BY <1>1 DEF RailTypeOK, Unmoved, SessionPC
<1>3. Session(c)' /\ Owner(c)'
  BY <1>1 DEF RailTypeOK, Session, Owner, Busy, Applying
<1> QED BY <1>1, <1>2, <1>3, SameJobs, SessionQuiet

LEMMA RedriveInv ==
    ASSUME IInv, NEW o \in Operators, NEW t \in Requests, Redrive(o, t)
    PROVE  IInv'
<1> RailTypeOK /\ Session(o) /\ o \in X!Users /\ o \notin Workers
  BY Constants DEF IInv
<1>1. /\ pc[o] = "idle"
      /\ target' = [target EXCEPT ![o] = t]
      /\ pc' = [pc EXCEPT ![o] = IF status[t] = "PENDING_EXTERNAL" THEN "publish" ELSE "done"]
      /\ UNCHANGED <<ledgerVars, status, events, job, inbox, seen, row, serving, held, entry,
                     journal, requestOnly>>
  BY DEF Redrive, X!Redrive, X!Goto, X!ledgerVars, X!sessionVars, ledgerVars, sessionVars
<1>2. RailTypeOK' /\ Unmoved(o)
  BY <1>1 DEF RailTypeOK, Unmoved, SessionPC
<1>3. Session(o)' /\ Owner(o)'
  BY <1>1 DEF RailTypeOK, Session, Owner, Busy, Applying
<1> QED BY <1>1, <1>2, <1>3, SameJobs, SessionQuiet

LEMMA PublishInv ==
    ASSUME IInv, NEW o \in Operators, X!Publish(o), UNCHANGED requestOnly
    PROVE  IInv'
<1> RailTypeOK /\ Session(o) /\ o \in X!Users /\ o \notin Workers
  BY Constants DEF IInv
<1>1. /\ pc[o] = "publish" /\ target[o] \in Requests
      /\ job' = Append(job, X!NewJob(target[o]))
      /\ pc' = [pc EXCEPT ![o] = "auditRedriven"]
      /\ UNCHANGED <<ledgerVars, status, events, inbox, target, seen, row, serving, held, entry, journal>>
  BY DEF X!Publish, X!Goto, X!ledgerVars, X!sessionVars, ledgerVars, sessionVars, Session
<1>2. QueueGrows /\ job' \in Seq(X!Job)
  BY <1>1, PublishTyped
<1>3. RailTypeOK' /\ Unmoved(o)
  <2>1. 0 .. Len(job) \subseteq 0 .. Len(job')
    BY <1>1, <1>2, ServingKept DEF SharedTypeOK, IInv
  <2> QED BY <1>1, <2>1 DEF RailTypeOK, Unmoved, SessionPC
<1>4. Session(o)' /\ Owner(o)'
  BY <1>1 DEF RailTypeOK, Session, Owner, Busy, Applying
<1> QED BY <1>1, <1>2, <1>3, <1>4, SessionQuiet

\* After the last event: the job completes, the operator's action is recorded.
LEMMA CompleteJobInv ==
    ASSUME IInv, NEW w \in Workers, X!CompleteJob(w), UNCHANGED requestOnly
    PROVE  IInv'
<1> RailTypeOK /\ Session(w) /\ w \in X!Users
  BY Constants DEF IInv
<1>1. /\ pc[w] = "complete"
      /\ pc' = [pc EXCEPT ![w] = "idle"]
      /\ target' = [target EXCEPT ![w] = None]
      /\ serving' = [serving EXCEPT ![w] = 0]
      /\ UNCHANGED <<ledgerVars, status, events, inbox, seen, row, held, entry, journal>>
  BY DEF X!CompleteJob, X!Goto, X!ledgerVars, X!sessionVars, ledgerVars, sessionVars
<1>2. QueueGrows /\ job' \in Seq(X!Job) /\ Len(job') = Len(job)
  <2>1. PICK j \in DOMAIN job : j = serving[w]
    BY <1>1 DEF Session
  <2>2. PICK s : s = IF job[j].state = "active" THEN "completed" ELSE job[j].state
    OBVIOUS
  <2>3. job[j] \in X!Job
    BY DEF IInv, SharedTypeOK
  <2>4. s \in {"created", "active", "completed", "failed"}
    BY <2>2, <2>3 DEF X!Job
  <2>5. X!JobState(j, s)
    BY <2>1, <2>2 DEF X!CompleteJob, X!JobState
  <2> QED BY <2>4, <2>5, JobStateTyped
<1>3. RailTypeOK' /\ Unmoved(w)
  BY <1>1, <1>2 DEF RailTypeOK, Unmoved, SessionPC
<1>4. Session(w)' /\ Owner(w)'
  BY <1>1 DEF RailTypeOK, Session, Owner, Busy, Applying
<1> QED BY <1>1, <1>2, <1>3, <1>4, SessionQuiet

LEMMA AuditOperatorInv ==
    ASSUME IInv, NEW o \in Operators, X!AuditOperator(o), UNCHANGED requestOnly
    PROVE  IInv'
<1> RailTypeOK /\ Session(o) /\ o \in X!Users /\ o \notin Workers
  BY Constants DEF IInv
<1>1. /\ pc[o] \in {"auditReconciled", "auditRedriven"}
      /\ pc' = [pc EXCEPT ![o] = "done"]
      /\ UNCHANGED <<ledgerVars, status, events, job, inbox, target, seen, row, serving, held,
                     entry, journal>>
  BY DEF X!AuditOperator, X!Goto, X!ledgerVars, X!sessionVars, ledgerVars, sessionVars
<1>2. RailTypeOK' /\ Unmoved(o)
  BY <1>1 DEF RailTypeOK, Unmoved, SessionPC
<1>3. Session(o)' /\ Owner(o)'
  BY <1>1 DEF RailTypeOK, Session, Owner, Busy, Applying
<1> QED BY <1>1, <1>2, <1>3, SameJobs, SessionQuiet

-----------------------------------------------------------------------------
(* applyNormalizedEvent up to its commit, and the audit record after it.   *)

LEMMA ReadStateInv ==
    ASSUME IInv, NEW p \in X!Users, X!ReadState(p), UNCHANGED requestOnly
    PROVE  IInv'
<1> RailTypeOK /\ Session(p) /\ SharedTypeOK
  BY DEF IInv
<1> PICK t \in X!Matches(Head(inbox[p])) :
      target' = [target EXCEPT ![p] = t] /\ seen' = [seen EXCEPT ![p] = status[t]]
  BY DEF X!ReadState
<1>1. /\ pc[p] = "read"
      /\ \E l \in {"audit", "insert"} : pc' = [pc EXCEPT ![p] = l]
      /\ UNCHANGED <<ledgerVars, status, events, job, inbox, row, serving, held, entry, journal>>
  BY DEF X!ReadState, X!Goto, X!ledgerVars, X!sessionVars, ledgerVars, sessionVars
<1>2. t \in Requests /\ status[t] \in Committed
  BY DEF X!Matches, SharedTypeOK
<1>3. RailTypeOK' /\ Unmoved(p)
  BY <1>1, <1>2 DEF RailTypeOK, Unmoved, SessionPC
<1>4. /\ pc'[p] \in {"audit", "insert"} /\ target'[p] = t /\ seen'[p] = status[t] /\ row'[p] = None
      /\ entry'[p] = None /\ inbox'[p] = inbox[p] /\ inbox[p] # <<>>
  BY <1>1 DEF RailTypeOK, Session, Busy
<1>5. t \in X!Matches(Head(inbox[p]))'
  BY <1>1 DEF X!Matches
<1>6. status[t] = "PENDING_EXTERNAL" => Interbank(t)'
  BY <1>1, <1>2 DEF Interbank, requestOnly, IInv, Request
<1>7. seen'[p] = "PENDING_EXTERNAL" => Interbank(target[p])'
  BY <1>4, <1>6 DEF Interbank
<1>8. Session(p)'
  BY <1>1, <1>4, <1>5, <1>7, Constants DEF Session, Busy, Applying, X!Matches
<1>9. Owner(p)'
  BY <1>4 DEF Owner
<1> QED BY <1>1, <1>3, <1>8, <1>9, SameJobs, SessionQuiet

\* The steps of an open transaction keep what the session works on.
LEMMA SessionAdvances ==
    ASSUME IInv, NEW p \in X!Users, pc[p] \in Applying, LedgerStep(p) \/ UNCHANGED ledgerVars,
           NEW label \in {"update", "post", "commit"}, pc' = [pc EXCEPT ![p] = label],
           NEW s \in {"SETTLED", "FAILED", "COMPENSATED", None}, row' = [row EXCEPT ![p] = s],
           UNCHANGED <<inbox, target, seen, serving, status, events, job, journal, requestOnly>>,
           label # "commit" \/ s # None => seen[p] = "PENDING_EXTERNAL",
           label = "update" => s = None,
           label = "post" => s = "FAILED" /\ Head(inbox[p]).type = "FAILED",
           label = "commit" => \/ s = None
                               \/ s = "SETTLED" /\ Head(inbox[p]).type = "SETTLED"
                               \/ s = "COMPENSATED" /\ Head(inbox[p]).type = "FAILED",
           entry'[p] = IF label = "post" \/ (label = "commit" /\ s = "COMPENSATED")
                       THEN X!CompensationEntry(target[p], Head(inbox[p]).id) ELSE None,
           CauseRow(Head(inbox[p]).id) \in held'[p], ~ X!Recorded(Head(inbox[p]).id)
    PROVE  IInv'
<1> RailTypeOK /\ Session(p)
  BY DEF IInv
<1>1. RailTypeOK' /\ Unmoved(p)
  BY DEF RailTypeOK, Unmoved, SessionPC
<1>2. pc'[p] = label /\ row'[p] = s /\ inbox'[p] = inbox[p] /\ target'[p] = target[p]
      /\ seen'[p] = seen[p] /\ serving'[p] = serving[p]
  BY DEF RailTypeOK
<1>3. X!CompensationEntry(target[p], Head(inbox[p]).id)'
        = X!CompensationEntry(target[p], Head(inbox[p]).id)
  BY DEF X!CompensationEntry
<1>4. X!Matches(Head(inbox[p]))' = X!Matches(Head(inbox[p]))
  BY DEF X!Matches
<1>5. seen[p] = "PENDING_EXTERNAL" => Interbank(target[p])'
  BY DEF Session, Interbank, requestOnly
<1>6. p \in Workers => serving[p] \in DOMAIN job
  BY DEF Session, Applying, Busy
<1>7. Session(p)'
  BY <1>2, <1>3, <1>4, <1>5, <1>6 DEF Session, Busy, Applying
<1>8. Owner(p)'
  BY <1>2 DEF Owner, X!Recorded, CauseRow
<1> QED BY <1>1, <1>7, <1>8, SameJobs, SessionQuiet

LEMMA InsertEventInv ==
    ASSUME IInv, NEW p \in X!Users, X!InsertEvent(p), UNCHANGED requestOnly
    PROVE  IInv'
<1> RailTypeOK /\ Session(p) /\ LedgerTypeOK /\ p \in Sessions /\ pc[p] = "insert"
  BY Constants DEF IInv, LedgerInv, LedgerInvOf, X!InsertEvent
<1> DEFINE e == Head(inbox[p])
<1>1. CASE X!Throw(p)
  BY <1>1, ThrowInv
<1>2. CASE ~ X!Throw(p)
  <2>1. /\ ~ X!Recorded(e.id)
        /\ Acquire(p, CauseRow(e.id))
        /\ pc' = [pc EXCEPT ![p] = IF e.type = "ACKNOWLEDGED" \/ seen[p] # "PENDING_EXTERNAL"
                                   THEN "commit" ELSE "update"]
        /\ UNCHANGED <<projection, journal, overwritten, sessionVars, entry, status, events,
                       job, inbox, target, seen, row, serving>>
    BY <1>2, OneLedger
       DEF X!InsertEvent, X!Goto, X!sessionVars, sessionVars, X!CauseRow, CauseRow
  <2>2. LedgerStep(p)
    BY <2>1, HeadTyped DEF LedgerStep, CallerLocks, Busy
  <2>3. CauseRow(e.id) \in held'[p]
    BY <2>1 DEF Acquire, LedgerTypeOK
  <2>4. row' = [row EXCEPT ![p] = None] /\ row[p] = None /\ entry'[p] = None
    BY <2>1 DEF RailTypeOK, Session
  <2>5. CASE e.type = "ACKNOWLEDGED" \/ seen[p] # "PENDING_EXTERNAL"
    BY <2>1, <2>2, <2>3, <2>4, <2>5, Constants, SessionAdvances DEF Applying, Busy
  <2>6. CASE ~ (e.type = "ACKNOWLEDGED" \/ seen[p] # "PENDING_EXTERNAL")
    BY <2>1, <2>2, <2>3, <2>4, <2>6, SessionAdvances DEF Applying, Busy
  <2> QED BY <2>5, <2>6
<1> QED BY <1>1, <1>2

LEMMA MarkSettledInv ==
    ASSUME IInv, NEW p \in X!Users, X!MarkSettled(p), UNCHANGED requestOnly
    PROVE  IInv'
<1> RailTypeOK /\ Session(p) /\ Owner(p) /\ LedgerTypeOK /\ p \in Sessions
  BY Constants DEF IInv, LedgerInv, LedgerInvOf
<1>1. /\ pc[p] = "update" /\ Head(inbox[p]).type = "SETTLED"
      /\ Acquire(p, TransferRow(target[p]))
      /\ row' = [row EXCEPT ![p] = "SETTLED"]
      /\ pc' = [pc EXCEPT ![p] = "commit"]
      /\ UNCHANGED <<projection, journal, overwritten, sessionVars, entry, status, events,
                     job, inbox, target, seen, serving>>
  BY OneLedger DEF X!MarkSettled, X!Goto, X!sessionVars, sessionVars, X!TransferRow, TransferRow
<1>2. LedgerStep(p)
  BY <1>1, TargetTyped DEF LedgerStep, CallerLocks, Applying, Busy
<1>3. held[p] \subseteq held'[p]
  BY <1>1 DEF Acquire, LedgerTypeOK
<1>4. entry'[p] = None /\ seen[p] = "PENDING_EXTERNAL"
  BY <1>1 DEF Session
<1>5. CauseRow(Head(inbox[p]).id) \in held'[p] /\ ~ X!Recorded(Head(inbox[p]).id)
  BY <1>1, <1>3 DEF Owner
<1> QED BY <1>1, <1>2, <1>4, <1>5, SessionAdvances DEF Applying, Busy

LEMMA MarkFailedInv ==
    ASSUME IInv, NEW p \in X!Users, X!MarkFailed(p), UNCHANGED requestOnly
    PROVE  IInv'
<1> RailTypeOK /\ Session(p) /\ Owner(p) /\ LedgerTypeOK /\ p \in Sessions
  BY Constants DEF IInv, LedgerInv, LedgerInvOf
<1> DEFINE e == X!CompensationEntry(target[p], Head(inbox[p]).id)
<1>1. /\ pc[p] = "update" /\ Head(inbox[p]).type = "FAILED"
      /\ Acquire(p, TransferRow(target[p]))
      /\ OpenEntry(p, e)
      /\ row' = [row EXCEPT ![p] = "FAILED"]
      /\ pc' = [pc EXCEPT ![p] = "post"]
      /\ UNCHANGED <<journal, status, events, job, inbox, target, seen, serving>>
  BY OneLedger DEF X!MarkFailed, X!Goto, OpenEntry, X!TransferRow, TransferRow
<1>2. /\ target[p] \in Requests /\ TransferRow(target[p]) \in Row
      /\ Head(inbox[p]).id \in Causes /\ entry[p] = None
  BY <1>1, TargetTyped, HeadTyped DEF Applying, Busy, Session
<1>3. e \in Entry /\ Postable(e)
  BY <1>2, CompensationTyped
<1>4. entry'[p] = e
  BY <1>1, <1>3 DEF OpenEntry, LedgerTypeOK
<1>5. LedgerStep(p)
  BY <1>1, <1>2, <1>3, <1>4 DEF LedgerStep, CallerLocks
<1>6. held[p] \subseteq held'[p]
  BY <1>1 DEF Acquire, LedgerTypeOK
<1>7. CauseRow(Head(inbox[p]).id) \in held'[p] /\ ~ X!Recorded(Head(inbox[p]).id)
  BY <1>1, <1>6 DEF Owner
<1>8. seen[p] = "PENDING_EXTERNAL"
  BY <1>1 DEF Session
<1> QED BY <1>1, <1>4, <1>5, <1>7, <1>8, SessionAdvances DEF Applying, Busy

LEMMA PostInv ==
    ASSUME IInv, NEW p \in X!Users, X!Post(p), UNCHANGED requestOnly
    PROVE  IInv'
<1> RailTypeOK /\ Session(p) /\ Owner(p) /\ LedgerTypeOK /\ p \in Sessions
  BY Constants DEF IInv, LedgerInv, LedgerInvOf
<1>1. /\ pc[p] = "post"
      /\ ReadProjection(p) \/ UpsertProjection(p)
      /\ UNCHANGED <<status, events, job, pc, inbox, target, seen, row, serving>>
  BY OneLedger DEF X!Post, X!railVars, X!sessionState
<1>2. LedgerStep(p) /\ UNCHANGED <<journal, entry>>
  BY <1>1 DEF LedgerStep, ReadProjection, UpsertProjection
<1>3. held[p] \subseteq held'[p]
  BY <1>1 DEF ReadProjection, UpsertProjection, Acquire, LedgerTypeOK
<1>4. /\ pc' = [pc EXCEPT ![p] = "post"] /\ row' = [row EXCEPT ![p] = "FAILED"]
      /\ seen[p] = "PENDING_EXTERNAL" /\ Head(inbox[p]).type = "FAILED"
      /\ entry'[p] = X!CompensationEntry(target[p], Head(inbox[p]).id)
  BY <1>1, <1>2 DEF RailTypeOK, Session
<1>5. CauseRow(Head(inbox[p]).id) \in held'[p] /\ ~ X!Recorded(Head(inbox[p]).id)
  BY <1>1, <1>3 DEF Owner
<1> QED BY <1>1, <1>2, <1>4, <1>5, SessionAdvances DEF Applying, Busy

LEMMA MarkCompensatedInv ==
    ASSUME IInv, NEW p \in X!Users, X!MarkCompensated(p), UNCHANGED requestOnly
    PROVE  IInv'
<1> RailTypeOK /\ Session(p) /\ Owner(p)
  BY DEF IInv
<1>1. /\ pc[p] = "post"
      /\ row' = [row EXCEPT ![p] = "COMPENSATED"]
      /\ pc' = [pc EXCEPT ![p] = "commit"]
      /\ UNCHANGED <<ledgerVars, held, entry, journal, status, events, job, inbox, target, seen, serving>>
  BY DEF X!MarkCompensated, X!Goto, X!ledgerVars, X!sessionVars, ledgerVars, sessionVars
<1>2. /\ seen[p] = "PENDING_EXTERNAL" /\ Head(inbox[p]).type = "FAILED"
      /\ entry'[p] = X!CompensationEntry(target[p], Head(inbox[p]).id)
  BY <1>1 DEF Session
<1>3. CauseRow(Head(inbox[p]).id) \in held'[p] /\ ~ X!Recorded(Head(inbox[p]).id)
  BY <1>1 DEF Owner
<1> QED BY <1>1, <1>2, <1>3, SessionAdvances DEF Applying, Busy

LEMMA AuditInv ==
    ASSUME IInv, NEW p \in X!Users, X!Audit(p), UNCHANGED requestOnly
    PROVE  IInv'
<1> RailTypeOK /\ Session(p)
  BY DEF IInv
<1>1. /\ pc[p] = "audit"
      /\ inbox' = [inbox EXCEPT ![p] = Tail(@)]
      /\ row' = [row EXCEPT ![p] = None]
      /\ seen' = [seen EXCEPT ![p] = None]
      /\ pc' = [pc EXCEPT ![p] = IF Len(inbox[p]) > 1 THEN "read"
                                 ELSE IF p \in Workers THEN "complete"
                                 ELSE IF p \in Operators THEN "auditReconciled" ELSE "done"]
      /\ UNCHANGED <<ledgerVars, held, entry, journal, status, events, job, target, serving>>
  BY DEF X!Audit, X!Goto, X!ledgerVars, X!sessionVars, ledgerVars, sessionVars
<1>2. /\ Tail(inbox[p]) \in Seq(Reports)
      /\ Len(inbox[p]) > 1 => Tail(inbox[p]) # <<>>
  BY <1>1, HeadTyped, MoreToApply DEF Busy
<1>3. RailTypeOK' /\ Unmoved(p)
  BY <1>1, <1>2 DEF RailTypeOK, Unmoved, SessionPC
<1>4. Session(p)' /\ Owner(p)'
  BY <1>1, <1>2 DEF RailTypeOK, Session, Owner, Busy, Applying
<1> QED BY <1>1, <1>3, <1>4, SameJobs, SessionQuiet

-----------------------------------------------------------------------------
(* The commit of an event.                                                 *)

\* What a session is about to put on record has its event's id, or one that no
\* provider uses.
LEMMA NewEventsAre ==
    ASSUME IInv, NEW p \in X!Users, pc[p] = "commit"
    PROVE  /\ \A x \in X!NewEvents(p) : x.id = Head(inbox[p]).id \/ x.id \notin Causes
           /\ \E x \in X!NewEvents(p) : x.id = Head(inbox[p]).id
<1> DEFINE h == Head(inbox[p])
           t == target[p]
           e == [h EXCEPT !.transfer = t]
           c == [e EXCEPT !.id = <<e.id, "compensated">>, !.type = "COMPENSATED"]
<1>1. h \in Reports /\ h.id \in Causes
  BY HeadTyped DEF Busy
<1>2. PICK X1, Y1 : Reports \subseteq [id : Causes, transfer : X1, ref : Y1,
                                       type : {"ACKNOWLEDGED", "SETTLED", "FAILED"}]
  BY ReportsTyped
<1>3. e \in [id : Causes, transfer : {t}, ref : Y1, type : {"ACKNOWLEDGED", "SETTLED", "FAILED"}]
      /\ e.id = h.id
  BY <1>1, <1>2
<1>4. c.id = <<h.id, "compensated">>
  <2>1. PICK r : r = e
    OBVIOUS
  <2>2. r \in [id : Causes, transfer : {t}, ref : Y1, type : {"ACKNOWLEDGED", "SETTLED", "FAILED"}]
        /\ r.id = h.id
    BY <1>3, <2>1
  <2>3. [r EXCEPT !.id = <<r.id, "compensated">>, !.type = "COMPENSATED"].id = <<h.id, "compensated">>
    BY <2>2
  <2> QED BY <2>1, <2>3
<1>5. X!NewEvents(p) = {e} \cup {c : x \in {row[p]} \cap {"COMPENSATED"}}
  BY DEF X!NewEvents
<1>6. <<h.id, "compensated">> \notin Causes
  BY <1>1, Constants
<1> HIDE DEF h, e, c
<1> QED BY <1>3, <1>4, <1>5, <1>6 DEF h

\* What the commit of the event h does, which the session p has matched to t.
CommitsEvent(p, t, h) ==
    /\ t = target[p] /\ h = Head(inbox[p]) /\ t \in X!Matches(h) /\ h.id \in Causes
    /\ CommitEntry(p) /\ CauseRow(h.id) \in held[p] /\ ~ X!Recorded(h.id)
    /\ row[p] = None \/ Interbank(t)
    /\ \/ row[p] = None /\ status' = status /\ journal' = journal
       \/ /\ row[p] = "SETTLED" /\ h.type = "SETTLED" /\ journal' = journal
          /\ status' = [status EXCEPT ![t] = "SETTLED"]
       \/ /\ row[p] = "COMPENSATED" /\ h.type = "FAILED"
          /\ X!CompensationEntry(t, h.id) \in Entry
          /\ journal' = Append(journal, X!CompensationEntry(t, h.id))
          /\ status' = [status EXCEPT ![t] = "COMPENSATED"]
    /\ events \subseteq events'
    /\ \E x \in events' : x.id = h.id
    /\ \A x \in events' : x \in events \/ x.id = h.id \/ x.id \notin Causes

LEMMA CommitDoes ==
    ASSUME IInv, NEW p \in X!Users, X!Commit(p), UNCHANGED requestOnly
    PROVE  \E t \in Requests, h \in Reports : CommitsEvent(p, t, h)
<1> RailTypeOK /\ SharedTypeOK /\ Session(p) /\ Owner(p) /\ LedgerTypeOK
  BY DEF IInv, LedgerInv, LedgerInvOf
<1>1. /\ pc[p] = "commit" /\ CommitEntry(p)
      /\ status' = [status EXCEPT ![target[p]] = IF row[p] = None THEN @ ELSE row[p]]
      /\ events' = events \cup X!NewEvents(p)
  BY OneLedger DEF X!Commit
<1>2. PICK t \in Requests : t = target[p] /\ t \in X!Matches(Head(inbox[p]))
  BY <1>1, TargetTyped DEF Applying, Busy
<1>3. PICK h \in Reports : h = Head(inbox[p]) /\ h.id \in Causes
  BY <1>1, HeadTyped DEF Busy
<1>4. /\ row[p] = None \/ Interbank(t)
      /\ CauseRow(h.id) \in held[p] /\ ~ X!Recorded(h.id)
      /\ entry[p] = IF row[p] = "COMPENSATED" THEN X!CompensationEntry(t, h.id) ELSE None
      /\ \/ row[p] = None
         \/ row[p] = "SETTLED" /\ h.type = "SETTLED"
         \/ row[p] = "COMPENSATED" /\ h.type = "FAILED"
  BY <1>1, <1>2, <1>3 DEF Session, Owner, Applying, Busy
<1>5. X!CompensationEntry(t, h.id) \in Entry /\ X!CompensationEntry(t, h.id) # None
  BY <1>3, CompensationTyped
<1>6. row[p] = None => status' = status
  BY <1>1, <1>2 DEF SharedTypeOK
<1>7. row[p] # None => status' = [status EXCEPT ![t] = row[p]]
  BY <1>1, <1>2
<1>8. journal' = IF row[p] = "COMPENSATED" THEN Append(journal, X!CompensationEntry(t, h.id)) ELSE journal
  BY <1>1, <1>4, <1>5 DEF CommitEntry
<1>9. /\ events \subseteq events'
      /\ \E x \in events' : x.id = h.id
      /\ \A x \in events' : x \in events \/ x.id = h.id \/ x.id \notin Causes
  BY <1>1, <1>3, NewEventsAre
<1>10. None # "COMPENSATED" /\ None # "SETTLED"
  BY Constants
<1>11. \/ row[p] = None /\ status' = status /\ journal' = journal
       \/ /\ row[p] = "SETTLED" /\ h.type = "SETTLED" /\ journal' = journal
          /\ status' = [status EXCEPT ![t] = "SETTLED"]
       \/ /\ row[p] = "COMPENSATED" /\ h.type = "FAILED"
          /\ X!CompensationEntry(t, h.id) \in Entry
          /\ journal' = Append(journal, X!CompensationEntry(t, h.id))
          /\ status' = [status EXCEPT ![t] = "COMPENSATED"]
  BY <1>4, <1>5, <1>6, <1>7, <1>8, <1>10
<1>12. CommitsEvent(p, t, h)
  BY <1>1, <1>2, <1>3, <1>4, <1>9, <1>11 DEF CommitsEvent
<1> QED BY <1>12

LEMMA CommitInv ==
    ASSUME IInv, NEW p \in X!Users, X!Commit(p), UNCHANGED requestOnly
    PROVE  IInv'
<1> RailTypeOK /\ SharedTypeOK /\ Session(p) /\ LedgerInv /\ LedgerTypeOK /\ p \in Sessions
  BY Constants DEF IInv, LedgerInv, LedgerInvOf
<1>1. /\ pc[p] = "commit" /\ CommitEntry(p)
      /\ pc' = [pc EXCEPT ![p] = "audit"]
      /\ UNCHANGED <<job, inbox, target, seen, row, serving>>
  BY OneLedger DEF X!Commit, X!Goto
<1> PICK t \in Requests, h \in Reports : CommitsEvent(p, t, h)
  BY CommitDoes
<1>2. /\ t = target[p] /\ h = Head(inbox[p]) /\ t \in X!Matches(h)
      /\ CauseRow(h.id) \in held[p]
      /\ row[p] = None \/ Interbank(t)
      /\ \/ row[p] = None /\ status' = status /\ journal' = journal
         \/ row[p] = "SETTLED" /\ journal' = journal /\ status' = [status EXCEPT ![t] = "SETTLED"]
         \/ /\ row[p] = "COMPENSATED" /\ X!CompensationEntry(t, h.id) \in Entry
            /\ journal' = Append(journal, X!CompensationEntry(t, h.id))
            /\ status' = [status EXCEPT ![t] = "COMPENSATED"]
      /\ \A x \in events' : x \in events \/ x.id = h.id \/ x.id \notin Causes
      /\ None \notin {"SETTLED", "COMPENSATED"}
  BY Constants DEF CommitsEvent
<1>3. LedgerStep(p)
  BY <1>1 DEF LedgerStep
<1>4. SharedTypeOK' /\ RailTypeOK' /\ Unmoved(p)
  BY <1>1, <1>2 DEF SharedTypeOK, Committed, RailTypeOK, SessionPC, Unmoved
<1>5. \A u \in Requests : Resolves(u)
  <2>1. CASE status' = status
    BY <2>1 DEF Resolves
  <2>2. CASE status' # status
    <3>1. PICK s \in {"SETTLED", "COMPENSATED"} : status' = [status EXCEPT ![t] = s]
      BY <1>2, <2>2
    <3>2. Interbank(t)
      BY <1>2, <2>2
    <3> QED BY <3>1, <3>2 DEF Resolves, SharedTypeOK
  <2> QED BY <2>1, <2>2
<1>6. ASSUME NEW q \in X!Users \ {p}, pc[q] \in {"update", "post", "commit"}, NEW x \in events'
      PROVE  x.id # Head(inbox[q]).id
  <2>1. /\ Head(inbox[q]).id \in Causes /\ ~ X!Recorded(Head(inbox[q]).id)
        /\ CauseRow(Head(inbox[q]).id) \in held[q]
    BY <1>6, HeadTyped DEF Busy, IInv, Owner
  <2>2. CauseRow(h.id) \notin held[q]
    BY <1>2, Constants DEF LedgerInv, LedgerInvOf, LocksExclusive
  <2>3. x \notin events => x.id = h.id \/ x.id \notin Causes
    BY <1>2
  <2> QED BY <2>1, <2>2, <2>3 DEF X!Recorded
<1>7. entry'[p] = None /\ pc'[p] = "audit"
  BY <1>1 DEF CommitEntry, EndTransaction, LedgerTypeOK, RailTypeOK
<1>8. Session(p)'
  <2>1. t \in X!Matches(h)'
    BY <1>2 DEF X!Matches
  <2>2. row[p] # None \/ seen[p] = "PENDING_EXTERNAL" => Interbank(t)
    BY <1>1, <1>2 DEF Session, Applying, Busy
  <2>3. Interbank(t) => Interbank(t)'
    BY <1>5 DEF Resolves, Interbank, requestOnly
  <2>4. seen'[p] = "PENDING_EXTERNAL" => Interbank(target[p])'
    BY <1>1, <1>2, <2>2, <2>3 DEF Interbank
  <2>5. p \in Workers => serving[p] \in DOMAIN job
    BY <1>1 DEF Session
  <2> QED BY <1>1, <1>2, <1>7, <2>1, <2>4, <2>5 DEF Session, Busy, Applying, X!Matches
<1>9. Owner(p)'
  BY <1>7 DEF Owner
<1>10. Journalled'
  <2>1. \A u \in Requests : status[u] # "absent" => status'[u] # "absent"
    BY <1>5 DEF Resolves
  <2>2. CASE journal' = journal
    BY <2>1, <2>2 DEF IInv, Journalled
  <2>3. CASE /\ X!CompensationEntry(t, h.id) \in Entry
             /\ journal' = Append(journal, X!CompensationEntry(t, h.id))
             /\ status' = [status EXCEPT ![t] = "COMPENSATED"]
    <3>1. PICK k \in Entry : k = X!CompensationEntry(t, h.id) /\ k.transfer = t
      BY <2>3 DEF X!CompensationEntry
    <3>2. /\ DOMAIN journal' = DOMAIN journal \cup {Len(journal) + 1}
          /\ \A n \in DOMAIN journal : journal'[n] = journal[n]
          /\ journal'[Len(journal) + 1] = k
      BY <2>3, <3>1 DEF LedgerTypeOK
    <3>3. status'[t] # "absent"
      BY <2>3 DEF SharedTypeOK
    <3> QED BY <2>1, <3>1, <3>2, <3>3 DEF IInv, Journalled
  <2> QED BY <1>2, <2>2, <2>3
<1>11. QueueGrows
  BY <1>1 DEF QueueGrows
<1> QED BY <1>3, <1>4, <1>5, <1>6, <1>8, <1>9, <1>10, <1>11, SessionMoves

-----------------------------------------------------------------------------
(* The induction.                                                          *)

LEMMA InitInv == ASSUME Init PROVE IInv
<1>1. LedgerInit
  BY DEF Init, T!Init, T!LedgerInit, LedgerInit, T!NoLocks, NoLocks, T!NothingWritten, NothingWritten
<1>2. LedgerInv /\ journal = <<>> /\ entry = [p \in Sessions |-> None]
  BY <1>1, LedgerInitInv DEF LedgerInit
<1>3. /\ reqPc = [r \in Requests |-> "idle"] /\ input = [r \in Requests |-> None]
      /\ reqRow = [r \in Requests |-> "absent"] /\ reply = [r \in Requests |-> T!NoReply]
      /\ status = [t \in Requests |-> "absent"] /\ record = [k \in Causes |-> None]
  BY Constants DEF Init, T!Init
<1>4. RequestTypeOK
  <2>1. T!NoReply \in T!Reply /\ "absent" \in T!Status
    BY DEF T!NoReply, T!Reply, T!Status
  <2> QED BY <1>3, <2>1 DEF RequestTypeOK, RequestPC
<1>5. SharedTypeOK /\ RailTypeOK
  <2>1. job = <<>> /\ job \in Seq(X!Job) /\ Len(job) = 0
    BY DEF Init
  <2>2. 0 \in 0 .. Len(job)
    BY <2>1
  <2> QED BY <1>3, <2>1, <2>2 DEF Init, SharedTypeOK, Committed, RailTypeOK, SessionPC
<1>6. \A r \in Requests : Request(r)
  BY <1>2, <1>3, Constants DEF Request
<1>7. \A p \in X!Users : Session(p) /\ Owner(p)
  BY <1>2, Constants DEF Init, Session, Owner, Busy, Applying
<1> QED BY <1>2, <1>4, <1>5, <1>6, <1>7 DEF IInv, Journalled

LEMMA StutterInv == ASSUME IInv, UNCHANGED vars PROVE IInv'
<1>1. /\ UNCHANGED <<ledgerVars, status, events, journal, held, entry, job, requestOnly, railOnly,
                     reqPc, input, reqRow, record, reply, pc, inbox, target, seen, row, serving>>
  BY DEF vars, sharedVars, requestOnly, railOnly, ledgerVars, sessionVars
<1>2. SharedTypeOK' /\ RailTypeOK' /\ RequestTypeOK' /\ QueueGrows
  BY <1>1 DEF IInv, SharedTypeOK, RailTypeOK, RequestTypeOK, QueueGrows
<1>3. LedgerInv' /\ Journalled' /\ \A t \in Requests : Resolves(t)
  BY <1>1, LedgerStutterInv, NothingCommitted DEF LedgerInv, IInv
<1>4. \A q \in Requests : Request(q)'
  BY <1>1, <1>2, <1>3, RequestKeeps
<1>5. \A t \in Requests : Interbank(t) => Interbank(t)'
  BY <1>1 DEF Interbank
<1>6. \A q \in X!Users : Session(q)' /\ Owner(q)'
  BY <1>1, <1>2, <1>5, NothingCommitted, SessionKeeps
<1> QED BY <1>2, <1>3, <1>4, <1>6 DEF IInv

LEMMA NextInv == ASSUME IInv, [Next]_vars PROVE IInv'
<1>1. ASSUME NEW r \in Requests, RequestBegins(r) \/ Enqueue(r) \/ RequestFails(r) PROVE IInv'
  BY <1>1, RequestBeginsInv, EnqueueInv, RequestFailsInv
<1>2. ASSUME NEW r \in Requests, RequestStep(r) PROVE IInv'
  BY <1>2, InsertRecordInv, ReadSourceInv, ValidateInv, RouteInternalInv, RouteExternalInv,
     RequestPostInv, SettleInv, RequestCommitInv, RespondInv, DeadlockVictimInv
     DEF RequestStep, T!Step, T!Enqueue
<1>3. ASSUME NEW p \in X!Users, RailStep(p) PROVE IInv'
  BY <1>3, ReadStateInv, InsertEventInv, MarkSettledInv, MarkFailedInv, PostInv,
     MarkCompensatedInv, CommitInv, AuditInv, CompleteJobInv, PublishInv, AuditOperatorInv
     DEF RailStep, X!Step, X!Apply
<1>4. ASSUME NEW p \in X!Users, RailFails(p) PROVE IInv'
  BY <1>4, RailFailsInv
<1>5. ASSUME NEW w \in Workers, NEW j \in DOMAIN job, FetchJob(w, j) PROVE IInv'
  BY <1>5, FetchJobInv
<1>6. ASSUME NEW j \in DOMAIN job, ExpireJob(j) PROVE IInv'
  BY <1>6, ExpireInv
<1>7. ASSUME NEW o \in Operators, NEW t \in Requests, Redrive(o, t) PROVE IInv'
  BY <1>7, RedriveInv
<1>8. ASSUME NEW c \in Callbacks, NEW e \in Inbound, Callback(c, e) PROVE IInv'
  BY <1>8, CallbackInv
<1>9. CASE UNCHANGED vars
  BY <1>9, StutterInv
<1> QED BY <1>1, <1>2, <1>3, <1>4, <1>5, <1>6, <1>7, <1>8, <1>9 DEF Next

\* The induction: IInv holds in every reachable state.
THEOREM Invariance == Spec => []IInv
<1>1. Init => IInv
  BY InitInv
<1>2. IInv /\ [Next]_vars => IInv'
  BY NextInv
<1> QED BY <1>1, <1>2, PTL DEF Spec

\* The server does not forget a pending interbank transfer: its job was published
\* or is about to be, or the process died in between and the client was told of
\* an error.
THEOREM PendingPublished == Spec => []PendingIsPublished
<1>1. IInv => PendingIsPublished
  BY DEF IInv, Request, PendingIsPublished
<1> QED BY <1>1, Invariance, PTL

-----------------------------------------------------------------------------
(* Both modules and the ledger they post to.                               *)

\* What a request does to the ledger.
LEMMA RequestPosts ==
    ASSUME IInv, NEW r \in Requests, RequestBegins(r) \/ RequestStep(r) \/ Enqueue(r) \/ RequestFails(r)
    PROVE  LedgerStep(r) \/ UNCHANGED ledgerVars
<1> RequestTypeOK /\ Request(r) /\ LedgerTypeOK /\ r \in Sessions
  BY Constants DEF IInv, LedgerInv, LedgerInvOf
<1>1. ASSUME NEW kind, T!Throw(r, kind) PROVE LedgerStep(r)
  BY <1>1, OneLedger DEF T!Throw, LedgerStep
<1>2. ASSUME UNCHANGED T!ledgerVars PROVE UNCHANGED ledgerVars
  BY <1>2 DEF T!ledgerVars, T!sessionVars, ledgerVars, sessionVars
<1>3. ASSUME T!InsertRecord(r), ~ T!Throw(r, "unique_violation") PROVE LedgerStep(r)
  <2>1. /\ Acquire(r, CauseRow(input[r].key))
        /\ UNCHANGED <<projection, journal, overwritten, sessionVars>>
    BY <1>3, OneLedger
       DEF T!InsertRecord, T!sessionVars, sessionVars, T!CauseRow, CauseRow
  <2> QED BY <1>3, <2>1, InputTyped DEF T!InsertRecord, LedgerStep, CallerLocks
<1>4. ASSUME reqPc[r] = "route", input[r].dest # External => T!DestinationAccepted(r),
             T!OpenEntry(r, T!TransferEntry(r)), UNCHANGED held
      PROVE  LedgerStep(r)
  <2>1. /\ T!TransferEntry(r) \in Entry /\ Postable(T!TransferEntry(r)) /\ entry[r] = None
    BY <1>4, InputTyped, TransferEntryTyped DEF Request
  <2>2. OpenEntry(r, T!TransferEntry(r))
    BY <1>4, OneLedger
  <2>3. entry'[r] = T!TransferEntry(r)
    BY <2>2 DEF OpenEntry, LedgerTypeOK
  <2> QED BY <1>4, <2>1, <2>2, <2>3 DEF LedgerStep, CallerLocks
<1>5. ASSUME T!Post(r) \/ T!Commit(r) PROVE LedgerStep(r)
  BY <1>5, OneLedger DEF T!Post, T!Commit, LedgerStep
<1>6. ASSUME T!Step(r) PROVE LedgerStep(r) \/ UNCHANGED ledgerVars
  <2>1. CASE T!InsertRecord(r)
    BY <1>1, <1>3, <2>1
  <2>2. CASE T!ReadSource(r)
    BY <1>1, <1>2, <2>2 DEF T!ReadSource
  <2>3. CASE T!RouteInternal(r)
    BY <1>1, <1>4, <2>3 DEF T!RouteInternal
  <2>4. CASE T!RouteExternal(r)
    BY <1>4, <2>4 DEF T!RouteExternal
  <2>5. CASE T!DeadlockVictim(r)
    BY <1>1, <2>5 DEF T!DeadlockVictim
  <2>6. CASE T!Validate(r) \/ T!Settle(r) \/ T!Enqueue(r) \/ T!Respond(r)
    BY <1>2, <2>6 DEF T!Validate, T!Settle, T!Enqueue, T!Respond
  <2> QED BY <1>5, <1>6, <2>1, <2>2, <2>3, <2>4, <2>5, <2>6 DEF T!Step
<1>7. CASE RequestBegins(r)
  BY <1>2, <1>7 DEF RequestBegins, T!Begin
<1>8. CASE RequestFails(r)
  BY <1>1, <1>2, <1>8 DEF RequestFails, T!Fail
<1>9. CASE Enqueue(r)
  BY <1>2, <1>9 DEF Enqueue, T!Enqueue
<1> QED BY <1>6, <1>7, <1>8, <1>9 DEF RequestStep

\* What a session of the rail does to it.
LEMMA SessionPosts ==
    ASSUME IInv, NEW p \in X!Users, RailStep(p) \/ RailFails(p)
    PROVE  LedgerStep(p) \/ UNCHANGED ledgerVars
<1> RailTypeOK /\ Session(p) /\ LedgerTypeOK /\ p \in Sessions
  BY Constants DEF IInv, LedgerInv, LedgerInvOf
<1>1. ASSUME X!Abandon(p) PROVE LedgerStep(p)
  BY <1>1, OneLedger DEF X!Abandon, LedgerStep
<1>2. ASSUME UNCHANGED X!ledgerVars PROVE UNCHANGED ledgerVars
  BY <1>2 DEF X!ledgerVars, X!sessionVars, ledgerVars, sessionVars
<1>3. ASSUME X!InsertEvent(p), ~ X!Throw(p) PROVE LedgerStep(p)
  <2>1. /\ Acquire(p, CauseRow(Head(inbox[p]).id))
        /\ UNCHANGED <<projection, journal, overwritten, sessionVars>>
    BY <1>3, OneLedger DEF X!InsertEvent, X!sessionVars, sessionVars, X!CauseRow, CauseRow
  <2> QED BY <1>3, <2>1, HeadTyped DEF X!InsertEvent, Busy, LedgerStep, CallerLocks
<1>4. ASSUME X!MarkSettled(p) PROVE LedgerStep(p)
  <2>1. /\ Acquire(p, TransferRow(target[p]))
        /\ UNCHANGED <<projection, journal, overwritten, sessionVars>>
    BY <1>4, OneLedger DEF X!MarkSettled, X!sessionVars, sessionVars, X!TransferRow, TransferRow
  <2> QED BY <1>4, <2>1, TargetTyped DEF X!MarkSettled, Applying, Busy, LedgerStep, CallerLocks
<1>5. ASSUME X!MarkFailed(p) PROVE LedgerStep(p)
  <2>1. /\ Acquire(p, TransferRow(target[p]))
        /\ OpenEntry(p, X!CompensationEntry(target[p], Head(inbox[p]).id))
        /\ pc[p] = "update"
    BY <1>5, OneLedger DEF X!MarkFailed, X!TransferRow, TransferRow
  <2>2. /\ target[p] \in Requests /\ TransferRow(target[p]) \in Row
        /\ Head(inbox[p]).id \in Causes /\ entry[p] = None
    BY <2>1, TargetTyped, HeadTyped DEF Applying, Busy, Session
  <2>3. PICK k \in Entry : k = X!CompensationEntry(target[p], Head(inbox[p]).id) /\ Postable(k)
    BY <2>2, CompensationTyped
  <2>4. entry'[p] = k
    BY <2>1, <2>3 DEF OpenEntry, LedgerTypeOK
  <2> QED BY <2>1, <2>2, <2>3, <2>4 DEF LedgerStep, CallerLocks
<1>6. ASSUME X!Post(p) \/ X!Commit(p) PROVE LedgerStep(p)
  BY <1>6, OneLedger DEF X!Post, X!Commit, LedgerStep
<1>7. CASE RailFails(p)
  BY <1>1, <1>7 DEF RailFails, X!Fail, X!Throw
<1>8. CASE RailStep(p)
  <2>1. CASE X!InsertEvent(p)
    BY <1>1, <1>3, <2>1 DEF X!Throw
  <2>2. CASE X!ReadState(p) \/ X!MarkCompensated(p) \/ X!Audit(p) \/ X!CompleteJob(p)
             \/ X!Publish(p) \/ X!AuditOperator(p)
    BY <1>2, <2>2
       DEF X!ReadState, X!MarkCompensated, X!Audit, X!CompleteJob, X!Publish, X!AuditOperator
  <2> QED BY <1>4, <1>5, <1>6, <1>8, <2>1, <2>2 DEF RailStep, X!Step, X!Apply
<1> QED BY <1>7, <1>8

LEMMA StepOfLedger ==
    ASSUME IInv, [Next]_vars
    PROVE  [\E p \in Sessions : LedgerStep(p)]_ledgerVars
<1> DEFINE Goal == [\E p \in Sessions : LedgerStep(p)]_ledgerVars
<1>1. ASSUME NEW p \in Sessions, LedgerStep(p) \/ UNCHANGED ledgerVars PROVE Goal
  BY <1>1
<1>2. ASSUME NEW r \in Requests,
             RequestBegins(r) \/ RequestStep(r) \/ Enqueue(r) \/ RequestFails(r)
      PROVE  Goal
  BY <1>1, <1>2, RequestPosts, Constants
<1>3. ASSUME NEW p \in X!Users, RailStep(p) \/ RailFails(p) PROVE Goal
  BY <1>1, <1>3, SessionPosts, Constants
<1>4. ASSUME UNCHANGED X!ledgerVars PROVE Goal
  BY <1>4 DEF X!ledgerVars, X!sessionVars, ledgerVars, sessionVars
<1>5. ASSUME NEW w \in Workers, NEW j \in DOMAIN job, FetchJob(w, j) PROVE Goal
  BY <1>4, <1>5 DEF FetchJob, X!FetchJob
<1>6. ASSUME NEW j \in DOMAIN job, ExpireJob(j) PROVE Goal
  BY <1>4, <1>6 DEF ExpireJob, X!Expire
<1>7. ASSUME NEW o \in Operators, NEW t \in Requests, Redrive(o, t) PROVE Goal
  BY <1>4, <1>7 DEF Redrive, X!Redrive
<1>8. ASSUME NEW c \in Callbacks, NEW e \in Inbound, Callback(c, e) PROVE Goal
  BY <1>4, <1>8 DEF Callback, X!Callback
<1>9. ASSUME UNCHANGED vars PROVE Goal
  BY <1>9 DEF vars, sharedVars
<1> HIDE DEF Goal
<1>10. Goal
  BY <1>2, <1>3, <1>5, <1>6, <1>7, <1>8, <1>9 DEF Next
<1> QED BY <1>10 DEF Goal

\* Requests and providers, together, use the ledger through the operations of
\* LedgerSpec alone.
THEOREM ImplementsLedger == Spec => LedgerSpec
<1>1. Init => LedgerInit
  BY DEF Init, T!Init, T!LedgerInit, LedgerInit, T!NoLocks, NoLocks, T!NothingWritten, NothingWritten
<1> QED BY <1>1, StepOfLedger, Invariance, PTL DEF Spec, LedgerSpec

\* A transfer and its compensation each move the balances as their entries say,
\* of the accounts of which no upsert has lost a balance.
THEOREM BalancesFollowJournal == Spec => ProjectionFollowsJournal
  BY ImplementsLedger, LedgerProjection

-----------------------------------------------------------------------------
(* What it comes to: TransferOutcomes.                                     *)

\* Whoever reports a final result of a transfer reports the same one, and a
\* failure under one id, which is how a submission that is repeated reports it.
\* A provider that reports one failure under two ids may give the money back
\* twice: the update of a transfer is by id alone.
OneReport ==
    \A m, n \in Reports : \A t \in X!Matches(m) \cap X!Matches(n) :
        {m.type, n.type} \subseteq {"SETTLED", "FAILED"} =>
            m.type = n.type /\ (m.type = "FAILED" => m.id = n.id)

\* A pending transfer has taken its amount, and an interbank one has the outcome
\* its provider decided, which is on record if it is a failure.
Sound(t) ==
    /\ status[t] = "PENDING_EXTERNAL" => Taken(t) = input[t].amount
    /\ Interbank(t) /\ status[t] = "SETTLED" => Detail[t].outcome = "SETTLED"
    /\ status[t] = "COMPENSATED" =>
          Detail[t].outcome = "FAILED" /\ X!Recorded(<<t, "submit", "FAILED">>)

LEMMA OneOutcome ==
    ASSUME OneReport, NEW t \in Requests, NEW h \in Reports, t \in X!Matches(h),
           h.type \in {"SETTLED", "FAILED"}
    PROVE  /\ Detail[t].outcome = h.type
           /\ h.type = "FAILED" => h.id = <<t, "submit", "FAILED">>
<1>1. PICK n \in Reports : /\ n.id = <<t, "submit", Detail[t].outcome>>
                           /\ n.transfer = t /\ n.type = Detail[t].outcome
  <2>1. X!TerminalEvent(t, "submit") \in Reports
    BY DEF Reports
  <2> QED BY <2>1 DEF X!TerminalEvent, X!Event
<1>2. t \in X!Matches(n) /\ n.type \in {"SETTLED", "FAILED"}
  BY <1>1, Constants DEF X!Matches
<1> QED BY <1>1, <1>2 DEF OneReport

\* A transfer that does not exist has taken nothing.
LEMMA AbsentTakes ==
    ASSUME IInv, NEW t, status[t] = "absent", NEW i
    PROVE  TakenBy(journal, t, i) = 0
<1>1. journal \in Seq(Entry) /\ \A x \in DOMAIN journal : journal[x].transfer # t
  BY DEF IInv, LedgerInv, LedgerInvOf, LedgerTypeOK, Journalled
<1> QED BY <1>1, TakenNothing

\* An entry takes from the source of its own transfer alone.
LEMMA EntryTakes ==
    ASSUME IInv, NEW k \in Entry, journal' = Append(journal, k), UNCHANGED input
    PROVE  \A t : Taken(t)' = Takes(Taken(t), k, t, input[t])
<1> journal \in Seq(Entry)
  BY DEF IInv, LedgerInv, LedgerInvOf, LedgerTypeOK
<1>1. ASSUME NEW t PROVE Taken(t)' = Takes(Taken(t), k, t, input[t])
  <2>1. PICK i : i = input[t]
    OBVIOUS
  <2>2. TakenBy(Append(journal, k), t, i) = Takes(TakenBy(journal, t, i), k, t, i)
    BY TakenAppend
  <2>3. Taken(t)' = TakenBy(journal', t, i) /\ Taken(t) = TakenBy(journal, t, i)
    BY <2>1 DEF Taken
  <2> QED BY <2>1, <2>2, <2>3
<1> QED BY <1>1

\* The steps that commit nothing of a transfer.
Uncommitted ==
    /\ UNCHANGED <<status, journal>>
    /\ events \subseteq events'
    /\ \A t \in Requests : status[t] # "absent" => input'[t] = input[t]

LEMMA RequestUncommitted ==
    ASSUME IInv, NEW r \in Requests,
           RequestBegins(r) \/ RequestStep(r) \/ Enqueue(r) \/ RequestFails(r), ~ T!Commit(r)
    PROVE  Uncommitted
<1> RequestTypeOK /\ Request(r)
  BY DEF IInv
<1>1. CASE RequestBegins(r)
  <2>1. UNCHANGED <<status, journal, events>>
    BY <1>1 DEF RequestBegins, T!Begin, T!ledgerVars, T!tableVars
  <2>2. \A t \in Requests \ {r} : input'[t] = input[t]
    BY <1>1 DEF RequestBegins, T!Begin, RequestTypeOK
  <2>3. status[r] = "absent"
    BY <1>1 DEF RequestBegins, T!Begin, Request
  <2> QED BY <2>1, <2>2, <2>3 DEF Uncommitted
<1>2. CASE ~ RequestBegins(r)
  <2>1. ASSUME NEW kind, T!Throw(r, kind) PROVE UNCHANGED <<status, journal, events, input>>
    BY <2>1, OneLedger DEF T!Throw, T!tableVars, RollbackEntry
  <2>2. CASE RequestFails(r)
    BY <2>1, <2>2 DEF RequestFails, T!Fail, T!tableVars, T!ledgerVars, Uncommitted
  <2>3. CASE Enqueue(r)
    BY <2>3 DEF Enqueue, T!Enqueue, T!ledgerVars, Uncommitted
  <2>4. CASE T!InsertRecord(r) \/ T!ReadSource(r) \/ T!DeadlockVictim(r)
    BY <2>1, <2>4 DEF T!InsertRecord, T!ReadSource, T!DeadlockVictim, T!tableVars, T!ledgerVars,
                      Uncommitted
  <2>5. CASE T!RouteInternal(r) \/ T!RouteExternal(r)
    BY <2>1, <2>5, OneLedger
       DEF T!RouteInternal, T!RouteExternal, T!tableVars, OpenEntry, Uncommitted
  <2>6. CASE T!Post(r)
    BY <2>6, OneLedger DEF T!Post, T!tableVars, T!requestVars, ReadProjection, UpsertProjection,
                           Uncommitted
  <2>7. CASE T!Validate(r) \/ T!Settle(r) \/ T!Respond(r) \/ T!Enqueue(r)
    BY <2>7 DEF T!Validate, T!Settle, T!Respond, T!Enqueue, T!tableVars, T!ledgerVars, Uncommitted
  <2> QED BY <1>2, <2>2, <2>3, <2>4, <2>5, <2>6, <2>7 DEF RequestStep, T!Step
<1> QED BY <1>1, <1>2

LEMMA SessionUncommitted ==
    ASSUME NEW p \in X!Users, RailStep(p) \/ RailFails(p), ~ X!Commit(p)
    PROVE  Uncommitted
<1> UNCHANGED input
  BY DEF RailStep, RailFails, requestOnly
<1>1. ASSUME X!Abandon(p) PROVE Uncommitted
  BY <1>1, OneLedger DEF X!Abandon, RollbackEntry, Uncommitted
<1>2. CASE X!InsertEvent(p)
  BY <1>1, <1>2 DEF X!InsertEvent, X!Throw, Uncommitted
<1>3. CASE X!MarkSettled(p) \/ X!MarkFailed(p)
  BY <1>3, OneLedger DEF X!MarkSettled, X!MarkFailed, OpenEntry, Uncommitted
<1>4. CASE X!Post(p)
  BY <1>4, OneLedger DEF X!Post, X!railVars, ReadProjection, UpsertProjection, Uncommitted
<1>5. CASE X!ReadState(p) \/ X!MarkCompensated(p) \/ X!Audit(p) \/ X!CompleteJob(p)
           \/ X!Publish(p) \/ X!AuditOperator(p)
  BY <1>5 DEF X!ReadState, X!MarkCompensated, X!Audit, X!CompleteJob, X!Publish, X!AuditOperator,
              X!ledgerVars, Uncommitted
<1>6. CASE RailFails(p)
  BY <1>1, <1>6 DEF RailFails, X!Fail, X!Throw
<1> QED BY <1>2, <1>3, <1>4, <1>5, <1>6 DEF RailStep, X!Step, X!Apply

\* A step is the commit of a request, the commit of an event, or commits nothing.
LEMMA StepCommits ==
    ASSUME IInv, [Next]_vars
    PROVE  \/ \E r \in Requests : T!Commit(r)
           \/ \E p \in X!Users : X!Commit(p) /\ UNCHANGED requestOnly
           \/ Uncommitted
<1>1. CASE \E r \in Requests : RequestBegins(r) \/ RequestStep(r) \/ Enqueue(r) \/ RequestFails(r)
  BY <1>1, RequestUncommitted
<1>2. CASE \E p \in X!Users : RailStep(p) \/ RailFails(p)
  BY <1>2, SessionUncommitted DEF RailStep, RailFails
<1>3. CASE \E w \in Workers, j \in DOMAIN job : FetchJob(w, j)
  BY <1>3 DEF FetchJob, X!FetchJob, X!ledgerVars, requestOnly, Uncommitted
<1>4. CASE \E j \in DOMAIN job : ExpireJob(j)
  BY <1>4 DEF ExpireJob, X!Expire, X!ledgerVars, requestOnly, Uncommitted
<1>5. CASE \E o \in Operators, t \in Requests : Redrive(o, t)
  BY <1>5 DEF Redrive, X!Redrive, X!ledgerVars, requestOnly, Uncommitted
<1>6. CASE \E c \in Callbacks, e \in Inbound : Callback(c, e)
  BY <1>6 DEF Callback, X!Callback, X!ledgerVars, requestOnly, Uncommitted
<1>7. CASE UNCHANGED vars
  BY <1>7 DEF vars, sharedVars, ledgerVars, requestOnly, Uncommitted
<1> QED BY <1>1, <1>2, <1>3, <1>4, <1>5, <1>6, <1>7 DEF Next

-----------------------------------------------------------------------------
(* Each of the three, against TransferOutcomes.                            *)

\* The transfers whose status and money stay.
Rests(t) == status'[t] = status[t] /\ Taken(t)' = Taken(t)

LEMMA RestsSound ==
    ASSUME NEW t \in Requests, Sound(t), Rests(t), events \subseteq events',
           status[t] # "absent" => input'[t] = input[t]
    PROVE  Sound(t)'
<1>1. \A c : X!Recorded(c) => X!Recorded(c)'
  BY DEF X!Recorded
<1>2. Interbank(t)' => Interbank(t)
  BY DEF Rests, Interbank
<1>3. status'[t] = "PENDING_EXTERNAL" => Taken(t)' = input'[t].amount
  BY DEF Rests, Sound
<1>4. status'[t] = "COMPENSATED" => X!Recorded(<<t, "submit", "FAILED">>)'
  <2>1. status'[t] = "COMPENSATED" => X!Recorded(<<t, "submit", "FAILED">>)
    BY DEF Rests, Sound
  <2> QED BY <2>1 DEF X!Recorded
<1>5. status'[t] = "COMPENSATED" => Detail[t].outcome = "FAILED"
  BY DEF Rests, Sound
<1>6. Interbank(t)' /\ status'[t] = "SETTLED" => Detail[t].outcome = "SETTLED"
  BY <1>2 DEF Rests, Sound
<1> QED BY <1>3, <1>4, <1>5, <1>6 DEF Sound

LEMMA UncommittedStutters ==
    ASSUME IInv, \A t \in Requests : Sound(t), Uncommitted
    PROVE  UNCHANGED O!outcomeVars /\ \A t \in Requests : Sound(t)'
<1>1. ASSUME NEW t \in Requests PROVE Rests(t)
  <2>1. PICK i, j : i = input[t] /\ j = input'[t]
    OBVIOUS
  <2>2. Taken(t) = TakenBy(journal, t, i) /\ Taken(t)' = TakenBy(journal, t, j)
    BY <2>1 DEF Taken, Uncommitted
  <2>3. CASE status[t] = "absent"
    BY <2>2, <2>3, AbsentTakes DEF Rests, Uncommitted
  <2>4. CASE status[t] # "absent"
    BY <2>1, <2>2, <2>4 DEF Rests, Uncommitted
  <2> QED BY <2>3, <2>4
<1>2. UNCHANGED O!outcomeVars
  BY <1>1 DEF Rests, O!outcomeVars, Uncommitted
<1>3. \A t \in Requests : Sound(t)'
  BY <1>1, RestsSound DEF Uncommitted
<1> QED BY <1>2, <1>3

LEMMA RequestCommitCreates ==
    ASSUME IInv, \A t \in Requests : Sound(t), NEW r \in Requests, T!Commit(r)
    PROVE  O!OutcomesNext /\ \A t \in Requests : Sound(t)'
<1> RequestTypeOK /\ SharedTypeOK /\ Request(r) /\ LedgerTypeOK /\ WellOpened(r)
    /\ reqPc[r] = "post" /\ r \in Sessions
  BY Constants DEF IInv, LedgerInv, LedgerInvOf, T!Commit
<1>1. PICK s \in {"SETTLED", "PENDING_EXTERNAL"} :
        /\ s = reqRow[r]
        /\ CommitEntry(r)
        /\ events \subseteq events'
        /\ status' = [status EXCEPT ![r] = s]
        /\ UNCHANGED input
  BY OneLedger DEF T!Commit
<1>2. PICK k \in Entry : k = entry[r] /\ k = T!TransferEntry(r) /\ Postable(k)
  BY DEF Request, LedgerTypeOK, WellOpened
<1>3. PICK n : n = input[r].amount
  OBVIOUS
<1>4. n \in Nat \ {0} /\ n \in {i.amount : i \in Inputs} \ {0}
  BY <1>3, InputTyped DEF Request, T!SourceAccepted
<1>5. k.transfer = r /\ Effect(k, input[r].source) = -n
  BY <1>2, <1>3 DEF T!TransferEntry, Postable, Effect
<1>6. journal' = Append(journal, k)
  BY <1>1, <1>2 DEF CommitEntry, Request
<1>7. Taken(r) = 0 /\ status[r] = "absent"
  BY AbsentTakes DEF Request, Taken
<1>8. Taken(r)' = n
  <2>1. Taken(r)' = Takes(Taken(r), k, r, input[r])
    BY <1>1, <1>6, EntryTakes
  <2> QED BY <1>4, <1>5, <1>7, <2>1 DEF Takes
<1>9. ASSUME NEW t \in Requests \ {r} PROVE Rests(t)
  <2>1. Taken(t)' = Takes(Taken(t), k, t, input[t])
    BY <1>1, <1>6, EntryTakes
  <2> QED BY <1>1, <1>5, <2>1 DEF Takes, Rests, SharedTypeOK
<1>10. O!Turns(r, "absent", s, n)
  BY <1>1, <1>7, <1>8, <1>9 DEF O!Turns, Rests
<1>11. Sound(r)'
  <2>1. status'[r] = s
    BY <1>1 DEF SharedTypeOK
  <2>2. s = "SETTLED" => ~ Interbank(r)'
    BY <1>1 DEF Request, Interbank
  <2> QED BY <1>1, <1>3, <1>8, <2>1, <2>2 DEF Sound
<1>12. \A t \in Requests \ {r} : Sound(t)'
  BY <1>1, <1>9, RestsSound
<1> QED BY <1>4, <1>10, <1>11, <1>12 DEF O!OutcomesNext, O!Created

LEMMA EventCommitResolves ==
    ASSUME OneReport, IInv, \A t \in Requests : Sound(t), NEW p \in X!Users,
           X!Commit(p), UNCHANGED requestOnly
    PROVE  [O!OutcomesNext]_(O!outcomeVars) /\ \A t \in Requests : Sound(t)'
<1> SharedTypeOK /\ UNCHANGED input
  BY DEF IInv, requestOnly
<1> PICK t \in Requests, h \in Reports : CommitsEvent(p, t, h)
  BY CommitDoes
<1>1. /\ t \in X!Matches(h) /\ h.id \in Causes /\ ~ X!Recorded(h.id)
      /\ events \subseteq events' /\ \E x \in events' : x.id = h.id
      /\ None \notin {"SETTLED", "COMPENSATED"}
  BY Constants DEF CommitsEvent
<1>2. Sound(t) /\ Request(t)
  BY DEF IInv
<1>3. CASE row[p] = None
  <2>1. Uncommitted
    BY <1>1, <1>3 DEF CommitsEvent, Uncommitted
  <2> QED BY <2>1, UncommittedStutters
<1>4. CASE row[p] = "SETTLED"
  <2>1. /\ Interbank(t) /\ h.type = "SETTLED" /\ journal' = journal
        /\ status' = [status EXCEPT ![t] = "SETTLED"]
    BY <1>1, <1>4 DEF CommitsEvent
  <2>2. Detail[t].outcome = "SETTLED"
    BY <1>1, <2>1, OneOutcome
  <2>3. status[t] \in {"PENDING_EXTERNAL", "SETTLED"}
    BY <1>2, <2>1, <2>2 DEF Sound, Interbank, SharedTypeOK, Committed
  <2>4. CASE status[t] = "SETTLED"
    <3>1. Uncommitted
      BY <1>1, <2>1, <2>4 DEF SharedTypeOK, Uncommitted
    <3> QED BY <3>1, UncommittedStutters
  <2>5. CASE status[t] = "PENDING_EXTERNAL"
    <3>1. ASSUME NEW u \in Requests PROVE Taken(u)' = Taken(u)
      BY <2>1 DEF Taken
    <3>2. O!ProviderSettles(t)
      BY <2>1, <2>5, <3>1 DEF O!ProviderSettles, O!Turns
    <3>3. Sound(t)'
      BY <2>1, <2>2 DEF Sound, SharedTypeOK
    <3>4. \A u \in Requests \ {t} : Sound(u)'
      BY <1>1, <2>1, <3>1, RestsSound DEF Rests, SharedTypeOK
    <3> QED BY <3>2, <3>3, <3>4 DEF O!OutcomesNext
  <2> QED BY <2>3, <2>4, <2>5
<1>5. CASE row[p] = "COMPENSATED"
  <2>1. PICK k \in Entry :
           /\ k = X!CompensationEntry(t, h.id) /\ journal' = Append(journal, k)
           /\ Interbank(t) /\ h.type = "FAILED"
           /\ status' = [status EXCEPT ![t] = "COMPENSATED"]
    BY <1>1, <1>5 DEF CommitsEvent
  <2>2. Detail[t].outcome = "FAILED" /\ h.id = <<t, "submit", "FAILED">>
    BY <1>1, <2>1, OneOutcome
  <2>3. status[t] = "PENDING_EXTERNAL"
    BY <1>1, <1>2, <2>1, <2>2 DEF Sound, Interbank, SharedTypeOK, Committed
  <2>4. /\ input[t].source = Detail[t].source /\ input[t].amount = Detail[t].amount
        /\ Detail[t].amount \in Nat
    BY <1>2, <2>1, <2>3, Constants DEF Request, Described, Interbank
  <2>5. k.transfer = t /\ Effect(k, input[t].source) = Detail[t].amount
    BY <1>1, <2>1, <2>4, CompensationTyped
  <2>6. Taken(t)' = 0
    <3>1. Taken(t)' = Takes(Taken(t), k, t, input[t])
      BY <2>1, EntryTakes
    <3>2. Taken(t) = Detail[t].amount
      BY <1>2, <2>3, <2>4 DEF Sound
    <3> QED BY <2>4, <2>5, <3>1, <3>2 DEF Takes
  <2>7. ASSUME NEW u \in Requests \ {t} PROVE Rests(u)
    <3>1. Taken(u)' = Takes(Taken(u), k, u, input[u])
      BY <2>1, EntryTakes
    <3> QED BY <2>1, <2>5, <3>1 DEF Takes, Rests, SharedTypeOK
  <2>8. O!Compensated(t)
    BY <2>1, <2>3, <2>6, <2>7 DEF O!Compensated, O!Turns, Rests
  <2>9. Sound(t)'
    <3>1. status'[t] = "COMPENSATED"
      BY <2>1 DEF SharedTypeOK
    <3>2. X!Recorded(<<t, "submit", "FAILED">>)'
      BY <1>1, <2>2 DEF X!Recorded
    <3> QED BY <2>2, <3>1, <3>2 DEF Sound
  <2>10. \A u \in Requests \ {t} : Sound(u)'
    BY <1>1, <2>7, RestsSound
  <2> QED BY <2>8, <2>9, <2>10 DEF O!OutcomesNext
<1> QED BY <1>3, <1>4, <1>5 DEF CommitsEvent

LEMMA StepOfOutcomes ==
    ASSUME OneReport, IInv, \A t \in Requests : Sound(t), [Next]_vars
    PROVE  [O!OutcomesNext]_(O!outcomeVars) /\ \A t \in Requests : Sound(t)'
  BY StepCommits, UncommittedStutters, RequestCommitCreates, EventCommitResolves

LEMMA InitOfOutcomes ==
    ASSUME Init
    PROVE  O!OutcomesInit /\ \A t \in Requests : Sound(t)
<1>1. status = [t \in Requests |-> "absent"]
  BY Constants DEF Init, T!Init
<1>2. \A t \in Requests : Taken(t) = 0
  BY <1>1, InitInv, AbsentTakes DEF Taken
<1> QED BY <1>1, <1>2 DEF O!OutcomesInit, Sound, Interbank

\* What a pending or finished transfer has taken and how it ended are as its
\* client and its provider say, in every reachable state.
THEOREM OutcomesSound == ASSUME OneReport PROVE Spec => [](\A t \in Requests : Sound(t))
<1> DEFINE AllSound == \A t \in Requests : Sound(t)
<1>1. Init => AllSound
  BY InitOfOutcomes
<1>2. IInv /\ AllSound /\ [Next]_vars => AllSound'
  BY StepOfOutcomes
<1> HIDE DEF AllSound
<1>3. Spec => []AllSound
  BY <1>1, <1>2, Invariance, PTL DEF Spec
<1> QED BY <1>3 DEF AllSound

\* Requests, retries, jobs delivered again, callbacks and redrives come to no
\* more than TransferOutcomes: a transfer takes its amount once, then settles or
\* gives all of it back, once, and that is its end.
THEOREM OutcomesImplemented == ASSUME OneReport PROVE Spec => ImplementsOutcomes
<1> DEFINE AllSound == \A t \in Requests : Sound(t)
<1>1. Init => O!OutcomesInit
  BY InitOfOutcomes
<1>2. Spec => []AllSound
  BY OutcomesSound
<1>3. IInv /\ AllSound /\ [Next]_vars => [O!OutcomesNext]_(O!outcomeVars)
  BY StepOfOutcomes
<1> HIDE DEF AllSound
<1> QED BY <1>1, <1>2, <1>3, Invariance, PTL DEF Spec, ImplementsOutcomes, O!OutcomesSpec
=============================================================================
