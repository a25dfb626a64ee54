----------------------------- MODULE BatchProofs -----------------------------
(***************************************************************************)
(* What Batch guarantees for every set of accounts, runs, operators and    *)
(* workers, and for every chunk size, rate and number of failures.         *)
(*                                                                         *)
(* The first inductive invariant, IInv, follows a run from the creation of *)
(* its items to its counts: what is PENDING is in the queue of the run, in *)
(* the hands of one of its workers, or in a chunk to come.  The second,    *)
(* Exclusive, says that no item is in two hands, and holds when a single   *)
(* operator retries.                                                       *)
(***************************************************************************)
EXTENDS Batch, LedgerProofs, FiniteSetTheorems, SequenceTheorems

\* The sessions that post through LedgerService.
Posters == Sessions \ Runs

RunPC == {"idle", "findAccounts", "createItems", "pool", "chunk", "upsert", "count", "audit",
          "done", "dead"}
WorkerPC == {"idle", "readItem", "readAccount", "markRunning", "post", "markFailed", "dead"}
PC == RunPC \cup WorkerPC

Settled == {"COMPLETED", "FAILED"}
Ended(r) == run[r] \in {"COMPLETED", "PARTIALLY_FAILED", "FAILED"}

\* The accounts in the chunks to come.
Ahead(r) == {Processable[n] : n \in done[r] + 1 .. Len(Processable)}

\* An item is in the queue of a caller or one of its workers has it.
InHand(c, i) == i \in queue[c] \/ \E w \in Pool : Caller[w] = c /\ working[w] = i

\* The items of a run until it counts them.
Items(r) ==
    /\ pc[r] \in {"idle", "findAccounts", "createItems"} =>
          \A a \in Accounts : item[<<r, a>>] = "absent"
    /\ pc[r] \in {"pool", "chunk", "upsert"} => \A a \in ActiveAccounts :
          /\ item[<<r, a>>] # "absent"
          /\ item[<<r, a>>] \in Settled \/ InHand(r, <<r, a>>) \/ a \in Ahead(r)
    /\ pc[r] \in {"count", "audit", "done"} \/ Ended(r) =>
          \A a \in ActiveAccounts : item[<<r, a>>] \in Settled

\* Where a run stands, and when its pool is at work.
Control(r) ==
    /\ pc[r] \in RunPC
    /\ pc[r] \notin {"pool", "dead"} =>
          queue[r] = {} /\ \A w \in Pool : Caller[w] = r => pc[w] = "idle"
    /\ Ended(r) => pc[r] \in {"audit", "done", "dead"}
    /\ pc[r] \in {"idle", "findAccounts", "createItems"} => done[r] = 0

\* What a run has counted when it finds no failure.
Tally(r) ==
    /\ counted[r]["FAILED"] = 0 =>
          /\ pc[r] \in {"count", "audit", "done", "dead"}
          /\ \A a \in ActiveAccounts : item[<<r, a>>] = "COMPLETED" \/ <<r, a>> \in reopened
    /\ run[r] = "COMPLETED" => counted[r]["FAILED"] = 0

\* The balances a chunk has written: of the accounts that earn and are not
\* still to be written, computed from the snapshot.
Bulk(r) ==
    /\ pc[r] # "upsert" => rows[r] = <<>> /\ newBalance[r] = NothingWritten
    /\ pc[r] = "upsert" =>
          /\ \A n \in DOMAIN rows[r] : rows[r][n] \in Earning(r)
          /\ \A a \in Earning(r) : newBalance[r][a] = None => \E n \in DOMAIN rows[r] : rows[r][n] = a
          /\ \A a \in Accounts : newBalance[r][a] # None =>
                /\ a \in Earning(r)
                /\ newBalance[r][a] = RunningBalance(r, a)
                /\ a \notin overwritten => projection[a] = snapshot[r][a]

\* A worker posts for its item.
Worker(w) ==
    /\ pc[w] \in WorkerPC
    /\ pc[w] = "idle" => working[w] = None
    /\ pc[w] \notin {"idle", "dead"} => working[w] \in Item
    /\ working[w] # None => item[working[w]] # "absent"
    /\ pc[w] # "post" => entry[w] = None
    /\ entry[w] # None => entry[w].cause = working[w]

\* A transfer is no item's.
Payer(p) ==
    /\ pc[p] # "post" => entry[p] = None
    /\ entry[p] # None => entry[p].cause \notin Item

\* Only items that exist are passed on, and they are of active accounts.
Existing ==
    /\ \A c \in Callers : \A i \in queue[c] : item[i] # "absent"
    /\ \A i \in Item : item[i] # "absent" => i[2] \in ActiveAccounts

\* TypeOK without the ledger's part of it.
BatchTypeOK ==
    /\ linked \subseteq Accounts
    /\ run \in [Runs -> {"absent", "RUNNING", "COMPLETED", "PARTIALLY_FAILED", "FAILED"}]
    /\ item \in [Item -> {"absent", "PENDING", "COMPLETED", "FAILED"}]
    /\ pc \in [Sessions -> PC]
    /\ snapshot \in [Runs -> [Accounts -> Int]]
    /\ done \in [Runs -> 0 .. Len(Processable)]
    /\ rows \in [Runs -> Seq(linked)]
    /\ counted \in [Runs -> [{"COMPLETED", "FAILED"} -> 0 .. Len(ById) \cup {None}]]
    /\ queue \in [Callers -> SUBSET Item]
    /\ working \in [Pool -> Item \cup {None}]
    /\ interest \in [Pool -> Int]
    /\ retries \in [Operators -> 0 .. MaxRetries]
    /\ reopened \subseteq Item
    /\ faults \in 0 .. MaxFaults

IInv ==
    /\ LedgerInvOf(Posters)
    /\ BatchTypeOK
    /\ \A r \in Runs : Items(r) /\ Control(r) /\ Tally(r) /\ Bulk(r)
    /\ \A w \in Pool : Worker(w)
    /\ \A p \in Payers : Payer(p)
    /\ Existing
    /\ ItemTellsLedger

-----------------------------------------------------------------------------
\* Who has an item in hand: the queue of a caller, or a worker.
Hand == Callers \cup Pool
Holds(p, i) == IF p \in Pool THEN working[p] = i ELSE i \in queue[p]
Serves(p) == IF p \in Pool THEN Caller[p] ELSE p

\* What a caller has in hand is of its kind: a run deals with items of its own
\* that nobody has marked FAILED, an operator with those that were.
Kind(c, i) ==
    IF c \in Runs THEN i[1] = c /\ item[i] \in {"PENDING", "COMPLETED"}
    ELSE item[i] \in {"FAILED", "COMPLETED"}

\* No item is in two hands, and none of the chunks to come is in one.
Hands ==
    /\ \A p \in Hand, i \in Item : Holds(p, i) => Kind(Serves(p), i)
    /\ \A p, q \in Hand, i \in Item : Holds(p, i) /\ Holds(q, i) => p = q
    /\ \A r \in Runs : \A a \in Ahead(r) :
          /\ item[<<r, a>>] \in {"absent", "PENDING"}
          /\ \A p \in Hand : ~ Holds(p, <<r, a>>)

\* An operator who asks for a retry has nothing of an earlier one in hand.
Retrying ==
    \A o \in Operators : pc[o] \notin {"pool", "dead"} =>
        queue[o] = {} /\ \A w \in Pool : Caller[w] = o => pc[w] = "idle"

\* A worker that has read its item as not COMPLETED posts while that is so.
Deciding == {"readAccount", "markRunning", "post"}
Undone == \A w \in Pool : pc[w] \in Deciding => item[working[w]] # "COMPLETED"

Exclusive == Hands /\ Retrying /\ Undone /\ InterestPostedOnce

OneOperator == \A o, p \in Operators : o = p

-----------------------------------------------------------------------------
(* orderBy id.                                                             *)

LEMMA Assumptions ==
    /\ Runs \subseteq Callers /\ Operators \subseteq Callers
    /\ Callers \subseteq Sessions /\ Pool \subseteq Sessions /\ Payers \subseteq Sessions
    /\ Posters \in SUBSET Sessions /\ Pool \subseteq Posters /\ Payers \subseteq Posters
    /\ Operators \subseteq Posters
    /\ Runs \cap Posters = {}
    /\ \A p \in Sessions : p \in Callers \/ p \in Pool \/ p \in Payers
    /\ \A p \in Callers : p \notin Pool /\ p \notin Payers
    /\ \A p \in Pool : p \notin Payers /\ p \notin Callers /\ Caller[p] \in Callers
    /\ \A p \in Payers : p \notin Pool /\ p \notin Callers
    /\ \A r \in Runs, a \in Accounts : <<r, a>> \in Item
    /\ \A r \in Runs : r \notin Operators
    /\ \A i \in Item : i[1] \in Runs /\ i[2] \in Accounts /\ i = <<i[1], i[2]>> /\ i # None
    /\ None \notin Item /\ None \notin Int /\ None \notin Entry
  BY BatchAssumption, LedgerAssumption
     DEF BatchAssumption, LedgerAssumption, Posters, Callers, Item

LEMMA PlaceIs ==
    /\ ActiveAccounts \subseteq Accounts
    /\ IsFiniteSet(ActiveAccounts)
    /\ Len(ById) \in Nat
    /\ Cardinality(ActiveAccounts) <= Len(ById)
    /\ \A a \in ActiveAccounts : Place(a) \in Nat /\ Place(a) \in DOMAIN ById /\ ById[Place(a)] = a
<1>1. PICK n \in Nat : n = Len(ById) /\ DOMAIN ById = 1 .. n /\ ById \in [1 .. n -> Accounts]
  BY BatchAssumption, LenProperties DEF BatchAssumption
<1>2. ActiveAccounts \subseteq Accounts
  BY <1>1 DEF ActiveAccounts, Range
<1>3. \A a \in ActiveAccounts : Place(a) \in DOMAIN ById /\ ById[Place(a)] = a
  BY DEF ActiveAccounts, Range, Place
<1>4. IsFiniteSet(1 .. n) /\ Cardinality(1 .. n) = n
  BY FS_Interval
<1>5. ById \in Surjection(1 .. n, ActiveAccounts)
  BY <1>1, <1>2 DEF Surjection, ActiveAccounts, Range
<1>6. IsFiniteSet(ActiveAccounts) /\ Cardinality(ActiveAccounts) <= n
  BY <1>4, <1>5, FS_Surjection
<1> QED BY <1>1, <1>2, <1>3, <1>6

\* How many accounts of S come before a.
Rank(S, a) == Cardinality(Earlier(S, a))

LEMMA RankTyped ==
    ASSUME NEW S \in SUBSET ActiveAccounts, NEW a \in S
    PROVE  /\ IsFiniteSet(S) /\ Cardinality(S) \in Nat
           /\ IsFiniteSet(Earlier(S, a)) /\ Rank(S, a) \in Nat
           /\ Rank(S, a) < Cardinality(S)
<1>1. IsFiniteSet(S)
  BY PlaceIs, FS_Subset
<1>2. Earlier(S, a) \in SUBSET (S \ {a})
  BY PlaceIs DEF Earlier
<1>3. IsFiniteSet(S \ {a}) /\ Cardinality(S \ {a}) = Cardinality(S) - 1
  BY <1>1, FS_RemoveElement
<1>4. IsFiniteSet(Earlier(S, a)) /\ Cardinality(Earlier(S, a)) <= Cardinality(S \ {a})
  BY <1>2, <1>3, FS_Subset
<1>5. Cardinality(S) \in Nat /\ Cardinality(Earlier(S, a)) \in Nat
  BY <1>1, <1>4, FS_CardinalityType
<1> QED BY <1>1, <1>3, <1>4, <1>5 DEF Rank

LEMMA RankGrows ==
    ASSUME NEW S \in SUBSET ActiveAccounts, NEW a \in S, NEW b \in S, Place(b) < Place(a)
    PROVE  Rank(S, b) < Rank(S, a)
<1>1. IsFiniteSet(Earlier(S, b)) /\ IsFiniteSet(Earlier(S, a))
  BY RankTyped
<1>2. \A c \in S : Place(c) \in Nat
  BY PlaceIs
<1>3. Earlier(S, b) \cup {b} \in SUBSET Earlier(S, a)
  BY <1>2 DEF Earlier
<1>4. b \notin Earlier(S, b)
  BY <1>2 DEF Earlier
<1>5. Cardinality(Earlier(S, b) \cup {b}) = Rank(S, b) + 1
  BY <1>1, <1>4, FS_AddElement DEF Rank
<1>6. Cardinality(Earlier(S, b) \cup {b}) <= Rank(S, a)
  BY <1>1, <1>3, FS_Subset DEF Rank
<1> QED BY <1>5, <1>6, RankTyped

LEMMA RankInjective ==
    ASSUME NEW S \in SUBSET ActiveAccounts, NEW a \in S, NEW b \in S, Rank(S, a) = Rank(S, b)
    PROVE  a = b
<1>1. Rank(S, a) \in Nat /\ Rank(S, b) \in Nat
  BY RankTyped
<1>2. Place(a) \in Nat /\ Place(b) \in Nat /\ ById[Place(a)] = a /\ ById[Place(b)] = b
  BY PlaceIs
<1>3. ~ (Place(a) < Place(b)) /\ ~ (Place(b) < Place(a))
  BY <1>1, RankGrows
<1> QED BY <1>2, <1>3

\* Every place is taken: else the accounts would share fewer places than there are.
LEMMA RankHit ==
    ASSUME NEW S \in SUBSET ActiveAccounts, NEW i \in Nat, i < Cardinality(S)
    PROVE  \E a \in S : Rank(S, a) = i
<1> SUFFICES ASSUME \A a \in S : Rank(S, a) # i PROVE FALSE
  OBVIOUS
<1>1. IsFiniteSet(S)
  BY PlaceIs, FS_Subset
<1>2. PICK N \in Nat : N = Cardinality(S) /\ i < N
  BY <1>1, FS_CardinalityType
<1>3. PICK D : D = 0 .. (N - 1)
  OBVIOUS
<1>4. IsFiniteSet(D) /\ Cardinality(D) = N /\ i \in D
  <2>1. N - 1 \in Int /\ N # 0
    BY <1>2
  <2>2. IsFiniteSet(D) /\ Cardinality(D) = IF 0 > N - 1 THEN 0 ELSE (N - 1) - 0 + 1
    BY <1>3, <2>1, FS_Interval
  <2> QED BY <1>2, <1>3, <2>1, <2>2
<1> DEFINE T == D \ {i}
           f == [a \in S |-> Rank(S, a)]
<1>5. IsFiniteSet(T) /\ Cardinality(T) = N - 1
  BY <1>4, FS_RemoveElement
<1>6. f \in [S -> T]
  BY <1>2, <1>3, RankTyped
<1>7. Cardinality(T) < Cardinality(S)
  BY <1>2, <1>5
<1> HIDE DEF T, f
<1>8. \E x, y \in S : x # y /\ f[x] = f[y]
  BY <1>1, <1>5, <1>6, <1>7, FS_PigeonHole
<1> QED BY <1>8, RankInjective DEF f

\* InOrder lists the accounts of a set, each once.
LEMMA InOrderIs ==
    ASSUME NEW S \in SUBSET ActiveAccounts
    PROVE  /\ Cardinality(S) \in Nat
           /\ Len(InOrder(S)) = Cardinality(S)
           /\ DOMAIN InOrder(S) = 1 .. Cardinality(S)
           /\ InOrder(S) \in Seq(S)
           /\ \A n \in 1 .. Cardinality(S) : InOrder(S)[n] \in S
           /\ \A a \in S : \E n \in 1 .. Cardinality(S) : InOrder(S)[n] = a
           /\ \A m, n \in 1 .. Cardinality(S) : InOrder(S)[m] = InOrder(S)[n] => m = n
<1>1. PICK N \in Nat : N = Cardinality(S)
  BY PlaceIs, FS_Subset, FS_CardinalityType
<1>2. PICK s : s = InOrder(S) /\ s = [n \in 1 .. N |-> Nth(S, n)]
  BY <1>1 DEF InOrder
<1>3. ASSUME NEW n \in 1 .. N PROVE s[n] \in S /\ Rank(S, s[n]) = n - 1
  <2>1. n - 1 \in Nat /\ n - 1 < Cardinality(S)
    BY <1>1
  <2>2. \E a \in S : Cardinality(Earlier(S, a)) = n - 1
    BY <2>1, RankHit DEF Rank
  <2>3. Nth(S, n) \in S /\ Rank(S, Nth(S, n)) = n - 1
    BY <2>2 DEF Nth, Rank
  <2> QED BY <1>2, <2>3
<1>4. s \in [1 .. N -> S] /\ DOMAIN s = 1 .. N
  BY <1>2, <1>3
<1>5. s \in Seq(S) /\ Len(s) = N
  BY <1>4
<1>6. ASSUME NEW a \in S PROVE \E n \in 1 .. N : s[n] = a
  <2>1. Rank(S, a) \in Nat /\ Rank(S, a) < N
    BY <1>1, RankTyped
  <2>2. Rank(S, a) + 1 \in 1 .. N /\ (Rank(S, a) + 1) - 1 = Rank(S, a)
    BY <2>1
  <2>3. s[Rank(S, a) + 1] = a
    BY <1>3, <2>1, <2>2, RankInjective
  <2> QED BY <2>2, <2>3
<1>7. \A m, n \in 1 .. N : s[m] = s[n] => m = n
  BY <1>3
<1> QED BY <1>1, <1>2, <1>3, <1>4, <1>5, <1>6, <1>7

-----------------------------------------------------------------------------
(* Chunks.                                                                 *)

\* Processable lists the linked active accounts, each once.
LEMMA ProcessableIs ==
    /\ Len(Processable) \in Nat
    /\ DOMAIN Processable = 1 .. Len(Processable)
    /\ \A n \in 1 .. Len(Processable) : Processable[n] \in ActiveAccounts \cap linked
    /\ \A a \in ActiveAccounts \cap linked : \E n \in 1 .. Len(Processable) : Processable[n] = a
    /\ \A m, n \in 1 .. Len(Processable) : Processable[m] = Processable[n] => m = n
<1>1. PICK S \in SUBSET ActiveAccounts : S = ActiveAccounts \cap linked
  OBVIOUS
<1>2. Processable = InOrder(S)
  BY <1>1 DEF Processable
<1>3. /\ Cardinality(S) \in Nat /\ Len(InOrder(S)) = Cardinality(S)
      /\ DOMAIN InOrder(S) = 1 .. Cardinality(S)
  BY InOrderIs
<1>4. /\ \A n \in 1 .. Cardinality(S) : InOrder(S)[n] \in S
      /\ \A a \in S : \E n \in 1 .. Cardinality(S) : InOrder(S)[n] = a
      /\ \A m, n \in 1 .. Cardinality(S) : InOrder(S)[m] = InOrder(S)[n] => m = n
  BY InOrderIs
<1> QED BY <1>1, <1>2, <1>3, <1>4

\* A chunk is the next of them.
LEMMA ChunkIs ==
    ASSUME NEW r \in Runs, done[r] \in 0 .. Len(Processable)
    PROVE  /\ Chunk(r) \in Seq(ActiveAccounts \cap linked)
           /\ Len(Chunk(r)) \in Nat /\ DOMAIN Chunk(r) = 1 .. Len(Chunk(r))
           /\ done[r] + Len(Chunk(r)) \in 0 .. Len(Processable)
           /\ \A n \in 1 .. Len(Chunk(r)) : Chunk(r)[n] = Processable[done[r] + n]
           /\ done[r] < Len(Processable) => Len(Chunk(r)) > 0
<1>1. PICK N \in Nat : N = Len(Processable)
  BY ProcessableIs
<1>2. PICK d \in 0 .. N : d = done[r]
  BY <1>1
<1>3. BatchShardSize \in Nat \ {0}
  BY BatchAssumption DEF BatchAssumption
<1>4. PICK last \in Nat : last = IF d + BatchShardSize < N THEN d + BatchShardSize ELSE N
  BY <1>3
<1>5. last \in d .. N /\ (d < N => last > d)
  BY <1>3, <1>4
<1>6. Chunk(r) = SubSeq(Processable, d + 1, last)
  BY <1>1, <1>2, <1>4 DEF Chunk
<1>7. \A n \in d + 1 .. last : Processable[n] \in ActiveAccounts \cap linked
  BY <1>1, <1>5, ProcessableIs
<1>8. /\ Chunk(r) \in Seq(ActiveAccounts \cap linked)
      /\ Len(Chunk(r)) = IF d + 1 <= last THEN last - (d + 1) + 1 ELSE 0
      /\ \A n \in 1 .. last - (d + 1) + 1 : Chunk(r)[n] = Processable[(d + 1) + n - 1]
  <2>1. d + 1 \in Int /\ last \in Int
    BY <1>5
  <2> QED BY <1>6, <1>7, <2>1, SubSeqProperties
<1>9. Len(Chunk(r)) = last - d
  BY <1>5, <1>8
<1>10. DOMAIN Chunk(r) = 1 .. Len(Chunk(r))
  BY <1>8, LenProperties
<1>11. \A n \in 1 .. last - d : Chunk(r)[n] = Processable[d + n]
  BY <1>5, <1>8
<1>12. PICK k \in Nat : k = last - d
  BY <1>5
<1>13. Len(Chunk(r)) = k /\ d + k \in 0 .. N /\ (d < N => k > 0)
  BY <1>5, <1>9, <1>12
<1> QED BY <1>1, <1>2, <1>8, <1>10, <1>11, <1>12, <1>13

\* The accounts ahead of a run are those of its chunk and those ahead of it
\* after the chunk, and none is both.
LEMMA AheadIs ==
    ASSUME NEW r \in Runs, done[r] \in 0 .. Len(Processable),
           NEW later, later = {Processable[n] : n \in done[r] + Len(Chunk(r)) + 1 .. Len(Processable)}
    PROVE  /\ Range(Chunk(r)) \subseteq Ahead(r)
           /\ later \subseteq Ahead(r)
           /\ Ahead(r) \subseteq ActiveAccounts \cap linked
           /\ \A a \in Ahead(r) : a \in Range(Chunk(r)) \/ a \in later
           /\ \A a \in later : a \notin Range(Chunk(r))
<1>0. /\ done[r] + Len(Chunk(r)) \in 0 .. Len(Processable)
      /\ Len(Chunk(r)) \in Nat /\ DOMAIN Chunk(r) = 1 .. Len(Chunk(r))
      /\ \A n \in 1 .. Len(Chunk(r)) : Chunk(r)[n] = Processable[done[r] + n]
  BY ChunkIs
<1>a. PICK N \in Nat : N = Len(Processable)
  BY ProcessableIs
<1>b. PICK d \in Nat : d = done[r]
  BY <1>a
<1>c. PICK k \in Nat : k = Len(Chunk(r))
  BY <1>0
<1>1. /\ N = Len(Processable) /\ d = done[r] /\ k = Len(Chunk(r))
      /\ d + k \in 0 .. N
      /\ DOMAIN Chunk(r) = 1 .. k
      /\ \A n \in 1 .. k : Chunk(r)[n] = Processable[d + n]
  BY <1>0, <1>a, <1>b, <1>c
<1>2. Ahead(r) = {Processable[n] : n \in d + 1 .. N}
  BY <1>1 DEF Ahead
<1>3. later = {Processable[n] : n \in d + k + 1 .. N}
  BY <1>1
<1>4. \A a : a \in Range(Chunk(r)) <=> \E n \in 1 .. k : Processable[d + n] = a
  BY <1>1 DEF Range
<1>5. \A m, n \in 1 .. N : Processable[m] = Processable[n] => m = n
  BY <1>1, ProcessableIs
<1>6. Ahead(r) \subseteq ActiveAccounts \cap linked
  BY <1>1, <1>2, ProcessableIs
<1>7. Range(Chunk(r)) \subseteq Ahead(r) /\ later \subseteq Ahead(r)
  <2>1. \A n \in 1 .. k : d + n \in d + 1 .. N
    BY <1>1
  <2>2. \A n \in d + k + 1 .. N : n \in d + 1 .. N
    BY <1>1
  <2> QED BY <1>2, <1>3, <1>4, <2>1, <2>2
<1>8. ASSUME NEW a \in Ahead(r) PROVE a \in Range(Chunk(r)) \/ a \in later
  <2>1. PICK n \in d + 1 .. N : a = Processable[n]
    BY <1>2
  <2>2. CASE n <= d + k
    <3>1. n - d \in 1 .. k /\ d + (n - d) = n
      BY <1>1, <2>1, <2>2
    <3> QED BY <1>4, <2>1, <3>1
  <2>3. CASE n > d + k
    <3>1. n \in d + k + 1 .. N
      BY <1>1, <2>1, <2>3
    <3> QED BY <1>3, <2>1, <3>1
  <2> QED BY <1>1, <2>1, <2>2, <2>3
<1>9. ASSUME NEW a \in later, a \in Range(Chunk(r)) PROVE FALSE
  <2>1. PICK m \in d + k + 1 .. N : a = Processable[m]
    BY <1>3
  <2>2. PICK n \in 1 .. k : a = Processable[d + n]
    BY <1>4, <1>9
  <2>3. m \in 1 .. N /\ d + n \in 1 .. N /\ m # d + n
    BY <1>1, <2>1, <2>2
  <2> QED BY <1>5, <2>1, <2>2, <2>3
<1> QED BY <1>6, <1>7, <1>8, <1>9

\* The interest of a balance is an amount.
LEMMA InterestTyped == \A balance \in Int : Interest(balance) \in Int
  BY BatchAssumption DEF BatchAssumption, Interest

LEMMA InterestEntryTyped ==
    ASSUME NEW i \in Item, NEW amount \in Nat \ {0}
    PROVE  /\ InterestEntry(i, amount) \in Entry
           /\ Postable(InterestEntry(i, amount))
           /\ InterestEntry(i, amount).cause = i
           /\ InterestEntry(i, amount).credit = i[2]
           /\ InterestEntry(i, amount).amount = amount
           /\ InterestEntry(i, amount).debit \notin Accounts
<1>1. InterestRevenue \in SystemAccounts /\ i \in Causes /\ i[2] \in Accounts
      /\ Accounts \cap SystemAccounts = {}
  BY BatchAssumption, LedgerAssumption, Assumptions DEF BatchAssumption, LedgerAssumption
<1> QED BY <1>1 DEF InterestEntry, Entry, Operation, Postable

LEMMA EarningIs ==
    ASSUME NEW r \in Runs, done[r] \in 0 .. Len(Processable)
    PROVE  /\ Earning(r) \in SUBSET (ActiveAccounts \cap linked)
           /\ Earning(r) \in SUBSET ActiveAccounts
           /\ Earning(r) \subseteq Range(Chunk(r))
<1>1. Range(Chunk(r)) \subseteq ActiveAccounts \cap linked
  BY ChunkIs DEF Range
<1> QED BY <1>1 DEF Earning

\* What an account that earns gets from a chunk.
Earned(r, a) == InterestEntry(<<r, a>>, Interest(snapshot[r][a]))

LEMMA EarnedIs ==
    ASSUME NEW r \in Runs, done[r] \in 0 .. Len(Processable), snapshot[r] \in [Accounts -> Int],
           NEW a \in Earning(r)
    PROVE  /\ a \in Accounts /\ <<r, a>> \in Item
           /\ Earned(r, a) \in Entry
           /\ Earned(r, a).cause = <<r, a>>
           /\ Earned(r, a).credit = a
           /\ Earned(r, a).debit \notin Accounts
           /\ Earned(r, a).amount = Interest(snapshot[r][a])
           /\ snapshot[r][a] \in Int
           /\ Interest(snapshot[r][a]) \in Nat \ {0}
<1>1. a \in Accounts /\ <<r, a>> \in Item
  BY EarningIs, PlaceIs, Assumptions
<1>2. snapshot[r][a] \in Int /\ Interest(snapshot[r][a]) \in Int /\ Interest(snapshot[r][a]) > 0
  BY <1>1, InterestTyped DEF Earning
<1>3. PICK amount \in Nat \ {0} : amount = Interest(snapshot[r][a])
  BY <1>2
<1>4. PICK i \in Item : i = <<r, a>> /\ i[2] = a
  BY <1>1
<1>5. PICK e : e = InterestEntry(i, amount) /\ e = Earned(r, a)
  BY <1>3, <1>4 DEF Earned
<1>6. e \in Entry /\ e.cause = i /\ e.credit = i[2] /\ e.debit \notin Accounts /\ e.amount = amount
  <2>1. /\ InterestEntry(i, amount) \in Entry
        /\ InterestEntry(i, amount).cause = i /\ InterestEntry(i, amount).credit = i[2]
        /\ InterestEntry(i, amount).debit \notin Accounts
        /\ InterestEntry(i, amount).amount = amount
    BY InterestEntryTyped
  <2> QED BY <1>5, <2>1
<1>7. Earned(r, a) \in Entry /\ Earned(r, a).cause = <<r, a>>
  BY <1>4, <1>5, <1>6
<1>8. Earned(r, a).credit = a 
  BY <1>4, <1>5, <1>6
<1>9. Earned(r, a).debit \notin Accounts
  BY <1>5, <1>6
<1>10. Earned(r, a).amount = Interest(snapshot[r][a]) /\ Interest(snapshot[r][a]) \in Nat \ {0}
  BY <1>3, <1>5, <1>6
<1> QED BY <1>1, <1>2, <1>7, <1>8, <1>9, <1>10

\* The entries of a chunk: one for each account that earns, of its interest.
LEMMA ChunkEntriesAre ==
    ASSUME NEW r \in Runs, done[r] \in 0 .. Len(Processable), snapshot[r] \in [Accounts -> Int]
    PROVE  /\ ChunkEntries(r) \in Seq(Entry)
           /\ Len(ChunkEntries(r)) \in Nat /\ DOMAIN ChunkEntries(r) = 1 .. Len(ChunkEntries(r))
           /\ \A n \in 1 .. Len(ChunkEntries(r)) :
                 \E a \in Earning(r) : ChunkEntries(r)[n] = Earned(r, a)
           /\ \A a \in Earning(r) :
                 \E n \in 1 .. Len(ChunkEntries(r)) : ChunkEntries(r)[n] = Earned(r, a)
           /\ \A m, n \in 1 .. Len(ChunkEntries(r)) :
                 ChunkEntries(r)[m].credit = ChunkEntries(r)[n].credit => m = n
<1>1. PICK k \in Nat, s \in Seq(Earning(r)) :
         /\ s = InterestRows(r) /\ DOMAIN s = 1 .. k
         /\ \A n \in 1 .. k : s[n] \in Earning(r)
         /\ \A a \in Earning(r) : \E n \in 1 .. k : s[n] = a
         /\ \A m, n \in 1 .. k : s[m] = s[n] => m = n
  BY EarningIs, InOrderIs DEF InterestRows
<1>2. PICK es : es = ChunkEntries(r) /\ es = [n \in 1 .. k |-> Earned(r, s[n])]
  BY <1>1 DEF ChunkEntries, Earned
<1>3. ASSUME NEW n \in 1 .. k
      PROVE  es[n] = Earned(r, s[n]) /\ es[n] \in Entry /\ es[n].credit = s[n]
  <2>1. PICK a \in Earning(r) : a = s[n]
    BY <1>1
  <2>2. Earned(r, a) \in Entry /\ Earned(r, a).credit = a
    BY EarnedIs
  <2> QED BY <1>2, <2>1, <2>2
<1>4. es \in Seq(Entry) /\ Len(es) = k /\ DOMAIN es = 1 .. k
  <2>1. es \in [1 .. k -> Entry]
    BY <1>2, <1>3
  <2> QED BY <1>2, <2>1
<1>5. \A n \in 1 .. k : \E a \in Earning(r) : es[n] = Earned(r, a)
  BY <1>1, <1>3
<1>6. \A a \in Earning(r) : \E n \in 1 .. k : es[n] = Earned(r, a)
  BY <1>1, <1>3
<1>7. \A m, n \in 1 .. k : es[m].credit = es[n].credit => m = n
  BY <1>1, <1>3
<1>8. /\ es \in Seq(Entry) /\ Len(es) \in Nat /\ DOMAIN es = 1 .. Len(es)
      /\ \A n \in 1 .. Len(es) : \E a \in Earning(r) : es[n] = Earned(r, a)
      /\ \A a \in Earning(r) : \E n \in 1 .. Len(es) : es[n] = Earned(r, a)
      /\ \A m, n \in 1 .. Len(es) : es[m].credit = es[n].credit => m = n
  BY <1>4, <1>5, <1>6, <1>7
<1> QED BY <1>2, <1>8

-----------------------------------------------------------------------------
(* What a step leaves as it was.                                           *)

\* Items are created once, and stay settled once they are; one that is no longer
\* COMPLETED is on record as reopened.
Advance ==
    /\ reopened \subseteq reopened'
    /\ \A i \in Item :
          /\ item[i] = "absent" =>
                \/ item'[i] = "absent"
                \/ i[2] \in ActiveAccounts /\ pc'[i[1]] \notin {"idle", "findAccounts", "createItems"}
          /\ item[i] # "absent" => item'[i] # "absent"
          /\ item[i] \in Settled => item'[i] \in Settled
          /\ item[i] = "COMPLETED" => item'[i] = "COMPLETED" \/ i \in reopened'

\* The balances another session moves are not those a run has written.
Undisturbed(r) ==
    /\ newBalance'[r] = newBalance[r]
    /\ overwritten \subseteq overwritten'
    /\ \A a \in Accounts : newBalance[r][a] # None => projection'[a] = projection[a]

LEMMA ChunksStay ==
    ASSUME linked' = linked
    PROVE  /\ Processable' = Processable
           /\ \A r \in Runs : done'[r] = done[r] => Chunk(r)' = Chunk(r) /\ Ahead(r)' = Ahead(r)
           /\ \A r \in Runs : done'[r] = done[r] /\ snapshot'[r] = snapshot[r] =>
                 /\ Earning(r)' = Earning(r)
                 /\ \A a \in Accounts : RunningBalance(r, a)' = RunningBalance(r, a)
<1>1. Processable' = Processable
  BY DEF Processable
<1>2. \A r \in Runs : done'[r] = done[r] => Chunk(r)' = Chunk(r) /\ Ahead(r)' = Ahead(r)
  BY <1>1 DEF Chunk, Ahead
<1>3. \A r \in Runs : done'[r] = done[r] /\ snapshot'[r] = snapshot[r] =>
         /\ Earning(r)' = Earning(r)
         /\ \A a \in Accounts : RunningBalance(r, a)' = RunningBalance(r, a)
  BY <1>2 DEF Earning, RunningBalance
<1> QED BY <1>1, <1>2, <1>3

LEMMA RunKeeps ==
    ASSUME IInv, NEW r \in Runs, Advance, linked' = linked,
           pc'[r] = pc[r], run'[r] = run[r], counted'[r] = counted[r], done'[r] = done[r],
           pc[r] \notin {"pool", "dead"} =>
               queue'[r] = queue[r] /\ \A w \in Pool : Caller[w] = r => pc'[w] = pc[w],
           \A a \in ActiveAccounts : InHand(r, <<r, a>>) =>
               item'[<<r, a>>] \in Settled \/ InHand(r, <<r, a>>)'
    PROVE  Items(r)' /\ Control(r)' /\ Tally(r)'
<1> Items(r) /\ Control(r) /\ Tally(r)
  BY DEF IInv
<1>1. \A a \in Accounts : <<r, a>> \in Item
  BY Assumptions
<1>2. ActiveAccounts \subseteq Accounts
  BY PlaceIs
<1>3. Ahead(r)' = Ahead(r)
  BY ChunksStay
<1>4. Ended(r)' = Ended(r)
  BY DEF Ended
<1>5. Items(r)'
  <2>1. ASSUME pc'[r] \in {"idle", "findAccounts", "createItems"}, NEW a \in Accounts
        PROVE  item'[<<r, a>>] = "absent"
    <3>1. PICK i \in Item : i = <<r, a>> /\ i[1] = r
      BY <1>1
    <3>2. item[i] = "absent"
      BY <2>1, <3>1 DEF Items
    <3> QED BY <2>1, <3>1, <3>2 DEF Advance
  <2>2. pc'[r] \in {"pool", "chunk", "upsert"} => \A a \in ActiveAccounts :
           item'[<<r, a>>] # "absent"
    BY <1>1, <1>2 DEF Items, Advance
  <2>3. pc'[r] \in {"pool", "chunk", "upsert"} => \A a \in ActiveAccounts :
           item'[<<r, a>>] \in Settled \/ InHand(r, <<r, a>>)' \/ a \in Ahead(r)'
    BY <1>1, <1>2, <1>3 DEF Items, Advance
  <2>4. pc'[r] \in {"count", "audit", "done"} \/ Ended(r)' =>
           \A a \in ActiveAccounts : item'[<<r, a>>] \in Settled
    BY <1>1, <1>2, <1>4 DEF Items, Advance
  <2> QED BY <2>1, <2>2, <2>3, <2>4 DEF Items
<1>6. Control(r)'
  BY <1>4 DEF Control
<1>7. Tally(r)'
  BY <1>1, <1>2 DEF Tally, Advance
<1> QED BY <1>5, <1>6, <1>7

LEMMA BulkKeeps ==
    ASSUME IInv, NEW r \in Runs, linked' = linked, Undisturbed(r),
           pc'[r] = pc[r], done'[r] = done[r], snapshot'[r] = snapshot[r], rows'[r] = rows[r]
    PROVE  Bulk(r)'
<1> Bulk(r)
  BY DEF IInv
<1>1. Earning(r)' = Earning(r) /\ \A a \in Accounts : RunningBalance(r, a)' = RunningBalance(r, a)
  BY ChunksStay
<1>2. Earning(r) \subseteq Accounts
  BY EarningIs, PlaceIs DEF IInv, BatchTypeOK
<1> QED BY <1>1, <1>2 DEF Bulk, Undisturbed, NothingWritten

LEMMA WorkerKeeps ==
    ASSUME IInv, NEW w \in Pool, Advance,
           pc'[w] = pc[w], working'[w] = working[w], entry'[w] = entry[w]
    PROVE  Worker(w)'
<1> Worker(w)
  BY DEF IInv
<1>1. working[w] # None => working[w] \in Item
  BY DEF IInv, BatchTypeOK
<1> QED BY <1>1 DEF Worker, Advance

LEMMA PayerKeeps ==
    ASSUME IInv, NEW p \in Payers, pc'[p] = pc[p], entry'[p] = entry[p]
    PROVE  Payer(p)'
  BY DEF IInv, Payer

LEMMA ExistingKeeps ==
    ASSUME IInv, Advance,
           \A c \in Callers : \A i \in queue'[c] : i \in queue[c] \/ item'[i] # "absent"
    PROVE  Existing'
<1>1. \A c \in Callers : queue[c] \subseteq Item
  BY DEF IInv, BatchTypeOK
<1>2. \A c \in Callers : \A i \in queue'[c] : item'[i] # "absent"
  BY <1>1 DEF IInv, Existing, Advance
<1>3. \A i \in Item : item'[i] # "absent" => i[2] \in ActiveAccounts
  BY DEF IInv, Existing, Advance
<1> QED BY <1>2, <1>3 DEF Existing

LEMMA JournalKeeps ==
    ASSUME IInv, Advance, journal' = journal
    PROVE  ItemTellsLedger'
  BY DEF IInv, ItemTellsLedger, Advance

\* A step of a run or an operator.
LEMMA CallerStep ==
    ASSUME IInv, NEW c \in Callers, Advance, linked' = linked, working' = working,
           LedgerInvOf(Posters)', BatchTypeOK', ItemTellsLedger',
           \A p \in Sessions \ {c} : pc'[p] = pc[p] /\ entry'[p] = entry[p],
           \A d \in Callers \ {c} : queue'[d] = queue[d],
           \A i \in queue'[c] : i \in queue[c] \/ item'[i] # "absent",
           \A r \in Runs \ {c} :
              /\ run'[r] = run[r] /\ counted'[r] = counted[r] /\ done'[r] = done[r]
              /\ rows'[r] = rows[r] /\ snapshot'[r] = snapshot[r] /\ Undisturbed(r),
           c \in Runs => Items(c)' /\ Control(c)' /\ Tally(c)' /\ Bulk(c)'
    PROVE  IInv'
<1>1. ASSUME NEW r \in Runs \ {c} PROVE Items(r)' /\ Control(r)' /\ Tally(r)' /\ Bulk(r)'
  <2>1. r \in Callers \ {c} /\ r \in Sessions \ {c}
    BY Assumptions
  <2>2. \A w \in Pool : pc'[w] = pc[w]
    BY Assumptions
  <2>3. \A i : InHand(r, i) => InHand(r, i)'
    BY <2>1 DEF InHand
  <2>4. Items(r)' /\ Control(r)' /\ Tally(r)'
    BY <2>1, <2>2, <2>3, RunKeeps
  <2>5. Bulk(r)'
    BY <2>1, BulkKeeps
  <2> QED BY <2>4, <2>5
<1>2. \A w \in Pool : Worker(w)'
  BY Assumptions, WorkerKeeps
<1>3. \A p \in Payers : Payer(p)'
  BY Assumptions, PayerKeeps
<1>4. Existing'
  BY ExistingKeeps
<1> QED BY <1>1, <1>2, <1>3, <1>4 DEF IInv

\* A step of a worker.
LEMMA WorkerStep ==
    ASSUME IInv, NEW w \in Pool, Advance, UNCHANGED runVars,
           LedgerInvOf(Posters)', BatchTypeOK', ItemTellsLedger', Worker(w)',
           Caller[w] \in Runs => pc[Caller[w]] \in {"pool", "dead"},
           \A p \in Sessions \ {w} : pc'[p] = pc[p] /\ entry'[p] = entry[p],
           \A v \in Pool \ {w} : working'[v] = working[v],
           \A c \in Callers \ {Caller[w]} : queue'[c] = queue[c],
           queue'[Caller[w]] \subseteq queue[Caller[w]],
           \A i \in Item : InHand(Caller[w], i) => item'[i] \in Settled \/ InHand(Caller[w], i)',
           \A r \in Runs : Undisturbed(r)
    PROVE  IInv'
<1>1. ASSUME NEW r \in Runs PROVE Items(r)' /\ Control(r)' /\ Tally(r)' /\ Bulk(r)'
  <2>1. r \in Callers /\ r \in Sessions \ {w}
    BY Assumptions
  <2>2. Caller[w] # r => \A i : InHand(r, i) => InHand(r, i)'
    BY <2>1 DEF InHand
  <2>3. Caller[w] # r => queue'[r] = queue[r] /\ \A v \in Pool : Caller[v] = r => pc'[v] = pc[v]
    BY <2>1, Assumptions
  <2>4. /\ linked' = linked /\ run'[r] = run[r] /\ counted'[r] = counted[r] /\ done'[r] = done[r]
        /\ snapshot'[r] = snapshot[r] /\ rows'[r] = rows[r] /\ pc'[r] = pc[r]
    BY <2>1 DEF runVars
  <2>5. \A a \in ActiveAccounts : <<r, a>> \in Item
    BY PlaceIs, Assumptions
  <2>6. Items(r)' /\ Control(r)' /\ Tally(r)'
    BY <2>2, <2>3, <2>4, <2>5, RunKeeps
  <2>7. Bulk(r)'
    BY <2>4, BulkKeeps
  <2> QED BY <2>6, <2>7
<1>2. \A v \in Pool \ {w} : Worker(v)'
  BY Assumptions, WorkerKeeps
<1>3. \A p \in Payers : Payer(p)'
  BY Assumptions, PayerKeeps
<1>4. Existing'
  BY ExistingKeeps
<1> QED BY <1>1, <1>2, <1>3, <1>4 DEF IInv

\* A step of a payer.
LEMMA PayerStep ==
    ASSUME IInv, NEW p \in Payers, UNCHANGED <<runVars, poolVars, item, retries, reopened>>,
           LedgerInvOf(Posters)', BatchTypeOK', ItemTellsLedger', Payer(p)',
           \A q \in Sessions \ {p} : pc'[q] = pc[q] /\ entry'[q] = entry[q],
           \A r \in Runs : Undisturbed(r)
    PROVE  IInv'
<1>0. Advance
  BY DEF Advance
<1>1. ASSUME NEW r \in Runs PROVE Items(r)' /\ Control(r)' /\ Tally(r)' /\ Bulk(r)'
  <2>1. r \in Callers /\ r \in Sessions \ {p}
    BY Assumptions
  <2>2. \A i : InHand(r, i) => InHand(r, i)'
    BY DEF InHand, poolVars
  <2>3. \A v \in Pool : pc'[v] = pc[v]
    BY Assumptions
  <2>4. /\ linked' = linked /\ run'[r] = run[r] /\ counted'[r] = counted[r] /\ done'[r] = done[r]
        /\ snapshot'[r] = snapshot[r] /\ rows'[r] = rows[r] /\ pc'[r] = pc[r]
        /\ queue' = queue
    BY <2>1 DEF runVars, poolVars
  <2>5. Items(r)' /\ Control(r)' /\ Tally(r)'
    BY <1>0, <2>2, <2>3, <2>4, RunKeeps
  <2>6. Bulk(r)'
    BY <2>4, BulkKeeps
  <2> QED BY <2>5, <2>6
<1>2. \A v \in Pool : Worker(v)'
  BY <1>0, Assumptions, WorkerKeeps DEF poolVars
<1>3. \A q \in Payers \ {p} : Payer(q)'
  BY Assumptions, PayerKeeps
<1>4. Existing'
  BY <1>0, ExistingKeeps DEF poolVars
<1> QED BY <1>1, <1>2, <1>3, <1>4 DEF IInv

-----------------------------------------------------------------------------
(* Runs.                                                                   *)

\* The steps of a caller that touch neither the ledger nor the items.
LEMMA QuietCallerStep ==
    ASSUME IInv, NEW c \in Callers,
           UNCHANGED <<ledgerVars, linked, item, working, reopened>>, BatchTypeOK',
           \A p \in Sessions \ {c} : pc'[p] = pc[p],
           \A d \in Callers \ {c} : queue'[d] = queue[d],
           \A i \in queue'[c] : i \in queue[c] \/ item[i] # "absent",
           \A r \in Runs \ {c} :
              /\ run'[r] = run[r] /\ counted'[r] = counted[r] /\ done'[r] = done[r]
              /\ rows'[r] = rows[r] /\ snapshot'[r] = snapshot[r],
           c \in Runs => Items(c)' /\ Control(c)' /\ Tally(c)' /\ Bulk(c)'
    PROVE  IInv'
<1>1. Advance
  BY DEF Advance
<1>2. LedgerInvOf(Posters)'
  BY LedgerStutterInv, Assumptions DEF IInv
<1>3. ItemTellsLedger'
  BY <1>1, JournalKeeps DEF ledgerVars
<1>4. entry' = entry /\ \A r \in Runs : Undisturbed(r)
  BY DEF ledgerVars, sessionVars, Undisturbed
<1> QED BY <1>1, <1>2, <1>3, <1>4, CallerStep

LEMMA StartRunInv == ASSUME IInv, NEW r \in Runs, StartRun(r) PROVE IInv'
<1> BatchTypeOK /\ Items(r) /\ Control(r) /\ Tally(r) /\ Bulk(r) /\ r \in Callers /\ r \in Sessions
  BY Assumptions DEF IInv
<1>1. /\ pc[r] = "idle" /\ pc' = [pc EXCEPT ![r] = "findAccounts"]
      /\ run' = [run EXCEPT ![r] = "RUNNING"]
      /\ UNCHANGED <<ledgerVars, linked, snapshot, done, rows, counted, poolVars, item, retries, history>>
  BY DEF StartRun, Goto
<1>2. UNCHANGED <<queue, working, interest, reopened, faults, newBalance>>
  BY <1>1 DEF poolVars, history, ledgerVars, sessionVars
<1>3. BatchTypeOK'
  BY <1>1, <1>2, ChunksStay DEF BatchTypeOK, PC, RunPC
<1>4. pc'[r] = "findAccounts" /\ run'[r] = "RUNNING" /\ \A w \in Pool : pc'[w] = pc[w]
  BY <1>1, Assumptions DEF BatchTypeOK
<1>5. Items(r)' /\ Control(r)'
  BY <1>1, <1>2, <1>4 DEF Items, Control, Ended, RunPC
<1>6. Tally(r)' /\ Bulk(r)'
  BY <1>1, <1>2, <1>4 DEF Tally, Bulk, NothingWritten
<1> QED BY <1>1, <1>2, <1>3, <1>5, <1>6, QuietCallerStep DEF BatchTypeOK

LEMMA FindAccountsInv == ASSUME IInv, NEW r \in Runs, FindAccounts(r) PROVE IInv'
<1> BatchTypeOK /\ Items(r) /\ Control(r) /\ Tally(r) /\ Bulk(r) /\ r \in Callers /\ r \in Sessions
  BY Assumptions DEF IInv
<1>1. /\ pc[r] = "findAccounts" /\ pc' = [pc EXCEPT ![r] = "createItems"]
      /\ snapshot' = [snapshot EXCEPT ![r] = projection]
      /\ UNCHANGED <<ledgerVars, linked, run, done, rows, counted, poolVars, item, retries, history>>
  BY DEF FindAccounts, Goto
<1>2. UNCHANGED <<queue, working, interest, reopened, faults, newBalance>>
  BY <1>1 DEF poolVars, history, ledgerVars, sessionVars
<1>3. projection \in [Accounts -> Int]
  BY DEF IInv, LedgerInvOf, LedgerTypeOK
<1>4. BatchTypeOK'
  BY <1>1, <1>2, <1>3, ChunksStay DEF BatchTypeOK, PC, RunPC
<1>5. pc'[r] = "createItems" /\ \A w \in Pool : pc'[w] = pc[w]
  BY <1>1, Assumptions DEF BatchTypeOK
<1>6. Items(r)' /\ Control(r)'
  BY <1>1, <1>2, <1>5 DEF Items, Control, Ended, RunPC
<1>7. Tally(r)' /\ Bulk(r)'
  BY <1>1, <1>2, <1>5 DEF Tally, Bulk, NothingWritten
<1> QED BY <1>1, <1>2, <1>4, <1>6, <1>7, QuietCallerStep DEF BatchTypeOK

LEMMA CreateItemsInv == ASSUME IInv, NEW r \in Runs, CreateItems(r) PROVE IInv'
<1> BatchTypeOK /\ Items(r) /\ Control(r) /\ Tally(r) /\ Bulk(r) /\ r \in Callers /\ r \in Sessions
  BY Assumptions DEF IInv
<1>1. /\ pc[r] = "createItems" /\ pc' = [pc EXCEPT ![r] = "pool"]
      /\ item' = [i \in Item |-> IF i[1] = r /\ i[2] \in ActiveAccounts THEN "PENDING" ELSE item[i]]
      /\ queue' = [queue EXCEPT ![r] = {<<r, a>> : a \in ActiveAccounts \ linked}]
      /\ UNCHANGED <<ledgerVars, runVars, working, interest, retries, history>>
  BY DEF CreateItems, Goto
<1>2. UNCHANGED <<linked, run, snapshot, done, rows, counted, reopened, faults, newBalance, entry, journal>>
  BY <1>1 DEF runVars, history, ledgerVars, sessionVars
<1>3. \A a \in ActiveAccounts : a \in Accounts /\ <<r, a>> \in Item /\ item'[<<r, a>>] = "PENDING"
  BY <1>1, PlaceIs, Assumptions
<1>4. BatchTypeOK'
  <2>1. item' \in [Item -> {"absent", "PENDING", "COMPLETED", "FAILED"}]
    BY <1>1 DEF BatchTypeOK
  <2>2. queue' \in [Callers -> SUBSET Item]
    <3>1. PICK q \in SUBSET Item : q = {<<r, a>> : a \in ActiveAccounts \ linked}
      BY <1>3
    <3>2. queue' = [queue EXCEPT ![r] = q]
      BY <1>1, <3>1
    <3> QED BY <3>2 DEF BatchTypeOK
  <2>3. pc' \in [Sessions -> PC]
    BY <1>1 DEF BatchTypeOK, PC, RunPC
  <2> QED BY <1>1, <1>2, <2>1, <2>2, <2>3, ChunksStay DEF BatchTypeOK
<1>5. pc'[r] = "pool" /\ (\A w \in Pool : pc'[w] = pc[w])
      /\ queue'[r] = {<<r, a>> : a \in ActiveAccounts \ linked}
  BY <1>1, Assumptions DEF BatchTypeOK
<1>6. Advance
  <2>1. ASSUME NEW i \in Item, i[1] = r PROVE item[i] = "absent"
    BY <1>1, <2>1, Assumptions DEF Items
  <2>2. \A i \in Item : (i[1] = r /\ i[2] \in ActiveAccounts) \/ item'[i] = item[i]
    BY <1>1
  <2> QED BY <1>2, <1>5, <2>1, <2>2 DEF Advance, Settled
<1>7. \A i \in queue'[r] : item'[i] # "absent"
  BY <1>3, <1>5
<1>8. Items(r)'
  <2>1. ASSUME NEW a \in ActiveAccounts PROVE InHand(r, <<r, a>>)' \/ a \in Ahead(r)'
    <3>1. CASE a \in linked
      <4>1. done[r] = 0 /\ Ahead(r)' = Ahead(r)
        BY <1>1, <1>2, ChunksStay DEF Control
      <4>2. Ahead(r) = {Processable[n] : n \in 1 .. Len(Processable)}
        BY <4>1 DEF Ahead
      <4> QED BY <3>1, <4>1, <4>2, ProcessableIs
    <3>2. CASE a \notin linked
      BY <1>5, <3>2 DEF InHand
    <3> QED BY <3>1, <3>2
  <2> QED BY <1>1, <1>2, <1>3, <1>5, <2>1 DEF Items, Control, Ended
<1>9. Control(r)' /\ Tally(r)' /\ Bulk(r)'
  BY <1>1, <1>2, <1>5 DEF Control, Ended, RunPC, Tally, Bulk, NothingWritten
<1>10. LedgerInvOf(Posters)'
  BY <1>1, LedgerStutterInv, Assumptions DEF IInv
<1>11. ItemTellsLedger'
  BY <1>2, <1>6, JournalKeeps
<1>12. \A q \in Runs : Undisturbed(q)
  BY <1>1 DEF Undisturbed, ledgerVars, sessionVars
<1>13. /\ \A p \in Sessions \ {r} : pc'[p] = pc[p] /\ entry'[p] = entry[p]
       /\ \A d \in Callers \ {r} : queue'[d] = queue[d]
  BY <1>1, <1>2 DEF BatchTypeOK
<1> QED BY <1>1, <1>2, <1>4, <1>6, <1>7, <1>8, <1>9, <1>10, <1>11, <1>12, <1>13, CallerStep

\* How many items of a run are in a status: as many as there are active accounts
\* at most.
LEMMA InStatusIs ==
    ASSUME IInv, NEW r \in Runs, NEW s \in Settled
    PROVE  /\ IsFiniteSet(InStatus(r, s))
           /\ Cardinality(InStatus(r, s)) \in 0 .. Len(ById)
           /\ InStatus(r, s) \subseteq Item
           /\ \A i \in InStatus(r, s) : item[i] # "absent"
<1>1. PICK f : f = [a \in ActiveAccounts |-> <<r, a>>]
  OBVIOUS
<1>2. PICK T : T = {<<r, a>> : a \in ActiveAccounts}
  OBVIOUS
<1>3. f \in Surjection(ActiveAccounts, T)
  BY <1>1, <1>2 DEF Surjection
<1>4. IsFiniteSet(T) /\ Cardinality(T) <= Cardinality(ActiveAccounts)
  BY <1>3, PlaceIs, FS_Surjection
<1>5. InStatus(r, s) \in SUBSET T
  <2> SUFFICES ASSUME NEW i \in InStatus(r, s) PROVE i \in T
    OBVIOUS
  <2>1. i \in Item /\ i[1] = r /\ item[i] # "absent"
    BY DEF InStatus, Settled
  <2>2. i[2] \in ActiveAccounts /\ i = <<r, i[2]>>
    BY <2>1, Assumptions DEF IInv, Existing
  <2> QED BY <1>2, <2>2
<1>6. IsFiniteSet(InStatus(r, s)) /\ Cardinality(InStatus(r, s)) <= Cardinality(T)
  BY <1>4, <1>5, FS_Subset
<1>7. /\ Cardinality(InStatus(r, s)) \in Nat /\ Cardinality(T) \in Nat
      /\ Cardinality(ActiveAccounts) \in Nat
  BY <1>4, <1>6, PlaceIs, FS_CardinalityType
<1>8. Cardinality(InStatus(r, s)) \in 0 .. Len(ById)
  BY <1>4, <1>6, <1>7, PlaceIs
<1>9. InStatus(r, s) \subseteq Item /\ \A i \in InStatus(r, s) : item[i] # "absent"
  BY DEF InStatus, Settled
<1> QED BY <1>6, <1>8, <1>9

LEMMA CountInv == ASSUME IInv, NEW r \in Runs, Count(r) PROVE IInv'
<1> BatchTypeOK /\ Items(r) /\ Control(r) /\ Tally(r) /\ Bulk(r) /\ r \in Callers /\ r \in Sessions
  BY Assumptions DEF IInv
<1>1. PICK s \in {"COMPLETED", "FAILED"} :
         /\ pc[r] = "count" /\ counted[r][s] = None
         /\ counted' = [counted EXCEPT ![r][s] = Cardinality(InStatus(r, s))]
  BY DEF Count
<1>2. PICK n \in 0 .. Len(ById) : n = Cardinality(InStatus(r, s))
  BY InStatusIs DEF Settled
<1>3. UNCHANGED <<ledgerVars, linked, run, snapshot, done, rows, poolVars, item, pc, retries, history>>
  BY DEF Count
<1>4. UNCHANGED <<queue, working, interest, reopened, faults, newBalance>>
  BY <1>3 DEF poolVars, history, ledgerVars, sessionVars
<1>5. counted' = [counted EXCEPT ![r][s] = n]
  BY <1>1, <1>2
<1>6. counted' \in [Runs -> [{"COMPLETED", "FAILED"} -> 0 .. Len(ById) \cup {None}]]
  BY <1>5 DEF BatchTypeOK
<1>7. BatchTypeOK'
  BY <1>3, <1>4, <1>6, ChunksStay DEF BatchTypeOK
<1>8. Items(r)'
  <2>1. Ahead(r)' = Ahead(r) /\ (\A i : InHand(r, i)' <=> InHand(r, i)) /\ Ended(r)' = Ended(r)
    BY <1>3, <1>4, ChunksStay DEF InHand, Ended
  <2> QED BY <1>1, <1>3, <2>1 DEF Items
<1>9. Control(r)'
  BY <1>3, <1>4 DEF Control, Ended
<1>10. Tally(r)'
  <2>1. CASE s = "FAILED"
    <3>1. counted'[r]["FAILED"] = n
      BY <1>5, <2>1 DEF BatchTypeOK
    <3>2. ASSUME n = 0, NEW a \in ActiveAccounts PROVE item[<<r, a>>] = "COMPLETED"
      <4>1. InStatus(r, "FAILED") = {}
        BY <1>2, <2>1, <3>2, InStatusIs, FS_EmptySet DEF Settled
      <4>2. PICK i \in Item : i = <<r, a>> /\ i[1] = r
        BY Assumptions, PlaceIs
      <4>3. item[i] # "FAILED"
        BY <4>1, <4>2 DEF InStatus
      <4> QED BY <1>1, <4>2, <4>3 DEF Items, Settled
    <3>3. run[r] # "COMPLETED"
      BY <1>1 DEF Control, Ended
    <3> QED BY <1>1, <1>3, <1>4, <3>1, <3>2, <3>3 DEF Tally
  <2>2. CASE s # "FAILED"
    <3>1. counted'[r]["FAILED"] = counted[r]["FAILED"]
      BY <1>5, <2>2 DEF BatchTypeOK
    <3> QED BY <1>3, <1>4, <3>1 DEF Tally
  <2> QED BY <2>1, <2>2
<1>11. Bulk(r)'
  BY <1>1, <1>3, <1>4 DEF Bulk, NothingWritten
<1>12. \A q \in Runs \ {r} : counted'[q] = counted[q]
  BY <1>5 DEF BatchTypeOK
<1> QED BY <1>3, <1>4, <1>7, <1>8, <1>9, <1>10, <1>11, <1>12, QuietCallerStep

LEMMA FinishRunInv == ASSUME IInv, NEW r \in Runs, FinishRun(r) PROVE IInv'
<1> BatchTypeOK /\ Items(r) /\ Control(r) /\ Tally(r) /\ Bulk(r) /\ r \in Callers /\ r \in Sessions
  BY Assumptions DEF IInv
<1>1. /\ pc[r] = "count" /\ pc' = [pc EXCEPT ![r] = "audit"]
      /\ run' = [run EXCEPT ![r] = FinalStatus(r)]
      /\ UNCHANGED <<ledgerVars, linked, snapshot, done, rows, counted, poolVars, item, retries, history>>
  BY DEF FinishRun, Goto
<1>2. UNCHANGED <<queue, working, interest, reopened, faults, newBalance>>
  BY <1>1 DEF poolVars, history, ledgerVars, sessionVars
<1>3. PICK s \in {"COMPLETED", "PARTIALLY_FAILED", "FAILED"} :
         s = FinalStatus(r) /\ (s = "COMPLETED" => counted[r]["FAILED"] = 0)
  BY DEF FinalStatus
<1>4. run' = [run EXCEPT ![r] = s]
  BY <1>1, <1>3
<1>5. BatchTypeOK'
  BY <1>1, <1>2, <1>4, ChunksStay DEF BatchTypeOK, PC, RunPC
<1>6. pc'[r] = "audit" /\ run'[r] = s /\ \A w \in Pool : pc'[w] = pc[w]
  BY <1>1, <1>4, Assumptions DEF BatchTypeOK
<1>7. Items(r)' /\ Control(r)'
  BY <1>1, <1>2, <1>6 DEF Items, Control, Ended, RunPC
<1>8. Tally(r)' /\ Bulk(r)'
  BY <1>1, <1>2, <1>3, <1>6 DEF Tally, Bulk, NothingWritten
<1> QED BY <1>1, <1>2, <1>4, <1>5, <1>7, <1>8, QuietCallerStep DEF BatchTypeOK

LEMMA RetryInv == ASSUME IInv, NEW o \in Operators, Retry(o) PROVE IInv'
<1> BatchTypeOK /\ o \in Callers /\ o \in Sessions /\ o \notin Runs /\ MaxRetries \in Nat
  BY Assumptions, BatchAssumption DEF IInv, BatchAssumption
<1>1. PICK r \in Runs :
         /\ retries[o] < MaxRetries
         /\ retries' = [retries EXCEPT ![o] = @ + 1]
         /\ queue' = [queue EXCEPT ![o] = InStatus(r, "FAILED")]
         /\ pc' = [pc EXCEPT ![o] = "pool"]
         /\ UNCHANGED <<ledgerVars, runVars, working, interest, item, history>>
  BY DEF Retry, Goto
<1>2. UNCHANGED <<linked, run, snapshot, done, rows, counted, reopened, faults>>
  BY <1>1 DEF runVars, history
<1>3. InStatus(r, "FAILED") \subseteq Item /\ \A i \in InStatus(r, "FAILED") : item[i] # "absent"
  BY InStatusIs DEF Settled
<1>4. retries[o] + 1 \in 0 .. MaxRetries
  BY <1>1 DEF BatchTypeOK
<1>5. BatchTypeOK'
  BY <1>1, <1>2, <1>3, <1>4, ChunksStay DEF BatchTypeOK, PC, RunPC
<1>6. queue'[o] = InStatus(r, "FAILED")
  BY <1>1 DEF BatchTypeOK
<1> QED BY <1>1, <1>2, <1>3, <1>5, <1>6, QuietCallerStep DEF BatchTypeOK

\* A step of a caller to another statement, of which nothing else depends.
LEMMA AuditInv == ASSUME IInv, NEW c \in Callers, Audit(c) PROVE IInv'
<1> BatchTypeOK /\ c \in Sessions /\ (c \in Runs => Items(c) /\ Control(c) /\ Tally(c) /\ Bulk(c))
  BY Assumptions DEF IInv
<1>1. PICK label \in {"done", "idle"} :
         /\ label = "done" <=> c \in Runs
         /\ pc' = [pc EXCEPT ![c] = label]
  BY DEF Audit, Goto
<1>2. pc[c] = "audit" /\ UNCHANGED <<ledgerVars, runVars, poolVars, item, retries, history>>
  BY DEF Audit
<1>3. UNCHANGED <<linked, run, snapshot, done, rows, counted, queue, working, interest, reopened,
                  faults, newBalance>>
  BY <1>2 DEF runVars, poolVars, history, ledgerVars, sessionVars
<1>4. BatchTypeOK'
  BY <1>1, <1>2, <1>3, ChunksStay DEF BatchTypeOK, PC, RunPC
<1>5. pc'[c] = label /\ \A w \in Pool : pc'[w] = pc[w]
  BY <1>1, Assumptions DEF BatchTypeOK
<1>6. ASSUME c \in Runs PROVE Items(c)' /\ Control(c)' /\ Tally(c)' /\ Bulk(c)'
  BY <1>1, <1>2, <1>3, <1>5, <1>6
     DEF Items, Control, Ended, RunPC, Tally, Bulk, NothingWritten
<1> QED BY <1>1, <1>2, <1>3, <1>4, <1>6, QuietCallerStep DEF BatchTypeOK

LEMMA RejectInv == ASSUME IInv, NEW c \in Callers, Reject(c) PROVE IInv'
<1> BatchTypeOK /\ c \in Sessions /\ (c \in Runs => Items(c) /\ Control(c) /\ Tally(c) /\ Bulk(c))
    /\ MaxFaults \in Nat
  BY Assumptions, BatchAssumption DEF IInv, BatchAssumption
<1>1. /\ pc[c] \in {"findAccounts", "createItems", "pool", "count", "audit"}
      /\ pc' = [pc EXCEPT ![c] = "dead"]
      /\ faults < MaxFaults /\ faults' = faults + 1
      /\ UNCHANGED <<ledgerVars, runVars, poolVars, item, retries, reopened>>
  BY DEF Reject, Goto, Fault
<1>2. UNCHANGED <<linked, run, snapshot, done, rows, counted, queue, working, interest, newBalance>>
  BY <1>1 DEF runVars, poolVars, ledgerVars, sessionVars
<1>3. faults' \in 0 .. MaxFaults
  BY <1>1 DEF BatchTypeOK
<1>4. BatchTypeOK'
  BY <1>1, <1>2, <1>3, ChunksStay DEF BatchTypeOK, PC, RunPC
<1>5. pc'[c] = "dead" /\ \A w \in Pool : pc'[w] = pc[w]
  BY <1>1, Assumptions DEF BatchTypeOK
<1>6. ASSUME c \in Runs PROVE Items(c)' /\ Control(c)' /\ Tally(c)' /\ Bulk(c)'
  <2>1. Ended(c)' = Ended(c)
    BY <1>2 DEF Ended
  <2> QED BY <1>1, <1>2, <1>5, <1>6, <2>1
          DEF Items, Control, Ended, RunPC, Tally, Bulk, NothingWritten
<1> QED BY <1>1, <1>2, <1>4, <1>6, QuietCallerStep DEF BatchTypeOK

\* When its workers have returned, a run has nothing left in hand: what is not
\* settled is in the chunks ahead.
LEMMA PoolDoneInv == ASSUME IInv, NEW c \in Callers, PoolDone(c) PROVE IInv'
<1> BatchTypeOK /\ c \in Sessions /\ (c \in Runs => Items(c) /\ Control(c) /\ Tally(c) /\ Bulk(c))
  BY Assumptions DEF IInv
<1>1. PICK label \in {"audit", "chunk", "count"} :
         /\ c \in Runs => label = IF done[c] < Len(Processable) THEN "chunk" ELSE "count"
         /\ pc' = [pc EXCEPT ![c] = label]
  BY Assumptions DEF PoolDone, Goto
<1>2. /\ pc[c] = "pool" /\ queue[c] = {} /\ \A w \in Pool : Caller[w] = c => pc[w] = "idle"
      /\ UNCHANGED <<ledgerVars, runVars, poolVars, item, retries, history>>
  BY DEF PoolDone
<1>3. UNCHANGED <<linked, run, snapshot, done, rows, counted, queue, working, interest, reopened,
                  faults, newBalance>>
  BY <1>2 DEF runVars, poolVars, history, ledgerVars, sessionVars
<1>4. BatchTypeOK'
  BY <1>1, <1>2, <1>3, ChunksStay DEF BatchTypeOK, PC, RunPC
<1>5. pc'[c] = label /\ \A w \in Pool : pc'[w] = pc[w]
  BY <1>1, Assumptions DEF BatchTypeOK
<1>6. ASSUME c \in Runs PROVE Items(c)' /\ Control(c)' /\ Tally(c)' /\ Bulk(c)'
  <2>1. \A a \in ActiveAccounts : ~ InHand(c, <<c, a>>)
    <3>1. \A w \in Pool : Caller[w] = c => working[w] = None
      BY <1>2 DEF IInv, Worker
    <3>2. \A a \in ActiveAccounts : <<c, a>> # None
      BY <1>6, PlaceIs, Assumptions
    <3> QED BY <1>2, <3>1, <3>2 DEF InHand
  <2>2. Ahead(c)' = Ahead(c) /\ Ended(c)' = Ended(c) /\ ~ Ended(c)
    BY <1>2, <1>3, <1>6, ChunksStay DEF Ended, Control
  <2>3. label = "count" => Ahead(c) = {}
    BY <1>1, <1>6, ProcessableIs DEF Ahead, BatchTypeOK
  <2>4. Items(c)'
    BY <1>1, <1>2, <1>3, <1>5, <1>6, <2>1, <2>2, <2>3 DEF Items
  <2>5. Control(c)'
    BY <1>1, <1>2, <1>3, <1>5, <1>6, <2>2 DEF Control, RunPC
  <2>6. Tally(c)' /\ Bulk(c)'
    BY <1>1, <1>2, <1>3, <1>5, <1>6 DEF Tally, Bulk, NothingWritten
  <2> QED BY <2>4, <2>5, <2>6
<1> QED BY <1>1, <1>2, <1>3, <1>4, <1>6, QuietCallerStep DEF BatchTypeOK

-----------------------------------------------------------------------------
(* Chunks.                                                                 *)

LEMMA BeginChunkInv == ASSUME IInv, NEW r \in Runs, BeginChunk(r) PROVE IInv'
<1> BatchTypeOK /\ Items(r) /\ Control(r) /\ Tally(r) /\ Bulk(r) /\ r \in Callers /\ r \in Sessions
    /\ LedgerInvOf(Posters) /\ Posters \in SUBSET Sessions
  BY Assumptions DEF IInv
<1>1. PICK locks : locks = {CauseRow(i) : i \in ItemsOf(r, Chunk(r))}
  OBVIOUS
<1>2. /\ pc[r] = "chunk" /\ pc' = [pc EXCEPT ![r] = "upsert"]
      /\ \A row \in locks : Free(r, row)
      /\ held' = [held EXCEPT ![r] = @ \cup locks]
      /\ rows' = [rows EXCEPT ![r] = InterestRows(r)]
      /\ UNCHANGED <<projection, journal, overwritten, sessionVars, linked, run, snapshot, done,
                     counted, poolVars, item, audit, retries, history>>
  BY <1>1 DEF BeginChunk, Goto
<1>3. UNCHANGED <<queue, working, interest, reopened, faults, newBalance, entry, todo, balanceRead>>
  BY <1>2 DEF poolVars, history, sessionVars
<1>4. done[r] \in 0 .. Len(Processable)
  BY DEF BatchTypeOK
<1>5. locks \subseteq Row
  <2>1. \A a \in Range(Chunk(r)) : <<r, a>> \in Item
    BY <1>4, ChunkIs, PlaceIs, Assumptions DEF Range
  <2>2. ItemsOf(r, Chunk(r)) \subseteq Causes
    BY <2>1, BatchAssumption DEF ItemsOf, BatchAssumption
  <2> QED BY <1>1, <2>2 DEF CauseRow, Row
<1>6. LedgerInvOf(Posters)'
  <2>1. LedgerTypeOK'
    BY <1>2, <1>3, <1>5 DEF LedgerInvOf, LedgerTypeOK
  <2>2. LocksExclusive'
    BY <1>2 DEF LedgerInvOf, LedgerTypeOK, LocksExclusive, Free
  <2>3. \A p \in Posters : Quiet(p)' /\ WellOpened(p)'
    BY <1>3 DEF LedgerInvOf, Quiet, WellOpened, Postable, PostingAccount
  <2>4. \A p \in Posters, a \in Accounts : Written(p, a)'
    BY <1>2, <1>3 DEF LedgerInvOf, Written, Effect
  <2>5. \A p \in Sessions, a \in Accounts : Locked(p, a)'
    <3>1. \A p \in Sessions : held[p] \subseteq held'[p]
      BY <1>2 DEF LedgerInvOf, LedgerTypeOK
    <3> QED BY <1>3, <3>1 DEF LedgerInvOf, Locked, ProjectionRow
  <2> QED BY <2>1, <2>2, <2>3, <2>4, <2>5 DEF LedgerInvOf
<1>7. PICK s \in Seq(Earning(r)) :
         /\ s = InterestRows(r)
         /\ \A n \in DOMAIN s : s[n] \in Earning(r)
         /\ \A a \in Earning(r) : \E n \in DOMAIN s : s[n] = a
  BY <1>4, EarningIs, InOrderIs DEF InterestRows
<1>8. rows' = [rows EXCEPT ![r] = s] /\ rows'[r] = s /\ pc'[r] = "upsert"
      /\ \A w \in Pool : pc'[w] = pc[w]
  BY <1>2, <1>7, Assumptions DEF BatchTypeOK
<1>9. BatchTypeOK'
  <2>1. s \in Seq(linked)
    BY <1>4, EarningIs, SeqMonotonic
  <2>2. rows' \in [Runs -> Seq(linked)]
    BY <1>8, <2>1 DEF BatchTypeOK
  <2>3. pc' \in [Sessions -> PC]
    BY <1>2 DEF BatchTypeOK, PC, RunPC
  <2> QED BY <1>2, <1>3, <2>2, <2>3, ChunksStay DEF BatchTypeOK
<1>10. Ahead(r)' = Ahead(r) /\ Ended(r)' = Ended(r) /\ Earning(r)' = Earning(r)
       /\ \A i : InHand(r, i)' <=> InHand(r, i)
  BY <1>2, <1>3, ChunksStay DEF Ended, InHand
<1>11. Items(r)' /\ Control(r)' /\ Tally(r)'
  BY <1>2, <1>3, <1>8, <1>10 DEF Items, Control, Tally, RunPC
<1>12. Bulk(r)'
  <2>1. \A a \in Accounts : newBalance'[r][a] = None
    BY <1>2, <1>3 DEF Bulk, NothingWritten
  <2> QED BY <1>7, <1>8, <1>10, <2>1 DEF Bulk
<1>13. Advance
  BY <1>2, <1>3 DEF Advance
<1>14. ItemTellsLedger'
  BY <1>2, <1>13, JournalKeeps
<1>15. \A q \in Runs : Undisturbed(q)
  BY <1>2, <1>3 DEF Undisturbed
<1>16. /\ \A p \in Sessions \ {r} : pc'[p] = pc[p] /\ entry'[p] = entry[p]
       /\ \A q \in Runs \ {r} : rows'[q] = rows[q]
  BY <1>2, <1>3, <1>8 DEF BatchTypeOK
<1> QED BY <1>2, <1>3, <1>6, <1>9, <1>11, <1>12, <1>13, <1>14, <1>15, <1>16, CallerStep

\* Head and tail of a sequence that is not empty.
LEMMA TailIs ==
    ASSUME NEW S, NEW s \in Seq(S), s # <<>>
    PROVE  /\ Head(s) \in S /\ \E n \in DOMAIN s : s[n] = Head(s)
           /\ Tail(s) \in Seq(S)
           /\ \A n \in DOMAIN Tail(s) : \E m \in DOMAIN s : s[m] = Tail(s)[n]
           /\ \A m \in DOMAIN s : s[m] = Head(s) \/ \E n \in DOMAIN Tail(s) : Tail(s)[n] = s[m]
<1>1. PICK k \in Nat : k = Len(s) /\ DOMAIN s = 1 .. k /\ s \in [1 .. k -> S]
  BY LenProperties
<1>2. k # 0
  BY <1>1, EmptySeq
<1>3. PICK t \in Seq(S) : t = Tail(s) /\ Len(t) = k - 1 /\ \A n \in 1 .. k - 1 : t[n] = s[n + 1]
  <2>1. PICK t \in Seq(S) : t = Tail(s)
    BY HeadTailProperties
  <2>2. Len(Tail(s)) = Len(s) - 1 /\ \A n \in 1 .. Len(Tail(s)) : Tail(s)[n] = s[n + 1]
    BY HeadTailProperties
  <2>3. Len(t) = k - 1 /\ \A n \in 1 .. Len(t) : t[n] = s[n + 1]
    BY <1>1, <2>1, <2>2
  <2> QED BY <2>1, <2>3
<1>4. DOMAIN t = 1 .. k - 1
  BY <1>1, <1>2, <1>3, LenProperties
<1>5. Head(s) = s[1] /\ 1 \in 1 .. k /\ Head(s) \in S
  BY <1>1, <1>2, HeadTailProperties
<1>6. \A n \in DOMAIN t : \E m \in DOMAIN s : s[m] = t[n]
  <2> SUFFICES ASSUME NEW n \in 1 .. k - 1 PROVE \E m \in 1 .. k : s[m] = t[n]
    BY <1>1, <1>4
  <2>1. n + 1 \in 1 .. k
    BY <1>1
  <2> QED BY <1>3, <2>1
<1>7. \A m \in DOMAIN s : s[m] = Head(s) \/ \E n \in DOMAIN t : t[n] = s[m]
  <2> SUFFICES ASSUME NEW m \in 1 .. k, m # 1 PROVE \E n \in 1 .. k - 1 : t[n] = s[m]
    BY <1>1, <1>4, <1>5
  <2>1. PICK n \in 1 .. k - 1 : n + 1 = m
    <3>1. m - 1 \in 1 .. k - 1 /\ (m - 1) + 1 = m
      BY <1>1
    <3> QED BY <3>1
  <2> QED BY <1>3, <2>1
<1> QED BY <1>1, <1>3, <1>5, <1>6, <1>7

LEMMA UpsertRowInv == ASSUME IInv, NEW r \in Runs, UpsertRow(r) PROVE IInv'
<1> BatchTypeOK /\ Items(r) /\ Control(r) /\ Tally(r) /\ Bulk(r) /\ r \in Callers /\ r \in Sessions
    /\ LedgerInvOf(Posters) /\ Posters \in SUBSET Sessions /\ r \notin Posters
  BY Assumptions DEF IInv
<1>1. PICK b : b = Head(rows[r])
  OBVIOUS
<1>2. /\ pc[r] = "upsert" /\ rows[r] # <<>> /\ rows' = [rows EXCEPT ![r] = Tail(rows[r])]
      /\ Acquire(r, ProjectionRow(b))
      /\ newBalance' = [newBalance EXCEPT ![r][b] = RunningBalance(r, b)]
      /\ overwritten' = overwritten \cup {c \in {b} : projection[c] # snapshot[r][c]}
      /\ UNCHANGED <<projection, journal, entry, todo, balanceRead, linked, run, snapshot, done,
                     counted, poolVars, item, audit, pc, retries, history>>
  BY <1>1 DEF UpsertRow
<1>3. UNCHANGED <<queue, working, interest, reopened, faults>>
  BY <1>2 DEF poolVars, history
<1>4. PICK s \in Seq(linked) : s = rows[r]
  BY DEF BatchTypeOK
<1>5. PICK t \in Seq(linked) :
         /\ t = Tail(rows[r])
         /\ \E n \in DOMAIN s : s[n] = b
         /\ \A n \in DOMAIN t : \E m \in DOMAIN s : s[m] = t[n]
         /\ \A m \in DOMAIN s : s[m] = b \/ \E n \in DOMAIN t : t[n] = s[m]
  <2>1. PICK S : S = linked
    OBVIOUS
  <2>2. s \in Seq(S) /\ s # <<>> /\ b = Head(s)
    BY <1>1, <1>2, <1>4, <2>1
  <2>3. /\ Head(s) \in S /\ \E n \in DOMAIN s : s[n] = Head(s)
        /\ Tail(s) \in Seq(S)
        /\ \A n \in DOMAIN Tail(s) : \E m \in DOMAIN s : s[m] = Tail(s)[n]
        /\ \A m \in DOMAIN s : s[m] = Head(s) \/ \E n \in DOMAIN Tail(s) : Tail(s)[n] = s[m]
    BY <2>2, TailIs
  <2>4. PICK t : t = Tail(s)
    OBVIOUS
  <2> QED BY <1>4, <2>1, <2>2, <2>3, <2>4
<1>6. rows' = [rows EXCEPT ![r] = t] /\ rows'[r] = t
  BY <1>2, <1>5 DEF BatchTypeOK
<1>7. b \in Earning(r) /\ b \in Accounts
  BY <1>2, <1>4, <1>5, EarningIs, PlaceIs DEF Bulk, BatchTypeOK
<1>8. PICK balance \in Int : balance = RunningBalance(r, b)
  <2>1. snapshot[r][b] \in Int
    BY <1>7 DEF BatchTypeOK
  <2> QED BY <2>1, InterestTyped DEF RunningBalance
<1>9. balance # None
  BY Assumptions
<1>10. newBalance' = [newBalance EXCEPT ![r][b] = balance]
  BY <1>2, <1>8
<1>11. /\ newBalance'[r][b] = balance
       /\ \A a \in Accounts \ {b} : newBalance'[r][a] = newBalance[r][a]
       /\ \A p \in Sessions \ {r} : newBalance'[p] = newBalance[p]
       /\ newBalance' \in [Sessions -> [Accounts -> Int \cup {None}]]
  BY <1>7, <1>10 DEF LedgerInvOf, LedgerTypeOK
<1>12. overwritten \subseteq overwritten' /\ overwritten' \subseteq Accounts
       /\ (b \notin overwritten' => projection[b] = snapshot[r][b])
  BY <1>2, <1>7 DEF LedgerInvOf, LedgerTypeOK
<1>13. LedgerInvOf(Posters)'
  <2>1. ProjectionRow(b) \in Row
    BY <1>7 DEF ProjectionRow, Row
  <2>2. held' = [held EXCEPT ![r] = @ \cup {ProjectionRow(b)}] /\ Free(r, ProjectionRow(b))
    BY <1>2 DEF Acquire
  <2>3. LedgerTypeOK'
    BY <1>2, <1>11, <1>12, <2>1, <2>2 DEF LedgerInvOf, LedgerTypeOK
  <2>4. LocksExclusive'
    BY <2>2 DEF LedgerInvOf, LedgerTypeOK, LocksExclusive, Free
  <2>5. \A p \in Posters : newBalance'[p] = newBalance[p]
    BY <1>11
  <2>6. \A p \in Posters : Quiet(p)' /\ WellOpened(p)'
    BY <1>2, <2>5 DEF LedgerInvOf, Quiet, WellOpened, Postable, PostingAccount, NothingWritten
  <2>7. \A p \in Posters, a \in Accounts : Written(p, a)'
    BY <1>2, <1>12, <2>5 DEF LedgerInvOf, Written, Effect
  <2>8. \A p \in Sessions, a \in Accounts : Locked(p, a)'
    <3>1. \A p \in Sessions : held[p] \subseteq held'[p]
      BY <2>2 DEF LedgerInvOf, LedgerTypeOK
    <3>2. ProjectionRow(b) \in held'[r]
      BY <2>2 DEF LedgerInvOf, LedgerTypeOK
    <3> QED BY <1>11, <3>1, <3>2 DEF LedgerInvOf, Locked, ProjectionRow
  <2> QED BY <2>3, <2>4, <2>6, <2>7, <2>8 DEF LedgerInvOf
<1>14. BatchTypeOK'
  <2>1. rows' \in [Runs -> Seq(linked)]
    BY <1>6 DEF BatchTypeOK
  <2> QED BY <1>2, <1>3, <2>1, ChunksStay DEF BatchTypeOK
<1>15. /\ Ahead(r)' = Ahead(r) /\ Ended(r)' = Ended(r) /\ Earning(r)' = Earning(r)
       /\ \A i : InHand(r, i)' <=> InHand(r, i)
       /\ \A a \in Accounts : RunningBalance(r, a)' = RunningBalance(r, a)
  BY <1>2, <1>3, ChunksStay DEF Ended, InHand
<1>16. Items(r)' /\ Control(r)' /\ Tally(r)'
  BY <1>2, <1>3, <1>15 DEF Items, Control, Tally
<1>17. Bulk(r)'
  <2>1. \A n \in DOMAIN rows'[r] : rows'[r][n] \in Earning(r)'
    BY <1>2, <1>4, <1>5, <1>6, <1>15 DEF Bulk
  <2>2. ASSUME NEW a \in Earning(r), newBalance'[r][a] = None
        PROVE  \E n \in DOMAIN rows'[r] : rows'[r][n] = a
    <3>1. a # b /\ a \in Accounts
      BY <1>9, <1>11, <2>2, EarningIs, PlaceIs DEF BatchTypeOK
    <3>2. \E n \in DOMAIN s : s[n] = a
      BY <1>2, <1>4, <1>11, <2>2, <3>1 DEF Bulk
    <3> QED BY <1>5, <1>6, <3>1, <3>2
  <2>3. ASSUME NEW a \in Accounts, newBalance'[r][a] # None
        PROVE  /\ a \in Earning(r)
               /\ newBalance'[r][a] = RunningBalance(r, a)
               /\ a \notin overwritten' => projection'[a] = snapshot'[r][a]
    <3>1. CASE a = b
      BY <1>2, <1>7, <1>8, <1>11, <1>12, <3>1
    <3>2. CASE a # b
      BY <1>2, <1>11, <1>12, <2>3, <3>2 DEF Bulk
    <3> QED BY <3>1, <3>2
  <2> QED BY <1>2, <1>15, <2>1, <2>2, <2>3 DEF Bulk
<1>18. Advance
  BY <1>2, <1>3 DEF Advance
<1>19. ItemTellsLedger'
  BY <1>2, <1>18, JournalKeeps
<1>20. \A q \in Runs \ {r} : rows'[q] = rows[q] /\ Undisturbed(q)
  <2>1. \A q \in Runs \ {r} : q \in Sessions \ {r}
    BY Assumptions
  <2> QED BY <1>2, <1>6, <1>11, <1>12, <2>1 DEF BatchTypeOK, Undisturbed
<1> QED BY <1>2, <1>3, <1>13, <1>14, <1>16, <1>17, <1>18, <1>19, <1>20, CallerStep

\* The items of a chunk are items of the run that exist.
LEMMA ItemsOfIs ==
    ASSUME IInv, NEW r \in Runs
    PROVE  /\ ItemsOf(r, Chunk(r)) \subseteq Item
           /\ \A a : <<r, a>> \in ItemsOf(r, Chunk(r)) <=> a \in Range(Chunk(r))
           /\ Range(Chunk(r)) \subseteq Ahead(r) /\ Range(Chunk(r)) \subseteq ActiveAccounts
           /\ \A i \in ItemsOf(r, Chunk(r)) : i[1] = r /\ i[2] \in Ahead(r) /\ i = <<r, i[2]>>
           /\ pc[r] \in {"chunk", "upsert"} => \A i \in ItemsOf(r, Chunk(r)) : item[i] # "absent"
<1>1. done[r] \in 0 .. Len(Processable)
  BY DEF IInv, BatchTypeOK
<1>2. PICK later : later = {Processable[n] : n \in done[r] + Len(Chunk(r)) + 1 .. Len(Processable)}
  OBVIOUS
<1>3. Range(Chunk(r)) \subseteq Ahead(r) /\ Ahead(r) \subseteq ActiveAccounts \cap linked
  BY <1>1, <1>2, AheadIs
<1>4. \A a \in Range(Chunk(r)) : <<r, a>> \in Item /\ a \in ActiveAccounts
  BY <1>3, PlaceIs, Assumptions
<1>5. pc[r] \in {"chunk", "upsert"} => \A a \in Range(Chunk(r)) : item[<<r, a>>] # "absent"
  BY <1>4 DEF IInv, Items
<1> QED BY <1>3, <1>4, <1>5 DEF ItemsOf

\* A run goes on with its next chunk, and has left no item of the last one
\* behind.
LEMMA NextChunkInv ==
    ASSUME IInv, NEW r \in Runs, NEW failed \in BOOLEAN, NextChunk(r, failed),
           pc[r] \in {"chunk", "upsert"},
           UNCHANGED <<linked, run, snapshot, counted, working, reopened>>, Advance,
           ~ failed => \A i \in ItemsOf(r, Chunk(r)) : item'[i] = "COMPLETED",
           newBalance'[r] = NothingWritten
    PROVE  /\ Items(r)' /\ Control(r)' /\ Tally(r)' /\ Bulk(r)'
           /\ pc' \in [Sessions -> PC]
           /\ queue' \in [Callers -> SUBSET Item]
           /\ done' \in [Runs -> 0 .. Len(Processable)]
           /\ rows' \in [Runs -> Seq(linked)]
           /\ \A p \in Sessions \ {r} : pc'[p] = pc[p]
           /\ \A c \in Callers \ {r} : queue'[c] = queue[c]
           /\ \A i \in queue'[r] : item'[i] # "absent"
           /\ \A q \in Runs \ {r} : done'[q] = done[q] /\ rows'[q] = rows[q]
<1> BatchTypeOK /\ Items(r) /\ Control(r) /\ Tally(r) /\ Bulk(r) /\ r \in Callers /\ r \in Sessions
  BY Assumptions DEF IInv
<1>1. PICK I \in SUBSET Item : I = ItemsOf(r, Chunk(r))
  BY ItemsOfIs
<1>2. PICK N \in Nat : N = Len(Processable)
  BY ProcessableIs
<1>3. PICK d \in 0 .. N : d = done[r] + Len(Chunk(r))
  BY <1>2, ChunkIs DEF BatchTypeOK
<1>4. /\ queue' = [queue EXCEPT ![r] = IF failed THEN I ELSE {}]
      /\ done' = [done EXCEPT ![r] = d]
      /\ rows' = [rows EXCEPT ![r] = <<>>]
      /\ pc' = [pc EXCEPT ![r] = "pool"]
  BY <1>1, <1>3 DEF NextChunk, Goto
<1>5. /\ pc' \in [Sessions -> PC]
      /\ queue' \in [Callers -> SUBSET Item]
      /\ done' \in [Runs -> 0 .. Len(Processable)]
      /\ rows' \in [Runs -> Seq(linked)]
  BY <1>1, <1>2, <1>4 DEF BatchTypeOK, PC, RunPC
<1>6. /\ pc'[r] = "pool" /\ queue'[r] = (IF failed THEN I ELSE {}) /\ done'[r] = d /\ rows'[r] = <<>>
      /\ \A p \in Sessions \ {r} : pc'[p] = pc[p]
      /\ \A c \in Callers \ {r} : queue'[c] = queue[c]
      /\ \A q \in Runs \ {r} : done'[q] = done[q] /\ rows'[q] = rows[q]
  BY <1>4 DEF BatchTypeOK
<1>7. \A i \in queue'[r] : item'[i] # "absent"
  BY <1>1, <1>6, ItemsOfIs DEF Advance
<1>8. PICK later : later = {Processable[n] : n \in d + 1 .. N}
  OBVIOUS
<1>9. Ahead(r)' = later
  <2>1. Processable' = Processable
    BY ChunksStay
  <2> QED BY <1>2, <1>6, <1>8, <2>1 DEF Ahead
<1>10. \A a \in Ahead(r) : a \in Range(Chunk(r)) \/ a \in later
  <2>1. done[r] \in 0 .. Len(Processable)
    BY DEF BatchTypeOK
  <2>2. later = {Processable[n] : n \in done[r] + Len(Chunk(r)) + 1 .. Len(Processable)}
    BY <1>2, <1>3, <1>8
  <2> QED BY <2>1, <2>2, AheadIs
<1>11. ~ Ended(r) /\ ~ Ended(r)'
  BY DEF Control, Ended
<1>12. ASSUME NEW a \in ActiveAccounts
       PROVE  /\ item'[<<r, a>>] # "absent"
              /\ item'[<<r, a>>] \in Settled \/ InHand(r, <<r, a>>)' \/ a \in Ahead(r)'
  <2>1. PICK i \in Item : i = <<r, a>> /\ i # None
    BY PlaceIs, Assumptions
  <2>2. ~ InHand(r, i)
    BY <2>1 DEF InHand, Control, IInv, Worker
  <2>3. item[i] # "absent" /\ (item[i] \in Settled \/ a \in Ahead(r))
    BY <2>1, <2>2 DEF Items
  <2>4. CASE item[i] \in Settled
    BY <2>1, <2>4 DEF Advance, Settled
  <2>5. CASE a \in Range(Chunk(r))
    <3>1. i \in I
      BY <1>1, <2>1, <2>5, ItemsOfIs
    <3>2. CASE failed
      BY <1>6, <2>1, <2>3, <3>1, <3>2 DEF InHand, Advance
    <3>3. CASE ~ failed
      BY <1>1, <2>1, <2>3, <3>1, <3>3 DEF Advance, Settled
    <3> QED BY <3>2, <3>3
  <2>6. CASE a \in later
    BY <1>9, <2>1, <2>3, <2>6 DEF Advance
  <2> QED BY <1>10, <2>3, <2>4, <2>5, <2>6
<1>13. Items(r)'
  BY <1>6, <1>11, <1>12 DEF Items
<1>14. Control(r)'
  BY <1>6, <1>11 DEF Control, RunPC
<1>15. Tally(r)' /\ Bulk(r)'
  BY <1>6 DEF Tally, Bulk, NothingWritten
<1> QED BY <1>5, <1>6, <1>7, <1>13, <1>14, <1>15

LEMMA FailChunkInv ==
    ASSUME IInv, NEW r \in Runs, FailChunk(r), faults' \in 0 .. MaxFaults
    PROVE  IInv'
<1> BatchTypeOK /\ r \in Callers /\ r \in Sessions /\ LedgerInvOf(Posters) /\ Posters \in SUBSET Sessions
    /\ TRUE \in BOOLEAN
  BY Assumptions DEF IInv
<1>1. /\ pc[r] \in {"chunk", "upsert"} /\ RollbackEntry(r) /\ NextChunk(r, TRUE)
      /\ UNCHANGED <<linked, run, snapshot, counted, working, interest, item, retries, reopened>>
  BY DEF FailChunk
<1>2. Advance
  BY <1>1 DEF Advance
<1>3. /\ newBalance'[r] = NothingWritten
      /\ \A p \in Sessions \ {r} : entry'[p] = entry[p] /\ newBalance'[p] = newBalance[p]
      /\ projection' = projection /\ journal' = journal /\ overwritten' = overwritten
  BY <1>1 DEF LedgerInvOf, LedgerTypeOK, RollbackEntry, EndTransaction
<1>4. /\ Items(r)' /\ Control(r)' /\ Tally(r)' /\ Bulk(r)'
      /\ pc' \in [Sessions -> PC]
      /\ queue' \in [Callers -> SUBSET Item]
      /\ done' \in [Runs -> 0 .. Len(Processable)]
      /\ rows' \in [Runs -> Seq(linked)]
      /\ \A p \in Sessions \ {r} : pc'[p] = pc[p]
      /\ \A c \in Callers \ {r} : queue'[c] = queue[c]
      /\ \A i \in queue'[r] : item'[i] # "absent"
      /\ \A q \in Runs \ {r} : done'[q] = done[q] /\ rows'[q] = rows[q]
  BY <1>1, <1>2, <1>3, NextChunkInv
<1>5. BatchTypeOK'
  BY <1>1, <1>4, ChunksStay DEF BatchTypeOK
<1>6. LedgerInvOf(Posters)'
  BY <1>1, RollbackEntryInv
<1>7. ItemTellsLedger'
  BY <1>2, <1>3, JournalKeeps
<1>8. \A q \in Runs \ {r} : Undisturbed(q)
  BY <1>3, Assumptions DEF Undisturbed
<1> QED BY <1>1, <1>2, <1>3, <1>4, <1>5, <1>6, <1>7, <1>8, CallerStep

\* A position of two sequences put together is one of the first or of the second.
LEMMA ConcatIs ==
    ASSUME NEW S, NEW s \in Seq(S), NEW t \in Seq(S)
    PROVE  /\ s \o t \in Seq(S)
           /\ DOMAIN s \subseteq DOMAIN (s \o t)
           /\ \A n \in DOMAIN (s \o t) :
                 \/ n \in DOMAIN s /\ (s \o t)[n] = s[n]
                 \/ n \notin DOMAIN s /\ \E m \in DOMAIN t : n = Len(s) + m /\ (s \o t)[n] = t[m]
           /\ \A m \in DOMAIN t :
                 Len(s) + m \in DOMAIN (s \o t) \ DOMAIN s /\ (s \o t)[Len(s) + m] = t[m]
<1>1. PICK j \in Nat : j = Len(s) /\ DOMAIN s = 1 .. j
  BY LenProperties
<1>2. PICK k \in Nat : k = Len(t) /\ DOMAIN t = 1 .. k
  BY LenProperties
<1>3. PICK u : u = s \o t
  OBVIOUS
<1>4. /\ u \in Seq(S) /\ Len(u) = j + k
      /\ \A i \in 1 .. j + k : u[i] = IF i <= j THEN s[i] ELSE t[i - j]
  <2>1. /\ s \o t \in Seq(S) /\ Len(s \o t) = Len(s) + Len(t)
        /\ \A i \in 1 .. Len(s) + Len(t) : (s \o t)[i] = IF i <= Len(s) THEN s[i] ELSE t[i - Len(s)]
    BY ConcatProperties
  <2> QED BY <1>1, <1>2, <1>3, <2>1
<1>5. DOMAIN u = 1 .. j + k
  BY <1>4, LenProperties
<1>6. ASSUME NEW n \in DOMAIN u
      PROVE  \/ n \in DOMAIN s /\ u[n] = s[n]
             \/ n \notin DOMAIN s /\ \E m \in DOMAIN t : n = j + m /\ u[n] = t[m]
  <2>1. n \in 1 .. j + k
    BY <1>5
  <2>2. CASE n <= j
    BY <1>1, <1>4, <2>1, <2>2
  <2>3. CASE n > j
    <3>1. n - j \in 1 .. k /\ n = j + (n - j) /\ n \notin 1 .. j /\ ~ (n <= j)
      BY <2>1, <2>3
    <3>2. u[n] = t[n - j]
      BY <1>4, <2>1, <3>1
    <3> QED BY <1>1, <1>2, <3>1, <3>2
  <2> QED BY <2>1, <2>2, <2>3
<1>7. ASSUME NEW m \in DOMAIN t PROVE j + m \in DOMAIN u \ DOMAIN s /\ u[j + m] = t[m]
  <2>1. m \in 1 .. k
    BY <1>2
  <2>2. j + m \in 1 .. j + k /\ ~ (j + m <= j) /\ (j + m) - j = m /\ j + m \notin 1 .. j
    BY <2>1
  <2>3. u[j + m] = t[(j + m) - j]
    BY <1>4, <2>2
  <2> QED BY <1>1, <1>5, <2>2, <2>3
<1>8. DOMAIN s \subseteq DOMAIN u
  BY <1>1, <1>5
<1> QED BY <1>1, <1>3, <1>4, <1>6, <1>7, <1>8

LEMMA CommitChunkInv == ASSUME IInv, NEW r \in Runs, CommitChunk(r) PROVE IInv'
<1> BatchTypeOK /\ r \in Callers /\ r \in Sessions /\ LedgerInvOf(Posters) /\ Posters \in SUBSET Sessions
  BY Assumptions DEF IInv
<1>1. PICK I \in SUBSET Item : I = ItemsOf(r, Chunk(r))
  BY ItemsOfIs
<1>2. PICK es \in Seq(Entry) :
         es = ChunkEntries(r) /\ \A n \in DOMAIN es : \E a \in Earning(r) : es[n] = Earned(r, a)
  BY ChunkEntriesAre DEF BatchTypeOK
<1>3. /\ pc[r] = "upsert"
      /\ projection' = [a \in Accounts |->
                           IF newBalance[r][a] = None THEN projection[a] ELSE newBalance[r][a]]
      /\ journal' = journal \o es
      /\ item' = [i \in Item |-> IF i \in I THEN "COMPLETED" ELSE item[i]]
      /\ EndTransaction(r)
      /\ UNCHANGED <<overwritten, linked, run, snapshot, counted, working, interest, retries>>
  BY <1>1, <1>2 DEF CommitChunk
<1>4. PICK failed \in BOOLEAN : NextChunk(r, failed) /\ reopened' = reopened /\ faults' \in 0 .. MaxFaults
  <2>1. CASE NextChunk(r, FALSE) /\ UNCHANGED history
    BY <2>1 DEF history, BatchTypeOK
  <2>2. CASE NextChunk(r, TRUE) /\ Fault /\ UNCHANGED reopened
    <3>1. faults' \in 0 .. MaxFaults
      BY <2>2, BatchAssumption DEF Fault, BatchTypeOK, BatchAssumption
    <3> QED BY <2>2, <3>1
  <2> QED BY <2>1, <2>2 DEF CommitChunk
<1>5. Advance
  <2>1. \A i \in I : item[i] # "absent"
    BY <1>1, <1>3, ItemsOfIs
  <2> QED BY <1>3, <1>4, <2>1 DEF Advance, Settled
<1>6. /\ newBalance'[r] = NothingWritten
      /\ \A p \in Sessions \ {r} : entry'[p] = entry[p] /\ newBalance'[p] = newBalance[p]
  BY <1>3 DEF LedgerInvOf, LedgerTypeOK, EndTransaction
<1>7. \A i \in ItemsOf(r, Chunk(r)) : item'[i] = "COMPLETED"
  BY <1>1, <1>3
<1>8. /\ Items(r)' /\ Control(r)' /\ Tally(r)' /\ Bulk(r)'
      /\ pc' \in [Sessions -> PC]
      /\ queue' \in [Callers -> SUBSET Item]
      /\ done' \in [Runs -> 0 .. Len(Processable)]
      /\ rows' \in [Runs -> Seq(linked)]
      /\ \A p \in Sessions \ {r} : pc'[p] = pc[p]
      /\ \A c \in Callers \ {r} : queue'[c] = queue[c]
      /\ \A i \in queue'[r] : item'[i] # "absent"
      /\ \A q \in Runs \ {r} : done'[q] = done[q] /\ rows'[q] = rows[q]
  BY <1>3, <1>4, <1>5, <1>6, <1>7, NextChunkInv
<1>9. BatchTypeOK'
  <2>1. item' \in [Item -> {"absent", "PENDING", "COMPLETED", "FAILED"}]
    BY <1>3 DEF BatchTypeOK
  <2> QED BY <1>3, <1>4, <1>8, <2>1, ChunksStay DEF BatchTypeOK
<1>10. /\ projection' \in [Accounts -> Int]
       /\ \A q \in Sessions \ {r}, a \in Accounts :
             newBalance[q][a] # None => projection'[a] = projection[a]
  BY <1>3, CommitMovesOwn
<1>11. journal \in Seq(Entry)
  BY DEF LedgerInvOf, LedgerTypeOK
<1>12. LedgerInvOf(Posters)'
  <2>1. journal' \in Seq(Entry)
    BY <1>2, <1>3, <1>11, ConcatIs
  <2> QED BY <1>3, <1>10, <2>1, EndTransactionInv
<1>13. ItemTellsLedger'
  <2> SUFFICES ASSUME NEW n \in DOMAIN journal', journal'[n].cause \in Item \ reopened
               PROVE  item'[journal'[n].cause] = "COMPLETED"
    BY <1>4 DEF ItemTellsLedger
  <2>1. CASE n \in DOMAIN journal /\ journal'[n] = journal[n]
    BY <1>3, <2>1 DEF IInv, ItemTellsLedger
  <2>2. ASSUME NEW m \in DOMAIN es, journal'[n] = es[m]
        PROVE  item'[journal'[n].cause] = "COMPLETED"
    <3>1. PICK a \in Earning(r) : es[m] = Earned(r, a)
      BY <1>2
    <3>2. Earned(r, a).cause = <<r, a>>
      BY EarnedIs DEF BatchTypeOK
    <3>3. <<r, a>> \in I
      BY <1>1, EarningIs, ItemsOfIs DEF BatchTypeOK
    <3> QED BY <1>3, <2>2, <3>1, <3>2, <3>3
  <2>3. (n \in DOMAIN journal /\ journal'[n] = journal[n]) \/ \E m \in DOMAIN es : journal'[n] = es[m]
    BY <1>2, <1>3, <1>11, ConcatIs
  <2> QED BY <2>1, <2>2, <2>3
<1>14. \A q \in Runs \ {r} : Undisturbed(q)
  BY <1>3, <1>6, <1>10, Assumptions DEF Undisturbed
<1> QED BY <1>3, <1>5, <1>6, <1>8, <1>9, <1>12, <1>13, <1>14, CallerStep

-----------------------------------------------------------------------------
(* Workers.                                                                *)

\* A step that a worker or a payer takes in the ledger.
LEMMA PosterFrame ==
    ASSUME IInv, NEW p \in Posters, LedgerStep(p)
    PROVE  /\ LedgerInvOf(Posters)'
           /\ \A q \in Sessions \ {p} : entry'[q] = entry[q]
           /\ \A r \in Runs : Undisturbed(r)
<1> LedgerInvOf(Posters) /\ Posters \in SUBSET Sessions /\ p \in Sessions
  BY Assumptions DEF IInv
<1>1. LedgerInvOf(Posters)'
  BY LedgerStepInv
<1>2. \A q \in Sessions \ {p} : entry'[q] = entry[q]
  BY LedgerStepFrame
<1>3. overwritten \subseteq overwritten' /\ \A q \in Sessions \ {p} : newBalance'[q] = newBalance[q]
  <2>1. ASSUME NEW e, OpenEntry(p, e)
        PROVE  overwritten \subseteq overwritten' /\ newBalance' = newBalance
    BY <2>1 DEF OpenEntry
  <2>2. ASSUME UpsertProjection(p)
        PROVE  overwritten \subseteq overwritten' /\ \A q \in Sessions \ {p} : newBalance'[q] = newBalance[q]
    BY <2>2 DEF UpsertProjection, LedgerInvOf, LedgerTypeOK
  <2>3. ASSUME CommitEntry(p) \/ RollbackEntry(p)
        PROVE  overwritten' = overwritten /\ \A q \in Sessions \ {p} : newBalance'[q] = newBalance[q]
    BY <2>3 DEF CommitEntry, RollbackEntry, EndTransaction, LedgerInvOf, LedgerTypeOK
  <2> QED BY <2>1, <2>2, <2>3 DEF LedgerStep, ReadProjection, sessionVars
<1>4. \A q \in Sessions \ {p}, a \in Accounts :
         newBalance[q][a] # None => projection'[a] = projection[a]
  <2>1. CASE CommitEntry(p)
    BY <2>1, CommitMovesOwn DEF CommitEntry
  <2>2. CASE projection' = projection
    BY <2>2
  <2> QED BY <2>1, <2>2 DEF LedgerStep, OpenEntry, ReadProjection, UpsertProjection, RollbackEntry
<1>5. \A r \in Runs : r \in Sessions \ {p}
  BY Assumptions
<1> QED BY <1>1, <1>2, <1>3, <1>4, <1>5 DEF Undisturbed

LEMMA LedgerRests ==
    ASSUME NEW p \in Sessions, UNCHANGED ledgerVars
    PROVE  LedgerStep(p)
  BY DEF LedgerStep, CallerLocks, ledgerVars

\* A run whose worker is at work waits for its pool, or has died.
LEMMA PoolAtWork ==
    ASSUME IInv, NEW w \in Pool, pc[w] # "idle" \/ queue[Caller[w]] # {}
    PROVE  Caller[w] \in Runs => pc[Caller[w]] \in {"pool", "dead"}
  BY DEF IInv, Control

\* What a worker has done with its item, it has no longer in hand.
LEMMA ItemDoneIs ==
    ASSUME IInv, NEW w \in Pool, ItemDone(w)
    PROVE  /\ pc' \in [Sessions -> PC] /\ pc'[w] = "idle"
           /\ working' \in [Pool -> Item \cup {None}] /\ working'[w] = None
           /\ interest' \in [Pool -> Int]
           /\ \A p \in Sessions \ {w} : pc'[p] = pc[p]
           /\ \A v \in Pool \ {w} : working'[v] = working[v]
           /\ queue' = queue /\ UNCHANGED <<runVars, retries>>
           /\ UNCHANGED <<linked, run, snapshot, done, rows, counted>>
           /\ \A i : InHand(Caller[w], i) => i = working[w] \/ InHand(Caller[w], i)'
<1> BatchTypeOK /\ w \in Sessions
  BY Assumptions DEF IInv
<1>1. /\ pc' = [pc EXCEPT ![w] = "idle"]
      /\ working' = [working EXCEPT ![w] = None]
      /\ interest' = [interest EXCEPT ![w] = 0]
      /\ queue' = queue /\ UNCHANGED <<runVars, retries>>
  BY DEF ItemDone, Goto
<1>2. /\ pc' \in [Sessions -> PC] /\ pc'[w] = "idle"
      /\ working' \in [Pool -> Item \cup {None}] /\ working'[w] = None
      /\ interest' \in [Pool -> Int]
      /\ \A p \in Sessions \ {w} : pc'[p] = pc[p]
      /\ \A v \in Pool \ {w} : working'[v] = working[v]
  BY <1>1 DEF BatchTypeOK, PC, WorkerPC
<1>3. \A i : InHand(Caller[w], i) => i = working[w] \/ InHand(Caller[w], i)'
  BY <1>1, <1>2 DEF InHand
<1>4. UNCHANGED <<linked, run, snapshot, done, rows, counted>>
  BY <1>1 DEF runVars
<1> QED BY <1>1, <1>2, <1>3, <1>4

LEMMA TakeItemInv == ASSUME IInv, NEW w \in Pool, TakeItem(w) PROVE IInv'
<1> BatchTypeOK /\ Worker(w) /\ w \in Sessions /\ w \in Posters /\ Caller[w] \in Callers
  BY Assumptions DEF IInv
<1>1. PICK i \in queue[Caller[w]] :
         /\ pc[w] = "idle" /\ pc' = [pc EXCEPT ![w] = "readItem"]
         /\ queue' = [queue EXCEPT ![Caller[w]] = @ \ {i}]
         /\ working' = [working EXCEPT ![w] = i]
         /\ UNCHANGED <<ledgerVars, runVars, interest, item, retries, history>>
  BY DEF TakeItem, Goto
<1>2. UNCHANGED <<linked, run, snapshot, done, rows, counted, reopened, faults, journal, entry>>
  BY <1>1 DEF runVars, history, ledgerVars, sessionVars
<1>3. i \in Item /\ item[i] # "absent"
  BY DEF BatchTypeOK, IInv, Existing
<1>4. BatchTypeOK'
  BY <1>1, <1>2, <1>3, ChunksStay DEF BatchTypeOK, PC, WorkerPC
<1>5. /\ pc'[w] = "readItem" /\ working'[w] = i
      /\ \A p \in Sessions \ {w} : pc'[p] = pc[p]
      /\ \A v \in Pool \ {w} : working'[v] = working[v]
      /\ \A c \in Callers \ {Caller[w]} : queue'[c] = queue[c]
      /\ queue'[Caller[w]] = queue[Caller[w]] \ {i}
  BY <1>1 DEF BatchTypeOK
<1>6. Advance
  BY <1>1, <1>2 DEF Advance
<1>7. Worker(w)'
  BY <1>1, <1>2, <1>3, <1>5 DEF Worker, WorkerPC
<1>8. LedgerStep(w)
  BY <1>1, LedgerRests
<1>9. ItemTellsLedger'
  BY <1>2, <1>6, JournalKeeps
<1>10. Caller[w] \in Runs => pc[Caller[w]] \in {"pool", "dead"}
  BY PoolAtWork
<1>11. working[w] = None
  BY <1>1 DEF Worker
<1>12. \A j \in Item : InHand(Caller[w], j) => item'[j] \in Settled \/ InHand(Caller[w], j)'
  <2> SUFFICES ASSUME NEW j \in Item, InHand(Caller[w], j) PROVE InHand(Caller[w], j)'
    OBVIOUS
  <2>1. CASE j = i
    BY <1>5, <2>1 DEF InHand
  <2>2. CASE j \in queue[Caller[w]] /\ j # i
    BY <1>5, <2>2 DEF InHand
  <2>3. ASSUME NEW v \in Pool, Caller[v] = Caller[w], working[v] = j
        PROVE  InHand(Caller[w], j)'
    <3>1. v # w
      BY <1>11, <2>3, Assumptions
    <3> QED BY <1>5, <2>3, <3>1 DEF InHand
  <2> QED BY <2>1, <2>2, <2>3 DEF InHand
<1> QED BY <1>1, <1>4, <1>5, <1>6, <1>7, <1>8, <1>9, <1>10, <1>12, PosterFrame, WorkerStep

LEMMA ReadItemInv == ASSUME IInv, NEW w \in Pool, ReadItem(w) PROVE IInv'
<1> BatchTypeOK /\ Worker(w) /\ w \in Sessions /\ w \in Posters /\ Caller[w] \in Callers
  BY Assumptions DEF IInv
<1>1. pc[w] = "readItem" /\ UNCHANGED <<ledgerVars, item, history>>
  BY DEF ReadItem
<1>2. UNCHANGED <<reopened, faults, journal, entry>>
  BY <1>1 DEF history, ledgerVars, sessionVars
<1>3. Advance
  BY <1>1, <1>2 DEF Advance
<1>4. LedgerStep(w) /\ ItemTellsLedger'
  BY <1>1, <1>2, <1>3, LedgerRests, JournalKeeps
<1>5. Caller[w] \in Runs => pc[Caller[w]] \in {"pool", "dead"}
  BY <1>1, PoolAtWork
<1>6. entry'[w] = None
  BY <1>1, <1>2 DEF Worker
<1>7. CASE item[working[w]] = "COMPLETED" /\ ItemDone(w)
  <2>1. BatchTypeOK'
    BY <1>1, <1>2, <1>7, ItemDoneIs, ChunksStay DEF BatchTypeOK
  <2>2. Worker(w)'
    BY <1>6, <1>7, ItemDoneIs DEF Worker, WorkerPC
  <2>3. \A i \in Item : InHand(Caller[w], i) => item'[i] \in Settled \/ InHand(Caller[w], i)'
    BY <1>1, <1>7, ItemDoneIs DEF Settled
  <2> QED BY <1>3, <1>4, <1>5, <1>7, <2>1, <2>2, <2>3, ItemDoneIs, PosterFrame, WorkerStep
<1>8. CASE pc' = [pc EXCEPT ![w] = "readAccount"] /\ UNCHANGED <<runVars, poolVars, retries>>
  <2>1. UNCHANGED <<linked, run, snapshot, done, rows, counted, queue, working, interest>>
    BY <1>8 DEF runVars, poolVars
  <2>2. BatchTypeOK'
    BY <1>1, <1>2, <1>8, <2>1, ChunksStay DEF BatchTypeOK, PC, WorkerPC
  <2>3. pc'[w] = "readAccount" /\ \A p \in Sessions \ {w} : pc'[p] = pc[p]
    BY <1>8 DEF BatchTypeOK
  <2>4. Worker(w)'
    BY <1>1, <1>6, <2>1, <2>3 DEF Worker, WorkerPC
  <2>5. \A i : InHand(Caller[w], i)' <=> InHand(Caller[w], i)
    BY <2>1 DEF InHand
  <2> QED BY <1>3, <1>4, <1>5, <1>8, <2>1, <2>2, <2>3, <2>4, <2>5, PosterFrame, WorkerStep
<1> QED BY <1>7, <1>8 DEF ReadItem, Goto

\* A worker goes on to another statement of its item, with no entry or with one
\* of the item.
LEMMA WorkerGoesOn ==
    ASSUME IInv, NEW w \in Pool, pc[w] # "idle", LedgerStep(w),
           NEW label \in WorkerPC \ {"idle"}, pc' = [pc EXCEPT ![w] = label],
           UNCHANGED <<runVars, queue, working, item, retries, reopened>>, journal' = journal,
           interest' \in [Pool -> Int], faults' \in 0 .. MaxFaults,
           label # "dead" => pc[w] # "dead",
           entry'[w] = None \/ (label = "post" /\ entry'[w].cause = working[w])
    PROVE  IInv'
<1> BatchTypeOK /\ Worker(w) /\ w \in Sessions /\ w \in Posters /\ Caller[w] \in Callers
  BY Assumptions DEF IInv
<1>1. UNCHANGED <<linked, run, snapshot, done, rows, counted>>
  BY DEF runVars
<1>2. BatchTypeOK'
  BY <1>1, ChunksStay DEF BatchTypeOK, PC
<1>3. pc'[w] = label /\ \A p \in Sessions \ {w} : pc'[p] = pc[p]
  BY DEF BatchTypeOK
<1>4. Worker(w)'
  BY <1>3 DEF Worker
<1>5. Advance
  BY DEF Advance
<1>6. ItemTellsLedger'
  BY <1>5, JournalKeeps
<1>7. Caller[w] \in Runs => pc[Caller[w]] \in {"pool", "dead"}
  BY PoolAtWork
<1>8. \A i : InHand(Caller[w], i)' <=> InHand(Caller[w], i)
  BY DEF InHand
<1> QED BY <1>2, <1>3, <1>4, <1>5, <1>6, <1>7, <1>8, PosterFrame, WorkerStep

\* A transaction that ends without a commit.
LEMMA RollbackIs ==
    ASSUME IInv, NEW p \in Posters, RollbackEntry(p)
    PROVE  LedgerStep(p) /\ journal' = journal /\ entry'[p] = None
<1> p \in Sessions
  BY Assumptions
<1> QED BY DEF LedgerStep, RollbackEntry, EndTransaction, IInv, LedgerInvOf, LedgerTypeOK

LEMMA ThrowInv ==
    ASSUME IInv, NEW w \in Pool, pc[w] \notin {"idle", "dead"}, Throw(w), faults' \in 0 .. MaxFaults
    PROVE  IInv'
<1> w \in Posters
  BY Assumptions
<1>1. /\ pc' = [pc EXCEPT ![w] = "markFailed"]
      /\ UNCHANGED <<runVars, poolVars, item, retries, reopened>>
  BY DEF Throw, Goto
<1>2. LedgerStep(w) /\ journal' = journal /\ entry'[w] = None
  BY RollbackIs DEF Throw
<1>3. UNCHANGED <<queue, working, interest>> /\ interest' \in [Pool -> Int]
  BY <1>1 DEF poolVars, IInv, BatchTypeOK
<1>4. PICK label \in WorkerPC \ {"idle"} : label = "markFailed"
  BY DEF WorkerPC
<1> QED BY <1>1, <1>2, <1>3, <1>4, WorkerGoesOn

LEMMA ReadAccountInv == ASSUME IInv, NEW w \in Pool, ReadAccount(w) PROVE IInv'
<1> BatchTypeOK /\ Worker(w) /\ w \in Sessions
  BY Assumptions DEF IInv
<1>1. pc[w] = "readAccount"
  BY DEF ReadAccount
<1>2. CASE Throw(w) /\ UNCHANGED faults
  BY <1>1, <1>2, ThrowInv DEF BatchTypeOK
<1>3. CASE /\ interest' = [interest EXCEPT ![w] = Interest(projection[working[w][2]])]
           /\ pc' = [pc EXCEPT ![w] = "markRunning"]
           /\ UNCHANGED <<ledgerVars, runVars, queue, working, item, retries, history>>
  <2>1. UNCHANGED <<reopened, faults, journal, entry>> /\ faults' \in 0 .. MaxFaults
    BY <1>3 DEF history, ledgerVars, sessionVars, BatchTypeOK
  <2>2. working[w] \in Item /\ entry'[w] = None
    BY <1>1, <2>1 DEF Worker
  <2>3. projection[working[w][2]] \in Int
    BY <2>2, Assumptions DEF IInv, LedgerInvOf, LedgerTypeOK
  <2>4. interest' \in [Pool -> Int]
    BY <1>3, <2>3, InterestTyped DEF BatchTypeOK
  <2>5. PICK label \in WorkerPC \ {"idle"} : label = "markRunning"
    BY DEF WorkerPC
  <2> QED BY <1>1, <1>3, <2>1, <2>2, <2>4, <2>5, LedgerRests, WorkerGoesOn
<1> QED BY <1>2, <1>3 DEF ReadAccount, Goto

LEMMA MarkRunningInv == ASSUME IInv, NEW w \in Pool, MarkRunning(w) PROVE IInv'
<1> BatchTypeOK /\ Worker(w) /\ w \in Sessions /\ LedgerInvOf(Posters)
  BY Assumptions DEF IInv
<1>1. /\ pc[w] = "markRunning" /\ pc' = [pc EXCEPT ![w] = "post"]
      /\ Acquire(w, CauseRow(working[w]))
      /\ UNCHANGED <<runVars, poolVars, item, retries, history>>
  BY DEF MarkRunning, Goto
<1>2. UNCHANGED <<queue, working, interest, reopened, faults>>
      /\ interest' \in [Pool -> Int] /\ faults' \in 0 .. MaxFaults
  BY <1>1 DEF poolVars, history, BatchTypeOK
<1>3. working[w] \in Item /\ entry[w] = None
  BY <1>1 DEF Worker
<1>4. CallerLocks(w)
  BY <1>1, <1>3, BatchAssumption DEF CallerLocks, CauseRow, Row, BatchAssumption
<1>5. PICK label \in WorkerPC \ {"idle"} : label = "post"
  BY DEF WorkerPC
<1>6. CASE interest[w] > 0 /\ OpenEntry(w, InterestEntry(working[w], interest[w]))
  <2>1. PICK amount \in Nat \ {0} : amount = interest[w]
    BY <1>6 DEF BatchTypeOK
  <2>2. PICK i \in Item : i = working[w]
    BY <1>3
  <2>3. PICK e \in Entry : e = InterestEntry(i, amount) /\ Postable(e) /\ e.cause = i
    <3>1. /\ InterestEntry(i, amount) \in Entry /\ Postable(InterestEntry(i, amount))
          /\ InterestEntry(i, amount).cause = i
      BY InterestEntryTyped
    <3> QED BY <3>1
  <2>4. OpenEntry(w, e)
    BY <1>6, <2>1, <2>2, <2>3
  <2>5. entry'[w] = e /\ journal' = journal
    BY <2>4 DEF OpenEntry, LedgerInvOf, LedgerTypeOK
  <2>6. LedgerStep(w)
    BY <1>3, <1>4, <2>3, <2>4, <2>5 DEF LedgerStep
  <2> QED BY <1>1, <1>2, <1>5, <2>2, <2>3, <2>5, <2>6, WorkerGoesOn
<1>7. CASE UNCHANGED <<projection, journal, overwritten, sessionVars>>
  <2>1. entry'[w] = None /\ LedgerStep(w)
    BY <1>3, <1>4, <1>7 DEF LedgerStep, sessionVars
  <2> QED BY <1>1, <1>2, <1>5, <1>7, <2>1, WorkerGoesOn
<1> QED BY <1>6, <1>7 DEF MarkRunning

LEMMA StopInv == ASSUME IInv, NEW w \in Pool, Stop(w) PROVE IInv'
<1> BatchTypeOK /\ Worker(w) /\ w \in Sessions /\ w \in Posters /\ Caller[w] \in Callers
  BY Assumptions DEF IInv
<1>1. /\ pc[Caller[w]] = "dead" /\ pc[w] # "dead" /\ pc' = [pc EXCEPT ![w] = "dead"]
      /\ UNCHANGED <<runVars, poolVars, item, retries, history>>
  BY DEF Stop, Goto
<1>2. LedgerStep(w) /\ journal' = journal /\ entry'[w] = None
  BY RollbackIs DEF Stop
<1>3. UNCHANGED <<linked, run, snapshot, done, rows, counted, queue, working, interest, reopened, faults>>
  BY <1>1 DEF runVars, poolVars, history
<1>4. BatchTypeOK'
  BY <1>1, <1>3, ChunksStay DEF BatchTypeOK, PC, WorkerPC
<1>5. pc'[w] = "dead" /\ \A p \in Sessions \ {w} : pc'[p] = pc[p]
  BY <1>1 DEF BatchTypeOK
<1>6. Worker(w)'
  BY <1>1, <1>2, <1>3, <1>5 DEF Worker, WorkerPC
<1>7. Advance
  BY <1>1, <1>3 DEF Advance
<1>8. ItemTellsLedger'
  BY <1>2, <1>7, JournalKeeps
<1>9. \A i : InHand(Caller[w], i)' <=> InHand(Caller[w], i)
  BY <1>3 DEF InHand
<1> QED BY <1>1, <1>2, <1>3, <1>4, <1>5, <1>6, <1>7, <1>8, <1>9, PosterFrame, WorkerStep

\* A statement of postJournalEntry.
LEMMA PostIs ==
    ASSUME IInv, NEW p \in Posters, Post(p)
    PROVE  /\ pc[p] = "post" /\ LedgerStep(p) /\ UNCHANGED batchVars
           /\ journal' = journal /\ entry' = entry
  BY DEF Post, LedgerStep, ReadProjection, UpsertProjection

LEMMA PostItemInv == ASSUME IInv, NEW w \in Pool, Post(w) PROVE IInv'
<1> BatchTypeOK /\ Worker(w) /\ w \in Sessions /\ w \in Posters /\ Caller[w] \in Callers
  BY Assumptions DEF IInv
<1>1. /\ pc[w] = "post" /\ LedgerStep(w) /\ UNCHANGED batchVars
      /\ journal' = journal /\ entry' = entry
  BY PostIs
<1>2. /\ UNCHANGED <<runVars, linked, run, snapshot, done, rows, counted, queue, working, interest>>
      /\ UNCHANGED <<item, pc, retries, reopened, faults>>
  BY <1>1 DEF batchVars, runVars, poolVars, history
<1>3. BatchTypeOK'
  BY <1>2, ChunksStay DEF BatchTypeOK
<1>4. Worker(w)'
  BY <1>1, <1>2 DEF Worker
<1>5. Advance
  BY <1>2 DEF Advance
<1>6. ItemTellsLedger'
  BY <1>1, <1>5, JournalKeeps
<1>7. Caller[w] \in Runs => pc[Caller[w]] \in {"pool", "dead"}
  BY <1>1, PoolAtWork
<1>8. \A i : InHand(Caller[w], i)' <=> InHand(Caller[w], i)
  BY <1>2 DEF InHand
<1> QED BY <1>1, <1>2, <1>3, <1>4, <1>5, <1>6, <1>7, <1>8, PosterFrame, WorkerStep

\* What COMMIT appends.
LEMMA CommitIs ==
    ASSUME IInv, NEW p \in Posters, CommitEntry(p)
    PROVE  /\ LedgerStep(p) /\ entry'[p] = None
           /\ \A n \in DOMAIN journal' :
                 \/ n \in DOMAIN journal /\ journal'[n] = journal[n]
                 \/ n = Len(journal) + 1 /\ entry[p] # None /\ journal'[n] = entry[p]
<1> p \in Sessions /\ LedgerTypeOK
  BY Assumptions DEF IInv, LedgerInvOf
<1>1. LedgerStep(p) /\ entry'[p] = None
  BY DEF LedgerStep, CommitEntry, EndTransaction, LedgerTypeOK
<1>2. CASE entry[p] = None
  BY <1>1, <1>2 DEF CommitEntry
<1>3. CASE entry[p] # None
  <2>1. PICK e \in Entry : e = entry[p]
    BY <1>3 DEF LedgerTypeOK
  <2>2. PICK k \in Nat : k = Len(journal) /\ DOMAIN journal = 1 .. k
    BY LenProperties DEF LedgerTypeOK
  <2>3. journal' = Append(journal, e) /\ journal \in Seq(Entry)
    BY <1>3, <2>1 DEF CommitEntry, LedgerTypeOK
  <2>4. DOMAIN journal' = 1 .. k + 1 /\ journal'[k + 1] = e
        /\ \A n \in 1 .. k : journal'[n] = journal[n]
    BY <2>2, <2>3
  <2>5. \A n \in 1 .. k + 1 : n \in 1 .. k \/ n = k + 1
    OBVIOUS
  <2> QED BY <1>1, <1>3, <2>1, <2>2, <2>4, <2>5
<1> QED BY <1>2, <1>3

LEMMA CommitItemInv == ASSUME IInv, NEW w \in Pool, CommitItem(w) PROVE IInv'
<1> BatchTypeOK /\ Worker(w) /\ w \in Sessions /\ w \in Posters /\ Caller[w] \in Callers
  BY Assumptions DEF IInv
<1>1. /\ pc[w] = "post" /\ CommitEntry(w)
      /\ item' = [item EXCEPT ![working[w]] = "COMPLETED"]
  BY DEF CommitItem, SetItem
<1>2. PICK i \in Item : i = working[w] /\ item[i] # "absent" /\ i # None
  BY <1>1, Assumptions DEF Worker
<1>3. item' = [item EXCEPT ![i] = "COMPLETED"]
  BY <1>1, <1>2
<1>4. item' \in [Item -> {"absent", "PENDING", "COMPLETED", "FAILED"}] /\ item'[i] = "COMPLETED"
      /\ \A j \in Item : item'[j] = item[j] \/ j = i
  BY <1>3 DEF BatchTypeOK
<1>5. reopened' = reopened
  BY DEF CommitItem, history
<1>6. Advance
  BY <1>2, <1>4, <1>5 DEF Advance, Settled
<1>7. /\ LedgerStep(w) /\ entry'[w] = None
      /\ \A n \in DOMAIN journal' :
            \/ n \in DOMAIN journal /\ journal'[n] = journal[n]
            \/ entry[w] # None /\ journal'[n] = entry[w]
  BY <1>1, CommitIs
<1>8. ItemTellsLedger'
  <2> SUFFICES ASSUME NEW n \in DOMAIN journal', journal'[n].cause \in Item \ reopened
               PROVE  item'[journal'[n].cause] = "COMPLETED"
    BY <1>5 DEF ItemTellsLedger
  <2>1. CASE n \in DOMAIN journal /\ journal'[n] = journal[n]
    BY <1>4, <2>1 DEF IInv, ItemTellsLedger
  <2>2. CASE entry[w] # None /\ journal'[n] = entry[w]
    BY <1>2, <1>4, <2>2 DEF Worker
  <2> QED BY <1>7, <2>1, <2>2
<1>9. Caller[w] \in Runs => pc[Caller[w]] \in {"pool", "dead"}
  BY <1>1, PoolAtWork
<1>10. CASE ItemDone(w) /\ UNCHANGED history
  <2>1. UNCHANGED <<reopened, faults>>
    BY <1>10 DEF history
  <2>2. BatchTypeOK'
    BY <1>4, <1>10, <2>1, ItemDoneIs, ChunksStay DEF BatchTypeOK
  <2>3. Worker(w)'
    BY <1>7, <1>10, ItemDoneIs DEF Worker, WorkerPC
  <2>4. \A j \in Item : InHand(Caller[w], j) => item'[j] \in Settled \/ InHand(Caller[w], j)'
    BY <1>2, <1>4, <1>10, ItemDoneIs DEF Settled
  <2> QED BY <1>6, <1>7, <1>8, <1>9, <1>10, <2>2, <2>3, <2>4, ItemDoneIs, PosterFrame, WorkerStep
<1>11. CASE /\ pc' = [pc EXCEPT ![w] = "markFailed"] /\ Fault
            /\ UNCHANGED <<runVars, poolVars, retries, reopened>>
  <2>1. UNCHANGED <<linked, run, snapshot, done, rows, counted, queue, working, interest>>
    BY <1>11 DEF runVars, poolVars
  <2>2. faults' \in 0 .. MaxFaults
    BY <1>11, BatchAssumption DEF Fault, BatchTypeOK, BatchAssumption
  <2>3. BatchTypeOK'
    BY <1>4, <1>11, <2>1, <2>2, ChunksStay DEF BatchTypeOK, PC, WorkerPC
  <2>4. pc'[w] = "markFailed" /\ \A p \in Sessions \ {w} : pc'[p] = pc[p]
    BY <1>11 DEF BatchTypeOK
  <2>5. Worker(w)'
    BY <1>2, <1>4, <1>7, <2>1, <2>4 DEF Worker, WorkerPC
  <2>6. \A j : InHand(Caller[w], j)' <=> InHand(Caller[w], j)
    BY <2>1 DEF InHand
  <2> QED BY <1>6, <1>7, <1>8, <1>9, <1>11, <2>1, <2>3, <2>4, <2>5, <2>6, PosterFrame, WorkerStep
<1> QED BY <1>10, <1>11 DEF CommitItem, Goto

LEMMA MarkFailedInv == ASSUME IInv, NEW w \in Pool, MarkFailed(w) PROVE IInv'
<1> BatchTypeOK /\ Worker(w) /\ w \in Sessions /\ w \in Posters /\ Caller[w] \in Callers
  BY Assumptions DEF IInv
<1>1. /\ pc[w] = "markFailed" /\ ItemDone(w) /\ UNCHANGED <<ledgerVars, faults>>
      /\ item' = [item EXCEPT ![working[w]] = "FAILED"]
      /\ reopened' = reopened \cup {j \in {working[w]} : item[j] = "COMPLETED"}
  BY DEF MarkFailed, SetItem
<1>2. PICK i \in Item : i = working[w] /\ item[i] # "absent"
  BY <1>1, Assumptions DEF Worker
<1>3. item' = [item EXCEPT ![i] = "FAILED"] /\ journal' = journal /\ entry' = entry
  BY <1>1, <1>2 DEF ledgerVars, sessionVars
<1>4. item' \in [Item -> {"absent", "PENDING", "COMPLETED", "FAILED"}] /\ item'[i] = "FAILED"
      /\ \A j \in Item : item'[j] = item[j] \/ j = i
  BY <1>3 DEF BatchTypeOK
<1>5. reopened \subseteq reopened' /\ reopened' \subseteq Item
      /\ (item[i] = "COMPLETED" => i \in reopened')
  BY <1>1, <1>2 DEF BatchTypeOK
<1>6. Advance
  BY <1>2, <1>4, <1>5 DEF Advance, Settled
<1>7. LedgerStep(w) /\ entry'[w] = None
  BY <1>1, <1>3, LedgerRests DEF Worker
<1>8. ItemTellsLedger'
  BY <1>3, <1>6, JournalKeeps
<1>9. Caller[w] \in Runs => pc[Caller[w]] \in {"pool", "dead"}
  BY <1>1, PoolAtWork
<1>10. BatchTypeOK'
  BY <1>1, <1>4, <1>5, ItemDoneIs, ChunksStay DEF BatchTypeOK
<1>11. Worker(w)'
  BY <1>1, <1>7, ItemDoneIs DEF Worker, WorkerPC
<1>12. \A j \in Item : InHand(Caller[w], j) => item'[j] \in Settled \/ InHand(Caller[w], j)'
  BY <1>1, <1>2, <1>4, ItemDoneIs DEF Settled
<1> QED BY <1>1, <1>6, <1>7, <1>8, <1>9, <1>10, <1>11, <1>12, ItemDoneIs, PosterFrame, WorkerStep

-----------------------------------------------------------------------------
(* Payers.                                                                 *)

\* A payer goes on to another statement.
LEMMA PayerGoesOn ==
    ASSUME IInv, NEW p \in Payers, LedgerStep(p), NEW label \in PC,
           pc' = [pc EXCEPT ![p] = label],
           UNCHANGED <<runVars, poolVars, item, retries, reopened>>, faults' \in 0 .. MaxFaults,
           entry'[p] = None \/ (label = "post" /\ entry'[p].cause \notin Item),
           ItemTellsLedger'
    PROVE  IInv'
<1> BatchTypeOK /\ p \in Sessions /\ p \in Posters
  BY Assumptions DEF IInv
<1>1. UNCHANGED <<linked, run, snapshot, done, rows, counted, queue, working, interest>>
  BY DEF runVars, poolVars
<1>2. BatchTypeOK'
  BY <1>1, ChunksStay DEF BatchTypeOK
<1>3. pc'[p] = label /\ \A q \in Sessions \ {p} : pc'[q] = pc[q]
  BY DEF BatchTypeOK
<1>4. Payer(p)'
  BY <1>3 DEF Payer
<1> QED BY <1>2, <1>3, <1>4, PosterFrame, PayerStep

LEMMA OpenPaymentInv == ASSUME IInv, NEW p \in Payers, OpenPayment(p) PROVE IInv'
<1> BatchTypeOK /\ Payer(p) /\ p \in Sessions
  BY Assumptions DEF IInv
<1>1. PICK e \in Payments :
         /\ pc[p] = "idle" /\ OpenEntry(p, e) /\ pc' = [pc EXCEPT ![p] = "post"]
         /\ UNCHANGED <<held, runVars, poolVars, item, retries, history>>
  BY DEF OpenPayment, Goto
<1>2. e \in Entry /\ Postable(e) /\ e.cause \notin Item
  BY BatchAssumption DEF BatchAssumption
<1>3. entry[p] = None
  BY <1>1 DEF Payer
<1>4. entry'[p] = e /\ journal' = journal
  BY <1>1 DEF OpenEntry, IInv, LedgerInvOf, LedgerTypeOK
<1>5. LedgerStep(p)
  BY <1>1, <1>2, <1>3, <1>4 DEF LedgerStep, CallerLocks
<1>6. UNCHANGED <<reopened, faults>> /\ faults' \in 0 .. MaxFaults
  BY <1>1 DEF history, BatchTypeOK
<1>7. ItemTellsLedger'
  <2>1. Advance
    BY <1>1, <1>6 DEF Advance
  <2> QED BY <1>4, <2>1, JournalKeeps
<1>8. PICK label \in PC : label = "post"
  BY DEF PC, WorkerPC
<1> QED BY <1>1, <1>2, <1>4, <1>5, <1>6, <1>7, <1>8, PayerGoesOn

LEMMA PostPaymentInv == ASSUME IInv, NEW p \in Payers, Post(p) PROVE IInv'
<1> BatchTypeOK /\ Payer(p) /\ p \in Sessions /\ p \in Posters
  BY Assumptions DEF IInv
<1>1. /\ pc[p] = "post" /\ LedgerStep(p) /\ UNCHANGED batchVars
      /\ journal' = journal /\ entry' = entry
  BY PostIs
<1>2. UNCHANGED <<runVars, poolVars, item, pc, retries, reopened, faults>> /\ faults' \in 0 .. MaxFaults
  BY <1>1 DEF batchVars, history, BatchTypeOK
<1>3. ItemTellsLedger'
  <2>1. Advance
    BY <1>2 DEF Advance
  <2> QED BY <1>1, <2>1, JournalKeeps
<1>4. PICK label \in PC : label = "post"
  BY DEF PC, WorkerPC
<1>5. pc' = [pc EXCEPT ![p] = label]
  BY <1>1, <1>2, <1>4 DEF BatchTypeOK
<1>6. entry'[p] = None \/ entry'[p].cause \notin Item
  BY <1>1 DEF Payer
<1> QED BY <1>1, <1>2, <1>3, <1>4, <1>5, <1>6, PayerGoesOn

LEMMA CommitPaymentInv == ASSUME IInv, NEW p \in Payers, CommitPayment(p) PROVE IInv'
<1> BatchTypeOK /\ Payer(p) /\ p \in Sessions /\ p \in Posters
  BY Assumptions DEF IInv
<1>1. /\ CommitEntry(p) /\ pc' = [pc EXCEPT ![p] = "done"]
      /\ UNCHANGED <<runVars, poolVars, item, retries, history>>
  BY DEF CommitPayment, Goto
<1>2. /\ LedgerStep(p) /\ entry'[p] = None
      /\ \A n \in DOMAIN journal' :
            \/ n \in DOMAIN journal /\ journal'[n] = journal[n]
            \/ entry[p] # None /\ journal'[n] = entry[p]
  BY <1>1, CommitIs
<1>3. UNCHANGED <<reopened, faults>> /\ faults' \in 0 .. MaxFaults
  BY <1>1 DEF history, BatchTypeOK
<1>4. ItemTellsLedger'
  BY <1>1, <1>2, <1>3 DEF ItemTellsLedger, IInv, Payer
<1>5. PICK label \in PC : label = "done"
  BY DEF PC, RunPC
<1> QED BY <1>1, <1>2, <1>3, <1>4, <1>5, PayerGoesOn

LEMMA AbandonPaymentInv ==
    ASSUME IInv, NEW p \in Payers, AbandonPayment(p), faults' \in 0 .. MaxFaults
    PROVE  IInv'
<1> p \in Posters
  BY Assumptions
<1>1. /\ RollbackEntry(p) /\ pc' = [pc EXCEPT ![p] = "done"]
      /\ UNCHANGED <<runVars, poolVars, item, retries, reopened>>
  BY DEF AbandonPayment, Goto
<1>2. LedgerStep(p) /\ journal' = journal /\ entry'[p] = None
  BY <1>1, RollbackIs
<1>3. ItemTellsLedger'
  <2>1. Advance
    BY <1>1 DEF Advance
  <2> QED BY <1>2, <2>1, JournalKeeps
<1>4. PICK label \in PC : label = "done"
  BY DEF PC, RunPC
<1> QED BY <1>1, <1>2, <1>3, <1>4, PayerGoesOn

-----------------------------------------------------------------------------
(* The invariant.                                                          *)

LEMMA InitInv == ASSUME Init PROVE IInv
<1>1. LedgerInvOf(Posters) /\ newBalance = [p \in Sessions |-> NothingWritten]
      /\ entry = [p \in Sessions |-> None] /\ journal = <<>>
  BY LedgerInitInv, Assumptions DEF Init, LedgerInit, LedgerInv, LedgerInvOf
<1>2. /\ linked \subseteq Accounts /\ Len(Processable) \in Nat /\ Len(ById) \in Nat
      /\ OpeningBalance \in [Accounts -> Int] /\ MaxFaults \in Nat /\ MaxRetries \in Nat
      /\ Caller \in [Pool -> Callers]
  BY ProcessableIs, PlaceIs, BatchAssumption, LedgerAssumption
     DEF Init, BatchAssumption, LedgerAssumption
<1>3. BatchTypeOK
  BY <1>2 DEF Init, BatchTypeOK, PC, RunPC
<1>4. ASSUME NEW r \in Runs PROVE Items(r) /\ Control(r) /\ Tally(r) /\ Bulk(r)
  <2>1. r \in Sessions /\ r \in Callers /\ \A w \in Pool : w \in Sessions
    BY Assumptions
  <2>2. /\ pc[r] = "idle" /\ run[r] = "absent" /\ queue[r] = {} /\ done[r] = 0 /\ rows[r] = <<>>
        /\ counted[r]["FAILED"] = None /\ \A w \in Pool : pc[w] = "idle"
        /\ newBalance[r] = NothingWritten
    BY <1>1, <2>1 DEF Init
  <2>3. \A a \in Accounts : item[<<r, a>>] = "absent"
    BY Assumptions DEF Init
  <2>4. None # 0
    BY Assumptions
  <2> QED BY <2>2, <2>3, <2>4 DEF Items, Control, Tally, Bulk, Ended, RunPC
<1>5. ASSUME NEW w \in Pool PROVE Worker(w)
  <2>1. w \in Sessions
    BY Assumptions
  <2>2. pc[w] = "idle" /\ working[w] = None /\ entry[w] = None
    BY <1>1, <2>1 DEF Init
  <2> QED BY <2>2 DEF Worker, WorkerPC
<1>6. ASSUME NEW p \in Payers PROVE Payer(p)
  BY <1>1, Assumptions DEF Payer
<1>7. Existing /\ ItemTellsLedger
  BY <1>1 DEF Init, Existing, ItemTellsLedger
<1> QED BY <1>1, <1>3, <1>4, <1>5, <1>6, <1>7 DEF IInv

LEMMA StutterInv == ASSUME IInv, UNCHANGED vars PROVE IInv'
<1>1. /\ UNCHANGED <<ledgerVars, runVars, poolVars, batchVars, history>>
      /\ UNCHANGED <<linked, run, snapshot, done, rows, counted, queue, working, interest, item, pc,
                     retries, reopened, faults>>
  BY DEF vars, batchVars, runVars, poolVars, history
<1>2. UNCHANGED <<entry, newBalance, journal, projection, overwritten>>
  BY <1>1 DEF ledgerVars, sessionVars
<1>3. Advance
  BY <1>1 DEF Advance
<1>4. LedgerInvOf(Posters)'
  BY <1>1, LedgerStutterInv, Assumptions DEF IInv
<1>5. BatchTypeOK'
  BY <1>1, ChunksStay DEF IInv, BatchTypeOK
<1>6. ASSUME NEW r \in Runs PROVE Items(r)' /\ Control(r)' /\ Tally(r)' /\ Bulk(r)'
  <2>1. Undisturbed(r)
    BY <1>2 DEF Undisturbed
  <2>2. \A i : InHand(r, i)' <=> InHand(r, i)
    BY <1>1 DEF InHand
  <2> QED BY <1>1, <1>3, <2>1, <2>2, RunKeeps, BulkKeeps
<1>7. (\A w \in Pool : Worker(w)') /\ (\A p \in Payers : Payer(p)')
  BY <1>1, <1>2, <1>3, WorkerKeeps, PayerKeeps
<1>8. Existing' /\ ItemTellsLedger'
  BY <1>1, <1>2, <1>3, ExistingKeeps, JournalKeeps
<1> QED BY <1>4, <1>5, <1>6, <1>7, <1>8 DEF IInv

LEMMA AbortInv ==
    ASSUME IInv, NEW p \in Sessions, Abort(p), faults' \in 0 .. MaxFaults
    PROVE  IInv'
<1>1. CASE p \in Runs /\ FailChunk(p)
  BY <1>1, FailChunkInv
<1>2. CASE p \in Pool /\ pc[p] \in {"readItem", "readAccount", "markRunning", "post"} /\ Throw(p)
  BY <1>2, ThrowInv
<1>3. CASE p \in Payers /\ AbandonPayment(p)
  BY <1>3, AbandonPaymentInv
<1> QED BY <1>1, <1>2, <1>3 DEF Abort

LEMMA StepInv == ASSUME IInv, NEW p \in Sessions, Step(p) \/ Fail(p) PROVE IInv'
<1>1. CASE p \in Runs /\ RunStep(p)
  BY <1>1, FindAccountsInv, CreateItemsInv, BeginChunkInv, UpsertRowInv, CommitChunkInv, CountInv,
     FinishRunInv DEF RunStep
<1>2. CASE p \in Callers /\ (PoolDone(p) \/ Audit(p))
  BY <1>2, PoolDoneInv, AuditInv
<1>3. CASE p \in Pool /\ ItemStep(p)
  BY <1>3, TakeItemInv, ReadItemInv, ReadAccountInv, MarkRunningInv, PostItemInv, CommitItemInv,
     MarkFailedInv DEF ItemStep
<1>4. CASE p \in Payers /\ (Post(p) \/ CommitPayment(p))
  BY <1>4, PostPaymentInv, CommitPaymentInv
<1>5. CASE DeadlockVictim(p)
  <2>1. faults' \in 0 .. MaxFaults
    BY <1>5 DEF DeadlockVictim, IInv, BatchTypeOK
  <2> QED BY <1>5, <2>1, AbortInv DEF DeadlockVictim
<1>6. CASE Fail(p)
  <2>1. faults' \in 0 .. MaxFaults
    BY <1>6, BatchAssumption DEF Fail, Fault, IInv, BatchTypeOK, BatchAssumption
  <2> QED BY <1>6, <2>1, AbortInv DEF Fail
<1> QED BY <1>1, <1>2, <1>3, <1>4, <1>5, <1>6 DEF Step

LEMMA NextInv == ASSUME IInv, [Next]_vars PROVE IInv'
  BY StutterInv, StepInv, RejectInv, StopInv, StartRunInv, RetryInv, OpenPaymentInv DEF Next

\* The first invariant holds in every reachable state: nothing that is PENDING is
\* lost between a run's chunks, its queue and its workers.
THEOREM Invariance == Spec => []IInv
<1>1. Init => IInv
  BY InitInv
<1>2. IInv /\ [Next]_vars => IInv'
  BY NextInv
<1> QED BY <1>1, <1>2, PTL DEF Spec

-----------------------------------------------------------------------------
(* The properties.                                                         *)

\* The variables of the batch and of the ledger under it keep their types.
THEOREM TypeCorrect == Spec => []TypeOK
<1>1. IInv => TypeOK
  BY DEF IInv, LedgerInvOf, BatchTypeOK, TypeOK, PC, RunPC, WorkerPC
<1> QED BY <1>1, Invariance, PTL

\* A run that says COMPLETED has completed every item, unless one was marked
\* FAILED afterwards; one that has ended has left none PENDING.
THEOREM CompletedLeaves == Spec => []CompletedLeavesNothing
<1>1. ASSUME IInv PROVE CompletedLeavesNothing
  <2> SUFFICES ASSUME NEW r \in Runs, NEW a \in ActiveAccounts
               PROVE  /\ run[r] = "COMPLETED" /\ <<r, a>> \notin reopened => item[<<r, a>>] = "COMPLETED"
                      /\ Ended(r) => item[<<r, a>>] # "PENDING"
    BY DEF CompletedLeavesNothing, Ended
  <2>1. Tally(r) /\ Items(r)
    BY <1>1 DEF IInv
  <2> QED BY <2>1 DEF Tally, Items, Settled
<1> QED BY <1>1, Invariance, PTL

\* The interest of an account is in the journal only if its item says so, or
\* said so before it was marked FAILED.
THEOREM ItemsTell == Spec => []ItemTellsLedger
<1>1. IInv => ItemTellsLedger
  BY DEF IInv
<1> QED BY <1>1, Invariance, PTL

\* The action of BalancesFollowEntries.
Posting(a) == {n \in DOMAIN journal' \ DOMAIN journal : Effect(journal'[n], a) # 0}
EntriesFollow ==
    \A a \in Accounts \ overwritten :
        IF Posting(a) = {} THEN projection'[a] = projection[a]
        ELSE \E n \in Posting(a) :
                Posting(a) = {n} /\ projection'[a] = projection[a] + Effect(journal'[n], a)

\* A commit of LedgerService appends an entry or none.
LEMMA CommitEntryFollows ==
    ASSUME IInv, NEW p \in Posters, CommitEntry(p)
    PROVE  EntriesFollow
<1> Posters \in SUBSET Sessions /\ p \in Sessions /\ LedgerInvOf(Posters) /\ LedgerTypeOK
  BY Assumptions DEF IInv, LedgerInvOf
<1>1. BalancesFollow
  BY CommitFollows
<1> SUFFICES ASSUME NEW a \in Accounts \ overwritten
             PROVE  IF Posting(a) = {} THEN projection'[a] = projection[a]
                    ELSE \E n \in Posting(a) :
                            Posting(a) = {n} /\ projection'[a] = projection[a] + Effect(journal'[n], a)
  BY DEF EntriesFollow
<1>2. projection[a] \in Int
  BY DEF LedgerTypeOK
<1>3. CASE entry[p] = None
  <2>1. journal' = journal /\ Posting(a) = {}
    BY <1>3 DEF CommitEntry, Posting
  <2> QED BY <1>1, <1>2, <2>1 DEF BalancesFollow
<1>4. CASE entry[p] # None
  <2>1. PICK e \in Entry : e = entry[p]
    BY <1>4 DEF LedgerTypeOK
  <2>2. PICK k \in Nat : k = Len(journal) /\ DOMAIN journal = 1 .. k
    BY LenProperties DEF LedgerTypeOK
  <2>3. journal' = Append(journal, e) /\ journal \in Seq(Entry)
    BY <1>4, <2>1 DEF CommitEntry, LedgerTypeOK
  <2>4. DOMAIN journal' = 1 .. k + 1 /\ Len(journal') = k + 1 /\ journal'[k + 1] = e
        /\ journal' # journal
    BY <2>2, <2>3
  <2>5. (1 .. k + 1) \ (1 .. k) = {k + 1}
    OBVIOUS
  <2>6. projection'[a] = projection[a] + Effect(e, a)
    BY <1>1, <2>4 DEF BalancesFollow
  <2>7. CASE Effect(e, a) = 0
    <3>1. Posting(a) = {}
      BY <2>2, <2>4, <2>5, <2>7 DEF Posting
    <3> QED BY <1>2, <2>6, <2>7, <3>1
  <2>8. CASE Effect(e, a) # 0
    <3>1. Posting(a) = {k + 1}
      BY <2>2, <2>4, <2>5, <2>8 DEF Posting
    <3> QED BY <2>4, <2>6, <3>1
  <2> QED BY <2>7, <2>8
<1> QED BY <1>3, <1>4

\* A chunk appends an entry for each account that earns, and has written for it
\* what the entry makes of the committed balance.
LEMMA CommitChunkFollows ==
    ASSUME IInv, NEW r \in Runs, CommitChunk(r)
    PROVE  EntriesFollow
<1> BatchTypeOK /\ Bulk(r) /\ LedgerTypeOK
  BY DEF IInv, LedgerInvOf
<1>0. done[r] \in 0 .. Len(Processable) /\ snapshot[r] \in [Accounts -> Int]
  BY DEF BatchTypeOK
<1>1. /\ pc[r] = "upsert" /\ rows[r] = <<>>
      /\ projection' = [a \in Accounts |->
                           IF newBalance[r][a] = None THEN projection[a] ELSE newBalance[r][a]]
  BY DEF CommitChunk
<1>2. PICK es \in Seq(Entry), k \in Nat :
         /\ es = ChunkEntries(r) /\ DOMAIN es = 1 .. k
         /\ \A n \in 1 .. k : \E a \in Earning(r) : es[n] = Earned(r, a)
         /\ \A a \in Earning(r) : \E n \in 1 .. k : es[n] = Earned(r, a)
         /\ \A m, n \in 1 .. k : es[m].credit = es[n].credit => m = n
  BY <1>0, ChunkEntriesAre
<1>3. journal' = journal \o es /\ journal \in Seq(Entry)
  BY <1>2 DEF CommitChunk, LedgerTypeOK
<1>4. /\ DOMAIN journal \subseteq DOMAIN journal'
      /\ \A n \in DOMAIN journal' \ DOMAIN journal :
            \E m \in 1 .. k : n = Len(journal) + m /\ journal'[n] = es[m]
      /\ \A m \in 1 .. k : Len(journal) + m \in DOMAIN journal' \ DOMAIN journal
                           /\ journal'[Len(journal) + m] = es[m]
  <2>1. /\ DOMAIN journal \subseteq DOMAIN (journal \o es)
        /\ \A n \in DOMAIN (journal \o es) :
              \/ n \in DOMAIN journal /\ (journal \o es)[n] = journal[n]
              \/ n \notin DOMAIN journal
                 /\ \E m \in DOMAIN es : n = Len(journal) + m /\ (journal \o es)[n] = es[m]
        /\ \A m \in DOMAIN es :
              Len(journal) + m \in DOMAIN (journal \o es) \ DOMAIN journal
              /\ (journal \o es)[Len(journal) + m] = es[m]
    BY <1>3, ConcatIs
  <2> QED BY <1>2, <1>3, <2>1
<1> SUFFICES ASSUME NEW a \in Accounts \ overwritten
             PROVE  IF Posting(a) = {} THEN projection'[a] = projection[a]
                    ELSE \E n \in Posting(a) :
                            Posting(a) = {n} /\ projection'[a] = projection[a] + Effect(journal'[n], a)
  BY DEF EntriesFollow
<1>5. ASSUME NEW m \in 1 .. k, Effect(es[m], a) # 0
      PROVE  a \in Earning(r) /\ es[m] = Earned(r, a)
  <2>1. PICK c \in Earning(r) : es[m] = Earned(r, c)
    BY <1>2
  <2>2. Earned(r, c).credit = c /\ Earned(r, c).debit \notin Accounts
    BY <1>0, EarnedIs
  <2>3. c = a
    BY <1>5, <2>1, <2>2 DEF Effect
  <2> QED BY <2>1, <2>3
<1>6. CASE a \notin Earning(r)
  <2>1. Posting(a) = {}
    BY <1>4, <1>5, <1>6 DEF Posting
  <2>2. newBalance[r][a] = None
    BY <1>1, <1>6 DEF Bulk
  <2> QED BY <1>1, <2>1, <2>2
<1>7. CASE a \in Earning(r)
  <2>1. PICK m \in 1 .. k : es[m] = Earned(r, a)
    BY <1>2, <1>7
  <2>2. /\ Earned(r, a).credit = a /\ Earned(r, a).amount = Interest(snapshot[r][a])
        /\ Interest(snapshot[r][a]) \in Nat \ {0} /\ snapshot[r][a] \in Int
    BY <1>0, <1>7, EarnedIs
  <2>3. Effect(es[m], a) = Interest(snapshot[r][a]) /\ Effect(es[m], a) # 0
    BY <2>1, <2>2 DEF Effect
  <2>4. PICK n \in DOMAIN journal' \ DOMAIN journal : n = Len(journal) + m /\ journal'[n] = es[m]
    BY <1>4
  <2>5. n \in Posting(a)
    BY <2>3, <2>4 DEF Posting
  <2>6. ASSUME NEW x \in Posting(a) PROVE x = n
    <3>1. PICK y \in 1 .. k : x = Len(journal) + y /\ journal'[x] = es[y]
      BY <1>4 DEF Posting
    <3>2. Effect(es[y], a) # 0
      BY <3>1 DEF Posting
    <3>3. es[y] = Earned(r, a)
      BY <1>5, <3>2
    <3>4. y = m
      BY <1>2, <2>1, <3>3
    <3> QED BY <2>4, <3>1, <3>4
  <2>7. newBalance[r][a] # None
    BY <1>1, <1>7 DEF Bulk
  <2>8. newBalance[r][a] = projection[a] + Interest(snapshot[r][a])
    BY <1>1, <1>7, <2>7 DEF Bulk, RunningBalance
  <2>9. projection'[a] = projection[a] + Effect(journal'[n], a)
    BY <1>1, <2>3, <2>4, <2>7, <2>8
  <2> QED BY <2>5, <2>6, <2>9
<1> QED BY <1>6, <1>7

\* Nothing but a commit moves a balance or appends an entry.
LEMMA NextFollows == ASSUME IInv, [Next]_vars PROVE [EntriesFollow]_vars
<1>1. ASSUME UNCHANGED <<projection, journal>> PROVE EntriesFollow
  BY <1>1 DEF EntriesFollow, Posting
<1>2. ASSUME NEW r \in Runs, CommitChunk(r) PROVE EntriesFollow
  BY <1>2, CommitChunkFollows
<1>3. ASSUME NEW p \in Posters, CommitEntry(p) PROVE EntriesFollow
  BY <1>3, CommitEntryFollows
<1>4. ASSUME NEW p \in Sessions, Abort(p) PROVE UNCHANGED <<projection, journal>>
  BY <1>4 DEF Abort, FailChunk, Throw, AbandonPayment, RollbackEntry
<1>5. ASSUME NEW p \in Sessions, Step(p) \/ Fail(p) PROVE EntriesFollow
  <2>1. ASSUME p \in Runs, RunStep(p) PROVE EntriesFollow
    BY <1>1, <1>2, <2>1
       DEF RunStep, FindAccounts, CreateItems, BeginChunk, UpsertRow, Count, FinishRun, ledgerVars
  <2>2. ASSUME PoolDone(p) \/ Audit(p) PROVE EntriesFollow
    BY <1>1, <2>2 DEF PoolDone, Audit, ledgerVars
  <2>3. ASSUME p \in Pool, ReadAccount(p) \/ MarkRunning(p) PROVE EntriesFollow
    BY <1>1, <2>3 DEF ReadAccount, MarkRunning, Throw, RollbackEntry, OpenEntry, ledgerVars
  <2>4. ASSUME p \in Pool, TakeItem(p) \/ ReadItem(p) \/ MarkFailed(p) PROVE EntriesFollow
    BY <1>1, <2>4 DEF TakeItem, ReadItem, MarkFailed, ledgerVars
  <2>5. ASSUME Post(p) PROVE EntriesFollow
    BY <1>1, <2>5 DEF Post, ReadProjection, UpsertProjection
  <2>6. ASSUME p \in Pool, CommitItem(p) PROVE EntriesFollow
    BY <1>3, <2>6, Assumptions DEF CommitItem
  <2>7. ASSUME p \in Payers, CommitPayment(p) PROVE EntriesFollow
    BY <1>3, <2>7, Assumptions DEF CommitPayment
  <2>8. ASSUME DeadlockVictim(p) \/ Fail(p) PROVE EntriesFollow
    BY <1>1, <1>4, <2>8 DEF DeadlockVictim, Fail
  <2> QED BY <1>5, <2>1, <2>2, <2>3, <2>4, <2>5, <2>6, <2>7, <2>8 DEF Step, ItemStep
<1>6. ASSUME NEW c \in Callers, Reject(c) PROVE EntriesFollow
  BY <1>1, <1>6 DEF Reject, ledgerVars
<1>7. ASSUME NEW w \in Pool, Stop(w) PROVE EntriesFollow
  BY <1>1, <1>7 DEF Stop, RollbackEntry
<1>8. ASSUME NEW r \in Runs, StartRun(r) PROVE EntriesFollow
  BY <1>1, <1>8 DEF StartRun, ledgerVars
<1>9. ASSUME NEW o \in Operators, Retry(o) PROVE EntriesFollow
  BY <1>1, <1>9 DEF Retry, ledgerVars
<1>10. ASSUME NEW p \in Payers, OpenPayment(p) PROVE EntriesFollow
  BY <1>1, <1>10 DEF OpenPayment, OpenEntry
<1> QED BY <1>5, <1>6, <1>7, <1>8, <1>9, <1>10 DEF Next

\* The entries of a step move the balances and nothing else does, as long as no
\* upsert has replaced a balance it was not computed from: a chunk's like an
\* item's or a transfer's.
THEOREM BalancesFollowTheEntries == Spec => BalancesFollowEntries
<1>1. IInv /\ [Next]_vars => [EntriesFollow]_vars
  BY NextFollows
<1> QED BY <1>1, Invariance, PTL DEF Spec, BalancesFollowEntries, EntriesFollow, Posting

-----------------------------------------------------------------------------
(* Interest is posted once, when a single operator retries.                *)

LEMMA HoldsIs ==
    ASSUME IInv, NEW p \in Hand, NEW i \in Item, Holds(p, i)
    PROVE  item[i] # "absent" /\ i[2] \in ActiveAccounts
<1>1. i # None
  BY Assumptions
<1>2. item[i] # "absent"
  BY <1>1 DEF Holds, Hand, IInv, Existing, Worker
<1> QED BY <1>2 DEF IInv, Existing

\* The items of J come to x, others may be dropped, and nothing else happens.
LEMMA HandsMove ==
    ASSUME Hands, NEW x \in Hand, NEW J \in SUBSET Item,
           \A p \in Hand, i \in Item : Holds(p, i)' => (Holds(p, i) /\ i \notin J) \/ (p = x /\ i \in J),
           \A i \in J : Kind(Serves(x), i)',
           \A p \in Hand, i \in Item \ J : Holds(p, i)' => item'[i] = item[i],
           \A r \in Runs : \A a \in Ahead(r)' :
               a \in Ahead(r) /\ <<r, a>> \notin J /\ item'[<<r, a>>] \in {"absent", "PENDING"},
           \A r \in Runs : \A a \in Ahead(r) : <<r, a>> \in Item
    PROVE  Hands'
<1>1. \A p \in Hand, i \in Item : Holds(p, i)' => Kind(Serves(p), i)'
  BY DEF Hands, Kind, Serves
<1>2. \A p, q \in Hand, i \in Item : Holds(p, i)' /\ Holds(q, i)' => p = q
  BY DEF Hands
<1>3. \A r \in Runs : \A a \in Ahead(r)' :
         item'[<<r, a>>] \in {"absent", "PENDING"} /\ \A p \in Hand : ~ Holds(p, <<r, a>>)'
  BY DEF Hands
<1> QED BY <1>1, <1>2, <1>3 DEF Hands

LEMMA AheadItems ==
    ASSUME IInv
    PROVE  \A r \in Runs : \A a \in Ahead(r) :
              a \in Accounts /\ a \in ActiveAccounts /\ a \in linked /\ <<r, a>> \in Item
<1> SUFFICES ASSUME NEW r \in Runs, NEW a \in Ahead(r)
             PROVE  a \in Accounts /\ a \in ActiveAccounts /\ a \in linked /\ <<r, a>> \in Item
  OBVIOUS
<1>1. done[r] \in 0 .. Len(Processable)
  BY DEF IInv, BatchTypeOK
<1>2. PICK N \in Nat : N = Len(Processable)
  BY ProcessableIs
<1>3. PICK n \in done[r] + 1 .. N : a = Processable[n]
  BY <1>2 DEF Ahead
<1>4. n \in 1 .. N
  BY <1>1, <1>2, <1>3
<1> QED BY <1>2, <1>3, <1>4, ProcessableIs, PlaceIs, Assumptions

LEMMA HandsRest ==
    ASSUME Hands, UNCHANGED <<linked, done, item, queue, working>>
    PROVE  Hands'
<1>1. \A r \in Runs : Ahead(r)' = Ahead(r)
  BY ChunksStay
<1>2. \A p, i : Holds(p, i)' <=> Holds(p, i)
  BY DEF Holds
<1>3. \A c, i : Kind(c, i)' <=> Kind(c, i)
  BY DEF Kind
<1> QED BY <1>1, <1>2, <1>3 DEF Hands, Serves

LEMMA RetryingKeeps ==
    ASSUME Retrying,
           \A o \in Operators : pc'[o] = pc[o] /\ queue'[o] \subseteq queue[o],
           \A w \in Pool : pc'[w] = pc[w] \/ pc[w] # "idle" \/ queue[Caller[w]] # {}
    PROVE  Retrying'
  BY DEF Retrying

LEMMA UndoneKeeps ==
    ASSUME Undone,
           \A w \in Pool : pc'[w] \in Deciding =>
               /\ pc[w] \in Deciding /\ working'[w] = working[w]
               /\ item'[working[w]] = item[working[w]]
    PROVE  Undone'
  BY DEF Undone

LEMMA OnceKeeps ==
    ASSUME InterestPostedOnce, journal' = journal, reopened \subseteq reopened'
    PROVE  InterestPostedOnce'
  BY DEF InterestPostedOnce

\* A step that takes no item in hand, and no operator anywhere.
LEMMA QuietExclusive ==
    ASSUME Exclusive, UNCHANGED <<linked, done, item, queue, working, journal, reopened>>,
           \A o \in Operators : pc'[o] = pc[o],
           \A w \in Pool : pc'[w] = pc[w] \/ (pc[w] # "idle" /\ (pc'[w] \in Deciding => pc[w] \in Deciding))
    PROVE  Exclusive'
<1>1. Hands'
  BY HandsRest DEF Exclusive
<1>2. Retrying'
  BY RetryingKeeps DEF Exclusive
<1>3. Undone'
  BY UndoneKeeps DEF Exclusive
<1>4. InterestPostedOnce'
  BY OnceKeeps DEF Exclusive
<1> QED BY <1>1, <1>2, <1>3, <1>4 DEF Exclusive

\* An entry of an item that is not COMPLETED has not been posted.
LEMMA NotYet ==
    ASSUME IInv, NEW i \in Item \ reopened, item[i] # "COMPLETED"
    PROVE  \A n \in DOMAIN journal : journal[n].cause # i
  BY DEF IInv, ItemTellsLedger

\* Entries whose causes are not in the journal, each with a cause of its own.
LEMMA OnceGrows ==
    ASSUME InterestPostedOnce, reopened' = reopened,
           \A n \in DOMAIN journal' : n \in DOMAIN journal => journal'[n] = journal[n],
           \A n \in DOMAIN journal' \ DOMAIN journal : journal'[n].cause \in Item \ reopened =>
               /\ \A m \in DOMAIN journal : journal[m].cause # journal'[n].cause
               /\ \A m \in DOMAIN journal' \ DOMAIN journal :
                     journal'[m].cause = journal'[n].cause => m = n
    PROVE  InterestPostedOnce'
<1> SUFFICES ASSUME NEW m \in DOMAIN journal', NEW n \in DOMAIN journal',
                    journal'[m].cause = journal'[n].cause, journal'[m].cause \in Item \ reopened
             PROVE  m = n
  BY DEF InterestPostedOnce
<1>1. CASE m \in DOMAIN journal /\ n \in DOMAIN journal
  BY <1>1 DEF InterestPostedOnce
<1>2. CASE m \notin DOMAIN journal /\ n \in DOMAIN journal
  BY <1>2
<1>3. CASE m \in DOMAIN journal /\ n \notin DOMAIN journal
  BY <1>3
<1>4. CASE m \notin DOMAIN journal /\ n \notin DOMAIN journal
  BY <1>4
<1> QED BY <1>1, <1>2, <1>3, <1>4

\* Steps of a run.

LEMMA CreateItemsExclusive ==
    ASSUME IInv, Exclusive, NEW r \in Runs, CreateItems(r)
    PROVE  Exclusive'
<1> BatchTypeOK /\ Hands /\ r \in Callers /\ r \in Sessions /\ r \in Hand /\ r \notin Pool /\ r \notin Operators
  BY Assumptions DEF IInv, Exclusive, Hand
<1>1. PICK J \in SUBSET Item :
         /\ J = {<<r, a>> : a \in ActiveAccounts \ linked}
         /\ \A i \in J : i[1] = r /\ i[2] \in ActiveAccounts \ linked
  <2>1. \A a \in ActiveAccounts : <<r, a>> \in Item
    BY PlaceIs, Assumptions
  <2>2. PICK J : J = {<<r, a>> : a \in ActiveAccounts \ linked}
    OBVIOUS
  <2>3. J \in SUBSET Item /\ \A i \in J : i[1] = r /\ i[2] \in ActiveAccounts \ linked
    BY <2>1, <2>2
  <2> QED BY <2>2, <2>3
<1>2. /\ pc[r] = "createItems" /\ pc' = [pc EXCEPT ![r] = "pool"]
      /\ item' = [i \in Item |-> IF i[1] = r /\ i[2] \in ActiveAccounts THEN "PENDING" ELSE item[i]]
      /\ queue' = [queue EXCEPT ![r] = J]
      /\ UNCHANGED <<ledgerVars, runVars, working, interest, history>>
  BY <1>1 DEF CreateItems, Goto
<1>3. UNCHANGED <<linked, done, journal, reopened>>
  BY <1>2 DEF runVars, history, ledgerVars
<1>4. queue'[r] = J /\ (\A c \in Callers \ {r} : queue'[c] = queue[c])
      /\ \A p \in Sessions \ {r} : pc'[p] = pc[p]
  BY <1>2 DEF BatchTypeOK
<1>5. ASSUME NEW i \in Item, i[1] = r PROVE item[i] = "absent"
  BY <1>2, <1>5, Assumptions DEF IInv, Items
<1>6. ASSUME NEW p \in Hand, NEW i \in Item, Holds(p, i) PROVE i[1] # r /\ item'[i] = item[i]
  BY <1>2, <1>5, <1>6, HoldsIs
<1>7. ASSUME NEW p \in Hand, NEW i \in Item, Holds(p, i)'
      PROVE  (Holds(p, i) /\ i \notin J) \/ (p = r /\ i \in J)
  <2>1. CASE p = r
    BY <1>4, <1>7, <2>1 DEF Holds
  <2>2. CASE p # r
    <3>1. Holds(p, i)
      BY <1>2, <1>4, <1>7, <2>2 DEF Holds, Hand
    <3> QED BY <1>1, <1>6, <3>1
  <2> QED BY <2>1, <2>2
<1>8. \A q \in Runs : Ahead(q)' = Ahead(q)
  BY <1>3, ChunksStay
<1>9. ASSUME NEW q \in Runs, NEW a \in Ahead(q)
      PROVE  <<q, a>> \notin J /\ item'[<<q, a>>] \in {"absent", "PENDING"}
  <2>1. PICK i \in Item : i = <<q, a>> /\ i[1] = q /\ i[2] = a /\ a \in linked /\ a \in ActiveAccounts
    BY AheadItems
  <2>2. i \notin J
    BY <1>1, <2>1
  <2>3. item[i] \in {"absent", "PENDING"}
    BY <2>1 DEF Hands
  <2> QED BY <1>2, <2>1, <2>2, <2>3
<1>10. \A i \in J : Kind(Serves(r), i)'
  BY <1>1, <1>2 DEF Kind, Serves
<1>11. \A p \in Hand, i \in Item \ J : Holds(p, i)' => item'[i] = item[i]
  BY <1>6, <1>7
<1>12. \A q \in Runs : \A a \in Ahead(q) : <<q, a>> \in Item
  BY AheadItems
<1>13. Hands'
  BY <1>7, <1>8, <1>9, <1>10, <1>11, <1>12, HandsMove
<1>14. \A w \in Pool : w \in Sessions \ {r}
  BY Assumptions
<1>15. Retrying'
  <2>1. \A o \in Operators : o \in Callers \ {r} /\ o \in Sessions \ {r}
    BY Assumptions
  <2> QED BY <1>4, <1>14, <2>1, RetryingKeeps DEF Exclusive
<1>16. Undone'
  <2> SUFFICES ASSUME NEW w \in Pool, pc[w] \in Deciding PROVE item'[working[w]] = item[working[w]]
    BY <1>2, <1>4, <1>14, UndoneKeeps DEF Exclusive
  <2>1. working[w] \in Item
    BY DEF IInv, Worker, Deciding
  <2> QED BY <1>6, <2>1 DEF Holds, Hand
<1>17. InterestPostedOnce'
  BY <1>3, OnceKeeps DEF Exclusive
<1> QED BY <1>13, <1>15, <1>16, <1>17 DEF Exclusive

\* The accounts ahead after a chunk.
LEMMA LaterIs ==
    ASSUME IInv, NEW r \in Runs, NEW N, N = Len(Processable), NEW d, d = done[r] + Len(Chunk(r)),
           NEW later, later = {Processable[n] : n \in d + 1 .. N}
    PROVE  later \subseteq Ahead(r) /\ \A a \in later : a \notin Range(Chunk(r))
<1>1. done[r] \in 0 .. Len(Processable)
  BY DEF IInv, BatchTypeOK
<1>2. later = {Processable[n] : n \in done[r] + Len(Chunk(r)) + 1 .. Len(Processable)}
  OBVIOUS
<1> QED BY <1>1, <1>2, AheadIs

\* A run goes on with its next chunk.
LEMMA NextChunkExclusive ==
    ASSUME IInv, Exclusive, NEW r \in Runs, NEW failed \in BOOLEAN, NextChunk(r, failed),
           pc[r] \in {"chunk", "upsert"}, UNCHANGED <<linked, working>>,
           \/ item' = item
           \/ item' = [i \in Item |-> IF i \in ItemsOf(r, Chunk(r)) THEN "COMPLETED" ELSE item[i]],
           InterestPostedOnce'
    PROVE  Exclusive'
<1> BatchTypeOK /\ Hands /\ r \in Callers /\ r \in Sessions /\ r \in Hand /\ r \notin Pool /\ r \notin Operators
  BY Assumptions DEF IInv, Exclusive, Hand
<1>1. PICK I \in SUBSET Item :
         /\ I = ItemsOf(r, Chunk(r))
         /\ \A i \in I : i[1] = r /\ i[2] \in Ahead(r) /\ i = <<r, i[2]>> /\ item[i] # "absent"
         /\ \A a : <<r, a>> \in I <=> a \in Range(Chunk(r))
  BY ItemsOfIs
<1>2. PICK J \in SUBSET I : J = IF failed THEN I ELSE {}
  OBVIOUS
<1>3. PICK N \in Nat : N = Len(Processable)
  BY ProcessableIs
<1>4. PICK d \in 0 .. N : d = done[r] + Len(Chunk(r))
  BY <1>3, ChunkIs DEF BatchTypeOK
<1>5. /\ queue'[r] = J /\ done'[r] = d
      /\ \A p \in Sessions \ {r} : pc'[p] = pc[p]
      /\ \A c \in Callers \ {r} : queue'[c] = queue[c]
      /\ \A q \in Runs \ {r} : done'[q] = done[q]
  BY <1>1, <1>2, <1>4 DEF NextChunk, Goto, BatchTypeOK
<1>6. PICK later : later = {Processable[n] : n \in d + 1 .. N}
  OBVIOUS
<1>7. Ahead(r)' = later /\ \A q \in Runs \ {r} : Ahead(q)' = Ahead(q)
  <2>1. Processable' = Processable
    BY ChunksStay
  <2> QED BY <1>3, <1>5, <1>6, <2>1 DEF Ahead
<1>8. later \subseteq Ahead(r) /\ \A a \in later : a \notin Range(Chunk(r))
  BY <1>3, <1>4, <1>6, LaterIs
<1>9. ASSUME NEW i \in I PROVE item[i] = "PENDING" /\ \A p \in Hand : ~ Holds(p, i)
  BY <1>1 DEF Hands
<1>10. \A i \in Item : i \notin I => item'[i] = item[i]
  BY <1>1 DEF BatchTypeOK
<1>11. \A i \in I : item'[i] \in {"PENDING", "COMPLETED"}
  BY <1>1, <1>9
<1>12. ASSUME NEW p \in Hand, NEW i \in Item, Holds(p, i)'
       PROVE  (Holds(p, i) /\ i \notin J) \/ (p = r /\ i \in J)
  <2>1. CASE p = r
    BY <1>5, <1>12, <2>1 DEF Holds
  <2>2. CASE p # r
    <3>1. Holds(p, i)
      BY <1>5, <1>12, <2>2 DEF Holds, Hand
    <3> QED BY <1>9, <3>1
  <2> QED BY <2>1, <2>2
<1>13. \A i \in J : Kind(Serves(r), i)'
  BY <1>1, <1>11 DEF Kind, Serves
<1>14. \A p \in Hand, i \in Item \ J : Holds(p, i)' => item'[i] = item[i]
  BY <1>9, <1>10, <1>12
<1>15. \A q \in Runs : \A a \in Ahead(q) : <<q, a>> \in Item
  BY AheadItems
<1>16. ASSUME NEW q \in Runs, NEW a \in Ahead(q)'
       PROVE  a \in Ahead(q) /\ <<q, a>> \notin J /\ item'[<<q, a>>] \in {"absent", "PENDING"}
  <2>1. a \in Ahead(q) /\ <<q, a>> \notin I
    <3>1. CASE q = r
      BY <1>1, <1>7, <1>8, <1>16, <3>1
    <3>2. CASE q # r
      BY <1>1, <1>7, <1>16, <3>2
    <3> QED BY <3>1, <3>2
  <2> QED BY <1>10, <1>15, <2>1 DEF Hands
<1>17. Hands'
  <2>1. J \in SUBSET Item
    OBVIOUS
  <2> QED BY <1>12, <1>13, <1>14, <1>15, <1>16, <2>1, HandsMove
<1>18. \A w \in Pool : w \in Sessions \ {r}
  BY Assumptions
<1>19. Retrying'
  <2>1. \A o \in Operators : o \in Callers \ {r} /\ o \in Sessions \ {r}
    BY Assumptions
  <2> QED BY <1>5, <1>18, <2>1, RetryingKeeps DEF Exclusive
<1>20. Undone'
  <2> SUFFICES ASSUME NEW w \in Pool, pc[w] \in Deciding PROVE item'[working[w]] = item[working[w]]
    BY <1>5, <1>18, UndoneKeeps DEF Exclusive
  <2>1. working[w] \in Item
    BY DEF IInv, Worker, Deciding
  <2> QED BY <1>9, <1>10, <2>1 DEF Holds, Hand
<1> QED BY <1>17, <1>19, <1>20 DEF Exclusive

LEMMA CommitChunkExclusive ==
    ASSUME IInv, Exclusive, NEW r \in Runs, CommitChunk(r)
    PROVE  Exclusive'
<1> BatchTypeOK /\ Hands /\ InterestPostedOnce
  BY DEF IInv, Exclusive
<1>0. done[r] \in 0 .. Len(Processable) /\ snapshot[r] \in [Accounts -> Int]
  BY DEF BatchTypeOK
<1>1. /\ pc[r] = "upsert"
      /\ item' = [i \in Item |-> IF i \in ItemsOf(r, Chunk(r)) THEN "COMPLETED" ELSE item[i]]
      /\ UNCHANGED <<linked, working>>
  BY DEF CommitChunk
<1>2. PICK failed \in BOOLEAN : NextChunk(r, failed) /\ reopened' = reopened
  BY DEF CommitChunk, history
<1>3. PICK es \in Seq(Entry), k \in Nat :
         /\ es = ChunkEntries(r) /\ DOMAIN es = 1 .. k
         /\ \A n \in 1 .. k : \E a \in Earning(r) : es[n] = Earned(r, a)
         /\ \A m, n \in 1 .. k : es[m].credit = es[n].credit => m = n
  BY <1>0, ChunkEntriesAre
<1>4. journal' = journal \o es /\ journal \in Seq(Entry)
  BY <1>3 DEF CommitChunk, IInv, LedgerInvOf, LedgerTypeOK
<1>5. \A n \in DOMAIN journal' :
         \/ n \in DOMAIN journal /\ journal'[n] = journal[n]
         \/ n \notin DOMAIN journal /\ \E m \in 1 .. k : n = Len(journal) + m /\ journal'[n] = es[m]
  <2>1. \A n \in DOMAIN (journal \o es) :
           \/ n \in DOMAIN journal /\ (journal \o es)[n] = journal[n]
           \/ n \notin DOMAIN journal
              /\ \E m \in DOMAIN es : n = Len(journal) + m /\ (journal \o es)[n] = es[m]
    BY <1>4, ConcatIs
  <2> QED BY <1>3, <1>4, <2>1
<1>6. ASSUME NEW m \in 1 .. k
      PROVE  \E a \in Ahead(r) : es[m].cause = <<r, a>> /\ es[m].credit = a
  <2>1. PICK a \in Earning(r) : es[m] = Earned(r, a)
    BY <1>3
  <2>2. Earned(r, a).cause = <<r, a>> /\ Earned(r, a).credit = a
    BY <1>0, EarnedIs
  <2>3. a \in Ahead(r)
    BY <1>0, EarningIs, ItemsOfIs
  <2> QED BY <2>1, <2>2, <2>3
<1>7. ASSUME NEW m \in 1 .. k, es[m].cause \in Item \ reopened, NEW n \in DOMAIN journal
      PROVE  journal[n].cause # es[m].cause
  <2>1. PICK a \in Ahead(r) : es[m].cause = <<r, a>>
    BY <1>6
  <2>2. PICK i \in Item \ reopened : i = es[m].cause
    BY <1>7
  <2>3. item[i] # "COMPLETED"
    BY <2>1, <2>2 DEF Hands
  <2> QED BY <2>2, <2>3, NotYet
<1>8. ASSUME NEW m \in 1 .. k, NEW n \in 1 .. k, es[m].cause = es[n].cause PROVE m = n
  <2>1. PICK a \in Ahead(r) : es[m].cause = <<r, a>> /\ es[m].credit = a
    BY <1>6
  <2>2. PICK b \in Ahead(r) : es[n].cause = <<r, b>> /\ es[n].credit = b
    BY <1>6
  <2>3. a = b
    <3>1. <<r, a>> = <<r, b>>
      BY <1>8, <2>1, <2>2
    <3> QED BY <3>1
  <2>4. es[m].credit = es[n].credit
    BY <2>1, <2>2, <2>3
  <2> QED BY <1>3, <2>4
<1>9. InterestPostedOnce'
  <2>1. \A n \in DOMAIN journal' : n \in DOMAIN journal => journal'[n] = journal[n]
    BY <1>5
  <2>2. ASSUME NEW n \in DOMAIN journal' \ DOMAIN journal, journal'[n].cause \in Item \ reopened
        PROVE  /\ \A m \in DOMAIN journal : journal[m].cause # journal'[n].cause
               /\ \A m \in DOMAIN journal' \ DOMAIN journal :
                     journal'[m].cause = journal'[n].cause => m = n
    <3>1. PICK x \in 1 .. k : n = Len(journal) + x /\ journal'[n] = es[x]
      BY <1>5
    <3>2. \A m \in DOMAIN journal : journal[m].cause # journal'[n].cause
      BY <1>7, <2>2, <3>1
    <3>3. ASSUME NEW m \in DOMAIN journal' \ DOMAIN journal, journal'[m].cause = journal'[n].cause
          PROVE  m = n
      <4>1. PICK y \in 1 .. k : m = Len(journal) + y /\ journal'[m] = es[y]
        BY <1>5
      <4> QED BY <1>8, <3>1, <3>3, <4>1
    <3> QED BY <3>2, <3>3
  <2> QED BY <1>2, <2>1, <2>2, OnceGrows
<1> QED BY <1>1, <1>2, <1>9, NextChunkExclusive

LEMMA FailChunkExclusive ==
    ASSUME IInv, Exclusive, NEW r \in Runs, FailChunk(r)
    PROVE  Exclusive'
<1>1. /\ pc[r] \in {"chunk", "upsert"} /\ NextChunk(r, TRUE) /\ TRUE \in BOOLEAN
      /\ UNCHANGED <<linked, working, item, journal, reopened>>
  BY DEF FailChunk, RollbackEntry
<1>2. InterestPostedOnce'
  BY <1>1, OnceKeeps DEF Exclusive
<1> QED BY <1>1, <1>2, NextChunkExclusive

\* Steps of an operator.

LEMMA RetryExclusive ==
    ASSUME IInv, Exclusive, OneOperator, NEW o \in Operators, Retry(o)
    PROVE  Exclusive'
<1> BatchTypeOK /\ Hands /\ Retrying /\ o \in Callers /\ o \in Sessions /\ o \in Hand /\ o \notin Pool /\ o \notin Runs
  BY Assumptions DEF IInv, Exclusive, Hand
<1>1. PICK r \in Runs, J \in SUBSET Item :
         /\ J = InStatus(r, "FAILED") /\ \A i \in J : item[i] = "FAILED"
         /\ pc[o] = "idle"
         /\ queue' = [queue EXCEPT ![o] = J]
         /\ pc' = [pc EXCEPT ![o] = "pool"]
         /\ UNCHANGED <<ledgerVars, runVars, working, item, history>>
  <2>1. PICK r \in Runs :
           /\ pc[o] = "idle" /\ queue' = [queue EXCEPT ![o] = InStatus(r, "FAILED")]
           /\ pc' = [pc EXCEPT ![o] = "pool"]
           /\ UNCHANGED <<ledgerVars, runVars, working, item, history>>
    BY DEF Retry, Goto
  <2>2. PICK J : J = InStatus(r, "FAILED")
    OBVIOUS
  <2>3. J \in SUBSET Item /\ \A i \in J : item[i] = "FAILED"
    BY <2>2 DEF InStatus
  <2> QED BY <2>1, <2>2, <2>3
<1>2. UNCHANGED <<linked, done, journal, reopened>>
  BY <1>1 DEF runVars, history, ledgerVars
<1>3. /\ queue'[o] = J /\ (\A c \in Callers \ {o} : queue'[c] = queue[c])
      /\ pc'[o] = "pool" /\ \A p \in Sessions \ {o} : pc'[p] = pc[p]
  BY <1>1 DEF BatchTypeOK
<1>4. ASSUME NEW p \in Hand, NEW i \in J PROVE ~ Holds(p, i)
  <2>1. SUFFICES ASSUME Holds(p, i) PROVE FALSE
    OBVIOUS
  <2>2. Kind(Serves(p), i) /\ item[i] = "FAILED" /\ i # None
    BY <1>1, <2>1, Assumptions DEF Hands
  <2>3. Serves(p) \in Callers /\ Serves(p) \notin Runs
    BY <2>2, Assumptions DEF Kind, Serves, Hand
  <2>4. Serves(p) = o
    BY <2>3 DEF Callers, OneOperator
  <2>5. queue[o] = {} /\ \A w \in Pool : Caller[w] = o => working[w] = None
    BY <1>1 DEF Retrying, IInv, Worker
  <2> QED BY <2>1, <2>2, <2>4, <2>5 DEF Holds, Serves
<1>5. ASSUME NEW p \in Hand, NEW i \in Item, Holds(p, i)'
      PROVE  (Holds(p, i) /\ i \notin J) \/ (p = o /\ i \in J)
  <2>1. CASE p = o
    BY <1>3, <1>5, <2>1 DEF Holds
  <2>2. CASE p # o
    <3>1. Holds(p, i)
      BY <1>1, <1>3, <1>5, <2>2 DEF Holds, Hand
    <3> QED BY <1>4, <3>1
  <2> QED BY <2>1, <2>2
<1>6. \A i \in J : Kind(Serves(o), i)'
  BY <1>1 DEF Kind, Serves
<1>7. \A q \in Runs : Ahead(q)' = Ahead(q)
  BY <1>2, ChunksStay
<1>8. \A q \in Runs : \A a \in Ahead(q) : <<q, a>> \in Item
  BY AheadItems
<1>9. \A q \in Runs : \A a \in Ahead(q) :
         <<q, a>> \notin J /\ item'[<<q, a>>] \in {"absent", "PENDING"}
  BY <1>1 DEF Hands
<1>10. Hands'
  BY <1>1, <1>5, <1>6, <1>7, <1>8, <1>9, HandsMove
<1>11. Retrying'
  BY <1>3 DEF OneOperator, Retrying
<1>12. Undone'
  <2>1. \A w \in Pool : w \in Sessions \ {o}
    BY Assumptions
  <2> QED BY <1>1, <1>3, <2>1, UndoneKeeps DEF Exclusive
<1>13. InterestPostedOnce'
  BY <1>2, OnceKeeps DEF Exclusive
<1> QED BY <1>10, <1>11, <1>12, <1>13 DEF Exclusive

\* The other steps of a caller.
LEMMA CallerRestsExclusive ==
    ASSUME IInv, Exclusive, NEW c \in Callers,
           UNCHANGED <<linked, done, item, queue, working, journal, reopened>>,
           \A p \in Sessions \ {c} : pc'[p] = pc[p],
           c \in Operators => pc'[c] = "dead"
                              \/ (queue[c] = {} /\ \A w \in Pool : Caller[w] = c => pc[w] = "idle")
    PROVE  Exclusive'
<1>1. \A w \in Pool : pc'[w] = pc[w]
  BY Assumptions
<1>2. Hands'
  BY HandsRest DEF Exclusive
<1>3. Retrying'
  <2>1. \A o \in Operators \ {c} : pc'[o] = pc[o]
    BY Assumptions
  <2> QED BY <1>1, <2>1 DEF Retrying, Exclusive
<1>4. Undone'
  BY <1>1, UndoneKeeps DEF Exclusive
<1>5. InterestPostedOnce'
  BY OnceKeeps DEF Exclusive
<1> QED BY <1>2, <1>3, <1>4, <1>5 DEF Exclusive

\* Steps of a worker.

\* A worker whose step changes no other worker and no caller.
LEMMA WorkerRetrying ==
    ASSUME IInv, Exclusive, NEW w \in Pool, pc[w] # "idle" \/ queue[Caller[w]] # {},
           \A p \in Sessions \ {w} : pc'[p] = pc[p],
           \A c \in Callers : queue'[c] \subseteq queue[c]
    PROVE  Retrying'
<1>1. \A o \in Operators : o \in Sessions \ {w} /\ o \in Callers
  BY Assumptions
<1>2. \A v \in Pool : v \in Sessions
  BY Assumptions
<1> QED BY <1>1, <1>2, RetryingKeeps DEF Exclusive

LEMMA TakeItemExclusive ==
    ASSUME IInv, Exclusive, NEW w \in Pool, TakeItem(w)
    PROVE  Exclusive'
<1> BatchTypeOK /\ Hands /\ w \in Sessions /\ w \in Hand /\ Caller[w] \in Callers /\ Caller[w] \in Hand
    /\ Caller[w] \notin Pool
  BY Assumptions DEF IInv, Exclusive, Hand
<1>1. PICK i \in queue[Caller[w]] :
         /\ pc[w] = "idle" /\ pc' = [pc EXCEPT ![w] = "readItem"]
         /\ queue' = [queue EXCEPT ![Caller[w]] = @ \ {i}]
         /\ working' = [working EXCEPT ![w] = i]
         /\ UNCHANGED <<ledgerVars, runVars, interest, item, history>>
  BY DEF TakeItem, Goto
<1>2. UNCHANGED <<linked, done, journal, reopened>>
  BY <1>1 DEF runVars, history, ledgerVars
<1>3. i \in Item /\ Holds(Caller[w], i)
  BY DEF BatchTypeOK, Holds
<1>4. /\ pc'[w] = "readItem" /\ working'[w] = i
      /\ \A p \in Sessions \ {w} : pc'[p] = pc[p]
      /\ \A v \in Pool \ {w} : working'[v] = working[v]
      /\ \A c \in Callers \ {Caller[w]} : queue'[c] = queue[c]
      /\ queue'[Caller[w]] = queue[Caller[w]] \ {i}
  BY <1>1 DEF BatchTypeOK
<1>5. PICK J \in SUBSET Item : J = {i}
  BY <1>3
<1>6. ASSUME NEW p \in Hand, NEW j \in Item, Holds(p, j)'
      PROVE  (Holds(p, j) /\ j \notin J) \/ (p = w /\ j \in J)
  <2>1. CASE p = w
    BY <1>4, <1>5, <1>6, <2>1 DEF Holds
  <2>2. CASE p # w
    <3>1. Holds(p, j)
      BY <1>4, <1>6, <2>2 DEF Holds, Hand
    <3>2. p = Caller[w] => j # i
      BY <1>4, <1>6 DEF Holds
    <3> QED BY <1>3, <1>5, <3>1, <3>2 DEF Hands
  <2> QED BY <2>1, <2>2
<1>7. Kind(Serves(w), i)'
  <2>1. Kind(Caller[w], i)
    BY <1>3 DEF Hands, Serves
  <2> QED BY <1>1, <2>1 DEF Kind, Serves
<1>8. \A q \in Runs : Ahead(q)' = Ahead(q)
  BY <1>2, ChunksStay
<1>9. \A q \in Runs : \A a \in Ahead(q) : <<q, a>> \in Item
  BY AheadItems
<1>10. \A q \in Runs : \A a \in Ahead(q) :
         <<q, a>> \notin J /\ item'[<<q, a>>] \in {"absent", "PENDING"}
  BY <1>1, <1>3, <1>5 DEF Hands
<1>11. Hands'
  BY <1>1, <1>5, <1>6, <1>7, <1>8, <1>9, <1>10, HandsMove
<1>12. Retrying'
  <2>1. \A c \in Callers : queue'[c] \subseteq queue[c]
    BY <1>4
  <2> QED BY <1>4, <2>1, WorkerRetrying
<1>13. Undone'
  BY <1>1, <1>4, Assumptions, UndoneKeeps DEF Exclusive, Deciding
<1>14. InterestPostedOnce'
  BY <1>2, OnceKeeps DEF Exclusive
<1> QED BY <1>11, <1>12, <1>13, <1>14 DEF Exclusive

\* What a worker does to the item it has, nobody else has.
LEMMA OwnItem ==
    ASSUME IInv, Exclusive, NEW w \in Pool, NEW i \in Item, working[w] = i,
           UNCHANGED <<linked, done, queue>>,
           \A j \in Item : j # i => item'[j] = item[j],
           \A v \in Pool \ {w} : working'[v] = working[v] /\ pc'[v] = pc[v],
           \/ working'[w] = None
           \/ working'[w] = i /\ item'[i] = "COMPLETED",
           pc'[w] \notin Deciding
    PROVE  Hands' /\ Undone'
<1> Hands /\ w \in Hand /\ Holds(w, i)
  BY DEF Exclusive, Hand, Holds
<1>1. PICK J \in SUBSET Item : J = IF working'[w] = None THEN {} ELSE {i}
  OBVIOUS
<1>2. ASSUME NEW p \in Hand, NEW j \in Item, Holds(p, j)'
      PROVE  (Holds(p, j) /\ j \notin J /\ j # i) \/ (p = w /\ j \in J)
  <2>1. CASE p = w
    BY <1>1, <1>2, <2>1, Assumptions DEF Holds
  <2>2. CASE p # w
    <3>1. Holds(p, j)
      BY <1>2, <2>2 DEF Holds, Hand
    <3> QED BY <1>1, <2>2, <3>1 DEF Hands
  <2> QED BY <2>1, <2>2
<1>3. \A j \in J : Kind(Serves(w), j)'
  BY <1>1, Assumptions DEF Kind, Serves, Hands
<1>4. \A q \in Runs : Ahead(q)' = Ahead(q)
  BY ChunksStay
<1>5. \A q \in Runs : \A a \in Ahead(q) : <<q, a>> \in Item
  BY AheadItems
<1>6. \A q \in Runs : \A a \in Ahead(q) :
         <<q, a>> \notin J /\ item'[<<q, a>>] \in {"absent", "PENDING"}
  BY <1>1, <1>5 DEF Hands
<1>7. \A p \in Hand, j \in Item \ J : Holds(p, j)' => item'[j] = item[j]
  BY <1>2
<1>8. Hands'
  BY <1>2, <1>3, <1>4, <1>5, <1>6, <1>7, HandsMove
<1>9. Undone'
  <2> SUFFICES ASSUME NEW v \in Pool \ {w}, pc[v] \in Deciding PROVE item'[working[v]] = item[working[v]]
    BY UndoneKeeps DEF Exclusive
  <2>1. working[v] \in Item
    BY DEF IInv, Worker, Deciding
  <2>2. working[v] # i
    BY DEF Hands, Holds, Hand
  <2> QED BY <2>1, <2>2
<1> QED BY <1>8, <1>9

LEMMA ReadItemExclusive ==
    ASSUME IInv, Exclusive, NEW w \in Pool, ReadItem(w)
    PROVE  Exclusive'
<1> BatchTypeOK /\ w \in Sessions /\ Worker(w)
  BY Assumptions DEF IInv
<1>1. pc[w] = "readItem" /\ UNCHANGED <<item, journal, reopened>>
  BY DEF ReadItem, ledgerVars, history
<1>2. InterestPostedOnce'
  BY <1>1, OnceKeeps DEF Exclusive
<1>3. PICK i \in Item : i = working[w]
  BY <1>1 DEF Worker
<1>4. CASE ItemDone(w)
  <2>1. /\ pc'[w] = "idle" /\ working'[w] = None /\ UNCHANGED <<linked, done, queue>>
        /\ \A p \in Sessions \ {w} : pc'[p] = pc[p]
        /\ \A v \in Pool \ {w} : working'[v] = working[v]
    BY <1>4, ItemDoneIs
  <2>2. Hands' /\ Undone'
    BY <1>1, <1>3, <2>1, Assumptions, OwnItem DEF Deciding
  <2>3. Retrying'
    BY <1>1, <2>1, WorkerRetrying
  <2> QED BY <1>2, <2>2, <2>3 DEF Exclusive
<1>5. CASE /\ item[working[w]] # "COMPLETED" /\ pc' = [pc EXCEPT ![w] = "readAccount"]
           /\ UNCHANGED <<runVars, poolVars>>
  <2>1. UNCHANGED <<linked, done, queue, working>>
    BY <1>5 DEF runVars, poolVars
  <2>2. \A p \in Sessions \ {w} : pc'[p] = pc[p]
    BY <1>5 DEF BatchTypeOK
  <2>3. Hands'
    BY <1>1, <2>1, HandsRest DEF Exclusive
  <2>4. Retrying'
    BY <1>1, <2>1, <2>2, WorkerRetrying
  <2>5. Undone'
    BY <1>1, <1>5, <2>1, <2>2, Assumptions DEF Exclusive, Undone
  <2> QED BY <1>2, <2>3, <2>4, <2>5 DEF Exclusive
<1> QED BY <1>4, <1>5 DEF ReadItem, Goto

LEMMA MarkFailedExclusive ==
    ASSUME IInv, Exclusive, NEW w \in Pool, MarkFailed(w)
    PROVE  Exclusive'
<1> BatchTypeOK /\ w \in Sessions /\ Worker(w)
  BY Assumptions DEF IInv
<1>1. /\ pc[w] = "markFailed" /\ ItemDone(w) /\ UNCHANGED ledgerVars
      /\ item' = [item EXCEPT ![working[w]] = "FAILED"] /\ reopened \subseteq reopened'
  BY DEF MarkFailed, SetItem
<1>2. PICK i \in Item : i = working[w]
  BY <1>1 DEF Worker
<1>3. \A j \in Item : j # i => item'[j] = item[j]
  BY <1>1, <1>2 DEF BatchTypeOK
<1>4. /\ pc'[w] = "idle" /\ working'[w] = None /\ UNCHANGED <<linked, done, queue>>
      /\ \A p \in Sessions \ {w} : pc'[p] = pc[p]
      /\ \A v \in Pool \ {w} : working'[v] = working[v]
  BY <1>1, ItemDoneIs
<1>5. Hands' /\ Undone'
  BY <1>2, <1>3, <1>4, Assumptions, OwnItem DEF Deciding
<1>6. Retrying'
  BY <1>1, <1>4, WorkerRetrying
<1>7. InterestPostedOnce'
  BY <1>1, OnceKeeps DEF Exclusive, ledgerVars
<1> QED BY <1>5, <1>6, <1>7 DEF Exclusive

\* A commit of an entry whose cause, if it is an item, is not in the journal.
LEMMA CommitOnce ==
    ASSUME IInv, InterestPostedOnce, NEW p \in Posters, CommitEntry(p), reopened' = reopened,
           entry[p] # None /\ entry[p].cause \in Item => item[entry[p].cause] # "COMPLETED"
    PROVE  InterestPostedOnce'
<1>1. \A n \in DOMAIN journal' :
         \/ n \in DOMAIN journal /\ journal'[n] = journal[n]
         \/ n = Len(journal) + 1 /\ entry[p] # None /\ journal'[n] = entry[p]
  BY CommitIs
<1>2. PICK k \in Nat : k = Len(journal) /\ DOMAIN journal = 1 .. k /\ k + 1 \notin 1 .. k
  BY LenProperties DEF IInv, LedgerInvOf, LedgerTypeOK
<1>3. \A n \in DOMAIN journal' : n \in DOMAIN journal => journal'[n] = journal[n]
  BY <1>1, <1>2
<1>4. ASSUME NEW n \in DOMAIN journal' \ DOMAIN journal, journal'[n].cause \in Item \ reopened
      PROVE  /\ \A m \in DOMAIN journal : journal[m].cause # journal'[n].cause
             /\ \A m \in DOMAIN journal' \ DOMAIN journal :
                   journal'[m].cause = journal'[n].cause => m = n
  <2>1. n = k + 1 /\ entry[p] # None /\ journal'[n] = entry[p]
    BY <1>1, <1>2
  <2>2. PICK i \in Item \ reopened : i = journal'[n].cause
    BY <1>4
  <2>3. item[i] # "COMPLETED"
    BY <2>1, <2>2
  <2>4. \A m \in DOMAIN journal : journal[m].cause # i
    BY <2>2, <2>3, NotYet
  <2>5. \A m \in DOMAIN journal' \ DOMAIN journal : m = k + 1
    BY <1>1, <1>2
  <2> QED BY <2>1, <2>2, <2>4, <2>5
<1> QED BY <1>3, <1>4, OnceGrows

LEMMA CommitItemExclusive ==
    ASSUME IInv, Exclusive, NEW w \in Pool, CommitItem(w)
    PROVE  Exclusive'
<1> BatchTypeOK /\ w \in Sessions /\ w \in Posters /\ Worker(w)
  BY Assumptions DEF IInv
<1>1. /\ pc[w] = "post" /\ CommitEntry(w) /\ reopened' = reopened
      /\ item' = [item EXCEPT ![working[w]] = "COMPLETED"]
  BY DEF CommitItem, SetItem, history
<1>2. PICK i \in Item : i = working[w] /\ i # None
  BY <1>1, Assumptions DEF Worker
<1>3. item'[i] = "COMPLETED" /\ \A j \in Item : j # i => item'[j] = item[j]
  BY <1>1, <1>2 DEF BatchTypeOK
<1>4. InterestPostedOnce'
  <2>1. item[i] # "COMPLETED"
    BY <1>1, <1>2 DEF Exclusive, Undone, Deciding
  <2>2. entry[w] # None => entry[w].cause = i
    BY <1>2 DEF Worker
  <2> QED BY <1>1, <2>1, <2>2, CommitOnce DEF Exclusive
<1>5. CASE ItemDone(w)
  <2>1. /\ pc'[w] = "idle" /\ working'[w] = None /\ UNCHANGED <<linked, done, queue>>
        /\ \A p \in Sessions \ {w} : pc'[p] = pc[p]
        /\ \A v \in Pool \ {w} : working'[v] = working[v]
    BY <1>5, ItemDoneIs
  <2>2. Hands' /\ Undone'
    BY <1>2, <1>3, <2>1, Assumptions, OwnItem DEF Deciding
  <2>3. Retrying'
    BY <1>1, <2>1, WorkerRetrying
  <2> QED BY <1>4, <2>2, <2>3 DEF Exclusive
<1>6. CASE pc' = [pc EXCEPT ![w] = "markFailed"] /\ UNCHANGED <<runVars, poolVars>>
  <2>1. UNCHANGED <<linked, done, queue, working>>
    BY <1>6 DEF runVars, poolVars
  <2>2. pc'[w] = "markFailed" /\ \A p \in Sessions \ {w} : pc'[p] = pc[p]
    BY <1>6 DEF BatchTypeOK
  <2>3. Hands' /\ Undone'
    BY <1>2, <1>3, <2>1, <2>2, Assumptions, OwnItem DEF Deciding
  <2>4. Retrying'
    BY <1>1, <2>1, <2>2, WorkerRetrying
  <2> QED BY <1>4, <2>3, <2>4 DEF Exclusive
<1> QED BY <1>5, <1>6 DEF CommitItem, Goto

LEMMA CommitPaymentExclusive ==
    ASSUME IInv, Exclusive, NEW p \in Payers, CommitPayment(p)
    PROVE  Exclusive'
<1> BatchTypeOK /\ p \in Sessions /\ p \in Posters /\ Payer(p)
  BY Assumptions DEF IInv
<1>1. /\ CommitEntry(p) /\ pc' = [pc EXCEPT ![p] = "done"]
      /\ UNCHANGED <<linked, done, item, queue, working, reopened>>
  BY DEF CommitPayment, Goto, runVars, poolVars, history
<1>2. InterestPostedOnce'
  BY <1>1, CommitOnce DEF Exclusive, Payer
<1>3. \A q \in Sessions \ {p} : pc'[q] = pc[q]
  BY <1>1 DEF BatchTypeOK
<1>4. (\A w \in Pool : pc'[w] = pc[w]) /\ \A o \in Operators : pc'[o] = pc[o]
  BY <1>3, Assumptions
<1>5. Hands' /\ Retrying' /\ Undone'
  BY <1>1, <1>4, HandsRest, RetryingKeeps, UndoneKeeps DEF Exclusive
<1> QED BY <1>2, <1>5 DEF Exclusive

\* A step that ends a transaction without a commit.
LEMMA AbortExclusive ==
    ASSUME IInv, Exclusive, NEW p \in Sessions, Abort(p)
    PROVE  Exclusive'
<1> BatchTypeOK
  BY DEF IInv
<1>1. CASE p \in Runs /\ FailChunk(p)
  BY <1>1, FailChunkExclusive
<1>2. CASE p \in Pool /\ pc[p] \in {"readItem", "readAccount", "markRunning", "post"} /\ Throw(p)
  <2>1. UNCHANGED <<linked, done, item, queue, working, journal, reopened>>
    BY <1>2 DEF Throw, RollbackEntry, runVars, poolVars
  <2>2. pc[p] # "idle" /\ pc'[p] = "markFailed" /\ \A q \in Sessions \ {p} : pc'[q] = pc[q]
    BY <1>2 DEF Throw, Goto, BatchTypeOK
  <2>3. (\A o \in Operators : pc'[o] = pc[o]) /\ \A w \in Pool : w = p \/ pc'[w] = pc[w]
    BY <1>2, <2>2, Assumptions
  <2> QED BY <2>1, <2>2, <2>3, QuietExclusive DEF Deciding
<1>3. CASE p \in Payers /\ AbandonPayment(p)
  <2>1. UNCHANGED <<linked, done, item, queue, working, journal, reopened>>
    BY <1>3 DEF AbandonPayment, RollbackEntry, runVars, poolVars
  <2>2. \A q \in Sessions \ {p} : pc'[q] = pc[q]
    BY <1>3 DEF AbandonPayment, Goto, BatchTypeOK
  <2>3. (\A o \in Operators : pc'[o] = pc[o]) /\ \A w \in Pool : pc'[w] = pc[w]
    BY <1>3, <2>2, Assumptions
  <2> QED BY <2>1, <2>3, QuietExclusive
<1> QED BY <1>1, <1>2, <1>3 DEF Abort

\* The steps of a run that touch neither its items nor the journal.
LEMMA RunRestsExclusive ==
    ASSUME IInv, Exclusive, NEW r \in Runs,
           StartRun(r) \/ FindAccounts(r) \/ BeginChunk(r) \/ UpsertRow(r) \/ Count(r) \/ FinishRun(r)
    PROVE  Exclusive'
<1> r \in Callers /\ r \notin Operators /\ BatchTypeOK
  BY Assumptions DEF IInv
<1>1. UNCHANGED <<linked, done, item, queue, working, journal, reopened>>
  BY DEF StartRun, FindAccounts, BeginChunk, UpsertRow, Count, FinishRun, poolVars, history,
         ledgerVars, sessionVars
<1>2. \A p \in Sessions \ {r} : pc'[p] = pc[p]
  BY DEF StartRun, FindAccounts, BeginChunk, UpsertRow, Count, FinishRun, Goto, BatchTypeOK
<1> QED BY <1>1, <1>2, CallerRestsExclusive

LEMMA CallerEndsExclusive ==
    ASSUME IInv, Exclusive, NEW c \in Callers, PoolDone(c) \/ Audit(c) \/ Reject(c)
    PROVE  Exclusive'
<1> c \in Sessions /\ BatchTypeOK
  BY Assumptions DEF IInv
<1>1. UNCHANGED <<linked, done, item, queue, working, journal, reopened>>
  BY DEF PoolDone, Audit, Reject, runVars, poolVars, history, ledgerVars
<1>2. \A p \in Sessions \ {c} : pc'[p] = pc[p]
  BY DEF PoolDone, Audit, Reject, Goto, BatchTypeOK
<1>3. c \in Operators => pc'[c] = "dead"
                         \/ (queue[c] = {} /\ \A w \in Pool : Caller[w] = c => pc[w] = "idle")
  <2>1. CASE PoolDone(c)
    BY <2>1 DEF PoolDone
  <2>2. CASE Audit(c)
    BY <2>2 DEF Audit, Exclusive, Retrying
  <2>3. CASE Reject(c)
    BY <2>3 DEF Reject, Goto, BatchTypeOK
  <2> QED BY <2>1, <2>2, <2>3
<1> QED BY <1>1, <1>2, <1>3, CallerRestsExclusive

\* The steps of a worker that neither take an item nor have done with it.
LEMMA WorkerRestsExclusive ==
    ASSUME IInv, Exclusive, NEW w \in Pool, ReadAccount(w) \/ MarkRunning(w) \/ Stop(w)
    PROVE  Exclusive'
<1> w \in Sessions /\ BatchTypeOK /\ (\A o \in Operators : o \in Sessions \ {w})
    /\ \A v \in Pool \ {w} : v \in Sessions \ {w}
  BY Assumptions DEF IInv
<1>1. CASE ReadAccount(w)
  <2>1. pc[w] = "readAccount" /\ UNCHANGED <<linked, done, item, queue, working, journal, reopened>>
    BY <1>1 DEF ReadAccount, Throw, RollbackEntry, runVars, poolVars, history, ledgerVars
  <2>2. \A p \in Sessions \ {w} : pc'[p] = pc[p]
    BY <1>1 DEF ReadAccount, Throw, Goto, BatchTypeOK
  <2> QED BY <2>1, <2>2, QuietExclusive DEF Deciding
<1>2. CASE MarkRunning(w)
  <2>1. pc[w] = "markRunning" /\ UNCHANGED <<linked, done, item, queue, working, journal, reopened>>
    BY <1>2 DEF MarkRunning, OpenEntry, runVars, poolVars, history
  <2>2. \A p \in Sessions \ {w} : pc'[p] = pc[p]
    BY <1>2 DEF MarkRunning, Goto, BatchTypeOK
  <2> QED BY <2>1, <2>2, QuietExclusive DEF Deciding
<1>3. CASE Stop(w)
  <2>1. /\ pc[Caller[w]] = "dead" /\ pc'[w] = "dead"
        /\ UNCHANGED <<linked, done, item, queue, working, journal, reopened>>
    BY <1>3 DEF Stop, Goto, RollbackEntry, runVars, poolVars, history, BatchTypeOK
  <2>2. \A p \in Sessions \ {w} : pc'[p] = pc[p]
    BY <1>3 DEF Stop, Goto, BatchTypeOK
  <2>3. Hands'
    BY <2>1, HandsRest DEF Exclusive
  <2>4. Retrying'
    BY <2>1, <2>2 DEF Exclusive, Retrying
  <2>5. Undone'
    BY <2>1, <2>2, UndoneKeeps DEF Exclusive, Deciding
  <2>6. InterestPostedOnce'
    BY <2>1, OnceKeeps DEF Exclusive
  <2> QED BY <2>3, <2>4, <2>5, <2>6 DEF Exclusive
<1> QED BY <1>1, <1>2, <1>3

\* A statement of postJournalEntry.
LEMMA PostExclusive ==
    ASSUME IInv, Exclusive, NEW p \in Posters, Post(p)
    PROVE  Exclusive'
<1>1. UNCHANGED batchVars /\ journal' = journal
  BY PostIs
<1>2. UNCHANGED <<linked, done, item, queue, working, journal, reopened, pc>>
  BY <1>1 DEF batchVars, runVars, poolVars, history
<1> QED BY <1>2, QuietExclusive

LEMMA OpenPaymentExclusive ==
    ASSUME IInv, Exclusive, NEW p \in Payers, OpenPayment(p)
    PROVE  Exclusive'
<1> BatchTypeOK
  BY DEF IInv
<1>1. UNCHANGED <<linked, done, item, queue, working, journal, reopened>>
  BY DEF OpenPayment, OpenEntry, runVars, poolVars, history
<1>2. \A q \in Sessions \ {p} : pc'[q] = pc[q]
  BY DEF OpenPayment, Goto, BatchTypeOK
<1>3. (\A o \in Operators : pc'[o] = pc[o]) /\ \A w \in Pool : pc'[w] = pc[w]
  BY <1>2, Assumptions
<1> QED BY <1>1, <1>3, QuietExclusive

LEMMA InitExclusive == ASSUME Init PROVE Exclusive
<1>1. \A c \in Callers : queue[c] = {}
  BY DEF Init
<1>2. \A w \in Pool : working[w] = None /\ pc[w] = "idle"
  BY Assumptions DEF Init
<1>3. \A p \in Hand, i \in Item : ~ Holds(p, i)
  BY <1>1, <1>2, Assumptions DEF Hand, Holds
<1>4. \A r \in Runs : \A a \in Ahead(r) : <<r, a>> \in Item
  BY AheadItems, InitInv
<1>5. Hands
  BY <1>3, <1>4 DEF Init, Hands
<1>6. Retrying /\ Undone
  BY <1>1, <1>2, Assumptions DEF Retrying, Undone, Deciding
<1>7. InterestPostedOnce
  BY DEF Init, LedgerInit, InterestPostedOnce
<1> QED BY <1>5, <1>6, <1>7 DEF Exclusive

LEMMA NextExclusive ==
    ASSUME IInv, Exclusive, OneOperator, [Next]_vars
    PROVE  Exclusive'
<1>1. ASSUME UNCHANGED vars PROVE Exclusive'
  <2>1. UNCHANGED <<linked, done, item, queue, working, journal, reopened, pc>>
    BY <1>1 DEF vars, batchVars, runVars, poolVars, history, ledgerVars
  <2> QED BY <2>1, QuietExclusive
<1>2. ASSUME NEW p \in Sessions, Step(p) \/ Fail(p) PROVE Exclusive'
  <2>1. ASSUME p \in Runs, RunStep(p) PROVE Exclusive'
    BY <2>1, RunRestsExclusive, CreateItemsExclusive, CommitChunkExclusive DEF RunStep
  <2>2. ASSUME p \in Callers, PoolDone(p) \/ Audit(p) PROVE Exclusive'
    BY <2>2, CallerEndsExclusive
  <2>3. ASSUME p \in Pool, ItemStep(p) PROVE Exclusive'
    BY <2>3, Assumptions, TakeItemExclusive, ReadItemExclusive, WorkerRestsExclusive, PostExclusive,
       CommitItemExclusive, MarkFailedExclusive DEF ItemStep
  <2>4. ASSUME p \in Payers, Post(p) \/ CommitPayment(p) PROVE Exclusive'
    BY <2>4, Assumptions, PostExclusive, CommitPaymentExclusive
  <2>5. ASSUME DeadlockVictim(p) \/ Fail(p) PROVE Exclusive'
    BY <2>5, AbortExclusive DEF DeadlockVictim, Fail
  <2> QED BY <1>2, <2>1, <2>2, <2>3, <2>4, <2>5 DEF Step
<1>3. ASSUME NEW c \in Callers, Reject(c) PROVE Exclusive'
  BY <1>3, CallerEndsExclusive
<1>4. ASSUME NEW w \in Pool, Stop(w) PROVE Exclusive'
  BY <1>4, WorkerRestsExclusive
<1>5. ASSUME NEW r \in Runs, StartRun(r) PROVE Exclusive'
  BY <1>5, RunRestsExclusive
<1>6. ASSUME NEW o \in Operators, Retry(o) PROVE Exclusive'
  BY <1>6, RetryExclusive
<1>7. ASSUME NEW p \in Payers, OpenPayment(p) PROVE Exclusive'
  BY <1>7, OpenPaymentExclusive
<1> QED BY <1>1, <1>2, <1>3, <1>4, <1>5, <1>6, <1>7 DEF Next

\* Whatever chunks, items, commits and acknowledgements fail, and however often
\* an operator retries, the interest of an account is posted once, unless its
\* item was marked FAILED after it had been completed.  With several operators
\* it need not be: two may hold the same FAILED item.
THEOREM PostedOnce == ASSUME OneOperator PROVE Spec => []InterestPostedOnce
<1>1. Init => Exclusive
  BY InitExclusive
<1>2. IInv /\ Exclusive /\ [Next]_vars => Exclusive'
  BY NextExclusive
<1>3. Exclusive => InterestPostedOnce
  BY DEF Exclusive
<1> QED BY <1>1, <1>2, <1>3, Invariance, PTL DEF Spec
=============================================================================
