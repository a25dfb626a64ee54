-------------------------- MODULE StatementsProofs --------------------------
(***************************************************************************)
(* What Statements guarantees for every set of readers, postings, dates    *)
(* and page sizes.  The pages of a reader follow each other because each   *)
(* query asks for what is older than the cursor, and what was shown is     *)
(* newer than the cursor; what was there at the start is shown, named by a *)
(* cursor, or still older than the cursor.  A size that is negative or     *)
(* above the cap gets one page.  Below that lies what orderBy and take     *)
(* return, which is the subject of the first lemmas.                       *)
(***************************************************************************)
EXTENDS Statements, FiniteSetTheorems, SequenceTheorems, TLAPS

PC == {"idle", "query", "audit", "answer", "done"}

Ordered(s) == \A i, j \in DOMAIN s : i < j => Newest(s[i], s[j])

Typed ==
    /\ clock \in 0 .. LastDate
    /\ lines \subseteq Line
    /\ IsFiniteSet(lines)
    /\ posting \in [Posters -> Line \cup {None}]
    /\ pc \in [Calls -> PC]
    /\ limit \in [Readers -> Limits \cup {0}]
    /\ cursor \in [Readers -> Line \cup {None}]
    /\ page \in [Readers -> Seq(Line)]
    /\ shown \in [Readers -> Seq(Line)]
    /\ atStart \in [Readers -> SUBSET lines]
    /\ named \in [Readers -> SUBSET lines]
    /\ audit \in [Calls -> Nat]
    /\ views \in [Calls -> Nat]

\* How many rows a page may have.
Most(p) == IF limit[p] < 0 THEN -limit[p] - 1 ELSE Smaller(limit[p], PageCap) + 1

\* A page is some lines older than the cursor, in order.
Found(p) ==
    /\ \A i \in DOMAIN page[p] :
          page[p][i] \in lines /\ (cursor[p] = None \/ Below(page[p][i], cursor[p]))
    /\ Ordered(page[p])
    /\ Len(page[p]) <= Most(p)
    /\ pc[p] = "idle" => page[p] = <<>>

\* There is a cursor once a page was shown, and what was shown is newer than it.
Behind(p) ==
    /\ Ordered(shown[p])
    /\ pc[p] = "idle" => views[p] = 0
    /\ pc[p] # "done" =>
          IF views[p] = 0 THEN cursor[p] = None /\ shown[p] = <<>>
          ELSE cursor[p] # None /\ \A i \in DOMAIN shown[p] : Newest(shown[p][i], cursor[p])

Covered(p, l) == l \in named[p] \/ \E i \in DOMAIN shown[p] : shown[p][i] = l

\* A line that is not on the page is behind the row that makes the next cursor.
OnPage(p, l) ==
    \/ \E i \in DOMAIN page[p] : page[p][i] = l
    \/ HasMore(p) /\ Below(l, NextCursor(p))

\* Where the lines are that were there at the start, for a size within the cap.
Accounted(p) ==
    limit[p] \in 0 .. PageCap => \A l \in atStart[p] :
        \/ Covered(p, l)
        \/ /\ pc[p] # "done"
           /\ views[p] > 0 => Below(l, cursor[p])
           /\ pc[p] \in {"audit", "answer"} => OnPage(p, l)

\* The rows are those of the largest page, and older lines are behind them.
Cut(rows, l) == Len(rows) = PageCap + 1 /\ \A i \in DOMAIN rows : Newest(rows[i], l)

\* For another size there is one page, of which a negative size shows nothing.
Single(p) ==
    limit[p] \notin 0 .. PageCap =>
        /\ pc[p] # "done" => views[p] = 0
        /\ limit[p] < 0 => shown[p] = <<>>
        /\ limit[p] > PageCap => \A l \in atStart[p] :
              /\ pc[p] \in {"audit", "answer"} =>
                    (\E i \in DOMAIN page[p] : page[p][i] = l) \/ Cut(page[p], l)
              /\ pc[p] = "done" => Covered(p, l) \/ Cut(shown[p], l)

\* The record comes before the answer.
Audited(p) ==
    /\ views[p] <= audit[p]
    /\ pc[p] = "answer" => views[p] < audit[p]

IInv ==
    /\ Typed
    /\ \A p \in Readers : Found(p) /\ Behind(p) /\ Accounted(p) /\ Single(p)
    /\ \A p \in Calls : Audited(p)

-----------------------------------------------------------------------------
(* orderBy and take.                                                       *)

LEMMA LineTyped == ASSUME NEW l \in Line PROVE l[1] \in Nat /\ l[2] \in Nat /\ l = <<l[1], l[2]>>
<1>1. LineIds \subseteq Nat /\ LastDate \in Nat
  BY StatementsAssumption DEF StatementsAssumption
<1>2. PICK d \in 0 .. LastDate, i \in LineIds : l = <<d, i>>
  BY DEF Line
<1> QED BY <1>1, <1>2

\* The order of a statement is total.
LEMMA NewestOrder ==
    ASSUME NEW a \in Line, NEW b \in Line
    PROVE  /\ ~ Newest(a, a)
           /\ Newest(a, b) => ~ Newest(b, a)
           /\ a # b => Newest(a, b) \/ Newest(b, a)
           /\ Below(a, b) <=> Newest(b, a)
  BY LineTyped DEF Newest, Below

LEMMA NewestTransitive ==
    ASSUME NEW a \in Line, NEW b \in Line, NEW c \in Line, Newest(a, b), Newest(b, c)
    PROVE  Newest(a, c)
  BY LineTyped DEF Newest

\* How many lines of S come before l.
Newer(S, l) == {m \in S : Newest(m, l)}
Rank(S, l) == Cardinality(Newer(S, l))

LEMMA RankTyped ==
    ASSUME NEW S \in SUBSET Line, IsFiniteSet(S), NEW l \in S
    PROVE  /\ Rank(S, l) \in Nat /\ Cardinality(S) \in Nat
           /\ Rank(S, l) < Cardinality(S)
           /\ IsFiniteSet(Newer(S, l))
<1>1. Newer(S, l) \in SUBSET (S \ {l})
  BY NewestOrder DEF Newer
<1>2. IsFiniteSet(S \ {l}) /\ Cardinality(S \ {l}) = Cardinality(S) - 1
  BY FS_RemoveElement
<1>3. IsFiniteSet(Newer(S, l)) /\ Cardinality(Newer(S, l)) <= Cardinality(S \ {l})
  BY <1>1, <1>2, FS_Subset
<1>4. Cardinality(S) \in Nat /\ Cardinality(Newer(S, l)) \in Nat /\ Cardinality(S \ {l}) \in Nat
  BY <1>2, <1>3, FS_CardinalityType
<1> QED BY <1>2, <1>3, <1>4 DEF Rank

LEMMA RankGrows ==
    ASSUME NEW S \in SUBSET Line, IsFiniteSet(S), NEW l \in S, NEW m \in S, Newest(m, l)
    PROVE  Rank(S, m) < Rank(S, l)
<1>1. IsFiniteSet(Newer(S, m)) /\ IsFiniteSet(Newer(S, l))
  BY RankTyped
<1>2. Newer(S, m) \cup {m} \in SUBSET Newer(S, l)
  BY NewestTransitive DEF Newer
<1>3. m \notin Newer(S, m)
  BY NewestOrder DEF Newer
<1>4. Cardinality(Newer(S, m) \cup {m}) = Rank(S, m) + 1
  BY <1>1, <1>3, FS_AddElement DEF Rank
<1>5. Cardinality(Newer(S, m) \cup {m}) <= Rank(S, l)
  BY <1>1, <1>2, FS_Subset DEF Rank
<1> QED BY <1>4, <1>5, RankTyped

LEMMA RankOrders ==
    ASSUME NEW S \in SUBSET Line, IsFiniteSet(S), NEW l \in S, NEW m \in S
    PROVE  /\ Rank(S, m) < Rank(S, l) => Newest(m, l)
           /\ Rank(S, m) = Rank(S, l) => m = l
<1>1. Rank(S, m) \in Nat /\ Rank(S, l) \in Nat
  BY RankTyped
<1>2. m # l => Newest(m, l) \/ Newest(l, m)
  BY NewestOrder
<1>3. Newest(m, l) => Rank(S, m) < Rank(S, l)
  BY RankGrows
<1>4. Newest(l, m) => Rank(S, l) < Rank(S, m)
  BY RankGrows
<1> QED BY <1>1, <1>2, <1>3, <1>4

\* Every place is taken: else the lines would share fewer places than there are.
LEMMA RankHit ==
    ASSUME NEW S \in SUBSET Line, IsFiniteSet(S), NEW i \in Nat, i < Cardinality(S)
    PROVE  \E l \in S : Rank(S, l) = i
<1> SUFFICES ASSUME \A l \in S : Rank(S, l) # i PROVE FALSE
  OBVIOUS
<1> DEFINE N == Cardinality(S)
           T == (0 .. (N - 1)) \ {i}
           f == [l \in S |-> Rank(S, l)]
<1>1. N \in Nat /\ i < N
  BY FS_CardinalityType
<1>2. IsFiniteSet(0 .. (N - 1)) /\ Cardinality(0 .. (N - 1)) = N /\ i \in 0 .. (N - 1)
  <2>1. N - 1 \in Int /\ N # 0
    BY <1>1
  <2>2. IsFiniteSet(0 .. (N - 1))
    BY <2>1, FS_Interval
  <2>3. Cardinality(0 .. (N - 1)) = IF 0 > N - 1 THEN 0 ELSE (N - 1) - 0 + 1
    BY <2>1, FS_Interval
  <2> HIDE DEF N
  <2> QED BY <1>1, <2>1, <2>2, <2>3
<1>3. IsFiniteSet(T) /\ Cardinality(T) = N - 1
  <2>1. PICK D : D = 0 .. (N - 1)
    OBVIOUS
  <2> HIDE DEF N
  <2>2. IsFiniteSet(D) /\ i \in D /\ Cardinality(D) = N
    BY <1>2, <2>1
  <2>3. IsFiniteSet(D \ {i}) /\ Cardinality(D \ {i}) = Cardinality(D) - 1
    BY <2>2, FS_RemoveElement
  <2> QED BY <2>1, <2>2, <2>3
<1>4. f \in [S -> T]
  BY <1>1, RankTyped
<1>5. Cardinality(T) < Cardinality(S)
  BY <1>1, <1>3
<1> HIDE DEF T, f
<1>6. \E x, y \in S : x # y /\ f[x] = f[y]
  BY <1>3, <1>4, <1>5, FS_PigeonHole
<1> QED BY <1>6, RankOrders DEF f

LEMMA RowAtIs ==
    ASSUME NEW S \in SUBSET Line, IsFiniteSet(S), NEW i \in Nat \ {0}, i <= Cardinality(S)
    PROVE  RowAt(S, i) \in S /\ Rank(S, RowAt(S, i)) = i - 1
<1>1. i - 1 \in Nat /\ i - 1 < Cardinality(S)
  BY FS_CardinalityType
<1>2. \E l \in S : Cardinality({m \in S : Newest(m, l)}) = i - 1
  BY <1>1, RankHit DEF Rank, Newer
<1> QED BY <1>2 DEF RowAt, Rank, Newer

\* The query returns lines in order, as many as it may; of a size that is not
\* negative, the newest.
LEMMA RowsAre ==
    ASSUME NEW S \in SUBSET Line, IsFiniteSet(S), NEW n \in Int
    PROVE  /\ Rows(S, n) \in Seq(Line)
           /\ Len(Rows(S, n)) \in Nat /\ Len(Rows(S, n)) <= IF n < 0 THEN -n ELSE n
           /\ \A i \in DOMAIN Rows(S, n) : Rows(S, n)[i] \in S
           /\ Ordered(Rows(S, n))
           /\ n >= 0 => \A l \in S :
                 \/ \E i \in DOMAIN Rows(S, n) : Rows(S, n)[i] = l
                 \/ /\ Len(Rows(S, n)) = n
                    /\ \A i \in DOMAIN Rows(S, n) : Newest(Rows(S, n)[i], l)
<1> DEFINE m == IF n < 0 THEN -n ELSE n
           k == Smaller(m, Cardinality(S))
           d == IF n < 0 THEN Cardinality(S) - k ELSE 0
           r == Rows(S, n)
<1>1. /\ Cardinality(S) \in Nat /\ k \in Nat /\ d \in Nat
      /\ k <= m /\ k + d <= Cardinality(S)
      /\ n >= 0 => d = 0 /\ m = n /\ (k = n \/ k = Cardinality(S))
  <2>1. Cardinality(S) \in Nat /\ m \in Nat
    BY FS_CardinalityType
  <2>2. k \in Nat /\ k <= m /\ k <= Cardinality(S) /\ (k = m \/ k = Cardinality(S))
    BY <2>1 DEF Smaller
  <2> HIDE DEF k
  <2> QED BY <2>1, <2>2
<1>2. r = [i \in 1 .. k |-> RowAt(S, d + i)]
  BY DEF Rows
<1> HIDE DEF m, k, d, r
<1>3. \A i \in 1 .. k : r[i] \in S /\ Rank(S, r[i]) = d + i - 1
  <2> SUFFICES ASSUME NEW i \in 1 .. k PROVE r[i] \in S /\ Rank(S, r[i]) = d + i - 1
    OBVIOUS
  <2>1. PICK j \in Nat \ {0} : j = d + i /\ j <= Cardinality(S)
    BY <1>1
  <2>2. RowAt(S, j) \in S /\ Rank(S, RowAt(S, j)) = j - 1
    BY <2>1, RowAtIs
  <2>3. r[i] = RowAt(S, j)
    BY <1>2, <2>1
  <2> QED BY <1>1, <2>1, <2>2, <2>3
<1>4. r \in Seq(Line) /\ Len(r) = k /\ DOMAIN r = 1 .. k
  <2>1. r \in [1 .. k -> Line]
    BY <1>2, <1>3
  <2> QED BY <1>1, <2>1
<1>5. Ordered(r)
  <2> SUFFICES ASSUME NEW i \in 1 .. k, NEW j \in 1 .. k, i < j PROVE Newest(r[i], r[j])
    BY <1>4 DEF Ordered
  <2>1. d + i - 1 < d + j - 1
    BY <1>1
  <2> QED BY <1>3, <2>1, RankOrders
<1>6. ASSUME n >= 0, NEW l \in S, \A i \in 1 .. k : r[i] # l
      PROVE  k = n /\ \A i \in 1 .. k : Newest(r[i], l)
  <2>1. Rank(S, l) \in Nat /\ Rank(S, l) < Cardinality(S) /\ d = 0
    BY <1>1, <1>6, RankTyped
  <2>2. Rank(S, l) >= k
    <3> SUFFICES ASSUME Rank(S, l) < k PROVE FALSE
      BY <1>1, <2>1
    <3>1. Rank(S, l) + 1 \in 1 .. k
      BY <1>1, <2>1
    <3>2. r[Rank(S, l) + 1] = l
      <4>1. /\ r[Rank(S, l) + 1] \in S
            /\ Rank(S, r[Rank(S, l) + 1]) = d + (Rank(S, l) + 1) - 1
        BY <1>3, <3>1
      <4>2. Rank(S, r[Rank(S, l) + 1]) = Rank(S, l)
        BY <2>1, <4>1
      <4> QED BY <4>1, <4>2, RankOrders
    <3> QED BY <1>6, <3>1, <3>2
  <2>3. ASSUME NEW i \in 1 .. k PROVE Newest(r[i], l)
    <3>1. r[i] \in S /\ Rank(S, r[i]) < Rank(S, l)
      BY <1>1, <1>3, <2>1, <2>2
    <3> QED BY <3>1, RankOrders
  <2> QED BY <1>1, <1>6, <2>1, <2>2, <2>3
<1> QED BY <1>1, <1>3, <1>4, <1>5, <1>6 DEF r, m

-----------------------------------------------------------------------------
(* Steps.                                                                  *)

LEMMA InitInv == Init => IInv
<1> SUFFICES ASSUME Init PROVE IInv
  OBVIOUS
<1>1. IsFiniteSet({}) /\ <<>> \in Seq(Line) /\ DOMAIN <<>> = {} /\ Len(<<>>) = 0
      /\ LastDate \in Nat /\ PageCap \in Nat
  BY FS_EmptySet, StatementsAssumption DEF StatementsAssumption
<1>2. Typed
  BY <1>1 DEF Init, Typed, PC
<1>3. ASSUME NEW p \in Readers PROVE Found(p) /\ Behind(p) /\ Accounted(p) /\ Single(p)
  <2>1. p \in Calls
    BY DEF Calls
  <2> QED BY <1>1, <2>1 DEF Init, Found, Most, Behind, Accounted, Single, Ordered, Smaller
<1>4. ASSUME NEW p \in Calls PROVE Audited(p)
  BY DEF Init, Audited
<1> QED BY <1>2, <1>3, <1>4 DEF IInv

LEMMA ReaderKeeps ==
    ASSUME IInv, NEW q \in Readers, lines \subseteq lines',
           pc'[q] = pc[q], limit'[q] = limit[q], cursor'[q] = cursor[q], page'[q] = page[q],
           shown'[q] = shown[q], views'[q] = views[q], atStart'[q] = atStart[q], named'[q] = named[q]
    PROVE  Found(q)' /\ Behind(q)' /\ Accounted(q)' /\ Single(q)'
<1> Found(q) /\ Behind(q) /\ Accounted(q) /\ Single(q)
  BY DEF IInv
<1>1. Found(q)'
  BY DEF Found, Most, Ordered
<1>2. Behind(q)'
  BY DEF Behind, Ordered
<1>3. Accounted(q)'
  BY DEF Accounted, Covered, OnPage, HasMore, NextCursor
<1>4. Single(q)'
  BY DEF Single, Covered, Cut
<1> QED BY <1>1, <1>2, <1>3, <1>4

LEMMA QuietStep ==
    ASSUME IInv, Typed', lines \subseteq lines', UNCHANGED <<pc, readerVars, audit, views>>
    PROVE  IInv'
<1>1. ASSUME NEW q \in Readers PROVE Found(q)' /\ Behind(q)' /\ Accounted(q)' /\ Single(q)'
  BY ReaderKeeps DEF readerVars
<1>2. ASSUME NEW q \in Calls PROVE Audited(q)'
  BY DEF IInv, Audited
<1> QED BY <1>1, <1>2 DEF IInv

\* A call concerns nobody else.
LEMMA CallStep ==
    ASSUME IInv, NEW p \in Calls, Typed', UNCHANGED lines,
           \A q \in Calls \ {p} : pc'[q] = pc[q] /\ audit'[q] = audit[q] /\ views'[q] = views[q],
           \A q \in Readers \ {p} :
              /\ limit'[q] = limit[q] /\ cursor'[q] = cursor[q] /\ page'[q] = page[q]
              /\ shown'[q] = shown[q] /\ atStart'[q] = atStart[q] /\ named'[q] = named[q],
           Audited(p)', p \in Readers => Found(p)' /\ Behind(p)' /\ Accounted(p)' /\ Single(p)'
    PROVE  IInv'
<1>1. ASSUME NEW q \in Readers \ {p} PROVE Found(q)' /\ Behind(q)' /\ Accounted(q)' /\ Single(q)'
  <2>1. q \in Calls \ {p}
    BY DEF Calls
  <2> QED BY <2>1, ReaderKeeps
<1>2. ASSUME NEW q \in Calls \ {p} PROVE Audited(q)'
  BY DEF IInv, Audited
<1> QED BY <1>1, <1>2 DEF IInv

LEMMA PostingInv ==
    ASSUME IInv, Tick \/ \E w \in Posters : DateLine(w) \/ CommitLine(w)
    PROVE  IInv'
<1> Typed /\ LastDate \in Nat
  BY StatementsAssumption DEF IInv, StatementsAssumption
<1>1. CASE Tick
  <2>1. Typed'
    BY <1>1 DEF Tick, Typed, readerVars
  <2> QED BY <1>1, <2>1, QuietStep DEF Tick
<1>2. ASSUME NEW w \in Posters, DateLine(w) PROVE IInv'
  <2>1. PICK id \in LineIds : posting' = [posting EXCEPT ![w] = <<clock, id>>]
    BY <1>2 DEF DateLine
  <2>2. <<clock, id>> \in Line
    BY DEF Typed, Line
  <2>3. Typed'
    BY <1>2, <2>1, <2>2 DEF DateLine, Typed, readerVars
  <2> QED BY <1>2, <2>3, QuietStep DEF DateLine
<1>3. ASSUME NEW w \in Posters, CommitLine(w) PROVE IInv'
  <2>1. lines' = lines \cup {posting[w]} /\ posting[w] \in Line
    BY <1>3 DEF CommitLine, Typed
  <2>2. IsFiniteSet(lines') /\ lines' \subseteq Line /\ lines \subseteq lines'
    BY <2>1, FS_AddElement DEF Typed
  <2>3. \A f \in [Readers -> SUBSET lines] : f \in [Readers -> SUBSET lines']
    BY <2>2
  <2>4. Typed'
    BY <1>3, <2>2, <2>3 DEF CommitLine, Typed, readerVars
  <2> QED BY <1>3, <2>2, <2>4, QuietStep DEF CommitLine
<1> QED BY <1>1, <1>2, <1>3

LEMMA OpenInv == ASSUME IInv, NEW p \in Calls, Open(p) PROVE IInv'
<1> Typed /\ p \in Readers /\ Found(p) /\ Behind(p) /\ Accounted(p) /\ Single(p) /\ Audited(p)
  BY DEF IInv, Open
<1>1. PICK n \in Limits : limit' = [limit EXCEPT ![p] = n]
  BY DEF Open
<1>2. /\ pc[p] = "idle" /\ pc' = [pc EXCEPT ![p] = "query"]
      /\ UNCHANGED <<clock, lines, posting, cursor, page, shown, audit, views, atStart, named>>
  BY DEF Open, Goto
<1>3. Typed'
  BY <1>1, <1>2 DEF Typed, PC
<1>4. n \in Int /\ PageCap \in Nat
  BY StatementsAssumption DEF StatementsAssumption
<1>5. page[p] = <<>> /\ views[p] = 0
  BY <1>2 DEF Found, Behind
<1>6. Found(p)'
  <2>1. Len(page'[p]) = 0 /\ DOMAIN page'[p] = {}
    BY <1>2, <1>5
  <2> QED BY <1>1, <1>2, <1>4, <2>1 DEF Found, Most, Ordered, Smaller, Typed
<1>7. Behind(p)' /\ Accounted(p)' /\ Single(p)' /\ Audited(p)'
  BY <1>2, <1>5 DEF Behind, Accounted, Single, Audited, Typed
<1> QED BY <1>1, <1>2, <1>3, <1>6, <1>7, CallStep DEF Typed

\* A viewer's steps, the audit record and a failure leave the statement alone.
LEMMA AuditInv ==
    ASSUME IInv, NEW p \in Calls, Audit(p) \/ Fail(p) \/ ReadBalance(p) \/ AnswerBalance(p)
    PROVE  IInv'
<1> Typed /\ Audited(p)
  BY DEF IInv
<1>1. PICK to \in PC, n \in Nat, v \in Nat :
         /\ pc' = [pc EXCEPT ![p] = to]
         /\ audit' = [audit EXCEPT ![p] = n]
         /\ views' = [views EXCEPT ![p] = v]
         /\ v <= n /\ (to = "answer" => v < n)
         /\ p \in Readers => /\ v = views[p]
                             /\ pc[p] \in {"audit", "answer"} /\ to \in {"query", "answer"}
                             /\ to = "answer" => pc[p] = "audit"
         /\ UNCHANGED <<clock, lines, posting, readerVars>>
  <2>1. audit[p] \in Nat /\ views[p] \in Nat /\ views[p] <= audit[p]
        /\ (pc[p] = "answer" => views[p] < audit[p])
    BY DEF Typed, Audited
  <2>2. audit = [audit EXCEPT ![p] = audit[p]] /\ views = [views EXCEPT ![p] = views[p]]
    BY DEF Typed
  <2>3. p \in Viewers => p \notin Readers
    BY StatementsAssumption DEF StatementsAssumption
  <2>4. CASE Audit(p)
    <3>1. PICK n \in Nat : n = audit[p] + 1
      BY <2>1
    <3>2. views[p] < n /\ views[p] <= n
      BY <2>1, <3>1
    <3>3. /\ pc[p] = "audit" /\ pc' = [pc EXCEPT ![p] = "answer"]
          /\ audit' = [audit EXCEPT ![p] = n]
          /\ views' = [views EXCEPT ![p] = views[p]]
          /\ UNCHANGED <<clock, lines, posting, readerVars>>
      BY <2>2, <2>4, <3>1 DEF Audit, Goto
    <3> QED BY <2>1, <3>2, <3>3 DEF PC
  <2>5. CASE Fail(p)
    BY <2>1, <2>2, <2>5 DEF Fail, Goto, PC
  <2>6. CASE ReadBalance(p)
    BY <2>1, <2>2, <2>3, <2>6 DEF ReadBalance, Goto, PC
  <2>7. CASE AnswerBalance(p)
    <3>1. views[p] + 1 \in Nat /\ views[p] + 1 <= audit[p]
      BY <2>1, <2>7 DEF AnswerBalance
    <3> QED BY <2>1, <2>2, <2>3, <2>7, <3>1 DEF AnswerBalance, Goto, PC
  <2> QED BY <2>4, <2>5, <2>6, <2>7
<1>2. Typed'
  BY <1>1 DEF Typed, readerVars
<1>3. Audited(p)'
  BY <1>1 DEF Audited, Typed
<1>4. ASSUME p \in Readers PROVE Found(p)' /\ Behind(p)' /\ Accounted(p)' /\ Single(p)'
  <2> Found(p) /\ Behind(p) /\ Accounted(p) /\ Single(p)
    BY <1>4 DEF IInv
  <2>1. /\ pc'[p] = to /\ views'[p] = views[p]
        /\ UNCHANGED <<limit, cursor, page, shown, atStart, named>>
    BY <1>1, <1>4 DEF Typed, readerVars
  <2>2. Found(p)'
    BY <1>1, <1>4, <2>1 DEF Found, Most, Ordered
  <2>3. Behind(p)'
    BY <1>1, <1>4, <2>1 DEF Behind, Ordered
  <2>4. Accounted(p)'
    BY <1>1, <1>4, <2>1 DEF Accounted, Covered, OnPage, HasMore, NextCursor
  <2>5. Single(p)'
    BY <1>1, <1>4, <2>1 DEF Single, Covered, Cut, PC
  <2> QED BY <2>2, <2>3, <2>4, <2>5
<1> QED BY <1>1, <1>2, <1>3, <1>4, CallStep DEF Typed, readerVars

LEMMA LimitsTyped ==
    ASSUME Typed, NEW p \in Readers
    PROVE  LET n == Smaller(limit[p], PageCap) + 1 IN
           /\ limit[p] \in Int /\ PageCap \in Nat /\ n \in Int /\ Most(p) \in Nat
           /\ Most(p) = IF n < 0 THEN -n ELSE n
           /\ limit[p] >= 0 => n >= 0
           /\ limit[p] \in 0 .. PageCap => n = limit[p] + 1
           /\ limit[p] > PageCap => n = PageCap + 1
           /\ limit[p] \notin 0 .. PageCap => limit[p] < 0 \/ limit[p] > PageCap
<1>1. limit[p] \in Int /\ PageCap \in Nat
  <2>1. limit[p] \in Limits \cup {0}
    BY DEF Typed
  <2>2. \A n \in Limits \cup {0} : n \in Int
    BY StatementsAssumption DEF StatementsAssumption
  <2>3. PageCap \in Nat
    BY StatementsAssumption DEF StatementsAssumption
  <2> QED BY <2>1, <2>2, <2>3
<1> QED BY <1>1 DEF Smaller, Most

LEMMA QueryInv == ASSUME IInv, NEW p \in Calls, Query(p) PROVE IInv'
<1> Typed /\ p \in Readers /\ Found(p) /\ Behind(p) /\ Accounted(p) /\ Single(p) /\ Audited(p)
  BY DEF IInv, Query
<1> DEFINE S == {l \in lines : cursor[p] = None \/ Below(l, cursor[p])}
           n == Smaller(limit[p], PageCap) + 1
           r == Rows(S, n)
           a == IF views[p] = 0 THEN lines ELSE atStart[p]
<1>1. /\ pc[p] = "query" /\ pc' = [pc EXCEPT ![p] = "audit"]
      /\ page' = [page EXCEPT ![p] = r]
      /\ atStart' = [atStart EXCEPT ![p] = a]
      /\ UNCHANGED <<clock, lines, posting, limit, cursor, shown, audit, views, named>>
  BY DEF Query, Goto
<1>2. S \in SUBSET Line /\ IsFiniteSet(S) /\ n \in Int
  BY LimitsTyped, FS_Subset DEF Typed
<1>3. /\ r \in Seq(Line) /\ Len(r) <= Most(p)
      /\ \A i \in DOMAIN r : r[i] \in S
      /\ Ordered(r)
      /\ n >= 0 => \A l \in S :
            \/ \E i \in DOMAIN r : r[i] = l
            \/ Len(r) = n /\ \A i \in DOMAIN r : Newest(r[i], l)
  <2>1. Most(p) = IF n < 0 THEN -n ELSE n
    BY LimitsTyped
  <2> HIDE DEF S, n
  <2> QED BY <1>2, <2>1, RowsAre
<1>4. a \in SUBSET lines
  BY DEF Typed
<1> HIDE DEF r, a
<1>5. /\ page'[p] = r /\ atStart'[p] = a /\ pc'[p] = "audit"
      /\ limit'[p] = limit[p] /\ cursor'[p] = cursor[p] /\ shown'[p] = shown[p]
      /\ views'[p] = views[p] /\ named'[p] = named[p] /\ audit'[p] = audit[p]
  BY <1>1 DEF Typed
<1>6. Typed'
  BY <1>1, <1>3, <1>4 DEF Typed, PC
<1>7. Found(p)'
  BY <1>1, <1>3, <1>5 DEF Found, Most, Ordered
<1>8. Behind(p)' /\ Audited(p)'
  BY <1>1, <1>5 DEF Behind, Ordered, Audited
<1>9. Accounted(p)'
  <2> SUFFICES ASSUME limit[p] \in 0 .. PageCap, NEW l \in a, ~ Covered(p, l)
               PROVE  /\ views[p] > 0 => Below(l, cursor[p])
                      /\ OnPage(p, l)'
    BY <1>5 DEF Accounted, Covered
  <2>1. views[p] \in Nat
    BY DEF Typed
  <2>2. views[p] > 0 => Below(l, cursor[p])
    BY <1>1, <2>1 DEF Accounted, a
  <2>3. l \in S
    BY <1>1, <1>4, <2>1, <2>2 DEF Behind
  <2>4. CASE \E i \in DOMAIN r : r[i] = l
    BY <1>5, <2>2, <2>4 DEF OnPage
  <2>5. CASE Len(r) = n /\ \A i \in DOMAIN r : Newest(r[i], l)
    <3>1. limit[p] \in Nat /\ PageCap \in Nat /\ n = limit[p] + 1
      BY LimitsTyped
    <3>2. limit[p] + 1 \in DOMAIN r /\ limit[p] \in 0 .. Len(r) - 1
      BY <1>3, <2>5, <3>1
    <3>3. r[limit[p] + 1] \in Line /\ l \in Line
      BY <1>3, <1>4, <3>2 DEF Typed
    <3>4. Below(l, r[limit[p] + 1])
      BY <2>5, <3>2, <3>3, NewestOrder
    <3> QED BY <1>5, <2>2, <3>2, <3>4 DEF OnPage, HasMore, NextCursor
  <2>6. n >= 0
    BY LimitsTyped
  <2> QED BY <1>3, <2>2, <2>3, <2>4, <2>5, <2>6
<1>10. Single(p)'
  <2> SUFFICES ASSUME limit[p] \notin 0 .. PageCap
               PROVE  /\ views[p] = 0
                      /\ limit[p] < 0 => shown[p] = <<>>
                      /\ limit[p] > PageCap => \A l \in a :
                            (\E i \in DOMAIN r : r[i] = l) \/ Cut(r, l)
    BY <1>5 DEF Single
  <2>1. views[p] = 0 /\ (limit[p] < 0 => shown[p] = <<>>)
    BY <1>1 DEF Single
  <2>2. ASSUME limit[p] > PageCap, NEW l \in a
        PROVE  (\E i \in DOMAIN r : r[i] = l) \/ Cut(r, l)
    <3>1. n = PageCap + 1 /\ n >= 0
      BY <2>2, LimitsTyped
    <3>2. l \in S
      BY <1>1, <1>4, <2>1 DEF Behind
    <3> QED BY <1>3, <3>1, <3>2 DEF Cut
  <2> QED BY <2>1, <2>2
<1> QED BY <1>1, <1>6, <1>7, <1>8, <1>9, <1>10, CallStep DEF Typed

\* What a reader has been shown, and the rows of the page before the next cursor.
LEMMA ShownThen ==
    ASSUME NEW s \in Seq(Line), NEW r \in Seq(Line), NEW n \in Int
    PROVE  LET t == s \o SubSeq(r, 1, Smaller(n, Len(r))) IN
           /\ t \in Seq(Line)
           /\ n < 0 => Len(t) = Len(s)
           /\ n >= Len(r) => Len(t) = Len(s) + Len(r)
           /\ \A i \in DOMAIN s : i \in DOMAIN t /\ t[i] = s[i]
           /\ \A i \in DOMAIN r : i <= n => \E j \in DOMAIN t : t[j] = r[i]
           /\ \A i \in DOMAIN t : \/ i \in DOMAIN s /\ t[i] = s[i]
                                  \/ /\ i - Len(s) \in DOMAIN r /\ i - Len(s) <= n
                                     /\ i > Len(s) /\ t[i] = r[i - Len(s)]
<1> DEFINE h == Smaller(n, Len(r))
           k == IF n < 0 THEN 0 ELSE h
           u == SubSeq(r, 1, h)
           t == s \o u
<1>1. PICK ls \in Nat, lr \in Nat : /\ ls = Len(s) /\ DOMAIN s = 1 .. ls
                                   /\ lr = Len(r) /\ DOMAIN r = 1 .. lr
  OBVIOUS
<1>2. /\ h \in Int /\ h <= lr /\ k \in Nat /\ k <= lr /\ k = (IF 1 <= h THEN h ELSE 0)
      /\ (1 <= k => k <= n) /\ (\A i \in 1 .. lr : i <= n => i <= k)
      /\ (n < 0 => k = 0) /\ (n >= lr => k = lr)
  BY <1>1 DEF Smaller
<1> HIDE DEF k, h
<1>3. u \in Seq(Line) /\ Len(u) = k /\ \A i \in 1 .. k : u[i] = r[i]
  <2>1. 1 \in Int /\ h \in Int /\ \A i \in 1 .. h : r[i] \in Line
    BY <1>1, <1>2
  <2>2. /\ SubSeq(r, 1, h) \in Seq(Line)
        /\ Len(SubSeq(r, 1, h)) = IF 1 <= h THEN h - 1 + 1 ELSE 0
        /\ \A i \in 1 .. h - 1 + 1 : SubSeq(r, 1, h)[i] = r[1 + i - 1]
    BY <2>1, SubSeqProperties
  <2> QED BY <1>2, <2>2
<1> HIDE DEF u
<1>4. /\ t \in Seq(Line) /\ Len(t) = ls + k
      /\ \A i \in 1 .. (ls + k) : t[i] = IF i <= ls THEN s[i] ELSE u[i - ls]
  BY <1>1, <1>3, ConcatProperties
<1> HIDE DEF t
<1>5. DOMAIN t = 1 .. (ls + k)
  BY <1>1, <1>2, <1>4
<1>6. ASSUME NEW i \in 1 .. lr, i <= n PROVE \E j \in 1 .. (ls + k) : t[j] = r[i]
  <2>1. i \in 1 .. k
    BY <1>2, <1>6
  <2>2. ls + i \in 1 .. (ls + k) /\ ~ (ls + i <= ls) /\ (ls + i) - ls = i
    BY <1>2, <2>1
  <2> QED BY <1>3, <1>4, <2>1, <2>2
<1>7. ASSUME NEW i \in 1 .. (ls + k), i > ls
      PROVE  i - ls \in 1 .. lr /\ i - ls <= n /\ t[i] = r[i - ls]
  <2>1. i - ls \in 1 .. k /\ k <= n
    BY <1>2, <1>7
  <2>2. t[i] = u[i - ls] /\ u[i - ls] = r[i - ls]
    BY <1>3, <1>4, <1>7, <2>1
  <2> QED BY <1>2, <2>1, <2>2
<1>8. \A i \in 1 .. ls : i \in 1 .. (ls + k) /\ t[i] = s[i]
  BY <1>2, <1>4
<1>9. \A i \in 1 .. (ls + k) : i \in 1 .. ls \/ i > ls
  BY <1>2
<1>10. (n < 0 => Len(t) = Len(s)) /\ (n >= Len(r) => Len(t) = Len(s) + Len(r))
  <2>1. (n < 0 => k = 0) /\ (n >= lr => k = lr) /\ Len(t) = ls + k
    BY <1>2, <1>4
  <2>2. (n < 0 => Len(t) = ls) /\ (n >= lr => Len(t) = ls + lr)
    BY <2>1
  <2> QED BY <1>1, <2>2
<1>11. \A i \in DOMAIN t : \/ i \in DOMAIN s /\ t[i] = s[i]
                           \/ /\ i - Len(s) \in DOMAIN r /\ i - Len(s) <= n
                              /\ i > Len(s) /\ t[i] = r[i - Len(s)]
  BY <1>1, <1>5, <1>7, <1>8, <1>9
<1>12. /\ \A i \in DOMAIN s : i \in DOMAIN t /\ t[i] = s[i]
       /\ \A i \in DOMAIN r : i <= n => \E j \in DOMAIN t : t[j] = r[i]
  BY <1>1, <1>5, <1>6, <1>8
<1> QED BY <1>4, <1>10, <1>11, <1>12 DEF t, u, h

LEMMA AnswerPageInv == ASSUME IInv, NEW p \in Calls, AnswerPage(p) PROVE IInv'
<1> Typed /\ p \in Readers /\ Found(p) /\ Behind(p) /\ Accounted(p) /\ Single(p) /\ Audited(p)
  BY DEF IInv, AnswerPage
<1> DEFINE s == shown[p]
           r == page[p]
           n == limit[p]
           t == s \o SubSeq(r, 1, Smaller(n, Len(r)))
<1>1. /\ pc[p] = "answer"
      /\ views' = [views EXCEPT ![p] = views[p] + 1]
      /\ shown' = [shown EXCEPT ![p] = t]
      /\ page' = [page EXCEPT ![p] = <<>>]
      /\ \/ /\ HasMore(p)
            /\ cursor' = [cursor EXCEPT ![p] = NextCursor(p)]
            /\ named' = [named EXCEPT ![p] = named[p] \cup {NextCursor(p)}]
            /\ pc' = [pc EXCEPT ![p] = "query"]
         \/ /\ ~ HasMore(p)
            /\ pc' = [pc EXCEPT ![p] = "done"]
            /\ UNCHANGED <<cursor, named>>
      /\ UNCHANGED <<clock, lines, posting, limit, audit, atStart>>
  BY DEF AnswerPage, Goto
<1>2. /\ s \in Seq(Line) /\ r \in Seq(Line) /\ n \in Int /\ PageCap \in Nat
      /\ views[p] \in Nat /\ audit[p] \in Nat
  BY LimitsTyped DEF Typed
<1>3. /\ t \in Seq(Line)
      /\ n < 0 => Len(t) = Len(s)
      /\ n >= Len(r) => Len(t) = Len(s) + Len(r)
      /\ \A i \in DOMAIN s : i \in DOMAIN t /\ t[i] = s[i]
      /\ \A i \in DOMAIN r : i <= n => \E j \in DOMAIN t : t[j] = r[i]
      /\ \A i \in DOMAIN t : \/ i \in DOMAIN s /\ t[i] = s[i]
                             \/ /\ i - Len(s) \in DOMAIN r /\ i - Len(s) <= n
                                /\ i > Len(s) /\ t[i] = r[i - Len(s)]
  <2> HIDE DEF s, r, n
  <2> QED BY <1>2, ShownThen
<1>4. \A i \in DOMAIN s : s[i] \in Line
  BY <1>2
<1>5. \A i \in DOMAIN r : r[i] \in Line /\ r[i] \in lines
  BY <1>2 DEF Found
\* The rows of the page are older than all that was shown before.
<1>6. ASSUME NEW i \in DOMAIN s, NEW j \in DOMAIN r PROVE Newest(s[i], r[j])
  <2>1. cursor[p] # None /\ cursor[p] \in Line /\ Newest(s[i], cursor[p])
    <3>1. s # <<>>
      OBVIOUS
    <3> QED BY <1>1, <1>2, <3>1 DEF Behind, Typed
  <2>2. Newest(cursor[p], r[j])
    BY <1>5, <2>1, NewestOrder DEF Found
  <2> QED BY <1>4, <1>5, <2>1, <2>2, NewestTransitive
<1>7. PICK ls \in Nat : ls = Len(s) /\ DOMAIN s = 1 .. ls
  BY <1>2
<1>8. PICK lt \in Nat : DOMAIN t = 1 .. lt
  BY <1>3
<1>9. \A i, j \in DOMAIN r : i < j => Newest(r[i], r[j])
  BY DEF Found, Ordered
<1>10. \A i, j \in DOMAIN s : i < j => Newest(s[i], s[j])
  BY DEF Behind, Ordered
<1> HIDE DEF s, t, n
<1>11. Ordered(t)
  <2> SUFFICES ASSUME NEW i \in 1 .. lt, NEW j \in 1 .. lt, i < j PROVE Newest(t[i], t[j])
    BY <1>8 DEF Ordered
  <2>1. CASE i \in DOMAIN s /\ t[i] = s[i] /\ j \in DOMAIN s /\ t[j] = s[j]
    BY <1>10, <2>1
  <2>2. CASE i \in DOMAIN s /\ t[i] = s[i] /\ j - ls \in DOMAIN r /\ t[j] = r[j - ls]
    BY <1>6, <2>2
  <2>3. CASE i - ls \in DOMAIN r /\ t[i] = r[i - ls] /\ j - ls \in DOMAIN r /\ t[j] = r[j - ls]
    <3>1. i - ls < j - ls
      OBVIOUS
    <3> QED BY <1>9, <2>3, <3>1
  <2>4. ~ (i > ls /\ j \in DOMAIN s)
    BY <1>7
  <2> QED BY <1>3, <1>7, <1>8, <2>1, <2>2, <2>3, <2>4
<1>12. CASE HasMore(p)
  <2>1. n \in Nat /\ n + 1 \in DOMAIN r /\ NextCursor(p) = r[n + 1]
    BY <1>2, <1>12 DEF HasMore, NextCursor, n
  <2>2. PICK c \in Line : c = r[n + 1] /\ c = NextCursor(p) /\ c \in lines /\ c # None
    <3>1. r[n + 1] \in Line /\ r[n + 1] \in lines
      BY <1>5, <2>1
    <3>2. r[n + 1] # None
      <4>1. r[n + 1] \in Nat \X Nat
        BY <3>1, LineTyped
      <4> QED BY <4>1, StatementsAssumption DEF StatementsAssumption
    <3> QED BY <2>1, <3>1, <3>2
  <2>3. /\ cursor' = [cursor EXCEPT ![p] = c]
        /\ named' = [named EXCEPT ![p] = named[p] \cup {c}]
        /\ pc' = [pc EXCEPT ![p] = "query"]
    BY <1>1, <1>12, <2>2
  <2>4. /\ cursor'[p] = c /\ named'[p] = named[p] \cup {c} /\ pc'[p] = "query"
        /\ shown'[p] = t /\ page'[p] = <<>> /\ views'[p] = views[p] + 1
        /\ limit'[p] = n /\ atStart'[p] = atStart[p] /\ audit'[p] = audit[p]
    BY <1>1, <2>3 DEF Typed, n
  <2>5. Typed'
    <3>1. <<>> \in Seq(Line) /\ views[p] + 1 \in Nat /\ named[p] \cup {c} \in SUBSET lines
      BY <1>2, <2>2 DEF Typed
    <3> QED BY <1>1, <1>3, <2>3, <3>1 DEF Typed, PC
  <2>6. Found(p)'
    <3>1. Len(<<>>) = 0 /\ DOMAIN <<>> = {} /\ Most(p) \in Nat /\ Most(p)' = Most(p)
      BY <1>1, LimitsTyped DEF Most
    <3> QED BY <2>4, <3>1 DEF Found, Ordered
  <2>7. \A i \in DOMAIN t : Newest(t[i], c)
    <3>1. ASSUME NEW i \in DOMAIN s PROVE Newest(s[i], c)
      BY <1>6, <2>1, <2>2, <3>1
    <3>2. ASSUME NEW i \in DOMAIN r, i <= n PROVE Newest(r[i], c)
      <4>1. i < n + 1
        BY <1>2, <3>2
      <4> QED BY <1>9, <2>1, <2>2, <4>1
    <3> QED BY <1>3, <3>1, <3>2
  <2>8. Behind(p)'
    <3>1. views[p] + 1 # 0
      BY <1>2
    <3> QED BY <1>11, <2>2, <2>4, <2>7, <3>1 DEF Behind
  <2>9. Accounted(p)'
    <3> SUFFICES ASSUME n \in 0 .. PageCap, NEW l \in atStart[p], ~ Covered(p, l)'
                 PROVE  Below(l, c)
      BY <2>4 DEF Accounted
    <3>1. ~ Covered(p, l)
      BY <1>3, <2>4 DEF Covered, s
    <3>2. OnPage(p, l)
      BY <1>1, <3>1 DEF Accounted, n
    <3>3. ASSUME NEW i \in DOMAIN r, r[i] = l PROVE Below(l, c)
      <4>1. ~ (i <= n) /\ i # n + 1
        BY <1>3, <2>2, <2>4, <3>3 DEF Covered
      <4>2. n + 1 < i
        BY <1>2, <4>1
      <4>3. Newest(c, l)
        BY <1>9, <2>1, <2>2, <3>3, <4>2
      <4> QED BY <1>5, <3>3, <4>3, NewestOrder
    <3> QED BY <2>2, <3>2, <3>3 DEF OnPage, r
  <2>10. Audited(p)'
    BY <1>1, <1>2, <2>4 DEF Audited
\* A page of another size has no next one.
  <2>11. n \in 0 .. PageCap
    <3>1. Len(r) <= Most(p) /\ Len(r) \in Nat
      BY <1>2 DEF Found
    <3>2. n <= Len(r) - 1 /\ n >= 0
      BY <1>2, <1>12 DEF HasMore, n
    <3> QED BY <1>2, <3>1, <3>2 DEF Most, Smaller, n
  <2>12. Single(p)'
    BY <2>4, <2>11 DEF Single
  <2> QED BY <1>1, <2>3, <2>5, <2>6, <2>8, <2>9, <2>10, <2>12, CallStep DEF Typed
<1>13. CASE ~ HasMore(p)
  <2>1. /\ pc' = [pc EXCEPT ![p] = "done"]
        /\ UNCHANGED <<cursor, named>>
    BY <1>1, <1>13
  <2>2. /\ cursor'[p] = cursor[p] /\ named'[p] = named[p] /\ pc'[p] = "done"
        /\ shown'[p] = t /\ page'[p] = <<>> /\ views'[p] = views[p] + 1
        /\ limit'[p] = n /\ atStart'[p] = atStart[p] /\ audit'[p] = audit[p]
    BY <1>1, <2>1 DEF Typed, n
  <2>3. Typed'
    <3>1. <<>> \in Seq(Line) /\ views[p] + 1 \in Nat
      BY <1>2
    <3> QED BY <1>1, <1>3, <2>1, <3>1 DEF Typed, PC
  <2>4. Found(p)'
    <3>1. Len(<<>>) = 0 /\ DOMAIN <<>> = {} /\ Most(p) \in Nat /\ Most(p)' = Most(p)
      BY <1>1, LimitsTyped DEF Most
    <3> QED BY <2>2, <3>1 DEF Found, Ordered
  <2>5. Behind(p)' /\ Audited(p)'
    BY <1>1, <1>2, <1>11, <2>2 DEF Behind, Audited
  <2>6. Accounted(p)'
    <3> SUFFICES ASSUME n \in 0 .. PageCap, NEW l \in atStart[p], ~ Covered(p, l)'
                 PROVE  FALSE
      BY <2>2 DEF Accounted
    <3>1. ~ Covered(p, l)
      BY <1>3, <2>2 DEF Covered, s
    <3>2. PICK i \in DOMAIN r : r[i] = l
      BY <1>1, <1>13, <3>1 DEF Accounted, OnPage, n
    <3>3. i <= n
      BY <1>2, <1>13, <3>2 DEF HasMore, n
    <3> QED BY <1>3, <2>2, <3>2, <3>3 DEF Covered
  <2>7. Single(p)'
    <3> SUFFICES ASSUME n \notin 0 .. PageCap
                 PROVE  /\ n < 0 => t = <<>>
                        /\ n > PageCap => \A l \in atStart[p] : Covered(p, l)' \/ Cut(t, l)
      BY <2>2 DEF Single
    <3>1. s = <<>> /\ Len(s) = 0 /\ DOMAIN s = {}
      BY <1>1 DEF Single, Behind, s, n
    <3>2. n < 0 => t = <<>>
      BY <1>3, <3>1
    <3>3. ASSUME n > PageCap, NEW l \in atStart[p], ~ Covered(p, l)' PROVE Cut(t, l)
      <4>1. Len(r) <= PageCap + 1 /\ Len(r) \in Nat
        BY <1>2, <3>3 DEF Found, Most, Smaller, n
      <4>2. Len(t) = Len(r)
        BY <1>2, <1>3, <3>1, <3>3, <4>1
      <4>3. \A i \in DOMAIN t : i \in DOMAIN r /\ t[i] = r[i]
        BY <1>3, <1>8, <3>1
      <4>4. \A i \in DOMAIN r : r[i] # l
        <5>1. \A i \in DOMAIN r : i <= n
          BY <1>2, <3>3, <4>1
        <5> QED BY <1>3, <2>2, <3>3, <5>1 DEF Covered
      <4>5. Cut(r, l)
        BY <1>1, <1>2, <3>3, <4>4 DEF Single, n
      <4> QED BY <4>2, <4>3, <4>5 DEF Cut
    <3> QED BY <3>2, <3>3
  <2> QED BY <1>1, <2>1, <2>3, <2>4, <2>5, <2>6, <2>7, CallStep DEF Typed
<1> QED BY <1>12, <1>13

-----------------------------------------------------------------------------
\* The invariant holds in every reachable state.
THEOREM Invariance == Spec => []IInv
<1>1. IInv /\ [Next]_vars => IInv'
  <2> SUFFICES ASSUME IInv, [Next]_vars PROVE IInv'
    OBVIOUS
  <2>1. CASE Tick \/ \E w \in Posters : DateLine(w) \/ CommitLine(w)
    BY <2>1, PostingInv
  <2>2. ASSUME NEW p \in Calls,
               Open(p) \/ Query(p) \/ AnswerPage(p) \/ ReadBalance(p) \/ AnswerBalance(p)
                 \/ Audit(p) \/ Fail(p)
        PROVE  IInv'
    BY <2>2, OpenInv, QueryInv, AnswerPageInv, AuditInv
  <2>3. CASE UNCHANGED vars
    <3>1. Typed'
      BY <2>3 DEF IInv, Typed, vars, readerVars
    <3> QED BY <2>3, <3>1, QuietStep DEF vars
  <2> QED BY <2>1, <2>2, <2>3 DEF Next
<1> QED BY InitInv, <1>1, PTL DEF Spec

\* Every variable keeps its type, and no page is longer than asked for or allowed.
THEOREM TypeCorrect == Spec => []TypeOK
<1>1. IInv => TypeOK
  BY DEF IInv, Typed, TypeOK, PC, Found, Most
<1> QED BY <1>1, Invariance, PTL

\* The pages of a statement make one list, newest first, without repetition,
\* whatever is posted between them.
THEOREM OneList == Spec => []PagesInOrder
<1>1. IInv => PagesInOrder
  BY DEF IInv, Behind, Ordered, PagesInOrder
<1> QED BY <1>1, Invariance, PTL

\* What was there at the start is shown, or is a line a cursor was made of, for
\* every size within the cap; above it one page of the newest lines is shown,
\* and of a negative size nothing.
THEOREM NothingElseMissing == Spec => []OnlyCursorLinesMissing
<1>1. IInv => OnlyCursorLinesMissing
  <2> SUFFICES ASSUME IInv, NEW p \in Readers, pc[p] = "done", NEW l \in atStart[p],
                      ~ Covered(p, l)
               PROVE  \/ limit[p] < 0 /\ shown[p] = <<>>
                      \/ limit[p] > PageCap /\ Cut(shown[p], l)
    BY DEF OnlyCursorLinesMissing, Covered, Cut, Range
  <2>1. limit[p] \notin 0 .. PageCap
    BY DEF IInv, Accounted
  <2> QED BY <2>1, LimitsTyped DEF IInv, Single
<1> QED BY <1>1, Invariance, PTL

\* There is an audit record for every answer that was given.
THEOREM AuditedViews == Spec => []ViewsAreAudited
<1>1. IInv => ViewsAreAudited
  BY DEF IInv, Audited, ViewsAreAudited
<1> QED BY <1>1, Invariance, PTL
=============================================================================
