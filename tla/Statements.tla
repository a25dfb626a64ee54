----------------------------- MODULE Statements -----------------------------
(***************************************************************************)
(* AccountsService: a customer or an operator looks at the balance of an   *)
(* account, or reads its statement page by page with a cursor, while       *)
(* entries are being posted on it.  A line is dated when its transaction   *)
(* makes the entry (new Date() of the caller of postJournalEntry) and is   *)
(* there when that transaction commits, so lines come in another order     *)
(* than their dates, and several may have one date.                        *)
(***************************************************************************)
EXTENDS Integers, Sequences, FiniteSets, Functions

CONSTANTS Readers,     \* calls of getLedgerEntries that follow the cursors to the end
          Viewers,     \* calls of getBalance
          Posters,     \* transactions that post one line each on the account
          LineIds,     \* ids of statement lines: random, and ordered
          LastDate,    \* bound on the clock
          Limits,      \* page sizes that may be asked for: nobody checks them
          ContractLimits,  \* the page sizes of the API contract: 1 .. 200
          PageCap,     \* the page size that take allows: 100 in the code
          MaxLost,     \* bound on the answers of a call that get lost
          None

ASSUME StatementsAssumption ==
    /\ LineIds \subseteq Nat
    /\ Limits \subseteq Int
    /\ PageCap \in Nat \ {0}
    /\ LastDate \in Nat
    /\ MaxLost \in Nat
    /\ Readers \cap Viewers = {}
    /\ None \notin Nat \X Nat

VARIABLES
    clock,    \* the time
    lines,    \* committed account_statement_projection rows: date and id
    posting,  \* posting[w]: the line a transaction posts or has posted, or None
    pc,       \* pc[p]: where a call is
    limit,    \* limit[p]: the page size a reader asks for
    cursor,   \* cursor[p]: the cursor of its next page, or None
    page,     \* page[p]: the rows its query has found
    shown,    \* shown[p]: the lines it has been shown, in that order
    audit,    \* audit[p]: how many audit records the calls of p have left
    views,    \* history: how many answers p has got
    atStart,  \* history: the lines there were when its first query ran
    named     \* history: the lines the cursors of p stood for

readerVars == <<limit, cursor, page, shown, atStart, named>>
vars == <<clock, lines, posting, pc, readerVars, audit, views>>

Calls == Readers \cup Viewers

Init ==
    /\ clock = 0
    /\ lines = {}
    /\ posting = [w \in Posters |-> None]
    /\ pc = [p \in Calls |-> "idle"]
    /\ limit = [p \in Readers |-> 0]
    /\ cursor = [p \in Readers |-> None]
    /\ page = [p \in Readers |-> <<>>]
    /\ shown = [p \in Readers |-> <<>>]
    /\ audit = [p \in Calls |-> 0]
    /\ views = [p \in Calls |-> 0]
    /\ atStart = [p \in Readers |-> {}]
    /\ named = [p \in Readers |-> {}]

Goto(p, label) == pc' = [pc EXCEPT ![p] = label]

-----------------------------------------------------------------------------
(* Postings.                                                               *)

Tick ==
    /\ clock < LastDate
    /\ clock' = clock + 1
    /\ UNCHANGED <<lines, posting, pc, readerVars, audit, views>>

\* new Date() of the entry, and a uuid for the line.
DateLine(w) == \E id \in LineIds :
    /\ posting[w] = None
    /\ \A v \in Posters : posting[v] \notin (0 .. LastDate) \X {id}
    /\ posting' = [posting EXCEPT ![w] = <<clock, id>>]
    /\ UNCHANGED <<clock, lines, pc, readerVars, audit, views>>

CommitLine(w) ==
    /\ posting[w] \notin {None} \cup lines
    /\ lines' = lines \cup {posting[w]}
    /\ UNCHANGED <<clock, posting, pc, readerVars, audit, views>>

-----------------------------------------------------------------------------
(* getLedgerEntries                                                        *)

\* Mutant: lines of the cursor's own date are left out.
Below_DateOnly(l, c) == l[1] < c[1]

\* Mutant: lines of the cursor's own date are found again.
Below_DateAgain(l, c) == l[1] <= c[1] /\ l # c

\* The where clause, for a line and a cursor.
Below(l, c) == l[1] < c[1] \/ (l[1] = c[1] /\ l[2] < c[2])

\* orderBy effectiveAt desc, id desc
Newest(l, m) == l[1] > m[1] \/ (l[1] = m[1] /\ l[2] > m[2])

Smaller(m, n) == IF m < n THEN m ELSE n

\* orderBy puts a line behind all that are newer.
RowAt(S, i) == CHOOSE l \in S : Cardinality({m \in S : Newest(m, l)}) = i - 1

\* Mutant: the query has no limit.
Rows_All(S, n) == [i \in 1 .. Cardinality(S) |-> RowAt(S, i)]

\* take: the first rows, or, of a negative number, the last ones.
Rows(S, n) ==
    LET size == Cardinality(S)
        taken == Smaller(IF n < 0 THEN -n ELSE n, size)
        skipped == IF n < 0 THEN size - taken ELSE 0
    IN  [i \in 1 .. taken |-> RowAt(S, skipped + i)]

\* A client opens a statement with a page size it keeps.
Open(p) == \E n \in Limits :
    /\ p \in Readers
    /\ pc[p] = "idle"
    /\ limit' = [limit EXCEPT ![p] = n]
    /\ Goto(p, "query")
    /\ UNCHANGED <<clock, lines, posting, cursor, page, shown, audit, views, atStart, named>>

\* accountStatementProjection.findMany
Query(p) ==
    /\ p \in Readers
    /\ pc[p] = "query"
    /\ page' = [page EXCEPT ![p] =
         Rows({l \in lines : cursor[p] = None \/ Below(l, cursor[p])},
              Smaller(limit[p], PageCap) + 1)]
    /\ atStart' = [atStart EXCEPT ![p] = IF views[p] = 0 THEN lines ELSE @]
    /\ Goto(p, "audit")
    /\ UNCHANGED <<clock, lines, posting, limit, cursor, shown, audit, views, named>>

\* The row after the items, if the page has one: there is none at an index below 0.
HasMore(p) == limit[p] \in 0 .. Len(page[p]) - 1

\* The cursor is made of the first row that is not shown.
NextCursor(p) == page[p][limit[p] + 1]

\* The items are the first rows, up to the limit; a negative one leaves none of
\* the fewer rows that were taken.
AnswerPage(p) ==
    /\ p \in Readers
    /\ pc[p] = "answer"
    /\ views' = [views EXCEPT ![p] = @ + 1]
    /\ shown' = [shown EXCEPT ![p] = @ \o SubSeq(page[p], 1, Smaller(limit[p], Len(page[p])))]
    /\ page' = [page EXCEPT ![p] = <<>>]
    /\ \/ /\ HasMore(p)
          /\ cursor' = [cursor EXCEPT ![p] = NextCursor(p)]
          /\ named' = [named EXCEPT ![p] = @ \cup {NextCursor(p)}]
          /\ Goto(p, "query")
       \/ /\ ~ HasMore(p)
          /\ Goto(p, "done")
          /\ UNCHANGED <<cursor, named>>
    /\ UNCHANGED <<clock, lines, posting, limit, audit, atStart>>

-----------------------------------------------------------------------------
(* getBalance, whose answer is one row, and what both calls do.            *)

ReadBalance(p) ==
    /\ p \in Viewers
    /\ pc[p] = "idle"
    /\ Goto(p, "audit")
    /\ UNCHANGED <<clock, lines, posting, readerVars, audit, views>>

AnswerBalance(p) ==
    /\ p \in Viewers
    /\ pc[p] = "answer"
    /\ views' = [views EXCEPT ![p] = @ + 1]
    /\ Goto(p, "done")
    /\ UNCHANGED <<clock, lines, posting, readerVars, audit>>

\* Mutant: only the first page of a statement is audited.
Audit_First(p) ==
    /\ pc[p] = "audit"
    /\ audit' = [audit EXCEPT ![p] = 1]
    /\ Goto(p, "answer")
    /\ UNCHANGED <<clock, lines, posting, readerVars, views>>

\* auditService.record, between the read and the answer.
Audit(p) ==
    /\ pc[p] = "audit"
    /\ audit' = [audit EXCEPT ![p] = @ + 1]
    /\ Goto(p, "answer")
    /\ UNCHANGED <<clock, lines, posting, readerVars, views>>

\* A statement fails or the answer gets lost; the client asks again.
Fail(p) ==
    /\ \/ pc[p] = "audit"
       \/ pc[p] = "answer" /\ audit[p] - views[p] <= MaxLost
    /\ Goto(p, IF p \in Readers THEN "query" ELSE "idle")
    /\ UNCHANGED <<clock, lines, posting, readerVars, audit, views>>

Next ==
    \/ Tick
    \/ \E w \in Posters : DateLine(w) \/ CommitLine(w)
    \/ \E p \in Calls :
          \/ Open(p) \/ Query(p) \/ AnswerPage(p)
          \/ ReadBalance(p) \/ AnswerBalance(p)
          \/ Audit(p) \/ Fail(p)

Spec == Init /\ [][Next]_vars

-----------------------------------------------------------------------------
Line == (0 .. LastDate) \X LineIds

TypeOK ==
    /\ clock \in 0 .. LastDate
    /\ lines \subseteq Line
    /\ posting \in [Posters -> Line \cup {None}]
    /\ pc \in [Calls -> {"idle", "query", "audit", "answer", "done"}]
    /\ limit \in [Readers -> Limits \cup {0}]
    /\ cursor \in [Readers -> Line \cup {None}]
    /\ \A p \in Readers :
          /\ page[p] \in Seq(Line)
          /\ Len(page[p]) <= IF limit[p] < 0 THEN -limit[p] - 1
                              ELSE Smaller(limit[p], PageCap) + 1
          /\ shown[p] \in Seq(Line)
          /\ named[p] \subseteq lines
    /\ audit \in [Calls -> Nat]
    /\ views \in [Calls -> Nat]

\* "Entries should be ordered by effective time, then deterministic tiebreaker":
\* the pages of a statement make one list in that order, so that no line is
\* shown twice, whatever is posted between the pages.
PagesInOrder ==
    \A p \in Readers : \A i, j \in DOMAIN shown[p] :
        i < j => Newest(shown[p][i], shown[p][j])

\* What becomes of the lines there were at the start when a statement ends, for
\* every page size that may be asked for: each has been shown, except those that
\* a cursor was made of; those behind the one page, of the cap and one line, that
\* a size above the cap is answered with; and all of them if the size is
\* negative.
OnlyCursorLinesMissing ==
    \A p \in Readers : pc[p] = "done" =>
        \A l \in atStart[p] \ (Range(shown[p]) \cup named[p]) :
            \/ limit[p] < 0 /\ shown[p] = <<>>
            \/ /\ limit[p] > PageCap
               /\ Len(shown[p]) = PageCap + 1
               /\ \A i \in DOMAIN shown[p] : Newest(shown[p][i], l)

\* "Sensitive actions such as viewing balances [...] require an audit record":
\* nobody has seen more answers than there are records of his views.
ViewsAreAudited == \A p \in Calls : views[p] <= audit[p]

\* "Return paginated journal-entry history relevant to the account", with "limit
\* [...] minimum: 1, maximum: 200": for every size of the contract the pages show
\* every line there was when the first one was asked for.
EveryLineShown ==
    \A p \in Readers :
        pc[p] = "done" /\ limit[p] \in ContractLimits => atStart[p] \subseteq Range(shown[p])
=============================================================================
