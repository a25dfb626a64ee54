--------------------------- MODULE ReadCommitted ---------------------------
(***************************************************************************)
(* PostgreSQL as this code uses it.  No transaction of the repository asks *)
(* for an isolation level, so each runs at READ COMMITTED: a statement     *)
(* reads what is committed when it runs (and the transaction's own         *)
(* writes), takes no lock to read, and locks what it writes until the      *)
(* transaction ends.  What a session has locked is all this module keeps;  *)
(* the components keep the uncommitted writes themselves, in variables     *)
(* indexed by session, and publish them in the action that commits.        *)
(*                                                                         *)
(* A row is whatever can be written by at most one open transaction: a row *)
(* being updated, or the entry of a unique index being inserted.  A second *)
(* writer waits for the first to commit or roll back.                      *)
(***************************************************************************)

CONSTANT Sessions      \* the database sessions, one per running handler

VARIABLE held          \* held[p]: the rows the open transaction of p has written

NoLocks == [p \in Sessions |-> {}]

\* No other open transaction has written the row.
Free(p, row) == \A q \in Sessions \ {p} : row \notin held[q]

\* The statement of p that writes row: it waits until the row is free.
Acquire(p, row) ==
    /\ Free(p, row)
    /\ held' = [held EXCEPT ![p] = @ \cup {row}]

\* p waits, and does so in a cycle of transactions that wait for one another;
\* wanted[q] is the rows the next statement of q writes.
Deadlocked(p, wanted) ==
    /\ wanted[p] # {}
    /\ \E S \in SUBSET Sessions :
          p \in S /\ \A q \in S : \E x \in S \ {q} : wanted[q] \cap held[x] # {}

\* COMMIT or ROLLBACK.
Release(p) == held' = [held EXCEPT ![p] = {}]

\* No row is being written by two open transactions.
LocksExclusive == \A p, q \in Sessions : p # q => held[p] \cap held[q] = {}
=============================================================================
