------------------------- MODULE AuthSessionsProofs -------------------------
(***************************************************************************)
(* What AuthSessions guarantees for any number of calls and faults.  The   *)
(* argument is one inductive invariant, IInv: a revocation that has locked *)
(* its session row finds the session ACTIVE until it commits, one that has *)
(* not found it ended; a token that is spent was spent by a refresh that   *)
(* has committed, or its session has ended; and what ended stays so.       *)
(***************************************************************************)
EXTENDS AuthSessions, TLAPS

Ended(s) == session[s] \in {"REVOKED", "EXPIRED"}

Rotating == {"spendToken", "touchSession", "commitRotation"}
Revoking == {"revokeSession", "matchTokens", "revokeTokens"}

\* Where a call stands: it makes its rows by the end, presents a token that was
\* issued, and has read of that token what may be out of date but was true.
Called(p) ==
    /\ pc[p] = "idle" => presented[p] = None
    /\ pc[p] \notin {"audit", "done"} => token[p] = None /\ session[p] = "absent"
    /\ pc[p] # "done" => answer[p] \notin Answers
    /\ pc[p] = "issue" => op[p] = "login"
    /\ pc[p] \in {"readSession", "expireSession"} \cup Rotating => op[p] = "refresh"
    /\ pc[p] \in Revoking => op[p] \in {"refresh", "logout"}
    /\ pc[p] \in {"readSession", "expireSession"} \cup Rotating \cup Revoking => presented[p] # None
    /\ presented[p] # None => token[presented[p]] # None
    /\ pc[p] = "audit" /\ op[p] = "logout" => presented[p] # None /\ Ended(SessionOf(p))
    /\ pc[p] = "audit" /\ op[p] # "logout" => token[p] # None
    /\ answer[p] = "tokens" => token[p] # None

\* What a refresh has read of its token.
Read(p) ==
    op[p] = "refresh" =>
        /\ pc[p] = "readSession" =>
              /\ seen[p] \in Token
              /\ seen[p].session = SessionOf(p)
              /\ Spent(seen[p]) => token[presented[p]].revoked
        /\ pc[p] \in Revoking => token[presented[p]].revoked

\* A refresh whose session had ended when it began does not get far.
TooLate(p) ==
    p \in endedBefore =>
        /\ op[p] = "refresh"
        /\ presented[p] # None
        /\ Ended(SessionOf(p))
        /\ pc[p] \notin Rotating \cup {"idle", "audit"}
        /\ answer[p] # "tokens"

\* Who was told that the session is over.
Told(p) ==
    /\ answer[p] \in {"loggedOut", "refresh_token_replayed", "refresh_token_expired"}
    /\ presented[p] # None
    => Ended(SessionOf(p))

\* What a call has locked.
Locked(p) ==
    /\ pc[p] \in {"touchSession", "commitRotation"} =>
          held[p] \subseteq {TokenRow(presented[p]), SessionRow(SessionOf(p))}
    /\ pc[p] \notin {"touchSession", "commitRotation", "matchTokens", "revokeTokens"} => held[p] = {}
    /\ pc[p] \in {"matchTokens", "revokeTokens"} =>
          /\ SessionRow(SessionOf(p)) \notin held[p] => Ended(SessionOf(p))
          /\ \A s \in Sessions : SessionRow(s) \in held[p] => s = SessionOf(p) /\ session[s] = "ACTIVE"
          /\ \A t \in Sessions : TokenRow(t) \in held[p] =>
                token[t] # None /\ token[t].session = SessionOf(p)
    /\ pc[p] # "revokeTokens" => toRevoke[p] = {}
    /\ \A t \in toRevoke[p] : token[t] # None /\ token[t].session = SessionOf(p)

\* A token is of a session that was opened.  It was revoked by a refresh that
\* replaced it, unless its session has ended.
Issued(t) ==
    token[t] # None =>
        /\ session[token[t].session] # "absent"
        /\ token[t].revoked =>
              \/ Ended(token[t].session)
              \/ \E q \in Sessions : presented[q] = t /\ op[q] = "refresh" /\ token[q] # None
        /\ token[t].replacedBy # None =>
              /\ token[t].revoked
              /\ token[token[t].replacedBy] # None
              /\ token[token[t].replacedBy].session = token[t].session

Row == {SessionRow(s) : s \in Sessions} \cup {TokenRow(t) : t \in Sessions}

PC == {"idle", "issue", "readSession", "spendToken", "touchSession", "commitRotation",
       "revokeSession", "matchTokens", "revokeTokens", "expireSession", "audit", "done"}

Typed ==
    /\ held \in [Sessions -> SUBSET Row]
    /\ session \in [Sessions -> {"absent", "ACTIVE", "REVOKED", "EXPIRED"}]
    /\ token \in [Sessions -> Token \cup {None}]
    /\ late \subseteq Sessions
    /\ op \in [Sessions -> {"login", "refresh", "logout", None}]
    /\ presented \in [Sessions -> Sessions \cup {None}]
    /\ seen \in [Sessions -> Token \cup {None}]
    /\ toRevoke \in [Sessions -> SUBSET Sessions]
    /\ pc \in [Sessions -> PC]
    /\ answer \in [Sessions -> Answers \cup {None}]
    /\ endedBefore \subseteq Sessions
    /\ faults \in 0 .. MaxFaults

IInv ==
    /\ Typed
    /\ LocksExclusive
    /\ \A p \in Sessions : Called(p) /\ Read(p) /\ TooLate(p) /\ Told(p) /\ Locked(p)
    /\ \A t \in Sessions : Issued(t)
    /\ ActiveSessionHasToken
    /\ RevokedForAReason
-----------------------------------------------------------------------------
LEMMA TypesOfIInv == IInv => TypeOK
  BY DEF IInv, Typed, Issued, TypeOK, PC

LEMMA RowsDistinct ==
    ASSUME NEW x, NEW y
    PROVE  /\ SessionRow(x) # TokenRow(y)
           /\ SessionRow(x) = SessionRow(y) => x = y
           /\ TokenRow(x) = TokenRow(y) => x = y
  BY DEF SessionRow, TokenRow

-----------------------------------------------------------------------------
(* What every step keeps.                                                  *)

\* A token stays of its session and stays revoked, a session stays ended, a
\* call keeps what it was asked.
Grows ==
    /\ \A t \in Sessions : token[t] # None =>
          /\ token'[t] # None
          /\ token'[t].session = token[t].session
          /\ token[t].revoked => token'[t].revoked
    /\ \A s \in Sessions :
          /\ Ended(s) => session'[s] = session[s]
          /\ session[s] # "absent" => session'[s] # "absent"
    /\ \A p \in Sessions : presented[p] # None =>
          presented'[p] = presented[p] /\ op'[p] = op[p]

\* A step of another call leaves q where it is, the session it has locked too.
Untouched(q) ==
    /\ pc'[q] = pc[q] /\ op'[q] = op[q] /\ presented'[q] = presented[q]
    /\ seen'[q] = seen[q] /\ toRevoke'[q] = toRevoke[q] /\ answer'[q] = answer[q]
    /\ held'[q] = held[q]
    /\ q \in endedBefore' => q \in endedBefore
    /\ token[q] = None => token'[q] = None
    /\ session[q] = "absent" => session'[q] = "absent"
    /\ \A s \in Sessions : SessionRow(s) \in held[q] => session'[s] = session[s]

\* What IInv says of one call.
CallInv(p) == Called(p) /\ Read(p) /\ TooLate(p) /\ Told(p) /\ Locked(p)

LEMMA SessionOfKept ==
    ASSUME IInv, Grows, NEW p \in Sessions, presented[p] # None
    PROVE  /\ presented[p] \in Sessions
           /\ SessionOf(p)' = SessionOf(p)
           /\ SessionOf(p) \in Sessions
           /\ token[presented[p]] # None /\ token[presented[p]] \in Token
           /\ Ended(SessionOf(p)) => Ended(SessionOf(p))'
<1>1. presented[p] \in Sessions /\ token[presented[p]] # None
  BY DEF IInv, Typed, Called
<1>2. token[presented[p]] \in Token
  BY <1>1 DEF IInv, Typed
<1>3. SessionOf(p) \in Sessions
  BY <1>2 DEF SessionOf, Token
<1>4. SessionOf(p)' = SessionOf(p)
  BY <1>1 DEF Grows, SessionOf
<1>5. Ended(SessionOf(p)) => Ended(SessionOf(p))'
  BY <1>3, <1>4 DEF Grows, Ended
<1> QED BY <1>1, <1>2, <1>3, <1>4, <1>5

LEMMA OthersKeep ==
    ASSUME IInv, Grows, NEW q \in Sessions, Untouched(q)
    PROVE  CallInv(q)'
<1> USE DEF CallInv
<1> Typed /\ Called(q) /\ Read(q) /\ TooLate(q) /\ Told(q) /\ Locked(q)
  BY DEF IInv
<1>1. Called(q)'
  <2>1. token[q] # None => token'[q] # None
    BY DEF Grows
  <2>2. presented[q] # None => token'[presented[q]] # None
    BY SessionOfKept DEF Grows
  <2>3. presented[q] # None /\ Ended(SessionOf(q)) => Ended(SessionOf(q))'
    BY SessionOfKept
  <2> QED BY <2>1, <2>2, <2>3 DEF Called, Untouched
<1>2. Read(q)'
  <2>1. pc[q] \in {"readSession"} \cup Revoking => presented[q] # None
    BY DEF Called
  <2>2. presented[q] # None /\ token[presented[q]].revoked => token'[presented[q]].revoked
    BY SessionOfKept DEF Grows
  <2> QED BY <2>1, <2>2, SessionOfKept DEF Read, Untouched, Spent
<1>3. TooLate(q)' /\ Told(q)'
  BY SessionOfKept DEF TooLate, Told, Untouched
<1>4. Locked(q)'
  <2> toRevoke[q] \subseteq Sessions /\ (pc[q] # "revokeTokens" => toRevoke[q] = {})
    BY DEF Typed, Locked
  <2>1. \A t \in Sessions : token[t] # None =>
            token'[t] # None /\ token'[t].session = token[t].session
    BY DEF Grows
  <2>2. CASE pc[q] \in {"touchSession", "commitRotation", "matchTokens", "revokeTokens"}
    <3> presented[q] # None
      BY <2>2 DEF Called, Rotating, Revoking
    <3>1. /\ SessionOf(q)' = SessionOf(q) /\ presented'[q] = presented[q]
          /\ Ended(SessionOf(q)) => Ended(SessionOf(q))'
      BY SessionOfKept DEF Untouched
    <3>2. /\ pc'[q] = pc[q] /\ held'[q] = held[q] /\ toRevoke'[q] = toRevoke[q]
          /\ \A s \in Sessions : SessionRow(s) \in held[q] => session'[s] = session[s]
      BY DEF Untouched
    <3>3. \A t \in toRevoke[q] : token'[t] # None /\ token'[t].session = SessionOf(q)
      BY <2>1 DEF Locked
    <3>4. pc[q] \in {"touchSession", "commitRotation"} =>
             held[q] \subseteq {TokenRow(presented[q]), SessionRow(SessionOf(q))}
      BY DEF Locked
    <3>5. pc[q] \in {"matchTokens", "revokeTokens"} =>
            /\ SessionRow(SessionOf(q)) \notin held[q] => Ended(SessionOf(q))
            /\ \A s \in Sessions : SessionRow(s) \in held[q] => s = SessionOf(q) /\ session'[s] = "ACTIVE"
            /\ \A t \in Sessions : TokenRow(t) \in held[q] =>
                  token'[t] # None /\ token'[t].session = SessionOf(q)
      BY <2>1, <3>2 DEF Locked
    <3> QED BY <2>2, <3>1, <3>2, <3>3, <3>4, <3>5 DEF Locked, SessionRow, TokenRow
  <2>3. CASE pc[q] \notin {"touchSession", "commitRotation", "matchTokens", "revokeTokens"}
    BY <2>3 DEF Locked, Untouched
  <2> QED BY <2>2, <2>3
<1> QED BY <1>1, <1>2, <1>3, <1>4

\* What IInv says of the rows.
RowsInv ==
    /\ \A t \in Sessions : Issued(t)
    /\ ActiveSessionHasToken
    /\ RevokedForAReason

\* A reason for a revocation remains one.
LEMMA ReasonKept ==
    ASSUME IInv, Grows, NEW s \in Sessions, session[s] = "REVOKED"
    PROVE  (\E p, q \in Sessions :
              /\ presented[p] # None
              /\ presented[q] = presented[p]
              /\ SessionOf(p) = s
              /\ \/ op[p] = "logout"
                 \/ p # q /\ op[p] = "refresh" /\ op[q] = "refresh")'
<1>1. PICK p \in Sessions, q \in Sessions :
              /\ presented[p] # None
              /\ presented[q] = presented[p]
              /\ SessionOf(p) = s
              /\ \/ op[p] = "logout"
                 \/ p # q /\ op[p] = "refresh" /\ op[q] = "refresh"
  BY DEF IInv, RevokedForAReason
<1>2. SessionOf(p)' = s
  BY <1>1, SessionOfKept
<1>3. presented'[p] = presented[p] /\ presented'[q] = presented[q] /\ op'[p] = op[p] /\ op'[q] = op[q]
  BY <1>1 DEF Grows
<1> QED BY <1>1, <1>2, <1>3

LEMMA IssuedKept ==
    ASSUME IInv, Grows, NEW t \in Sessions, token[t] # None,
           token'[t].revoked = token[t].revoked \/ session'[token[t].session] \in {"REVOKED", "EXPIRED"},
           token'[t].replacedBy = token[t].replacedBy
    PROVE  Issued(t)'
<1> token[t] \in Token /\ token[t].session \in Sessions /\ Issued(t)
  BY DEF IInv, Typed, Token
<1>1. token'[t] # None /\ token'[t].session = token[t].session
  BY DEF Grows
<1>2. session'[token[t].session] # "absent" /\ (Ended(token[t].session) => Ended(token[t].session)')
  BY <1>1 DEF Issued, Grows, Ended
<1>3. ASSUME token'[t].revoked
      PROVE  \/ Ended(token[t].session)'
             \/ \E q \in Sessions : presented'[q] = t /\ op'[q] = "refresh" /\ token'[q] # None
  <2>1. CASE session'[token[t].session] \in {"REVOKED", "EXPIRED"}
    BY <1>1, <2>1 DEF Ended
  <2>2. CASE session'[token[t].session] \notin {"REVOKED", "EXPIRED"}
    <3>1. PICK q \in Sessions : presented[q] = t /\ op[q] = "refresh" /\ token[q] # None
      BY <1>2, <1>3, <2>2 DEF Issued, Grows, Ended
    <3>2. presented'[q] = t /\ op'[q] = "refresh" /\ token'[q] # None
      BY <3>1, AuthAssumption DEF Grows, AuthAssumption
    <3> QED BY <3>2
  <2> QED BY <2>1, <2>2
<1>4. token'[t].replacedBy # None =>
        /\ token'[t].revoked
        /\ token'[token'[t].replacedBy] # None
        /\ token'[token'[t].replacedBy].session = token'[t].session
  <2>1. token[t].replacedBy \in Sessions \cup {None}
    BY DEF Token
  <2> QED BY <1>1, <2>1 DEF Issued, Grows
<1> QED BY <1>1, <1>2, <1>3, <1>4 DEF Issued, Ended

\* A step that changes no row.
LEMMA RowsKept ==
    ASSUME IInv, Grows, UNCHANGED rowVars
    PROVE  RowsInv'
<1>1. ASSUME NEW t \in Sessions PROVE Issued(t)'
  <2>1. CASE token[t] = None
    BY <2>1 DEF Issued, rowVars
  <2>2. CASE token[t] # None
    BY <2>2, IssuedKept DEF rowVars
  <2> QED BY <2>1, <2>2
<1>2. ActiveSessionHasToken'
  BY DEF IInv, ActiveSessionHasToken, rowVars, Spent
<1>3. RevokedForAReason'
  BY ReasonKept DEF RevokedForAReason, rowVars
<1> QED BY <1>1, <1>2, <1>3 DEF RowsInv
-----------------------------------------------------------------------------
(* One lemma per action.                                                   *)

\* A step of p moves no other call.
OthersUnmoved(p) ==
    \A q \in Sessions \ {p} :
        /\ pc'[q] = pc[q] /\ op'[q] = op[q] /\ presented'[q] = presented[q]
        /\ seen'[q] = seen[q] /\ toRevoke'[q] = toRevoke[q] /\ answer'[q] = answer[q]
        /\ held'[q] = held[q]
        /\ q \in endedBefore' => q \in endedBefore

\* A call keeps what it was asked.
Asked(p) == presented[p] # None => presented'[p] = presented[p] /\ op'[p] = op[p]

\* A step that changes no row.
LEMMA QuietStep ==
    ASSUME IInv, NEW p \in Sessions, UNCHANGED rowVars, OthersUnmoved(p), Asked(p),
           Typed', LocksExclusive', CallInv(p)'
    PROVE  IInv'
<1>1. Grows
  BY DEF Grows, rowVars, OthersUnmoved, Asked
<1>2. ASSUME NEW q \in Sessions \ {p} PROVE CallInv(q)'
  <2>1. Untouched(q)
    BY DEF Untouched, OthersUnmoved, rowVars
  <2> QED BY <1>1, <2>1, OthersKeep
<1>3. RowsInv'
  BY <1>1, RowsKept
<1> QED BY <1>2, <1>3 DEF IInv, CallInv, RowsInv

LEMMA AcquireExclusive ==
    ASSUME IInv, NEW p \in Sessions, NEW row \in Row, Acquire(p, row)
    PROVE  /\ held' \in [Sessions -> SUBSET Row]
           /\ LocksExclusive'
           /\ held'[p] = held[p] \cup {row}
           /\ \A q \in Sessions \ {p} : held'[q] = held[q]
  BY DEF IInv, Typed, Acquire, Free, LocksExclusive

LEMMA ReleaseExclusive ==
    ASSUME IInv, NEW p \in Sessions, Release(p)
    PROVE  /\ held' \in [Sessions -> SUBSET Row]
           /\ LocksExclusive'
           /\ held'[p] = {}
           /\ \A q \in Sessions \ {p} : held'[q] = held[q]
  BY DEF IInv, Typed, Release, LocksExclusive

LEMMA LoginInv == ASSUME IInv, NEW p \in Sessions, Login(p) PROVE IInv'
<1> Typed /\ LocksExclusive /\ CallInv(p)
  BY DEF IInv, CallInv
<1>1. /\ pc[p] = "idle"
      /\ op' = [op EXCEPT ![p] = "login"]
      /\ presented' = [presented EXCEPT ![p] = None]
      /\ \/ /\ answer' = [answer EXCEPT ![p] = "invalid_credentials"]
            /\ pc' = [pc EXCEPT ![p] = "done"]
            /\ seen' = [seen EXCEPT ![p] = None]
         \/ pc' = [pc EXCEPT ![p] = "issue"] /\ UNCHANGED <<seen, answer>>
      /\ UNCHANGED <<held, session, token, late, toRevoke, endedBefore, faults>>
  BY DEF Login, Present, Answer, Goto, rowVars
<1>2. Typed'
  BY <1>1 DEF Typed, PC, Answers
<1>3. OthersUnmoved(p) /\ Asked(p)
  BY <1>1 DEF Typed, OthersUnmoved, Asked, CallInv, Called
<1>4. CallInv(p)'
  BY <1>1 DEF Typed, CallInv, Called, Read, TooLate, Told, Locked, Rotating, Revoking, Answers
<1> QED BY <1>1, <1>2, <1>3, <1>4, QuietStep DEF rowVars, LocksExclusive

LEMMA RefreshInv == ASSUME IInv, NEW p \in Sessions, Refresh(p) PROVE IInv'
<1> Typed /\ LocksExclusive /\ CallInv(p)
  BY DEF IInv, CallInv
<1> PICK t \in Presentable :
      /\ Present(p, "refresh", t)
      /\ \/ t = None /\ Answer(p, "invalid_refresh_token") /\ UNCHANGED endedBefore
         \/ /\ t # None
            /\ seen' = [seen EXCEPT ![p] = token[t]]
            /\ endedBefore' = endedBefore \cup {q \in {p} : session[token[t].session] # "ACTIVE"}
            /\ Goto(p, "readSession")
            /\ UNCHANGED answer
      /\ UNCHANGED <<held, rowVars, late, audit, toRevoke, faults>>
  BY DEF Refresh
<1>1. /\ pc[p] = "idle"
      /\ op' = [op EXCEPT ![p] = "refresh"]
      /\ presented' = [presented EXCEPT ![p] = t]
      /\ UNCHANGED <<held, session, token, late, toRevoke, faults>>
  BY DEF Present, rowVars
<1>2. t # None => /\ t \in Sessions /\ token[t] # None /\ token[t] \in Token
                  /\ token[t].session \in Sessions /\ session[token[t].session] # "absent"
                  /\ token[t].replacedBy # None => token[t].revoked
  <2>1. t # None => t \in Sessions /\ token[t] # None
    BY DEF Presentable, IInv, Called
  <2> QED BY <2>1 DEF IInv, Typed, Token, Issued
<1>3. Typed'
  BY <1>1, <1>2 DEF Typed, PC, Answers, Answer, Goto
<1>4. OthersUnmoved(p) /\ Asked(p)
  BY <1>1 DEF Typed, OthersUnmoved, Asked, CallInv, Called, Answer, Goto
<1>5. CallInv(p)'
  <2>1. CASE t = None
    <3>1. /\ answer' = [answer EXCEPT ![p] = "invalid_refresh_token"]
          /\ pc' = [pc EXCEPT ![p] = "done"] /\ UNCHANGED endedBefore
      BY <2>1 DEF Answer, Goto
    <3> QED BY <1>1, <2>1, <3>1
            DEF Typed, CallInv, Called, Read, TooLate, Told, Locked, Rotating, Revoking, Answers
  <2>2. CASE t # None
    <3>1. /\ seen' = [seen EXCEPT ![p] = token[t]]
          /\ endedBefore' = endedBefore \cup {q \in {p} : session[token[t].session] # "ACTIVE"}
          /\ pc' = [pc EXCEPT ![p] = "readSession"] /\ UNCHANGED answer
      BY <2>2 DEF Goto
    <3>2. presented'[p] = t /\ seen'[p] = token'[t] /\ SessionOf(p)' = token[t].session
      BY <1>1, <3>1 DEF Typed, SessionOf
    <3>3. Called(p)' /\ Read(p)'
      BY <1>1, <1>2, <2>2, <3>1, <3>2
         DEF Typed, CallInv, Called, Read, Spent, Rotating, Revoking, Answers
    <3>4. session[token[t].session] # "ACTIVE" => Ended(token[t].session)'
      BY <1>1, <1>2, <2>2 DEF Typed, Ended
    <3>5. TooLate(p)' /\ Told(p)'
      BY <1>1, <2>2, <3>1, <3>2, <3>4 DEF Typed, CallInv, Called, TooLate, Told, Rotating, Answers
    <3>6. Locked(p)'
      BY <1>1, <3>1 DEF Typed, CallInv, Locked
    <3> QED BY <3>3, <3>5, <3>6 DEF CallInv
  <2> QED BY <2>1, <2>2
<1> QED BY <1>1, <1>3, <1>4, <1>5, QuietStep DEF rowVars, LocksExclusive

LEMMA LogoutInv == ASSUME IInv, NEW p \in Sessions, Logout(p) PROVE IInv'
<1> Typed /\ LocksExclusive /\ CallInv(p)
  BY DEF IInv, CallInv
<1> PICK t \in Presentable :
      /\ Present(p, "logout", t)
      /\ \/ t = None /\ Answer(p, "loggedOut")
         \/ t # None /\ Goto(p, "revokeSession") /\ UNCHANGED <<seen, answer>>
      /\ UNCHANGED <<held, rowVars, late, audit, toRevoke, endedBefore, faults>>
  BY DEF Logout
<1>1. /\ pc[p] = "idle"
      /\ op' = [op EXCEPT ![p] = "logout"]
      /\ presented' = [presented EXCEPT ![p] = t]
      /\ \/ /\ t = None
            /\ answer' = [answer EXCEPT ![p] = "loggedOut"]
            /\ pc' = [pc EXCEPT ![p] = "done"]
            /\ seen' = [seen EXCEPT ![p] = None]
         \/ t # None /\ pc' = [pc EXCEPT ![p] = "revokeSession"] /\ UNCHANGED <<seen, answer>>
      /\ UNCHANGED <<held, session, token, late, toRevoke, endedBefore, faults>>
  BY DEF Present, Answer, Goto, rowVars
<1>2. t # None => t \in Sessions /\ token[t] # None
  BY DEF Presentable, IInv, Called
<1>3. Typed'
  BY <1>1, <1>2 DEF Typed, PC, Answers
<1>4. OthersUnmoved(p) /\ Asked(p)
  BY <1>1 DEF Typed, OthersUnmoved, Asked, CallInv, Called
<1>5. CallInv(p)'
  BY <1>1, <1>2
     DEF Typed, CallInv, Called, Read, TooLate, Told, Locked, Rotating, Revoking, Answers
<1> QED BY <1>1, <1>3, <1>4, <1>5, QuietStep DEF rowVars, LocksExclusive

LEMMA ReadSessionInv == ASSUME IInv, NEW p \in Sessions, ReadSession(p) PROVE IInv'
<1> Typed /\ LocksExclusive /\ CallInv(p)
  BY DEF IInv, CallInv
<1> DEFINE s == seen[p].session
<1>1. /\ pc[p] = "readSession" /\ op[p] = "refresh" /\ presented[p] # None
      /\ s = SessionOf(p) /\ (Spent(seen[p]) => token[presented[p]].revoked)
      /\ session[s] # "absent" /\ s \in Sessions /\ held[p] = {}
  <2>1. pc[p] = "readSession" /\ op[p] = "refresh" /\ presented[p] # None
    BY DEF ReadSession, CallInv, Called
  <2>2. s = SessionOf(p) /\ (Spent(seen[p]) => token[presented[p]].revoked) /\ held[p] = {}
    BY <2>1 DEF CallInv, Read, Locked
  <2>3. presented[p] \in Sessions /\ token[presented[p]] # None /\ Issued(presented[p])
    BY <2>1 DEF Typed, CallInv, Called, IInv
  <2>4. token[presented[p]] \in Token
    BY <2>3 DEF Typed
  <2> QED BY <2>1, <2>2, <2>3, <2>4 DEF Issued, SessionOf, Token
<1>2. /\ \/ /\ Spent(seen[p])
            /\ pc' = [pc EXCEPT ![p] = "revokeSession"]
            /\ UNCHANGED <<seen, answer>>
         \/ /\ pc' = [pc EXCEPT ![p] = "expireSession"]
            /\ UNCHANGED <<seen, answer>>
         \/ /\ answer' = [answer EXCEPT ![p] = "invalid_token"]
            /\ pc' = [pc EXCEPT ![p] = "done"]
            /\ seen' = [seen EXCEPT ![p] = None]
         \/ /\ session[s] = "ACTIVE"
            /\ pc' = [pc EXCEPT ![p] = "spendToken"]
            /\ UNCHANGED <<seen, answer>>
      /\ UNCHANGED <<held, session, token, late, audit, op, presented, endedBefore, toRevoke, faults>>
  BY DEF ReadSession, Goto, Answer, ActiveSession, rowVars, callVars
<1>3. Typed' /\ OthersUnmoved(p) /\ Asked(p)
  BY <1>2 DEF Typed, PC, Answers, OthersUnmoved, Asked
<1>4. SessionOf(p)' = SessionOf(p)
  BY <1>2 DEF SessionOf
<1>5. CallInv(p)'
  BY <1>1, <1>2, <1>4
     DEF Typed, CallInv, Called, Read, TooLate, Told, Locked, Ended, Rotating, Revoking, Answers
<1> QED BY <1>2, <1>3, <1>5, QuietStep DEF rowVars, LocksExclusive

LEMMA SpendTokenInv == ASSUME IInv, NEW p \in Sessions, SpendToken(p) PROVE IInv'
<1> Typed /\ CallInv(p)
  BY DEF IInv, CallInv
<1>1. /\ pc[p] = "spendToken" /\ pc' = [pc EXCEPT ![p] = "touchSession"]
      /\ Acquire(p, TokenRow(presented[p])) /\ held[p] = {} /\ presented[p] \in Sessions
      /\ UNCHANGED <<session, token, late, op, presented, endedBefore, seen, toRevoke, answer, faults>>
  BY DEF SpendToken, Goto, rowVars, callVars, CallInv, Called, Locked, Typed, Rotating
<1>2. /\ held' \in [Sessions -> SUBSET Row] /\ LocksExclusive'
      /\ held'[p] = {TokenRow(presented[p])}
      /\ \A q \in Sessions \ {p} : held'[q] = held[q]
  BY <1>1, AcquireExclusive DEF Row
<1>3. Typed' /\ OthersUnmoved(p) /\ Asked(p)
  BY <1>1, <1>2 DEF Typed, PC, OthersUnmoved, Asked
<1>4. SessionOf(p)' = SessionOf(p) /\ TokenRow(presented[p])' = TokenRow(presented[p])
  BY <1>1 DEF SessionOf, TokenRow
<1>5. CallInv(p)'
  BY <1>1, <1>2, <1>4
     DEF Typed, CallInv, Called, Read, TooLate, Told, Locked, Ended, Rotating, Revoking
<1> QED BY <1>1, <1>2, <1>3, <1>5, QuietStep DEF rowVars

LEMMA TouchSessionInv == ASSUME IInv, NEW p \in Sessions, TouchSession(p) PROVE IInv'
<1> Typed /\ CallInv(p)
  BY DEF IInv, CallInv
<1>1. /\ pc[p] = "touchSession" /\ pc' = [pc EXCEPT ![p] = "commitRotation"]
      /\ Acquire(p, SessionRow(SessionOf(p)))
      /\ held[p] \subseteq {TokenRow(presented[p]), SessionRow(SessionOf(p))}
      /\ presented[p] \in Sessions /\ token[presented[p]] # None
      /\ UNCHANGED <<session, token, late, op, presented, endedBefore, seen, toRevoke, answer, faults>>
  BY DEF TouchSession, Goto, rowVars, callVars, CallInv, Called, Locked, Typed, Rotating
<1>2. SessionOf(p) \in Sessions
  BY <1>1 DEF SessionOf, Typed, Token
<1>3. /\ held' \in [Sessions -> SUBSET Row] /\ LocksExclusive'
      /\ held'[p] = held[p] \cup {SessionRow(SessionOf(p))}
      /\ \A q \in Sessions \ {p} : held'[q] = held[q]
  BY <1>1, <1>2, AcquireExclusive DEF Row
<1>4. Typed' /\ OthersUnmoved(p) /\ Asked(p)
  BY <1>1, <1>3 DEF Typed, PC, OthersUnmoved, Asked
<1>5. /\ SessionOf(p)' = SessionOf(p) /\ TokenRow(presented[p])' = TokenRow(presented[p])
      /\ SessionRow(SessionOf(p))' = SessionRow(SessionOf(p))
  BY <1>1 DEF SessionOf, TokenRow, SessionRow
<1>6. CallInv(p)'
  BY <1>1, <1>3, <1>5
     DEF Typed, CallInv, Called, Read, TooLate, Told, Locked, Ended, Rotating, Revoking
<1> QED BY <1>1, <1>3, <1>4, <1>6, QuietStep DEF rowVars

LEMMA RevokeSessionInv == ASSUME IInv, NEW p \in Sessions, RevokeSession(p) PROVE IInv'
<1> Typed /\ CallInv(p)
  BY DEF IInv, CallInv
<1> DEFINE s == SessionOf(p)
<1>1. /\ pc[p] = "revokeSession" /\ pc' = [pc EXCEPT ![p] = "matchTokens"]
      /\ \/ session[s] = "ACTIVE" /\ Acquire(p, SessionRow(s))
         \/ session[s] # "ACTIVE" /\ UNCHANGED held
      /\ held[p] = {} /\ presented[p] \in Sessions /\ token[presented[p]] # None
      /\ UNCHANGED <<session, token, late, op, presented, endedBefore, seen, toRevoke, answer, faults>>
  BY DEF RevokeSession, Goto, rowVars, callVars, CallInv, Called, Locked, Typed, Revoking
<1>2. s \in Sessions /\ session[s] # "absent"
  BY <1>1 DEF SessionOf, Typed, Token, IInv, Issued
<1>3. /\ held' \in [Sessions -> SUBSET Row] /\ LocksExclusive'
      /\ \A q \in Sessions \ {p} : held'[q] = held[q]
      /\ \/ session[s] = "ACTIVE" /\ held'[p] = {SessionRow(s)}
         \/ Ended(s) /\ held'[p] = {}
  <2>1. CASE session[s] = "ACTIVE"
    BY <1>1, <1>2, <2>1, AcquireExclusive DEF Row
  <2>2. CASE session[s] # "ACTIVE"
    BY <1>1, <1>2, <2>2 DEF IInv, Typed, Ended, LocksExclusive
  <2> QED BY <2>1, <2>2
<1>4. Typed' /\ OthersUnmoved(p) /\ Asked(p)
  BY <1>1, <1>3 DEF Typed, PC, OthersUnmoved, Asked
<1>5. SessionOf(p)' = s /\ SessionRow(SessionOf(p))' = SessionRow(s)
  BY <1>1 DEF SessionOf, SessionRow
<1>6. Called(p)' /\ Read(p)' /\ TooLate(p)' /\ Told(p)'
  BY <1>1, <1>5 DEF Typed, CallInv, Called, Read, TooLate, Told, Ended, Rotating, Revoking
<1>7. Locked(p)'
  BY <1>1, <1>3, <1>5, RowsDistinct
     DEF Typed, CallInv, Locked, Ended, SessionRow, TokenRow
<1> QED BY <1>1, <1>3, <1>4, <1>6, <1>7, QuietStep DEF rowVars, CallInv

LEMMA MatchTokensInv == ASSUME IInv, NEW p \in Sessions, MatchTokens(p) PROVE IInv'
<1> Typed /\ LocksExclusive /\ CallInv(p)
  BY DEF IInv, CallInv
<1>1. /\ pc[p] = "matchTokens" /\ pc' = [pc EXCEPT ![p] = "revokeTokens"]
      /\ toRevoke' = [toRevoke EXCEPT ![p] =
            {t \in Sessions : token[t] # None /\ token[t].session = SessionOf(p) /\ ~ token[t].revoked}]
      /\ UNCHANGED <<held, session, token, late, op, presented, endedBefore, seen, answer, faults>>
  BY DEF MatchTokens, Goto, rowVars, callVars
<1>2. Typed' /\ OthersUnmoved(p) /\ Asked(p)
  BY <1>1 DEF Typed, PC, OthersUnmoved, Asked
<1>3. SessionOf(p)' = SessionOf(p) /\ SessionRow(SessionOf(p))' = SessionRow(SessionOf(p))
  BY <1>1 DEF SessionOf, SessionRow
<1>4. CallInv(p)'
  BY <1>1, <1>3
     DEF Typed, CallInv, Called, Read, TooLate, Told, Locked, Ended, Rotating, Revoking,
         SessionRow, TokenRow
<1> QED BY <1>1, <1>2, <1>4, QuietStep DEF rowVars, LocksExclusive

LEMMA RevokeTokenInv == ASSUME IInv, NEW p \in Sessions, RevokeToken(p) PROVE IInv'
<1> Typed /\ CallInv(p)
  BY DEF IInv, CallInv
<1> PICK t \in toRevoke[p] :
      /\ pc[p] = "revokeTokens"
      /\ Acquire(p, TokenRow(t))
      /\ toRevoke' = [toRevoke EXCEPT ![p] = @ \ {t}]
      /\ UNCHANGED <<session, token, late, op, presented, endedBefore, seen, pc, answer, faults>>
  BY DEF RevokeToken, rowVars, callVars
<1>1. t \in Sessions /\ token[t] # None /\ token[t].session = SessionOf(p)
  BY DEF Typed, CallInv, Locked
<1>2. /\ held' \in [Sessions -> SUBSET Row] /\ LocksExclusive'
      /\ held'[p] = held[p] \cup {TokenRow(t)}
      /\ \A q \in Sessions \ {p} : held'[q] = held[q]
  BY <1>1, AcquireExclusive DEF Row
<1>3. Typed' /\ OthersUnmoved(p) /\ Asked(p)
  BY <1>2 DEF Typed, OthersUnmoved, Asked
<1>4. SessionOf(p)' = SessionOf(p)
  BY DEF SessionOf
<1>5. Called(p)' /\ Read(p)' /\ TooLate(p)' /\ Told(p)'
  BY <1>4 DEF CallInv, Called, Read, TooLate, Told, Ended
<1>6. Locked(p)'
  <2>1. ASSUME NEW s \in Sessions, SessionRow(s) \in held'[p] PROVE SessionRow(s) \in held[p]
    BY <1>2, <2>1, RowsDistinct
  <2>2. ASSUME NEW u \in Sessions, TokenRow(u) \in held'[p] PROVE u = t \/ TokenRow(u) \in held[p]
    BY <1>2, <2>2, RowsDistinct
  <2>3. SessionRow(SessionOf(p))' \notin held'[p] => SessionRow(SessionOf(p)) \notin held[p]
    BY <1>2, <1>4 DEF SessionRow
  <2> QED BY <1>1, <1>4, <2>1, <2>2, <2>3
          DEF Typed, CallInv, Locked, Ended, SessionRow, TokenRow
<1> QED BY <1>2, <1>3, <1>5, <1>6, QuietStep DEF rowVars, CallInv

LEMMA AuditInv == ASSUME IInv, NEW p \in Sessions, Audit(p) PROVE IInv'
<1> Typed /\ LocksExclusive /\ CallInv(p)
  BY DEF IInv, CallInv
<1>1. /\ pc[p] = "audit" /\ pc' = [pc EXCEPT ![p] = "done"]
      /\ answer' = [answer EXCEPT ![p] = IF op[p] = "logout" THEN "loggedOut" ELSE "tokens"]
      /\ seen' = [seen EXCEPT ![p] = None]
      /\ UNCHANGED <<held, session, token, late, op, presented, endedBefore, toRevoke, faults>>
  BY DEF Audit, Answer, Goto, rowVars, callVars
<1>2. Typed' /\ OthersUnmoved(p) /\ Asked(p)
  BY <1>1 DEF Typed, PC, Answers, OthersUnmoved, Asked
<1>3. SessionOf(p)' = SessionOf(p)
  BY <1>1 DEF SessionOf
<1>4. CallInv(p)'
  BY <1>1, <1>3
     DEF Typed, CallInv, Called, Read, TooLate, Told, Locked, Ended, Rotating, Revoking
<1> QED BY <1>1, <1>2, <1>4, QuietStep DEF rowVars, LocksExclusive

\* An exception, whoever causes it.
LEMMA ThrowInv ==
    ASSUME IInv, NEW p \in Sessions, Throw(p), faults' \in 0 .. MaxFaults
    PROVE  IInv'
<1> Typed /\ CallInv(p)
  BY DEF IInv, CallInv
<1>1. /\ pc' = [pc EXCEPT ![p] = "done"]
      /\ answer' = [answer EXCEPT ![p] = "error"]
      /\ seen' = [seen EXCEPT ![p] = None]
      /\ toRevoke' = [toRevoke EXCEPT ![p] = {}]
      /\ UNCHANGED <<session, token, late, op, presented, endedBefore>>
  BY DEF Throw, Answer, Goto, rowVars, callVars
<1>2. /\ held' \in [Sessions -> SUBSET Row] /\ LocksExclusive' /\ held'[p] = {}
      /\ \A q \in Sessions \ {p} : held'[q] = held[q]
  BY ReleaseExclusive DEF Throw
<1>3. Typed' /\ OthersUnmoved(p) /\ Asked(p)
  BY <1>1, <1>2 DEF Typed, PC, Answers, OthersUnmoved, Asked
<1>4. SessionOf(p)' = SessionOf(p)
  BY <1>1 DEF SessionOf
<1>5. CallInv(p)'
  BY <1>1, <1>2, <1>4
     DEF Typed, CallInv, Called, Read, TooLate, Told, Locked, Ended, Rotating, Revoking
<1> QED BY <1>1, <1>2, <1>3, <1>5, QuietStep DEF rowVars

-----------------------------------------------------------------------------
(* The steps that change rows.                                             *)

LEMMA LiveTokenType ==
    ASSUME NEW s \in Sessions
    PROVE  /\ LiveToken(s) \in Token /\ LiveToken(s) # None
           /\ LiveToken(s).session = s /\ ~ LiveToken(s).revoked /\ LiveToken(s).replacedBy = None
           /\ ~ Spent(LiveToken(s))
<1>1. LiveToken(s) \in Token
  BY DEF LiveToken, Token
<1>2. LiveToken(s) # None
  BY <1>1, AuthAssumption DEF AuthAssumption
<1> QED BY <1>1, <1>2 DEF LiveToken, Spent

\* What a token becomes when it is spent and when it is revoked.
LEMMA TokenUpdates ==
    ASSUME NEW r \in Token, NEW q \in Sessions
    PROVE  /\ [r EXCEPT !.revoked = TRUE] \in Token
           /\ [r EXCEPT !.revoked = TRUE] # None
           /\ [r EXCEPT !.revoked = TRUE].session = r.session
           /\ [r EXCEPT !.revoked = TRUE].revoked
           /\ [r EXCEPT !.revoked = TRUE].replacedBy = r.replacedBy
           /\ [r EXCEPT !.replacedBy = q] \in Token
           /\ [r EXCEPT !.replacedBy = q] # None
           /\ [r EXCEPT !.replacedBy = q].session = r.session
           /\ [r EXCEPT !.replacedBy = q].revoked = r.revoked
           /\ [r EXCEPT !.replacedBy = q].replacedBy = q
<1>1. [r EXCEPT !.revoked = TRUE] \in Token
  BY DEF Token
<1>2. [r EXCEPT !.replacedBy = q] \in Token
  BY DEF Token
<1>3. [r EXCEPT !.revoked = TRUE] # None /\ [r EXCEPT !.replacedBy = q] # None
  BY <1>1, <1>2, AuthAssumption DEF AuthAssumption
<1> QED BY <1>1, <1>2, <1>3 DEF Token

LEMMA RowStep ==
    ASSUME IInv, NEW p \in Sessions, Grows, \A q \in Sessions \ {p} : Untouched(q),
           Typed', LocksExclusive', CallInv(p)', RowsInv'
    PROVE  IInv'
  BY OthersKeep DEF IInv, CallInv, RowsInv

LEMMA IssueSessionTokensInv ==
    ASSUME IInv, NEW p \in Sessions, IssueSessionTokens(p)
    PROVE  IInv'
<1> Typed /\ LocksExclusive /\ CallInv(p)
  BY DEF IInv, CallInv
<1>1. /\ pc[p] = "issue" /\ op[p] = "login" /\ token[p] = None /\ session[p] = "absent"
      /\ session' = [session EXCEPT ![p] = "ACTIVE"]
      /\ token' = [token EXCEPT ![p] = LiveToken(p)]
      /\ pc' = [pc EXCEPT ![p] = "audit"]
      /\ UNCHANGED <<held, late, audit, op, presented, endedBefore, seen, toRevoke, answer, faults>>
  BY DEF IssueSessionTokens, Goto, callVars, CallInv, Called
<1>2. LiveToken(p) \in Token /\ LiveToken(p) # None
  BY LiveTokenType
<1>3. Typed' /\ LocksExclusive'
  BY <1>1, <1>2 DEF Typed, PC, LocksExclusive
<1>4. Grows
  BY <1>1, <1>2 DEF Grows, Typed, Ended
<1>5. ASSUME NEW q \in Sessions \ {p} PROVE Untouched(q)
  <2>1. SessionRow(p) \notin held[q]
    <3>1. Locked(q) /\ Called(q)
      BY DEF IInv
    <3>2. CASE pc[q] \in {"touchSession", "commitRotation", "matchTokens", "revokeTokens"}
      <4>1. presented[q] \in Sessions /\ token[presented[q]] # None
        BY <3>1, <3>2 DEF Called, Rotating, Revoking, Typed
      <4>2. SessionOf(q) \in Sessions /\ session[SessionOf(q)] # "absent"
        BY <4>1 DEF IInv, Issued, Typed, SessionOf, Token
      <4>3. SessionRow(p) # TokenRow(presented[q]) /\ SessionRow(p) # SessionRow(SessionOf(q))
        BY <1>1, <4>2, RowsDistinct
      <4> QED BY <1>1, <3>1, <3>2, <4>2, <4>3 DEF Locked
    <3>3. CASE pc[q] \notin {"touchSession", "commitRotation", "matchTokens", "revokeTokens"}
      BY <3>1, <3>3 DEF Locked
    <3> QED BY <3>2, <3>3
  <2> QED BY <1>1, <2>1 DEF Untouched, Typed
<1>6. CallInv(p)'
  <2>1. presented[p] # None => SessionOf(p)' = SessionOf(p)
    BY <1>4, SessionOfKept
  <2> QED BY <1>1, <1>2, <1>4, <2>1
          DEF Typed, CallInv, Called, Read, TooLate, Told, Locked, Ended, Rotating, Revoking, Grows
<1>7. RowsInv'
  <2>1. ASSUME NEW t \in Sessions PROVE Issued(t)'
    <3>1. CASE t = p
      BY <1>1, <1>2, <3>1 DEF Issued, Typed, LiveToken
    <3>2. CASE t # p /\ token[t] = None
      BY <1>1, <3>2 DEF Issued, Typed
    <3>3. CASE t # p /\ token[t] # None
      BY <1>1, <1>4, <3>3, IssuedKept DEF Typed
    <3> QED BY <3>1, <3>2, <3>3
  <2>2. ActiveSessionHasToken'
    BY <1>1, <1>2 DEF IInv, ActiveSessionHasToken, Typed, Spent, LiveToken
  <2>3. RevokedForAReason'
    BY <1>1, <1>4, ReasonKept DEF RevokedForAReason, Typed
  <2> QED BY <2>1, <2>2, <2>3 DEF RowsInv
<1> QED BY <1>3, <1>4, <1>5, <1>6, <1>7, RowStep

LEMMA CommitRotationInv ==
    ASSUME IInv, NEW p \in Sessions, CommitRotation(p)
    PROVE  IInv'
<1> DEFINE t == presented[p]
           s == SessionOf(p)
<1> Typed /\ CallInv(p)
  BY DEF IInv, CallInv
<1>1. /\ pc[p] = "commitRotation" /\ op[p] = "refresh"
      /\ t \in Sessions /\ token[t] # None /\ token[p] = None /\ p # t
      /\ p \notin endedBefore
      /\ Release(p) /\ token' = Rotated(p)
      /\ \/ pc' = [pc EXCEPT ![p] = "audit"] /\ UNCHANGED <<seen, answer, faults>>
         \/ /\ answer' = [answer EXCEPT ![p] = "error"]
            /\ pc' = [pc EXCEPT ![p] = "done"]
            /\ seen' = [seen EXCEPT ![p] = None]
            /\ faults' \in 0 .. MaxFaults
      /\ UNCHANGED <<session, late, op, presented, endedBefore, toRevoke>>
  BY AuthAssumption
     DEF CommitRotation, Acknowledged, Answer, Fault, Goto, callVars, Typed, CallInv, Called, TooLate,
         Rotating, AuthAssumption
<1>2. token[t] \in Token /\ s \in Sessions /\ token[t].session = s /\ session[s] # "absent"
  BY <1>1 DEF Typed, SessionOf, Token, IInv, Issued
<1>3. /\ token' \in [Sessions -> Token \cup {None}]
      /\ token'[p] = LiveToken(s)
      /\ token'[t] = [[token[t] EXCEPT !.revoked = TRUE] EXCEPT !.replacedBy = p]
      /\ \A u \in Sessions \ {p, t} : token'[u] = token[u]
  <2>1. [[token[t] EXCEPT !.revoked = TRUE] EXCEPT !.replacedBy = p] \in Token
    BY <1>2, TokenUpdates
  <2>2. LiveToken(s) \in Token
    BY <1>2, LiveTokenType
  <2>3. token' = [token EXCEPT ![t] = [[token[t] EXCEPT !.revoked = TRUE] EXCEPT !.replacedBy = p],
                               ![p] = LiveToken(s)]
    BY <1>1 DEF Rotated, Typed
  <2> QED BY <1>1, <2>1, <2>2, <2>3 DEF Typed
<1>4. /\ token'[t] # None /\ token'[t].session = s /\ token'[t].revoked /\ token'[t].replacedBy = p
      /\ token'[p] # None /\ token'[p].session = s /\ ~ Spent(token'[p])
  <2>1. /\ token'[t] # None /\ token'[t].session = s /\ token'[t].revoked /\ token'[t].replacedBy = p
    <3>1. PICK r : r = [token[t] EXCEPT !.revoked = TRUE]
      OBVIOUS
    <3>2. r \in Token /\ r.session = s /\ r.revoked
      BY <1>2, <3>1, TokenUpdates
    <3>3. token'[t] = [r EXCEPT !.replacedBy = p]
      BY <1>3, <3>1
    <3>4. /\ [r EXCEPT !.replacedBy = p] # None /\ [r EXCEPT !.replacedBy = p].session = s
          /\ [r EXCEPT !.replacedBy = p].revoked /\ [r EXCEPT !.replacedBy = p].replacedBy = p
      BY <3>2, TokenUpdates
    <3> QED BY <3>3, <3>4
  <2>2. token'[p] = LiveToken(s)
    BY <1>3
  <2>3. LiveToken(s) # None /\ LiveToken(s).session = s /\ ~ Spent(LiveToken(s))
    BY <1>2, LiveTokenType
  <2>4. ~ Spent(token'[p])
    BY <2>2, <2>3
  <2> QED BY <2>1, <2>2, <2>3, <2>4
<1>5. /\ held' \in [Sessions -> SUBSET Row] /\ LocksExclusive' /\ held'[p] = {}
      /\ \A q \in Sessions \ {p} : held'[q] = held[q]
  BY <1>1, ReleaseExclusive
<1>6. Typed'
  BY <1>1, <1>3, <1>5 DEF Typed, PC, Answers
<1>7. Grows
  <2>1. ASSUME NEW u \in Sessions, token[u] # None
        PROVE  /\ token'[u] # None /\ token'[u].session = token[u].session
               /\ token[u].revoked => token'[u].revoked
    <3>1. CASE u = t
      BY <1>2, <1>4, <3>1
    <3>2. CASE u # t
      BY <1>1, <1>3, <2>1, <3>2
    <3> QED BY <3>1, <3>2
  <2> QED BY <1>1, <2>1 DEF Grows
<1>8. ASSUME NEW q \in Sessions \ {p} PROVE Untouched(q)
  BY <1>1, <1>3, <1>5 DEF Untouched, Typed
<1>9. CallInv(p)'
  <2>1. SessionOf(p)' = s /\ (Ended(s) => Ended(s)') /\ token'[t] # None
    BY <1>1, <1>3, <1>4 DEF SessionOf, Ended
  <2> QED BY <1>1, <1>3, <1>4, <1>5, <2>1
          DEF Typed, CallInv, Called, Read, TooLate, Told, Locked, Rotating, Revoking, Answers
<1>10. RowsInv'
  <2>1. ASSUME NEW u \in Sessions PROVE Issued(u)'
    <3>1. CASE u = p
      BY <1>1, <1>2, <1>3, <3>1, LiveTokenType DEF Issued
    <3>2. CASE u = t
      <4>1. presented'[p] = u /\ op'[p] = "refresh" /\ token'[p] # None
        BY <1>1, <1>4, <3>2
      <4>2. /\ session'[token'[u].session] # "absent" /\ token'[u].replacedBy = p
            /\ token'[p].session = token'[u].session /\ token'[u].revoked
        BY <1>1, <1>2, <1>4, <3>2
      <4> QED BY <4>1, <4>2 DEF Issued
    <3>3. CASE u \notin {p, t} /\ token[u] = None
      BY <1>3, <3>3 DEF Issued
    <3>4. CASE u \notin {p, t} /\ token[u] # None
      BY <1>3, <1>7, <3>4, IssuedKept
    <3> QED BY <3>1, <3>2, <3>3, <3>4
  <2>2. ASSUME NEW a \in Sessions, session'[a] = "ACTIVE"
        PROVE  \E u \in Sessions : token'[u] # None /\ token'[u].session = a /\ ~ Spent(token'[u])
    <3>1. CASE a = s
      BY <1>4, <3>1
    <3>2. CASE a # s
      <4>1. PICK u \in Sessions : token[u] # None /\ token[u].session = a /\ ~ Spent(token[u])
        BY <1>1, <2>2 DEF IInv, ActiveSessionHasToken
      <4>2. u \notin {p, t}
        BY <1>1, <1>2, <3>2, <4>1
      <4> QED BY <1>3, <4>1, <4>2
    <3> QED BY <3>1, <3>2
  <2>3. RevokedForAReason'
    BY <1>1, <1>7, ReasonKept DEF RevokedForAReason
  <2> QED BY <2>1, <2>2, <2>3 DEF RowsInv, ActiveSessionHasToken, Spent
<1> QED BY <1>5, <1>6, <1>7, <1>8, <1>9, <1>10, RowStep

LEMMA CommitRevocationInv ==
    ASSUME IInv, NEW p \in Sessions, CommitRevocation(p)
    PROVE  IInv'
<1> DEFINE t == presented[p]
           s == SessionOf(p)
<1> Typed /\ CallInv(p)
  BY DEF IInv, CallInv
<1>1. /\ pc[p] = "revokeTokens" /\ toRevoke[p] = {} /\ op[p] \in {"refresh", "logout"}
      /\ token[p] = None /\ session[p] = "absent" /\ t \in Sessions /\ token[t] # None
      /\ op[p] = "refresh" => token[t].revoked
      /\ Release(p) /\ session' = Revoked(p)
      /\ token' = [u \in Sessions |-> IF TokenRow(u) \in held[p]
                                      THEN [token[u] EXCEPT !.revoked = TRUE] ELSE token[u]]
      /\ \/ op[p] = "logout" /\ pc' = [pc EXCEPT ![p] = "audit"] /\ UNCHANGED <<seen, answer, faults>>
         \/ /\ \/ answer' = [answer EXCEPT ![p] = "error"]
               \/ op[p] = "refresh" /\ answer' = [answer EXCEPT ![p] = "refresh_token_replayed"]
            /\ pc' = [pc EXCEPT ![p] = "done"]
            /\ seen' = [seen EXCEPT ![p] = None]
            /\ faults' \in 0 .. MaxFaults
      /\ UNCHANGED <<late, op, presented, endedBefore, toRevoke>>
  <2>1. /\ pc[p] = "revokeTokens" /\ toRevoke[p] = {} /\ Release(p) /\ session' = Revoked(p)
        /\ token' = [u \in Sessions |-> IF TokenRow(u) \in held[p]
                                        THEN [token[u] EXCEPT !.revoked = TRUE] ELSE token[u]]
        /\ UNCHANGED <<late, op, presented, endedBefore, toRevoke>>
    BY DEF CommitRevocation, callVars
  <2>2. /\ op[p] \in {"refresh", "logout"} /\ token[p] = None /\ session[p] = "absent"
        /\ t \in Sessions /\ token[t] # None
        /\ op[p] = "refresh" => token[t].revoked
    BY <2>1 DEF CallInv, Called, Read, Revoking, Typed
  <2>3. \/ op[p] = "logout" /\ pc' = [pc EXCEPT ![p] = "audit"] /\ UNCHANGED <<seen, answer, faults>>
        \/ /\ \/ answer' = [answer EXCEPT ![p] = "error"]
              \/ op[p] = "refresh" /\ answer' = [answer EXCEPT ![p] = "refresh_token_replayed"]
           /\ pc' = [pc EXCEPT ![p] = "done"]
           /\ seen' = [seen EXCEPT ![p] = None]
           /\ faults' \in 0 .. MaxFaults
    BY AuthAssumption DEF CommitRevocation, Acknowledged, Answer, Fault, Goto, Typed, AuthAssumption
  <2> QED BY <2>1, <2>2, <2>3
<1>2. token[t] \in Token /\ s \in Sessions /\ token[t].session = s /\ Issued(t)
  BY <1>1 DEF Typed, SessionOf, Token, IInv
<1>3. /\ \A x \in Sessions : SessionRow(x) \in held[p] => x = s /\ session[x] = "ACTIVE"
      /\ SessionRow(s) \notin held[p] => Ended(s)
      /\ \A u \in Sessions : TokenRow(u) \in held[p] => token[u] # None /\ token[u].session = s
  BY <1>1 DEF CallInv, Locked
<1>4. /\ session' \in [Sessions -> {"absent", "ACTIVE", "REVOKED", "EXPIRED"}]
      /\ Ended(s) => session'[s] = session[s]
      /\ ~ Ended(s) => SessionRow(s) \in held[p] /\ session'[s] = "REVOKED"
      /\ \A x \in Sessions \ {s} : session'[x] = session[x]
  BY <1>1, <1>2, <1>3 DEF Revoked, Ended, Typed
<1>5. ASSUME NEW u \in Sessions
      PROVE  /\ token'[u] \in Token \cup {None}
             /\ token[u] = None => token'[u] = None
             /\ token[u] # None => /\ token'[u] # None
                                   /\ token'[u].session = token[u].session
                                   /\ token'[u].replacedBy = token[u].replacedBy
                                   /\ token[u].revoked => token'[u].revoked
             /\ TokenRow(u) \notin held[p] => token'[u] = token[u]
  <2>1. CASE TokenRow(u) \in held[p]
    <3>1. token[u] \in Token /\ token[u] # None
      BY <1>3, <2>1 DEF Typed
    <3>2. token'[u] = [token[u] EXCEPT !.revoked = TRUE]
      BY <1>1, <2>1
    <3>3. /\ [token[u] EXCEPT !.revoked = TRUE] \in Token
          /\ [token[u] EXCEPT !.revoked = TRUE] # None
          /\ [token[u] EXCEPT !.revoked = TRUE].session = token[u].session
          /\ [token[u] EXCEPT !.revoked = TRUE].revoked
          /\ [token[u] EXCEPT !.revoked = TRUE].replacedBy = token[u].replacedBy
      BY <3>1, <1>1, TokenUpdates
    <3> QED BY <2>1, <3>1, <3>2, <3>3
  <2>2. CASE TokenRow(u) \notin held[p]
    BY <1>1, <2>2 DEF Typed
  <2> QED BY <2>1, <2>2
<1>6. /\ held' \in [Sessions -> SUBSET Row] /\ LocksExclusive' /\ held'[p] = {}
      /\ \A q \in Sessions \ {p} : held'[q] = held[q]
  BY <1>1, ReleaseExclusive
<1>7. Typed'
  <2>1. token' \in [Sessions -> Token \cup {None}]
    BY <1>1, <1>5
  <2> QED BY <1>1, <1>4, <1>6, <2>1 DEF Typed, PC, Answers
<1>8. Grows
  BY <1>1, <1>2, <1>4, <1>5 DEF Grows, Ended, Typed
<1>9. ASSUME NEW q \in Sessions \ {p} PROVE Untouched(q)
  <2>1. ASSUME NEW x \in Sessions, SessionRow(x) \in held[q] PROVE session'[x] = session[x]
    <3>1. SessionRow(x) \notin held[p]
      BY <2>1 DEF IInv, LocksExclusive
    <3> QED BY <1>1, <3>1 DEF Revoked
  <2>2. session[q] = "absent" => session'[q] = "absent"
    BY <1>1, <1>3 DEF Revoked
  <2> QED BY <1>1, <1>5, <1>6, <2>1, <2>2 DEF Untouched, Typed
<1>10. session'[s] \in {"REVOKED", "EXPIRED"} /\ SessionOf(p)' = s
  <2>1. session'[s] \in {"REVOKED", "EXPIRED"}
    BY <1>4 DEF Ended
  <2>2. SessionOf(p)' = s
    BY <1>1, <1>2, <1>5 DEF SessionOf
  <2> QED BY <2>1, <2>2
<1>11. CallInv(p)'
  <2>1. Ended(SessionOf(p))' /\ token'[t] # None
    BY <1>1, <1>5, <1>10 DEF Ended
  <2>2. pc'[p] \in {"audit", "done"} /\ (pc'[p] = "audit" => op[p] = "logout")
    BY <1>1 DEF Typed
  <2>3. answer'[p] \in Answers => pc'[p] = "done"
    BY <1>1 DEF Typed, CallInv, Called
  <2>4. answer'[p] # "tokens"
    BY <1>1 DEF Typed, CallInv, Called, Answers
  <2>5. Called(p)' /\ Read(p)' /\ Told(p)' /\ Locked(p)'
    BY <1>1, <1>6, <2>1, <2>2, <2>3, <2>4
       DEF CallInv, Called, Read, Told, Locked, Rotating, Revoking
  <2>6. TooLate(p)'
    BY <1>1, <2>1, <2>2, <2>4 DEF CallInv, TooLate, Rotating
  <2> QED BY <2>5, <2>6 DEF CallInv
<1>12. RowsInv'
  <2>1. ASSUME NEW u \in Sessions PROVE Issued(u)'
    <3>1. CASE token[u] = None
      BY <1>5, <3>1 DEF Issued
    <3>2. CASE token[u] # None
      <4>1. token'[u].revoked = token[u].revoked
            \/ session'[token[u].session] \in {"REVOKED", "EXPIRED"}
        BY <1>3, <1>5, <1>10
      <4> QED BY <1>5, <1>8, <3>2, <4>1, IssuedKept
    <3> QED BY <3>1, <3>2
  <2>2. ASSUME NEW a \in Sessions, session'[a] = "ACTIVE"
        PROVE  \E u \in Sessions : token'[u] # None /\ token'[u].session = a /\ ~ Spent(token'[u])
    <3>1. a # s /\ session[a] = "ACTIVE"
      BY <1>4, <1>10, <2>2
    <3>2. PICK u \in Sessions : token[u] # None /\ token[u].session = a /\ ~ Spent(token[u])
      BY <3>1 DEF IInv, ActiveSessionHasToken
    <3>3. token'[u] = token[u]
      BY <1>3, <1>5, <3>1, <3>2
    <3> QED BY <3>2, <3>3
  <2>3. RevokedForAReason'
    <3> SUFFICES ASSUME NEW x \in Sessions, session'[x] = "REVOKED"
                 PROVE  (\E a, b \in Sessions :
                          /\ presented[a] # None
                          /\ presented[b] = presented[a]
                          /\ SessionOf(a) = x
                          /\ \/ op[a] = "logout"
                             \/ a # b /\ op[a] = "refresh" /\ op[b] = "refresh")'
      BY DEF RevokedForAReason
    <3>1. CASE session[x] = "REVOKED"
      BY <1>8, <3>1, ReasonKept
    <3>2. CASE session[x] # "REVOKED"
      <4>1. x = s /\ ~ Ended(s)
        BY <1>4, <3>2
      <4>2. t # None
        BY <1>1, AuthAssumption DEF AuthAssumption
      <4>3. CASE op[p] = "logout"
        BY <1>1, <1>10, <4>1, <4>2, <4>3
      <4>4. CASE op[p] = "refresh"
        <5>1. PICK q \in Sessions : presented[q] = t /\ op[q] = "refresh" /\ token[q] # None
          BY <1>1, <1>2, <4>1, <4>4 DEF Issued
        <5>2. q # p
          BY <1>1, <5>1
        <5>3. presented'[p] = t /\ presented'[q] = t /\ op'[p] = "refresh" /\ op'[q] = "refresh"
          BY <1>1, <4>4, <5>1
        <5> QED BY <1>10, <4>1, <4>2, <5>2, <5>3
      <4> QED BY <1>1, <4>3, <4>4
    <3> QED BY <3>1, <3>2
  <2> QED BY <2>1, <2>2, <2>3 DEF RowsInv, ActiveSessionHasToken, Spent
<1> QED BY <1>6, <1>7, <1>8, <1>9, <1>11, <1>12, RowStep

LEMMA ExpireSessionInv ==
    ASSUME IInv, NEW p \in Sessions, ExpireSession(p)
    PROVE  IInv'
<1> DEFINE s == SessionOf(p)
<1> Typed /\ LocksExclusive /\ CallInv(p)
  BY DEF IInv, CallInv
<1>1. /\ pc[p] = "expireSession" /\ op[p] = "refresh" /\ session[p] = "absent" /\ held[p] = {}
      /\ presented[p] \in Sessions /\ token[presented[p]] # None
      /\ \/ /\ session[s] = "ACTIVE"
            /\ Free(p, SessionRow(s))
            /\ session' = [session EXCEPT ![s] = "EXPIRED"]
         \/ session[s] # "ACTIVE" /\ UNCHANGED session
      /\ answer' = [answer EXCEPT ![p] = "refresh_token_expired"]
      /\ pc' = [pc EXCEPT ![p] = "done"]
      /\ seen' = [seen EXCEPT ![p] = None]
      /\ UNCHANGED <<held, token, late, op, presented, endedBefore, toRevoke, faults>>
  BY DEF ExpireSession, Answer, Goto, callVars, Typed, CallInv, Called, Locked
<1>2. s \in Sessions /\ session[s] # "absent"
  BY <1>1 DEF Typed, SessionOf, Token, IInv, Issued
<1>3. /\ session' \in [Sessions -> {"absent", "ACTIVE", "REVOKED", "EXPIRED"}]
      /\ session'[s] \in {"REVOKED", "EXPIRED"}
      /\ \A x \in Sessions : session'[x] = session[x] \/ (x = s /\ session[s] = "ACTIVE" /\ session'[s] = "EXPIRED")
  BY <1>1, <1>2 DEF Typed
<1>4. Typed' /\ LocksExclusive'
  BY <1>1, <1>3 DEF Typed, PC, Answers, LocksExclusive
<1>5. Grows
  BY <1>1, <1>3 DEF Grows, Ended, Typed
<1>6. ASSUME NEW q \in Sessions \ {p} PROVE Untouched(q)
  <2>1. ASSUME NEW x \in Sessions, SessionRow(x) \in held[q] PROVE session'[x] = session[x]
    BY <1>1, <1>2, <2>1 DEF Free, Typed
  <2> QED BY <1>1, <1>2, <1>3, <2>1 DEF Untouched, Typed
<1>7. CallInv(p)'
  <2>1. SessionOf(p)' = s /\ Ended(SessionOf(p))'
    BY <1>1, <1>3 DEF SessionOf, Ended
  <2> QED BY <1>1, <2>1
          DEF Typed, CallInv, Called, Read, TooLate, Told, Locked, Rotating, Revoking
<1>8. RowsInv'
  <2>1. ASSUME NEW u \in Sessions PROVE Issued(u)'
    <3>1. CASE token[u] = None
      BY <1>1, <3>1 DEF Issued
    <3>2. CASE token[u] # None
      BY <1>1, <1>5, <3>2, IssuedKept
    <3> QED BY <3>1, <3>2
  <2>2. ActiveSessionHasToken'
    BY <1>1, <1>3 DEF IInv, ActiveSessionHasToken, Spent
  <2>3. RevokedForAReason'
    BY <1>3, <1>5, ReasonKept DEF RevokedForAReason
  <2> QED BY <2>1, <2>2, <2>3 DEF RowsInv
<1> QED BY <1>4, <1>5, <1>6, <1>7, <1>8, RowStep

-----------------------------------------------------------------------------
(* The invariant.                                                          *)

LEMMA InitInv == Init => IInv
<1> SUFFICES ASSUME Init PROVE IInv
  OBVIOUS
<1>1. Typed
  BY AuthAssumption DEF Init, Typed, NoLocks, PC, AuthAssumption
<1>2. LocksExclusive
  BY DEF Init, LocksExclusive, NoLocks
<1>3. ASSUME NEW p \in Sessions PROVE Called(p) /\ Read(p) /\ TooLate(p) /\ Told(p) /\ Locked(p)
  BY AuthAssumption
     DEF Init, NoLocks, Called, Read, TooLate, Told, Locked, Rotating, Revoking, Answers, AuthAssumption
<1>4. (\A t \in Sessions : Issued(t)) /\ ActiveSessionHasToken /\ RevokedForAReason
  BY DEF Init, Issued, ActiveSessionHasToken, RevokedForAReason
<1> QED BY <1>1, <1>2, <1>3, <1>4 DEF IInv

\* What IInv says depends on these variables only.
LEMMA StutterInv ==
    ASSUME IInv, UNCHANGED <<held, session, token, op, presented, endedBefore, seen, toRevoke,
                             pc, answer, faults>>,
           late' \subseteq Sessions
    PROVE  IInv'
  BY DEF IInv, Typed, LocksExclusive, Called, Read, TooLate, Told, Locked, Issued, Ended, SessionOf,
         SessionRow, TokenRow, Spent, ActiveSessionHasToken, RevokedForAReason

LEMMA StepInv == ASSUME IInv, NEW p \in Sessions, Step(p) PROVE IInv'
<1>1. CASE DeadlockVictim(p)
  BY <1>1, ThrowInv DEF DeadlockVictim, IInv, Typed
<1> QED BY <1>1, IssueSessionTokensInv, ReadSessionInv, SpendTokenInv, TouchSessionInv, CommitRotationInv,
           RevokeSessionInv, MatchTokensInv, RevokeTokenInv, CommitRevocationInv, ExpireSessionInv,
           AuditInv DEF Step

LEMMA NextInv == IInv /\ [Next]_vars => IInv'
<1> SUFFICES ASSUME IInv, [Next]_vars PROVE IInv'
  OBVIOUS
<1>1. ASSUME NEW p \in Sessions, Login(p) \/ Refresh(p) \/ Logout(p) \/ Step(p) PROVE IInv'
  BY <1>1, LoginInv, RefreshInv, LogoutInv, StepInv
<1>2. ASSUME NEW p \in Sessions, Fail(p) PROVE IInv'
  <2>1. faults' \in 0 .. MaxFaults
    BY <1>2, AuthAssumption DEF Fail, Fault, IInv, Typed, AuthAssumption
  <2> QED BY <1>2, <2>1, ThrowInv DEF Fail
<1>3. ASSUME NEW s \in Sessions, Expire(s) PROVE IInv'
  BY <1>3, StutterInv DEF Expire, rowVars, callVars, IInv, Typed
<1>4. CASE UNCHANGED vars
  BY <1>4, StutterInv DEF vars, rowVars, callVars, IInv, Typed
<1> QED BY <1>1, <1>2, <1>3, <1>4 DEF Next

\* The invariant holds in every reachable state: what an open transaction has
\* locked and seen of a session and its tokens is still so.
THEOREM Invariance == Spec => []IInv
  BY InitInv, NextInv, PTL DEF Spec

\* Every variable has its type, the rotation chain of a session stays within it,
\* and no row is locked by two open transactions.
THEOREM TypeCorrect == Spec => []TypeOK
  BY Invariance, TypesOfIInv, PTL

\* Who was told that the session is over, by a logout, a replay or an expiry, can
\* rely on it, whatever refresh of it was under way.
THEOREM EndedWhenTold == Spec => []AnswersEndSession
<1>1. IInv => AnswersEndSession
  BY DEF IInv, Told, Ended, AnswersEndSession
<1> QED BY Invariance, <1>1, PTL

\* A refresh that begins after its session has ended gets no tokens.
THEOREM RefreshedInTime == Spec => []NoTokensAfterEnd
<1>1. IInv => NoTokensAfterEnd
  BY DEF IInv, TooLate, NoTokensAfterEnd
<1> QED BY Invariance, <1>1, PTL

\* However rotations and revocations that fail overlap, an ACTIVE session has a
\* token that can still be spent.
THEOREM NeverLockedOut == Spec => []ActiveSessionHasToken
<1>1. IInv => ActiveSessionHasToken
  BY DEF IInv
<1> QED BY Invariance, <1>1, PTL

\* A session is revoked because somebody logged it out or because one of its
\* tokens was presented to two refreshes.
THEOREM RevocationHasReason == Spec => []RevokedForAReason
<1>1. IInv => RevokedForAReason
  BY DEF IInv
<1> QED BY Invariance, <1>1, PTL

-----------------------------------------------------------------------------
(* How a session ended is not changed.                                     *)

LEMMA EndKept ==
    ASSUME IInv, [Next]_vars, NEW s \in Sessions, Ended(s)
    PROVE  session'[s] = session[s]
<1>1. ASSUME NEW p \in Sessions, IssueSessionTokens(p) PROVE session'[s] = session[s]
  <2>1. session[p] = "absent"
    BY <1>1 DEF IInv, Called, IssueSessionTokens
  <2> QED BY <1>1, <2>1 DEF IssueSessionTokens, IInv, Typed, Ended
<1>2. ASSUME NEW p \in Sessions, CommitRevocation(p) PROVE session'[s] = session[s]
  <2>1. SessionRow(s) \notin held[p]
    BY <1>2 DEF CommitRevocation, IInv, Locked, Ended
  <2> QED BY <1>2, <2>1 DEF CommitRevocation, Revoked
<1>3. ASSUME NEW p \in Sessions, ExpireSession(p) PROVE session'[s] = session[s]
  BY <1>3 DEF ExpireSession, IInv, Typed, Ended
<1>4. ASSUME UNCHANGED session PROVE session'[s] = session[s]
  BY <1>4
<1> QED BY <1>1, <1>2, <1>3, <1>4
        DEF Next, Step, Login, Refresh, Logout, ReadSession, SpendToken, TouchSession, CommitRotation,
            RevokeSession, MatchTokens, RevokeToken, Audit, DeadlockVictim, Fail, Throw, Expire,
            vars, rowVars

\* How a session ended is not changed afterwards, by an expiry that races a
\* revocation or by a refresh that is still to commit.
THEOREM EndStays == Spec => EndIsFinal
<1>1. IInv /\ [Next]_vars =>
        [\A s \in Sessions : session[s] \in {"REVOKED", "EXPIRED"} => session'[s] = session[s]]_vars
  BY EndKept DEF Ended
<1> QED BY Invariance, <1>1, PTL DEF Spec, EndIsFinal
=============================================================================
