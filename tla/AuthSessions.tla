---------------------------- MODULE AuthSessions ----------------------------
(***************************************************************************)
(* AuthIdentityService: login opens a session with a refresh token,        *)
(* refresh spends the token for a new one, logout and the replay of a      *)
(* spent token revoke the session, a late refresh expires it.  Token and   *)
(* session are checked before the transaction that rotates, and rows are   *)
(* then updated by id.                                                     *)
(*                                                                         *)
(* Calls are numbered in the order in which they begin, and a call that    *)
(* creates rows gives them its own number: a login p creates the session p *)
(* and the token p, a refresh p the token p.  Credentials, audiences and   *)
(* roles decide only whether a login is accepted.  No code disables a      *)
(* principal, so that it is ACTIVE whenever it is looked at.               *)
(***************************************************************************)
EXTENDS ReadCommitted, Naturals

CONSTANTS None,
          MaxFaults    \* bound on what goes wrong of itself

\* A refresh_token row.
Token == [session : Sessions, revoked : BOOLEAN, replacedBy : Sessions \cup {None}]

Answers == {"tokens", "loggedOut", "invalid_credentials", "invalid_token",
            "invalid_refresh_token", "refresh_token_replayed", "refresh_token_expired", "error"}

ASSUME AuthAssumption ==
    /\ Sessions \subseteq Nat
    /\ None \notin Sessions
    /\ None \notin Token
    /\ None \notin Answers
    /\ MaxFaults \in Nat

VARIABLES
    session,    \* session[s]: status of the auth_session row, or "absent"
    token,      \* token[t]: the refresh_token row, or None
    late,       \* the sessions whose refreshExpiresAt has passed
    audit,      \* committed audit events
    op,         \* op[p]: what the call p asks for, or None
    presented,  \* presented[p]: the token it presents, None if nobody issued it
    seen,       \* seen[p]: the row of that token as the call has read it
    toRevoke,   \* toRevoke[p]: tokens revokeSession has matched and not locked yet
    pc,         \* pc[p]: the statement the call is at
    answer,     \* answer[p]: what it was answered
    endedBefore,\* history: refreshes that began when their session had ended
    faults      \* how often something went wrong of itself

rowVars  == <<session, token>>
callVars == <<op, presented, endedBefore>>
vars == <<held, rowVars, late, audit, callVars, seen, toRevoke, pc, answer, faults>>

Init ==
    /\ held = NoLocks
    /\ session = [p \in Sessions |-> "absent"]
    /\ token = [p \in Sessions |-> None]
    /\ late = {}
    /\ audit = {}
    /\ op = [p \in Sessions |-> None]
    /\ presented = [p \in Sessions |-> None]
    /\ seen = [p \in Sessions |-> None]
    /\ toRevoke = [p \in Sessions |-> {}]
    /\ pc = [p \in Sessions |-> "idle"]
    /\ answer = [p \in Sessions |-> None]
    /\ endedBefore = {}
    /\ faults = 0

-----------------------------------------------------------------------------
SessionRow(s) == <<"auth_session", s>>
TokenRow(t) == <<"refresh_token", t>>

LiveToken(s) == [session |-> s, revoked |-> FALSE, replacedBy |-> None]
SessionOf(p) == token[presented[p]].session

Goto(p, label) == pc' = [pc EXCEPT ![p] = label]
Fault ==
    /\ faults < MaxFaults
    /\ faults' = faults + 1

\* The answer ends the call.
Answer(p, kind) ==
    /\ answer' = [answer EXCEPT ![p] = kind]
    /\ Goto(p, "done")
    /\ seen' = [seen EXCEPT ![p] = None]

\* A client presents a token that it was answered with, however long ago, or
\* one that nobody issued.
Presentable == {t \in Sessions : answer[t] = "tokens"} \cup {None}

Present(p, operation, t) ==
    /\ pc[p] = "idle"
    /\ \A q \in Sessions : q < p => pc[q] # "idle"
    /\ op' = [op EXCEPT ![p] = operation]
    /\ presented' = [presented EXCEPT ![p] = t]

-----------------------------------------------------------------------------
(* login                                                                   *)

Login(p) ==
    /\ Present(p, "login", None)
    /\ \/ Answer(p, "invalid_credentials")
       \/ Goto(p, "issue") /\ UNCHANGED <<seen, answer>>
    /\ UNCHANGED <<held, rowVars, late, audit, toRevoke, endedBefore, faults>>

\* issueSessionTokens: two inserts in a transaction.
IssueSessionTokens(p) ==
    /\ pc[p] = "issue"
    /\ session' = [session EXCEPT ![p] = "ACTIVE"]
    /\ token' = [token EXCEPT ![p] = LiveToken(p)]
    /\ Goto(p, "audit")
    /\ UNCHANGED <<held, late, audit, callVars, seen, toRevoke, answer, faults>>

-----------------------------------------------------------------------------
(* refresh                                                                 *)

\* refreshToken.findUnique; the session is fetched by a statement of its own.
Refresh(p) == \E t \in Presentable :
    /\ Present(p, "refresh", t)
    /\ \/ t = None /\ Answer(p, "invalid_refresh_token") /\ UNCHANGED endedBefore
       \/ /\ t # None
          /\ seen' = [seen EXCEPT ![p] = token[t]]
          /\ endedBefore' = endedBefore \cup {q \in {p} : session[token[t].session] # "ACTIVE"}
          /\ Goto(p, "readSession")
          /\ UNCHANGED answer
    /\ UNCHANGED <<held, rowVars, late, audit, toRevoke, faults>>

\* Mutant: assertActiveSession is missing.
ActiveSession_Any(s) == TRUE

ActiveSession(s) == session[s] = "ACTIVE"

Spent(t) == t.revoked \/ t.replacedBy # None

\* The session is read; then the checks on the token, the clock and the session.
ReadSession(p) ==
    LET s == seen[p].session IN
    /\ pc[p] = "readSession"
    /\ \/ /\ Spent(seen[p])
          /\ Goto(p, "revokeSession")
          /\ UNCHANGED <<seen, answer>>
       \/ /\ ~ Spent(seen[p])
          /\ s \in late
          /\ Goto(p, "expireSession")
          /\ UNCHANGED <<seen, answer>>
       \/ /\ ~ Spent(seen[p])
          /\ s \notin late
          /\ ~ ActiveSession(s)
          /\ Answer(p, "invalid_token")
       \/ /\ ~ Spent(seen[p])
          /\ s \notin late
          /\ ActiveSession(s)
          /\ Goto(p, "spendToken")
          /\ UNCHANGED <<seen, answer>>
    /\ UNCHANGED <<held, rowVars, late, audit, callVars, toRevoke, faults>>

\* The rotation: refreshToken.create, which locks nothing others want, and
\* refreshToken.update by id.
SpendToken(p) ==
    /\ pc[p] = "spendToken"
    /\ Acquire(p, TokenRow(presented[p]))
    /\ Goto(p, "touchSession")
    /\ UNCHANGED <<rowVars, late, audit, callVars, seen, toRevoke, answer, faults>>

\* authSession.update of lastRefreshedAt.
TouchSession(p) ==
    /\ pc[p] = "touchSession"
    /\ Acquire(p, SessionRow(SessionOf(p)))
    /\ Goto(p, "commitRotation")
    /\ UNCHANGED <<rowVars, late, audit, callVars, seen, toRevoke, answer, faults>>

\* Mutant: the new token is marked, not the one that was spent.
Rotated_WrongToken(p) ==
    [token EXCEPT ![p] = [session |-> SessionOf(p), revoked |-> TRUE, replacedBy |-> None]]

\* Mutant: revokedAt is not set.
Rotated_StillLive(p) ==
    [token EXCEPT ![presented[p]].replacedBy = p, ![p] = LiveToken(SessionOf(p))]

Rotated(p) ==
    [token EXCEPT ![presented[p]].revoked = TRUE,
                  ![presented[p]].replacedBy = p,
                  ![p] = LiveToken(SessionOf(p))]

\* The acknowledgement of a COMMIT may be lost.
Acknowledged(p, label) ==
    \/ Goto(p, label) /\ UNCHANGED <<seen, answer, faults>>
    \/ Answer(p, "error") /\ Fault

\* Mutant: the refresh writes the status it has read back.
CommitRotation_Reactivates(p) ==
    /\ pc[p] = "commitRotation"
    /\ token' = Rotated(p)
    /\ session' = [session EXCEPT ![SessionOf(p)] = "ACTIVE"]
    /\ Release(p)
    /\ Acknowledged(p, "audit")
    /\ UNCHANGED <<late, audit, callVars, toRevoke>>

CommitRotation(p) ==
    /\ pc[p] = "commitRotation"
    /\ token' = Rotated(p)
    /\ Release(p)
    /\ Acknowledged(p, "audit")
    /\ UNCHANGED <<session, late, audit, callVars, toRevoke>>

-----------------------------------------------------------------------------
(* logout, revokeSession, expireSession                                    *)

\* refreshToken.findUnique; the session that comes with it is not looked at.
Logout(p) == \E t \in Presentable :
    /\ Present(p, "logout", t)
    /\ \/ t = None /\ Answer(p, "loggedOut")
       \/ t # None /\ Goto(p, "revokeSession") /\ UNCHANGED <<seen, answer>>
    /\ UNCHANGED <<held, rowVars, late, audit, toRevoke, endedBefore, faults>>

\* authSession.updateMany WHERE ACTIVE.  If the row is locked it waits and looks
\* at the status again.
RevokeSession(p) ==
    /\ pc[p] = "revokeSession"
    /\ \/ session[SessionOf(p)] = "ACTIVE" /\ Acquire(p, SessionRow(SessionOf(p)))
       \/ session[SessionOf(p)] # "ACTIVE" /\ UNCHANGED held
    /\ Goto(p, "matchTokens")
    /\ UNCHANGED <<rowVars, late, audit, callVars, seen, toRevoke, answer, faults>>

\* refreshToken.updateMany WHERE revokedAt IS NULL: the rows are those committed
\* when the statement begins, and are locked in no order one could rely on.
MatchTokens(p) ==
    /\ pc[p] = "matchTokens"
    /\ toRevoke' = [toRevoke EXCEPT ![p] =
          {t \in Sessions : token[t] # None /\ token[t].session = SessionOf(p) /\ ~ token[t].revoked}]
    /\ Goto(p, "revokeTokens")
    /\ UNCHANGED <<held, rowVars, late, audit, callVars, seen, answer, faults>>

RevokeToken(p) == \E t \in toRevoke[p] :
    /\ pc[p] = "revokeTokens"
    /\ Acquire(p, TokenRow(t))
    /\ toRevoke' = [toRevoke EXCEPT ![p] = @ \ {t}]
    /\ UNCHANGED <<rowVars, late, audit, callVars, seen, pc, answer, faults>>

\* Mutant: the tokens are revoked, the session is not.
Revoked_TokensOnly(p) == session

\* The session row, if the first statement has locked it.
Revoked(p) == [s \in Sessions |-> IF SessionRow(s) \in held[p] THEN "REVOKED" ELSE session[s]]

\* COMMIT.  A token that was spent in the meantime was revoked already.
CommitRevocation(p) ==
    /\ pc[p] = "revokeTokens"
    /\ toRevoke[p] = {}
    /\ session' = Revoked(p)
    /\ token' = [t \in Sessions |-> IF TokenRow(t) \in held[p]
                                    THEN [token[t] EXCEPT !.revoked = TRUE] ELSE token[t]]
    /\ Release(p)
    /\ \/ op[p] = "logout" /\ Acknowledged(p, "audit")
       \/ op[p] = "refresh" /\ Answer(p, "refresh_token_replayed") /\ UNCHANGED faults
       \/ op[p] = "refresh" /\ Answer(p, "error") /\ Fault
    /\ UNCHANGED <<late, audit, callVars, toRevoke>>

\* Mutant: the status is not looked at.
ExpireSession_Any(p) ==
    /\ pc[p] = "expireSession"
    /\ Free(p, SessionRow(SessionOf(p)))
    /\ session' = [session EXCEPT ![SessionOf(p)] = "EXPIRED"]
    /\ Answer(p, "refresh_token_expired")
    /\ UNCHANGED <<held, token, late, audit, callVars, toRevoke, faults>>

\* authSession.updateMany WHERE ACTIVE, a transaction of its own.
ExpireSession(p) ==
    /\ pc[p] = "expireSession"
    /\ \/ /\ session[SessionOf(p)] = "ACTIVE"
          /\ Free(p, SessionRow(SessionOf(p)))
          /\ session' = [session EXCEPT ![SessionOf(p)] = "EXPIRED"]
       \/ /\ session[SessionOf(p)] # "ACTIVE"
          /\ UNCHANGED session
    /\ Answer(p, "refresh_token_expired")
    /\ UNCHANGED <<held, token, late, audit, callVars, toRevoke, faults>>

-----------------------------------------------------------------------------
\* The audit record is written after the transaction; then comes the answer.
Audit(p) ==
    /\ pc[p] = "audit"
    /\ audit' = audit \cup {<<op[p], p>>}
    /\ Answer(p, IF op[p] = "logout" THEN "loggedOut" ELSE "tokens")
    /\ UNCHANGED <<held, rowVars, late, callVars, toRevoke, faults>>

\* Mutant: a transaction that fails is left open.
Throw_StillOpen(p) ==
    /\ Answer(p, "error")
    /\ toRevoke' = [toRevoke EXCEPT ![p] = {}]
    /\ UNCHANGED <<held, rowVars, late, audit, callVars>>

\* A statement throws: its transaction, if one is open, is rolled back.
Throw(p) ==
    /\ Release(p)
    /\ Answer(p, "error")
    /\ toRevoke' = [toRevoke EXCEPT ![p] = {}]
    /\ UNCHANGED <<rowVars, late, audit, callVars>>

Fail(p) ==
    /\ pc[p] \notin {"idle", "done"}
    /\ Throw(p)
    /\ Fault

\* The rows the next statement locks.  An UPDATE of several rows waits for one
\* of them at a time.
Wanted == [p \in Sessions |->
    CASE pc[p] = "spendToken" -> {TokenRow(presented[p])}
      [] pc[p] = "touchSession" -> {SessionRow(SessionOf(p))}
      [] pc[p] = "revokeTokens" -> {TokenRow(t) : t \in toRevoke[p]}
      [] OTHER -> {}]

\* The row p waits for is held by a transaction that waits, over others or not,
\* for a row of p.
DeadlockVictim(p) ==
    /\ Deadlocked(p, Wanted)
    /\ Throw(p)
    /\ UNCHANGED faults

\* refreshExpiresAt passes.
Expire(s) ==
    /\ session[s] # "absent"
    /\ s \notin late
    /\ late' = late \cup {s}
    /\ UNCHANGED <<held, rowVars, audit, callVars, seen, toRevoke, pc, answer, faults>>

Step(p) ==
    \/ IssueSessionTokens(p)
    \/ ReadSession(p) \/ SpendToken(p) \/ TouchSession(p) \/ CommitRotation(p)
    \/ RevokeSession(p) \/ MatchTokens(p) \/ RevokeToken(p) \/ CommitRevocation(p)
    \/ ExpireSession(p)
    \/ Audit(p)
    \/ DeadlockVictim(p)

Next ==
    \/ \E p \in Sessions : Login(p) \/ Refresh(p) \/ Logout(p) \/ Step(p) \/ Fail(p)
    \/ \E s \in Sessions : Expire(s)

Spec == Init /\ [][Next]_vars

\* A call that has begun is not abandoned; clients call or do not.
FairSpec == Spec /\ \A p \in Sessions : WF_vars(Step(p))

-----------------------------------------------------------------------------
TypeOK ==
    /\ LocksExclusive
    /\ session \in [Sessions -> {"absent", "ACTIVE", "REVOKED", "EXPIRED"}]
    /\ token \in [Sessions -> Token \cup {None}]
    /\ \A t \in Sessions : token[t] # None /\ token[t].replacedBy # None =>
          /\ token[t].revoked
          /\ token[token[t].replacedBy] # None
          /\ token[token[t].replacedBy].session = token[t].session
    /\ late \subseteq Sessions
    /\ op \in [Sessions -> {"login", "refresh", "logout", None}]
    /\ presented \in [Sessions -> Sessions \cup {None}]
    /\ toRevoke \in [Sessions -> SUBSET Sessions]
    /\ pc \in [Sessions -> {"idle", "issue", "readSession", "spendToken", "touchSession",
                            "commitRotation", "revokeSession", "matchTokens", "revokeTokens",
                            "expireSession", "audit", "done"}]
    /\ answer \in [Sessions -> Answers \cup {None}]
    /\ endedBefore \subseteq Sessions
    /\ faults \in 0 .. MaxFaults

\* Who was told that the session is over can rely on it: after a logout, a replay
\* or an expiry has been answered the session is not ACTIVE, whatever refresh of
\* it was under way.
AnswersEndSession ==
    \A p \in Sessions :
        /\ answer[p] \in {"loggedOut", "refresh_token_replayed", "refresh_token_expired"}
        /\ presented[p] # None
        => session[SessionOf(p)] \in {"REVOKED", "EXPIRED"}

\* A refresh that begins after its session has ended gets no tokens -- not even
\* with the live token that a rotation under way at the revocation leaves behind.
NoTokensAfterEnd ==
    \A p \in Sessions : op[p] = "refresh" /\ answer[p] = "tokens" => p \notin endedBefore

\* A client is never locked out of an ACTIVE session: there is a token to refresh
\* it with, however rotations and revocations that fail overlap.
ActiveSessionHasToken ==
    \A s \in Sessions : session[s] = "ACTIVE" =>
        \E t \in Sessions : token[t] # None /\ token[t].session = s /\ ~ Spent(token[t])

\* A session is revoked for a reason: somebody logged it out, or some token of it
\* was presented twice.  A client that presents each token once is never told
\* that it replayed one.
RevokedForAReason ==
    \A s \in Sessions : session[s] = "REVOKED" =>
        \E p, q \in Sessions :
            /\ presented[p] # None
            /\ presented[q] = presented[p]
            /\ SessionOf(p) = s
            /\ \/ op[p] = "logout"
               \/ p # q /\ op[p] = "refresh" /\ op[q] = "refresh"

\* How a session ended is not changed afterwards, by an expiry that races a
\* revocation or a refresh that is still to commit.
EndIsFinal ==
    [][\A s \in Sessions : session[s] \in {"REVOKED", "EXPIRED"} => session'[s] = session[s]]_vars

\* Every call is answered, though rotation and revocation lock the rows of a
\* session in opposite orders.
EveryCallAnswered == \A p \in Sessions : pc[p] # "idle" ~> pc[p] = "done"
=============================================================================
