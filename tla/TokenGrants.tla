----------------------------- MODULE TokenGrants -----------------------------
(***************************************************************************)
(* The grants of the gateway's own OAuth server (server/okk_mcp/oauth.py): *)
(* the exchange of an authorization code, the rotation of a refresh token  *)
(* with its retry window, reuse detection, /revoke and the verifier of     *)
(* access tokens, for any number of concurrent requests that may present   *)
(* any code or token ever issued.                                          *)
(*                                                                         *)
(* A pair is an access and a refresh token issued together.  A request is  *)
(* one READ COMMITTED transaction: it takes row locks (SELECT ... FOR      *)
(* UPDATE, UPDATE), what it writes is seen by others when it commits, and  *)
(* an exception or a crash rolls it back.  The OKK account session behind  *)
(* a grant appears as SessionContract promises it.                         *)
(*                                                                         *)
(* The locks are those of codes and of refresh tokens.  An UPDATE of the   *)
(* family locks its rows one after another; it is one step here, because   *)
(* at most one refresh token of a sign-in is not revoked (a rotation       *)
(* revokes the token it uses, and ChainHasOneHead).  The rows of access    *)
(* tokens, which the same UPDATE locks in an order of PostgreSQL's own,    *)
(* and the locks of foreign keys are left out.                             *)
(***************************************************************************)
EXTENDS Naturals

CONSTANTS Sessions,   \* sign-ins: an account session and its only code
          Pairs,      \* bound: token pairs that can be issued
          Scopes,     \* optional scopes a person may grant
          Requests,   \* requests the gateway serves at once
          NoOne,      \* the owner of a row nobody has locked
          NoPair,     \* replaced_by_hash of a pair that was not rotated
          NoSession   \* the session of an idle request

ASSUME NoOneAssumption == NoOne \notin Requests
ASSUME NoPairAssumption == NoPair \notin Pairs
ASSUME NoSessionAssumption == NoSession \notin Sessions

VARIABLES
    codeUsed,   \* the code of a session was exchanged
    grant,      \* the scopes its person consented to
    issued,     \* the pairs in the database
    token,      \* the rows of a pair
    lock,       \* the request holding a refresh token's row
    codeLock,   \* the request holding a code's row
    live,       \* the account sessions that are not revoked
    pc,         \* the next step of a request
    kind,       \* what it asked for
    tok,        \* the pair it presented a token of
    sess,       \* the account session of that token or code
    seen,       \* the rows its family UPDATE found when the statement began
    caught      \* history: sessions whose replay was answered

rows == <<codeUsed, grant, issued, token>>
locks == <<lock, codeLock>>
locals == <<kind, tok, sess, seen>>
vars == <<rows, locks, live, pc, locals, caught>>

-----------------------------------------------------------------------------
Steps == {"idle", "lock_code", "issue_code", "lock_token", "lock_next", "retry",
          "ask", "granting", "issue", "served",
          "snapshot", "update", "logout", "commit_revoke"}

Rows == [session : Sessions \cup {NoSession}, used : BOOLEAN, revoked : BOOLEAN,
         accessRevoked : BOOLEAN, next : Pairs \cup {NoPair}, retry : BOOLEAN,
         scope : SUBSET Scopes]

NoRow == [session |-> NoSession, used |-> FALSE, revoked |-> FALSE,
          accessRevoked |-> FALSE, next |-> NoPair, retry |-> FALSE, scope |-> {}]

TypeOK ==
    /\ codeUsed \in [Sessions -> BOOLEAN]
    /\ grant \in [Sessions -> SUBSET Scopes]
    /\ issued \subseteq Pairs
    /\ token \in [Pairs -> Rows]
    /\ lock \in [Pairs -> Requests \cup {NoOne}]
    /\ codeLock \in [Sessions -> Requests \cup {NoOne}]
    /\ live \in [Sessions -> BOOLEAN]
    /\ pc \in [Requests -> Steps]
    /\ kind \in [Requests -> {"none", "code", "refresh", "revoke", "verify", "tool"}]
    /\ tok \in [Requests -> Pairs \cup {NoPair}]
    /\ sess \in [Requests -> Sessions \cup {NoSession}]
    /\ seen \in [Requests -> SUBSET Pairs]
    /\ caught \subseteq Sessions

\* Every person has signed in and consented; no code has been exchanged yet.
Init ==
    /\ codeUsed = [s \in Sessions |-> FALSE]
    /\ grant \in [Sessions -> SUBSET Scopes]
    /\ issued = {}
    /\ token = [p \in Pairs |-> NoRow]
    /\ lock = [p \in Pairs |-> NoOne]
    /\ codeLock = [s \in Sessions |-> NoOne]
    /\ live = [s \in Sessions |-> TRUE]
    /\ pc = [r \in Requests |-> "idle"]
    /\ kind = [r \in Requests |-> "none"]
    /\ tok = [r \in Requests |-> NoPair]
    /\ sess = [r \in Requests |-> NoSession]
    /\ seen = [r \in Requests |-> {}]
    /\ caught = {}

-----------------------------------------------------------------------------
Family(s) == {p \in issued : token[p].session = s}

Usable(p) == ~token[p].used /\ ~token[p].revoked

Free(p, r) == lock[p] \in {NoOne, r}

Goto(r, step) == pc' = [pc EXCEPT ![r] = step]

Begin(r, what, p, s, step) ==
    /\ pc[r] = "idle"
    /\ Goto(r, step)
    /\ kind' = [kind EXCEPT ![r] = what]
    /\ tok' = [tok EXCEPT ![r] = p]
    /\ sess' = [sess EXCEPT ![r] = s]
    /\ UNCHANGED <<rows, locks, live, seen, caught>>

\* Slip: a transaction that ends keeps the code's row.
EndKeepingCode(r) ==
    /\ Goto(r, "idle")
    /\ kind' = [kind EXCEPT ![r] = "none"]
    /\ tok' = [tok EXCEPT ![r] = NoPair]
    /\ sess' = [sess EXCEPT ![r] = NoSession]
    /\ seen' = [seen EXCEPT ![r] = {}]
    /\ lock' = [p \in Pairs |-> IF lock[p] = r THEN NoOne ELSE lock[p]]
    /\ UNCHANGED codeLock

\* The transaction ends, with a commit or a rollback: its locks are released.
End(r) ==
    /\ Goto(r, "idle")
    /\ kind' = [kind EXCEPT ![r] = "none"]
    /\ tok' = [tok EXCEPT ![r] = NoPair]
    /\ sess' = [sess EXCEPT ![r] = NoSession]
    /\ seen' = [seen EXCEPT ![r] = {}]
    /\ lock' = [p \in Pairs |-> IF lock[p] = r THEN NoOne ELSE lock[p]]
    /\ codeLock' = [s \in Sessions |-> IF codeLock[s] = r THEN NoOne ELSE codeLock[s]]

\* An error answer: nothing was written.
Refuse(r) == End(r) /\ UNCHANGED <<rows, live, caught>>

\* Slip: replaced_by_hash is filled with the session.
NewPairLinked(q, s, S) ==
    [session |-> s, used |-> FALSE, revoked |-> FALSE, accessRevoked |-> FALSE,
     next |-> s, retry |-> FALSE, scope |-> S]

\* _add_token_pair
NewPair(q, s, S) ==
    [session |-> s, used |-> FALSE, revoked |-> FALSE, accessRevoked |-> FALSE,
     next |-> NoPair, retry |-> FALSE, scope |-> S]

-----------------------------------------------------------------------------
(* grant_type=authorization_code                                           *)

Exchange(r, s) == Begin(r, "code", NoPair, s, "lock_code")

\* A used code ends its session before anything else of it is looked at; a
\* code that is expired, another client's or without its verifier is refused.
LockCode(r) ==
    /\ pc[r] = "lock_code"
    /\ codeLock[sess[r]] = NoOne
    /\ \/ /\ codeLock' = [codeLock EXCEPT ![sess[r]] = r]
          /\ Goto(r, IF codeUsed[sess[r]] THEN "snapshot" ELSE "issue_code")
          /\ UNCHANGED <<rows, lock, live, locals, caught>>
       \/ ~codeUsed[sess[r]] /\ Refuse(r)

CommitCode(r) ==
    /\ pc[r] = "issue_code"
    /\ \E q \in Pairs \ issued :
          /\ issued' = issued \cup {q}
          /\ token' = [token EXCEPT ![q] = NewPair(q, sess[r], grant[sess[r]])]
    /\ codeUsed' = [codeUsed EXCEPT ![sess[r]] = TRUE]
    /\ End(r)
    /\ UNCHANGED <<grant, live, caught>>

-----------------------------------------------------------------------------
(* grant_type=refresh_token                                                *)

Present(r, p) == p \in issued /\ Begin(r, "refresh", p, token[p].session, "lock_token")

\* Slip: SELECT without FOR UPDATE.
LockTokenUnlocked(r) ==
    /\ pc[r] = "lock_token"
    /\ \/ /\ token[tok[r]].used \/ ~token[tok[r]].revoked
          /\ Goto(r, IF ~token[tok[r]].used THEN "ask"
                     ELSE IF token[tok[r]].retry THEN "lock_next" ELSE "snapshot")
          /\ UNCHANGED <<rows, locks, live, locals, caught>>
       \/ Refuse(r)

\* A used token is a retry while its successor is still sealed and its
\* window is open, and a replay otherwise.  An expired token, another
\* client's, a changed resource or a wider scope is refused.
LockToken(r) ==
    /\ pc[r] = "lock_token"
    /\ lock[tok[r]] = NoOne
    /\ \/ /\ token[tok[r]].used \/ ~token[tok[r]].revoked
          /\ lock' = [lock EXCEPT ![tok[r]] = r]
          /\ Goto(r, IF ~token[tok[r]].used THEN "ask"
                     ELSE IF token[tok[r]].retry THEN "lock_next" ELSE "snapshot")
          /\ UNCHANGED <<rows, codeLock, live, locals, caught>>
       \/ Refuse(r)

\* Slip: the successor is read without FOR UPDATE.
ReadSuccessor(r) ==
    /\ pc[r] = "lock_next"
    /\ Goto(r, IF Usable(token[tok[r]].next) THEN "retry" ELSE "snapshot")
    /\ UNCHANGED <<rows, locks, live, locals, caught>>

\* _retried_rotation: the lock on the successor stays until the answer.
LockSuccessor(r) ==
    /\ pc[r] = "lock_next"
    /\ LET q == token[tok[r]].next IN
          /\ lock[q] = NoOne
          /\ lock' = [lock EXCEPT ![q] = r]
          /\ Goto(r, IF Usable(q) THEN "retry" ELSE "snapshot")
    /\ UNCHANGED <<rows, codeLock, live, locals, caught>>

\* The sealed pair is answered again.
AnswerRetry(r) == pc[r] = "retry" /\ Refuse(r)

\* live_context, as SessionContract promises it, under the token's row lock.
AskContext(r) ==
    /\ pc[r] = "ask"
    /\ \/ /\ live[sess[r]]
          /\ Goto(r, "granting")
          /\ UNCHANGED <<rows, locks, live, locals, caught>>
       \/ ~live[sess[r]] /\ Refuse(r)

\* Slip: live_context does not read the session again after OKK's answer.
GrantedBlind(r) ==
    /\ pc[r] = "granting"
    /\ Goto(r, IF kind[r] = "refresh" THEN "issue" ELSE "served")
    /\ UNCHANGED <<rows, locks, live, locals, caught>>

Granted(r) ==
    /\ pc[r] = "granting"
    /\ \/ /\ live[sess[r]]
          /\ Goto(r, IF kind[r] = "refresh" THEN "issue" ELSE "served")
          /\ UNCHANGED <<rows, locks, live, locals, caught>>
       \/ ~live[sess[r]] /\ Refuse(r)

\* OKK refuses this account, or is unavailable: the verifier then lets the
\* request pass without an account, and its tool asks for the account itself.
Unavailable(r) ==
    /\ pc[r] \in {"ask", "granting"}
    /\ \/ Refuse(r)
       \/ /\ kind[r] = "verify"
          /\ kind' = [kind EXCEPT ![r] = "tool"]
          /\ Goto(r, "ask")
          /\ UNCHANGED <<rows, locks, live, tok, sess, seen, caught>>

\* Slip: the scopes of a rotation are compared with nothing.
CommitAnyScope(r) ==
    /\ pc[r] = "issue"
    /\ \E q \in Pairs \ issued, S \in SUBSET Scopes :
          /\ issued' = issued \cup {q}
          /\ token' = [token EXCEPT
                         ![q] = NewPair(q, sess[r], S),
                         ![tok[r]] = [@ EXCEPT !.used = TRUE, !.revoked = TRUE,
                                               !.next = q, !.retry = TRUE]]
    /\ End(r)
    /\ UNCHANGED <<codeUsed, grant, live, caught>>

CommitRotation(r) ==
    /\ pc[r] = "issue"
    /\ \E q \in Pairs \ issued, S \in SUBSET token[tok[r]].scope :
          /\ issued' = issued \cup {q}
          /\ token' = [token EXCEPT
                         ![q] = NewPair(q, sess[r], S),
                         ![tok[r]] = [@ EXCEPT !.used = TRUE, !.revoked = TRUE,
                                               !.next = q, !.retry = TRUE]]
    /\ End(r)
    /\ UNCHANGED <<codeUsed, grant, live, caught>>

-----------------------------------------------------------------------------
(* The revocation of a family: a replayed code or token, and /revoke       *)

\* /revoke reads the row without a lock, whatever its state.
Revoke(r, p) == p \in issued /\ Begin(r, "revoke", p, token[p].session, "snapshot")

\* UPDATE ... WHERE family_id = ... AND revoked_at IS NULL: the statement
\* sees the rows committed when it begins ...
BeginUpdate(r) ==
    /\ pc[r] = "snapshot"
    /\ seen' = [seen EXCEPT ![r] = Family(sess[r])]
    /\ Goto(r, "update")
    /\ UNCHANGED <<rows, locks, live, kind, tok, sess, caught>>

\* Slip: UPDATE ... WHERE family_id = ... without the second condition.
WholeFamily(r) == seen[r]

\* ... waits for those another transaction holds, and passes over the ones
\* that transaction revoked.
Targets(r) == {p \in seen[r] : ~token[p].revoked}

\* Slip: the rows are marked without waiting for their owners.
UpdateUnlocked(r) ==
    /\ pc[r] = "update"
    /\ Goto(r, "logout")
    /\ UNCHANGED <<rows, locks, live, locals, caught>>

\* Slip: the upstream session is left alone.
UpdateOnly(r) ==
    /\ pc[r] = "update"
    /\ \A p \in Targets(r) : Free(p, r)
    /\ lock' = [p \in Pairs |-> IF p \in Targets(r) THEN r ELSE lock[p]]
    /\ Goto(r, "commit_revoke")
    /\ UNCHANGED <<rows, codeLock, live, locals, caught>>

Update(r) ==
    /\ pc[r] = "update"
    /\ \A p \in Targets(r) : Free(p, r)
    /\ lock' = [p \in Pairs |-> IF p \in Targets(r) THEN r ELSE lock[p]]
    /\ Goto(r, "logout")
    /\ UNCHANGED <<rows, codeLock, live, locals, caught>>

\* revoke_upstream commits on its own connection before the family does.
Logout(r) ==
    /\ pc[r] = "logout"
    /\ live' = [live EXCEPT ![sess[r]] = FALSE]
    /\ Goto(r, "commit_revoke")
    /\ UNCHANGED <<rows, locks, locals, caught>>

CommitRevoke(r) ==
    /\ pc[r] = "commit_revoke"
    /\ token' = [p \in Pairs |-> IF p \in seen[r]
                                 THEN [token[p] EXCEPT !.revoked = TRUE, !.accessRevoked = TRUE]
                                 ELSE token[p]]
    /\ caught' = IF kind[r] = "revoke" THEN caught ELSE caught \cup {sess[r]}
    /\ End(r)
    /\ UNCHANGED <<codeUsed, grant, issued, live>>

\* /revoke of an access token.
RevokeAccess(p) ==
    /\ p \in issued
    /\ token' = [token EXCEPT ![p].accessRevoked = TRUE]
    /\ UNCHANGED <<codeUsed, grant, issued, locks, live, pc, locals, caught>>

-----------------------------------------------------------------------------
(* verify_token                                                            *)

Verify(r, p) ==
    /\ p \in issued /\ ~token[p].accessRevoked
    /\ Begin(r, "verify", p, token[p].session, "ask")

Serve(r) == pc[r] = "served" /\ Refuse(r)

-----------------------------------------------------------------------------
(* Failures and the rest of the gateway                                    *)

\* An exception, a dropped database connection or the end of the process.
Abort(r) == pc[r] # "idle" /\ Refuse(r)

\* The account session ends elsewhere: OKK, cleanup, another connection.
EndSession(s) ==
    /\ live[s]
    /\ live' = [live EXCEPT ![s] = FALSE]
    /\ UNCHANGED <<rows, locks, pc, locals, caught>>

\* mcp_refresh_retry_seconds passed, or cleanup_once cleared the sealed pair.
CloseRetry(p) ==
    /\ token[p].retry
    /\ token' = [token EXCEPT ![p].retry = FALSE]
    /\ UNCHANGED <<codeUsed, grant, issued, locks, live, pc, locals, caught>>

-----------------------------------------------------------------------------
Start(r) ==
    \/ \E s \in Sessions : Exchange(r, s)
    \/ \E p \in Pairs : Present(r, p) \/ Revoke(r, p) \/ Verify(r, p)

Waiting(r) == LockCode(r) \/ LockToken(r) \/ LockSuccessor(r) \/ Update(r)

Step(r) ==
    \/ CommitCode(r) \/ AnswerRetry(r) \/ AskContext(r) \/ Granted(r) \/ Unavailable(r)
    \/ CommitRotation(r) \/ BeginUpdate(r) \/ Logout(r) \/ CommitRevoke(r) \/ Serve(r)

Environment ==
    \/ \E s \in Sessions : EndSession(s)
    \/ \E p \in Pairs : RevokeAccess(p) \/ CloseRetry(p)

Next ==
    \/ \E r \in Requests : Start(r) \/ Waiting(r) \/ Step(r) \/ Abort(r)
    \/ Environment

Spec == Init /\ [][Next]_vars

\* PostgreSQL serves the waiters of a row in turn, every other step is an
\* await that ends.  When the bound on Pairs is reached the insert fails.
Fairness ==
    \A r \in Requests :
        /\ WF_vars(Step(r) \/ (issued = Pairs /\ pc[r] \in {"issue", "issue_code"} /\ Abort(r)))
        /\ SF_vars(Waiting(r))

FairSpec == Spec /\ Fairness

-----------------------------------------------------------------------------
(* Properties                                                              *)

Heads(s) == {p \in Family(s) : Usable(p)}

\* Whatever is presented at once, repeated, rolled back or revoked: the
\* chain of a sign-in never forks and never loses its end while its session
\* is live.  Two parallel refreshes cannot both rotate, a failed rotation
\* does not spend the token, and a revocation kills the session before the
\* last usable token.
ChainHasOneHead ==
    \A s \in Sessions :
        /\ \A p, q \in Heads(s) : p = q
        /\ live[s] /\ codeUsed[s] => Heads(s) # {}

\* An answer "reuse detected; session revoked" is sent only after the
\* account session has ended, so that no token of the sign-in works any
\* more, those of a rotation in flight included.
CaughtSessionEnded == \A s \in caught : ~live[s]

\* A retry is answered with a pair nobody has used or revoked: no rotation
\* and no revocation commits between the check and the answer.
RetryAnswersUnused ==
    \A r \in Requests : pc[r] = "retry" => Usable(token[tok[r]].next)

\* Nobody rotates a token that was used or revoked in the meantime, however
\* long OKK takes to confirm the account.
RotatesOnlyUsable ==
    \A r \in Requests : kind[r] = "refresh" /\ pc[r] \in {"ask", "granting", "issue"}
                            => Usable(tok[r])

\* A rotation may narrow the consent and never widens it, over any chain.
ScopeOnlyNarrows ==
    \A p \in issued :
        /\ token[p].scope \subseteq grant[token[p].session]
        /\ token[p].next # NoPair => token[token[p].next].scope \subseteq token[p].scope

WaitsFor(r, q) ==
    \/ pc[r] = "lock_code" /\ codeLock[sess[r]] = q
    \/ pc[r] = "lock_token" /\ lock[tok[r]] = q
    \/ pc[r] = "lock_next" /\ lock[token[tok[r]].next] = q
    \/ pc[r] = "update" /\ q # r /\ \E p \in Targets(r) : lock[p] = q

\* Retries lock from a token to its successor, a revocation waits only for
\* the end of the chain: no set of transactions waits in a circle.
NoCircularWait ==
    \A C \in (SUBSET Requests) \ {{}} : \E r \in C : \A q \in C : ~WaitsFor(r, q)

\* Every token request, revocation and verification is answered.
Answered == \A r \in Requests : pc[r] # "idle" ~> pc[r] = "idle"

-----------------------------------------------------------------------------
\* The use of the account session keeps to its contract.
Call(s) == [r \in Requests |-> IF sess[r] # s THEN "idle"
                               ELSE IF pc[r] = "granting" THEN "asked"
                               ELSE IF pc[r] \in {"issue", "served"} THEN "granted"
                               ELSE "idle"]

Account(s) == INSTANCE SessionContract WITH live <- live[s], pair <- 1, call <- Call(s)

\* A pair is rotated, and a request served, only for an account confirmed
\* while its session was live, during that request.
KeepsSessionContract ==
    [][\A s \in Sessions : Account(s)!Next \/ UNCHANGED Account(s)!vars]_vars
=============================================================================
