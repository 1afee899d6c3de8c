--------------------------- MODULE ConnectionPool ---------------------------
(***************************************************************************)
(* The connections of the database engine (server/okk_mcp/db.py) and the   *)
(* requests of one person that compete for them.  A token request and a    *)
(* revocation keep the connection of get_db for their whole transaction    *)
(* and take a second one inside live_context or revoke_upstream; an MCP    *)
(* request takes one connection after another and none while OKK answers,  *)
(* except to renew the OKK token.                                          *)
(*                                                                         *)
(* What the transactions read and write is in TokenGrants and              *)
(* AccountSession; here a row matters only as something to wait for.       *)
(***************************************************************************)
EXTENDS Naturals, FiniteSets

CONSTANTS Refreshers,   \* POST /token with a refresh token
          Revokers,     \* POST /revoke, and /token with a replayed token
          Callers,      \* MCP requests: verify_token
          Tokens,       \* the refresh tokens that are presented
          Size,         \* database_pool_size + database_max_overflow
          NoOne         \* the owner of a row nobody has locked

Doublers == Refreshers \cup Revokers
Requests == Doublers \cup Callers

ASSUME RequestsAssumption ==
    /\ IsFiniteSet(Requests)
    /\ Refreshers \cap Revokers = {} /\ Doublers \cap Callers = {}
ASSUME NoOneAssumption == NoOne \notin Requests
ASSUME SizeAssumption == Size \in Nat \ {0}

VARIABLES
    pc,       \* the next step of a request
    token,    \* the refresh token a request of /token or /revoke is about
    first,    \* the requests that have the connection of get_db
    second,   \* the requests that have a connection of session_factory
    row,      \* the owner of a refresh token's row
    account   \* the owner of the account session's row

vars == <<pc, token, first, second, row, account>>

-----------------------------------------------------------------------------
\* Steps that run on a connection of session_factory, and those that do not.
Short == {"verify", "load", "renew", "okk", "save", "mark"}
Long == {"open", "row", "commit"}
Outside == {"me", "current", "logout"}

TypeOK ==
    /\ pc \in [Requests -> {"idle"} \cup Short \cup Long \cup Outside]
    /\ token \in [Requests -> Tokens]
    /\ first \subseteq Requests
    /\ second \subseteq Requests
    /\ Cardinality(first) + Cardinality(second) <= Size
    /\ row \in [Tokens -> Requests \cup {NoOne}]
    /\ account \in Requests \cup {NoOne}

Init ==
    /\ pc = [r \in Requests |-> "idle"]
    /\ token \in [Requests -> Tokens]
    /\ first = {} /\ second = {}
    /\ row = [t \in Tokens |-> NoOne]
    /\ account = NoOne

Full == Cardinality(first) + Cardinality(second) >= Size

Goto(r, step) == pc' = [pc EXCEPT ![r] = step]

\* The request ends, with a commit or a rollback: both connections go back.
End(r) ==
    /\ Goto(r, "idle")
    /\ first' = first \ {r}
    /\ second' = second \ {r}
    /\ row' = [t \in Tokens |-> IF row[t] = r THEN NoOne ELSE row[t]]
    /\ account' = IF account = r THEN NoOne ELSE account
    /\ UNCHANGED token

-----------------------------------------------------------------------------
(* The pool                                                                *)

NeedsFirst(r) == pc[r] = "open"
NeedsSecond(r) == pc[r] \in Short /\ r \notin second

Connect(r) ==
    /\ ~Full
    /\ \/ /\ NeedsFirst(r)
          /\ first' = first \cup {r}
          /\ Goto(r, "row")
          /\ UNCHANGED <<token, second, row, account>>
       \/ /\ NeedsSecond(r)
          /\ second' = second \cup {r}
          /\ UNCHANGED <<pc, token, first, row, account>>

\* Slip: only a request without any connection gives up waiting.
PoolTimeoutOfNew(r) ==
    /\ NeedsFirst(r) \/ NeedsSecond(r)
    /\ r \notin first
    /\ End(r)

\* QueuePool's timeout: an exception, so the transaction of get_db ends too.
PoolTimeout(r) ==
    /\ NeedsFirst(r) \/ NeedsSecond(r)
    /\ End(r)

-----------------------------------------------------------------------------
(* The requests                                                            *)

Start(r) ==
    /\ pc[r] = "idle"
    /\ Goto(r, IF r \in Callers THEN "verify" ELSE "open")
    /\ token' \in {[token EXCEPT ![r] = t] : t \in Tokens}
    /\ UNCHANGED <<first, second, row, account>>

\* SELECT ... FOR UPDATE of the refresh token, or the UPDATE of its family.
LockToken(r) ==
    /\ pc[r] = "row"
    /\ row[token[r]] = NoOne
    /\ row' = [row EXCEPT ![token[r]] = r]
    /\ Goto(r, IF r \in Refreshers THEN "load" ELSE "mark")
    /\ UNCHANGED <<token, first, second, account>>

\* Slip: verify_token calls live_context inside its own session.
ReadNested(r) ==
    /\ r \in second /\ pc[r] \in {"verify", "load"}
    /\ second' = second \ {r}
    /\ IF pc[r] = "verify" THEN first' = first \cup {r} /\ Goto(r, "load")
                           ELSE Goto(r, "me") /\ UNCHANGED first
    /\ UNCHANGED <<token, row, account>>

\* verify_token's own transaction, and the first one of live_context.
Read(r) ==
    /\ r \in second /\ pc[r] \in {"verify", "load"}
    /\ second' = second \ {r}
    /\ Goto(r, IF pc[r] = "verify" THEN "load" ELSE "me")
    /\ UNCHANGED <<token, first, row, account>>

\* GET /auth/me: accepted, or 401 the first time.
AskMe(r) ==
    /\ pc[r] \in {"me", "current"}
    /\ \E step \in IF pc[r] = "me" THEN {"save", "renew"} ELSE {"save"} : Goto(r, step)
    /\ UNCHANGED <<token, first, second, row, account>>

\* Slip: SELECT without FOR UPDATE.
ReadAccount(r) ==
    /\ r \in second /\ pc[r] = "renew"
    /\ \/ Goto(r, "okk") /\ UNCHANGED second
       \/ second' = second \ {r} /\ Goto(r, "current")
    /\ UNCHANGED <<token, first, row, account>>

\* _rotate_session: the row is kept while OKK renews the token, or let go
\* because another request renewed it.
LockAccount(r) ==
    /\ r \in second /\ pc[r] = "renew"
    /\ account = NoOne
    /\ \/ account' = r /\ Goto(r, "okk") /\ UNCHANGED second
       \/ second' = second \ {r} /\ Goto(r, "current") /\ UNCHANGED account
    /\ UNCHANGED <<token, first, row>>

Renewed(r) ==
    /\ pc[r] = "okk"
    /\ account' = NoOne
    /\ second' = second \ {r}
    /\ Goto(r, "save")
    /\ UNCHANGED <<token, first, row>>

\* The UPDATE of the account session's row: the second transaction of
\* live_context, or revoke_upstream.
Write(r) ==
    /\ r \in second /\ pc[r] \in {"save", "mark"}
    /\ account = NoOne
    /\ IF pc[r] = "save" /\ r \in Callers
         THEN End(r)
         ELSE /\ second' = second \ {r}
              /\ Goto(r, IF pc[r] = "save" THEN "commit" ELSE "logout")
              /\ UNCHANGED <<token, first, row, account>>

Logout(r) ==
    /\ pc[r] = "logout"
    /\ Goto(r, "commit")
    /\ UNCHANGED <<token, first, second, row, account>>

Commit(r) == pc[r] = "commit" /\ End(r)

\* Any refusal, an unavailable OKK, a cancelled tool call.
Fail(r) == pc[r] # "idle" /\ End(r)

-----------------------------------------------------------------------------
\* A step that waits for a row, and one that ends by itself.
Wait(r) == LockToken(r) \/ LockAccount(r) \/ Write(r)
Answer(r) == Read(r) \/ AskMe(r) \/ Renewed(r) \/ Logout(r) \/ Commit(r)

Next == \E r \in Requests :
            Start(r) \/ Connect(r) \/ PoolTimeout(r) \/ Wait(r) \/ Answer(r) \/ Fail(r)

Spec == Init /\ [][Next]_vars

\* Statements and calls to OKK end; rows are granted in turn; the pool's
\* timeout strikes who is not served.
Fairness ==
    \A r \in Requests :
        /\ WF_vars(Answer(r))
        /\ SF_vars(Wait(r))
        /\ WF_vars(Connect(r) \/ PoolTimeout(r))

FairSpec == Spec /\ Fairness

-----------------------------------------------------------------------------
(* Properties                                                              *)

Blocked(r) ==
    \/ Full /\ (NeedsFirst(r) \/ NeedsSecond(r))
    \/ pc[r] = "row" /\ row[token[r]] # NoOne
    \/ r \in second /\ pc[r] \in {"renew", "save", "mark"} /\ account # NoOne

\* An exhausted pool is at a halt only when token requests hold every one of
\* its connections: until then some request that has one can go on, whichever
\* rows the others wait for.
SomeoneMoves ==
    Full /\ Cardinality(first \cap Doublers) < Size => \E r \in first \cup second : ~Blocked(r)

\* The pool can halt, and its timeout is what ends it: every request is
\* answered, if only with an error.
EveryRequestEnds == \A r \in Requests : pc[r] # "idle" ~> pc[r] = "idle"

Asking(r) == pc[r] \in {"me", "current", "okk", "logout"}

\* What a slow OKK does to the connections of session_factory.  Any number of
\* them may stand still, the whole pool included: the one of _rotate_session
\* that waits for OKK's answer, and those that queue for the account session's
\* row, be it to renew, to store the reloaded account or to revoke.  But they
\* all stand behind that one call: its request owns the row and waits for
\* nothing but OKK, no other call to OKK holds a connection of session_factory,
\* and while no renewal is under way none of them stands still.
ShortWaitsEndWithRenewal ==
    /\ \A r \in second : Asking(r) => r = account
    /\ \A r \in second : Blocked(r) => account \in second /\ pc[account] = "okk"
    /\ account # NoOne => ~Blocked(account)
=============================================================================
