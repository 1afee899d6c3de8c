--------------------------- MODULE AccountSession ---------------------------
(***************************************************************************)
(* One encrypted OKK account session of the gateway and everybody who      *)
(* uses it at once (server/okk_mcp/platform_client.py): MCP requests that  *)
(* reload the live account (`live_context`), the reads of their tool calls *)
(* (`_read`), the serialized renewal of the OKK token pair                 *)
(* (`_rotate_session`) and `revoke_upstream`.                              *)
(*                                                                         *)
(* A token is known by the number of the pair it belongs to: OKK issues    *)
(* pair 1 at sign-in and pair n+1 when it is shown refresh token n.  A     *)
(* step is what happens between two awaits: one database statement or      *)
(* commit, or one request as OKK processes it.                             *)
(***************************************************************************)
EXTENDS Naturals

CONSTANTS Requests,   \* MCP requests of this person that run concurrently
          Revokers,   \* concurrent calls of revoke_upstream
          NoOne,      \* the owner of a free row lock
          MaxGen      \* bound: pairs whose access token may expire

ASSUME NoOneAssumption == NoOne \notin Requests
ASSUME MaxGenAssumption == MaxGen \in Nat

VARIABLES
    row,          \* the row of okk_account_sessions
    lock,         \* the owner of its FOR UPDATE lock
    okk,          \* the upstream session inside OKK
    renewed,      \* _renewed_access of this session: (expired, renewed) access token
    pc,           \* the next step of every request
    tok,          \* the access token a request works with
    old,          \* the access token a request found expired
    ctx,          \* the token of its AccountContext; 0 while live_context runs
    rpc,          \* the next step of every revoker
    rtok,         \* the refresh token a revoker will log out with
    late,         \* the refresh token of a POST /auth/refresh a request gave up on
                  \* and OKK has not processed yet; 0 for none
    interrupted,  \* history: a renewal stopped between the POST and its commit
    usedTwice     \* history: OKK was shown a refresh token it had already rotated

reqVars == <<pc, tok, old, ctx>>
revVars == <<rpc, rtok>>
history == <<interrupted, usedTwice>>
vars == <<row, lock, okk, renewed, late, reqVars, revVars, history>>

-----------------------------------------------------------------------------
NoRenewal == [expired |-> 0, renewed |-> 0]

\* The rotation steps that run inside the transaction holding the row lock.
Holding == {"refresh", "store_pair", "reject"}
Ended == {"refused", "down"}
Steps == Holding \cup Ended \cup
         {"idle", "me", "lock", "check_current", "remember", "check_row",
          "save_row", "revoke_row", "ready", "send", "resend"}

TypeOK ==
    /\ row \in [present : BOOLEAN, access : Nat, refresh : Nat, revoked : BOOLEAN]
    /\ lock \in Requests \cup {NoOne}
    /\ okk \in [gen : Nat, fresh : BOOLEAN, alive : BOOLEAN]
    /\ renewed \in [expired : Nat, renewed : Nat]
    /\ pc \in [Requests -> Steps]
    /\ tok \in [Requests -> Nat]
    /\ old \in [Requests -> Nat]
    /\ ctx \in [Requests -> Nat]
    /\ rpc \in [Revokers -> {"idle", "mark", "logout"}]
    /\ rtok \in [Revokers -> Nat]
    /\ late \in [Requests -> Nat]
    /\ interrupted \in BOOLEAN
    /\ usedTwice \in BOOLEAN

\* The state `authenticate` leaves: OKK's first pair sealed in a new row.
Init ==
    /\ row = [present |-> TRUE, access |-> 1, refresh |-> 1, revoked |-> FALSE]
    /\ lock = NoOne
    /\ okk = [gen |-> 1, fresh |-> TRUE, alive |-> TRUE]
    /\ renewed = NoRenewal
    /\ pc = [r \in Requests |-> "idle"]
    /\ tok = [r \in Requests |-> 0]
    /\ old = [r \in Requests |-> 0]
    /\ ctx = [r \in Requests |-> 0]
    /\ rpc = [v \in Revokers |-> "idle"]
    /\ rtok = [v \in Revokers |-> 0]
    /\ late = [r \in Requests |-> 0]
    /\ interrupted = FALSE
    /\ usedTwice = FALSE

-----------------------------------------------------------------------------
Active == row.present /\ ~row.revoked

\* What OKK answers to a request that carries access token g.
Accepts(g) == okk.alive /\ okk.fresh /\ g = okk.gen

Goto(r, step) == pc' = [pc EXCEPT ![r] = step]
Use(r, g) == tok' = [tok EXCEPT ![r] = g]

\* `async with session_factory()` was left: the row lock is released.
Unlock == lock' = NoOne

\* A request that only moves on, or fails, without touching anything else.
Only(r, step) == /\ Goto(r, step)
                 /\ UNCHANGED <<row, lock, okk, renewed, late, tok, old, ctx, revVars, history>>

-----------------------------------------------------------------------------
(* live_context                                                            *)

LoadSession(r) ==
    /\ pc[r] = "idle"
    /\ IF Active
         THEN Goto(r, "me") /\ Use(r, row.access)
         ELSE Goto(r, "refused") /\ UNCHANGED tok
    /\ UNCHANGED <<row, lock, okk, renewed, late, old, ctx, revVars, history>>

\* GET /auth/me.  An inactive account, an unknown role and a 4xx refuse the
\* request whatever the token is; an outage or a 5xx is not a refusal.
AskMe(r) ==
    /\ pc[r] = "me"
    /\ \/ Only(r, IF Accepts(tok[r]) THEN "check_row" ELSE "lock")
       \/ Only(r, "refused")
       \/ Only(r, "down")

\* Slip: the account is saved without looking at the row again.
CheckRowBlind(r) == pc[r] = "check_row" /\ (Only(r, "save_row") \/ Only(r, "revoke_row"))

\* The second transaction of live_context reads the row again ...
CheckRow(r) ==
    /\ pc[r] = "check_row"
    /\ IF Active
         THEN Only(r, "save_row") \/ Only(r, "revoke_row")
         ELSE Only(r, "refused")

\* ... and its UPDATE waits for a rotation that holds the row.
SaveRow(r) ==
    /\ pc[r] = "save_row"
    /\ lock = NoOne
    /\ Goto(r, "ready")
    /\ ctx' = [ctx EXCEPT ![r] = tok[r]]
    /\ UNCHANGED <<row, lock, okk, renewed, late, tok, old, revVars, history>>

\* /auth/me named another user: the session ends.
RevokeRow(r) ==
    /\ pc[r] = "revoke_row"
    /\ lock = NoOne
    /\ row' = [row EXCEPT !.revoked = TRUE]
    /\ Goto(r, "refused")
    /\ UNCHANGED <<lock, okk, renewed, late, tok, old, ctx, revVars, history>>

-----------------------------------------------------------------------------
(* _rotate_session                                                         *)

\* Slip: SELECT without FOR UPDATE.
LockRowUnlocked(r) ==
    /\ pc[r] = "lock"
    /\ old' = [old EXCEPT ![r] = tok[r]]
    /\ \/ ~Active /\ Goto(r, "refused") /\ UNCHANGED tok
       \/ Active /\ row.access = tok[r] /\ Goto(r, "refresh") /\ UNCHANGED tok
       \/ Active /\ row.access # tok[r] /\ Use(r, row.access) /\ Goto(r, "check_current")
    /\ UNCHANGED <<row, lock, okk, renewed, late, ctx, revVars, history>>

\* SELECT ... FOR UPDATE.  A request that waited and finds another pair
\* leaves the transaction and only checks that pair.
LockRow(r) ==
    /\ pc[r] = "lock"
    /\ lock = NoOne
    /\ old' = [old EXCEPT ![r] = tok[r]]
    /\ \/ ~Active /\ Goto(r, "refused") /\ UNCHANGED <<lock, tok>>
       \/ /\ Active /\ row.access = tok[r]
          /\ lock' = r /\ Goto(r, "refresh") /\ UNCHANGED tok
       \/ /\ Active /\ row.access # tok[r]
          /\ Use(r, row.access) /\ Goto(r, "check_current") /\ UNCHANGED lock
    /\ UNCHANGED <<row, okk, renewed, late, ctx, revVars, history>>

\* POST /auth/refresh with token g as OKK processes it: the current refresh
\* token is rotated, a token used twice ends the OKK session.
OkkRotates(g) ==
    /\ okk.alive /\ g = okk.gen
    /\ okk' = [okk EXCEPT !.gen = @ + 1, !.fresh = TRUE]
    /\ UNCHANGED usedTwice

OkkRefuses(g) ==
    /\ ~(okk.alive /\ g = okk.gen)
    /\ okk' = [okk EXCEPT !.alive = FALSE]
    /\ usedTwice' = (usedTwice \/ okk.alive)

RefreshGranted(r) ==
    /\ pc[r] = "refresh"
    /\ OkkRotates(row.refresh)
    /\ Use(r, row.refresh + 1)
    /\ Goto(r, "store_pair")
    /\ UNCHANGED <<row, lock, renewed, late, old, ctx, revVars, interrupted>>

RefreshRefused(r) ==
    /\ pc[r] = "refresh"
    /\ OkkRefuses(row.refresh)
    /\ Goto(r, "reject")
    /\ UNCHANGED <<row, lock, renewed, late, tok, old, ctx, revVars, interrupted>>

\* Any other 4xx, and a 200 without an access token or a cookie, end the
\* session too, although OKK did not end it.
RefreshUnusable(r) ==
    /\ pc[r] = "refresh"
    /\ \/ OkkRotates(row.refresh) /\ interrupted' = TRUE
       \/ UNCHANGED <<okk, usedTwice, interrupted>>
    /\ Goto(r, "reject")
    /\ UNCHANGED <<row, lock, renewed, late, tok, old, ctx, revVars>>

\* The answer does not reach the gateway (timeout, dropped connection, a 5xx,
\* the tool's time budget): nothing is stored, and OKK may still process
\* the request.
RefreshLost(r) ==
    /\ pc[r] = "refresh"
    /\ late' = [late EXCEPT ![r] = row.refresh]
    /\ interrupted' = TRUE
    /\ Unlock
    /\ Goto(r, "down")
    /\ UNCHANGED <<row, okk, renewed, tok, old, ctx, revVars, usedTwice>>

\* OKK processes a request nobody waits for any more.
LateRefresh(r) ==
    /\ late[r] # 0
    /\ OkkRotates(late[r]) \/ OkkRefuses(late[r])
    /\ late' = [late EXCEPT ![r] = 0]
    /\ UNCHANGED <<row, lock, renewed, reqVars, revVars, interrupted>>

\* Slip: the rotated refresh token is not stored.
StoreAccess(r) ==
    /\ pc[r] = "store_pair"
    /\ row' = [row EXCEPT !.access = tok[r]]
    /\ Unlock
    /\ Goto(r, "remember")
    /\ UNCHANGED <<okk, renewed, late, tok, old, ctx, revVars, history>>

StorePair(r) ==
    /\ pc[r] = "store_pair"
    /\ row' = [row EXCEPT !.access = tok[r], !.refresh = tok[r]]
    /\ Unlock
    /\ Goto(r, "remember")
    /\ UNCHANGED <<okk, renewed, late, tok, old, ctx, revVars, history>>

RejectSession(r) ==
    /\ pc[r] = "reject"
    /\ row' = [row EXCEPT !.revoked = TRUE]
    /\ Unlock
    /\ Goto(r, "refused")
    /\ UNCHANGED <<okk, renewed, late, tok, old, ctx, revVars, history>>

\* Another request renewed the pair: GET /auth/me with it.
CheckCurrent(r) ==
    /\ pc[r] = "check_current"
    /\ \/ Accepts(tok[r]) /\ Only(r, "remember")
       \/ Only(r, "refused")
       \/ Only(r, "down")

\* _remember_renewal; in live_context an unusable account is refused after it.
Remember(r) ==
    /\ pc[r] = "remember"
    /\ renewed' = [expired |-> old[r], renewed |-> tok[r]]
    /\ \/ ctx[r] = 0 /\ (Goto(r, "check_row") \/ Goto(r, "refused"))
       \/ ctx[r] # 0 /\ Goto(r, "resend")
    /\ UNCHANGED <<row, lock, okk, late, tok, old, ctx, revVars, history>>

-----------------------------------------------------------------------------
(* get_with_context / _read: the reads of one tool call                    *)

\* Slip: the last renewal is used whatever token it replaced.
LastRenewal(r) == IF renewed = NoRenewal THEN ctx[r] ELSE renewed.renewed

CurrentAccess(r) ==
    IF ctx[r] = renewed.expired THEN renewed.renewed ELSE ctx[r]

PickToken(r) ==
    /\ pc[r] = "ready"
    /\ Use(r, CurrentAccess(r))
    /\ Goto(r, "send")
    /\ UNCHANGED <<row, lock, okk, renewed, late, old, ctx, revVars, history>>

\* The first read; a 401 renews the pair once.
SendRead(r) ==
    /\ pc[r] = "send"
    /\ \/ Only(r, IF Accepts(tok[r]) THEN "ready" ELSE "lock")
       \/ Only(r, "down")

\* The read repeated with the renewed token; a second 401 ends the call.
ResendRead(r) ==
    /\ pc[r] = "resend"
    /\ \/ Only(r, IF Accepts(tok[r]) THEN "ready" ELSE "refused")
       \/ Only(r, "down")

Finish(r) ==
    /\ pc[r] \in Ended \cup {"ready"}
    /\ Goto(r, "idle")
    /\ tok' = [tok EXCEPT ![r] = 0]
    /\ old' = [old EXCEPT ![r] = 0]
    /\ ctx' = [ctx EXCEPT ![r] = 0]
    /\ UNCHANGED <<row, lock, okk, renewed, late, revVars, history>>

\* asyncio.timeout of the tool call, an unreachable OKK or a failed statement:
\* the call stops at its await and its transaction is rolled back.
Cancel(r) ==
    /\ pc[r] \notin Ended \cup {"idle", "ready"}
    /\ Goto(r, "down")
    /\ lock' = IF lock = r THEN NoOne ELSE lock
    /\ interrupted' = (interrupted \/ pc[r] = "store_pair")
    /\ UNCHANGED <<row, okk, renewed, late, tok, old, ctx, revVars, usedTwice>>

-----------------------------------------------------------------------------
(* revoke_upstream                                                         *)

\* A plain read: it does not wait for a rotation and may see the old pair.
RevokeLoad(v) ==
    /\ rpc[v] = "idle"
    /\ Active
    /\ rpc' = [rpc EXCEPT ![v] = "mark"]
    /\ rtok' = [rtok EXCEPT ![v] = row.refresh]
    /\ UNCHANGED <<row, lock, okk, renewed, late, reqVars, history>>

\* Slip: the revocation does not wait for the row.
RevokeMarkUnlocked(v) ==
    /\ rpc[v] = "mark"
    /\ row' = [row EXCEPT !.revoked = TRUE]
    /\ rpc' = [rpc EXCEPT ![v] = "logout"]
    /\ UNCHANGED <<lock, okk, renewed, late, reqVars, rtok, history>>

\* Slip: the revocation keeps the row for the logout call.
RevokeMarkHolding(v) ==
    /\ rpc[v] = "mark"
    /\ lock = NoOne
    /\ lock' = v
    /\ row' = [row EXCEPT !.revoked = TRUE]
    /\ rpc' = [rpc EXCEPT ![v] = "logout"]
    /\ UNCHANGED <<okk, renewed, late, reqVars, rtok, history>>

RevokeMark(v) ==
    /\ rpc[v] = "mark"
    /\ lock = NoOne
    /\ row' = [row EXCEPT !.revoked = TRUE]
    /\ rpc' = [rpc EXCEPT ![v] = "logout"]
    /\ UNCHANGED <<lock, okk, renewed, late, reqVars, rtok, history>>

\* POST /auth/logout, best effort: it may be lost, and what OKK does with a
\* refresh token it has already rotated is not promised.
RevokeLogout(v) ==
    /\ rpc[v] = "logout"
    /\ okk' \in {okk, [okk EXCEPT !.alive = FALSE]}
    /\ rpc' = [rpc EXCEPT ![v] = "idle"]
    /\ rtok' = [rtok EXCEPT ![v] = 0]
    /\ UNCHANGED <<row, lock, renewed, late, reqVars, history>>

-----------------------------------------------------------------------------
(* The environment                                                         *)

ExpireAccess ==
    /\ okk.fresh
    /\ okk.gen < MaxGen
    /\ okk' = [okk EXCEPT !.fresh = FALSE]
    /\ UNCHANGED <<row, lock, renewed, late, reqVars, revVars, history>>

\* OKK ends the session itself: password change, deactivation.
EndUpstream ==
    /\ okk.alive
    /\ okk' = [okk EXCEPT !.alive = FALSE]
    /\ UNCHANGED <<row, lock, renewed, late, reqVars, revVars, history>>

\* _RENEWALS_KEPT other sessions were renewed since.
EvictRenewal ==
    /\ renewed # NoRenewal
    /\ renewed' = NoRenewal
    /\ UNCHANGED <<row, lock, okk, late, reqVars, revVars, history>>

\* cleanup_once deletes a revoked row after the retention time, which is
\* days: no call that read the row still runs.
DeleteRow ==
    /\ row.present /\ row.revoked /\ lock = NoOne
    /\ \A r \in Requests : pc[r] \in Ended \cup {"idle"}
    /\ \A v \in Revokers : rpc[v] = "idle"
    /\ row' = [row EXCEPT !.present = FALSE]
    /\ UNCHANGED <<lock, okk, renewed, late, reqVars, revVars, history>>

\* The gateway process dies and starts again.
Crash ==
    /\ pc' = [r \in Requests |-> "idle"]
    /\ tok' = [r \in Requests |-> 0]
    /\ old' = [r \in Requests |-> 0]
    /\ ctx' = [r \in Requests |-> 0]
    /\ rpc' = [v \in Revokers |-> "idle"]
    /\ rtok' = [v \in Revokers |-> 0]
    /\ lock' = NoOne
    /\ renewed' = NoRenewal
    /\ late' = [r \in Requests |-> IF pc[r] = "refresh" THEN row.refresh ELSE late[r]]
    /\ interrupted' = (interrupted \/ \E r \in Requests : pc[r] \in {"refresh", "store_pair"})
    /\ UNCHANGED <<row, okk, usedTwice>>

-----------------------------------------------------------------------------
LiveContext(r) == LoadSession(r) \/ AskMe(r) \/ CheckRow(r) \/ SaveRow(r) \/ RevokeRow(r)

RotateSession(r) ==
    \/ LockRow(r) \/ RefreshGranted(r) \/ RefreshRefused(r) \/ RefreshUnusable(r)
    \/ RefreshLost(r) \/ StorePair(r) \/ RejectSession(r) \/ CheckCurrent(r) \/ Remember(r)

Read(r) == PickToken(r) \/ SendRead(r) \/ ResendRead(r)

Request(r) == LiveContext(r) \/ RotateSession(r) \/ Read(r) \/ Finish(r) \/ Cancel(r)

RevokeUpstream(v) == RevokeLoad(v) \/ RevokeMark(v) \/ RevokeLogout(v)

Environment ==
    \/ ExpireAccess \/ EndUpstream \/ EvictRenewal \/ DeleteRow \/ Crash
    \/ \E r \in Requests : LateRefresh(r)

Next == \/ \E r \in Requests : Request(r)
        \/ \E v \in Revokers : RevokeUpstream(v)
        \/ Environment

Spec == Init /\ [][Next]_vars

-----------------------------------------------------------------------------
(* Properties                                                              *)

\* OKK ends its session when a rotated refresh token is shown again, so the
\* gateway shows one twice only when an earlier rotation was interrupted
\* between OKK and the commit: no interleaving of requests does it.
TwiceOnlyAfterInterruption == usedTwice => interrupted

\* The pair in the row is the pair OKK considers current, except inside the
\* transaction that is about to store the next one: no writer of the row
\* (snapshot update, revocation, rotation) undoes a rotation of another.
StoredPairIsCurrent ==
    ~interrupted =>
        \/ row.refresh = okk.gen
        \/ \E r \in Requests : /\ lock = r /\ pc[r] = "store_pair"
                               /\ tok[r] = okk.gen /\ row.refresh + 1 = okk.gen

\* A read never falls back behind the token its call started with: the
\* renewals two waiters remember in either order only lead forward.
ReadNeverOlder ==
    \A r \in Requests : pc[r] \in {"send", "resend"} => tok[r] >= ctx[r]

\* A revoked session stays revoked, and no rotation stores a pair in it:
\* whichever of a revocation and a rotation takes the row first, wins.
RevokedIsFinal ==
    [][row.revoked => row'.revoked /\ row'.refresh = row.refresh
                                  /\ row'.access = row.access]_vars

-----------------------------------------------------------------------------
(* Refinement: what the rest of the gateway relies on (SessionContract).   *)

Granted(r) == pc[r] \notin Ended \cup {"idle"} /\ (ctx[r] # 0 \/ pc[r] = "save_row")

Call == [r \in Requests |-> IF Granted(r) THEN "granted"
                            ELSE IF pc[r] \in Ended \cup {"idle"} THEN "idle"
                            ELSE "asked"]

Contract == INSTANCE SessionContract WITH live <- Active, pair <- row.refresh, call <- Call

\* Every context handed to a tool belongs to a session that was active at
\* some moment between the question and the answer, and the stored pair
\* moves one rotation at a time, while the session is active.
ImplementsContract == Contract!Spec
=============================================================================
