----------------------------- MODULE Maintenance -----------------------------
(***************************************************************************)
(* The background cleanup (server/okk_mcp/maintenance.py) beside the       *)
(* requests it must not disturb: sign-ins that are storing their session   *)
(* and code, and token requests that were admitted and wait for OKK.       *)
(*                                                                         *)
(* A sign-in is one account session, its only code and the last token of   *)
(* the chain that code began (TokenGrants has the chain itself).  Requests *)
(* last seconds; the retention time and the age of an abandoned client are *)
(* days, so a row old enough to be deleted is used by no request.          *)
(***************************************************************************)
EXTENDS Naturals, FiniteSets

CONSTANTS SignIns,
          Clients,
          Documents,    \* clients named by a metadata document, stored at sign-in
          ClientOf,     \* the client a sign-in is for
          Unreadable,   \* sign-ins whose session was sealed with a secret since changed
          Limit         \* orphans one pass revokes

ASSUME DocumentsAssumption == Documents \subseteq Clients
ASSUME ClientOfAssumption == ClientOf \in [SignIns -> Clients]
ASSUME LimitAssumption == Limit \in Nat \ {0}

VARIABLES
    client,    \* the rows of oauth_clients
    sign,      \* the next step of POST /authorize
    okk,       \* the session inside OKK
    session,   \* the row of okk_account_sessions
    code,      \* the row of the code
    token,     \* the rows of the chain: the state of its last token
    request,   \* an admitted token request that waits for OKK
    cleanup,   \* the next step of cleanup_once
    orphans,   \* its list of orphan_ids
    doomed,    \* the clients its DELETE found
    late,      \* history: a request's own code or token expired while it waited
    swept,     \* history: sessions the cleanup revoked
    lost,      \* history: a sign-in's answer or a logout did not arrive
    dropped    \* history: a live_context gave a stored session up, without a logout

signs == <<client, sign, okk>>
grants == <<session, code, token, request>>
pass == <<cleanup, orphans, doomed>>
history == <<late, swept, lost, dropped>>
vars == <<signs, grants, pass, history>>

-----------------------------------------------------------------------------
\* A row is live, then dead (used, revoked or expired), then old (dead for
\* longer than the retention time), then deleted.
Ages == {"none", "live", "dead", "old"}

TypeOK ==
    /\ client \in [Clients -> [present : BOOLEAN, authorized : BOOLEAN, blocked : BOOLEAN, old : BOOLEAN]]
    /\ sign \in [SignIns -> {"form", "opened", "inserted", "done", "failed"}]
    /\ okk \in [SignIns -> {"none", "open", "closed"}]
    /\ session \in [SignIns -> {"none", "active", "revoked", "old", "deleted"}]
    /\ code \in [SignIns -> Ages]
    /\ token \in [SignIns -> Ages]
    /\ request \in [SignIns -> {"none", "code", "refresh"}]
    /\ cleanup \in {"asleep", "revoking", "deleting"}
    /\ orphans \subseteq SignIns
    /\ doomed \subseteq Clients
    /\ late \subseteq SignIns
    /\ swept \subseteq SignIns
    /\ lost \subseteq SignIns
    /\ dropped \subseteq SignIns

NoClient == [present |-> FALSE, authorized |-> FALSE, blocked |-> FALSE, old |-> FALSE]

\* Registered clients of any age; nobody has signed in.
Init ==
    /\ client \in [Clients -> [present : BOOLEAN, authorized : {FALSE}, blocked : {FALSE}, old : BOOLEAN]]
    /\ \A c \in Clients : IF c \in Documents THEN client[c] = NoClient ELSE client[c].present
    /\ sign = [s \in SignIns |-> "form"]
    /\ okk = [s \in SignIns |-> "none"]
    /\ session = [s \in SignIns |-> "none"]
    /\ code = [s \in SignIns |-> "none"]
    /\ token = [s \in SignIns |-> "none"]
    /\ request = [s \in SignIns |-> "none"]
    /\ cleanup = "asleep"
    /\ orphans = {} /\ doomed = {}
    /\ late = {} /\ swept = {} /\ lost = {} /\ dropped = {}

-----------------------------------------------------------------------------
HasGrant(s) == code[s] = "live" \/ token[s] = "live"

\* _load_client: a registered client needs its row, a document does not.
Loadable(c) == IF client[c].present THEN ~client[c].blocked ELSE c \in Documents

\* A sign-in that stored rows of the client holds the client's row.
Locked(c) == \E s \in SignIns : ClientOf[s] = c /\ sign[s] = "inserted"

\* Slip: the revocation is not committed.
LogOutOnly(s) ==
    /\ okk' = [okk EXCEPT ![s] = "closed"]
    /\ UNCHANGED <<session, lost>>

\* revoke_upstream: the row is revoked and the revocation committed; then the
\* logout is sent, and may be lost.
LogOut(s) ==
    /\ session' = [session EXCEPT ![s] = "revoked"]
    /\ \/ okk' = [okk EXCEPT ![s] = "closed"] /\ UNCHANGED lost
       \/ lost' = lost \cup {s} /\ UNCHANGED okk

-----------------------------------------------------------------------------
(* POST /authorize                                                         *)

\* The client was loaded and OKK opened a session.  Its answer may be lost; an
\* answer of an account the gateway cannot use is thrown away, tokens and all.
Authenticate(s) ==
    /\ sign[s] = "form"
    /\ Loadable(ClientOf[s])
    /\ okk' = [okk EXCEPT ![s] = "open"]
    /\ \/ sign' \in {[sign EXCEPT ![s] = step] : step \in {"opened", "failed"}} /\ UNCHANGED lost
       \/ sign' = [sign EXCEPT ![s] = "failed"] /\ lost' = lost \cup {s}
    /\ UNCHANGED <<client, grants, pass, late, swept, dropped>>

\* The code references the client's row: its INSERT locks that row, and fails
\* when it is gone.  A document's client is stored by the same transaction.
Insert(s) ==
    /\ sign[s] = "opened"
    /\ client[ClientOf[s]].present \/ ClientOf[s] \in Documents
    /\ sign' = [sign EXCEPT ![s] = "inserted"]
    /\ UNCHANGED <<client, okk, grants, pass, history>>

\* Slip: only the registration of a client stores its row.
CommitUnremembered(s) ==
    /\ sign[s] = "inserted"
    /\ sign' = [sign EXCEPT ![s] = "done"]
    /\ session' = [session EXCEPT ![s] = "active"]
    /\ code' = [code EXCEPT ![s] = "live"]
    /\ UNCHANGED <<client, okk, token, request, pass, history>>

CommitSignIn(s) ==
    /\ sign[s] = "inserted"
    /\ sign' = [sign EXCEPT ![s] = "done"]
    /\ client' = [client EXCEPT ![ClientOf[s]].present = TRUE]
    /\ session' = [session EXCEPT ![s] = "active"]
    /\ code' = [code EXCEPT ![s] = "live"]
    /\ UNCHANGED <<okk, token, request, pass, history>>

\* The client's row is gone, or the database or the process fails: a rollback,
\* and no logout for the session OKK opened.
FailSignIn(s) ==
    /\ sign[s] \in {"opened", "inserted"}
    /\ sign' = [sign EXCEPT ![s] = "failed"]
    /\ UNCHANGED <<client, okk, grants, pass, history>>

-----------------------------------------------------------------------------
(* /token, /revoke and the passing of time                                 *)

\* The code or the refresh token is looked at ...
Admit(s) ==
    /\ request[s] = "none" /\ ~client[ClientOf[s]].blocked
    /\ \/ code[s] = "live" /\ request' = [request EXCEPT ![s] = "code"]
       \/ token[s] = "live" /\ request' = [request EXCEPT ![s] = "refresh"]
    /\ UNCHANGED <<signs, session, code, token, pass, history>>

\* ... and a new pair committed, for a refresh after OKK confirmed the account.
Redeem(s) ==
    /\ request[s] = "code" /\ code[s] # "none"
    /\ request' = [request EXCEPT ![s] = "none"]
    /\ code' = [code EXCEPT ![s] = "dead"]
    /\ token' = [token EXCEPT ![s] = "live"]
    /\ client' = [client EXCEPT ![ClientOf[s]].authorized = TRUE]
    /\ UNCHANGED <<sign, okk, session, pass, history>>

Rotate(s) ==
    /\ request[s] = "refresh" /\ token[s] # "none"
    /\ session[s] = "active" /\ s \notin Unreadable
    /\ request' = [request EXCEPT ![s] = "none"]
    /\ token' = [token EXCEPT ![s] = "live"]
    /\ UNCHANGED <<signs, session, code, pass, history>>

\* An error answer or a failed transaction.
Refuse(s) ==
    /\ request[s] # "none"
    /\ request' = [request EXCEPT ![s] = "none"]
    /\ UNCHANGED <<signs, session, code, token, pass, history>>

\* live_context revokes the row because OKK ended the session, or because OKK
\* names another person or answers the renewal with nothing usable; then the
\* session stays open, since no logout is sent.
LoseAccount(s) ==
    /\ request[s] = "refresh" /\ session[s] = "active" /\ s \notin Unreadable
    /\ request' = [request EXCEPT ![s] = "none"]
    /\ session' = [session EXCEPT ![s] = "revoked"]
    /\ \/ okk' = [okk EXCEPT ![s] = "closed"] /\ UNCHANGED dropped
       \/ dropped' = dropped \cup {s} /\ UNCHANGED okk
    /\ UNCHANGED <<client, sign, code, token, pass, late, swept, lost>>

\* /revoke and replays: the session and the tokens of the sign-in end.
EndGrant(s) ==
    /\ token[s] \in {"live", "dead"} /\ request[s] = "none"
    /\ token' = [token EXCEPT ![s] = "dead"]
    /\ IF session[s] = "active" THEN s \notin Unreadable /\ LogOut(s)
                              ELSE UNCHANGED <<session, okk, lost>>
    /\ UNCHANGED <<client, sign, code, request, pass, late, swept, dropped>>

\* A code or a token expires, also under a request already admitted.
Expire(s) ==
    /\ \/ code[s] = "live" /\ code' = [code EXCEPT ![s] = "dead"] /\ UNCHANGED token
       \/ token[s] = "live" /\ token' = [token EXCEPT ![s] = "dead"] /\ UNCHANGED code
    /\ late' = IF request[s] = "none" THEN late ELSE late \cup {s}
    /\ UNCHANGED <<signs, session, request, pass, swept, lost, dropped>>

\* mcp_audit_retention_days pass.
Retain(s) ==
    /\ request[s] = "none"
    /\ \/ code[s] = "dead" /\ code' = [code EXCEPT ![s] = "old"] /\ UNCHANGED <<session, token>>
       \/ token[s] = "dead" /\ token' = [token EXCEPT ![s] = "old"] /\ UNCHANGED <<session, code>>
       \/ session[s] = "revoked" /\ session' = [session EXCEPT ![s] = "old"] /\ UNCHANGED <<code, token>>
    /\ UNCHANGED <<signs, request, pass, history>>

\* An operator sets deleted_at.
Block(c) ==
    /\ client[c].present /\ ~client[c].blocked
    /\ client' = [client EXCEPT ![c].blocked = TRUE]
    /\ UNCHANGED <<sign, okk, grants, pass, history>>

\* ABANDONED_CLIENT_AGE passes.
Age(c) ==
    /\ client[c].present /\ ~client[c].old
    /\ client' = [client EXCEPT ![c].old = TRUE]
    /\ UNCHANGED <<sign, okk, grants, pass, history>>

-----------------------------------------------------------------------------
(* cleanup_once                                                            *)

\* Slip: a sign-in whose code nobody has exchanged yet counts as an orphan.
OrphanOfTokens(s) == session[s] = "active" /\ token[s] # "live"

Orphan(s) == session[s] = "active" /\ ~HasGrant(s)

\* SELECT ... LIMIT: the list is read once, in no particular order.
SelectOrphans ==
    LET all == {s \in SignIns : Orphan(s)} IN
    /\ cleanup = "asleep"
    /\ orphans' \in SUBSET all
    /\ Cardinality(orphans') = IF Cardinality(all) <= Limit THEN Cardinality(all) ELSE Limit
    /\ cleanup' = "revoking"
    /\ UNCHANGED <<signs, grants, doomed, history>>

StopPass ==
    /\ cleanup' = "asleep" /\ orphans' = {} /\ doomed' = {}
    /\ UNCHANGED <<signs, grants, history>>

\* revoke_upstream of one of them; a session that is over already is skipped,
\* and a token that cannot be opened is a PermissionError, which ends the pass.
RevokeOrphan(s) ==
    /\ cleanup = "revoking" /\ s \in orphans
    /\ IF session[s] = "active" /\ s \in Unreadable
         THEN StopPass
         ELSE /\ orphans' = orphans \ {s}
              /\ IF session[s] = "active"
                   THEN LogOut(s) /\ swept' = swept \cup {s}
                   ELSE UNCHANGED <<session, okk, swept, lost>>
              /\ UNCHANGED <<client, sign, code, token, request, cleanup, doomed, late, dropped>>

\* A statement fails or the process restarts: nothing is deleted.
FailPass == cleanup # "asleep" /\ StopPass

\* A client that never completed a sign-in and has no rows left.
Abandoned(c) ==
    /\ client[c].present /\ client[c].old /\ ~client[c].authorized
    /\ \A s \in SignIns : ClientOf[s] = c => code[s] \in {"none", "old"} /\ token[s] \in {"none", "old"}

\* The second transaction reads the clients last, after its own DELETEs ...
FindClients ==
    /\ cleanup = "revoking" /\ orphans = {}
    /\ cleanup' = "deleting"
    /\ doomed' = {c \in Clients : Abandoned(c)}
    /\ UNCHANGED <<signs, grants, orphans, history>>

Going(s) == ClientOf[s] \in doomed /\ ~client[ClientOf[s]].authorized

\* Slip: the rows themselves are not looked at.
RemainingCascade(rowOf) == [s \in SignIns |-> IF Going(s) THEN "none" ELSE rowOf[s]]

Remaining(rowOf) ==
    [s \in SignIns |-> IF rowOf[s] = "old" \/ Going(s) THEN "none" ELSE rowOf[s]]

\* Slip: a session is deleted although its revocation is missing.
SpareSession(s) == session[s] \in {"active", "old"} /\ code[s] \in {"none", "old"} /\ token[s] \in {"none", "old"}

\* A session revoked long ago that no code and no token references.
Forgotten(s) == session[s] = "old" /\ code[s] \in {"none", "old"} /\ token[s] \in {"none", "old"}

\* ... waits for the sign-ins that hold one of them, and deletes it with all
\* that references it by then, unless it was authorized in the meantime.
CommitDeletes ==
    /\ cleanup = "deleting"
    /\ \A c \in doomed : ~Locked(c)
    /\ client' = [c \in Clients |-> IF c \in doomed /\ ~client[c].authorized THEN NoClient ELSE client[c]]
    /\ code' = Remaining(code)
    /\ token' = Remaining(token)
    /\ session' = [s \in SignIns |-> IF Forgotten(s) THEN "deleted" ELSE session[s]]
    /\ cleanup' = "asleep"
    /\ doomed' = {}
    /\ UNCHANGED <<sign, okk, request, orphans, history>>

-----------------------------------------------------------------------------
SignIn(s) == Authenticate(s) \/ Insert(s) \/ CommitSignIn(s) \/ FailSignIn(s)

TokenRequest(s) ==
    Admit(s) \/ Redeem(s) \/ Rotate(s) \/ LoseAccount(s) \/ Refuse(s) \/ EndGrant(s)

Clock == (\E s \in SignIns : Expire(s) \/ Retain(s)) \/ (\E c \in Clients : Age(c) \/ Block(c))

Cleanup ==
    \/ SelectOrphans \/ FailPass \/ FindClients \/ CommitDeletes
    \/ \E s \in SignIns : RevokeOrphan(s)

Next ==
    \/ \E s \in SignIns : SignIn(s) \/ TokenRequest(s)
    \/ Clock \/ Cleanup

Spec == Init /\ [][Next]_vars

\* Requests end and time passes.  cleanup_loop starts a pass again and again;
\* a pass may fail for outside reasons, but not every one at the same point.
Fairness ==
    /\ \A s \in SignIns :
          /\ WF_vars(CommitSignIn(s) \/ FailSignIn(s))
          /\ WF_vars(Refuse(s))
          /\ WF_vars(Retain(s))
          /\ SF_vars(RevokeOrphan(s))
    /\ WF_vars(SelectOrphans)
    /\ SF_vars(FindClients)
    /\ SF_vars(CommitDeletes)

FairSpec == Spec /\ Fairness

-----------------------------------------------------------------------------
(* Properties                                                              *)

\* The list of orphans is read once and used while requests go on: a session
\* with a live grant is on it only when that grant was issued for a code or
\* token that expired while OKK was being asked.
SweptOnlyOrphans == \A s \in swept : HasGrant(s) => s \in late

\* A session once stored is never forgotten while OKK has it open: whatever
\* expires, is revoked, fails or is deleted, its row stays active, so that a
\* later pass can end it.  Two things end the row alone: a logout that did not
\* arrive, and a live_context that gives the session up (platform_client.py:
\* 193-195, 238-241).  Sessions never stored are not in this promise.
StoredSessionsKnown ==
    \A s \in SignIns : sign[s] = "done" /\ okk[s] = "open" =>
        session[s] = "active" \/ s \in lost \cup dropped

\* The client of a live code or token is stored, and it is marked authorized
\* before the client could be taken for abandoned.
GrantHasClient ==
    \A s \in SignIns :
        /\ code[s] # "none" \/ token[s] # "none" =>
              client[ClientOf[s]].present /\ session[s] \notin {"none", "deleted"}
        /\ token[s] # "none" => client[ClientOf[s]].authorized

\* docs/security.md: the cleanup "deletes expired OAuth rows only after the
\* configured audit-retention window".
OnlyOldRowsDeleted ==
    [][\A s \in SignIns : /\ code[s] \in {"live", "dead"} => code'[s] # "none"
                          /\ token[s] \in {"live", "dead"} => token'[s] # "none"]_vars

\* _metadata_document_client: "An operator blocks such a client the same way as
\* a registered one": the client a person blocked is not signed in for again.
BlockHolds == [][\A c \in Clients : client[c].blocked => ~Loadable(c)']_vars

\* docs/security.md: the cleanup "revokes orphaned upstream sessions and
\* deletes expired OAuth rows".
OrphansEnd == \A s \in SignIns : Orphan(s) ~> ~Orphan(s)

OldRowsDeleted == \A s \in SignIns : code[s] = "old" ~> code[s] = "none"
=============================================================================
