--------------------------- MODULE SessionContract ---------------------------
(***************************************************************************)
(* What `live_context`, `_rotate_session` and `revoke_upstream` promise    *)
(* the rest of the gateway about one OKK account session, without its      *)
(* tokens, its row lock or OKK: a call is granted a context only while the *)
(* session is live, and a session that has ended grants nothing any more.  *)
(***************************************************************************)
EXTENDS Naturals

CONSTANT Requests

VARIABLES
    live,   \* the session is stored and not revoked
    pair,   \* the number of the stored token pair
    call    \* what each request has: nothing, a question, a context

vars == <<live, pair, call>>

TypeOK ==
    /\ live \in BOOLEAN
    /\ pair \in Nat
    /\ call \in [Requests -> {"idle", "asked", "granted"}]

Init ==
    /\ live = TRUE
    /\ pair = 1
    /\ call = [r \in Requests |-> "idle"]

Ask(r) ==
    /\ call[r] = "idle"
    /\ live = TRUE
    /\ call' = [call EXCEPT ![r] = "asked"]
    /\ UNCHANGED <<live, pair>>

Grant(r) ==
    /\ call[r] = "asked"
    /\ live = TRUE
    /\ call' = [call EXCEPT ![r] = "granted"]
    /\ UNCHANGED <<live, pair>>

\* Calls end: answered, refused, timed out, or all at once in a restart.
\* The session may end with them.
End(R) ==
    /\ call' = [r \in Requests |-> IF r \in R THEN "idle" ELSE call[r]]
    /\ live' \in {live, FALSE}
    /\ UNCHANGED pair

Renew ==
    /\ live = TRUE
    /\ pair' = pair + 1
    /\ UNCHANGED <<live, call>>

Next ==
    \/ \E r \in Requests : Ask(r) \/ Grant(r)
    \/ \E R \in SUBSET Requests : End(R)
    \/ Renew

Spec == Init /\ [][Next]_vars
=============================================================================
