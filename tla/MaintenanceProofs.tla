-------------------------- MODULE MaintenanceProofs --------------------------
(***************************************************************************)
(* Theorems about Maintenance, for any number of sign-ins, clients and     *)
(* orphans of one pass.                                                    *)
(***************************************************************************)
EXTENDS Maintenance, TLAPS

\* A sign-in has no session row before its commit.
NoRowBefore == \A s \in SignIns : sign[s] \in {"form", "opened", "inserted"} => session[s] = "none"

\* A request was admitted with a code or token that is live, was deleted, or
\* expired since.
RequestsRight ==
    \A s \in SignIns \ late :
        /\ request[s] = "code" => code[s] \in {"live", "none"}
        /\ request[s] = "refresh" => token[s] \in {"live", "none"}

\* The list of orphans stays one of orphans.
ListRight ==
    \A s \in orphans \cup swept :
        /\ session[s] # "none"
        /\ HasGrant(s) => s \in late

Inv == TypeOK /\ NoRowBefore /\ RequestsRight /\ ListRight /\ StoredSessionsKnown /\ GrantHasClient

-----------------------------------------------------------------------------
\* Nobody has signed in, and there is no list.
LEMMA InitRight == Init => Inv
<1> SUFFICES ASSUME Init PROVE Inv
  OBVIOUS
<1>1. client \in [Clients -> [present : BOOLEAN, authorized : BOOLEAN, blocked : BOOLEAN, old : BOOLEAN]]
  <2>1. [present : BOOLEAN, authorized : {FALSE}, blocked : {FALSE}, old : BOOLEAN]
           \subseteq [present : BOOLEAN, authorized : BOOLEAN, blocked : BOOLEAN, old : BOOLEAN]
    OBVIOUS
  <2> QED
    BY <2>1 DEF Init
<1>2. TypeOK
  BY <1>1 DEF Init, TypeOK, Ages
<1>3. NoRowBefore /\ RequestsRight /\ ListRight
  BY DEF Init, NoRowBefore, RequestsRight, ListRight
<1>4. StoredSessionsKnown /\ GrantHasClient
  BY DEF Init, StoredSessionsKnown, GrantHasClient
<1> QED
  BY <1>2, <1>3, <1>4 DEF Inv

\* Every step keeps the invariant; the grants move under the list of a pass.
LEMMA StepRight == Inv /\ [Next]_vars => Inv'
<1> SUFFICES ASSUME Inv, [Next]_vars PROVE Inv'
  OBVIOUS
<1> USE ClientOfAssumption DEF Inv, signs, grants, pass, history
<1>1. ASSUME NEW s \in SignIns, Authenticate(s) PROVE Inv'
  <2>1. TypeOK'
    BY <1>1 DEF Authenticate, TypeOK, Ages
  <2>2. NoRowBefore' /\ RequestsRight' /\ ListRight'
    BY <1>1 DEF Authenticate, TypeOK, NoRowBefore, RequestsRight, ListRight, HasGrant
  <2>3. StoredSessionsKnown'
    BY <1>1 DEF Authenticate, TypeOK, StoredSessionsKnown
  <2>4. GrantHasClient'
    BY <1>1 DEF Authenticate, TypeOK, GrantHasClient
  <2> QED
    BY <2>1, <2>2, <2>3, <2>4
<1>2. ASSUME NEW s \in SignIns, Insert(s) PROVE Inv'
  <2>1. TypeOK'
    BY <1>2 DEF Insert, TypeOK, Ages
  <2>2. NoRowBefore' /\ RequestsRight' /\ ListRight'
    BY <1>2 DEF Insert, TypeOK, NoRowBefore, RequestsRight, ListRight, HasGrant
  <2>3. StoredSessionsKnown'
    BY <1>2 DEF Insert, TypeOK, StoredSessionsKnown
  <2>4. GrantHasClient'
    BY <1>2 DEF Insert, TypeOK, GrantHasClient
  <2> QED
    BY <2>1, <2>2, <2>3, <2>4
<1>3. ASSUME NEW s \in SignIns, CommitSignIn(s) PROVE Inv'
  <2>1. TypeOK'
    <3>1. client' = [client EXCEPT ![ClientOf[s]].present = TRUE]
      BY <1>3 DEF CommitSignIn
    <3>2. client \in [Clients -> [present : BOOLEAN, authorized : BOOLEAN,
                                  blocked : BOOLEAN, old : BOOLEAN]]
      BY DEF TypeOK
    <3>3. client' \in [Clients -> [present : BOOLEAN, authorized : BOOLEAN,
                                   blocked : BOOLEAN, old : BOOLEAN]]
      BY <3>1, <3>2
    <3>4. /\ sign' \in [SignIns -> {"form", "opened", "inserted", "done", "failed"}]
          /\ session' \in [SignIns -> {"none", "active", "revoked", "old", "deleted"}]
          /\ code' \in [SignIns -> Ages]
      BY <1>3 DEF CommitSignIn, TypeOK, Ages
    <3>5. UNCHANGED <<okk, token, request, pass, history>>
      BY <1>3 DEF CommitSignIn
    <3> QED
      BY <3>3, <3>4, <3>5 DEF TypeOK, pass, history
  <2>2. NoRowBefore' /\ RequestsRight' /\ ListRight'
    BY <1>3 DEF CommitSignIn, TypeOK, NoRowBefore, RequestsRight, ListRight, HasGrant
  <2>3. StoredSessionsKnown'
    BY <1>3 DEF CommitSignIn, TypeOK, StoredSessionsKnown
  <2>4. GrantHasClient'
    BY <1>3 DEF CommitSignIn, TypeOK, GrantHasClient
  <2> QED
    BY <2>1, <2>2, <2>3, <2>4
<1>4. ASSUME NEW s \in SignIns, FailSignIn(s) PROVE Inv'
  <2>1. TypeOK'
    BY <1>4 DEF FailSignIn, TypeOK, Ages
  <2>2. NoRowBefore' /\ RequestsRight' /\ ListRight'
    BY <1>4 DEF FailSignIn, TypeOK, NoRowBefore, RequestsRight, ListRight, HasGrant
  <2>3. StoredSessionsKnown'
    BY <1>4 DEF FailSignIn, TypeOK, StoredSessionsKnown
  <2>4. GrantHasClient'
    BY <1>4 DEF FailSignIn, TypeOK, GrantHasClient
  <2> QED
    BY <2>1, <2>2, <2>3, <2>4
<1>5. ASSUME NEW s \in SignIns, Admit(s) PROVE Inv'
  <2>1. TypeOK'
    BY <1>5 DEF Admit, TypeOK, Ages
  <2>2. NoRowBefore' /\ RequestsRight' /\ ListRight'
    BY <1>5 DEF Admit, TypeOK, NoRowBefore, RequestsRight, ListRight, HasGrant
  <2>3. StoredSessionsKnown'
    BY <1>5 DEF Admit, TypeOK, StoredSessionsKnown
  <2>4. GrantHasClient'
    BY <1>5 DEF Admit, TypeOK, GrantHasClient
  <2> QED
    BY <2>1, <2>2, <2>3, <2>4
<1>6. ASSUME NEW s \in SignIns, Redeem(s) PROVE Inv'
  <2>1. TypeOK'
    <3>1. client' \in [Clients -> [present : BOOLEAN, authorized : BOOLEAN,
                                   blocked : BOOLEAN, old : BOOLEAN]]
      <4>1. client' = [client EXCEPT ![ClientOf[s]].authorized = TRUE]
        BY <1>6 DEF Redeem
      <4>2. client \in [Clients -> [present : BOOLEAN, authorized : BOOLEAN,
                                    blocked : BOOLEAN, old : BOOLEAN]]
        BY DEF TypeOK
      <4> QED
        BY <4>1, <4>2
    <3>2. /\ request' \in [SignIns -> {"none", "code", "refresh"}]
          /\ code' \in [SignIns -> Ages] /\ token' \in [SignIns -> Ages]
      BY <1>6 DEF Redeem, TypeOK, Ages
    <3>3. UNCHANGED <<sign, okk, session, pass, history>>
      BY <1>6 DEF Redeem
    <3> QED
      BY <3>1, <3>2, <3>3 DEF TypeOK, pass, history
  <2>2. NoRowBefore' /\ RequestsRight' /\ ListRight'
    BY <1>6 DEF Redeem, TypeOK, NoRowBefore, RequestsRight, ListRight, HasGrant
  <2>3. StoredSessionsKnown'
    BY <1>6 DEF Redeem, TypeOK, StoredSessionsKnown
  <2>4. GrantHasClient'
    BY <1>6 DEF Redeem, TypeOK, GrantHasClient
  <2> QED
    BY <2>1, <2>2, <2>3, <2>4
<1>7. ASSUME NEW s \in SignIns, Rotate(s) PROVE Inv'
  <2>1. TypeOK'
    BY <1>7 DEF Rotate, TypeOK, Ages
  <2>2. NoRowBefore' /\ RequestsRight' /\ ListRight'
    BY <1>7 DEF Rotate, TypeOK, NoRowBefore, RequestsRight, ListRight, HasGrant
  <2>3. StoredSessionsKnown'
    BY <1>7 DEF Rotate, TypeOK, StoredSessionsKnown
  <2>4. GrantHasClient'
    BY <1>7 DEF Rotate, TypeOK, GrantHasClient
  <2> QED
    BY <2>1, <2>2, <2>3, <2>4
<1>8. ASSUME NEW s \in SignIns, LoseAccount(s) PROVE Inv'
  <2>1. TypeOK'
    BY <1>8 DEF LoseAccount, TypeOK, Ages
  <2>2. NoRowBefore' /\ RequestsRight' /\ ListRight'
    BY <1>8 DEF LoseAccount, TypeOK, NoRowBefore, RequestsRight, ListRight, HasGrant
  <2>3. StoredSessionsKnown'
    BY <1>8 DEF LoseAccount, TypeOK, StoredSessionsKnown
  <2>4. GrantHasClient'
    BY <1>8 DEF LoseAccount, TypeOK, GrantHasClient
  <2> QED
    BY <2>1, <2>2, <2>3, <2>4
<1>9. ASSUME NEW s \in SignIns, Refuse(s) PROVE Inv'
  <2>1. TypeOK'
    BY <1>9 DEF Refuse, TypeOK, Ages
  <2>2. NoRowBefore' /\ RequestsRight' /\ ListRight'
    BY <1>9 DEF Refuse, TypeOK, NoRowBefore, RequestsRight, ListRight, HasGrant
  <2>3. StoredSessionsKnown'
    BY <1>9 DEF Refuse, TypeOK, StoredSessionsKnown
  <2>4. GrantHasClient'
    BY <1>9 DEF Refuse, TypeOK, GrantHasClient
  <2> QED
    BY <2>1, <2>2, <2>3, <2>4
<1>10. ASSUME NEW s \in SignIns, EndGrant(s) PROVE Inv'
  <2>1. TypeOK'
    <3>1. token' \in [SignIns -> Ages] /\ UNCHANGED <<client, sign, code, request, pass, late, swept, dropped>>
      BY <1>10 DEF EndGrant, TypeOK, Ages
    <3>2. CASE session[s] = "active"
      <4>1. LogOut(s)
        BY <1>10, <3>2 DEF EndGrant
      <4>2. session' \in [SignIns -> {"none", "active", "revoked", "old", "deleted"}]
        BY <4>1 DEF LogOut, TypeOK
      <4>3. okk' \in [SignIns -> {"none", "open", "closed"}] /\ lost' \subseteq SignIns
        BY <4>1 DEF LogOut, TypeOK
      <4> QED
        BY <3>1, <4>2, <4>3 DEF TypeOK
    <3>3. CASE session[s] # "active"
      BY <1>10, <3>1, <3>3 DEF EndGrant, TypeOK
    <3> QED
      BY <3>2, <3>3
  <2>2. NoRowBefore' /\ RequestsRight' /\ ListRight'
    BY <1>10 DEF EndGrant, LogOut, TypeOK, NoRowBefore, RequestsRight, ListRight, HasGrant
  <2>3. StoredSessionsKnown'
    BY <1>10 DEF EndGrant, LogOut, TypeOK, StoredSessionsKnown
  <2>4. GrantHasClient'
    BY <1>10 DEF EndGrant, LogOut, TypeOK, GrantHasClient
  <2> QED
    BY <2>1, <2>2, <2>3, <2>4
<1>11. ASSUME NEW s \in SignIns, Expire(s) PROVE Inv'
  <2>1. TypeOK'
    BY <1>11 DEF Expire, TypeOK, Ages
  <2>2. NoRowBefore' /\ RequestsRight' /\ ListRight'
    BY <1>11 DEF Expire, TypeOK, NoRowBefore, RequestsRight, ListRight, HasGrant
  <2>3. StoredSessionsKnown'
    BY <1>11 DEF Expire, TypeOK, StoredSessionsKnown
  <2>4. GrantHasClient'
    BY <1>11 DEF Expire, TypeOK, GrantHasClient
  <2> QED
    BY <2>1, <2>2, <2>3, <2>4
<1>12. ASSUME NEW s \in SignIns, Retain(s) PROVE Inv'
  <2>1. TypeOK'
    BY <1>12 DEF Retain, TypeOK, Ages
  <2>2. NoRowBefore' /\ RequestsRight' /\ ListRight'
    BY <1>12 DEF Retain, TypeOK, NoRowBefore, RequestsRight, ListRight, HasGrant
  <2>3. StoredSessionsKnown'
    BY <1>12 DEF Retain, TypeOK, StoredSessionsKnown
  <2>4. GrantHasClient'
    BY <1>12 DEF Retain, TypeOK, GrantHasClient
  <2> QED
    BY <2>1, <2>2, <2>3, <2>4
<1>13. ASSUME NEW c \in Clients, Age(c) PROVE Inv'
  <2>1. TypeOK'
    <3>1. client[c] \in [present : BOOLEAN, authorized : BOOLEAN, blocked : BOOLEAN, old : BOOLEAN]
      BY DEF TypeOK
    <3>2. [client[c] EXCEPT !.old = TRUE] \in [present : BOOLEAN, authorized : BOOLEAN, blocked : BOOLEAN, old : BOOLEAN]
      BY <3>1
    <3>3. client' \in [Clients -> [present : BOOLEAN, authorized : BOOLEAN, blocked : BOOLEAN, old : BOOLEAN]]
      BY <1>13, <3>2 DEF Age, TypeOK
    <3> QED
      BY <1>13, <3>3 DEF Age, TypeOK
  <2>2. NoRowBefore' /\ RequestsRight' /\ ListRight'
    BY <1>13 DEF Age, TypeOK, NoRowBefore, RequestsRight, ListRight, HasGrant
  <2>3. StoredSessionsKnown'
    BY <1>13 DEF Age, TypeOK, StoredSessionsKnown
  <2>4. GrantHasClient'
    BY <1>13 DEF Age, TypeOK, GrantHasClient
  <2> QED
    BY <2>1, <2>2, <2>3, <2>4
<1>14. ASSUME NEW c \in Clients, Block(c) PROVE Inv'
  <2>1. TypeOK'
    <3>1. client[c] \in [present : BOOLEAN, authorized : BOOLEAN, blocked : BOOLEAN, old : BOOLEAN]
      BY DEF TypeOK
    <3>2. [client[c] EXCEPT !.blocked = TRUE] \in [present : BOOLEAN, authorized : BOOLEAN, blocked : BOOLEAN, old : BOOLEAN]
      BY <3>1
    <3>3. client' \in [Clients -> [present : BOOLEAN, authorized : BOOLEAN, blocked : BOOLEAN, old : BOOLEAN]]
      BY <1>14, <3>2 DEF Block, TypeOK
    <3> QED
      BY <1>14, <3>3 DEF Block, TypeOK
  <2>2. NoRowBefore' /\ RequestsRight' /\ ListRight'
    BY <1>14 DEF Block, TypeOK, NoRowBefore, RequestsRight, ListRight, HasGrant
  <2>3. StoredSessionsKnown'
    BY <1>14 DEF Block, TypeOK, StoredSessionsKnown
  <2>4. GrantHasClient'
    BY <1>14 DEF Block, TypeOK, GrantHasClient
  <2> QED
    BY <2>1, <2>2, <2>3, <2>4
<1>15. ASSUME SelectOrphans PROVE Inv'
  <2>1. TypeOK'
    BY <1>15 DEF SelectOrphans, Orphan, TypeOK, Ages
  <2>2. NoRowBefore' /\ RequestsRight' /\ ListRight'
    BY <1>15 DEF SelectOrphans, Orphan, TypeOK, NoRowBefore, RequestsRight, ListRight, HasGrant
  <2>3. StoredSessionsKnown'
    BY <1>15 DEF SelectOrphans, Orphan, TypeOK, StoredSessionsKnown
  <2>4. GrantHasClient'
    BY <1>15 DEF SelectOrphans, Orphan, TypeOK, GrantHasClient
  <2> QED
    BY <2>1, <2>2, <2>3, <2>4
<1>16. ASSUME NEW s \in SignIns, RevokeOrphan(s) PROVE Inv'
  <2>1. TypeOK'
    <3>1. CASE session[s] = "active" /\ s \in Unreadable
      BY <1>16, <3>1 DEF RevokeOrphan, StopPass, TypeOK
    <3>2. CASE session[s] = "active" /\ s \notin Unreadable
      <4>1. /\ orphans' = orphans \ {s} /\ swept' = swept \cup {s}
            /\ UNCHANGED <<client, sign, code, token, request, cleanup, doomed, late, dropped>>
            /\ LogOut(s)
        BY <1>16, <3>2 DEF RevokeOrphan
      <4>2. /\ session' \in [SignIns -> {"none", "active", "revoked", "old", "deleted"}]
            /\ okk' \in [SignIns -> {"none", "open", "closed"}]
            /\ lost' \subseteq SignIns
        BY <4>1 DEF LogOut, TypeOK
      <4> QED
        BY <4>1, <4>2 DEF TypeOK
    <3>3. CASE session[s] # "active"
      BY <1>16, <3>3 DEF RevokeOrphan, TypeOK
    <3> QED
      BY <3>1, <3>2, <3>3
  <2>2. NoRowBefore' /\ RequestsRight' /\ ListRight'
    BY <1>16 DEF RevokeOrphan, LogOut, StopPass, TypeOK, NoRowBefore, RequestsRight, ListRight, HasGrant
  <2>3. StoredSessionsKnown'
    BY <1>16 DEF RevokeOrphan, LogOut, StopPass, TypeOK, StoredSessionsKnown
  <2>4. GrantHasClient'
    BY <1>16 DEF RevokeOrphan, LogOut, StopPass, TypeOK, GrantHasClient
  <2> QED
    BY <2>1, <2>2, <2>3, <2>4
<1>17. ASSUME FailPass PROVE Inv'
  <2>1. TypeOK'
    BY <1>17 DEF FailPass, StopPass, TypeOK, Ages
  <2>2. NoRowBefore' /\ RequestsRight' /\ ListRight'
    BY <1>17 DEF FailPass, StopPass, TypeOK, NoRowBefore, RequestsRight, ListRight, HasGrant
  <2>3. StoredSessionsKnown'
    BY <1>17 DEF FailPass, StopPass, TypeOK, StoredSessionsKnown
  <2>4. GrantHasClient'
    BY <1>17 DEF FailPass, StopPass, TypeOK, GrantHasClient
  <2> QED
    BY <2>1, <2>2, <2>3, <2>4
<1>18. ASSUME FindClients PROVE Inv'
  <2>1. TypeOK'
    BY <1>18 DEF FindClients, TypeOK, Ages
  <2>2. NoRowBefore' /\ RequestsRight' /\ ListRight'
    BY <1>18 DEF FindClients, TypeOK, NoRowBefore, RequestsRight, ListRight, HasGrant
  <2>3. StoredSessionsKnown'
    BY <1>18 DEF FindClients, TypeOK, StoredSessionsKnown
  <2>4. GrantHasClient'
    BY <1>18 DEF FindClients, TypeOK, GrantHasClient
  <2> QED
    BY <2>1, <2>2, <2>3, <2>4
<1>19. ASSUME CommitDeletes PROVE Inv'
  <2>1. TypeOK'
    BY <1>19 DEF CommitDeletes, Remaining, Going, Forgotten, NoClient, TypeOK, Ages
  <2>2. NoRowBefore' /\ RequestsRight' /\ ListRight'
    BY <1>19 DEF CommitDeletes, Remaining, Going, Forgotten, NoClient, TypeOK, NoRowBefore, RequestsRight, ListRight, HasGrant
  <2>3. StoredSessionsKnown'
    BY <1>19 DEF CommitDeletes, Remaining, Going, Forgotten, NoClient, TypeOK, StoredSessionsKnown
  <2>4. GrantHasClient'
    BY <1>19 DEF CommitDeletes, Remaining, Going, Forgotten, NoClient, TypeOK, GrantHasClient
  <2> QED
    BY <2>1, <2>2, <2>3, <2>4
<1>20. CASE UNCHANGED vars
  BY <1>20 DEF vars, TypeOK, NoRowBefore, RequestsRight, ListRight, HasGrant, StoredSessionsKnown, GrantHasClient
<1> QED
  BY <1>1, <1>2, <1>3, <1>4, <1>5, <1>6, <1>7, <1>8, <1>9, <1>10, <1>11, <1>12, <1>13, <1>14, <1>15, <1>16, <1>17, <1>18, <1>19, <1>20 DEF Next, SignIn, TokenRequest, Clock, Cleanup

-----------------------------------------------------------------------------
\* The inductive invariant holds in every state.
THEOREM MaintenanceInvariance == Spec => []Inv
BY InitRight, StepRight, PTL DEF Spec

\* The type invariant of the cleanup and the requests beside it.
THEOREM MaintenanceTypes == Spec => []TypeOK
<1>1. Inv => TypeOK
  BY DEF Inv
<1> QED
  BY <1>1, MaintenanceInvariance, PTL

\* A stale list ends no session in use, save one whose grant expired while
\* its request was being answered.
THEOREM SweepsOrphans == Spec => []SweptOnlyOrphans
<1>1. Inv => SweptOnlyOrphans
  BY DEF Inv, ListRight, SweptOnlyOrphans
<1> QED
  BY <1>1, MaintenanceInvariance, PTL

\* A session once stored keeps its active row as long as OKK has it open: no
\* expiry, revocation, failed pass or deletion forgets it.  Its own logout may be
\* lost, and live_context may give it up without one; a sign-in that never
\* stored its session is not in this claim.
THEOREM SessionsKnown == Spec => []StoredSessionsKnown
<1>1. Inv => StoredSessionsKnown
  BY DEF Inv
<1> QED
  BY <1>1, MaintenanceInvariance, PTL

\* The rows a grant refers to outlive it.
THEOREM GrantsHaveClients == Spec => []GrantHasClient
<1>1. Inv => GrantHasClient
  BY DEF Inv
<1> QED
  BY <1>1, MaintenanceInvariance, PTL
=============================================================================
