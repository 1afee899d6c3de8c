-------------------------- MODULE TokenGrantsProofs --------------------------
(***************************************************************************)
(* Proofs about TokenGrants for every set of sign-ins, pairs, scopes and   *)
(* concurrent requests.                                                    *)
(***************************************************************************)
EXTENDS TokenGrants, TLAPS

Rotating == {"ask", "granting", "issue"}
Revoking == {"update", "logout", "commit_revoke"}

\* The rows of a pair that was not issued are untouched; an issued pair
\* belongs to a sign-in whose code was used, and it was rotated exactly when
\* it is spent, into a pair of the same sign-in with no wider scope.
Row(p) ==
    /\ p \notin issued => token[p] = NoRow /\ lock[p] = NoOne
    /\ p \in issued =>
          /\ token[p].session \in Sessions
          /\ codeUsed[token[p].session]
          /\ token[p].scope \subseteq grant[token[p].session]
    /\ token[p].used =>
          /\ token[p].revoked
          /\ token[p].next \in issued
          /\ token[token[p].next].session = token[p].session
          /\ token[token[p].next].scope \subseteq token[p].scope
    /\ ~token[p].used => token[p].next = NoPair /\ ~token[p].retry

RowInv == \A p \in Pairs : Row(p)

\* What a request relies on between two of its steps, and the lock that
\* keeps it true.
Holder(r) ==
    /\ pc[r] = "idle" => seen[r] = {} /\ kind[r] = "none" /\ sess[r] = NoSession
    /\ pc[r] # "idle" => sess[r] \in Sessions
    /\ pc[r] \in {"lock_token", "lock_next", "retry"} =>
          tok[r] \in issued /\ token[tok[r]].session = sess[r] /\ kind[r] = "refresh"
    /\ pc[r] \in {"lock_next", "retry"} => token[tok[r]].used
    /\ pc[r] = "retry" => lock[token[tok[r]].next] = r /\ Usable(token[tok[r]].next)
    /\ pc[r] \in Rotating /\ kind[r] = "refresh" =>
          /\ tok[r] \in issued /\ token[tok[r]].session = sess[r]
          /\ lock[tok[r]] = r /\ Usable(tok[r])
    /\ pc[r] = "issue" => kind[r] = "refresh"
    /\ pc[r] = "issue_code" => codeLock[sess[r]] = r /\ ~codeUsed[sess[r]]
    /\ pc[r] \in Revoking => seen[r] \subseteq Family(sess[r])
    /\ pc[r] \in {"logout", "commit_revoke"} =>
          \A p \in seen[r] : token[p].revoked \/ lock[p] = r
    /\ pc[r] = "commit_revoke" => ~live[sess[r]]

HolderInv == \A r \in Requests : Holder(r)

\* A sign-in has at most one unspent pair, and while it is live a usable one.
HeadInv ==
    /\ \A p, q \in issued :
          token[p].session = token[q].session /\ ~token[p].used /\ ~token[q].used => p = q
    /\ \A s \in Sessions : live[s] /\ codeUsed[s] => Heads(s) # {}

IInv == TypeOK /\ RowInv /\ HolderInv /\ HeadInv /\ CaughtSessionEnded

-----------------------------------------------------------------------------
(* Rows                                                                    *)

\* The row of a new pair.
LEMMA NewRow ==
  ASSUME NEW q, NEW s \in Sessions, NEW S \in SUBSET Scopes, NEW u, u = NewPair(q, s, S)
  PROVE  /\ u \in Rows /\ u.session = s /\ ~u.used /\ ~u.revoked
         /\ u.next = NoPair /\ ~u.retry /\ u.scope = S
  BY DEF Rows, NewPair

\* The row of a revoked pair.
LEMMA RevokedRow ==
  ASSUME NEW t \in Rows, NEW u, u = [t EXCEPT !.revoked = TRUE, !.accessRevoked = TRUE]
  PROVE  /\ u \in Rows /\ u.session = t.session /\ u.used = t.used /\ u.revoked
         /\ u.next = t.next /\ u.retry = t.retry /\ u.scope = t.scope
<1> DEFINE v == [session |-> t.session, used |-> t.used, revoked |-> TRUE,
                 accessRevoked |-> TRUE, next |-> t.next, retry |-> t.retry, scope |-> t.scope]
<1>1. u = v
  BY DEF Rows
<1>2. v \in Rows
  BY DEF Rows
<1>3. /\ v.session = t.session /\ v.used = t.used /\ v.revoked = TRUE
      /\ v.next = t.next /\ v.retry = t.retry /\ v.scope = t.scope
  OBVIOUS
<1> HIDE DEF v
<1> QED
  BY <1>1, <1>2, <1>3

\* An unset retry window and a revoked access token.
LEMMA SideRow ==
  ASSUME NEW t \in Rows, NEW u,
         u = [t EXCEPT !.accessRevoked = TRUE] \/ u = [t EXCEPT !.retry = FALSE]
  PROVE  /\ u \in Rows /\ u.session = t.session /\ u.used = t.used /\ u.revoked = t.revoked
         /\ u.next = t.next /\ u.scope = t.scope /\ (u.retry => t.retry)
<1>1. CASE u = [t EXCEPT !.accessRevoked = TRUE]
  BY <1>1 DEF Rows
<1>2. CASE u = [t EXCEPT !.retry = FALSE]
  BY <1>2 DEF Rows
<1> QED
  BY <1>1, <1>2

-----------------------------------------------------------------------------
(* Frames                                                                  *)

\* A transaction that ends gives back its locks and nobody else's.
LEMMA EndReleases ==
  ASSUME TypeOK, NEW r \in Requests, End(r)
  PROVE  /\ pc' \in [Requests -> Steps] /\ pc'[r] = "idle" /\ kind'[r] = "none"
         /\ sess'[r] = NoSession /\ seen'[r] = {}
         /\ kind' \in [Requests -> {"none", "code", "refresh", "revoke", "verify", "tool"}]
         /\ tok' \in [Requests -> Pairs \cup {NoPair}]
         /\ sess' \in [Requests -> Sessions \cup {NoSession}]
         /\ seen' \in [Requests -> SUBSET Pairs]
         /\ lock' \in [Pairs -> Requests \cup {NoOne}]
         /\ codeLock' \in [Sessions -> Requests \cup {NoOne}]
         /\ \A p \in Pairs : lock'[p] = IF lock[p] = r THEN NoOne ELSE lock[p]
         /\ \A t \in Sessions : codeLock'[t] = IF codeLock[t] = r THEN NoOne ELSE codeLock[t]
         /\ \A q \in Requests \ {r} : /\ pc'[q] = pc[q] /\ kind'[q] = kind[q] /\ tok'[q] = tok[q]
                                       /\ sess'[q] = sess[q] /\ seen'[q] = seen[q]
  BY DEF TypeOK, End, Goto, Steps

\* A request that did not move keeps what it relies on while nobody takes
\* its locks, and the rows it has locked stay usable.
LEMMA HolderFrame ==
  ASSUME TypeOK, RowInv, NEW q \in Requests, Holder(q),
         pc'[q] = pc[q], kind'[q] = kind[q], tok'[q] = tok[q], sess'[q] = sess[q],
         seen'[q] = seen[q], issued \subseteq issued',
         \A s \in Sessions : codeLock[s] = q => codeLock'[s] = q /\ codeUsed'[s] = codeUsed[s],
         \A s \in Sessions : live'[s] => live[s],
         \A p \in issued :
             /\ token'[p].session = token[p].session
             /\ token[p].used => token'[p].used /\ token'[p].next = token[p].next
             /\ token[p].revoked => token'[p].revoked
             /\ lock[p] = q => /\ lock'[p] = q
                               /\ Usable(p) => ~token'[p].used /\ ~token'[p].revoked
  PROVE  Holder(q)'
<1> USE DEF TypeOK, RowInv, Row, Usable
<1>1. pc[q] \in {"lock_next", "retry"} => token[tok[q]].next \in issued /\ tok[q] \in issued
  BY DEF Holder
<1>2. pc[q] \in Revoking => seen[q] \subseteq issued /\ \A p \in seen[q] : token[p].session = sess[q]
  BY DEF Holder, Family
<1>3. (pc'[q] \in Revoking => seen'[q] \subseteq Family(sess[q])')
  BY <1>2 DEF Family
<1>4. (pc'[q] \in {"logout", "commit_revoke"} => \A p \in seen'[q] : token'[p].revoked \/ lock'[p] = q)
  BY <1>2 DEF Holder, Revoking
<1> QED
  BY <1>1, <1>3, <1>4 DEF Holder, Rotating

\* The rows stay as they are.
LEMMA RowFrame ==
  ASSUME RowInv, UNCHANGED rows, \A p \in Pairs : lock'[p] # NoOne => p \in issued \/ lock'[p] = lock[p]
  PROVE  RowInv'
  BY DEF RowInv, Row, rows, NoRow

\* Neither do the heads of the chains, whichever sessions end.
LEMMA HeadFrame ==
  ASSUME HeadInv, CaughtSessionEnded, UNCHANGED <<rows, caught>>, \A s \in Sessions : live'[s] => live[s],
         caught \subseteq Sessions
  PROVE  HeadInv' /\ CaughtSessionEnded'
  BY DEF HeadInv, Heads, Usable, Family, CaughtSessionEnded, rows

\* An error answer keeps the invariant.
LEMMA RefuseKeeps ==
  ASSUME IInv, NEW r \in Requests, Refuse(r)
  PROVE  IInv'
<1> USE DEF IInv, Refuse
<1>1. TypeOK'
  BY EndReleases DEF TypeOK, rows
<1>2. RowInv'
  BY RowFrame, EndReleases DEF TypeOK
<1>3. HolderInv'
  <2>1. Holder(r)'
    BY EndReleases DEF Holder, Rotating, Revoking
  <2>2. ASSUME NEW q \in Requests \ {r} PROVE Holder(q)'
    <3>1. /\ Holder(q) /\ issued \subseteq issued'
          /\ pc'[q] = pc[q] /\ kind'[q] = kind[q] /\ tok'[q] = tok[q]
          /\ sess'[q] = sess[q] /\ seen'[q] = seen[q]
      BY EndReleases DEF HolderInv, rows
    <3>2. \A s \in Sessions : /\ codeLock[s] = q => codeLock'[s] = q /\ codeUsed'[s] = codeUsed[s]
                              /\ live'[s] => live[s]
      BY EndReleases DEF rows
    <3>3. \A p \in issued : /\ token'[p] = token[p]
                            /\ lock[p] = q => lock'[p] = q
      BY EndReleases DEF rows, TypeOK
    <3> QED
      BY <3>1, <3>2, <3>3, HolderFrame DEF Usable
  <2> QED
    BY <2>1, <2>2 DEF HolderInv
<1>4. HeadInv' /\ CaughtSessionEnded'
  BY HeadFrame DEF TypeOK
<1> QED
  BY <1>1, <1>2, <1>3, <1>4

\* A request that starts or moves on without writing a row keeps it, if what
\* it relies on next holds.
LEMMA MoveKeeps ==
  ASSUME IInv, NEW r \in Requests, UNCHANGED <<rows, caught>>, TypeOK',
         \A s \in Sessions : live'[s] => live[s],
         \A q \in Requests \ {r} : /\ pc'[q] = pc[q] /\ kind'[q] = kind[q] /\ tok'[q] = tok[q]
                                   /\ sess'[q] = sess[q] /\ seen'[q] = seen[q],
         \A p \in Pairs : lock'[p] # lock[p] => lock[p] = NoOne /\ p \in issued,
         \A s \in Sessions : codeLock'[s] # codeLock[s] => codeLock[s] = NoOne,
         Holder(r)'
  PROVE  IInv'
<1> USE NoOneAssumption DEF IInv
<1>1. RowInv'
  BY RowFrame
<1>2. ASSUME NEW q \in Requests \ {r} PROVE Holder(q)'
  <2>1. Holder(q) /\ issued \subseteq issued'
    BY DEF HolderInv, rows
  <2>2. \A s \in Sessions : codeLock[s] = q => codeLock'[s] = q /\ codeUsed'[s] = codeUsed[s]
    BY DEF rows
  <2>3. \A p \in issued : /\ token'[p] = token[p]
                          /\ lock[p] = q => lock'[p] = q
    BY DEF rows, TypeOK
  <2> QED
    BY <2>1, <2>2, <2>3, HolderFrame DEF Usable
<1>3. HolderInv'
  BY <1>2 DEF HolderInv
<1>4. HeadInv' /\ CaughtSessionEnded'
  BY HeadFrame DEF TypeOK
<1> QED
  BY <1>1, <1>3, <1>4

-----------------------------------------------------------------------------
(* Inductive invariance                                                    *)

\* A request that begins holds nothing and has looked at nothing.
LEMMA BeginKeeps ==
  ASSUME IInv, NEW r \in Requests, NEW what \in {"code", "refresh", "revoke", "verify"},
         NEW p \in Pairs \cup {NoPair}, NEW s \in Sessions,
         NEW step \in {"lock_code", "lock_token", "snapshot", "ask"},
         Begin(r, what, p, s, step),
         step = "lock_token" <=> what = "refresh",
         what = "refresh" => p \in issued /\ token[p].session = s
  PROVE  IInv'
<1>1. TypeOK'
  BY DEF IInv, TypeOK, Begin, Goto, Steps, rows, locks
<1>2. Holder(r)'
  BY DEF IInv, TypeOK, Begin, Goto, Holder, Rotating, Revoking, rows
<1>3. \A q \in Requests \ {r} : /\ pc'[q] = pc[q] /\ kind'[q] = kind[q] /\ tok'[q] = tok[q]
                                 /\ sess'[q] = sess[q] /\ seen'[q] = seen[q]
  BY DEF IInv, TypeOK, Begin, Goto
<1> QED
  BY <1>1, <1>2, <1>3, MoveKeeps DEF Begin, locks

\* No request, environment step or failure breaks the invariant.
LEMMA IInvNext == IInv /\ [Next]_vars => IInv'
<1> SUFFICES ASSUME IInv, [Next]_vars PROVE IInv'
  OBVIOUS
<1> USE NoOneAssumption, NoPairAssumption, NoSessionAssumption DEF IInv
<1>1. ASSUME NEW r \in Requests, Start(r) PROVE IInv'
  <2>1. ASSUME NEW x \in Sessions, Exchange(r, x) PROVE IInv'
    BY <2>1, BeginKeeps DEF Exchange
  <2>2. ASSUME NEW p \in Pairs, Present(r, p) \/ Revoke(r, p) \/ Verify(r, p) PROVE IInv'
    <3>1. token[p].session \in Sessions
      BY <2>2 DEF Present, Revoke, Verify, RowInv, Row
    <3> QED
      BY <2>2, <3>1, BeginKeeps DEF Present, Revoke, Verify
  <2> QED
    BY <1>1, <2>1, <2>2 DEF Start
<1>2. ASSUME NEW r \in Requests, LockCode(r) PROVE IInv'
  <2>1. CASE Refuse(r)
    BY <2>1, RefuseKeeps
  <2>2. CASE /\ pc[r] = "lock_code" /\ codeLock[sess[r]] = NoOne
             /\ codeLock' = [codeLock EXCEPT ![sess[r]] = r]
             /\ Goto(r, IF codeUsed[sess[r]] THEN "snapshot" ELSE "issue_code")
             /\ UNCHANGED <<rows, lock, live, locals, caught>>
    <3>1. TypeOK'
      BY <1>2, <2>2 DEF TypeOK, Goto, Steps, rows, locals, HolderInv, Holder
    <3>2. Holder(r)'
      BY <1>2, <2>2 DEF TypeOK, Goto, HolderInv, Holder, Rotating, Revoking, rows, locals
    <3>3. \A q \in Requests \ {r} : /\ pc'[q] = pc[q] /\ kind'[q] = kind[q] /\ tok'[q] = tok[q]
                                     /\ sess'[q] = sess[q] /\ seen'[q] = seen[q]
      BY <2>2 DEF TypeOK, Goto, locals
    <3>4. /\ UNCHANGED <<rows, caught>> /\ \A s \in Sessions : live'[s] => live[s]
          /\ \A p \in Pairs : lock'[p] # lock[p] => lock[p] = NoOne /\ p \in issued
          /\ \A s \in Sessions : codeLock'[s] # codeLock[s] => codeLock[s] = NoOne
      BY <1>2, <2>2 DEF TypeOK
    <3> QED
      BY <3>1, <3>2, <3>3, <3>4, MoveKeeps
  <2> QED
    BY <1>2, <2>1, <2>2 DEF LockCode
<1>3. ASSUME NEW r \in Requests, LockToken(r) PROVE IInv'
  <2>1. CASE Refuse(r)
    BY <2>1, RefuseKeeps
  <2>2. CASE /\ pc[r] = "lock_token" /\ lock[tok[r]] = NoOne
             /\ token[tok[r]].used \/ ~token[tok[r]].revoked
             /\ lock' = [lock EXCEPT ![tok[r]] = r]
             /\ Goto(r, IF ~token[tok[r]].used THEN "ask"
                        ELSE IF token[tok[r]].retry THEN "lock_next" ELSE "snapshot")
             /\ UNCHANGED <<rows, codeLock, live, locals, caught>>
    <3>1. TypeOK'
      BY <1>3, <2>2 DEF TypeOK, Goto, Steps, rows, locals
    <3>2. Holder(r)'
      <4>1. /\ sess[r] \in Sessions /\ tok[r] \in issued /\ tok[r] \in Pairs /\ kind[r] = "refresh"
            /\ token[tok[r]].session = sess[r]
        <5>1. pc[r] = "lock_token" /\ Holder(r) /\ issued \subseteq Pairs
          BY <2>2 DEF HolderInv, TypeOK
        <5> QED
          BY <5>1 DEF Holder
      <4>2. UNCHANGED <<rows, live, kind, tok, sess, seen>> /\ lock'[tok[r]] = r
        BY <2>2, <4>1 DEF TypeOK, locals
      <4>3. pc'[r] = "ask" \/ (pc'[r] \in {"lock_next", "snapshot"} /\ token[tok[r]].used)
        BY <2>2 DEF TypeOK, Goto
      <4>4. pc'[r] = "ask" => ~token[tok[r]].used /\ ~token[tok[r]].revoked
        BY <2>2 DEF TypeOK, Goto
      <4> QED
        BY <4>1, <4>2, <4>3, <4>4 DEF Holder, Usable, Rotating, Revoking, rows
    <3>3. \A q \in Requests \ {r} : /\ pc'[q] = pc[q] /\ kind'[q] = kind[q] /\ tok'[q] = tok[q]
                                     /\ sess'[q] = sess[q] /\ seen'[q] = seen[q]
      BY <2>2 DEF TypeOK, Goto, locals
    <3>4. /\ UNCHANGED <<rows, caught>> /\ \A s \in Sessions : live'[s] => live[s]
          /\ \A p \in Pairs : lock'[p] # lock[p] => lock[p] = NoOne /\ p \in issued
          /\ \A s \in Sessions : codeLock'[s] # codeLock[s] => codeLock[s] = NoOne
      <4>1. tok[r] \in issued
        <5>1. pc[r] = "lock_token" /\ Holder(r)
          BY <2>2 DEF HolderInv
        <5> QED
          BY <5>1 DEF Holder
      <4> QED
        BY <2>2, <4>1 DEF TypeOK
    <3> QED
      BY <3>1, <3>2, <3>3, <3>4, MoveKeeps
  <2> QED
    BY <1>3, <2>1, <2>2 DEF LockToken
<1>4. ASSUME NEW r \in Requests, LockSuccessor(r) PROVE IInv'
  <2>1. TypeOK'
    BY <1>4 DEF LockSuccessor, TypeOK, Goto, Steps, rows, locals
  <2>2. Holder(r)'
    BY <1>4 DEF LockSuccessor, TypeOK, Goto, HolderInv, Holder, Rotating, Revoking, RowInv, Row, rows, locals, Usable
  <2>3. \A q \in Requests \ {r} : /\ pc'[q] = pc[q] /\ kind'[q] = kind[q] /\ tok'[q] = tok[q]
                                   /\ sess'[q] = sess[q] /\ seen'[q] = seen[q]
    BY <1>4 DEF LockSuccessor, TypeOK, Goto, locals
  <2>4. /\ UNCHANGED <<rows, caught>> /\ \A s \in Sessions : live'[s] => live[s]
        /\ \A p \in Pairs : lock'[p] # lock[p] => lock[p] = NoOne /\ p \in issued
        /\ \A s \in Sessions : codeLock'[s] # codeLock[s] => codeLock[s] = NoOne
    BY <1>4 DEF LockSuccessor, TypeOK, HolderInv, Holder, RowInv, Row
  <2> QED
    BY <2>1, <2>2, <2>3, <2>4, MoveKeeps
<1>5. ASSUME NEW r \in Requests, AskContext(r) PROVE IInv'
  <2>1. CASE Refuse(r)
    BY <2>1, RefuseKeeps
  <2>2. CASE /\ pc[r] = "ask" /\ live[sess[r]]
             /\ Goto(r, "granting")
             /\ UNCHANGED <<rows, locks, live, locals, caught>>
    <3>1. TypeOK'
      BY <1>5, <2>2 DEF TypeOK, Goto, Steps, rows, locks, locals
    <3>2. Holder(r)'
      BY <1>5, <2>2 DEF TypeOK, Goto, HolderInv, Holder, Rotating, Revoking, rows, locks, locals, Usable
    <3>3. \A q \in Requests \ {r} : /\ pc'[q] = pc[q] /\ kind'[q] = kind[q] /\ tok'[q] = tok[q]
                                     /\ sess'[q] = sess[q] /\ seen'[q] = seen[q]
      BY <2>2 DEF TypeOK, Goto, locals
    <3>4. /\ UNCHANGED <<rows, caught>> /\ \A s \in Sessions : live'[s] => live[s]
          /\ \A p \in Pairs : lock'[p] # lock[p] => lock[p] = NoOne /\ p \in issued
          /\ \A s \in Sessions : codeLock'[s] # codeLock[s] => codeLock[s] = NoOne
      BY <1>5, <2>2 DEF locks
    <3> QED
      BY <3>1, <3>2, <3>3, <3>4, MoveKeeps
  <2> QED
    BY <1>5, <2>1, <2>2 DEF AskContext
<1>6. ASSUME NEW r \in Requests, Granted(r) PROVE IInv'
  <2>1. CASE Refuse(r)
    BY <2>1, RefuseKeeps
  <2>2. CASE /\ pc[r] = "granting" /\ live[sess[r]]
             /\ Goto(r, IF kind[r] = "refresh" THEN "issue" ELSE "served")
             /\ UNCHANGED <<rows, locks, live, locals, caught>>
    <3>1. TypeOK'
      BY <1>6, <2>2 DEF TypeOK, Goto, Steps, rows, locks, locals
    <3>2. Holder(r)'
      BY <1>6, <2>2 DEF TypeOK, Goto, HolderInv, Holder, Rotating, Revoking, rows, locks, locals, Usable
    <3>3. \A q \in Requests \ {r} : /\ pc'[q] = pc[q] /\ kind'[q] = kind[q] /\ tok'[q] = tok[q]
                                     /\ sess'[q] = sess[q] /\ seen'[q] = seen[q]
      BY <2>2 DEF TypeOK, Goto, locals
    <3>4. /\ UNCHANGED <<rows, caught>> /\ \A s \in Sessions : live'[s] => live[s]
          /\ \A p \in Pairs : lock'[p] # lock[p] => lock[p] = NoOne /\ p \in issued
          /\ \A s \in Sessions : codeLock'[s] # codeLock[s] => codeLock[s] = NoOne
      BY <1>6, <2>2 DEF locks
    <3> QED
      BY <3>1, <3>2, <3>3, <3>4, MoveKeeps
  <2> QED
    BY <1>6, <2>1, <2>2 DEF Granted
<1>7. ASSUME NEW r \in Requests, Unavailable(r) PROVE IInv'
  <2>1. CASE Refuse(r)
    BY <2>1, RefuseKeeps
  <2>2. CASE /\ pc[r] \in {"ask", "granting"}
             /\ kind[r] = "verify"
             /\ kind' = [kind EXCEPT ![r] = "tool"]
             /\ Goto(r, "ask")
             /\ UNCHANGED <<rows, locks, live, tok, sess, seen, caught>>
    <3>1. TypeOK'
      BY <1>7, <2>2 DEF TypeOK, Goto, Steps, rows, locks
    <3>2. Holder(r)'
      BY <1>7, <2>2 DEF TypeOK, Goto, HolderInv, Holder, Rotating, Revoking, rows, locks
    <3>3. \A q \in Requests \ {r} : /\ pc'[q] = pc[q] /\ kind'[q] = kind[q] /\ tok'[q] = tok[q]
                                     /\ sess'[q] = sess[q] /\ seen'[q] = seen[q]
      BY <2>2 DEF TypeOK, Goto, locals
    <3>4. /\ UNCHANGED <<rows, caught>> /\ \A s \in Sessions : live'[s] => live[s]
          /\ \A p \in Pairs : lock'[p] # lock[p] => lock[p] = NoOne /\ p \in issued
          /\ \A s \in Sessions : codeLock'[s] # codeLock[s] => codeLock[s] = NoOne
      BY <1>7, <2>2 DEF locks
    <3> QED
      BY <3>1, <3>2, <3>3, <3>4, MoveKeeps
  <2> QED
    BY <1>7, <2>1, <2>2 DEF Unavailable
<1>8. ASSUME NEW r \in Requests, BeginUpdate(r) PROVE IInv'
  <2>1. TypeOK'
    BY <1>8 DEF BeginUpdate, TypeOK, Goto, Steps, rows, locks, Family
  <2>2. Holder(r)'
    BY <1>8 DEF BeginUpdate, TypeOK, Goto, HolderInv, Holder, Rotating, Revoking, Family, rows, locks
  <2>3. \A q \in Requests \ {r} : /\ pc'[q] = pc[q] /\ kind'[q] = kind[q] /\ tok'[q] = tok[q]
                                   /\ sess'[q] = sess[q] /\ seen'[q] = seen[q]
    BY <1>8 DEF BeginUpdate, TypeOK, Goto, locals
  <2>4. /\ UNCHANGED <<rows, caught>> /\ \A s \in Sessions : live'[s] => live[s]
        /\ \A p \in Pairs : lock'[p] # lock[p] => lock[p] = NoOne /\ p \in issued
        /\ \A s \in Sessions : codeLock'[s] # codeLock[s] => codeLock[s] = NoOne
    BY <1>8 DEF BeginUpdate, locks
  <2> QED
    BY <2>1, <2>2, <2>3, <2>4, MoveKeeps
<1>9. ASSUME NEW r \in Requests, Update(r) PROVE IInv'
  <2>1. TypeOK'
    BY <1>9 DEF Update, TypeOK, Goto, Steps, rows, locals
  <2>2. Holder(r)'
    BY <1>9 DEF Update, TypeOK, Goto, HolderInv, Holder, Rotating, Revoking, Family, Free, Targets, rows,
       locals
  <2>3. \A q \in Requests \ {r} : /\ pc'[q] = pc[q] /\ kind'[q] = kind[q] /\ tok'[q] = tok[q]
                                   /\ sess'[q] = sess[q] /\ seen'[q] = seen[q]
    BY <1>9 DEF Update, TypeOK, Goto, locals
  <2>4. /\ UNCHANGED <<rows, caught>> /\ \A s \in Sessions : live'[s] => live[s]
        /\ \A p \in Pairs : lock'[p] # lock[p] => lock[p] = NoOne /\ p \in issued
        /\ \A s \in Sessions : codeLock'[s] # codeLock[s] => codeLock[s] = NoOne
    BY <1>9 DEF Update, TypeOK, HolderInv, Holder, Family, Free, Targets, Revoking
  <2> QED
    BY <2>1, <2>2, <2>3, <2>4, MoveKeeps
<1>10. ASSUME NEW r \in Requests, Logout(r) PROVE IInv'
  <2>1. TypeOK'
    BY <1>10 DEF Logout, TypeOK, Goto, Steps, rows, locks, locals
  <2>2. Holder(r)'
    BY <1>10 DEF Logout, TypeOK, Goto, HolderInv, Holder, Rotating, Revoking, Family, rows, locks, locals
  <2>3. \A q \in Requests \ {r} : /\ pc'[q] = pc[q] /\ kind'[q] = kind[q] /\ tok'[q] = tok[q]
                                   /\ sess'[q] = sess[q] /\ seen'[q] = seen[q]
    BY <1>10 DEF Logout, TypeOK, Goto, locals
  <2>4. /\ UNCHANGED <<rows, caught>> /\ \A s \in Sessions : live'[s] => live[s]
        /\ \A p \in Pairs : lock'[p] # lock[p] => lock[p] = NoOne /\ p \in issued
        /\ \A s \in Sessions : codeLock'[s] # codeLock[s] => codeLock[s] = NoOne
    BY <1>10 DEF Logout, TypeOK, locks
  <2> QED
    BY <2>1, <2>2, <2>3, <2>4, MoveKeeps
<1>11. ASSUME NEW r \in Requests, AnswerRetry(r) \/ Serve(r) \/ Abort(r) PROVE IInv'
  BY <1>11, RefuseKeeps DEF AnswerRetry, Serve, Abort
<1>12. ASSUME NEW r \in Requests, CommitCode(r) PROVE IInv'
  <2> PICK q \in Pairs \ issued :
         /\ issued' = issued \cup {q}
         /\ token' = [token EXCEPT ![q] = NewPair(q, sess[r], grant[sess[r]])]
    BY <1>12 DEF CommitCode
  <2>1. /\ sess[r] \in Sessions /\ codeLock[sess[r]] = r /\ ~codeUsed[sess[r]]
        /\ codeUsed' = [codeUsed EXCEPT ![sess[r]] = TRUE] /\ grant[sess[r]] \in SUBSET Scopes
        /\ \A p \in issued : token[p].session # sess[r]
    BY <1>12 DEF CommitCode, HolderInv, Holder, TypeOK, RowInv, Row
  <2>2. /\ token' \in [Pairs -> Rows] /\ \A p \in Pairs \ {q} : token'[p] = token[p]
        /\ token'[q].session = sess[r] /\ ~token'[q].used /\ ~token'[q].revoked
        /\ token'[q].next = NoPair /\ ~token'[q].retry /\ token'[q].scope = grant[sess[r]]
    BY <2>1, NewRow DEF TypeOK
  <2>3. TypeOK'
    BY <1>12, <2>1, <2>2, EndReleases DEF CommitCode, TypeOK
  <2>4. RowInv'
    BY <1>12, <2>1, <2>2, EndReleases DEF CommitCode, TypeOK, RowInv, Row
  <2>5. ASSUME NEW o \in Requests \ {r} PROVE Holder(o)'
    <3>1. /\ Holder(o) /\ issued \subseteq issued'
          /\ pc'[o] = pc[o] /\ kind'[o] = kind[o] /\ tok'[o] = tok[o]
          /\ sess'[o] = sess[o] /\ seen'[o] = seen[o]
      BY <1>12, EndReleases DEF HolderInv, CommitCode
    <3>2. \A s \in Sessions : /\ codeLock[s] = o => codeLock'[s] = o /\ codeUsed'[s] = codeUsed[s]
                              /\ live'[s] => live[s]
      <4>1. ASSUME NEW s \in Sessions, codeLock[s] = o PROVE codeLock'[s] = o /\ codeUsed'[s] = codeUsed[s]
        <5>1. s # sess[r]
          BY <2>1, <4>1
        <5> QED
          BY <1>12, <2>1, <4>1, <5>1, EndReleases DEF TypeOK, CommitCode
      <4>2. live' = live
        BY <1>12 DEF CommitCode
      <4> QED
        BY <4>1, <4>2
    <3>3. \A p \in issued :
             /\ token'[p].session = token[p].session
             /\ token[p].used => token'[p].used /\ token'[p].next = token[p].next
             /\ token[p].revoked => token'[p].revoked
             /\ lock[p] = o => /\ lock'[p] = o
                               /\ Usable(p) => ~token'[p].used /\ ~token'[p].revoked
      BY <1>12, <2>1, <2>2, EndReleases DEF CommitCode, TypeOK, Usable
    <3> QED
      BY <3>1, <3>2, <3>3, HolderFrame
  <2>6. HolderInv'
    <3>1. Holder(r)'
      BY <1>12, EndReleases DEF CommitCode, Holder, Rotating, Revoking
    <3> QED
      BY <3>1, <2>5 DEF HolderInv
  <2>7. HeadInv'
    <3>1. \A p \in issued' : p = q \/ (p \in issued /\ token'[p] = token[p] /\ token[p].session # sess[r])
      BY <2>1, <2>2 DEF TypeOK
    <3>2. q \in issued' /\ q \in Pairs
      OBVIOUS
    <3>3. \A x \in Sessions : live'[x] /\ codeUsed'[x] => x = sess[r] \/ (live[x] /\ codeUsed[x])
      BY <1>12, <2>1 DEF CommitCode, TypeOK
    <3>4. \A p \in issued : p \in issued' /\ token'[p] = token[p]
      BY <2>2 DEF TypeOK
    <3> QED
      BY <2>2, <3>1, <3>2, <3>3, <3>4 DEF HeadInv, Heads, Usable, Family
  <2>8. CaughtSessionEnded'
    BY <1>12 DEF CommitCode, CaughtSessionEnded
  <2> QED
    BY <2>3, <2>4, <2>6, <2>7, <2>8
<1>13. ASSUME NEW r \in Requests, CommitRotation(r) PROVE IInv'
  <2> PICK q \in Pairs \ issued, S \in SUBSET token[tok[r]].scope :
         /\ issued' = issued \cup {q}
         /\ token' = [token EXCEPT ![q] = NewPair(q, sess[r], S),
                         ![tok[r]] = [@ EXCEPT !.used = TRUE, !.revoked = TRUE,
                                               !.next = q, !.retry = TRUE]]
    BY <1>13 DEF CommitRotation
  <2>0. tok[r] \in Pairs
    BY <1>13 DEF CommitRotation, HolderInv, Holder, Rotating, TypeOK
  <2> PICK t \in Pairs : t = tok[r]
    BY <2>0
  <2>1. /\ t \in issued /\ sess[r] \in Sessions /\ token[t].session = sess[r] /\ t # q
        /\ lock[t] = r /\ ~token[t].used /\ S \in SUBSET Scopes /\ t \in Pairs /\ token[t] \in Rows
    BY <1>13 DEF CommitRotation, HolderInv, Holder, Rotating, Usable, TypeOK, Rows
  <2>2. /\ token' \in [Pairs -> Rows] /\ \A p \in Pairs \ {q, t} : token'[p] = token[p]
        /\ token'[q].session = sess[r] /\ ~token'[q].used /\ ~token'[q].revoked
        /\ token'[q].next = NoPair /\ ~token'[q].retry /\ token'[q].scope = S
        /\ token'[t].session = sess[r] /\ token'[t].used /\ token'[t].revoked
        /\ token'[t].next = q /\ token'[t].scope = token[t].scope
    <3>1. /\ token'[q] = NewPair(q, sess[r], S)
          /\ token'[t] = [token[t] EXCEPT !.used = TRUE, !.revoked = TRUE, !.next = q, !.retry = TRUE]
          /\ \A p \in Pairs \ {q, t} : token'[p] = token[p]
          /\ token' = [p \in Pairs |-> token'[p]]
      BY <2>1 DEF TypeOK
    <3>2. /\ token'[q] \in Rows /\ token'[q].session = sess[r] /\ ~token'[q].used /\ ~token'[q].revoked
          /\ token'[q].next = NoPair /\ ~token'[q].retry /\ token'[q].scope = S
      BY <2>1, <3>1, NewRow
    <3>3. /\ token'[t] \in Rows /\ token'[t].session = sess[r] /\ token'[t].used /\ token'[t].revoked
          /\ token'[t].next = q /\ token'[t].scope = token[t].scope
      <4>1. ASSUME NEW row \in Rows, row = token[t]
            PROVE  /\ token'[t] \in Rows /\ token'[t].session = row.session
                   /\ token'[t].used /\ token'[t].revoked
                   /\ token'[t].next = q /\ token'[t].scope = row.scope
        BY <3>1, <4>1 DEF Rows
      <4> QED
        BY <2>1, <4>1
    <3>4. \A p \in Pairs : token'[p] \in Rows
      BY <3>1, <3>2, <3>3 DEF TypeOK
    <3> QED
      BY <3>1, <3>2, <3>3, <3>4
  <2>3. TypeOK'
    BY <1>13, <2>2, EndReleases DEF CommitRotation, TypeOK
  <2>4. RowInv'
    <3>1. \A p \in Pairs \ {q, t} : token[p].used => token[p].next \in issued
      BY DEF RowInv, Row
    <3>2. \A p \in issued : token'[p].scope = token[p].scope /\ token'[p].session = token[p].session
      BY <2>1, <2>2 DEF TypeOK
    <3>3. S \subseteq token[t].scope /\ token[t].scope \subseteq grant[sess[r]] /\ codeUsed[sess[r]]
      BY <2>1 DEF RowInv, Row
    <3>4. UNCHANGED <<grant, codeUsed>>
      BY <1>13 DEF CommitRotation
    <3>5. \A p \in Pairs \ issued' : lock'[p] = NoOne /\ token'[p] = NoRow
      BY <1>13, <2>1, <2>2, EndReleases DEF CommitRotation, RowInv, Row, TypeOK
    <3>6. ASSUME NEW p \in Pairs \ {q, t} PROVE Row(p)'
      <4>1. token'[p] = token[p] /\ Row(p) /\ (p \in issued' <=> p \in issued)
        BY <3>6, <2>2 DEF RowInv
      <4>2. token[p].used => /\ token[p].next \in issued
                             /\ token'[token[p].next].session = token[token[p].next].session
                             /\ token'[token[p].next].scope = token[token[p].next].scope
        BY <3>1, <3>2, <3>6
      <4> HIDE DEF NoRow
      <4>3. p \notin issued' => lock'[p] = NoOne /\ token'[p] = NoRow
        BY <3>5, <4>1
      <4>4. p \in issued' => /\ token'[p].session \in Sessions /\ codeUsed'[token'[p].session]
                             /\ token'[p].scope \subseteq grant'[token'[p].session]
        BY <3>4, <4>1 DEF Row
      <4>5. token'[p].used =>
               /\ token'[p].revoked /\ token'[p].next \in issued'
               /\ token'[token'[p].next].session = token'[p].session
               /\ token'[token'[p].next].scope \subseteq token'[p].scope
        <5>1. issued \subseteq issued'
          OBVIOUS
        <5>2. token'[p].used => /\ token'[p].revoked /\ token'[p].next = token[p].next
                                /\ token[token[p].next].session = token[p].session
                                /\ token[token[p].next].scope \subseteq token[p].scope
          BY <4>1 DEF Row
        <5> QED
          BY <4>1, <4>2, <5>1, <5>2
      <4>6. ~token'[p].used => token'[p].next = NoPair /\ ~token'[p].retry
        BY <4>1 DEF Row
      <4> QED
        BY <4>3, <4>4, <4>5, <4>6 DEF Row
    <3>7. Row(q)'
      BY <2>1, <2>2, <3>3, <3>4 DEF Row
    <3>8. Row(t)'
      BY <2>1, <2>2, <3>3, <3>4 DEF Row
    <3>9. ASSUME NEW p \in Pairs PROVE Row(p)'
      <4>1. CASE p = q
        BY <3>7, <4>1
      <4>2. CASE p = t
        BY <3>8, <4>2
      <4> QED
        BY <3>6, <4>1, <4>2
    <3> QED
      BY <3>9 DEF RowInv
  <2>5. ASSUME NEW o \in Requests \ {r} PROVE Holder(o)'
    <3>1. /\ Holder(o) /\ issued \subseteq issued'
          /\ pc'[o] = pc[o] /\ kind'[o] = kind[o] /\ tok'[o] = tok[o]
          /\ sess'[o] = sess[o] /\ seen'[o] = seen[o]
      BY <1>13, EndReleases DEF HolderInv, CommitRotation
    <3>2. \A s \in Sessions : /\ codeLock[s] = o => codeLock'[s] = o /\ codeUsed'[s] = codeUsed[s]
                              /\ live'[s] => live[s]
      BY <1>13, <2>1, EndReleases DEF CommitRotation, TypeOK
    <3>3. \A p \in issued :
             /\ token'[p].session = token[p].session
             /\ token[p].used => token'[p].used /\ token'[p].next = token[p].next
             /\ token[p].revoked => token'[p].revoked
             /\ lock[p] = o => /\ lock'[p] = o
                               /\ Usable(p) => ~token'[p].used /\ ~token'[p].revoked
      BY <1>13, <2>1, <2>2, EndReleases DEF CommitRotation, TypeOK, Usable, RowInv, Row
    <3> QED
      BY <3>1, <3>2, <3>3, HolderFrame
  <2>6. HolderInv'
    <3>1. Holder(r)'
      BY <1>13, EndReleases DEF CommitRotation, Holder, Rotating, Revoking
    <3> QED
      BY <3>1, <2>5 DEF HolderInv
  <2>7. HeadInv'
    <3>1. \A p \in issued' : p = q \/ (p \in issued /\ (p = t \/ token'[p] = token[p]))
      BY <2>2 DEF TypeOK
    <3>2. \A p \in issued \ {t} : token[p].session = sess[r] => token[p].used
      BY <2>1 DEF HeadInv
    <3>3. \A p, w \in issued' : token'[p].session = token'[w].session /\ ~token'[p].used
                                 /\ ~token'[w].used => p = w
      <4> SUFFICES ASSUME NEW p \in issued', NEW w \in issued', token'[p].session = token'[w].session,
                          ~token'[p].used, ~token'[w].used
                   PROVE  p = w
        OBVIOUS
      <4>1. /\ p = q \/ (p \in issued \ {t} /\ token'[p] = token[p])
            /\ w = q \/ (w \in issued \ {t} /\ token'[w] = token[w])
        BY <2>2, <3>1
      <4>2. CASE p = q \/ w = q
        BY <2>2, <3>2, <4>1, <4>2
      <4>3. CASE p # q /\ w # q
        BY <4>1, <4>3 DEF HeadInv
      <4> QED
        BY <4>2, <4>3
    <3>4. ASSUME NEW x \in Sessions, live'[x], codeUsed'[x] PROVE Heads(x)' # {}
      <4>1. CASE x = sess[r]
        <5>1. q \in Heads(x)'
          BY <4>1, <2>2 DEF Heads, Family, Usable
        <5> QED
          BY <5>1
      <4>2. CASE x # sess[r]
        <5>1. live[x] /\ codeUsed[x]
          BY <1>13, <3>4 DEF CommitRotation
        <5>2. PICK h \in issued : token[h].session = x /\ Usable(h)
          BY <5>1 DEF HeadInv, Heads, Family
        <5>3. h \in Heads(x)'
          BY <5>2, <4>2, <2>1, <2>2 DEF Heads, Family, Usable, TypeOK
        <5> QED
          BY <5>3
      <4> QED
        BY <4>1, <4>2
    <3> QED
      BY <3>3, <3>4 DEF HeadInv
  <2>8. CaughtSessionEnded'
    BY <1>13 DEF CommitRotation, CaughtSessionEnded
  <2> QED
    BY <2>3, <2>4, <2>6, <2>7, <2>8
<1>14. ASSUME NEW r \in Requests, CommitRevoke(r) PROVE IInv'
  <2>1. /\ sess[r] \in Sessions /\ ~live[sess[r]]
        /\ \A p \in seen[r] : /\ p \in issued /\ token[p].session = sess[r]
                              /\ token[p].revoked \/ lock[p] = r
    <3>1. pc[r] = "commit_revoke" /\ Holder(r)
      BY <1>14 DEF CommitRevoke, HolderInv
    <3>2. seen[r] \subseteq Family(sess[r])
      BY <3>1 DEF Holder, Revoking
    <3> QED
      BY <3>1, <3>2 DEF Holder, Family
  <2>2. /\ token' \in [Pairs -> Rows]
        /\ \A p \in Pairs \ seen[r] : token'[p] = token[p]
        /\ \A p \in seen[r] :
              /\ token'[p].session = token[p].session /\ token'[p].used = token[p].used
              /\ token'[p].revoked /\ token'[p].next = token[p].next
              /\ token'[p].retry = token[p].retry /\ token'[p].scope = token[p].scope
    <3>1. \A p \in seen[r] : token'[p] = [token[p] EXCEPT !.revoked = TRUE, !.accessRevoked = TRUE]
                             /\ token[p] \in Rows
      BY <1>14, <2>1 DEF CommitRevoke, TypeOK
    <3>2. \A p \in Pairs \ seen[r] : token'[p] = token[p] /\ token[p] \in Rows
      BY <1>14 DEF CommitRevoke, TypeOK
    <3>3. token' = [p \in Pairs |-> token'[p]]
      BY <1>14 DEF CommitRevoke
    <3>4. \A p \in Pairs : token'[p] \in Rows
      BY <3>1, <3>2, RevokedRow
    <3>5. token' \in [Pairs -> Rows]
      BY <3>3, <3>4
    <3>6. ASSUME NEW p \in seen[r]
          PROVE  /\ token'[p].session = token[p].session /\ token'[p].used = token[p].used
                 /\ token'[p].revoked /\ token'[p].next = token[p].next
                 /\ token'[p].retry = token[p].retry /\ token'[p].scope = token[p].scope
      <4>1. /\ token[p] \in Rows
            /\ token'[p] = [token[p] EXCEPT !.revoked = TRUE, !.accessRevoked = TRUE]
        BY <3>1
      <4> QED
        BY <4>1, RevokedRow
    <3> QED
      BY <3>2, <3>5, <3>6
  <2>3. TypeOK'
    <3>1. caught' \subseteq Sessions /\ UNCHANGED <<codeUsed, grant, issued, live>> /\ End(r)
      BY <1>14, <2>1 DEF CommitRevoke, TypeOK
    <3> QED
      BY <2>2, <3>1, EndReleases DEF TypeOK
  <2>4. RowInv'
    <3>1. \A p \in Pairs :
             /\ token'[p].session = token[p].session /\ token'[p].used = token[p].used
             /\ token[p].revoked => token'[p].revoked
             /\ token'[p].next = token[p].next
             /\ token'[p].retry = token[p].retry /\ token'[p].scope = token[p].scope
             /\ p \notin issued => token'[p] = token[p] /\ (lock[p] = NoOne => lock'[p] = NoOne)
      BY <1>14, <2>1, <2>2, EndReleases DEF CommitRevoke
    <3>2. UNCHANGED <<issued, codeUsed, grant>>
      BY <1>14 DEF CommitRevoke
    <3>3. ASSUME NEW p \in Pairs PROVE Row(p)'
      <4>1. token[p].used => token[p].next \in Pairs
        BY DEF RowInv, Row, TypeOK
      <4> QED
        <5>1. Row(p)
          BY DEF RowInv
        <5>2. p \notin issued => lock'[p] = NoOne /\ token'[p] = NoRow
          BY <5>1, <3>1 DEF Row
        <5>3. token[p].used => /\ token'[token[p].next].session = token[token[p].next].session
                               /\ token'[token[p].next].scope = token[token[p].next].scope
          BY <3>1, <4>1
        <5> HIDE DEF NoRow
        <5> QED
          BY <5>1, <5>2, <5>3, <3>1, <3>2 DEF Row
    <3> QED
      BY <3>3 DEF RowInv
  <2>5. ASSUME NEW q \in Requests \ {r} PROVE Holder(q)'
    <3>1. /\ Holder(q) /\ issued \subseteq issued'
          /\ pc'[q] = pc[q] /\ kind'[q] = kind[q] /\ tok'[q] = tok[q]
          /\ sess'[q] = sess[q] /\ seen'[q] = seen[q]
      BY <1>14, EndReleases DEF HolderInv, CommitRevoke
    <3>2. \A s \in Sessions : /\ codeLock[s] = q => codeLock'[s] = q /\ codeUsed'[s] = codeUsed[s]
                              /\ live'[s] => live[s]
      BY <1>14, EndReleases DEF CommitRevoke
    <3>3. \A p \in issued :
             /\ token'[p].session = token[p].session
             /\ token[p].used => token'[p].used /\ token'[p].next = token[p].next
             /\ token[p].revoked => token'[p].revoked
             /\ lock[p] = q => /\ lock'[p] = q
                               /\ Usable(p) => ~token'[p].used /\ ~token'[p].revoked
      <4> SUFFICES ASSUME NEW p \in issued
                   PROVE  /\ token'[p].session = token[p].session
                          /\ token[p].used => token'[p].used /\ token'[p].next = token[p].next
                          /\ token[p].revoked => token'[p].revoked
                          /\ lock[p] = q => /\ lock'[p] = q
                                            /\ Usable(p) => ~token'[p].used /\ ~token'[p].revoked
        OBVIOUS
      <4>1. lock[p] = q => lock'[p] = q
        <5>1. End(r) /\ p \in Pairs
          BY <1>14 DEF CommitRevoke, TypeOK
        <5> QED
          BY <5>1, EndReleases
      <4>2. CASE p \in seen[r]
        BY <2>1, <2>2, <4>1, <4>2 DEF Usable
      <4>3. CASE p \notin seen[r]
        BY <2>2, <4>1, <4>3 DEF Usable, TypeOK
      <4> QED
        BY <4>2, <4>3
    <3> QED
      BY <3>1, <3>2, <3>3, HolderFrame
  <2>6. HolderInv'
    <3>1. Holder(r)'
      BY <1>14, EndReleases DEF CommitRevoke, Holder, Rotating, Revoking
    <3> QED
      BY <3>1, <2>5 DEF HolderInv
  <2>7. HeadInv'
    <3>1. UNCHANGED <<issued, codeUsed, live>> /\ issued \subseteq Pairs
      BY <1>14 DEF CommitRevoke, TypeOK
    <3>2. \A p \in issued : token'[p].session = token[p].session /\ token'[p].used = token[p].used
      BY <2>2, <3>1
    <3>3. ASSUME NEW x \in Sessions, live'[x], codeUsed'[x] PROVE Heads(x)' # {}
      <4>1. PICK h \in issued : token[h].session = x /\ Usable(h)
        BY <3>1, <3>3 DEF HeadInv, Heads, Family
      <4>2. h \notin seen[r]
        BY <2>1, <3>1, <3>3, <4>1
      <4>3. h \in Heads(x)'
        BY <2>2, <3>1, <4>1, <4>2 DEF Heads, Family, Usable
      <4> QED
        BY <4>3
    <3> QED
      BY <3>1, <3>2, <3>3 DEF HeadInv
  <2>8. CaughtSessionEnded'
    BY <1>14, <2>1 DEF CommitRevoke, CaughtSessionEnded
  <2> QED
    BY <2>3, <2>4, <2>6, <2>7, <2>8
<1>15. ASSUME NEW x \in Sessions, EndSession(x) PROVE IInv'
  <2>1. TypeOK' /\ RowInv'
    BY <1>15 DEF EndSession, TypeOK, RowInv, Row, rows, locks, locals
  <2>2. \A y \in Sessions : live'[y] => live[y]
    BY <1>15 DEF EndSession, TypeOK
  <2>3. HeadInv' /\ CaughtSessionEnded'
    BY <1>15, <2>2, HeadFrame DEF EndSession, TypeOK
  <2>4. HolderInv'
    BY <1>15, <2>2 DEF EndSession, HolderInv, Holder, Rotating, Revoking, Family, Usable, TypeOK,
       rows, locks, locals
  <2> QED
    BY <2>1, <2>3, <2>4
<1>16. ASSUME NEW x \in Pairs, RevokeAccess(x) \/ CloseRetry(x) PROVE IInv'
  <2>1. /\ token' \in [Pairs -> Rows]
        /\ \A p \in Pairs :
              /\ token'[p].session = token[p].session /\ token'[p].used = token[p].used
              /\ token'[p].revoked = token[p].revoked /\ token'[p].next = token[p].next
              /\ token'[p].scope = token[p].scope /\ (token'[p].retry => token[p].retry)
              /\ p \notin issued => token'[p] = token[p]
    <3>1. token' \in [Pairs -> Rows] /\ \A p \in Pairs \ {x} : token'[p] = token[p]
      BY <1>16, SideRow DEF RevokeAccess, CloseRetry, TypeOK
    <3>2. token'[x] = [token[x] EXCEPT !.accessRevoked = TRUE] \/ token'[x] = [token[x] EXCEPT !.retry = FALSE]
      BY <1>16 DEF RevokeAccess, CloseRetry, TypeOK
    <3>3. x \in issued
      BY <1>16 DEF RevokeAccess, CloseRetry, RowInv, Row, NoRow
    <3> QED
      BY <3>1, <3>2, <3>3, SideRow DEF TypeOK
  <2>2. UNCHANGED <<codeUsed, grant, issued, locks, live, pc, locals, caught>>
    BY <1>16 DEF RevokeAccess, CloseRetry
  <2>3. TypeOK' /\ CaughtSessionEnded'
    BY <2>1, <2>2 DEF TypeOK, CaughtSessionEnded, locks, locals
  <2>4. RowInv'
    <3>1. ASSUME NEW p \in Pairs PROVE Row(p)'
      <4>1. token[p].used => token[p].next \in Pairs
        BY DEF RowInv, Row, TypeOK
      <4> QED
        BY <2>1, <2>2, <4>1 DEF RowInv, Row, NoRow, locks
    <3> QED
      BY <3>1 DEF RowInv
  <2>5. HolderInv'
    <3>1. ASSUME NEW q \in Requests PROVE Holder(q)'
      <4>1. Holder(q)
        BY DEF HolderInv
      <4>2. \A p \in issued :
               /\ token'[p].session = token[p].session
               /\ token[p].used => token'[p].used /\ token'[p].next = token[p].next
               /\ token[p].revoked => token'[p].revoked
               /\ lock[p] = q => /\ lock'[p] = q
                                 /\ Usable(p) => ~token'[p].used /\ ~token'[p].revoked
        BY <2>1, <2>2 DEF TypeOK, Usable, locks
      <4> QED
        BY <2>2, <4>1, <4>2, HolderFrame DEF locks, locals
    <3> QED
      BY <3>1 DEF HolderInv
  <2>6. HeadInv'
    <3>1. \A p \in issued : /\ token'[p].session = token[p].session /\ token'[p].used = token[p].used
                            /\ token'[p].revoked = token[p].revoked
      BY <2>1 DEF TypeOK
    <3>2. \A y \in Sessions : Heads(y)' = Heads(y)
      BY <2>2, <3>1 DEF Heads, Family, Usable
    <3> QED
      BY <2>2, <3>1, <3>2 DEF HeadInv
  <2> QED
    BY <2>3, <2>4, <2>5, <2>6
<1>17. CASE UNCHANGED vars
  <2>1. TypeOK' /\ RowInv' /\ HeadInv' /\ CaughtSessionEnded'
    BY <1>17 DEF TypeOK, RowInv, Row, HeadInv, Heads, Family, Usable, CaughtSessionEnded, vars, rows,
       locks, locals
  <2>2. HolderInv'
    BY <1>17 DEF HolderInv, Holder, Rotating, Revoking, Family, Usable, vars, rows, locks, locals
  <2> QED
    BY <2>1, <2>2
<1> QED
  BY <1>1, <1>2, <1>3, <1>4, <1>5, <1>6, <1>7, <1>8, <1>9, <1>10, <1>11, <1>12, <1>13, <1>14, <1>15, <1>16, <1>17
  DEF Next, Waiting, Step, Environment

\* The invariant holds in every reachable state.
THEOREM GrantInvariance == Spec => []IInv
<1>1. Init => IInv
  <2> SUFFICES ASSUME Init PROVE IInv
    OBVIOUS
  <2> USE DEF Init
  <2>1. TypeOK
    BY DEF TypeOK, Steps, Rows, NoRow
  <2>2. RowInv
    BY DEF RowInv, Row, NoRow
  <2>3. HolderInv
    BY DEF HolderInv, Holder, Rotating, Revoking
  <2>4. HeadInv /\ CaughtSessionEnded
    BY DEF HeadInv, CaughtSessionEnded
  <2> QED
    BY <2>1, <2>2, <2>3, <2>4 DEF IInv
<1> QED
  BY <1>1, IInvNext, PTL DEF Spec

-----------------------------------------------------------------------------
(* The theorems                                                            *)

\* Every variable keeps its type: rows, row locks and the locals of the
\* token, revocation and verification requests.
THEOREM GrantTypes == Spec => []TypeOK
<1>1. IInv => TypeOK
  BY DEF IInv
<1> QED
  BY <1>1, GrantInvariance, PTL

\* Parallel, repeated and aborted refreshes never fork a chain of tokens,
\* and never spend its end while the account session is live.
THEOREM OneHead == Spec => []ChainHasOneHead
<1>1. IInv => ChainHasOneHead
  <2> SUFFICES ASSUME IInv, NEW s \in Sessions
               PROVE  /\ \A p, q \in Heads(s) : p = q
                      /\ live[s] /\ codeUsed[s] => Heads(s) # {}
    BY DEF ChainHasOneHead
  <2> QED
    BY DEF IInv, HeadInv, Heads, Family, Usable
<1> QED
  BY <1>1, GrantInvariance, PTL

\* Reuse is reported to a client only once the account session is over.
THEOREM ReuseEndsSession == Spec => []CaughtSessionEnded
<1>1. IInv => CaughtSessionEnded
  BY DEF IInv
<1> QED
  BY <1>1, GrantInvariance, PTL

\* The pair a retry answers with is nobody's spent or revoked pair.
THEOREM RetriesAnswerUnused == Spec => []RetryAnswersUnused
<1>1. IInv => RetryAnswersUnused
  BY DEF IInv, HolderInv, Holder, RetryAnswersUnused
<1> QED
  BY <1>1, GrantInvariance, PTL

\* A rotation works on a usable token from its check to its commit.
THEOREM RotationsUsable == Spec => []RotatesOnlyUsable
<1>1. IInv => RotatesOnlyUsable
  BY DEF IInv, HolderInv, Holder, Rotating, RotatesOnlyUsable
<1> QED
  BY <1>1, GrantInvariance, PTL

\* No chain of rotations grants more than the person consented to.
THEOREM ScopesNarrow == Spec => []ScopeOnlyNarrows
<1>1. IInv => ScopeOnlyNarrows
  <2> SUFFICES ASSUME IInv, NEW p \in issued
               PROVE  /\ token[p].scope \subseteq grant[token[p].session]
                      /\ token[p].next # NoPair =>
                           token[token[p].next].scope \subseteq token[p].scope
    BY DEF ScopeOnlyNarrows
  <2>1. Row(p)
    BY DEF IInv, RowInv, TypeOK
  <2> QED
    BY <2>1 DEF Row
<1> QED
  BY <1>1, GrantInvariance, PTL

-----------------------------------------------------------------------------
(* The use of the account session                                          *)

\* What a request has asked an account session for.
LEMMA CallOf ==
  ASSUME NEW s, NEW r \in Requests
  PROVE  Call(s)[r] = IF sess[r] # s THEN "idle"
                      ELSE IF pc[r] = "granting" THEN "asked"
                      ELSE IF pc[r] \in {"issue", "served"} THEN "granted" ELSE "idle"
  BY DEF Call

\* A step of a request after which it has nothing of its account session,
\* whether or not the session ends, is allowed by the contract.
LEMMA Ending ==
  ASSUME NEW s \in Sessions, NEW r \in Requests, live'[s] = live[s] \/ live'[s] = FALSE,
         sess'[r] = s => pc'[r] \notin {"granting", "issue", "served"},
         \A q \in Requests \ {r} : pc'[q] = pc[q] /\ sess'[q] = sess[q]
  PROVE  Account(s)!Next
<1>1. Call(s)' = [q \in Requests |-> IF q \in {r} THEN "idle" ELSE Call(s)[q]]
  BY DEF Call
<1>2. Account(s)!End({r})
  BY <1>1 DEF Account!End
<1> QED
  BY <1>2 DEF Account!Next

\* A step that moves no request asks nothing; the session may end in it.
LEMMA Outside ==
  ASSUME NEW s \in Sessions, live'[s] = live[s] \/ live'[s] = FALSE, UNCHANGED <<pc, sess>>
  PROVE  Account(s)!Next
<1>1. Call(s)' = [q \in Requests |-> IF q \in {} THEN "idle" ELSE Call(s)[q]]
  BY DEF Call
<1>2. Account(s)!End({})
  BY <1>1 DEF Account!End
<1> QED
  BY <1>2 DEF Account!Next

\* Every step keeps the contract of every account session.
LEMMA ContractStep ==
  ASSUME IInv, NEW s \in Sessions, [Next]_vars
  PROVE  Account(s)!Next \/ UNCHANGED Account(s)!vars
<1> USE DEF IInv, TypeOK
<1>1. ASSUME NEW r \in Requests, Start(r) PROVE Account(s)!Next
  <2>1. \E what, p, t, step : /\ Begin(r, what, p, t, step)
                               /\ step \in {"lock_code", "lock_token", "snapshot", "ask"}
    BY <1>1 DEF Start, Exchange, Present, Revoke, Verify
  <2>2. /\ live' = live /\ pc'[r] \notin {"granting", "issue", "served"}
        /\ \A q \in Requests \ {r} : pc'[q] = pc[q] /\ sess'[q] = sess[q]
    BY <2>1 DEF Begin, Goto
  <2> QED
    BY <2>2, Ending
<1>2. ASSUME NEW r \in Requests, End(r), live' = live PROVE Account(s)!Next
  BY <1>2, EndReleases, Ending
<1>3. ASSUME NEW r \in Requests, Waiting(r) PROVE Account(s)!Next
  <2>1. CASE Refuse(r)
    BY <2>1, <1>2 DEF Refuse
  <2>2. CASE ~Refuse(r)
    BY <1>3, <2>2, Ending
    DEF Waiting, LockCode, LockToken, LockSuccessor, Update, Goto, locals
  <2> QED
    BY <2>1, <2>2
<1>4. ASSUME NEW r \in Requests, AskContext(r) PROVE Account(s)!Next
  <2>1. CASE Refuse(r)
    BY <2>1, <1>2 DEF Refuse
  <2>2. CASE ~Refuse(r) /\ sess[r] = s
    <3>1. Call(s)[r] = "idle" /\ live[s] = TRUE /\ live' = live
      BY <1>4, <2>2, CallOf DEF AskContext
    <3>2. Call(s)' = [Call(s) EXCEPT ![r] = "asked"]
      BY <1>4, <2>2 DEF AskContext, Call, Goto, locals
    <3> QED
      BY <3>1, <3>2 DEF Account!Next, Account!Ask
  <2>3. CASE ~Refuse(r) /\ sess[r] # s
    BY <1>4, <2>3, Ending DEF AskContext, Goto, locals
  <2> QED
    BY <2>1, <2>2, <2>3
<1>5. ASSUME NEW r \in Requests, Granted(r) PROVE Account(s)!Next
  <2>1. CASE Refuse(r)
    BY <2>1, <1>2 DEF Refuse
  <2>2. CASE ~Refuse(r) /\ sess[r] = s
    <3>1. Call(s)[r] = "asked" /\ live[s] = TRUE /\ live' = live
      BY <1>5, <2>2, CallOf DEF Granted
    <3>2. Call(s)' = [Call(s) EXCEPT ![r] = "granted"]
      BY <1>5, <2>2 DEF Granted, Call, Goto, locals
    <3> QED
      BY <3>1, <3>2 DEF Account!Next, Account!Grant
  <2>3. CASE ~Refuse(r) /\ sess[r] # s
    BY <1>5, <2>3, Ending DEF Granted, Goto, locals
  <2> QED
    BY <2>1, <2>2, <2>3
<1>6. ASSUME NEW r \in Requests, Unavailable(r) \/ AnswerRetry(r) \/ Serve(r) \/ Abort(r)
      PROVE Account(s)!Next
  <2>1. CASE Refuse(r)
    BY <2>1, <1>2 DEF Refuse
  <2>2. CASE ~Refuse(r)
    BY <1>6, <2>2, Ending DEF Unavailable, AnswerRetry, Serve, Abort, Goto
  <2> QED
    BY <2>1, <2>2
<1>7. ASSUME NEW r \in Requests, CommitCode(r) \/ CommitRotation(r) \/ CommitRevoke(r)
      PROVE Account(s)!Next
  BY <1>2, <1>7 DEF CommitCode, CommitRotation, CommitRevoke
<1>8. ASSUME NEW r \in Requests, BeginUpdate(r) \/ Logout(r) PROVE Account(s)!Next
  BY <1>8, Ending DEF BeginUpdate, Logout, Goto, locals
<1>9. CASE Environment
  BY <1>9, Outside DEF Environment, EndSession, RevokeAccess, CloseRetry, locals
<1>10. CASE UNCHANGED vars
  <2>1. Call(s)' = Call(s) /\ live'[s] = live[s]
    BY <1>10 DEF vars, locals, Call
  <2> QED
    BY <2>1 DEF Account!vars
<1> QED
  BY <1>1, <1>3, <1>4, <1>5, <1>6, <1>7, <1>8, <1>9, <1>10 DEF Next, Step

\* A pair is rotated and a request served only for an account session that
\* was confirmed live during that request: the gateway's OAuth server uses
\* every account session as SessionContract allows.
THEOREM GrantsKeepContract == Spec => KeepsSessionContract
<1>1. IInv /\ [Next]_vars =>
        [\A s \in Sessions : Account(s)!Next \/ UNCHANGED Account(s)!vars]_vars
  BY ContractStep
<1> QED
  BY <1>1, GrantInvariance, PTL DEF Spec, KeepsSessionContract

-----------------------------------------------------------------------------
(* Waiting                                                                 *)

\* The rows a request holds while it waits for another one.
Queue(r) ==
    /\ pc[r] \in {"idle", "lock_code", "lock_token", "issue_code"} => \A p \in Pairs : lock[p] # r
    /\ pc[r] = "lock_next" => \A p \in Pairs : lock[p] = r => p = tok[r]
    /\ pc[r] \in {"snapshot", "update"} => \A p \in Pairs : lock[p] = r => token[p].revoked
    /\ pc[r] \notin {"issue_code", "snapshot", "update", "logout", "commit_revoke"} =>
          \A s \in Sessions : codeLock[s] # r

\* No set of pairs is closed under rotation: chains have ends, not circles.
ChainEnds == \A C \in (SUBSET Pairs) \ {{}} : \E p \in C : token[p].next \notin C

QueueInv == (\A r \in Requests : Queue(r)) /\ ChainEnds

\* A request that does not move takes no row.
LEMMA QueueFrame ==
  ASSUME NEW q \in Requests, Queue(q), pc'[q] = pc[q], tok'[q] = tok[q],
         \A p \in Pairs : lock'[p] = q => lock[p] = q,
         \A s \in Sessions : codeLock'[s] = q => codeLock[s] = q,
         \A p \in Pairs : token[p].revoked => token'[p].revoked
  PROVE  Queue(q)'
  BY DEF Queue

\* The other requests when one of them ends its transaction.
LEMMA QueueEnd ==
  ASSUME TypeOK, \A q \in Requests : Queue(q), NEW r \in Requests, End(r),
         \A p \in Pairs : token[p].revoked => token'[p].revoked
  PROVE  \A q \in Requests : Queue(q)'
<1>1. Queue(r)'
  BY NoOneAssumption, EndReleases DEF Queue
<1>2. ASSUME NEW q \in Requests \ {r} PROVE Queue(q)'
  <2>1. /\ Queue(q) /\ pc'[q] = pc[q] /\ tok'[q] = tok[q]
        /\ \A p \in Pairs : lock'[p] = q => lock[p] = q
        /\ \A s \in Sessions : codeLock'[s] = q => codeLock[s] = q
    BY NoOneAssumption, EndReleases
  <2> QED
    BY <2>1, QueueFrame
<1> QED
  BY <1>1, <1>2

\* The other requests when one of them moves on without writing.
LEMMA QueueMove ==
  ASSUME \A q \in Requests : Queue(q), NEW r \in Requests, UNCHANGED token, Queue(r)',
         \A q \in Requests \ {r} :
             /\ pc'[q] = pc[q] /\ tok'[q] = tok[q]
             /\ \A p \in Pairs : lock'[p] = q => lock[p] = q
             /\ \A s \in Sessions : codeLock'[s] = q => codeLock[s] = q
  PROVE  \A q \in Requests : Queue(q)'
<1>1. ASSUME NEW q \in Requests \ {r} PROVE Queue(q)'
  BY QueueFrame
<1> QED
  BY <1>1

\* Rotation appends to a chain: it closes no circle.
LEMMA ChainEndsNext ==
  ASSUME IInv, ChainEnds, [Next]_vars
  PROVE  ChainEnds'
<1> USE NoPairAssumption DEF IInv, TypeOK
<1>1. CASE \A p \in Pairs : token'[p].next = token[p].next
  BY <1>1 DEF ChainEnds
<1>2. CASE \E q \in Pairs \ issued, t \in Pairs :
              /\ token'[q].next = NoPair
              /\ token'[t].next \in {q, token[t].next}
              /\ \A p \in Pairs \ {q, t} : token'[p].next = token[p].next
  <2> PICK q \in Pairs \ issued, t \in Pairs :
              /\ token'[q].next = NoPair
              /\ token'[t].next \in {q, token[t].next}
              /\ \A p \in Pairs \ {q, t} : token'[p].next = token[p].next
    BY <1>2
  <2> SUFFICES ASSUME NEW C \in (SUBSET Pairs) \ {{}} PROVE \E p \in C : token'[p].next \notin C
    BY DEF ChainEnds
  <2>1. CASE q \in C
    BY <2>1
  <2>2. CASE q \notin C
    <3>1. PICK p \in C : token[p].next \notin C
      BY DEF ChainEnds
    <3> QED
      BY <2>2, <3>1
  <2> QED
    BY <2>1, <2>2
<1>3. ASSUME NEW r \in Requests, CommitCode(r) PROVE ChainEnds'
  <2> PICK q \in Pairs \ issued : token' = [token EXCEPT ![q] = NewPair(q, sess[r], grant[sess[r]])]
    BY <1>3 DEF CommitCode
  <2>1. token'[q].next = NoPair /\ \A p \in Pairs \ {q} : token'[p].next = token[p].next
    BY DEF NewPair
  <2>2. token[q].next = NoPair
    BY DEF RowInv, Row, NoRow
  <2> QED
    BY <1>2, <2>1, <2>2
<1>4. ASSUME NEW r \in Requests, CommitRotation(r) PROVE ChainEnds'
  <2> PICK q \in Pairs \ issued, S \in SUBSET token[tok[r]].scope :
         token' = [token EXCEPT ![q] = NewPair(q, sess[r], S),
                         ![tok[r]] = [@ EXCEPT !.used = TRUE, !.revoked = TRUE,
                                               !.next = q, !.retry = TRUE]]
    BY <1>4 DEF CommitRotation
  <2>1. tok[r] \in Pairs /\ tok[r] # q
    BY <1>4 DEF CommitRotation, HolderInv, Holder, Rotating
  <2>2. /\ token'[q].next = NoPair /\ \A p \in Pairs \ {q, tok[r]} : token'[p].next = token[p].next
    BY <2>1 DEF NewPair
  <2>3. token'[tok[r]].next = q
    BY <2>1 DEF Rows
  <2> QED
    BY <1>2, <2>1, <2>2, <2>3
<1>5. ASSUME NEW r \in Requests, CommitRevoke(r) PROVE ChainEnds'
  <2>1. \A p \in Pairs : token'[p].next = token[p].next
    BY <1>5, RevokedRow DEF CommitRevoke
  <2> QED
    BY <1>1, <2>1
<1>6. ASSUME NEW p \in Pairs, RevokeAccess(p) \/ CloseRetry(p) PROVE ChainEnds'
  <2>1. \A q \in Pairs : token'[q].next = token[q].next
    BY <1>6, SideRow DEF RevokeAccess, CloseRetry
  <2> QED
    BY <1>1, <2>1
<1>7. CASE UNCHANGED token
  BY <1>1, <1>7
<1>8. ASSUME NEW r \in Requests,
             Start(r) \/ Waiting(r) \/ AnswerRetry(r) \/ AskContext(r) \/ Granted(r) \/ Unavailable(r)
               \/ BeginUpdate(r) \/ Logout(r) \/ Serve(r) \/ Abort(r)
      PROVE UNCHANGED token
  BY <1>8 DEF Start, Exchange, Present, Revoke, Verify, Begin, Waiting, LockCode, LockToken,
     LockSuccessor, Update, AnswerRetry, AskContext, Granted, Unavailable, BeginUpdate, Logout, Serve,
     Abort, Refuse, rows
<1>9. (\E x \in Sessions : EndSession(x)) \/ UNCHANGED vars => UNCHANGED token
  BY DEF EndSession, vars, rows
<1> QED
  BY <1>3, <1>4, <1>5, <1>6, <1>7, <1>8, <1>9 DEF Next, Step, Environment

\* No step breaks the rule of who holds what while waiting.
LEMMA QueueNext ==
  ASSUME IInv, QueueInv, [Next]_vars
  PROVE  QueueInv'
<1> USE NoOneAssumption DEF IInv, QueueInv
<1>1. \A p \in Pairs : token[p].used => token[p].revoked
  BY DEF RowInv, Row
<1> SUFFICES \A q \in Requests : Queue(q)'
  BY ChainEndsNext
<1>2. ASSUME NEW r \in Requests, End(r), UNCHANGED token PROVE \A q \in Requests : Queue(q)'
  BY <1>2, QueueEnd
<1>3. ASSUME NEW r \in Requests, Start(r) PROVE \A q \in Requests : Queue(q)'
  <2>1. /\ pc[r] = "idle" /\ pc'[r] \in {"lock_code", "lock_token", "snapshot", "ask"}
        /\ UNCHANGED <<token, lock, codeLock>>
        /\ \A q \in Requests \ {r} : pc'[q] = pc[q] /\ tok'[q] = tok[q]
    BY <1>3 DEF Start, Exchange, Present, Revoke, Verify, Begin, Goto, rows, locks, TypeOK
  <2>2. Queue(r)'
    BY <2>1 DEF Queue
  <2> QED
    BY <2>1, <2>2, QueueMove
<1>4. ASSUME NEW r \in Requests, LockCode(r) PROVE \A q \in Requests : Queue(q)'
  <2>1. CASE Refuse(r)
    BY <1>2, <2>1 DEF Refuse, rows
  <2>2. CASE ~Refuse(r)
    <3>1. /\ pc[r] = "lock_code" /\ pc'[r] \in {"issue_code", "snapshot"}
          /\ UNCHANGED <<token, lock, tok>>
          /\ \A s \in Sessions : codeLock'[s] \in {codeLock[s], r}
          /\ \A q \in Requests \ {r} : pc'[q] = pc[q]
      BY <1>4, <2>2 DEF LockCode, Goto, rows, locals, TypeOK
    <3>2. Queue(r)'
      BY <3>1 DEF Queue
    <3> QED
      BY <3>1, <3>2, QueueMove
  <2> QED
    BY <2>1, <2>2
<1>5. ASSUME NEW r \in Requests, LockToken(r) PROVE \A q \in Requests : Queue(q)'
  <2>1. CASE Refuse(r)
    BY <1>2, <2>1 DEF Refuse, rows
  <2>2. CASE ~Refuse(r)
    <3>1. /\ pc[r] = "lock_token" /\ pc'[r] \in {"ask", "lock_next", "snapshot"}
          /\ UNCHANGED <<token, codeLock, tok>>
          /\ \A p \in Pairs : lock'[p] = IF p = tok[r] THEN r ELSE lock[p]
          /\ \A q \in Requests \ {r} : pc'[q] = pc[q]
      BY <1>5, <2>2 DEF LockToken, Goto, rows, locals, TypeOK
    <3>2. pc'[r] = "snapshot" => token[tok[r]].used
      BY <1>5, <2>2 DEF LockToken, Goto, TypeOK
    <3>3. tok[r] \in Pairs
      BY <3>1 DEF HolderInv, Holder, TypeOK
    <3>4. Queue(r)'
      BY <1>1, <3>1, <3>2, <3>3 DEF Queue
    <3> QED
      BY <3>1, <3>4, QueueMove
  <2> QED
    BY <2>1, <2>2
<1>6. ASSUME NEW r \in Requests, LockSuccessor(r) PROVE \A q \in Requests : Queue(q)'
  <2> DEFINE q == token[tok[r]].next
  <2>1. /\ pc[r] = "lock_next" /\ pc'[r] = IF Usable(q) THEN "retry" ELSE "snapshot"
        /\ UNCHANGED <<token, codeLock, tok>>
        /\ \A p \in Pairs : lock'[p] = IF p = q THEN r ELSE lock[p]
        /\ \A x \in Requests \ {r} : pc'[x] = pc[x]
    BY <1>6 DEF LockSuccessor, Goto, rows, locals, TypeOK
  <2>2. token[tok[r]].used /\ tok[r] \in Pairs /\ q \in Pairs
    BY <2>1 DEF HolderInv, Holder, TypeOK, RowInv, Row
  <2>3. Queue(r)'
    BY <1>1, <2>1, <2>2 DEF Queue, Usable
  <2> QED
    BY <2>1, <2>3, QueueMove
<1>7. ASSUME NEW r \in Requests, Update(r) PROVE \A q \in Requests : Queue(q)'
  <2>1. /\ pc[r] = "update" /\ pc'[r] = "logout" /\ UNCHANGED <<token, codeLock, tok>>
        /\ \A p \in Pairs : lock'[p] \in {lock[p], r}
        /\ \A q \in Requests \ {r} : pc'[q] = pc[q]
    BY <1>7 DEF Update, Goto, rows, locals, TypeOK
  <2>2. Queue(r)'
    BY <2>1 DEF Queue
  <2> QED
    BY <2>1, <2>2, QueueMove
<1>8. ASSUME NEW r \in Requests, AskContext(r) \/ Granted(r) \/ Unavailable(r)
      PROVE \A q \in Requests : Queue(q)'
  <2>1. CASE Refuse(r)
    BY <1>2, <2>1 DEF Refuse, rows
  <2>2. CASE ~Refuse(r)
    <3>1. /\ pc[r] \in {"ask", "granting"} /\ pc'[r] \in {"ask", "granting", "issue", "served"}
          /\ UNCHANGED <<token, lock, codeLock, tok>>
          /\ \A q \in Requests \ {r} : pc'[q] = pc[q]
      BY <1>8, <2>2 DEF AskContext, Granted, Unavailable, Goto, rows, locks, locals, TypeOK
    <3>2. Queue(r)'
      BY <3>1 DEF Queue
    <3> QED
      BY <3>1, <3>2, QueueMove
  <2> QED
    BY <2>1, <2>2
<1>9. ASSUME NEW r \in Requests, AnswerRetry(r) \/ Serve(r) \/ Abort(r)
      PROVE \A q \in Requests : Queue(q)'
  BY <1>2, <1>9 DEF AnswerRetry, Serve, Abort, Refuse, rows
<1>10. ASSUME NEW r \in Requests, BeginUpdate(r) \/ Logout(r)
       PROVE \A q \in Requests : Queue(q)'
  <2>1. /\ <<pc[r], pc'[r]>> \in {<<"snapshot", "update">>, <<"logout", "commit_revoke">>}
        /\ UNCHANGED <<token, lock, codeLock, tok>>
        /\ \A q \in Requests \ {r} : pc'[q] = pc[q]
    BY <1>10 DEF BeginUpdate, Logout, Goto, rows, locks, locals, TypeOK
  <2>2. Queue(r)'
    BY <2>1 DEF Queue
  <2> QED
    BY <2>1, <2>2, QueueMove
<1>11. ASSUME NEW r \in Requests, CommitCode(r) PROVE \A q \in Requests : Queue(q)'
  <2>1. PICK q \in Pairs \ issued : token' = [token EXCEPT ![q] = NewPair(q, sess[r], grant[sess[r]])]
    BY <1>11 DEF CommitCode
  <2>2. ~token[q].revoked
    BY DEF RowInv, Row, NoRow
  <2>3. \A p \in Pairs : token[p].revoked => token'[p].revoked
    BY <2>1, <2>2 DEF TypeOK
  <2> QED
    BY <1>11, <2>3, QueueEnd DEF CommitCode
<1>12. ASSUME NEW r \in Requests, CommitRotation(r) PROVE \A q \in Requests : Queue(q)'
  <2> PICK q \in Pairs \ issued, S \in SUBSET token[tok[r]].scope :
         token' = [token EXCEPT ![q] = NewPair(q, sess[r], S),
                         ![tok[r]] = [@ EXCEPT !.used = TRUE, !.revoked = TRUE,
                                               !.next = q, !.retry = TRUE]]
    BY <1>12 DEF CommitRotation
  <2>1. ~token[q].revoked /\ ~token[tok[r]].revoked /\ tok[r] \in Pairs
    BY <1>12 DEF CommitRotation, RowInv, Row, NoRow, HolderInv, Holder, Rotating, Usable, TypeOK
  <2>2. \A p \in Pairs : token[p].revoked => token'[p].revoked
    BY <2>1 DEF TypeOK
  <2> QED
    BY <1>12, <2>2, QueueEnd DEF CommitRotation
<1>13. ASSUME NEW r \in Requests, CommitRevoke(r) PROVE \A q \in Requests : Queue(q)'
  <2>1. \A p \in Pairs : token[p].revoked => token'[p].revoked
    BY <1>13, RevokedRow DEF CommitRevoke, TypeOK
  <2> QED
    BY <1>13, <2>1, QueueEnd DEF CommitRevoke
<1>14. CASE Environment \/ UNCHANGED vars
  <2>1. UNCHANGED <<pc, tok, lock, codeLock>>
    BY <1>14 DEF Environment, EndSession, RevokeAccess, CloseRetry, vars, rows, locks, locals
  <2>2. \A p \in Pairs : token'[p].revoked = token[p].revoked
    BY <1>14, SideRow DEF Environment, EndSession, RevokeAccess, CloseRetry, vars, rows, TypeOK
  <2> QED
    BY <2>1, <2>2, QueueFrame
<1> QED
  BY <1>3, <1>4, <1>5, <1>6, <1>7, <1>8, <1>9, <1>10, <1>11, <1>12, <1>13, <1>14
  DEF Next, Waiting, Step

\* Retries lock from a token to its successor and a revocation waits only
\* for the unspent end of a chain: whatever set of requests is taken, one of
\* them waits for none of the others, so the row locks never deadlock.
THEOREM NoDeadlock == Spec => []NoCircularWait
<1>1. IInv /\ QueueInv => NoCircularWait
  <2> SUFFICES ASSUME IInv, QueueInv, NEW C \in (SUBSET Requests) \ {{}},
                      \A r \in C : \E q \in C : WaitsFor(r, q)
               PROVE  FALSE
    BY DEF NoCircularWait
  <2> USE DEF IInv, QueueInv
  <2>1. \A r \in C : pc[r] \in {"lock_code", "lock_token", "lock_next", "update"}
    BY DEF WaitsFor
  <2>2. \A r \in C : pc[r] # "update"
    <3> SUFFICES ASSUME NEW r \in C, pc[r] = "update" PROVE FALSE
      OBVIOUS
    <3>1. PICK q \in C, p \in Targets(r) : lock[p] = q
      BY DEF WaitsFor
    <3>2. p \in Pairs /\ ~token[p].revoked
      BY DEF Targets, TypeOK
    <3>3. pc[q] = "lock_next" /\ p = tok[q] /\ token[p].used
      BY <2>1, <3>1, <3>2 DEF Queue, HolderInv, Holder
    <3> QED
      BY <3>2, <3>3 DEF RowInv, Row
  <2>3. \A r \in C : pc[r] # "lock_code"
    <3> SUFFICES ASSUME NEW r \in C, pc[r] = "lock_code" PROVE FALSE
      OBVIOUS
    <3>1. PICK q \in C : codeLock[sess[r]] = q
      BY DEF WaitsFor
    <3>2. sess[r] \in Sessions
      BY DEF HolderInv, Holder
    <3> QED
      BY <2>1, <2>2, <3>1, <3>2 DEF Queue
  <2>4. \A r \in C : /\ tok[r] \in Pairs
                     /\ pc[r] = "lock_next" => token[tok[r]].next \in Pairs
    BY <2>1, <2>2, <2>3 DEF HolderInv, Holder, RowInv, Row, TypeOK
  <2>5. \A r \in C : \E q \in C : /\ pc[q] = "lock_next"
                                  /\ pc[r] = "lock_next" => token[tok[r]].next = tok[q]
    <3> SUFFICES ASSUME NEW r \in C
                 PROVE  \E q \in C : /\ pc[q] = "lock_next"
                                     /\ pc[r] = "lock_next" => token[tok[r]].next = tok[q]
      OBVIOUS
    <3>1. PICK q \in C : WaitsFor(r, q)
      OBVIOUS
    <3>2. \E p \in Pairs : lock[p] = q /\ (pc[r] = "lock_next" => token[tok[r]].next = p)
      BY <2>1, <2>2, <2>3, <2>4, <3>1 DEF WaitsFor
    <3>3. pc[q] = "lock_next" /\ \A p \in Pairs : lock[p] = q => p = tok[q]
      BY <2>1, <2>2, <2>3, <3>2 DEF Queue
    <3> QED
      BY <3>2, <3>3
  <2> DEFINE T == {tok[r] : r \in {x \in C : pc[x] = "lock_next"}}
  <2>6. PICK r \in C : TRUE
    OBVIOUS
  <2>7. PICK q \in C : pc[q] = "lock_next"
    BY <2>5, <2>6
  <2>8. T \in (SUBSET Pairs) \ {{}}
    <3>1. tok[q] \in T
      BY <2>7
    <3>2. T \subseteq Pairs
      BY <2>4
    <3> QED
      BY <3>1, <3>2
  <2>9. ASSUME NEW p \in T PROVE token[p].next \in T
    <3>1. PICK x \in C : pc[x] = "lock_next" /\ p = tok[x]
      OBVIOUS
    <3>2. PICK y \in C : pc[y] = "lock_next" /\ token[tok[x]].next = tok[y]
      BY <2>5, <3>1
    <3> QED
      BY <3>1, <3>2
  <2> HIDE DEF T
  <2> QED
    BY <2>8, <2>9 DEF ChainEnds
<1>2. Init => QueueInv
  <2>1. Init => \A r \in Requests : Queue(r)
    BY NoOneAssumption DEF Init, Queue
  <2>2. Init => \A p \in Pairs : token[p].next \notin Pairs
    BY NoPairAssumption DEF Init, NoRow
  <2>3. ASSUME Init, NEW C \in (SUBSET Pairs) \ {{}} PROVE \E p \in C : token[p].next \notin C
    BY <2>2, <2>3
  <2> QED
    BY <2>1, <2>3 DEF QueueInv, ChainEnds
<1>3. QueueInv /\ IInv /\ [Next]_vars => QueueInv'
  BY QueueNext
<1> QED
  BY <1>1, <1>2, <1>3, GrantInvariance, PTL DEF Spec
=============================================================================
