------------------------ MODULE AccountSessionProofs ------------------------
(***************************************************************************)
(* Proofs about AccountSession for every set of requests and revokers.     *)
(***************************************************************************)
EXTENDS AccountSession, TLAPS

\* The lock belongs to the request inside the rotation transaction, which
\* found the session active, and nobody changes the row under it.
LockInv ==
    /\ \A r \in Requests : pc[r] \in Holding <=> lock = r
    /\ lock # NoOne => Active

\* Both tokens of the row are of one pair, one that OKK has issued, and a
\* rotation holds the next one.
PairInv ==
    /\ row.access = row.refresh /\ row.refresh >= 1 /\ row.refresh <= okk.gen
    /\ \A r \in Requests : pc[r] = "store_pair" =>
           tok[r] = row.refresh + 1 /\ tok[r] <= okk.gen

\* No request works with a token newer than the stored one, and each step
\* of a call works with one at least as new as the steps before it.
TokenInv ==
    /\ renewed.expired <= renewed.renewed /\ renewed.renewed <= row.access
    /\ \A r \in Requests :
          /\ ctx[r] <= tok[r]
          /\ pc[r] \notin Ended \cup {"store_pair"} => tok[r] <= row.access
          /\ pc[r] \notin Ended \cup {"idle"} => tok[r] >= 1
          /\ pc[r] \in Holding \cup {"check_current", "remember"} => old[r] <= tok[r]

\* A call has its context after the snapshot is saved, not before.
ContextInv ==
    \A r \in Requests :
        /\ pc[r] \in {"idle", "me", "check_row", "save_row", "revoke_row"} => ctx[r] = 0
        /\ pc[r] \in {"ready", "send", "resend"} => ctx[r] # 0

\* A request OKK may still process was given up on.
LateInv == \A r \in Requests : late[r] # 0 => interrupted

IInv == /\ TypeOK /\ LockInv /\ PairInv /\ TokenInv /\ ContextInv /\ LateInv
        /\ StoredPairIsCurrent /\ TwiceOnlyAfterInterruption

-----------------------------------------------------------------------------
(* Inductive invariance                                                    *)

\* OKK answers a refresh: exactly the current token is rotated, by one.
LEMMA Rotation ==
  ASSUME NEW g, okk \in [gen : Nat, fresh : BOOLEAN, alive : BOOLEAN], OkkRotates(g)
  PROVE  /\ okk' \in [gen : Nat, fresh : BOOLEAN, alive : BOOLEAN]
         /\ g = okk.gen /\ okk'.gen = okk.gen + 1 /\ usedTwice' = usedTwice
<1> DEFINE new == [gen |-> okk.gen + 1, fresh |-> TRUE, alive |-> okk.alive]
<1>1. okk' = new
  BY DEF OkkRotates
<1>2. new \in [gen : Nat, fresh : BOOLEAN, alive : BOOLEAN]
  BY DEF OkkRotates
<1> QED
  BY <1>1, <1>2 DEF OkkRotates

\* No step of a request, a revocation, OKK or a crash breaks the invariant.
LEMMA IInvNext == IInv /\ [Next]_vars => IInv'
<1> SUFFICES ASSUME IInv, [Next]_vars PROVE IInv'
  OBVIOUS
<1> USE NoOneAssumption DEF IInv, TypeOK, LockInv, PairInv, TokenInv, ContextInv, LateInv,
      StoredPairIsCurrent, TwiceOnlyAfterInterruption,
      Active, Steps, Holding, Ended, vars, reqVars, revVars, history
<1>1. ASSUME NEW r \in Requests, LoadSession(r) PROVE IInv'
  BY <1>1 DEF LoadSession, Goto, Use
<1>2. ASSUME NEW r \in Requests, AskMe(r) PROVE IInv'
  BY <1>2 DEF AskMe, Accepts, Only, Goto
<1>3. ASSUME NEW r \in Requests, CheckRow(r) PROVE IInv'
  BY <1>3 DEF CheckRow, Only, Goto
<1>4. ASSUME NEW r \in Requests, SaveRow(r) PROVE IInv'
  BY <1>4 DEF SaveRow, Goto
<1>5. ASSUME NEW r \in Requests, RevokeRow(r) PROVE IInv'
  BY <1>5 DEF RevokeRow, Goto
<1>6. ASSUME NEW r \in Requests, LockRow(r) PROVE IInv'
  BY <1>6 DEF LockRow, Goto, Use
<1>7. ASSUME NEW r \in Requests, RefreshGranted(r) PROVE IInv'
  BY <1>7, Rotation DEF RefreshGranted, Goto, Use
<1>8. ASSUME NEW r \in Requests, RefreshRefused(r) PROVE IInv'
  <2>1. TypeOK'
    BY <1>8 DEF RefreshRefused, OkkRefuses, Goto
  <2>2. LockInv'
    BY <1>8 DEF RefreshRefused, OkkRefuses, Goto
  <2>3. PairInv'
    BY <1>8 DEF RefreshRefused, OkkRefuses, Goto
  <2>4. TokenInv'
    BY <1>8 DEF RefreshRefused, OkkRefuses, Goto
  <2>5. ContextInv'
    BY <1>8 DEF RefreshRefused, OkkRefuses, Goto
  <2>6. (LateInv /\ TwiceOnlyAfterInterruption)'
    BY <1>8 DEF RefreshRefused, OkkRefuses, Goto
  <2>7. StoredPairIsCurrent'
    BY <1>8 DEF RefreshRefused, OkkRefuses, Goto
  <2> QED
    BY <2>1, <2>2, <2>3, <2>4, <2>5, <2>6, <2>7
<1>9. ASSUME NEW r \in Requests, RefreshUnusable(r) PROVE IInv'
  <2>1. TypeOK'
    BY <1>9, Rotation DEF RefreshUnusable, Goto
  <2>2. LockInv'
    BY <1>9, Rotation DEF RefreshUnusable, Goto
  <2>3. PairInv'
    BY <1>9, Rotation DEF RefreshUnusable, Goto
  <2>4. TokenInv'
    BY <1>9, Rotation DEF RefreshUnusable, Goto
  <2>5. ContextInv'
    BY <1>9, Rotation DEF RefreshUnusable, Goto
  <2>6. (LateInv /\ TwiceOnlyAfterInterruption)'
    BY <1>9, Rotation DEF RefreshUnusable, Goto
  <2>7. StoredPairIsCurrent'
    BY <1>9, Rotation DEF RefreshUnusable, Goto
  <2> QED
    BY <2>1, <2>2, <2>3, <2>4, <2>5, <2>6, <2>7
<1>10. ASSUME NEW r \in Requests, RefreshLost(r) PROVE IInv'
  BY <1>10 DEF RefreshLost, Unlock, Goto
<1>11. ASSUME NEW r \in Requests, StorePair(r) PROVE IInv'
  <2>1. TypeOK'
    BY <1>11 DEF StorePair, Unlock, Goto
  <2>2. LockInv'
    BY <1>11 DEF StorePair, Unlock, Goto
  <2>3. PairInv'
    BY <1>11 DEF StorePair, Unlock, Goto
  <2>4. TokenInv'
    BY <1>11 DEF StorePair, Unlock, Goto
  <2>5. ContextInv'
    BY <1>11 DEF StorePair, Unlock, Goto
  <2>6. (LateInv /\ TwiceOnlyAfterInterruption)'
    BY <1>11 DEF StorePair, Unlock, Goto
  <2>7. StoredPairIsCurrent'
    BY <1>11 DEF StorePair, Unlock, Goto
  <2> QED
    BY <2>1, <2>2, <2>3, <2>4, <2>5, <2>6, <2>7
<1>12. ASSUME NEW r \in Requests, RejectSession(r) PROVE IInv'
  <2>1. TypeOK'
    BY <1>12 DEF RejectSession, Unlock, Goto
  <2>2. LockInv'
    BY <1>12 DEF RejectSession, Unlock, Goto
  <2>3. PairInv'
    BY <1>12 DEF RejectSession, Unlock, Goto
  <2>4. TokenInv'
    BY <1>12 DEF RejectSession, Unlock, Goto
  <2>5. ContextInv'
    BY <1>12 DEF RejectSession, Unlock, Goto
  <2>6. (LateInv /\ TwiceOnlyAfterInterruption)'
    BY <1>12 DEF RejectSession, Unlock, Goto
  <2>7. StoredPairIsCurrent'
    BY <1>12 DEF RejectSession, Unlock, Goto
  <2> QED
    BY <2>1, <2>2, <2>3, <2>4, <2>5, <2>6, <2>7
<1>13. ASSUME NEW r \in Requests, CheckCurrent(r) PROVE IInv'
  BY <1>13 DEF CheckCurrent, Accepts, Only, Goto
<1>14. ASSUME NEW r \in Requests, Remember(r) PROVE IInv'
  BY <1>14 DEF Remember, Goto
<1>15. ASSUME NEW r \in Requests, PickToken(r) PROVE IInv'
  BY <1>15 DEF PickToken, CurrentAccess, Goto, Use
<1>16. ASSUME NEW r \in Requests, SendRead(r) PROVE IInv'
  BY <1>16 DEF SendRead, Accepts, Only, Goto
<1>17. ASSUME NEW r \in Requests, ResendRead(r) PROVE IInv'
  BY <1>17 DEF ResendRead, Accepts, Only, Goto
<1>18. ASSUME NEW r \in Requests, Finish(r) PROVE IInv'
  BY <1>18 DEF Finish, Goto
<1>19. ASSUME NEW r \in Requests, Cancel(r) PROVE IInv'
  BY <1>19 DEF Cancel, Goto
<1>20. ASSUME NEW r \in Requests, LateRefresh(r) PROVE IInv'
  <2>1. TypeOK'
    BY <1>20, Rotation DEF LateRefresh, OkkRefuses
  <2>2. LockInv'
    BY <1>20, Rotation DEF LateRefresh, OkkRefuses
  <2>3. PairInv'
    BY <1>20, Rotation DEF LateRefresh, OkkRefuses
  <2>4. TokenInv'
    BY <1>20, Rotation DEF LateRefresh, OkkRefuses
  <2>5. ContextInv'
    BY <1>20, Rotation DEF LateRefresh, OkkRefuses
  <2>6. (LateInv /\ TwiceOnlyAfterInterruption)'
    BY <1>20, Rotation DEF LateRefresh, OkkRefuses
  <2>7. StoredPairIsCurrent'
    BY <1>20, Rotation DEF LateRefresh, OkkRefuses
  <2> QED
    BY <2>1, <2>2, <2>3, <2>4, <2>5, <2>6, <2>7
<1>21. ASSUME NEW v \in Revokers, RevokeLoad(v) PROVE IInv'
  BY <1>21 DEF RevokeLoad
<1>22. ASSUME NEW v \in Revokers, RevokeMark(v) PROVE IInv'
  BY <1>22 DEF RevokeMark
<1>23. ASSUME NEW v \in Revokers, RevokeLogout(v) PROVE IInv'
  BY <1>23 DEF RevokeLogout
<1>24. ASSUME ExpireAccess PROVE IInv'
  BY <1>24 DEF ExpireAccess
<1>25. ASSUME EndUpstream PROVE IInv'
  BY <1>25 DEF EndUpstream
<1>26. ASSUME EvictRenewal PROVE IInv'
  BY <1>26 DEF EvictRenewal, NoRenewal
<1>27. ASSUME DeleteRow PROVE IInv'
  BY <1>27 DEF DeleteRow
<1>28. ASSUME Crash PROVE IInv'
  BY <1>28 DEF Crash, NoRenewal
<1>29. CASE UNCHANGED vars
  BY <1>29
<1> QED
  BY <1>1, <1>2, <1>3, <1>4, <1>5, <1>6, <1>7, <1>8, <1>9, <1>10, <1>11, <1>12, <1>13, <1>14, <1>15, <1>16, <1>17, <1>18, <1>19, <1>20, <1>21, <1>22, <1>23, <1>24, <1>25, <1>26, <1>27, <1>28, <1>29 DEF Next, Request, LiveContext, RotateSession, Read, RevokeUpstream, Environment

\* Types, lock ownership, token order, the stored pair being the current one
\* and no refresh token shown twice without an interruption: always.
THEOREM Invariance == Spec => []IInv
<1>1. Init => IInv
  <2> SUFFICES ASSUME Init PROVE IInv
    OBVIOUS
  <2>1. TypeOK
    BY DEF Init, TypeOK, Steps, NoRenewal
  <2>2. LockInv /\ PairInv /\ TokenInv /\ ContextInv /\ LateInv
    BY NoOneAssumption DEF Init, LockInv, PairInv, TokenInv, ContextInv, LateInv, Active, Holding, Ended, NoRenewal
  <2>3. StoredPairIsCurrent /\ TwiceOnlyAfterInterruption
    BY DEF Init, StoredPairIsCurrent, TwiceOnlyAfterInterruption
  <2> QED
    BY <2>1, <2>2, <2>3 DEF IInv
<1> QED
  BY <1>1, IInvNext, PTL DEF Spec

\* The state of every call has its type, for any number of requests.
THEOREM TypeCorrect == Spec => []TypeOK
<1>1. IInv => TypeOK
  BY DEF IInv
<1> QED
  BY <1>1, Invariance, PTL

\* No interleaving of requests and revocations shows a refresh token twice:
\* only an interrupted renewal can (the row lock held across the call).
THEOREM TwiceOnlyWhenInterrupted == Spec => []TwiceOnlyAfterInterruption
<1>1. IInv => TwiceOnlyAfterInterruption
  BY DEF IInv
<1> QED
  BY <1>1, Invariance, PTL

\* The stored pair is OKK's current pair outside the storing transaction.
THEOREM PairIsCurrent == Spec => []StoredPairIsCurrent
<1>1. IInv => StoredPairIsCurrent
  BY DEF IInv
<1> QED
  BY <1>1, Invariance, PTL

\* The renewal cache never leads a read back behind its call's own token.
THEOREM ReadsNeverOlder == Spec => []ReadNeverOlder
<1>1. IInv => ReadNeverOlder
  BY DEF IInv, TypeOK, TokenInv, ReadNeverOlder
<1> QED
  BY <1>1, Invariance, PTL

\* The step-level form of RevokedIsFinal: only StorePair writes tokens, and
\* it holds the lock, which nobody holds on a revoked row.
LEMMA RevokedStep ==
  ASSUME IInv, Next, row.revoked
  PROVE  row'.revoked /\ row'.refresh = row.refresh /\ row'.access = row.access
<1>1. lock = NoOne
  BY DEF IInv, LockInv, Active
<1>2. \/ UNCHANGED row
      \/ row' = [row EXCEPT !.revoked = TRUE]
      \/ row' = [row EXCEPT !.present = FALSE]
      \/ \E r \in Requests : StorePair(r)
  BY DEF Next, Request, LiveContext, RotateSession, Read, RevokeUpstream, Environment,
     LoadSession, AskMe, CheckRow, SaveRow, RevokeRow, LockRow, RefreshGranted, RefreshRefused,
     RefreshUnusable, RefreshLost, RejectSession, CheckCurrent, Remember, PickToken,
     SendRead, ResendRead, Finish, Cancel, RevokeLoad, RevokeMark, RevokeLogout, ExpireAccess,
     EndUpstream, EvictRenewal, DeleteRow, Crash, LateRefresh, Only
<1>3. ~ \E r \in Requests : StorePair(r)
  BY <1>1, NoOneAssumption DEF IInv, LockInv, StorePair, Holding
<1> QED
  BY <1>2, <1>3 DEF IInv, TypeOK

\* Revocation is final: no rotation revives a session or stores a pair in it.
THEOREM RevocationIsFinal == Spec => RevokedIsFinal
<1>1. IInv /\ [Next]_vars => [row.revoked => row'.revoked /\ row'.refresh = row.refresh
                                                      /\ row'.access = row.access]_vars
  BY RevokedStep
<1> QED
  BY <1>1, Invariance, PTL DEF Spec, RevokedIsFinal

-----------------------------------------------------------------------------
(* AccountSession implements SessionContract                               *)

\* A request that stops ends its call and changes nothing else.
LEMMA Stop ==
  ASSUME IInv, NEW r \in Requests, NEW step \in Ended, Goto(r, step), UNCHANGED <<row, ctx>>
  PROVE  Contract!End({r})
<1> USE DEF IInv, TypeOK, Ended, Goto, Steps, Holding
<1>1. Call' = [q \in Requests |-> IF q \in {r} THEN "idle" ELSE Call[q]]
  BY DEF Call, Granted
<1>2. Active' = Active /\ row'.refresh = row.refresh
  BY DEF Active
<1> QED
  BY <1>1, <1>2 DEF Contract!End

\* A request that moves on inside its call is a stutter.
LEMMA Move ==
  ASSUME IInv, NEW r \in Requests, NEW step \in Steps \ (Ended \cup {"idle", "save_row"}),
         pc[r] \in Steps \ (Ended \cup {"idle", "save_row"}), Goto(r, step), UNCHANGED <<row, ctx>>
  PROVE  UNCHANGED Contract!vars
<1> USE DEF IInv, TypeOK, Ended, Goto, Steps, Holding
<1>1. Call' = Call
  BY DEF Call, Granted
<1> QED
  BY <1>1 DEF Contract!vars, Active

\* A request that finds the session active has asked for its context.
LEMMA Begin ==
  ASSUME IInv, NEW r \in Requests, Active, pc[r] = "idle", Goto(r, "me"), UNCHANGED <<row, ctx>>
  PROVE  Contract!Ask(r)
<1> USE DEF IInv, TypeOK, ContextInv, Ended, Goto, Steps, Holding
<1>1. Call[r] = "idle" /\ Call' = [Call EXCEPT ![r] = "asked"]
  BY DEF Call, Granted
<1>2. Active = TRUE /\ Active' = Active /\ row'.refresh = row.refresh
  BY DEF Active
<1> QED
  BY <1>1, <1>2 DEF Contract!Ask

\* A request that finds it active again after OKK's answer is granted one.
LEMMA Pass ==
  ASSUME IInv, NEW r \in Requests, Active, pc[r] = "check_row", Goto(r, "save_row"),
         UNCHANGED <<row, ctx>>
  PROVE  Contract!Grant(r)
<1> USE DEF IInv, TypeOK, ContextInv, Ended, Goto, Steps, Holding
<1>1. Call[r] = "asked" /\ Call' = [Call EXCEPT ![r] = "granted"]
  BY DEF Call, Granted
<1>2. Active = TRUE /\ Active' = Active /\ row'.refresh = row.refresh
  BY DEF Active
<1> QED
  BY <1>1, <1>2 DEF Contract!Grant

\* Every step of the detailed session is a step of the contract or a stutter.
LEMMA ContractNext ==
  ASSUME IInv, Next
  PROVE  Contract!Next \/ UNCHANGED Contract!vars
<1> DEFINE Ok == Contract!Next \/ UNCHANGED Contract!vars
<1> SUFFICES Ok
  OBVIOUS
<1> USE NoOneAssumption
<1>1. ASSUME NEW r \in Requests, LoadSession(r) PROVE Ok
  <2>1. Contract!Ask(r) \/ Contract!End({r})
    BY <1>1, Begin, Stop DEF LoadSession, Use, Ended
  <2> QED
    BY <2>1 DEF Contract!Next
<1>2. ASSUME NEW r \in Requests, CheckRow(r) PROVE Ok
  <2>1. Contract!Grant(r) \/ Contract!End({r}) \/ UNCHANGED Contract!vars
    BY <1>2, Pass, Move, Stop DEF CheckRow, Only, IInv, TypeOK, Steps, Holding, Ended
  <2> QED
    BY <2>1 DEF Contract!Next
<1>3. ASSUME NEW r \in Requests, AskMe(r) PROVE Ok
  <2>1. Contract!End({r}) \/ UNCHANGED Contract!vars
    BY <1>3, Move, Stop DEF AskMe, Accepts, Only, IInv, TypeOK, Steps, Holding, Ended
  <2> QED
    BY <2>1 DEF Contract!Next
<1>4. ASSUME NEW r \in Requests, LockRow(r) PROVE Ok
  <2>1. Contract!End({r}) \/ UNCHANGED Contract!vars
    BY <1>4, Move, Stop DEF LockRow, Use, IInv, TypeOK, Steps, Holding, Ended
  <2> QED
    BY <2>1 DEF Contract!Next
<1>5. ASSUME NEW r \in Requests, RefreshLost(r) PROVE Ok
  <2>1. Contract!End({r}) \/ UNCHANGED Contract!vars
    BY <1>5, Move, Stop DEF RefreshLost, Unlock, IInv, TypeOK, Steps, Holding, Ended
  <2> QED
    BY <2>1 DEF Contract!Next
<1>6. ASSUME NEW r \in Requests, CheckCurrent(r) PROVE Ok
  <2>1. Contract!End({r}) \/ UNCHANGED Contract!vars
    BY <1>6, Move, Stop DEF CheckCurrent, Accepts, Only, IInv, TypeOK, Steps, Holding, Ended
  <2> QED
    BY <2>1 DEF Contract!Next
<1>7. ASSUME NEW r \in Requests, Remember(r) PROVE Ok
  <2>1. Contract!End({r}) \/ UNCHANGED Contract!vars
    BY <1>7, Move, Stop DEF Remember, IInv, TypeOK, Steps, Holding, Ended
  <2> QED
    BY <2>1 DEF Contract!Next
<1>8. ASSUME NEW r \in Requests, SendRead(r) PROVE Ok
  <2>1. Contract!End({r}) \/ UNCHANGED Contract!vars
    BY <1>8, Move, Stop DEF SendRead, Accepts, Only, IInv, TypeOK, Steps, Holding, Ended
  <2> QED
    BY <2>1 DEF Contract!Next
<1>9. ASSUME NEW r \in Requests, ResendRead(r) PROVE Ok
  <2>1. Contract!End({r}) \/ UNCHANGED Contract!vars
    BY <1>9, Move, Stop DEF ResendRead, Accepts, Only, IInv, TypeOK, Steps, Holding, Ended
  <2> QED
    BY <2>1 DEF Contract!Next
<1>10. ASSUME NEW r \in Requests, Cancel(r) PROVE Ok
  <2>1. Contract!End({r}) \/ UNCHANGED Contract!vars
    BY <1>10, Move, Stop DEF Cancel, IInv, TypeOK, Steps, Holding, Ended
  <2> QED
    BY <2>1 DEF Contract!Next
<1>11. ASSUME NEW r \in Requests, RefreshGranted(r) PROVE Ok
  <2>1. UNCHANGED Contract!vars
    BY <1>11, Move DEF RefreshGranted, Use, IInv, TypeOK, Steps, Holding, Ended
  <2> QED
    BY <2>1
<1>12. ASSUME NEW r \in Requests, RefreshRefused(r) PROVE Ok
  <2>1. UNCHANGED Contract!vars
    BY <1>12, Move DEF RefreshRefused, IInv, TypeOK, Steps, Holding, Ended
  <2> QED
    BY <2>1
<1>13. ASSUME NEW r \in Requests, RefreshUnusable(r) PROVE Ok
  <2>1. UNCHANGED Contract!vars
    BY <1>13, Move DEF RefreshUnusable, IInv, TypeOK, Steps, Holding, Ended
  <2> QED
    BY <2>1
<1>14. ASSUME NEW r \in Requests, PickToken(r) PROVE Ok
  <2>1. UNCHANGED Contract!vars
    BY <1>14, Move DEF PickToken, Use, IInv, TypeOK, Steps, Holding, Ended
  <2> QED
    BY <2>1
<1>15. ASSUME NEW r \in Requests, SaveRow(r) PROVE Ok
  <2>1. UNCHANGED Contract!vars
    BY <1>15 DEF SaveRow, Goto, TokenInv, Contract!vars, Call, Granted, Active, IInv, TypeOK, Steps, Holding, Ended
  <2> QED
    BY <2>1
<1>16. ASSUME NEW r \in Requests, RevokeRow(r) PROVE Ok
  <2>1. Call' = [q \in Requests |-> IF q \in {r} THEN "idle" ELSE Call[q]]
    BY <1>16 DEF RevokeRow, Goto, Call, Granted, Active, IInv, TypeOK, Steps, Holding, Ended
  <2>2. Active' \in {Active, FALSE} /\ row'.refresh = row.refresh
    BY <1>16 DEF RevokeRow, IInv, TypeOK, Active
  <2>3. Contract!End({r})
    BY <2>1, <2>2 DEF Contract!End
  <2> QED
    BY <2>3 DEF Contract!Next
<1>17. ASSUME NEW r \in Requests, RejectSession(r) PROVE Ok
  <2>1. Call' = [q \in Requests |-> IF q \in {r} THEN "idle" ELSE Call[q]]
    BY <1>17 DEF RejectSession, Goto, Call, Granted, Active, IInv, TypeOK, Steps, Holding, Ended
  <2>2. Active' \in {Active, FALSE} /\ row'.refresh = row.refresh
    BY <1>17 DEF RejectSession, IInv, TypeOK, Active
  <2>3. Contract!End({r})
    BY <2>1, <2>2 DEF Contract!End
  <2> QED
    BY <2>3 DEF Contract!Next
<1>18. ASSUME NEW r \in Requests, Finish(r) PROVE Ok
  <2>1. Call' = [q \in Requests |-> IF q \in {r} THEN "idle" ELSE Call[q]]
    BY <1>18 DEF Finish, Goto, Call, Granted, Active, IInv, TypeOK, Steps, Holding, Ended
  <2>2. Active' \in {Active, FALSE} /\ row'.refresh = row.refresh
    BY <1>18 DEF Finish, IInv, TypeOK, Active
  <2>3. Contract!End({r})
    BY <2>1, <2>2 DEF Contract!End
  <2> QED
    BY <2>3 DEF Contract!Next
<1>19. ASSUME NEW r \in Requests, StorePair(r) PROVE Ok
  <2>1. Call' = Call
    BY <1>19 DEF StorePair, Goto, Call, Granted, Active, IInv, TypeOK, Steps, Holding, Ended
  <2>2. row'.refresh = row.refresh + 1 /\ Active /\ Active' = Active
    BY <1>19 DEF StorePair, IInv, TypeOK, LockInv, PairInv, Active, Holding
  <2>3. Active = TRUE
    BY <2>2 DEF Active
  <2>4. Contract!Renew
    BY <2>1, <2>2, <2>3 DEF Contract!Renew
  <2> QED
    BY <2>4 DEF Contract!Next
<1>20. ASSUME NEW v \in Revokers, RevokeMark(v) PROVE Ok
  <2>1. Call' = [q \in Requests |-> IF q \in {} THEN "idle" ELSE Call[q]]
    BY <1>20 DEF RevokeMark, Call, Granted, reqVars
  <2>2. Active' \in {Active, FALSE} /\ row'.refresh = row.refresh
    BY <1>20 DEF RevokeMark, IInv, TypeOK, Active
  <2>3. Contract!End({})
    BY <2>1, <2>2 DEF Contract!End
  <2> QED
    BY <2>3 DEF Contract!Next
<1>21. CASE DeleteRow
  <2>1. Call' = [q \in Requests |-> IF q \in {} THEN "idle" ELSE Call[q]]
    BY <1>21 DEF DeleteRow, Call, Granted, reqVars
  <2>2. Active' \in {Active, FALSE} /\ row'.refresh = row.refresh
    BY <1>21 DEF DeleteRow, IInv, TypeOK, Active
  <2>3. Contract!End({})
    BY <2>1, <2>2 DEF Contract!End
  <2> QED
    BY <2>3 DEF Contract!Next
<1>22. CASE Crash
  <2>1. Call' = [q \in Requests |-> IF q \in Requests THEN "idle" ELSE Call[q]]
    BY <1>22 DEF Crash, Call, Granted, Active, IInv, TypeOK, Steps, Holding, Ended
  <2>2. Active' \in {Active, FALSE} /\ row'.refresh = row.refresh
    BY <1>22 DEF Crash, IInv, TypeOK, Active
  <2>3. Contract!End(Requests)
    BY <2>1, <2>2 DEF Contract!End
  <2> QED
    BY <2>3 DEF Contract!Next
<1>23. CASE ExpireAccess \/ EndUpstream \/ EvictRenewal
  <2>1. UNCHANGED <<row, pc, ctx>>
    BY <1>23 DEF RevokeLoad, RevokeLogout, LateRefresh, ExpireAccess, EndUpstream, EvictRenewal, reqVars
  <2>2. UNCHANGED Contract!vars
    BY <2>1 DEF Contract!vars, Call, Granted, Active
  <2> QED
    BY <2>2
<1>24. ASSUME NEW v \in Revokers, RevokeLoad(v) \/ RevokeLogout(v) PROVE Ok
  <2>1. UNCHANGED <<row, pc, ctx>>
    BY <1>24 DEF RevokeLoad, RevokeLogout, reqVars
  <2>2. UNCHANGED Contract!vars
    BY <2>1 DEF Contract!vars, Call, Granted, Active
  <2> QED
    BY <2>2
<1>25. ASSUME NEW r \in Requests, LateRefresh(r) PROVE Ok
  <2>1. UNCHANGED <<row, pc, ctx>>
    BY <1>25 DEF LateRefresh, reqVars
  <2>2. UNCHANGED Contract!vars
    BY <2>1 DEF Contract!vars, Call, Granted, Active
  <2> QED
    BY <2>2
<1> HIDE DEF Ok
<1>26. ASSUME NEW r \in Requests, Request(r) PROVE Ok
  BY <1>26, <1>1, <1>2, <1>3, <1>4, <1>5, <1>6, <1>7, <1>8, <1>9, <1>10, <1>11, <1>12, <1>13,
     <1>14, <1>15, <1>16, <1>17, <1>18, <1>19 DEF Request, LiveContext, RotateSession, Read
<1>27. ASSUME NEW v \in Revokers, RevokeUpstream(v) PROVE Ok
  BY <1>27, <1>20, <1>24 DEF RevokeUpstream
<1> QED
  BY <1>21, <1>22, <1>23, <1>25, <1>26, <1>27 DEF Next, Environment

\* The rest of the gateway may use the contract in place of the session.
THEOREM SessionImplementsContract == Spec => ImplementsContract
<1>1. Init => Contract!Init
  <2> SUFFICES ASSUME Init PROVE Contract!Init
    OBVIOUS
  <2>1. Active = TRUE /\ row.refresh = 1
    BY DEF Init, Active
  <2>2. Call = [r \in Requests |-> "idle"]
    BY DEF Init, Call, Granted, Ended
  <2> QED
    BY <2>1, <2>2 DEF Contract!Init
<1>2. IInv /\ [Next]_vars => [Contract!Next]_(Contract!vars)
  <2>1. CASE Next
    BY <2>1, ContractNext
  <2>2. CASE UNCHANGED vars
    BY <2>2 DEF vars, reqVars, Contract!vars, Call, Granted, Active
  <2> QED
    BY <2>1, <2>2
<1> QED
  BY <1>1, <1>2, Invariance, PTL DEF Spec, ImplementsContract, Contract!Spec
=============================================================================
