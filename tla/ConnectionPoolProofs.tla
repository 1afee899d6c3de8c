------------------------ MODULE ConnectionPoolProofs ------------------------
(***************************************************************************)
(* Theorems about ConnectionPool, for every number of requests and every   *)
(* size of the pool.                                                       *)
(***************************************************************************)
EXTENDS ConnectionPool, FiniteSetTheorems, TLAPS

\* Only token requests keep a connection, a short connection belongs to a
\* short step, and the owner of the account's row is the one that renews.
Owners ==
    /\ first \subseteq Doublers
    /\ \A r \in second : pc[r] \in Short
    /\ account # NoOne => account \in second /\ pc[account] = "okk"
    /\ \A r \in Requests : pc[r] = "okk" => account = r
    /\ \A r \in Requests : pc[r] \in {"open", "row", "mark", "logout", "commit"} => r \in Doublers

IInv == TypeOK /\ Owners

\* Sets of requests are finite, and one more request adds at most one.
LEMMA Counting ==
    ASSUME NEW S \in SUBSET Requests, NEW r \in Requests
    PROVE  /\ Cardinality(S) \in Nat
           /\ Cardinality(S \cup {r}) <= Cardinality(S) + 1
           /\ Cardinality(S \ {r}) <= Cardinality(S)
           /\ Cardinality(S \cup {r}) \in Nat /\ Cardinality(S \ {r}) \in Nat
<1>1. IsFiniteSet(S)
  BY RequestsAssumption, FS_Subset
<1>2. Cardinality(S) \in Nat
  BY <1>1, FS_CardinalityType
<1>3. Cardinality(S \cup {r}) = IF r \in S THEN Cardinality(S) ELSE Cardinality(S) + 1
  BY <1>1, FS_AddElement
<1>4. Cardinality(S \ {r}) = IF r \in S THEN Cardinality(S) - 1 ELSE Cardinality(S)
  BY <1>1, FS_RemoveElement
<1>5. IsFiniteSet(S \ {r})
  BY <1>1, FS_RemoveElement
<1>6. Cardinality(S \ {r}) \in Nat
  BY <1>5, FS_CardinalityType
<1> QED
  BY <1>2, <1>3, <1>4, <1>6

\* Whoever ends gives everything back.
LEMMA EndKeeps ==
    ASSUME IInv, NEW r \in Requests, End(r)
    PROVE  IInv'
<1> USE DEF IInv, TypeOK
<1>1. Cardinality(first') + Cardinality(second') <= Size
  <2>1. /\ Cardinality(first) \in Nat /\ Cardinality(first \ {r}) \in Nat
        /\ Cardinality(first \ {r}) <= Cardinality(first)
    BY Counting
  <2>2. /\ Cardinality(second) \in Nat /\ Cardinality(second \ {r}) \in Nat
        /\ Cardinality(second \ {r}) <= Cardinality(second)
    BY Counting
  <2>3. first' = first \ {r} /\ second' = second \ {r}
    BY DEF End
  <2> QED
    BY <2>1, <2>2, <2>3, SizeAssumption
<1>2. TypeOK'
  <2>1. pc' \in [Requests -> {"idle"} \cup Short \cup Long \cup Outside]
    BY DEF End, Goto
  <2>2. row' \in [Tokens -> Requests \cup {NoOne}] /\ account' \in Requests \cup {NoOne}
    BY DEF End
  <2>3. first' \subseteq Requests /\ second' \subseteq Requests /\ token' = token
    BY DEF End
  <2> QED
    BY <1>1, <2>1, <2>2, <2>3
<1>3. Owners'
  <2>1. \A q \in Requests : pc'[q] = IF q = r THEN "idle" ELSE pc[q]
    BY DEF End, Goto
  <2>2. first' = first \ {r} /\ second' = second \ {r} /\ account' = IF account = r THEN NoOne ELSE account
    BY DEF End
  <2> QED
    BY <2>1, <2>2 DEF Owners
<1> QED
  BY <1>2, <1>3 DEF IInv

LEMMA Initially == Init => IInv
<1> SUFFICES ASSUME Init PROVE IInv
  OBVIOUS
<1>1. Cardinality({}) = 0
  BY FS_EmptySet
<1>2. TypeOK
  BY <1>1, SizeAssumption DEF Init, TypeOK
<1>3. Owners
  BY DEF Init, Owners
<1> QED
  BY <1>2, <1>3 DEF IInv

LEMMA Inductive == IInv /\ [Next]_vars => IInv'
<1> SUFFICES ASSUME IInv, [Next]_vars PROVE IInv'
  OBVIOUS
<1> USE DEF IInv, TypeOK
<1>1. CASE UNCHANGED vars
  BY <1>1 DEF vars, Owners
<1>2. ASSUME NEW r \in Requests, Start(r) PROVE IInv'
  <2>1. TypeOK'
    BY <1>2 DEF Start, Goto, Short, Long
  <2>2. Owners'
    BY <1>2 DEF Start, Goto, Owners, Short, Doublers, Requests
  <2> QED
    BY <2>1, <2>2
<1>3. ASSUME NEW r \in Requests, Connect(r) PROVE IInv'
  <2>1. Cardinality(first) \in Nat /\ Cardinality(second) \in Nat
    BY Counting
  <2>2. Cardinality(first) + Cardinality(second) + 1 <= Size
    BY <1>3, <2>1, SizeAssumption DEF Connect, Full
  <2>3. CASE NeedsFirst(r) /\ first' = first \cup {r} /\ Goto(r, "row")
               /\ UNCHANGED <<token, second, row, account>>
    <3>1. Cardinality(first') + Cardinality(second') <= Size
      <4>1. Cardinality(first \cup {r}) \in Nat /\ Cardinality(first \cup {r}) <= Cardinality(first) + 1
        BY Counting
      <4> QED
        BY <2>1, <2>2, <2>3, <4>1, SizeAssumption
    <3>2. TypeOK'
      BY <2>3, <3>1 DEF Goto, Long
    <3>3. Owners'
      BY <2>3 DEF NeedsFirst, Goto, Owners, Short
    <3> QED
      BY <3>2, <3>3
  <2>4. CASE NeedsSecond(r) /\ second' = second \cup {r}
               /\ UNCHANGED <<pc, token, first, row, account>>
    <3>1. Cardinality(first') + Cardinality(second') <= Size
      <4>1. Cardinality(second \cup {r}) \in Nat /\ Cardinality(second \cup {r}) <= Cardinality(second) + 1
        BY Counting
      <4> QED
        BY <2>1, <2>2, <2>4, <4>1, SizeAssumption
    <3>2. TypeOK'
      BY <2>4, <3>1
    <3>3. Owners'
      BY <2>4 DEF NeedsSecond, Owners
    <3> QED
      BY <3>2, <3>3
  <2> QED
    BY <1>3, <2>3, <2>4 DEF Connect
<1>4. ASSUME NEW r \in Requests, PoolTimeout(r) \/ Commit(r) \/ Fail(r) PROVE IInv'
  BY <1>4, EndKeeps DEF PoolTimeout, Commit, Fail
<1>5. ASSUME NEW r \in Requests, LockToken(r) PROVE IInv'
  <2>1. TypeOK'
    BY <1>5 DEF LockToken, Goto, Short
  <2>2. Owners'
    BY <1>5 DEF LockToken, Goto, Owners, Short
  <2> QED
    BY <2>1, <2>2
<1>6. ASSUME NEW r \in Requests, LockAccount(r) PROVE IInv'
  <2>1. Cardinality(first) \in Nat /\ Cardinality(second) \in Nat
        /\ Cardinality(second \ {r}) \in Nat /\ Cardinality(second \ {r}) <= Cardinality(second)
    BY Counting
  <2>2. TypeOK'
    BY <1>6, <2>1, SizeAssumption DEF LockAccount, Goto, Short, Outside
  <2>3. Owners'
    BY <1>6, NoOneAssumption DEF LockAccount, Goto, Owners, Short
  <2> QED
    BY <2>2, <2>3
<1>7. ASSUME NEW r \in Requests, Write(r) PROVE IInv'
  <2>1. CASE pc[r] = "save" /\ r \in Callers
    BY <1>7, <2>1, EndKeeps DEF Write
  <2>2. CASE ~(pc[r] = "save" /\ r \in Callers)
    <3>1. Cardinality(first) \in Nat /\ Cardinality(second) \in Nat
          /\ Cardinality(second \ {r}) \in Nat /\ Cardinality(second \ {r}) <= Cardinality(second)
      BY Counting
    <3>2. TypeOK'
      <4>1. pc' \in [Requests -> {"idle"} \cup Short \cup Long \cup Outside]
        BY <1>7, <2>2 DEF Write, Goto, Long, Outside
      <4>2. second' = second \ {r} /\ UNCHANGED <<token, first, row, account>>
        BY <1>7, <2>2 DEF Write
      <4> QED
        BY <3>1, <4>1, <4>2, SizeAssumption
    <3>3. Owners'
      BY <1>7, <2>2 DEF Write, Goto, Owners, Short, Doublers, Requests
    <3> QED
      BY <3>2, <3>3
  <2> QED
    BY <2>1, <2>2
<1>8. ASSUME NEW r \in Requests, Read(r) PROVE IInv'
  <2>1. Cardinality(first) \in Nat /\ Cardinality(second) \in Nat
        /\ Cardinality(second \ {r}) \in Nat /\ Cardinality(second \ {r}) <= Cardinality(second)
    BY Counting
  <2>2. TypeOK'
    BY <1>8, <2>1, SizeAssumption DEF Read, Goto, Short, Outside
  <2>3. Owners'
    BY <1>8 DEF Read, Goto, Owners, Short
  <2> QED
    BY <2>2, <2>3
<1>9. ASSUME NEW r \in Requests, AskMe(r) PROVE IInv'
  <2>1. r \notin second
    BY <1>9 DEF AskMe, Owners, Short
  <2>2. TypeOK'
    BY <1>9 DEF AskMe, Goto, Short
  <2>3. Owners'
    BY <1>9, <2>1 DEF AskMe, Goto, Owners, Short
  <2> QED
    BY <2>2, <2>3
<1>10. ASSUME NEW r \in Requests, Renewed(r) PROVE IInv'
  <2>1. Cardinality(first) \in Nat /\ Cardinality(second) \in Nat
        /\ Cardinality(second \ {r}) \in Nat /\ Cardinality(second \ {r}) <= Cardinality(second)
    BY Counting
  <2>2. TypeOK'
    BY <1>10, <2>1, SizeAssumption DEF Renewed, Goto, Short
  <2>3. Owners'
    BY <1>10 DEF Renewed, Goto, Owners, Short
  <2> QED
    BY <2>2, <2>3
<1>11. ASSUME NEW r \in Requests, Logout(r) PROVE IInv'
  <2>1. TypeOK'
    BY <1>11 DEF Logout, Goto, Long
  <2>2. Owners'
    BY <1>11 DEF Logout, Goto, Owners, Short
  <2> QED
    BY <2>1, <2>2
<1> QED
  BY <1>1, <1>2, <1>3, <1>4, <1>5, <1>6, <1>7, <1>8, <1>9, <1>10, <1>11
     DEF Next, Wait, Answer

THEOREM PoolInvariance == Spec => []IInv
<1>1. Init => IInv
  BY Initially
<1>2. IInv /\ [Next]_vars => IInv'
  BY Inductive
<1> QED
  BY <1>1, <1>2, PTL DEF Spec

\* No interleaving opens more connections than the pool may have.
THEOREM PoolTypes == Spec => []TypeOK
<1>1. IInv => TypeOK
  BY DEF IInv
<1> QED
  BY <1>1, PoolInvariance, PTL

\* An exhausted pool is at a halt only when every connection belongs to a
\* token request that waits for a second one.
THEOREM PoolMoves == Spec => []SomeoneMoves
<1>1. IInv => SomeoneMoves
  <2> SUFFICES ASSUME IInv, Full, Cardinality(first \cap Doublers) < Size
               PROVE  \E r \in first \cup second : ~Blocked(r)
    BY DEF SomeoneMoves
  <2>0. Cardinality(first) < Size
    <3>1. first \cap Doublers = first
      BY DEF IInv, Owners
    <3> QED
      BY <3>1
  <2>1. second # {}
    <3>1. Cardinality(first) \in Nat
      BY RequestsAssumption, FS_Subset, FS_CardinalityType DEF IInv, TypeOK
    <3>2. Cardinality({}) = 0
      BY FS_EmptySet
    <3> QED
      BY <2>0, <3>1, <3>2, SizeAssumption DEF Full
  <2>2. PICK r \in second : TRUE
    BY <2>1
  <2>3. CASE account = NoOne
    BY <2>2, <2>3 DEF Blocked, NeedsFirst, NeedsSecond, IInv, Owners, Short
  <2>4. CASE account # NoOne
    <3>1. account \in second /\ pc[account] = "okk"
      BY <2>4 DEF IInv, Owners
    <3> QED
      BY <3>1 DEF Blocked, NeedsFirst, NeedsSecond
  <2> QED
    BY <2>3, <2>4
<1> QED
  BY <1>1, PoolInvariance, PTL

\* However slowly OKK answers and however many requests queue: the
\* connections of session_factory that stand still are that of the one renewal
\* under way and of the requests queueing for its row, and the renewal itself
\* waits neither for a row nor for the pool.
THEOREM ShortWaits == Spec => []ShortWaitsEndWithRenewal
<1>1. IInv => ShortWaitsEndWithRenewal
  <2> SUFFICES ASSUME IInv PROVE ShortWaitsEndWithRenewal
    OBVIOUS
  <2> USE DEF IInv, TypeOK, Owners, Short
  <2>1. \A r \in second : Asking(r) => r = account
    BY DEF Asking
  <2>2. \A r \in second : Blocked(r) => account # NoOne
    BY DEF Blocked, NeedsFirst, NeedsSecond
  <2>3. account # NoOne => ~Blocked(account)
    BY DEF Blocked, NeedsFirst, NeedsSecond
  <2> QED
    BY <2>1, <2>2, <2>3 DEF ShortWaitsEndWithRenewal
<1> QED
  BY <1>1, PoolInvariance, PTL

\* Fewer token requests than connections never bring the pool to a halt.
COROLLARY LargePoolMoves ==
    ASSUME Cardinality(Doublers) < Size
    PROVE  Spec => [](Full => \E r \in first \cup second : ~Blocked(r))
<1>1. IInv => Cardinality(first \cap Doublers) < Size
  <2>1. IsFiniteSet(Doublers)
    BY RequestsAssumption, FS_Subset DEF Requests
  <2>2. ASSUME IInv
        PROVE  /\ Cardinality(first) <= Cardinality(Doublers)
               /\ Cardinality(first) \in Nat /\ Cardinality(Doublers) \in Nat
               /\ first \cap Doublers = first
    BY <2>1, <2>2, FS_Subset, FS_CardinalityType DEF IInv, Owners
  <2> QED
    BY <2>2, SizeAssumption
<1>2. SomeoneMoves /\ Cardinality(first \cap Doublers) < Size => (Full => \E r \in first \cup second : ~Blocked(r))
  BY DEF SomeoneMoves
<1> QED
  BY <1>1, <1>2, PoolInvariance, PoolMoves, PTL
=============================================================================
