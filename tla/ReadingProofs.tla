---------------------------- MODULE ReadingProofs ----------------------------
(* Proofs about what the gateway reads from elsewhere and in pieces: lists  *)
(* that move (JournalPages), for any list, page size and cap; transcripts   *)
(* (TranscriptChunks), for any text and limits; documents of clients        *)
(* (ClientMetadataCache), for any number of clients and requests.           *)
EXTENDS JournalPages, TranscriptChunks, ClientMetadataCache, Integers,
        SequenceTheorems, FiniteSetTheorems, WellFoundedInduction, TLAPS

\* A set of natural numbers that is not empty has a least one: the form in
\* which induction is used below.
LEMMA LeastNatural ==
    ASSUME NEW T \in SUBSET Nat, T # {}
    PROVE  \E m \in T : \A n \in T : m <= n
<1> DEFINE R == OpToRel(<, Nat)
<1>1. IsWellFoundedOn(R, Nat)
  BY NatLessThanWellFounded
<1>2. \A x, y \in Nat : <<y, x>> \in R <=> y < x
  BY DEF OpToRel
<1> HIDE DEF R
<1>3. PICK m \in T : \A y \in T : ~(<<y, m>> \in R)
  BY <1>1, WFMin
<1>4. \A n \in T : m <= n
  <2> TAKE n \in T
  <2>1. ~(n < m)
    BY <1>2, <1>3
  <2> QED
    BY <2>1
<1> QED
  BY <1>3, <1>4

\* Filter(s, passing) up to the k-th row of s.
Filters(f, s, passing, k) ==
    f = [n \in 0..k |->
           IF n = 0 THEN <<>>
           ELSE IF s[n] \in passing THEN Append(f[n - 1], s[n]) ELSE f[n - 1]]

LEMMA FilterExists ==
    ASSUME NEW s, NEW passing, NEW k \in Nat
    PROVE  \E f : Filters(f, s, passing, k)
<1> DEFINE T == {n \in Nat : ~ \E f : Filters(f, s, passing, n)}
<1>1. SUFFICES ASSUME T # {} PROVE FALSE
  OBVIOUS
<1>2. PICK m \in T : \A n \in T : m <= n
  BY <1>1, LeastNatural
<1>3. m # 0
  <2>1. Filters([n \in 0..0 |-> <<>>], s, passing, 0)
    BY DEF Filters
  <2> QED
    BY <2>1
<1>4. PICK g : Filters(g, s, passing, m - 1)
  BY <1>2, <1>3
<1> DEFINE last == IF s[m] \in passing THEN Append(g[m - 1], s[m]) ELSE g[m - 1]
           h == [n \in 0..m |-> IF n < m THEN g[n] ELSE last]
<1>5. \A n \in 0..m : h[n] = IF n = 0 THEN <<>>
           ELSE IF s[n] \in passing THEN Append(h[n - 1], s[n]) ELSE h[n - 1]
  <2> TAKE n \in 0..m
  <2>1. ASSUME n # 0 PROVE h[n - 1] = g[n - 1]
    BY <2>1, <1>3
  <2>2. CASE n = m
    BY <2>1, <2>2, <1>3
  <2>3. CASE n < m
    <3>1. n \in 0..m - 1 /\ h[n] = g[n]
      BY <2>3
    <3>2. g[n] = IF n = 0 THEN <<>>
           ELSE IF s[n] \in passing THEN Append(g[n - 1], s[n]) ELSE g[n - 1]
      BY <3>1, <1>4 DEF Filters
    <3> QED
      BY <3>1, <3>2, <2>1
  <2> QED
    BY <2>2, <2>3
<1>6. Filters(h, s, passing, m)
  <2> HIDE DEF last
  <2>1. h = [n \in 0..m |-> h[n]]
    OBVIOUS
  <2> HIDE DEF h
  <2> QED
    BY <2>1, <1>5 DEF Filters
<1> QED
  BY <1>2, <1>6

\* t holds, in their order, the rows of s up to the n-th that pass; at[i] is the
\* place in s of the i-th of them.
Places(at, t, s, passing, n) ==
    /\ at \in [1..Len(t) -> 1..n]
    /\ \A i, j \in 1..Len(t) : i < j => at[i] < at[j]
    /\ \A i \in 1..Len(t) : t[i] = s[at[i]] /\ s[at[i]] \in passing
    /\ \A k \in 1..n : s[k] \in passing => \E i \in 1..Len(t) : at[i] = k
    /\ Len(t) <= n
Kept(t, s, passing, n) ==
    /\ \E at : Places(at, t, s, passing, n)
    /\ (\A k \in 1..n : s[k] \in passing) => t = SubSeq(s, 1, n)

LEMMA OneMoreKept ==
    ASSUME NEW A, NEW s \in Seq(A), NEW passing, NEW n \in 1..Len(s),
           NEW t \in Seq(A), Kept(t, s, passing, n - 1), s[n] \in passing
    PROVE  Kept(Append(t, s[n]), s, passing, n)
<1> DEFINE u == Append(t, s[n])
<1>1. /\ s[n] \in A /\ Len(s) \in Nat /\ Len(t) \in Nat
  OBVIOUS
<1>2. /\ u \in Seq(A) /\ Len(u) = Len(t) + 1
      /\ \A i \in 1..Len(t) : u[i] = t[i]
      /\ u[Len(t) + 1] = s[n]
  BY <1>1, AppendProperties
<1>3. PICK at : Places(at, t, s, passing, n - 1)
  BY DEF Kept
<1> DEFINE to == [i \in 1..Len(t) + 1 |-> IF i <= Len(t) THEN at[i] ELSE n]
<1>4. Places(to, u, s, passing, n)
  <2> HIDE DEF u
  <2>1. /\ at \in [1..Len(t) -> 1..n - 1] /\ Len(t) <= n - 1
        /\ \A i, j \in 1..Len(t) : i < j => at[i] < at[j]
        /\ \A i \in 1..Len(t) : t[i] = s[at[i]] /\ s[at[i]] \in passing
        /\ \A k \in 1..n - 1 : s[k] \in passing => \E i \in 1..Len(t) : at[i] = k
    BY <1>3 DEF Places
  <2>2. /\ \A i \in 1..Len(t) : to[i] = at[i] /\ at[i] \in 1..n - 1
        /\ to[Len(t) + 1] = n
    <3>1. \A i \in 1..Len(t) : at[i] \in 1..n - 1
      BY <2>1
    <3>2. \A i \in 1..Len(t) : i \in 1..Len(t) + 1 /\ i <= Len(t)
      BY <1>1
    <3>3. Len(t) + 1 \in 1..Len(t) + 1 /\ ~(Len(t) + 1 <= Len(t))
      BY <1>1
    <3> QED
      BY <3>1, <3>2, <3>3
  <2>3. to \in [1..Len(u) -> 1..n]
    BY <2>1, <1>1, <1>2
  <2> HIDE DEF to
  <2>4. ASSUME NEW i \in 1..Len(u), NEW j \in 1..Len(u), i < j
        PROVE  to[i] < to[j]
    <3>1. i \in 1..Len(t)
      BY <2>4, <1>1, <1>2
    <3>2. CASE j = Len(t) + 1
      BY <3>1, <3>2, <2>2, <1>1
    <3>3. CASE j \in 1..Len(t)
      BY <3>1, <3>3, <2>1, <2>2, <2>4
    <3> QED
      BY <3>2, <3>3, <1>1, <1>2
  <2>5. \A i \in 1..Len(u) : u[i] = s[to[i]] /\ s[to[i]] \in passing
    <3> TAKE i \in 1..Len(u)
    <3>1. CASE i = Len(t) + 1
      BY <3>1, <2>2, <1>2
    <3>2. CASE i \in 1..Len(t)
      BY <3>2, <2>1, <2>2, <1>2
    <3> QED
      BY <3>1, <3>2, <1>1, <1>2
  <2>6. \A k \in 1..n : s[k] \in passing => \E i \in 1..Len(u) : to[i] = k
    <3> SUFFICES ASSUME NEW k \in 1..n, s[k] \in passing
                 PROVE  \E i \in 1..Len(u) : to[i] = k
      OBVIOUS
    <3>1. CASE k = n
      BY <3>1, <2>2, <1>1, <1>2
    <3>2. CASE k \in 1..n - 1
      <4>1. PICK i \in 1..Len(t) : at[i] = k
        BY <3>2, <2>1
      <4> QED
        BY <4>1, <2>2, <1>1, <1>2
    <3> QED
      BY <3>1, <3>2
  <2> QED
    BY <2>1, <2>3, <2>4, <2>5, <2>6, <1>1, <1>2 DEF Places
<1>5. ASSUME \A k \in 1..n : s[k] \in passing
      PROVE  u = SubSeq(s, 1, n)
  <2>1. t = SubSeq(s, 1, n - 1)
    BY <1>5 DEF Kept
  <2>2. \A i \in 1..n : s[i] \in A
    BY <1>1
  <2>3. /\ SubSeq(s, 1, n) \in Seq(A) /\ Len(SubSeq(s, 1, n)) = n
        /\ \A i \in 1..n : SubSeq(s, 1, n)[i] = s[i]
    BY <2>2, <1>1, SubSeqProperties
  <2>4. /\ Len(SubSeq(s, 1, n - 1)) = n - 1
        /\ \A i \in 1..n - 1 : SubSeq(s, 1, n - 1)[i] = s[i]
    BY <2>2, <1>1, SubSeqProperties
  <2> HIDE DEF u
  <2>5. \A i \in 1..n : u[i] = SubSeq(s, 1, n)[i]
    BY <2>1, <2>3, <2>4, <1>2
  <2>6. Len(u) = n
    BY <2>1, <2>4, <1>1, <1>2
  <2> QED
    BY <2>3, <2>5, <2>6, <1>2, SeqEqual
<1> QED
  BY <1>4, <1>5 DEF Kept

LEMMA OneMoreLeftOut ==
    ASSUME NEW A, NEW s \in Seq(A), NEW passing, NEW n \in 1..Len(s),
           NEW t \in Seq(A), Kept(t, s, passing, n - 1), s[n] \notin passing
    PROVE  Kept(t, s, passing, n)
<1>1. PICK at : Places(at, t, s, passing, n - 1)
  BY DEF Kept
<1>2. Places(at, t, s, passing, n)
  BY <1>1 DEF Places
<1> QED
  BY <1>2 DEF Kept

LEMMA FilterKeeps ==
    ASSUME NEW A, NEW s \in Seq(A), NEW passing
    PROVE  Filter(s, passing) \in Seq(A) /\ Kept(Filter(s, passing), s, passing, Len(s))
<1> DEFINE F(f) == f = [n \in 0..Len(s) |->
                     IF n = 0 THEN <<>>
                     ELSE IF s[n] \in passing THEN Append(f[n - 1], s[n]) ELSE f[n - 1]]
           kept == CHOOSE f : F(f)
<1>1. Filter(s, passing) = kept[Len(s)]
  BY DEF Filter
<1>2. Len(s) \in Nat
  OBVIOUS
<1>3. \E f : F(f)
  <2>1. PICK f : Filters(f, s, passing, Len(s))
    BY <1>2, FilterExists
  <2>2. F(f)
    BY <2>1 DEF Filters
  <2> QED
    BY <2>2
<1>4. F(kept)
  BY <1>3
<1> HIDE DEF kept
<1>5. \A n \in 0..Len(s) : kept[n] =
                     IF n = 0 THEN <<>>
                     ELSE IF s[n] \in passing THEN Append(kept[n - 1], s[n]) ELSE kept[n - 1]
  BY <1>4
<1> DEFINE T == {n \in 0..Len(s) : ~(kept[n] \in Seq(A) /\ Kept(kept[n], s, passing, n))}
<1>6. SUFFICES ASSUME T # {} PROVE FALSE
  BY <1>1, <1>2
<1>7. PICK m \in T : \A n \in T : m <= n
  <2>1. T \in SUBSET Nat
    BY <1>2
  <2> HIDE DEF T
  <2> QED
    BY <2>1, <1>6, LeastNatural
<1>8. m # 0
  <2>1. kept[0] = <<>>
    BY <1>2, <1>5
  <2>2. SubSeq(s, 1, 0) = <<>>
    BY SubSeqEmpty
  <2>3. Places(<<>>, <<>>, s, passing, 0)
    BY EmptySeq DEF Places
  <2>4. Kept(kept[0], s, passing, 0) /\ kept[0] \in Seq(A)
    BY <2>1, <2>2, <2>3 DEF Kept
  <2> QED
    BY <2>4, <1>7
<1>9. m \in 1..Len(s) /\ m - 1 \in 0..Len(s)
  BY <1>7, <1>8, <1>2
<1>10. kept[m - 1] \in Seq(A) /\ Kept(kept[m - 1], s, passing, m - 1)
  BY <1>7, <1>9
<1>11. CASE s[m] \in passing
  <2>1. kept[m] = Append(kept[m - 1], s[m])
    BY <1>5, <1>8, <1>9, <1>11
  <2>2. Kept(kept[m], s, passing, m)
    BY <2>1, <1>9, <1>10, <1>11, OneMoreKept
  <2>3. kept[m] \in Seq(A)
    BY <2>1, <1>9, <1>10
  <2> QED
    BY <2>2, <2>3, <1>7
<1>12. CASE s[m] \notin passing
  <2>1. kept[m] = kept[m - 1]
    BY <1>5, <1>8, <1>9, <1>12
  <2>2. Kept(kept[m], s, passing, m)
    BY <2>1, <1>9, <1>10, <1>12, OneMoreLeftOut
  <2> QED
    BY <2>1, <2>2, <1>7, <1>10
<1> QED
  BY <1>11, <1>12

\* What Filter returns: the rows of s that pass, each as often as in s and in
\* their order; all of s when all pass.
LEMMA FilterRight ==
    ASSUME NEW A, NEW s \in Seq(A), NEW passing
    PROVE  /\ Filter(s, passing) \in Seq(A)
           /\ ToSet(Filter(s, passing)) = ToSet(s) \cap passing
           /\ Len(Filter(s, passing)) <= Len(s)
           /\ ToSet(s) \subseteq passing => Filter(s, passing) = s
           /\ IsInjective(s) => IsInjective(Filter(s, passing))
           /\ \E at \in [DOMAIN Filter(s, passing) -> DOMAIN s] :
                /\ IsInjective(at)
                /\ \A i \in DOMAIN Filter(s, passing) : Filter(s, passing)[i] = s[at[i]]
<1> DEFINE t == Filter(s, passing)
<1>1. t \in Seq(A) /\ Kept(t, s, passing, Len(s))
  BY FilterKeeps
<1> HIDE DEF t
<1>2. PICK at : Places(at, t, s, passing, Len(s))
  BY <1>1 DEF Kept
<1>3. DOMAIN t = 1..Len(t) /\ DOMAIN s = 1..Len(s) /\ Len(t) \in Nat /\ Len(s) \in Nat
  BY <1>1
<1>4. at \in [DOMAIN t -> DOMAIN s] /\ IsInjective(at)
  BY <1>2, <1>3 DEF Places, IsInjective
<1>5. \A i \in DOMAIN t : t[i] = s[at[i]] /\ s[at[i]] \in passing
  BY <1>2, <1>3 DEF Places
<1>6. ToSet(t) = ToSet(s) \cap passing
  BY <1>2, <1>3, <1>4, <1>5 DEF Places, ToSet
<1>7. Len(t) <= Len(s)
  BY <1>2 DEF Places
<1>8. ToSet(s) \subseteq passing => t = s
  BY <1>1, <1>3, SubSeqFull DEF Kept, ToSet
<1>9. IsInjective(s) => IsInjective(t)
  BY <1>4, <1>5 DEF IsInjective
<1> QED
  BY <1>1, <1>4, <1>5, <1>6, <1>7, <1>8, <1>9 DEF t
-----------------------------------------------------------------------------
\* The documents of clients.

\* An entry that still lives, and a document just read, are no older than the
\* time of their limits that has passed.
EntryFresh(e) == e.left > 0 => e.document.stale + e.left <= Lifetime + FetchLimit
RequestFresh(s) ==
    /\ s.step = "received" => s.document.stale + s.left <= FetchLimit
    /\ s.step = "loaded" => s.document.stale <= Lifetime + FetchLimit

MetadataInv ==
    /\ MetadataTypeOK
    /\ Len(cache) <= MaxEntries
    /\ \A i, j \in DOMAIN cache : cache[i].client = cache[j].client => i = j
    /\ \A i \in DOMAIN cache : EntryFresh(cache[i])
    /\ \A r \in Requests : RequestFresh(request[r])

\* What a request is after it went on.
LEMMA GoneOn ==
    ASSUME MetadataInv, NEW r \in Requests, NEW step \in Steps, NEW left \in 0..FetchLimit,
           NEW document \in Documents, GoesOn(r, step, left, document),
           step = "received" => document.stale + left <= FetchLimit,
           step = "loaded" => document.stale <= Lifetime + FetchLimit
    PROVE  /\ request' \in [Requests -> RequestStates]
           /\ \A q \in Requests : RequestFresh(request'[q])
<1> DEFINE s == [step |-> step, client |-> request[r].client, left |-> left, document |-> document]
<1>1. request \in [Requests -> RequestStates] /\ \A q \in Requests : RequestFresh(request[q])
  BY DEF MetadataInv, MetadataTypeOK
<1>2. s \in RequestStates
  BY <1>1 DEF RequestStates
<1>3. RequestFresh(s)
  BY DEF RequestFresh
<1>4. request' = [request EXCEPT ![r] = s]
  BY DEF GoesOn
<1> HIDE DEF s
<1>5. \A q \in Requests : request'[q] = IF q = r THEN s ELSE request[q]
  BY <1>1, <1>4
<1> QED
  BY <1>1, <1>2, <1>3, <1>4, <1>5

LEMMA RequestFields ==
    ASSUME MetadataInv, NEW r \in Requests
    PROVE  /\ request[r].step \in Steps /\ request[r].client \in Clients
           /\ request[r].left \in 0..FetchLimit /\ request[r].document \in Documents
           /\ RequestFresh(request[r])
<1>1. request[r] \in RequestStates
  BY DEF MetadataInv, MetadataTypeOK
<1> QED
  BY <1>1 DEF MetadataInv, RequestStates

LEMMA LatestRight == Latest \in Documents /\ Latest.stale = 0
  BY MetadataAssumption DEF Latest, Documents

\* The steps of a request that leave the cache alone.
LEMMA RequestStep ==
    ASSUME MetadataInv, NEW r \in Requests, Load(r) \/ Serve(r) \/ Fail(r) \/ Use(r)
    PROVE  MetadataInv'
<1>1. /\ request' \in [Requests -> RequestStates]
      /\ \A q \in Requests : RequestFresh(request'[q])
  <2>1. ASSUME NEW i \in Usable(request[r].client), GoesOn(r, "loaded", 0, cache[i].document)
        PROVE  <1>1!1 /\ <1>1!2
    <3>1. i \in DOMAIN cache /\ cache[i].left > 0
      BY DEF Usable, OfClient
    <3>2. cache[i] \in Cached /\ EntryFresh(cache[i])
      BY <3>1 DEF MetadataInv, MetadataTypeOK
    <3>3. cache[i].document \in Documents /\ cache[i].document.stale <= Lifetime + FetchLimit
      BY <3>1, <3>2, MetadataAssumption DEF EntryFresh, Cached, Documents
    <3> QED
      BY <2>1, <3>3, GoneOn, MetadataAssumption DEF Steps
  <2>2. ASSUME GoesOn(r, "fetching", FetchLimit, Latest) PROVE <1>1!1 /\ <1>1!2
    BY <2>2, LatestRight, GoneOn, MetadataAssumption DEF Steps
  <2>3. ASSUME GoesOn(r, "received", request[r].left, Latest) PROVE <1>1!1 /\ <1>1!2
    BY <2>3, LatestRight, RequestFields, GoneOn, MetadataAssumption DEF Steps
  <2>4. ASSUME GoesOn(r, "refused", 0, Latest) PROVE <1>1!1 /\ <1>1!2
    BY <2>4, LatestRight, GoneOn, MetadataAssumption DEF Steps
  <2>5. ASSUME GoesOn(r, "done", 0, Latest) PROVE <1>1!1 /\ <1>1!2
    BY <2>5, LatestRight, GoneOn, MetadataAssumption DEF Steps
  <2> QED
    BY <2>1, <2>2, <2>3, <2>4, <2>5 DEF Load, Serve, Fail, Use
<1>2. cache' = cache
  BY DEF Load, Serve, Fail, Use
<1> QED
  BY <1>1, <1>2 DEF MetadataInv, MetadataTypeOK, EntryFresh

\* What is stored is the latest entry of its client and the only one.
LEMMA StoreRight ==
    ASSUME MetadataInv, NEW r \in Requests, Store(r)
    PROVE  MetadataInv'
<1> DEFINE c == request[r].client
           document == request[r].document
           entry == [client |-> c, left |-> Lifetime, document |-> document]
           others == Filter(cache, {e \in ToSet(cache) : e.client # c})
           room == IF Len(others) >= MaxEntries THEN Tail(others) ELSE others
<1>1. /\ cache \in Seq(Cached) /\ c \in Clients /\ document \in Documents
      /\ request[r].left \in 0..FetchLimit
  BY RequestFields DEF MetadataInv, MetadataTypeOK
<1>2. document.stale \in Nat /\ document.stale <= FetchLimit
  BY <1>1, RequestFields, MetadataAssumption DEF Store, RequestFresh, Documents
<1>3. /\ request' \in [Requests -> RequestStates]
      /\ \A q \in Requests : RequestFresh(request'[q])
  BY <1>1, <1>2, GoneOn, MetadataAssumption DEF Store, Steps
<1>4. entry \in Cached /\ EntryFresh(entry) /\ entry.client = c
  BY <1>1, <1>2, MetadataAssumption DEF Cached, EntryFresh
<1>5. /\ others \in Seq(Cached) /\ Len(others) <= MaxEntries
      /\ \A i \in DOMAIN others : others[i].client # c /\ EntryFresh(others[i])
      /\ \A i, j \in DOMAIN others : others[i].client = others[j].client => i = j
  <2> DEFINE passing == {e \in ToSet(cache) : e.client # c}
  <2>7. others = Filter(cache, passing)
    OBVIOUS
  <2> HIDE DEF passing, others
  <2>1. /\ others \in Seq(Cached) /\ ToSet(others) = ToSet(cache) \cap passing
        /\ Len(others) <= Len(cache)
        /\ \E at \in [DOMAIN others -> DOMAIN cache] :
              /\ IsInjective(at)
              /\ \A i \in DOMAIN others : others[i] = cache[at[i]]
    BY <1>1, <2>7, FilterRight
  <2>2. PICK at \in [DOMAIN others -> DOMAIN cache] :
              /\ IsInjective(at)
              /\ \A i \in DOMAIN others : others[i] = cache[at[i]]
    BY <2>1
  <2>3. \A i \in DOMAIN others : others[i].client # c
    BY <2>1 DEF passing, ToSet
  <2>4. \A i, j \in DOMAIN others : others[i].client = others[j].client => i = j
    BY <2>2 DEF MetadataInv, IsInjective
  <2>5. \A i \in DOMAIN others : EntryFresh(others[i])
    BY <2>2 DEF MetadataInv
  <2>6. Len(others) <= MaxEntries
    BY <2>1, <1>1, MetadataAssumption DEF MetadataInv
  <2> QED
    BY <2>1, <2>3, <2>4, <2>5, <2>6
<1> HIDE DEF others, entry
<1>6. /\ room \in Seq(Cached) /\ Len(room) < MaxEntries
      /\ \A i \in DOMAIN room : room[i].client # c /\ EntryFresh(room[i])
      /\ \A i, j \in DOMAIN room : room[i].client = room[j].client => i = j
  <2>1. Len(others) \in Nat /\ DOMAIN others = 1..Len(others)
    BY <1>5
  <2>2. CASE Len(others) >= MaxEntries
    <3>1. others # <<>>
      BY <2>2, <1>5, MetadataAssumption
    <3>2. /\ room \in Seq(Cached) /\ Len(room) = Len(others) - 1
          /\ \A i \in 1..Len(room) : room[i] = others[i + 1]
      BY <2>2, <3>1, <1>5, HeadTailProperties
    <3>3. DOMAIN room = 1..Len(room)
      BY <3>2
    <3> HIDE DEF room
    <3>4. Len(room) < MaxEntries
      BY <1>5, <2>1, <3>2, MetadataAssumption
    <3>5. \A i \in DOMAIN room : i + 1 \in DOMAIN others /\ room[i] = others[i + 1]
      BY <2>1, <3>2, <3>3
    <3>6. \A i, j \in DOMAIN room : room[i].client = room[j].client => i = j
      <4> SUFFICES ASSUME NEW i \in DOMAIN room, NEW j \in DOMAIN room,
                          room[i].client = room[j].client
                   PROVE  i = j
        OBVIOUS
      <4>1. i + 1 = j + 1
        BY <1>5, <3>5
      <4> QED
        BY <4>1, <3>3
    <3>7. \A i \in DOMAIN room : room[i].client # c /\ EntryFresh(room[i])
      BY <1>5, <3>5
    <3> QED
      BY <3>2, <3>4, <3>6, <3>7
  <2>3. CASE Len(others) < MaxEntries
    BY <1>5, <2>1, <2>3, MetadataAssumption
  <2>4. Len(others) < MaxEntries \/ Len(others) >= MaxEntries
    BY <2>1, MetadataAssumption
  <2> QED
    BY <2>2, <2>3, <2>4, Zenon
<1>7. cache' = Append(room, entry)
  BY DEF Store, Keep, others, entry
<1> HIDE DEF room
<1>8. /\ cache' \in Seq(Cached) /\ Len(cache') = Len(room) + 1 /\ DOMAIN cache' = 1..Len(room) + 1
      /\ DOMAIN room = 1..Len(room) /\ Len(room) \in Nat
      /\ \A i \in 1..Len(room) : cache'[i] = room[i]
      /\ cache'[Len(room) + 1] = entry
  BY <1>4, <1>6, <1>7, AppendProperties
<1>9. Len(cache') <= MaxEntries
  BY <1>6, <1>8, MetadataAssumption
<1>10. \A i \in DOMAIN cache' : EntryFresh(cache'[i])
  BY <1>4, <1>6, <1>8
<1>11. ASSUME NEW i \in DOMAIN cache', NEW j \in DOMAIN cache',
              cache'[i].client = cache'[j].client
       PROVE  i = j
  BY <1>4, <1>6, <1>8, <1>11
<1> QED
  BY <1>3, <1>8, <1>9, <1>10, <1>11 DEF MetadataInv, MetadataTypeOK, EntryFresh

\* Records with some fields changed, field by field.
LEMMA ChangedDocument ==
    ASSUME NEW d \in Documents, NEW u
    PROVE  /\ u = [d EXCEPT !.current = FALSE] => u = [current |-> FALSE, stale |-> d.stale]
           /\ u = [d EXCEPT !.stale = @ + 1] => u = [current |-> d.current, stale |-> d.stale + 1]
  BY DEF Documents

LEMMA ChangedEntry ==
    ASSUME NEW e \in Cached, NEW left, NEW d, NEW u,
           u = [e EXCEPT !.left = left, !.document = d]
    PROVE  u = [client |-> e.client, left |-> left, document |-> d]
  BY DEF Cached

LEMMA ChangedRequest ==
    ASSUME NEW s \in RequestStates, NEW d, NEW u,
           u = [s EXCEPT !.left = @ - 1, !.document = d]
    PROVE  u = [step |-> s.step, client |-> s.client, left |-> s.left - 1, document |-> d]
  BY DEF RequestStates

\* A document that its owner replaced, and one that is a second older.
LEMMA OlderRight ==
    ASSUME NEW d \in Documents
    PROVE  /\ Older(d) \in Documents /\ Older(d).stale <= d.stale + 1
           /\ Replaced(d) \in Documents /\ Replaced(d).stale = d.stale
           /\ d.stale \in Nat
<1>1. d.stale \in 0..Lifetime + FetchLimit + 1 /\ d.current \in BOOLEAN
      /\ d = [current |-> d.current, stale |-> d.stale]
  BY DEF Documents
<1>2. Replaced(d) = [current |-> FALSE, stale |-> d.stale]
  BY ChangedDocument DEF Replaced
<1>3. [d EXCEPT !.stale = @ + 1] = [current |-> d.current, stale |-> d.stale + 1]
  BY ChangedDocument
<1>4. Older(d) \in Documents /\ Older(d).stale <= d.stale + 1
  <2>1. CASE d.current \/ d.stale > Lifetime + FetchLimit
    BY <1>1, <2>1, MetadataAssumption DEF Older, Documents
  <2>2. CASE ~(d.current \/ d.stale > Lifetime + FetchLimit)
    <3>1. Older(d) = [current |-> d.current, stale |-> d.stale + 1]
      BY <1>3, <2>2 DEF Older
    <3>2. d.stale + 1 \in 0..Lifetime + FetchLimit + 1
      BY <1>1, <2>2, MetadataAssumption
    <3> QED
      BY <1>1, <3>1, <3>2, MetadataAssumption DEF Documents
  <2> QED
    BY <2>1, <2>2
<1> QED
  BY <1>1, <1>2, <1>4, MetadataAssumption DEF Documents

\* A step that changes entries and requests where they are.
LEMMA InPlace ==
    ASSUME MetadataInv,
           cache' = [i \in DOMAIN cache |-> cache'[i]],
           request' = [r \in Requests |-> request'[r]],
           \A i \in DOMAIN cache : /\ cache'[i] \in Cached /\ EntryFresh(cache'[i])
                                   /\ cache'[i].client = cache[i].client,
           \A r \in Requests : request'[r] \in RequestStates /\ RequestFresh(request'[r])
    PROVE  MetadataInv'
<1>1. DOMAIN cache = 1..Len(cache) /\ Len(cache) \in Nat /\ cache \in Seq(Cached)
  BY DEF MetadataInv, MetadataTypeOK
<1>2. cache' \in Seq(Cached) /\ Len(cache') = Len(cache) /\ DOMAIN cache' = DOMAIN cache
  <2>1. cache' \in [1..Len(cache) -> Cached]
    BY <1>1
  <2> QED
    BY <1>1, <2>1
<1>3. request' \in [Requests -> RequestStates]
  OBVIOUS
<1>4. \A i, j \in DOMAIN cache' : cache'[i].client = cache'[j].client => i = j
  BY <1>2 DEF MetadataInv
<1>5. Len(cache') <= MaxEntries
  BY <1>2 DEF MetadataInv
<1> QED
  BY <1>2, <1>3, <1>4, <1>5 DEF MetadataInv, MetadataTypeOK, EntryFresh

LEMMA PublishRight ==
    ASSUME MetadataInv, NEW c \in Clients, Publish(c)
    PROVE  MetadataInv'
<1>1. ASSUME NEW i \in DOMAIN cache
      PROVE  /\ cache'[i] \in Cached /\ EntryFresh(cache'[i])
             /\ cache'[i].client = cache[i].client
  <2> DEFINE e == cache[i]
             d == Replaced(e.document)
             new == [client |-> e.client, left |-> e.left, document |-> d]
  <2>1. e \in Cached /\ EntryFresh(e)
    BY DEF MetadataInv, MetadataTypeOK
  <2>2. d \in Documents /\ d.stale = e.document.stale
    BY <2>1, OlderRight DEF Cached
  <2>3. [e EXCEPT !.document = d] = new
    BY <2>1 DEF Cached
  <2>4. cache'[i] = IF e.client = c THEN [e EXCEPT !.document = d] ELSE e
    BY DEF Publish
  <2> HIDE DEF d
  <2>5. new \in Cached /\ EntryFresh(new) /\ new.client = e.client
    BY <2>1, <2>2 DEF Cached, EntryFresh
  <2> HIDE DEF e, new
  <2> QED
    BY <2>1, <2>3, <2>4, <2>5 DEF e
<1>2. ASSUME NEW r \in Requests
      PROVE  request'[r] \in RequestStates /\ RequestFresh(request'[r])
  <2> DEFINE s == request[r]
             d == Replaced(s.document)
             new == [step |-> s.step, client |-> s.client, left |-> s.left, document |-> d]
  <2>1. s \in RequestStates /\ RequestFresh(s)
    BY DEF MetadataInv, MetadataTypeOK
  <2>2. d \in Documents /\ d.stale = s.document.stale
    BY <2>1, OlderRight DEF RequestStates
  <2>3. [s EXCEPT !.document = d] = new
    BY <2>1 DEF RequestStates
  <2>4. request'[r] = IF s.client = c /\ s.step = "received"
                      THEN [s EXCEPT !.document = d] ELSE s
    BY DEF Publish
  <2> HIDE DEF d
  <2>5. new \in RequestStates /\ RequestFresh(new)
    BY <2>1, <2>2 DEF RequestStates, RequestFresh
  <2> HIDE DEF s, new
  <2> QED
    BY <2>1, <2>3, <2>4, <2>5
<1>3. /\ cache' = [i \in DOMAIN cache |-> cache'[i]]
      /\ request' = [r \in Requests |-> request'[r]]
  BY DEF Publish
<1> QED
  BY <1>1, <1>2, <1>3, InPlace

LEMMA TickRight ==
    ASSUME MetadataInv, Tick
    PROVE  MetadataInv'
<1>1. ASSUME NEW i \in DOMAIN cache
      PROVE  /\ cache'[i] \in Cached /\ EntryFresh(cache'[i])
             /\ cache'[i].client = cache[i].client
  <2> DEFINE e == cache[i]
             d == Older(e.document)
             left == IF e.left = 0 THEN 0 ELSE e.left - 1
             new == [client |-> e.client, left |-> left, document |-> d]
  <2>1. e \in Cached /\ EntryFresh(e)
    BY DEF MetadataInv, MetadataTypeOK
  <2>2. d \in Documents /\ d.stale <= e.document.stale + 1 /\ d.stale \in Nat
        /\ e.document.stale \in Nat
    BY <2>1, OlderRight DEF Cached
  <2>3. cache'[i] = new
    <3>1. cache'[i] = [e EXCEPT !.left = left, !.document = d]
      BY DEF Tick
    <3> HIDE DEF d, left
    <3> QED
      BY <2>1, <3>1, ChangedEntry
  <2> HIDE DEF d
  <2>4. left \in 0..Lifetime /\ (left > 0 => left = e.left - 1 /\ e.left > 0)
    BY <2>1, MetadataAssumption DEF Cached
  <2> HIDE DEF left
  <2>5. new \in Cached /\ EntryFresh(new) /\ new.client = e.client
    BY <2>1, <2>2, <2>4, MetadataAssumption DEF Cached, EntryFresh
  <2> HIDE DEF new
  <2> QED
    BY <2>3, <2>5
<1>2. ASSUME NEW r \in Requests
      PROVE  request'[r] \in RequestStates /\ RequestFresh(request'[r])
  <2> DEFINE s == request[r]
             d == Older(s.document)
             new == [step |-> s.step, client |-> s.client, left |-> s.left - 1, document |-> d]
  <2>1. s \in RequestStates /\ RequestFresh(s)
    BY DEF MetadataInv, MetadataTypeOK
  <2>2. d \in Documents /\ d.stale <= s.document.stale + 1 /\ d.stale \in Nat
        /\ s.document.stale \in Nat
    BY <2>1, OlderRight DEF RequestStates
  <2>3. s.step # "loaded" /\ (Fetching(r) => s.left > 0)
    BY DEF Tick
  <2>4. CASE Fetching(r)
    <3>1. request'[r] = [s EXCEPT !.left = @ - 1, !.document = d]
      BY <2>4 DEF Tick
    <3> HIDE DEF d
    <3>2. request'[r] = new
      BY <2>1, <3>1, ChangedRequest
    <3>3. new \in RequestStates /\ RequestFresh(new)
      BY <2>1, <2>2, <2>3, <2>4, MetadataAssumption DEF RequestStates, RequestFresh
    <3> HIDE DEF new
    <3> QED
      BY <3>2, <3>3
  <2>5. CASE ~Fetching(r)
    BY <2>1, <2>5 DEF Tick
  <2> QED
    BY <2>4, <2>5
<1>3. /\ cache' = [i \in DOMAIN cache |-> cache'[i]]
      /\ request' = [r \in Requests |-> request'[r]]
  BY DEF Tick
<1> QED
  BY <1>1, <1>2, <1>3, InPlace

LEMMA MetadataInitRight == MetadataInit => MetadataInv
<1> SUFFICES ASSUME MetadataInit PROVE MetadataInv
  OBVIOUS
<1>1. cache \in Seq(Cached) /\ Len(cache) = 0 /\ DOMAIN cache = {}
  BY DEF MetadataInit
<1>2. ASSUME NEW r \in Requests
      PROVE  request[r] \in RequestStates /\ RequestFresh(request[r])
  <2>1. request[r] \in [step : {"new"}, client : Clients, left : {0}, document : {Latest}]
    BY DEF MetadataInit
  <2> QED
    BY <2>1, LatestRight, MetadataAssumption DEF RequestStates, Steps, RequestFresh
<1>3. request \in [Requests -> RequestStates]
  BY <1>2 DEF MetadataInit
<1> QED
  BY <1>1, <1>2, <1>3, MetadataAssumption DEF MetadataInv, MetadataTypeOK

LEMMA MetadataStepRight == MetadataInv /\ [MetadataNext]_metadataVars => MetadataInv'
<1> SUFFICES ASSUME MetadataInv, [MetadataNext]_metadataVars PROVE MetadataInv'
  OBVIOUS
<1>1. ASSUME NEW r \in Requests, Load(r) \/ Serve(r) \/ Fail(r) \/ Use(r) PROVE MetadataInv'
  BY <1>1, RequestStep
<1>2. ASSUME NEW r \in Requests, Store(r) PROVE MetadataInv'
  BY <1>2, StoreRight
<1>3. ASSUME NEW c \in Clients, Publish(c) PROVE MetadataInv'
  BY <1>3, PublishRight
<1>4. CASE Tick
  BY <1>4, TickRight
<1>5. CASE UNCHANGED metadataVars
  BY <1>5 DEF metadataVars, MetadataInv, MetadataTypeOK, EntryFresh, RequestFresh
<1> QED
  BY <1>1, <1>2, <1>3, <1>4, <1>5 DEF MetadataNext

LEMMA MetadataHolds == MetadataSpec => []MetadataInv
  BY MetadataInitRight, MetadataStepRight, PTL DEF MetadataSpec

\* The cache and the requests keep their types.
THEOREM MetadataTypes == MetadataSpec => []MetadataTypeOK
<1>1. MetadataInv => MetadataTypeOK
  BY DEF MetadataInv
<1> QED
  BY <1>1, MetadataHolds, PTL

\* No request goes by a document that left its URL longer ago than a lifetime
\* and a download, in whatever order downloads are stored; a client has one
\* entry, and the cache keeps to its size (load_client_metadata).
THEOREM DocumentsFresh == MetadataSpec => []StalenessBounded
<1>1. MetadataInv => StalenessBounded
  <2> SUFFICES ASSUME MetadataInv PROVE StalenessBounded
    OBVIOUS
  <2>1. \A r \in Requests : request[r].step = "loaded" =>
          request[r].document.stale <= Lifetime + FetchLimit
    BY DEF MetadataInv, RequestFresh
  <2>2. ASSUME NEW c \in Clients PROVE Cardinality(OfClient(c)) <= 1
    <3>1. CASE OfClient(c) = {}
      BY <3>1, FS_EmptySet
    <3>2. CASE OfClient(c) # {}
      <4>1. PICK i \in OfClient(c) : TRUE
        BY <3>2
      <4>2. OfClient(c) = {i}
        BY <4>1 DEF MetadataInv, OfClient
      <4> QED
        BY <4>2, FS_Singleton
    <3> QED
      BY <3>1, <3>2
  <2> QED
    BY <2>1, <2>2 DEF StalenessBounded, MetadataInv
<1> QED
  BY <1>1, MetadataHolds, PTL

-----------------------------------------------------------------------------
\* Transcripts.

\* FlattenSeq(seqs) up to its k-th sequence.
Flattens(f, seqs, k) ==
    f = [i \in 1..k |-> IF i = 1 THEN seqs[i] ELSE f[i - 1] \o seqs[i]]

LEMMA FlattenExists ==
    ASSUME NEW seqs, NEW k \in Nat
    PROVE  \E f : Flattens(f, seqs, k)
<1> DEFINE T == {n \in Nat : ~ \E f : Flattens(f, seqs, n)}
<1>1. SUFFICES ASSUME T # {} PROVE FALSE
  OBVIOUS
<1>2. PICK m \in T : \A n \in T : m <= n
  BY <1>1, LeastNatural
<1>3. m # 0
  <2> DEFINE none == [i \in 1..0 |-> IF i = 1 THEN seqs[i] ELSE seqs[i]]
  <2>1. none = [i \in 1..0 |-> IF i = 1 THEN seqs[i] ELSE none[i - 1] \o seqs[i]]
    OBVIOUS
  <2>2. Flattens(none, seqs, 0)
    BY <2>1 DEF Flattens
  <2> QED
    BY <2>2
<1>4. PICK g : Flattens(g, seqs, m - 1)
  BY <1>2, <1>3
<1> DEFINE last == IF m = 1 THEN seqs[m] ELSE g[m - 1] \o seqs[m]
           h == [i \in 1..m |-> IF i < m THEN g[i] ELSE last]
<1>5. \A i \in 1..m : h[i] = IF i = 1 THEN seqs[i] ELSE h[i - 1] \o seqs[i]
  <2> TAKE i \in 1..m
  <2>1. ASSUME i # 1 PROVE h[i - 1] = g[i - 1]
    BY <2>1, <1>3
  <2>2. CASE i = m
    BY <2>1, <2>2, <1>3
  <2>3. CASE i < m
    <3>1. i \in 1..m - 1 /\ h[i] = g[i]
      BY <2>3
    <3>2. g[i] = IF i = 1 THEN seqs[i] ELSE g[i - 1] \o seqs[i]
      BY <3>1, <1>4 DEF Flattens
    <3> QED
      BY <3>1, <3>2, <2>1
  <2> QED
    BY <2>2, <2>3
<1>6. Flattens(h, seqs, m)
  <2> HIDE DEF last
  <2>1. h = [i \in 1..m |-> h[i]]
    OBVIOUS
  <2> HIDE DEF h
  <2> QED
    BY <2>1, <1>5 DEF Flattens
<1> QED
  BY <1>2, <1>6

\* Sequences flattened are a sequence.
LEMMA FlattenRight ==
    ASSUME NEW A, NEW seqs \in Seq(Seq(A))
    PROVE  FlattenSeq(seqs) \in Seq(A)
<1> DEFINE F(f) == f = [i \in 1..Len(seqs) |-> IF i = 1 THEN seqs[i] ELSE f[i - 1] \o seqs[i]]
           flatten == CHOOSE f : F(f)
<1>1. Len(seqs) \in Nat /\ \A i \in 1..Len(seqs) : seqs[i] \in Seq(A)
  OBVIOUS
<1>2. CASE Len(seqs) = 0
  BY <1>2 DEF FlattenSeq
<1>3. CASE Len(seqs) # 0
  <2>1. FlattenSeq(seqs) = flatten[Len(seqs)]
    BY <1>3 DEF FlattenSeq
  <2>2. \E f : F(f)
    <3>1. PICK f : Flattens(f, seqs, Len(seqs))
      BY <1>1, FlattenExists
    <3>2. F(f)
      BY <3>1 DEF Flattens
    <3> QED
      BY <3>2
  <2>3. F(flatten)
    BY <2>2
  <2> HIDE DEF flatten
  <2>4. \A i \in 1..Len(seqs) : flatten[i] = IF i = 1 THEN seqs[i] ELSE flatten[i - 1] \o seqs[i]
    BY <2>3
  <2> DEFINE T == {i \in 1..Len(seqs) : flatten[i] \notin Seq(A)}
  <2>5. SUFFICES ASSUME T # {} PROVE FALSE
    BY <2>1, <1>1, <1>3
  <2>6. PICK m \in T : \A i \in T : m <= i
    <3>1. T \in SUBSET Nat
      BY <1>1
    <3> HIDE DEF T
    <3> QED
      BY <2>5, <3>1, LeastNatural
  <2>7. CASE m = 1
    BY <1>1, <2>4, <2>6, <2>7
  <2>8. CASE m # 1
    <3>1. m - 1 \in 1..Len(seqs) /\ m \in 1..Len(seqs)
      BY <1>1, <2>6, <2>8
    <3>2. flatten[m - 1] \in Seq(A)
      BY <2>6, <3>1
    <3>3. flatten[m] = flatten[m - 1] \o seqs[m]
      BY <2>4, <2>8, <3>1
    <3>4. flatten[m] \in Seq(A)
      BY <1>1, <3>1, <3>2, <3>3, ConcatProperties
    <3> QED
      BY <2>6, <3>4
  <2> QED
    BY <2>7, <2>8
<1> QED
  BY <1>2, <1>3

\* A set of numbers up to n that is not empty has a greatest one.
LEMMA GreatestNatural ==
    ASSUME NEW n \in Nat, NEW T \in SUBSET (0..n), T # {}
    PROVE  Max(T) \in T /\ \A i \in T : i <= Max(T)
<1> DEFINE R == {n - i : i \in T}
<1>1. R \in SUBSET Nat /\ R # {}
  <2>1. \A i \in T : i \in 0..n
    OBVIOUS
  <2>2. \A i \in T : n - i \in Nat
    BY <2>1
  <2> QED
    BY <2>2
<1>2. PICK m \in R : \A i \in R : m <= i
  <2> HIDE DEF R
  <2> QED
    BY <1>1, LeastNatural
<1>3. PICK k \in T : m = n - k
  BY <1>2
<1>4. \A i \in T : k >= i
  <2> TAKE i \in T
  <2>1. n - k <= n - i
    BY <1>2, <1>3
  <2> QED
    BY <2>1, <1>3
<1>5. \E x \in T : \A y \in T : x >= y
  BY <1>3, <1>4
<1>6. Max(T) \in T /\ \A y \in T : Max(T) >= y
  BY <1>5 DEF Max
<1> QED
  BY <1>6

\* A piece is the part of the source from its start on, as long as it is.
IsPiece(piece, source, start) ==
    /\ Len(piece) \in Nat
    /\ piece = SubSeq(source, start + 1, start + Len(piece))
    /\ start <= Len(source) => start + Len(piece) <= Len(source)

LEMMA PieceRight ==
    ASSUME NEW A, NEW source \in Seq(A), NEW start \in Nat
    PROVE  IsPiece(Chunk(source, start), source, start)
<1>1. Len(source) \in Nat /\ \A i \in 1..Len(source) : source[i] \in A
  OBVIOUS
<1>2. ASSUME NEW k \in Nat, start <= Len(source), start + k <= Len(source)
      PROVE  /\ SubSeq(source, start + 1, start + k) \in Seq(A)
             /\ Len(SubSeq(source, start + 1, start + k)) = k
  <2>1. \A i \in start + 1..start + k : source[i] \in A
    BY <1>1, <1>2
  <2> QED
    BY <2>1, <1>2, SubSeqProperties
<1>3. IsPiece(TextChunk(source, start), source, start)
  <2> DEFINE to == IF start + MaxChars < Len(source) THEN start + MaxChars ELSE Len(source)
             k == IF start <= Len(source) THEN to - start ELSE 0
  <2>1. TextChunk(source, start) = SubSeq(source, start + 1, to)
    BY DEF TextChunk
  <2>2. CASE start <= Len(source)
    <3>1. k \in Nat /\ to = start + k /\ start + k <= Len(source)
      BY <1>1, <2>2, ChunksAssumption
    <3> HIDE DEF to, k
    <3> QED
      BY <1>2, <2>1, <2>2, <3>1 DEF IsPiece
  <2>3. CASE start > Len(source)
    <3>1. to = Len(source)
      BY <1>1, <2>3, ChunksAssumption
    <3>2. SubSeq(source, start + 1, Len(source)) = <<>> /\ SubSeq(source, start + 1, start) = <<>>
      BY <1>1, <2>3, SubSeqEmpty
    <3> QED
      BY <1>1, <2>1, <2>3, <3>1, <3>2 DEF IsPiece
  <2> QED
    BY <1>1, <2>2, <2>3
<1>4. IsPiece(SegmentChunk(source, start), source, start)
  <2> DEFINE rest == SubSeq(source, start + 1, Len(source))
             chars(n) == FoldSet(LAMBDA i, sum : Len(rest[i]) + sum, 0, 1..n)
             fits == {n \in 0..Len(rest) : n <= MaxSegments /\ (n <= 1 \/ chars(n) <= MaxChars)}
  <2>1. SegmentChunk(source, start) = SubSeq(rest, 1, Max(fits))
    BY DEF SegmentChunk
  <2> HIDE DEF chars
  <2>2. CASE start <= Len(source)
    <3>1. /\ rest \in Seq(A) /\ Len(rest) = Len(source) - start /\ Len(rest) \in Nat
          /\ \A i \in 1..Len(rest) : rest[i] = source[start + i]
      <4>1. \A i \in start + 1..Len(source) : source[i] \in A
        BY <1>1
      <4> QED
        BY <1>1, <2>2, <4>1, SubSeqProperties
    <3> HIDE DEF rest
    <3>2. 0 \in fits
      BY <3>1, ChunksAssumption
    <3>3. Max(fits) \in 0..Len(rest)
      BY <3>1, <3>2, GreatestNatural
    <3> DEFINE k == Max(fits)
    <3> HIDE DEF fits
    <3>4. k \in Nat /\ k <= Len(rest) /\ start + k <= Len(source)
      BY <1>1, <3>1, <3>3
    <3> HIDE DEF k
    <3>5. /\ SubSeq(rest, 1, k) \in Seq(A) /\ Len(SubSeq(rest, 1, k)) = k
          /\ \A i \in 1..k : SubSeq(rest, 1, k)[i] = rest[i]
      <4>1. \A i \in 1..k : rest[i] \in A
        BY <3>1, <3>4
      <4> QED
        BY <3>4, <4>1, SubSeqProperties
    <3>6. /\ SubSeq(source, start + 1, start + k) \in Seq(A)
          /\ Len(SubSeq(source, start + 1, start + k)) = k
          /\ \A i \in 1..k : SubSeq(source, start + 1, start + k)[i] = source[start + i]
      <4>1. \A i \in start + 1..start + k : source[i] \in A
        BY <1>1, <3>4
      <4> QED
        BY <3>4, <4>1, SubSeqProperties
    <3>7. SubSeq(rest, 1, k) = SubSeq(source, start + 1, start + k)
      <4>1. \A i \in 1..k : SubSeq(rest, 1, k)[i] = SubSeq(source, start + 1, start + k)[i]
        BY <3>1, <3>4, <3>5, <3>6
      <4> QED
        BY <3>5, <3>6, <4>1, SeqEqual
    <3> QED
      BY <2>1, <2>2, <3>4, <3>5, <3>7 DEF IsPiece, k
  <2>3. CASE start > Len(source)
    <3>1. rest = <<>>
      BY <1>1, <2>3, SubSeqEmpty
    <3> HIDE DEF rest
    <3>2. Len(rest) = 0
      BY <3>1
    <3>3. fits = {0}
      BY <3>2, ChunksAssumption
    <3> HIDE DEF fits
    <3>4. Max(fits) = 0
      BY <3>3 DEF Max
    <3>5. SubSeq(rest, 1, 0) = <<>> /\ SubSeq(source, start + 1, start) = <<>>
      BY SubSeqEmpty
    <3> QED
      BY <1>1, <2>1, <2>3, <3>4, <3>5 DEF IsPiece
  <2> QED
    BY <1>1, <2>2, <2>3
<1> QED
  BY <1>3, <1>4 DEF Chunk

\* The pieces read so far are the beginning of one text.
Begins(text) ==
    /\ next <= Len(text)
    /\ collected = SubSeq(text, 1, next)
    /\ ended => next = Len(text)

ChunksTypeOK ==
    /\ format \in Formats /\ transcript \in Transcripts
    /\ revisions \in Nat /\ next \in Nat /\ ended \in BOOLEAN
    /\ IsFiniteSet(prints)

\* Of the transcript that is there, when it never changed; of a text that every
\* piece so far carried the print of.
ChunksInv ==
    /\ ChunksTypeOK
    /\ revisions = 0 => Begins(Source(transcript))
    /\ format = "text" =>
         /\ prints = {} => next = 0 /\ collected = <<>> /\ ~ended
         /\ \A p \in prints : p \in Seq(Nat)
         /\ \A p : prints = {p} => Begins(p)

LEMMA SourceRight ==
    ASSUME ChunksTypeOK
    PROVE  /\ Source(transcript) \in Seq(Nat) \/ Source(transcript) \in Seq(Seq(Nat))
           /\ format = "text" => Source(transcript) \in Seq(Nat)
<1>1. transcript \in Seq(Seq(Nat))
  BY ChunksAssumption DEF ChunksTypeOK
<1>2. Plain(transcript) \in Seq(Nat)
  BY <1>1, FlattenRight DEF Plain
<1> QED
  BY <1>1, <1>2 DEF Source

\* One piece more of the same text.
LEMMA OnePieceMore ==
    ASSUME NEW A, NEW text \in Seq(A), next \in Nat, next <= Len(text),
           collected = SubSeq(text, 1, next),
           next' = next + Len(Chunk(text, next)),
           ended' => next' >= Len(text),
           collected' = collected \o Chunk(text, next)
    PROVE  Begins(text)'
<1> DEFINE piece == Chunk(text, next)
<1>1. /\ Len(piece) \in Nat
      /\ piece = SubSeq(text, next + 1, next + Len(piece))
      /\ next + Len(piece) <= Len(text)
  BY PieceRight DEF IsPiece
<1> HIDE DEF piece
<1>2. Len(text) \in Nat
  OBVIOUS
<1>3. SubSeq(text, 1, next) \o SubSeq(text, next + 1, next + Len(piece))
        = SubSeq(text, 1, next + Len(piece))
  <2> DEFINE end == next + Len(piece)
  <2>1. 1 \in 1..Len(text) + 1 /\ next \in 1 - 1..Len(text) /\ end \in next..Len(text)
    BY <1>1, <1>2
  <2> HIDE DEF end
  <2>2. SubSeq(text, 1, next) \o SubSeq(text, next + 1, end) = SubSeq(text, 1, end)
    BY <2>1, ConcatAdjacentSubSeq
  <2> QED
    BY <2>2 DEF end
<1>4. next' = next + Len(piece) /\ collected' = collected \o piece
  BY DEF piece
<1>5. collected' = SubSeq(text, 1, next')
  BY <1>1, <1>3, <1>4
<1>6. next' <= Len(text) /\ (ended' => next' = Len(text))
  BY <1>1, <1>2, <1>4
<1> QED
  BY <1>5, <1>6 DEF Begins

\* The first piece: nothing has been read before it.
LEMMA NothingRead ==
    ASSUME NEW A, NEW text \in Seq(A), next = 0, collected = <<>>, ~ended
    PROVE  next <= Len(text) /\ collected = SubSeq(text, 1, next)
  BY SubSeqEmpty

LEMMA ChunksInitRight == ChunkInit => ChunksInv
<1> SUFFICES ASSUME ChunkInit PROVE ChunksInv
  OBVIOUS
<1>1. ChunksTypeOK
  BY FS_EmptySet DEF ChunkInit, ChunksTypeOK
<1>2. Begins(Source(transcript))
  BY <1>1, SourceRight, NothingRead DEF ChunkInit, Begins
<1> QED
  BY <1>1, <1>2 DEF ChunkInit, ChunksInv

LEMMA ChunksStepRight == ChunksInv /\ [ChunkNext]_chunkVars => ChunksInv'
<1> SUFFICES ASSUME ChunksInv, [ChunkNext]_chunkVars PROVE ChunksInv'
  OBVIOUS
<1>1. CASE ReadChunk
  <2> DEFINE source == Source(transcript)
  <2>1. /\ ~ended /\ next' = next + Len(Chunk(source, next))
        /\ ended' = (next' >= Len(source)) /\ collected' = collected \o Chunk(source, next)
        /\ prints' = IF format = "text" THEN prints \cup {source} ELSE prints
        /\ UNCHANGED <<format, transcript, revisions>>
    BY <1>1 DEF ReadChunk
  <2>2. ChunksTypeOK /\ (source \in Seq(Nat) \/ source \in Seq(Seq(Nat)))
        /\ (format = "text" => source \in Seq(Nat))
    BY SourceRight DEF ChunksInv
  <2>3. source' = source
    BY <2>1 DEF Source
  <2> HIDE DEF source
  <2>4. ChunksTypeOK'
    <3>1. next' \in Nat
      BY <2>1, <2>2, PieceRight DEF IsPiece, ChunksTypeOK
    <3>2. IsFiniteSet(prints')
      BY <2>1, <2>2, FS_AddElement DEF ChunksTypeOK
    <3> QED
      BY <2>1, <2>2, <3>1, <3>2 DEF ChunksTypeOK
  <2>5. ASSUME revisions' = 0 PROVE Begins(source)'
    <3>1. next \in Nat /\ next <= Len(source) /\ collected = SubSeq(source, 1, next)
      BY <2>1, <2>2, <2>5 DEF ChunksInv, Begins, ChunksTypeOK, source
    <3>2. Begins(source)' <=> /\ next' <= Len(source) /\ collected' = SubSeq(source, 1, next')
                              /\ ended' => next' = Len(source)
      BY <2>3 DEF Begins
    <3> QED
      BY <2>1, <2>2, <2>3, <3>1, <3>2, OnePieceMore DEF Begins
  <2>6. ASSUME format' = "text"
        PROVE  /\ prints' # {}
               /\ \A p \in prints' : p \in Seq(Nat)
    BY <2>1, <2>2, <2>6 DEF ChunksInv
  <2>7. ASSUME format' = "text", NEW p, prints' = {p} PROVE Begins(p)'
    <3>1. p = source /\ (prints = {} \/ prints = {p})
      BY <2>1, <2>7
    <3>2. next \in Nat /\ next <= Len(p) /\ collected = SubSeq(p, 1, next)
      <4>1. CASE prints = {}
        BY <2>1, <2>2, <2>7, <3>1, <4>1, NothingRead DEF ChunksInv
      <4>2. CASE prints = {p}
        BY <2>1, <2>2, <2>7, <4>2 DEF ChunksInv, Begins, ChunksTypeOK
      <4> QED
        BY <3>1, <4>1, <4>2
    <3> QED
      BY <2>1, <2>2, <2>7, <3>1, <3>2, OnePieceMore DEF Begins
  <2> QED
    BY <2>4, <2>5, <2>6, <2>7 DEF ChunksInv, source
<1>2. CASE Retranscribe
  BY <1>2 DEF Retranscribe, ChunksInv, ChunksTypeOK, Begins
<1>3. CASE UNCHANGED chunkVars
  BY <1>3 DEF chunkVars, ChunksInv, ChunksTypeOK, Begins, Source
<1> QED
  BY <1>1, <1>2, <1>3 DEF ChunkNext

LEMMA ChunksHold == ChunkSpec => []ChunksInv
  BY ChunksInitRight, ChunksStepRight, PTL DEF ChunkSpec

\* For any text and any limits of a piece: the pieces of a transcript that never
\* changed are the transcript, and pieces that all carry one source_sha256 are
\* the text it is the print of, whatever OKK did between them
\* (get_call_transcript, get_supervisor_call_transcript).
THEOREM PiecesRebuild == ChunkSpec => []ChunksRebuild
<1>1. ChunksInv => ChunksRebuild
  <2> SUFFICES ASSUME ChunksInv, ended PROVE ChunksRebuild
    BY DEF ChunksRebuild
  <2>1. ASSUME NEW A, NEW text \in Seq(A), Begins(text) PROVE collected = text
    BY <2>1, SubSeqFull DEF Begins
  <2>2. ASSUME revisions = 0 PROVE collected = Source(transcript)
    <3>1. Begins(Source(transcript))
      BY <2>2 DEF ChunksInv
    <3>2. Source(transcript) \in Seq(Nat) \/ Source(transcript) \in Seq(Seq(Nat))
      BY SourceRight DEF ChunksInv
    <3> QED
      BY <2>1, <3>1, <3>2
  <2>3. ASSUME format = "text", Cardinality(prints) = 1 PROVE prints = {collected}
    <3>1. PICK p : prints = {p}
      BY <2>3, FS_Singleton DEF ChunksInv, ChunksTypeOK
    <3>2. p \in Seq(Nat) /\ Begins(p)
      BY <2>3, <3>1 DEF ChunksInv
    <3> QED
      BY <2>1, <3>1, <3>2
  <2> QED
    BY <2>2, <2>3 DEF ChunksRebuild
<1> QED
  BY <1>1, ChunksHold, PTL

-----------------------------------------------------------------------------
\* Lists read page by page.

Read == (page - 1) * PageSize   \* how far into the list the pages reach
Capped == reader \in {"journal", "directory"}

PagesTypeOK ==
    /\ reader \in {"journal", "directory", "catalog"}
    /\ list \in Seq(Entries) /\ IsInjective(list)
    /\ page \in Nat \ {0} /\ rows \in Seq(Entries)
    /\ excluded \in Nat /\ verdict \in {"reading", "complete", "cut"}
    /\ arrivals \in Nat /\ departures \in Nat
    /\ stayed \subseteq ToSet(list)

\* A list that stands still: what was read is its beginning.
Still ==
    arrivals + departures = 0 =>
        /\ excluded = 0
        /\ verdict = "reading" => /\ rows = SubSeq(list, 1, Read)
                                  /\ Read = 0 \/ Read < Len(list)
        /\ verdict = "complete" => rows = list /\ (Capped => Len(list) <= Cap)
        /\ verdict = "cut" => Capped /\ Len(list) > Cap /\ rows = SubSeq(list, 1, Cap)

\* What was there all along, stands where the pages have been, and was not
\* read: one per departure at most.
Passed == {e \in stayed \ ToSet(rows) : \E i \in DOMAIN list : list[i] = e /\ i <= Read}
Loss ==
    /\ verdict = "reading" => Cardinality(Passed) <= departures
    /\ verdict = "complete" => Cardinality(stayed \ ToSet(rows)) <= departures

PagesInv == PagesTypeOK /\ NeverTwice /\ Still /\ Loss

-----------------------------------------------------------------------------
\* What a quotient is.
LEMMA Quotient ==
    ASSUME NEW a \in Nat, NEW d \in Nat \ {0}
    PROVE  a \div d \in Nat /\ (a \div d) * d <= a /\ a < (a \div d) * d + d
  OBVIOUS

LEMMA Monotone ==
    ASSUME NEW a \in Nat, NEW b \in Nat, NEW d \in Nat, a <= b
    PROVE  a * d <= b * d
  OBVIOUS

\* The page asked for is the last one just when the pages so far hold the list.
LEMMA LastPage ==
    ASSUME PagesTypeOK
    PROVE  page >= Pages <=> page * PageSize >= Len(list)
<1> DEFINE L == Len(list)
           q == (L + PageSize - 1) \div PageSize
<1>1. L \in Nat /\ PageSize \in Nat \ {0} /\ page \in Nat \ {0}
  BY PagesAssumption DEF PagesTypeOK
<1>2. list = <<>> <=> L = 0
  BY DEF PagesTypeOK
<1> HIDE DEF L
<1>3. CASE L = 0
  <2>1. page * PageSize >= 0
    BY <1>1
  <2> QED
    BY <1>1, <1>2, <1>3, <2>1 DEF Pages, L
<1>4. CASE L # 0
  <2>1. q \in Nat /\ q * PageSize <= L + PageSize - 1 /\ L + PageSize - 1 < q * PageSize + PageSize
    BY <1>1, <1>4, Quotient
  <2> HIDE DEF q
  <2>2. ASSUME page >= q PROVE page * PageSize >= L
    <3>1. q * PageSize <= page * PageSize
      BY <1>1, <2>1, <2>2, Monotone
    <3> DEFINE a == q * PageSize
               b == page * PageSize
    <3>2. a \in Nat /\ b \in Nat
      BY <1>1, <2>1
    <3> HIDE DEF a, b
    <3>3. b >= L
      BY <1>1, <2>1, <3>1, <3>2 DEF a, b
    <3> QED
      BY <3>3 DEF b
  <2>3. ASSUME page < q PROVE page * PageSize < L
    <3>1. (page + 1) * PageSize <= q * PageSize
      BY <1>1, <2>1, <2>3, Monotone
    <3>2. (page + 1) * PageSize = page * PageSize + PageSize
      BY <1>1
    <3> DEFINE a == q * PageSize
               b == page * PageSize
    <3>3. a \in Nat /\ b \in Nat
      BY <1>1, <2>1
    <3>4. b + PageSize <= a
      BY <3>1, <3>2
    <3>5. a <= L + PageSize - 1
      BY <2>1
    <3> HIDE DEF a, b
    <3>6. b < L
      BY <1>1, <3>3, <3>4, <3>5
    <3> QED
      BY <3>6 DEF b
  <2>4. Pages = q
    BY <1>2, <1>4 DEF Pages, q, L
  <2>5. page * PageSize \in Nat
    BY <1>1
  <2> QED
    BY <1>1, <2>1, <2>2, <2>3, <2>4, <2>5 DEF L
<1> QED
  BY <1>3, <1>4

\* Where the page asked for ends in the list.
Ends == IF page * PageSize < Len(list) THEN page * PageSize ELSE Len(list)

LEMMA ReadRight ==
    ASSUME PagesTypeOK
    PROVE  /\ Read \in Nat /\ Len(list) \in Nat /\ Ends \in Nat
           /\ page * PageSize = Read + PageSize
           /\ Ends <= Len(list)
           /\ Ends = IF page >= Pages THEN Len(list) ELSE Read + PageSize
           /\ page < Pages => Read + PageSize < Len(list)
           /\ page >= Pages => Len(list) <= Read + PageSize
           /\ page < Pages <=> ~(page >= Pages)
           /\ PageSize \in Nat \ {0}
<1>1. page \in Nat \ {0} /\ PageSize \in Nat \ {0} /\ Len(list) \in Nat
  BY PagesAssumption DEF PagesTypeOK
<1>2. Read \in Nat
  <2>1. page - 1 \in Nat
    BY <1>1
  <2> QED
    BY <1>1, <2>1 DEF Read
<1>3. page * PageSize = Read + PageSize
  BY <1>1 DEF Read
<1>4. Pages \in Nat
  <2>1. Len(list) + PageSize - 1 \in Nat
    BY <1>1
  <2>2. (Len(list) + PageSize - 1) \div PageSize \in Nat
    BY <1>1, <2>1, Quotient
  <2> QED
    BY <2>2 DEF Pages
<1>5. page >= Pages <=> Read + PageSize >= Len(list)
  BY <1>3, LastPage
<1> QED
  BY <1>1, <1>2, <1>3, <1>4, <1>5 DEF Ends

\* The rows of the page asked for are those of the list behind the pages read.
LEMMA ItemsRight ==
    ASSUME PagesTypeOK
    PROVE  /\ Items(page) \in Seq(Entries) /\ IsInjective(Items(page))
           /\ Items(page) = SubSeq(list, Read + 1, Ends)
           /\ ToSet(Items(page)) = {list[i] : i \in Read + 1..Ends}
<1> DEFINE items == Items(page)
<1>1. /\ Read \in Nat /\ Len(list) \in Nat /\ Ends \in Nat /\ Ends <= Len(list)
  BY ReadRight
<1>2. items = SubSeq(list, Read + 1, Ends)
  BY DEF Items, Ends, Read
<1>3. \A i \in Read + 1..Ends : list[i] \in Entries /\ i \in DOMAIN list
  BY <1>1 DEF PagesTypeOK
<1>4. /\ items \in Seq(Entries)
      /\ Len(items) = IF Read + 1 <= Ends THEN Ends - (Read + 1) + 1 ELSE 0
      /\ \A i \in 1..Ends - (Read + 1) + 1 : items[i] = list[Read + 1 + i - 1]
  BY <1>1, <1>2, <1>3, SubSeqProperties
<1> HIDE DEF items
<1>5. DOMAIN items = 1..Ends - Read
  BY <1>1, <1>4
<1>6. \A i \in 1..Ends - Read : items[i] = list[Read + i]
  BY <1>1, <1>4
<1>7. IsInjective(items)
  <2> SUFFICES ASSUME NEW i \in 1..Ends - Read, NEW j \in 1..Ends - Read, items[i] = items[j]
               PROVE  i = j
    BY <1>5 DEF IsInjective
  <2>1. Read + i \in DOMAIN list /\ Read + j \in DOMAIN list
    BY <1>1, <1>3
  <2>2. Read + i = Read + j
    BY <1>6, <2>1 DEF PagesTypeOK, IsInjective
  <2> QED
    BY <1>1, <2>2
<1>8. ToSet(items) = {list[i] : i \in Read + 1..Ends}
  <2>1. ASSUME NEW i \in 1..Ends - Read PROVE items[i] \in {list[k] : k \in Read + 1..Ends}
    <3>1. Read + i \in Read + 1..Ends
      BY <1>1
    <3> QED
      BY <1>6, <3>1
  <2>2. ASSUME NEW k \in Read + 1..Ends PROVE list[k] \in {items[i] : i \in 1..Ends - Read}
    <3>1. k - Read \in 1..Ends - Read /\ Read + (k - Read) = k
      BY <1>1
    <3>2. items[k - Read] = list[k]
      BY <1>6, <3>1
    <3> QED
      BY <3>1, <3>2
  <2> QED
    BY <1>5, <2>1, <2>2 DEF ToSet
<1> QED
  BY <1>2, <1>4, <1>7, <1>8 DEF items

LEMMA ToSetOfConcat ==
    ASSUME NEW A, NEW s \in Seq(A), NEW t \in Seq(A)
    PROVE  ToSet(s \o t) = ToSet(s) \cup ToSet(t)
<1>1. /\ s \o t \in Seq(A) /\ Len(s \o t) = Len(s) + Len(t)
      /\ \A i \in 1..Len(s) + Len(t) : (s \o t)[i] = IF i <= Len(s) THEN s[i] ELSE t[i - Len(s)]
      /\ Len(s) \in Nat /\ Len(t) \in Nat
  BY ConcatProperties
<1> DEFINE u == s \o t
<1>2. DOMAIN u = 1..Len(s) + Len(t) /\ DOMAIN s = 1..Len(s) /\ DOMAIN t = 1..Len(t)
  BY <1>1
<1> HIDE DEF u
<1>3. \A i \in DOMAIN u : u[i] \in ToSet(s) \cup ToSet(t)
  <2> TAKE i \in DOMAIN u
  <2>1. CASE i <= Len(s)
    BY <1>1, <1>2, <2>1 DEF ToSet, u
  <2>2. CASE i > Len(s)
    <3>1. i - Len(s) \in 1..Len(t) /\ u[i] = t[i - Len(s)]
      BY <1>1, <1>2, <2>2 DEF u
    <3> QED
      BY <1>2, <3>1 DEF ToSet
  <2> QED
    BY <1>1, <1>2, <2>1, <2>2
<1>4. \A i \in DOMAIN s : s[i] \in ToSet(u)
  <2> TAKE i \in DOMAIN s
  <2>1. i \in DOMAIN u /\ u[i] = s[i]
    BY <1>1, <1>2 DEF u
  <2> QED
    BY <2>1 DEF ToSet
<1>5. \A i \in DOMAIN t : t[i] \in ToSet(u)
  <2> TAKE i \in DOMAIN t
  <2>1. Len(s) + i \in DOMAIN u /\ u[Len(s) + i] = t[i]
    BY <1>1, <1>2 DEF u
  <2> QED
    BY <2>1 DEF ToSet
<1>6. ToSet(u) \subseteq ToSet(s) \cup ToSet(t)
  BY <1>3 DEF ToSet
<1>7. ToSet(s) \subseteq ToSet(u) /\ ToSet(t) \subseteq ToSet(u)
  BY <1>4, <1>5 DEF ToSet
<1> QED
  BY <1>6, <1>7 DEF u

LEMMA InjectiveConcat ==
    ASSUME NEW A, NEW s \in Seq(A), NEW t \in Seq(A), IsInjective(s), IsInjective(t),
           ToSet(s) \cap ToSet(t) = {}
    PROVE  IsInjective(s \o t)
<1>1. /\ s \o t \in Seq(A) /\ Len(s \o t) = Len(s) + Len(t)
      /\ \A i \in 1..Len(s) + Len(t) : (s \o t)[i] = IF i <= Len(s) THEN s[i] ELSE t[i - Len(s)]
      /\ Len(s) \in Nat /\ Len(t) \in Nat
  BY ConcatProperties
<1> DEFINE u == s \o t
<1>2. DOMAIN u = 1..Len(s) + Len(t) /\ DOMAIN s = 1..Len(s) /\ DOMAIN t = 1..Len(t)
  BY <1>1
<1>3. \A i \in DOMAIN u : \/ i \in DOMAIN s /\ u[i] = s[i]
                          \/ i - Len(s) \in DOMAIN t /\ u[i] = t[i - Len(s)] /\ i \notin DOMAIN s
  BY <1>1, <1>2
<1> HIDE DEF u
<1>4. \A i \in DOMAIN s, j \in DOMAIN t : s[i] # t[j]
  BY DEF ToSet
<1> SUFFICES ASSUME NEW i \in DOMAIN u, NEW j \in DOMAIN u, u[i] = u[j] PROVE i = j
  BY DEF IsInjective, u
<1>5. CASE i \in DOMAIN s
  BY <1>2, <1>3, <1>4, <1>5 DEF IsInjective
<1>6. CASE i \notin DOMAIN s
  <2>1. j \notin DOMAIN s
    BY <1>3, <1>4, <1>6
  <2>2. i - Len(s) = j - Len(s)
    BY <1>3, <1>6, <2>1 DEF IsInjective
  <2> QED
    BY <1>1, <1>2, <2>2
<1> QED
  BY <1>5, <1>6

\* A page with the rows that were read already left out.
LEMMA FreshRight ==
    ASSUME PagesTypeOK
    PROVE  LET items == Items(page)
               all == rows \o Fresh(items)
           IN  /\ Fresh(items) \in Seq(Entries) /\ all \in Seq(Entries)
               /\ Len(Fresh(items)) <= Len(items)
               /\ ToSet(all) = ToSet(rows) \cup ToSet(items)
               /\ IsInjective(rows) => IsInjective(all)
               /\ ToSet(items) \cap ToSet(rows) = {} => Fresh(items) = items
<1> DEFINE items == Items(page)
           new == ToSet(items) \ ToSet(rows)
           fresh == Filter(items, new)
<1>1. items \in Seq(Entries) /\ IsInjective(items) /\ rows \in Seq(Entries)
  BY ItemsRight DEF PagesTypeOK
<1>2. Fresh(items) = fresh
  BY DEF Fresh
<1> HIDE DEF items, new
<1>3. /\ fresh \in Seq(Entries) /\ ToSet(fresh) = ToSet(items) \cap new
      /\ Len(fresh) <= Len(items) /\ IsInjective(fresh)
      /\ ToSet(items) \subseteq new => fresh = items
  BY <1>1, FilterRight
<1> HIDE DEF fresh
<1>4. rows \o fresh \in Seq(Entries) /\ ToSet(rows \o fresh) = ToSet(rows) \cup ToSet(fresh)
  BY <1>1, <1>3, ConcatProperties, ToSetOfConcat
<1>5. IsInjective(rows) => IsInjective(rows \o fresh)
  BY <1>1, <1>3, InjectiveConcat DEF new
<1>6. ToSet(rows \o fresh) = ToSet(rows) \cup ToSet(items)
  BY <1>3, <1>4 DEF new
<1>7. ToSet(items) \cap ToSet(rows) = {} => fresh = items
  BY <1>3 DEF new
<1> QED
  BY <1>2, <1>3, <1>4, <1>5, <1>6, <1>7 DEF items

\* The beginning of a list that stands still, one page on.
LEMMA BeginningGrows ==
    ASSUME PagesTypeOK, Read = 0 \/ Read < Len(list), rows = SubSeq(list, 1, Read)
    PROVE  /\ rows \o Items(page) = SubSeq(list, 1, Ends)
           /\ Len(SubSeq(list, 1, Ends)) = Ends
           /\ ToSet(Items(page)) \cap ToSet(rows) = {}
<1>1. /\ Read \in Nat /\ Len(list) \in Nat /\ Ends \in Nat /\ Ends <= Len(list) /\ Read <= Ends
      /\ list \in Seq(Entries)
  BY ReadRight DEF PagesTypeOK
<1>2. /\ Items(page) = SubSeq(list, Read + 1, Ends)
      /\ ToSet(Items(page)) = {list[i] : i \in Read + 1..Ends}
  BY ItemsRight
<1>3. \A i \in 1..Len(list) : list[i] \in Entries
  BY <1>1
<1>4. /\ Len(SubSeq(list, 1, Read)) = Read
      /\ \A i \in 1..Read : SubSeq(list, 1, Read)[i] = list[i]
  BY <1>1, <1>3, SubSeqProperties
<1>5. Len(SubSeq(list, 1, Ends)) = Ends
  BY <1>1, <1>3, SubSeqProperties
<1>6. SubSeq(list, 1, Read) \o SubSeq(list, Read + 1, Ends) = SubSeq(list, 1, Ends)
  <2>1. 1 \in 1..Len(list) + 1 /\ Read \in 1 - 1..Len(list) /\ Ends \in Read..Len(list)
    BY <1>1
  <2> QED
    BY <1>1, <2>1, ConcatAdjacentSubSeq
<1>7. ToSet(rows) = {list[i] : i \in 1..Read}
  <2>1. DOMAIN rows = 1..Read
    BY <1>1, <1>3, <1>4
  <2> QED
    BY <1>4, <2>1 DEF ToSet
<1>8. \A i \in 1..Read, j \in Read + 1..Ends : list[i] # list[j]
  BY <1>1 DEF PagesTypeOK, IsInjective
<1> QED
  BY <1>2, <1>5, <1>6, <1>7, <1>8

LEMMA UpToRight ==
    ASSUME NEW s \in Seq(Entries), NEW n \in Nat
    PROVE  /\ UpTo(s, n) \in Seq(Entries) /\ Len(UpTo(s, n)) <= n
           /\ IsInjective(s) => IsInjective(UpTo(s, n))
           /\ Len(s) >= n => UpTo(s, n) = SubSeq(s, 1, n)
           /\ Len(s) <= n => UpTo(s, n) = s
<1> DEFINE k == IF Len(s) < n THEN Len(s) ELSE n
<1>1. Len(s) \in Nat /\ DOMAIN s = 1..Len(s) /\ k \in Nat /\ k <= Len(s) /\ k <= n
  OBVIOUS
<1>2. UpTo(s, n) = SubSeq(s, 1, k)
  BY DEF UpTo
<1>3. Len(s) >= n => k = n
  OBVIOUS
<1>4. Len(s) <= n => k = Len(s)
  OBVIOUS
<1> HIDE DEF k
<1>5. \A i \in 1..k : s[i] \in Entries
  BY <1>1
<1>6. /\ SubSeq(s, 1, k) \in Seq(Entries) /\ Len(SubSeq(s, 1, k)) = k
      /\ \A i \in 1..k : SubSeq(s, 1, k)[i] = s[i]
  BY <1>1, <1>5, SubSeqProperties
<1>7. DOMAIN SubSeq(s, 1, k) = 1..k
  BY <1>6
<1>8. IsInjective(s) => IsInjective(SubSeq(s, 1, k))
  BY <1>1, <1>6, <1>7 DEF IsInjective
<1> QED
  BY <1>1, <1>2, <1>3, <1>4, <1>6, <1>8, SubSeqFull

LEMMA SubSeqOfBeginning ==
    ASSUME NEW s \in Seq(Entries), NEW e \in Nat, e <= Len(s), NEW n \in Nat, n <= e
    PROVE  SubSeq(SubSeq(s, 1, e), 1, n) = SubSeq(s, 1, n)
<1> DEFINE t == SubSeq(s, 1, e)
<1>1. \A i \in 1..e : s[i] \in Entries
  OBVIOUS
<1>2. t \in Seq(Entries) /\ Len(t) = e /\ \A i \in 1..e : t[i] = s[i]
  BY <1>1, SubSeqProperties
<1> HIDE DEF t
<1>3. /\ SubSeq(s, 1, n) \in Seq(Entries) /\ Len(SubSeq(s, 1, n)) = n
      /\ \A i \in 1..n : SubSeq(s, 1, n)[i] = s[i]
  <2>1. \A i \in 1..n : s[i] \in Entries
    BY <1>1
  <2> QED
    BY <2>1, SubSeqProperties
<1>4. /\ SubSeq(t, 1, n) \in Seq(Entries) /\ Len(SubSeq(t, 1, n)) = n
      /\ \A i \in 1..n : SubSeq(t, 1, n)[i] = t[i]
  <2>1. \A i \in 1..n : t[i] \in Entries
    BY <1>1, <1>2
  <2> QED
    BY <2>1, SubSeqProperties
<1>5. \A i \in 1..n : SubSeq(t, 1, n)[i] = SubSeq(s, 1, n)[i]
  BY <1>2, <1>3, <1>4
<1>6. SubSeq(t, 1, n) = SubSeq(s, 1, n)
  BY <1>3, <1>4, <1>5, SeqEqual
<1> QED
  BY <1>6 DEF t

\* Whatever stayed and is in the list of a finite length is finite.
LEMMA StayedFinite ==
    ASSUME PagesTypeOK
    PROVE  /\ IsFiniteSet(stayed)
           /\ \A T \in SUBSET stayed : IsFiniteSet(T) /\ Cardinality(T) \in Nat
<1>1. IsFiniteSet(1..Len(list)) /\ DOMAIN list = 1..Len(list)
  BY FS_Interval DEF PagesTypeOK
<1>2. list \in Surjection(1..Len(list), ToSet(list))
  BY <1>1 DEF PagesTypeOK, Surjection, ToSet
<1>3. IsFiniteSet(ToSet(list))
  BY <1>1, <1>2, FS_Surjection
<1>4. IsFiniteSet(stayed)
  BY <1>3, FS_Subset DEF PagesTypeOK
<1>5. ASSUME NEW T \in SUBSET stayed PROVE IsFiniteSet(T) /\ Cardinality(T) \in Nat
  BY <1>4, FS_Subset, FS_CardinalityType
<1> QED
  BY <1>4, <1>5

\* A page more, whatever is kept of it, loses no more than was lost before, as
\* long as the pages so far are kept.
LEMMA PageLosesNothing ==
    ASSUME PagesInv, verdict = "reading", NEW kept,
           ToSet(rows) \cup ToSet(Items(page)) \subseteq kept
    PROVE  LET left == {e \in stayed \ kept : \E i \in DOMAIN list : list[i] = e /\ i <= Read + PageSize}
           IN  /\ Cardinality(left) <= departures
               /\ page >= Pages => left = stayed \ kept
<1> DEFINE left == {e \in stayed \ kept : \E i \in DOMAIN list : list[i] = e /\ i <= Read + PageSize}
<1>1. /\ PagesTypeOK /\ Cardinality(Passed) <= departures /\ departures \in Nat
  BY DEF PagesInv, Loss, PagesTypeOK
<1>2. /\ Read \in Nat /\ Len(list) \in Nat /\ Ends \in Nat /\ DOMAIN list = 1..Len(list)
      /\ \A i \in DOMAIN list : i <= Read + PageSize => i <= Ends
      /\ page >= Pages => Len(list) <= Read + PageSize
      /\ PageSize \in Nat
  BY <1>1, ReadRight DEF PagesTypeOK
<1>3. left \subseteq Passed
  <2> SUFFICES ASSUME NEW e \in left PROVE e \in Passed
    OBVIOUS
  <2>1. PICK i \in DOMAIN list : list[i] = e /\ i <= Ends
    BY <1>2
  <2>2. e \notin ToSet(Items(page)) /\ e \notin ToSet(rows)
    OBVIOUS
  <2>3. i \notin Read + 1..Ends
    BY <1>1, <2>1, <2>2, ItemsRight
  <2>4. i <= Read
    BY <1>2, <2>1, <2>3
  <2> QED
    BY <2>1, <2>2, <2>4 DEF Passed
<1>4. Cardinality(left) <= departures
  <2>1. IsFiniteSet(Passed) /\ Cardinality(Passed) \in Nat
    BY <1>1, StayedFinite DEF Passed
  <2>2. Cardinality(left) \in Nat /\ Cardinality(left) <= Cardinality(Passed)
    BY <1>3, <2>1, FS_Subset, FS_CardinalityType
  <2> QED
    BY <1>1, <2>1, <2>2
<1>5. page >= Pages => left = stayed \ kept
  <2>1. \A e \in stayed : \E i \in DOMAIN list : list[i] = e
    BY <1>1 DEF PagesTypeOK, ToSet
  <2> QED
    BY <1>2, <2>1
<1> QED
  BY <1>4, <1>5

\* What the two readings share: the rows of a page are appended, and the reading
\* goes on or ends with the last page.
LEMMA PageAppended ==
    ASSUME PagesInv, verdict = "reading", NEW all \in Seq(Entries),
           ToSet(all) = ToSet(rows) \cup ToSet(Items(page)), rows' = all,
           verdict' = (IF page >= Pages THEN "complete" ELSE "reading"),
           page' = page + 1, UNCHANGED <<reader, list, arrivals, departures, stayed>>
    PROVE  Loss' /\ Read' = Read + PageSize
<1>1. /\ PagesTypeOK /\ Read' = Read + PageSize
  <2>1. PagesTypeOK /\ page * PageSize = Read + PageSize /\ page \in Nat
    BY ReadRight DEF PagesInv, PagesTypeOK
  <2>2. Read' = page * PageSize
    BY <2>1 DEF Read
  <2> QED
    BY <2>1, <2>2
<1> DEFINE left == {e \in stayed \ ToSet(all) : \E i \in DOMAIN list : list[i] = e /\ i <= Read + PageSize}
<1>2. /\ Cardinality(left) <= departures
      /\ page >= Pages => left = stayed \ ToSet(all)
  BY PageLosesNothing
<1>3. Passed' = left
  BY <1>1 DEF Passed
<1> HIDE DEF left
<1>4. verdict' = "complete" => Cardinality(stayed' \ ToSet(rows')) <= departures'
  BY <1>2
<1>5. verdict' = "reading" => Cardinality(Passed') <= departures'
  BY <1>2, <1>3
<1> QED
  BY <1>1, <1>4, <1>5 DEF Loss

LEMMA ReadCatalogRight ==
    ASSUME PagesInv, ReadCatalog
    PROVE  PagesInv'
<1> DEFINE all == rows \o Items(page)
<1>1. /\ PagesTypeOK /\ verdict = "reading" /\ reader = "catalog"
      /\ rows' = all /\ page' = page + 1
      /\ verdict' = IF page >= Pages THEN "complete" ELSE "reading"
      /\ UNCHANGED <<reader, list, excluded, arrivals, departures, stayed>>
  BY DEF PagesInv, ReadCatalog
<1>2. all \in Seq(Entries) /\ ToSet(all) = ToSet(rows) \cup ToSet(Items(page))
  BY <1>1, ItemsRight, ToSetOfConcat DEF PagesTypeOK
<1>3. PagesTypeOK'
  BY <1>1, <1>2 DEF PagesTypeOK
<1>4. Loss' /\ Read' = Read + PageSize
  BY <1>1, <1>2, PageAppended
<1>5. ASSUME arrivals' + departures' = 0
      PROVE  /\ excluded' = 0
             /\ verdict' = "reading" => rows' = SubSeq(list, 1, Read') /\ Read' < Len(list)
             /\ verdict' = "complete" => rows' = list
  <2>1. excluded = 0 /\ rows = SubSeq(list, 1, Read) /\ (Read = 0 \/ Read < Len(list))
    BY <1>1, <1>5 DEF PagesInv, Still
  <2>2. all = SubSeq(list, 1, Ends)
    BY <1>1, <2>1, BeginningGrows
  <2>3. /\ Ends = IF page >= Pages THEN Len(list) ELSE Read + PageSize
        /\ page < Pages => Read + PageSize < Len(list)
        /\ page < Pages <=> ~(page >= Pages)
    BY <1>1, ReadRight
  <2>4. SubSeq(list, 1, Len(list)) = list
    BY <1>1, SubSeqFull DEF PagesTypeOK
  <2> QED
    BY <1>1, <1>4, <2>1, <2>2, <2>3, <2>4
<1>6. Still'
  BY <1>1, <1>5 DEF Still, Capped
<1> QED
  BY <1>1, <1>3, <1>4, <1>6 DEF PagesInv, NeverTwice

LEMMA ReadCappedRight ==
    ASSUME PagesInv, ReadCapped
    PROVE  PagesInv'
<1> DEFINE items == Items(page)
           all == rows \o Fresh(items)
           over == Len(all) >= Cap /\ (page < Pages \/ Len(all) > Cap)
<1>1. /\ PagesTypeOK /\ verdict = "reading" /\ reader \in {"journal", "directory"}
      /\ rows' = IF over THEN UpTo(all, Cap) ELSE all
      /\ excluded' = IF reader = "directory" THEN excluded + Len(items) - Len(Fresh(items))
                                             ELSE excluded
      /\ verdict' = IF over THEN "cut" ELSE IF page >= Pages THEN "complete" ELSE "reading"
      /\ page' = page + 1
      /\ UNCHANGED <<reader, list, arrivals, departures, stayed>>
  BY DEF PagesInv, ReadCapped
<1>2. /\ items \in Seq(Entries) /\ Fresh(items) \in Seq(Entries) /\ all \in Seq(Entries)
      /\ Len(Fresh(items)) <= Len(items)
      /\ ToSet(all) = ToSet(rows) \cup ToSet(items)
      /\ IsInjective(rows) => IsInjective(all)
      /\ ToSet(items) \cap ToSet(rows) = {} => Fresh(items) = items
  BY <1>1, FreshRight, ItemsRight
<1>3. IsInjective(rows) /\ Len(rows) <= Cap /\ Cap \in Nat \ {0}
  BY <1>1, PagesAssumption DEF PagesInv, NeverTwice
<1>4. Len(all) \in Nat /\ Len(items) \in Nat /\ Len(Fresh(items)) \in Nat
  BY <1>2
<1>5. page < Pages <=> ~(page >= Pages)
  BY <1>1, ReadRight
<1>6. /\ Read \in Nat /\ Len(list) \in Nat /\ Ends \in Nat
      /\ Ends <= Len(list)
      /\ Ends = IF page >= Pages THEN Len(list) ELSE Read + PageSize
      /\ page < Pages => Read + PageSize < Len(list)
      /\ PageSize \in Nat \ {0}
  BY <1>1, ReadRight
<1>7. /\ UpTo(all, Cap) \in Seq(Entries) /\ Len(UpTo(all, Cap)) <= Cap
      /\ IsInjective(UpTo(all, Cap))
      /\ Len(all) >= Cap => UpTo(all, Cap) = SubSeq(all, 1, Cap)
  BY <1>2, <1>3, UpToRight
<1>8. ASSUME arrivals + departures = 0
      PROVE  /\ excluded' = 0
             /\ all = SubSeq(list, 1, Ends) /\ Len(all) = Ends
  <2>1. excluded = 0 /\ rows = SubSeq(list, 1, Read) /\ (Read = 0 \/ Read < Len(list))
    BY <1>1, <1>8 DEF PagesInv, Still
  <2>2. /\ rows \o items = SubSeq(list, 1, Ends)
        /\ Len(SubSeq(list, 1, Ends)) = Ends
        /\ ToSet(items) \cap ToSet(rows) = {}
    BY <1>1, <2>1, BeginningGrows
  <2>3. Fresh(items) = items
    BY <1>2, <2>2
  <2>4. all = SubSeq(list, 1, Ends) /\ Len(all) = Ends
    BY <2>2, <2>3
  <2>5. excluded' = 0
    <3> HIDE DEF items
    <3> QED
      BY <1>1, <1>4, <2>1, <2>3
  <2> QED
    BY <2>4, <2>5
<1> HIDE DEF items, all
<1>9. PagesTypeOK'
  <2>1. excluded' \in Nat
    BY <1>1, <1>2, <1>4 DEF PagesTypeOK
  <2>2. rows' \in Seq(Entries)
    BY <1>1, <1>2, <1>7
  <2>3. verdict' \in {"reading", "complete", "cut"}
    BY <1>1
  <2>4. page' \in Nat \ {0}
    BY <1>1 DEF PagesTypeOK
  <2> QED
    BY <1>1, <2>1, <2>2, <2>3, <2>4 DEF PagesTypeOK
<1>10. IsInjective(rows') /\ Len(rows') <= Cap
  <2>1. CASE over
    BY <1>1, <1>7, <2>1
  <2>2. CASE ~over
    BY <1>1, <1>2, <1>3, <1>4, <1>5, <2>2
  <2> QED
    BY <2>1, <2>2
<1>11. CASE ~over
  <2>1. rows' = all /\ verdict' = IF page >= Pages THEN "complete" ELSE "reading"
    BY <1>1, <1>11
  <2>2. Loss' /\ Read' = Read + PageSize
    BY <1>1, <1>2, <2>1, PageAppended DEF items
  <2>3. ASSUME arrivals' + departures' = 0
        PROVE  /\ excluded' = 0
               /\ verdict' = "reading" => rows' = SubSeq(list, 1, Read') /\ Read' < Len(list)
               /\ verdict' = "complete" => rows' = list /\ Len(list) <= Cap
    <3>1. /\ excluded' = 0 /\ all = SubSeq(list, 1, Ends) /\ Len(all) = Ends
      BY <1>1, <1>8, <2>3
    <3>2. SubSeq(list, 1, Len(list)) = list
      BY <1>1, SubSeqFull DEF PagesTypeOK
    <3>3. CASE page >= Pages
      BY <1>3, <1>6, <1>11, <2>1, <3>1, <3>2, <3>3
    <3>4. CASE page < Pages
      BY <1>5, <1>6, <2>1, <2>2, <3>1, <3>4
    <3> QED
      BY <1>5, <3>3, <3>4
  <2>4. Still'
    BY <1>1, <2>1, <2>3 DEF Still, Capped
  <2> QED
    BY <1>1, <1>9, <1>10, <2>2, <2>4 DEF PagesInv, NeverTwice
<1>12. CASE over
  <2>1. rows' = UpTo(all, Cap) /\ verdict' = "cut"
    BY <1>1, <1>12
  <2>2. ASSUME arrivals' + departures' = 0
        PROVE  excluded' = 0 /\ Len(list) > Cap /\ rows' = SubSeq(list, 1, Cap)
    <3>1. /\ excluded' = 0 /\ all = SubSeq(list, 1, Ends) /\ Len(all) = Ends
      BY <1>1, <1>8, <2>2
    <3>2. Len(list) > Cap
      <4>1. Ends >= Cap /\ (page < Pages \/ Ends > Cap)
        BY <1>12, <3>1
      <4>2. CASE page < Pages
        <5>1. ~(page >= Pages) /\ Ends = Read + PageSize
          BY <1>5, <1>6, <4>2
        <5> QED
          BY <1>3, <1>6, <4>1, <4>2, <5>1
      <4>3. CASE Ends > Cap
        BY <1>3, <1>6, <4>3
      <4> QED
        BY <4>1, <4>2, <4>3
    <3>3. SubSeq(SubSeq(list, 1, Ends), 1, Cap) = SubSeq(list, 1, Cap)
      <4>1. Cap <= Ends
        BY <1>12, <3>1
      <4> QED
        BY <1>1, <1>3, <1>6, <4>1, SubSeqOfBeginning DEF PagesTypeOK
    <3> QED
      BY <1>7, <1>12, <2>1, <3>1, <3>2, <3>3
  <2>3. Still' /\ Loss'
    BY <1>1, <2>1, <2>2 DEF Still, Capped, Loss
  <2> QED
    BY <1>1, <1>9, <1>10, <2>3 DEF PagesInv, NeverTwice
<1> QED
  BY <1>11, <1>12

\* A list with one entry more, and with one entry less.
OneMore(t, s, i, e) ==
    /\ t \in Seq(Entries) /\ Len(t) = Len(s) + 1
    /\ \A k \in 1..Len(s) + 1 :
          t[k] = IF k < i THEN s[k] ELSE IF k = i THEN e ELSE s[k - 1]
OneLess(t, s, i) ==
    /\ t \in Seq(Entries) /\ Len(t) = Len(s) - 1
    /\ \A k \in 1..Len(s) - 1 : t[k] = IF k < i THEN s[k] ELSE s[k + 1]

LEMMA Inserted ==
    ASSUME NEW s \in Seq(Entries), NEW i \in 1..Len(s) + 1, NEW e \in Entries
    PROVE  OneMore(InsertAt(s, i, e), s, i, e)
<1> DEFINE a == SubSeq(s, 1, i - 1)
           b == <<e>>
           c == SubSeq(s, i, Len(s))
<1>1. Len(s) \in Nat /\ i \in Nat /\ \A k \in 1..Len(s) : s[k] \in Entries
  OBVIOUS
<1>2. /\ a \in Seq(Entries) /\ Len(a) = i - 1
      /\ \A k \in 1..i - 1 : a[k] = s[k]
  <2>1. \A k \in 1..i - 1 : s[k] \in Entries
    BY <1>1
  <2>2. Len(a) = IF 1 <= i - 1 THEN i - 1 - 1 + 1 ELSE 0
    BY <1>1, <2>1, SubSeqProperties
  <2>3. a \in Seq(Entries) /\ \A k \in 1..i - 1 - 1 + 1 : a[k] = s[1 + k - 1]
    BY <1>1, <2>1, SubSeqProperties
  <2> HIDE DEF a
  <2> QED
    BY <1>1, <2>2, <2>3
<1>3. b \in Seq(Entries) /\ Len(b) = 1 /\ b[1] = e
  OBVIOUS
<1>4. /\ c \in Seq(Entries) /\ Len(c) = Len(s) - i + 1
      /\ \A k \in 1..Len(s) - i + 1 : c[k] = s[i + k - 1]
  <2>1. \A k \in i..Len(s) : s[k] \in Entries
    BY <1>1
  <2>2. Len(c) = IF i <= Len(s) THEN Len(s) - i + 1 ELSE 0
    BY <1>1, <2>1, SubSeqProperties
  <2>3. c \in Seq(Entries) /\ \A k \in 1..Len(s) - i + 1 : c[k] = s[i + k - 1]
    BY <1>1, <2>1, SubSeqProperties
  <2> HIDE DEF c
  <2> QED
    BY <1>1, <2>2, <2>3
<1>5. InsertAt(s, i, e) = a \o b \o c
  BY DEF InsertAt
<1> HIDE DEF a, b, c
<1> DEFINE d == a \o b
<1>6. /\ d \in Seq(Entries) /\ Len(d) = i
      /\ \A k \in 1..i : d[k] = IF k <= i - 1 THEN a[k] ELSE b[k - (i - 1)]
  <2>1. /\ d \in Seq(Entries) /\ Len(d) = Len(a) + Len(b)
        /\ \A k \in 1..Len(a) + Len(b) : d[k] = IF k <= Len(a) THEN a[k] ELSE b[k - Len(a)]
    BY <1>2, <1>3, ConcatProperties
  <2>2. Len(a) + Len(b) = i
    BY <1>1, <1>2, <1>3
  <2> HIDE DEF d
  <2> QED
    BY <1>2, <2>1, <2>2
<1>7. InsertAt(s, i, e) = d \o c
  BY <1>5
<1> HIDE DEF d
<1> DEFINE t == d \o c
<1>8. /\ t \in Seq(Entries) /\ Len(t) = Len(s) + 1
      /\ \A k \in 1..Len(s) + 1 : t[k] = IF k <= i THEN d[k] ELSE c[k - i]
  <2>1. /\ t \in Seq(Entries) /\ Len(t) = Len(d) + Len(c)
        /\ \A k \in 1..Len(d) + Len(c) : t[k] = IF k <= Len(d) THEN d[k] ELSE c[k - Len(d)]
    BY <1>4, <1>6, ConcatProperties
  <2>2. Len(d) + Len(c) = Len(s) + 1
    BY <1>1, <1>4, <1>6
  <2> HIDE DEF t
  <2> QED
    BY <1>6, <2>1, <2>2
<1> HIDE DEF t
<1>9. ASSUME NEW k \in 1..Len(s) + 1
      PROVE  t[k] = IF k < i THEN s[k] ELSE IF k = i THEN e ELSE s[k - 1]
  <2>1. CASE k < i
    BY <1>1, <1>2, <1>6, <1>8, <2>1
  <2>2. CASE k = i
    <3>1. t[k] = d[i] /\ d[i] = b[i - (i - 1)] /\ i - (i - 1) = 1
      BY <1>1, <1>6, <1>8, <2>2
    <3> QED
      BY <1>3, <2>2, <3>1
  <2>3. CASE k > i
    <3>1. t[k] = c[k - i] /\ k - i \in 1..Len(s) - i + 1 /\ i + (k - i) - 1 = k - 1
      BY <1>1, <1>8, <2>3
    <3> QED
      BY <1>4, <2>3, <3>1
  <2> QED
    BY <1>1, <2>1, <2>2, <2>3
<1> QED
  BY <1>7, <1>8, <1>9 DEF t, OneMore

LEMMA Removed ==
    ASSUME NEW s \in Seq(Entries), NEW i \in 1..Len(s)
    PROVE  OneLess(RemoveAt(s, i), s, i)
<1> DEFINE a == SubSeq(s, 1, i - 1)
           c == SubSeq(s, i + 1, Len(s))
<1>1. Len(s) \in Nat /\ i \in Nat /\ \A k \in 1..Len(s) : s[k] \in Entries
  OBVIOUS
<1>2. /\ a \in Seq(Entries) /\ Len(a) = i - 1
      /\ \A k \in 1..i - 1 : a[k] = s[k]
  <2>1. \A k \in 1..i - 1 : s[k] \in Entries
    BY <1>1
  <2>2. Len(a) = IF 1 <= i - 1 THEN i - 1 - 1 + 1 ELSE 0
    BY <1>1, <2>1, SubSeqProperties
  <2>3. a \in Seq(Entries) /\ \A k \in 1..i - 1 - 1 + 1 : a[k] = s[1 + k - 1]
    BY <1>1, <2>1, SubSeqProperties
  <2> HIDE DEF a
  <2> QED
    BY <1>1, <2>2, <2>3
<1>3. /\ c \in Seq(Entries) /\ Len(c) = Len(s) - i
      /\ \A k \in 1..Len(s) - i : c[k] = s[i + k]
  <2>1. \A k \in i + 1..Len(s) : s[k] \in Entries
    BY <1>1
  <2>2. Len(c) = IF i + 1 <= Len(s) THEN Len(s) - (i + 1) + 1 ELSE 0
    BY <1>1, <2>1, SubSeqProperties
  <2>3. c \in Seq(Entries) /\ \A k \in 1..Len(s) - (i + 1) + 1 : c[k] = s[i + 1 + k - 1]
    BY <1>1, <2>1, SubSeqProperties
  <2> HIDE DEF c
  <2> QED
    BY <1>1, <2>2, <2>3
<1>4. RemoveAt(s, i) = a \o c
  BY DEF RemoveAt
<1> HIDE DEF a, c
<1> DEFINE t == a \o c
<1>5. /\ t \in Seq(Entries) /\ Len(t) = Len(s) - 1
      /\ \A k \in 1..Len(s) - 1 : t[k] = IF k <= i - 1 THEN a[k] ELSE c[k - (i - 1)]
  BY <1>1, <1>2, <1>3, ConcatProperties
<1> HIDE DEF t
<1>6. ASSUME NEW k \in 1..Len(s) - 1
      PROVE  t[k] = IF k < i THEN s[k] ELSE s[k + 1]
  <2>1. CASE k < i
    BY <1>1, <1>2, <1>5, <2>1
  <2>2. CASE k >= i
    <3>1. t[k] = c[k - (i - 1)] /\ k - (i - 1) \in 1..Len(s) - i /\ i + (k - (i - 1)) = k + 1
      BY <1>1, <1>5, <2>2
    <3> QED
      BY <1>1, <1>3, <2>2, <3>1
  <2> QED
    BY <1>1, <2>1, <2>2
<1> QED
  BY <1>4, <1>5, <1>6 DEF t, OneLess

\* An arrival moves rows away from the pages read, never over to them.
LEMMA ArriveRight ==
    ASSUME PagesInv, Arrive
    PROVE  PagesInv'
<1>1. PICK e \in Entries \ ToSet(list), i \in 1..Len(list) + 1 : list' = InsertAt(list, i, e)
  BY DEF Arrive
<1>2. /\ PagesTypeOK /\ verdict = "reading" /\ arrivals' = arrivals + 1
      /\ UNCHANGED <<reader, page, rows, excluded, verdict, departures, stayed>>
      /\ Read' = Read /\ Read \in Nat
  BY ReadRight DEF PagesInv, Arrive, Read
<1>3. /\ list \in Seq(Entries) /\ IsInjective(list) /\ stayed \subseteq ToSet(list)
      /\ DOMAIN list = 1..Len(list) /\ Len(list) \in Nat
      /\ arrivals \in Nat /\ departures \in Nat
  BY <1>2 DEF PagesTypeOK
<1>4. /\ list' \in Seq(Entries) /\ Len(list') = Len(list) + 1 /\ DOMAIN list' = 1..Len(list) + 1
      /\ \A k \in 1..Len(list) + 1 : list'[k] =
           IF k < i THEN list[k] ELSE IF k = i THEN e ELSE list[k - 1]
  <2> DEFINE new == InsertAt(list, i, e)
  <2>1. /\ new \in Seq(Entries) /\ Len(new) = Len(list) + 1
        /\ \A k \in 1..Len(list) + 1 : new[k] =
             IF k < i THEN list[k] ELSE IF k = i THEN e ELSE list[k - 1]
    <3>1. list \in Seq(Entries) /\ i \in 1..Len(list) + 1 /\ e \in Entries
      BY <1>1, <1>3
    <3>2. OneMore(new, list, i, e)
      BY <3>1, Inserted
    <3> HIDE DEF new
    <3> QED
      BY <3>2 DEF OneMore
  <2> HIDE DEF new
  <2>2. DOMAIN new = 1..Len(list) + 1
    BY <2>1
  <2>3. list' = new
    BY <1>1 DEF new
  <2> QED
    BY <2>1, <2>2, <2>3
<1>5. \A k \in DOMAIN list : e # list[k]
  BY <1>1 DEF ToSet
<1>6. \A k \in DOMAIN list' : \/ k < i /\ k \in DOMAIN list /\ list'[k] = list[k]
                              \/ k = i /\ list'[k] = e
                              \/ k > i /\ k - 1 \in DOMAIN list /\ list'[k] = list[k - 1]
  BY <1>3, <1>4
<1>7. IsInjective(list')
  <2> SUFFICES ASSUME NEW k \in DOMAIN list', NEW m \in DOMAIN list', list'[k] = list'[m]
               PROVE  k = m
    BY DEF IsInjective
  <2>1. k \in Nat /\ m \in Nat
    BY <1>4
  <2>2. k = i <=> m = i
    BY <1>5, <1>6
  <2>3. CASE k < i /\ m < i
    <3>1. k \in DOMAIN list /\ m \in DOMAIN list /\ list[k] = list[m]
      BY <1>6, <2>1, <2>3
    <3> QED
      BY <1>3, <3>1 DEF IsInjective
  <2>4. CASE k > i /\ m > i
    <3>1. k - 1 = m - 1
      BY <1>3, <1>6, <2>4 DEF IsInjective
    <3> QED
      BY <2>1, <3>1
  <2>5. CASE k < i /\ m > i
    <3>1. k = m - 1
      BY <1>3, <1>6, <2>5 DEF IsInjective
    <3> QED
      BY <2>1, <2>5, <3>1
  <2>6. CASE m < i /\ k > i
    <3>1. m = k - 1
      BY <1>3, <1>6, <2>6 DEF IsInjective
    <3> QED
      BY <2>1, <2>6, <3>1
  <2> QED
    BY <2>1, <2>2, <2>3, <2>4, <2>5, <2>6
<1>8. stayed' \subseteq ToSet(list')
  <2>1. \A k \in DOMAIN list : \E m \in DOMAIN list' : list'[m] = list[k]
    <3> TAKE k \in DOMAIN list
    <3>1. CASE k < i
      BY <1>3, <1>4, <3>1
    <3>2. CASE k >= i
      <4>1. k + 1 \in DOMAIN list' /\ list'[k + 1] = list[k]
        BY <1>3, <1>4, <3>2
      <4> QED
        BY <4>1
    <3> QED
      BY <1>3, <3>1, <3>2
  <2> QED
    BY <1>2, <1>3, <2>1 DEF ToSet
<1>9. PagesTypeOK'
  BY <1>2, <1>3, <1>4, <1>7, <1>8 DEF PagesTypeOK
<1>10. Passed' \subseteq Passed
  <2> SUFFICES ASSUME NEW x \in Passed' PROVE x \in Passed
    OBVIOUS
  <2>1. x \in stayed \ ToSet(rows)
    BY <1>2 DEF Passed
  <2>2. PICK k \in DOMAIN list' : list'[k] = x /\ k <= Read
    BY <1>2 DEF Passed
  <2>3. k # i
    BY <1>1, <1>3, <1>6, <2>1, <2>2
  <2>4. \E m \in DOMAIN list : list[m] = x /\ m <= Read
    <3>1. CASE k < i
      BY <1>6, <2>2, <3>1
    <3>2. CASE k > i
      <4>1. k - 1 \in DOMAIN list /\ list[k - 1] = x /\ k - 1 <= Read
        BY <1>2, <1>3, <1>4, <1>6, <2>2, <3>2
      <4> QED
        BY <4>1
    <3> QED
      BY <1>6, <2>2, <2>3, <3>1, <3>2
  <2> QED
    BY <2>1, <2>4 DEF Passed
<1>11. Loss'
  <2>1. Cardinality(Passed) <= departures /\ IsFiniteSet(Passed) /\ Cardinality(Passed) \in Nat
    BY <1>2, StayedFinite DEF PagesInv, Loss, Passed
  <2>2. Cardinality(Passed') <= Cardinality(Passed) /\ Cardinality(Passed') \in Nat
    BY <1>10, <2>1, FS_Subset, FS_CardinalityType
  <2> QED
    BY <1>2, <1>3, <2>1, <2>2 DEF Loss
<1>12. Still'
  <2>1. arrivals' + departures' # 0
    BY <1>2, <1>3
  <2> QED
    BY <2>1 DEF Still
<1>13. NeverTwice'
  BY <1>2 DEF PagesInv, NeverTwice
<1> QED
  BY <1>9, <1>11, <1>12, <1>13 DEF PagesInv

\* A departure moves one row at most over the edge of the pages read.
LEMMA LeaveRight ==
    ASSUME PagesInv, Leave
    PROVE  PagesInv'
<1>1. PICK i \in DOMAIN list : list' = RemoveAt(list, i) /\ stayed' = stayed \ {list[i]}
  BY DEF Leave
<1>2. /\ PagesTypeOK /\ verdict = "reading" /\ departures' = departures + 1
      /\ UNCHANGED <<reader, page, rows, excluded, verdict, arrivals>>
      /\ Read' = Read /\ Read \in Nat
  BY ReadRight DEF PagesInv, Leave, Read
<1>3. /\ list \in Seq(Entries) /\ IsInjective(list) /\ stayed \subseteq ToSet(list)
      /\ DOMAIN list = 1..Len(list) /\ Len(list) \in Nat
      /\ arrivals \in Nat /\ departures \in Nat
  BY <1>2 DEF PagesTypeOK
<1>4. /\ list' \in Seq(Entries) /\ DOMAIN list' = 1..Len(list) - 1
      /\ \A k \in 1..Len(list) - 1 : list'[k] = IF k < i THEN list[k] ELSE list[k + 1]
  <2> DEFINE new == RemoveAt(list, i)
  <2>1. /\ new \in Seq(Entries) /\ Len(new) = Len(list) - 1
        /\ \A k \in 1..Len(list) - 1 : new[k] = IF k < i THEN list[k] ELSE list[k + 1]
    <3>1. list \in Seq(Entries) /\ i \in 1..Len(list)
      BY <1>1, <1>3
    <3>2. OneLess(new, list, i)
      BY <3>1, Removed
    <3> HIDE DEF new
    <3> QED
      BY <3>2 DEF OneLess
  <2> HIDE DEF new
  <2>2. DOMAIN new = 1..Len(list) - 1
    BY <2>1
  <2>3. list' = new
    BY <1>1 DEF new
  <2> QED
    BY <2>1, <2>2, <2>3
<1>5. \A k \in DOMAIN list' : \/ k < i /\ k \in DOMAIN list /\ list'[k] = list[k]
                              \/ k >= i /\ k + 1 \in DOMAIN list /\ list'[k] = list[k + 1]
  BY <1>3, <1>4
<1>6. IsInjective(list')
  <2> SUFFICES ASSUME NEW k \in DOMAIN list', NEW m \in DOMAIN list', list'[k] = list'[m]
               PROVE  k = m
    BY DEF IsInjective
  <2>1. k \in Nat /\ m \in Nat /\ i \in Nat
    BY <1>3, <1>4
  <2>2. CASE k < i /\ m < i
    <3>1. k \in DOMAIN list /\ m \in DOMAIN list /\ list[k] = list[m]
      BY <1>5, <2>1, <2>2
    <3> QED
      BY <1>3, <3>1 DEF IsInjective
  <2>3. CASE k >= i /\ m >= i
    <3>1. k + 1 = m + 1
      BY <1>3, <1>5, <2>1, <2>3 DEF IsInjective
    <3> QED
      BY <2>1, <3>1
  <2>4. CASE k < i /\ m >= i
    <3>1. k = m + 1
      BY <1>3, <1>5, <2>1, <2>4 DEF IsInjective
    <3> QED
      BY <2>1, <2>4, <3>1
  <2>5. CASE m < i /\ k >= i
    <3>1. m = k + 1
      BY <1>3, <1>5, <2>1, <2>5 DEF IsInjective
    <3> QED
      BY <2>1, <2>5, <3>1
  <2> QED
    BY <2>1, <2>2, <2>3, <2>4, <2>5
<1>7. stayed' \subseteq ToSet(list')
  <2>1. \A k \in DOMAIN list : k # i => \E m \in DOMAIN list' : list'[m] = list[k]
    <3> SUFFICES ASSUME NEW k \in DOMAIN list, k # i
                 PROVE  \E m \in DOMAIN list' : list'[m] = list[k]
      OBVIOUS
    <3>1. CASE k < i
      <4>1. k \in DOMAIN list' /\ list'[k] = list[k]
        BY <1>3, <1>4, <3>1
      <4> QED
        BY <4>1
    <3>2. CASE k > i
      <4>1. k - 1 \in DOMAIN list' /\ list'[k - 1] = list[k]
        BY <1>3, <1>4, <3>2
      <4> QED
        BY <4>1
    <3> QED
      BY <1>3, <3>1, <3>2
  <2> QED
    BY <1>1, <1>3, <2>1 DEF ToSet
<1>8. PagesTypeOK'
  BY <1>2, <1>3, <1>4, <1>6, <1>7 DEF PagesTypeOK
<1>9. Passed' \subseteq Passed \cup {list[Read + 1]}
  <2> SUFFICES ASSUME NEW x \in Passed' PROVE x \in Passed \cup {list[Read + 1]}
    OBVIOUS
  <2>1. x \in stayed \ ToSet(rows)
    BY <1>1, <1>2 DEF Passed
  <2>2. PICK k \in DOMAIN list' : list'[k] = x /\ k <= Read
    BY <1>2 DEF Passed
  <2>3. k \in Nat
    BY <1>3, <1>4
  <2>4. CASE k < i
    <3>1. k \in DOMAIN list /\ list[k] = x
      BY <1>3, <1>5, <2>2, <2>3, <2>4
    <3> QED
      BY <2>1, <2>2, <3>1 DEF Passed
  <2>5. CASE k >= i
    <3>1. k + 1 \in DOMAIN list /\ list[k + 1] = x
      BY <1>3, <1>5, <2>2, <2>3, <2>5
    <3>2. CASE k = Read
      BY <3>1, <3>2
    <3>3. CASE k < Read
      <4>1. k + 1 <= Read
        BY <1>2, <2>3, <3>3
      <4> QED
        BY <2>1, <3>1, <4>1 DEF Passed
    <3> QED
      BY <1>2, <2>2, <2>3, <3>2, <3>3
  <2> QED
    BY <1>3, <2>3, <2>4, <2>5
<1>10. Loss'
  <2>1. Cardinality(Passed) <= departures /\ IsFiniteSet(Passed) /\ Cardinality(Passed) \in Nat
    BY <1>2, StayedFinite DEF PagesInv, Loss, Passed
  <2> DEFINE T == Passed \cup {list[Read + 1]}
  <2>2. IsFiniteSet(T) /\ Cardinality(T) <= Cardinality(Passed) + 1
    <3>1. /\ IsFiniteSet(T)
          /\ Cardinality(T) = IF list[Read + 1] \in Passed THEN Cardinality(Passed)
                              ELSE Cardinality(Passed) + 1
      BY <2>1, FS_AddElement
    <3> HIDE DEF T
    <3> QED
      BY <2>1, <3>1
  <2>3. Cardinality(Passed') <= Cardinality(T) /\ Cardinality(Passed') \in Nat
        /\ Cardinality(T) \in Nat
    <3> HIDE DEF T
    <3>1. Passed' \subseteq T
      BY <1>9 DEF T
    <3> QED
      BY <2>2, <3>1, FS_Subset, FS_CardinalityType
  <2> QED
    BY <1>2, <1>3, <2>1, <2>2, <2>3 DEF Loss
<1>11. Still'
  <2>1. arrivals' + departures' # 0
    BY <1>2, <1>3
  <2> QED
    BY <2>1 DEF Still
<1>12. NeverTwice'
  BY <1>2 DEF PagesInv, NeverTwice
<1> QED
  BY <1>8, <1>10, <1>11, <1>12 DEF PagesInv

LEMMA PagesInitRight == PagesInit => PagesInv
<1> SUFFICES ASSUME PagesInit PROVE PagesInv
  OBVIOUS
<1>1. PagesTypeOK
  BY PagesAssumption DEF PagesInit, PagesTypeOK
<1>2. Read = 0
  BY PagesAssumption DEF PagesInit, Read
<1>3. NeverTwice
  BY PagesAssumption DEF PagesInit, NeverTwice, IsInjective
<1>4. Still
  <2>1. SubSeq(list, 1, 0) = <<>>
    BY SubSeqEmpty
  <2> QED
    BY <1>2, <2>1 DEF PagesInit, Still
<1>5. Loss
  <2>1. Passed = {}
    BY <1>1, <1>2 DEF Passed, PagesTypeOK
  <2> QED
    BY <2>1, FS_EmptySet DEF PagesInit, Loss
<1> QED
  BY <1>1, <1>3, <1>4, <1>5 DEF PagesInv

LEMMA PagesStepRight == PagesInv /\ [PagesNext]_pageVars => PagesInv'
<1> SUFFICES ASSUME PagesInv, [PagesNext]_pageVars PROVE PagesInv'
  OBVIOUS
<1>1. CASE ReadCapped
  BY <1>1, ReadCappedRight
<1>2. CASE ReadCatalog
  BY <1>2, ReadCatalogRight
<1>3. CASE Arrive
  BY <1>3, ArriveRight
<1>4. CASE Leave
  BY <1>4, LeaveRight
<1>5. CASE UNCHANGED pageVars
  BY <1>5 DEF pageVars, PagesInv, PagesTypeOK, NeverTwice, Still, Loss, Passed, Read, Capped
<1> QED
  BY <1>1, <1>2, <1>3, <1>4, <1>5 DEF PagesNext, NextPage

LEMMA PagesHold == PagesSpec => []PagesInv
  BY PagesInitRight, PagesStepRight, PTL DEF PagesSpec

\* For any list, page size and cap, and any number of arrivals and departures
\* between the pages: no row is counted twice, a list that stands still is read
\* exactly, and a reading that calls itself complete lost at most one row per
\* departure (_journal_pages, employees, scenarios).
THEOREM ListsRead == PagesSpec => []PagesExact
<1>1. PagesInv => PagesExact
  <2> SUFFICES ASSUME PagesInv PROVE PagesExact
    OBVIOUS
  <2>1. NeverTwice /\ LossBoundedByDepartures
    BY DEF PagesInv, Loss, LossBoundedByDepartures
  <2>2. ASSUME verdict # "reading", arrivals + departures = 0
        PROVE  /\ rows = IF reader = "catalog" THEN list ELSE UpTo(list, Cap)
               /\ verdict = "complete" <=> (reader = "catalog" \/ Len(list) <= Cap)
               /\ excluded = 0
    <3>1. /\ list \in Seq(Entries) /\ Len(list) \in Nat /\ Cap \in Nat
          /\ reader \in {"journal", "directory", "catalog"}
          /\ verdict \in {"complete", "cut"}
      BY <2>2, PagesAssumption DEF PagesInv, PagesTypeOK
    <3>2. /\ Len(list) >= Cap => UpTo(list, Cap) = SubSeq(list, 1, Cap)
          /\ Len(list) <= Cap => UpTo(list, Cap) = list
      BY <3>1, UpToRight
    <3>3. /\ excluded = 0
          /\ verdict = "complete" => rows = list /\ (Capped => Len(list) <= Cap)
          /\ verdict = "cut" => Capped /\ Len(list) > Cap /\ rows = SubSeq(list, 1, Cap)
      BY <2>2 DEF PagesInv, Still
    <3>4. CASE verdict = "complete"
      BY <3>1, <3>2, <3>3, <3>4 DEF Capped
    <3>5. CASE verdict = "cut"
      BY <3>1, <3>2, <3>3, <3>5 DEF Capped
    <3> QED
      BY <3>1, <3>4, <3>5
  <2>3. StillListExact
    BY <2>2 DEF StillListExact
  <2> QED
    BY <2>1, <2>3 DEF PagesExact
<1> QED
  BY <1>1, PagesHold, PTL
===============================================================================
