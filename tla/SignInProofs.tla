---------------------------- MODULE SignInProofs ----------------------------
(* Proofs about what a sign-in passes: its page (AuthorizeLogin), for any  *)
(* number of tabs, posts and scopes, and the throttles (Throttle), for any *)
(* number of requests, buckets and windows.                                *)
EXTENDS AuthorizeLogin, Throttle, FiniteSetTheorems, TLAPS

\* A form's boxes are what the person left, and its signature is as old as the
\* tab unless a stale nonce renewed it.
FormRight(f) ==
    /\ IF f.kind = "boxes" THEN f.boxes = (f.requested \cap Optional) \ f.refused
                           ELSE f.refused = {}
    /\ ~f.renewed => f.signedAt = f.began

\* What a post that passed the signature check has established.
PostRight(r) ==
    /\ FormRight(r.form)
    /\ r.step \in {"renewing", "loading", "okk", "code"} =>
         /\ r.granted = r.form.requested \ r.form.refused
         /\ r.arrived <= r.form.signedAt + Lifetime

\* A post of a blocked client does not get past the loading of its client.
Barred == \A q \in late : post[q].of \in blocked /\ post[q].step \notin {"unsent", "okk", "code"}

LoginInv ==
    /\ TypeOK
    /\ \A p \in Pages : FormRight(page[p])
    /\ \A q \in Posts : PostRight(post[q])
    /\ Barred

-----------------------------------------------------------------------------
\* The scopes granted for a right form are the requested ones without those
\* the person refused (_granted_scope).
LEMMA GrantedIsConsent ==
    ASSUME NEW f \in Form, FormRight(f)
    PROVE  Granted(f) \in SUBSET Scopes /\ Granted(f) = f.requested \ f.refused
BY OptionalAssumption DEF Granted, FormRight, Form

\* The page shown again for a right post is a right form (_render_login).
LEMMA AgainIsRight ==
    ASSUME LoginInv, NEW q \in Posts, post[q].step \in {"renewing", "okk"}
    PROVE  /\ Again(q) \in Form /\ FormRight(Again(q))
           /\ [Again(q) EXCEPT !.signedAt = now, !.fits = TRUE, !.renewed = TRUE] \in Form
           /\ FormRight([Again(q) EXCEPT !.signedAt = now, !.fits = TRUE, !.renewed = TRUE])
<1> DEFINE f == post[q].form
           r == [Again(q) EXCEPT !.signedAt = now, !.fits = TRUE, !.renewed = TRUE]
           boxes == (f.requested \ f.refused) \cap Optional
<1>1. f \in Form /\ FormRight(f) /\ now \in Nat
  BY DEF LoginInv, TypeOK, Post, PostRight
<1>2. Again(q) = [f EXCEPT !.kind = "boxes", !.boxes = boxes]
  BY DEF LoginInv, PostRight, Again
<1>3. Again(q) \in Form
  BY <1>1, <1>2 DEF Form
<1>4. /\ Again(q).kind = "boxes" /\ Again(q).boxes = boxes
      /\ Again(q).requested = f.requested /\ Again(q).refused = f.refused
      /\ Again(q).signedAt = f.signedAt /\ Again(q).began = f.began
  BY <1>1, <1>2 DEF Form
<1>5. Again(q).renewed = f.renewed
  BY <1>1, <1>2 DEF Form
<1>6. FormRight(Again(q))
  BY <1>1, <1>4, <1>5 DEF FormRight
<1>7. r \in Form
  BY <1>1, <1>3 DEF Form
<1>8. /\ r.kind = "boxes" /\ r.boxes = boxes
      /\ r.requested = f.requested /\ r.refused = f.refused /\ r.renewed
  BY <1>3, <1>4 DEF Form
<1>9. FormRight(r)
  BY <1>8 DEF FormRight
<1> QED
  BY <1>3, <1>6, <1>7, <1>9

\* A tab shows the answer to its last post only, and the others stay right.
LEMMA ShowIsRight ==
    ASSUME LoginInv, NEW q \in Posts, NEW f \in Form, FormRight(f), Show(q, f)
    PROVE  page' \in [Pages -> Form] /\ \A p \in Pages : FormRight(page'[p])
BY DEF LoginInv, TypeOK, Show

\* A step of one post leaves every other one as it was.
LEMMA StepIsRight ==
    ASSUME LoginInv, NEW q \in Posts, NEW step, Goto(q, step),
           step \in {"unsent", "sent", "renewing", "loading", "okk", "code", "shown", "error"},
           step \in {"renewing", "loading", "okk", "code"} =>
               post[q].step \in {"renewing", "loading", "okk", "code"},
           step \in {"unsent", "okk", "code"} => q \notin late,
           UNCHANGED <<blocked, late>>
    PROVE  post' \in [Posts -> Post] /\ (\A r \in Posts : PostRight(post'[r])) /\ Barred'
<1> DEFINE new == [post[q] EXCEPT !.step = step]
<1>1. post[q] \in Post /\ PostRight(post[q])
  BY DEF LoginInv, TypeOK
<1>2. post' = [post EXCEPT ![q] = new]
  BY DEF Goto, LoginInv, TypeOK
<1>3. new \in Post
  BY <1>1 DEF Post
<1>4. /\ new.step = step /\ new.of = post[q].of /\ new.form = post[q].form
      /\ new.granted = post[q].granted /\ new.arrived = post[q].arrived
  BY <1>1 DEF Post
<1>5. PostRight(new)
  BY <1>1, <1>4 DEF PostRight
<1> HIDE DEF new
<1>6. post' \in [Posts -> Post] /\ \A r \in Posts : PostRight(post'[r])
  BY <1>2, <1>3, <1>5 DEF LoginInv, TypeOK
<1>7. Barred'
  BY <1>2, <1>4 DEF LoginInv, TypeOK, Barred
<1> QED
  BY <1>6, <1>7

-----------------------------------------------------------------------------
LEMMA LoginInitRight == Init => LoginInv
<1> SUFFICES ASSUME Init PROVE LoginInv
  OBVIOUS
<1>1. NoForm \in Form /\ FormRight(NoForm)
  BY DEF NoForm, Form, FormRight
<1>2. ASSUME NEW k \in {"cookie", "plain"}, NEW s \in Requests
      PROVE  OldForm(k, s) \in Form /\ FormRight(OldForm(k, s))
  <2>1. OldForm(k, s) \in Form
    BY DEF OldForm, NoForm, Form, Requests
  <2>2. /\ OldForm(k, s).kind = k /\ OldForm(k, s).refused = {}
        /\ OldForm(k, s).signedAt = 0 /\ OldForm(k, s).began = 0
    BY DEF OldForm, NoForm
  <2> QED
    BY <2>1, <2>2 DEF FormRight
<1>3. page \in [Pages -> Form] /\ \A p \in Pages : FormRight(page[p])
  BY <1>1, <1>2 DEF Init
<1>4. ASSUME NEW p \in Pages PROVE Unsent(p) \in Post /\ PostRight(Unsent(p))
  <2>1. Unsent(p) \in Post
    BY <1>1 DEF Unsent, Post
  <2>2. Unsent(p).step = "unsent" /\ Unsent(p).form = NoForm
    BY DEF Unsent
  <2> QED
    BY <1>1, <2>1, <2>2 DEF PostRight
<1>5. post \in [Posts -> Post] /\ \A q \in Posts : PostRight(post[q])
  BY <1>4 DEF Init
<1> QED
  BY <1>3, <1>5 DEF Init, LoginInv, TypeOK, Barred

LEMMA LoginStepRight == LoginInv /\ [Next]_vars => LoginInv'
<1> SUFFICES ASSUME LoginInv, [Next]_vars PROVE LoginInv'
  OBVIOUS
<1> USE DEF LoginInv
<1>1. ASSUME NEW p \in Pages, Open(p) PROVE LoginInv'
  <2>1. PICK s \in Requests :
          page' = [page EXCEPT ![p] =
                     [kind |-> "boxes", requested |-> s, boxes |-> s \cap Optional, fits |-> TRUE,
                      signedAt |-> now, began |-> now, renewed |-> FALSE, refused |-> {}]]
    BY <1>1 DEF Open
  <2>2. page' \in [Pages -> Form] /\ \A r \in Pages : FormRight(page'[r])
    BY <2>1 DEF TypeOK, Form, FormRight, Requests
  <2> QED
    BY <1>1, <2>2 DEF Open, TypeOK, Barred
<1>2. ASSUME NEW p \in Pages, NEW s \in Optional, Uncheck(p, s) PROVE LoginInv'
  <2>1. page'[p] = [kind |-> "boxes", requested |-> page[p].requested,
                    boxes |-> page[p].boxes \ {s}, fits |-> page[p].fits,
                    signedAt |-> page[p].signedAt, began |-> page[p].began,
                    renewed |-> page[p].renewed, refused |-> page[p].refused \cup {s}]
    BY <1>2 DEF Uncheck, TypeOK, Form
  <2>2. page'[p] \in Form /\ FormRight(page'[p])
    BY <1>2, <2>1 DEF Uncheck, TypeOK, Form, FormRight
  <2>3. page' \in [Pages -> Form] /\ \A r \in Pages : FormRight(page'[r])
    BY <1>2, <2>2 DEF Uncheck, TypeOK
  <2> QED
    BY <1>2, <2>3 DEF Uncheck, TypeOK, Barred
<1>3. ASSUME NEW p \in Pages, NEW s \in Optional, Check(p, s) PROVE LoginInv'
  <2>1. page'[p] = [kind |-> "boxes", requested |-> page[p].requested,
                    boxes |-> page[p].boxes \cup {s}, fits |-> page[p].fits,
                    signedAt |-> page[p].signedAt, began |-> page[p].began,
                    renewed |-> page[p].renewed, refused |-> page[p].refused \ {s}]
    BY <1>3 DEF Check, TypeOK, Form
  <2>2. page'[p] \in Form /\ FormRight(page'[p])
    BY <1>3, <2>1 DEF Check, TypeOK, Form, FormRight
  <2>3. page' \in [Pages -> Form] /\ \A r \in Pages : FormRight(page'[r])
    BY <1>3, <2>2 DEF Check, TypeOK
  <2> QED
    BY <1>3, <2>3 DEF Check, TypeOK, Barred
<1>4. ASSUME NEW p \in Pages, Restore(p) PROVE LoginInv'
  <2>1. page'[p] = [kind |-> page[p].kind, requested |-> page[p].requested,
                    boxes |-> page[p].boxes, fits |-> FALSE,
                    signedAt |-> page[p].signedAt, began |-> page[p].began,
                    renewed |-> page[p].renewed, refused |-> page[p].refused]
    BY <1>4 DEF Restore, TypeOK, Form
  <2>2. page'[p] \in Form /\ FormRight(page'[p])
    BY <2>1 DEF TypeOK, Form, FormRight
  <2>3. page' \in [Pages -> Form] /\ \A r \in Pages : FormRight(page'[r])
    BY <1>4, <2>2 DEF Restore, TypeOK
  <2> QED
    BY <1>4, <2>3 DEF Restore, TypeOK, Barred
<1>5. ASSUME NEW p \in Pages, NEW q \in Posts, Submit(p, q) PROVE LoginInv'
  <2>1. post'[q] = [step |-> "sent", of |-> p, form |-> page[p], granted |-> post[q].granted,
                    arrived |-> post[q].arrived]
    BY <1>5 DEF Submit, TypeOK, Post
  <2>2. post'[q] \in Post
    BY <2>1 DEF TypeOK, Post
  <2>3. PostRight(post'[q])
    BY <2>1 DEF PostRight
  <2>4. post' \in [Posts -> Post] /\ \A r \in Posts : PostRight(post'[r])
    BY <1>5, <2>2, <2>3 DEF Submit, TypeOK
  <2>5. Barred'
    BY <1>5, <2>1 DEF Submit, TypeOK, Barred
  <2> QED
    BY <1>5, <2>4, <2>5 DEF Submit, TypeOK
<1>6. ASSUME NEW q \in Posts, Arrive(q) PROVE LoginInv'
  <2>1. CASE now > post[q].form.signedAt + Lifetime
    <3>1. Goto(q, "error") /\ UNCHANGED <<now, page, awaited, blocked, late>>
      BY <1>6, <2>1 DEF Arrive
    <3> QED
      BY <3>1, StepIsRight DEF TypeOK
  <2>2. CASE ~(now > post[q].form.signedAt + Lifetime)
    <3> DEFINE f == post[q].form
               step == IF f.fits THEN "loading" ELSE "renewing"
    <3>1. f \in Form /\ FormRight(f) /\ now \in Nat /\ post[q] \in Post
      BY DEF TypeOK, Post, PostRight
    <3>2. post'[q] = [step |-> step, of |-> post[q].of, form |-> f, granted |-> Granted(f),
                      arrived |-> now]
      BY <1>6, <2>2, <3>1 DEF Arrive, TypeOK, Post
    <3>3. now <= f.signedAt + Lifetime
      BY <2>2, <3>1, TimeAssumption DEF Form
    <3>4. post'[q] \in Post
      BY <3>1, <3>2, GrantedIsConsent DEF Post
    <3>5. PostRight(post'[q])
      BY <3>1, <3>2, <3>3, GrantedIsConsent DEF PostRight
    <3>6. post' \in [Posts -> Post] /\ \A r \in Posts : PostRight(post'[r])
      BY <1>6, <2>2, <3>4, <3>5 DEF Arrive, TypeOK
    <3>7. Barred'
      BY <1>6, <2>2, <3>2 DEF Arrive, TypeOK, Barred
    <3> QED
      BY <1>6, <3>6, <3>7 DEF Arrive, TypeOK
  <2> QED
    BY <2>1, <2>2
<1>7. ASSUME NEW q \in Posts, Renew(q) PROVE LoginInv'
  <2>1. page' \in [Pages -> Form] /\ \A p \in Pages : FormRight(page'[p])
    BY <1>7, AgainIsRight, ShowIsRight DEF Renew
  <2>2. post' \in [Posts -> Post] /\ (\A r \in Posts : PostRight(post'[r])) /\ Barred'
    BY <1>7, StepIsRight DEF Renew
  <2> QED
    BY <1>7, <2>1, <2>2 DEF Renew, TypeOK
<1>8. ASSUME NEW q \in Posts, Load(q) PROVE LoginInv'
  <2>1. q \notin late
    BY <1>8 DEF Load, Barred
  <2>2. post' \in [Posts -> Post] /\ (\A r \in Posts : PostRight(post'[r])) /\ Barred'
    BY <1>8, <2>1, StepIsRight DEF Load
  <2> QED
    BY <1>8, <2>2 DEF Load, TypeOK
<1>9. ASSUME NEW q \in Posts, WrongPassword(q) PROVE LoginInv'
  <2>1. page' \in [Pages -> Form] /\ \A p \in Pages : FormRight(page'[p])
    BY <1>9, AgainIsRight, ShowIsRight DEF WrongPassword
  <2>2. post' \in [Posts -> Post] /\ (\A r \in Posts : PostRight(post'[r])) /\ Barred'
    BY <1>9, StepIsRight DEF WrongPassword
  <2> QED
    BY <1>9, <2>1, <2>2 DEF WrongPassword, TypeOK
<1>10. ASSUME NEW q \in Posts, SignIn(q) PROVE LoginInv'
  <2>1. q \notin late
    BY <1>10 DEF SignIn, Barred
  <2>2. post' \in [Posts -> Post] /\ (\A r \in Posts : PostRight(post'[r])) /\ Barred'
    BY <1>10, <2>1, StepIsRight DEF SignIn
  <2> QED
    BY <1>10, <2>2 DEF SignIn, TypeOK
<1>11. ASSUME NEW q \in Posts, Fail(q) PROVE LoginInv'
  <2>1. post' \in [Posts -> Post] /\ (\A r \in Posts : PostRight(post'[r])) /\ Barred'
    BY <1>11, StepIsRight DEF Fail
  <2> QED
    BY <1>11, <2>1 DEF Fail, TypeOK
<1>12. ASSUME NEW p \in Pages, Block(p) PROVE LoginInv'
  BY <1>12 DEF Block, TypeOK, Barred
<1>13. CASE Tick
  BY <1>13 DEF Tick, TypeOK, Barred
<1>14. CASE UNCHANGED vars
  BY <1>14 DEF vars, TypeOK, Barred
<1> QED
  BY <1>1, <1>2, <1>3, <1>4, <1>5, <1>6, <1>7, <1>8, <1>9, <1>10, <1>11, <1>12, <1>13, <1>14
  DEF Next, Person, Answer

\* The inductive invariant holds in every state of the sign-in page.
THEOREM LoginInvariance == Spec => []LoginInv
BY LoginInitRight, LoginStepRight, PTL DEF Spec

-----------------------------------------------------------------------------
\* The type invariant of the sign-in page.
THEOREM LoginTypes == Spec => []TypeOK
<1>1. LoginInv => TypeOK
  BY DEF LoginInv
<1> QED
  BY <1>1, LoginInvariance, PTL

\* No sequence of pages, refreshed forms and wrong passwords gives a client
\* more, or less, than the person left checked.
THEOREM LoginKeepsConsent == Spec => []ConsentKept
<1>1. LoginInv => ConsentKept
  BY DEF LoginInv, PostRight, ConsentKept, Signed
<1> QED
  BY <1>1, LoginInvariance, PTL

\* Wrong passwords do not prolong the ten minutes of a signed request.
THEOREM LoginInTime == Spec => []TenMinutesUnlessRenewed
<1>1. LoginInv => TenMinutesUnlessRenewed
  BY DEF LoginInv, PostRight, FormRight, TenMinutesUnlessRenewed, Signed
<1> QED
  BY <1>1, LoginInvariance, PTL

\* A block by the operator stops the posts sent after it, also those of pages
\* opened before.
THEOREM LoginRespectsBlock == Spec => []BlockedClientGetsNoCode
<1>1. LoginInv => BlockedClientGetsNoCode
  BY DEF LoginInv, Barred, BlockedClientGetsNoCode, Signed
<1> QED
  BY <1>1, LoginInvariance, PTL

-----------------------------------------------------------------------------
\* The throttles.

\* A request is counted in the window it arrived in or the next one.
ClockRight ==
    /\ \A r \in Attempts : window[r] <= current
    /\ \A k \in Keys : count[k] > 0 => used[k] >= k[2]

\* While a request of window w may still be counted, its key is there and has
\* counted all the requests let through.
CountRight ==
    \A b \in Buckets, w \in Windows :
        <<b, w>> \notin forgot =>
            /\ Cardinality(Admitted(b, w)) <= Limit[b]
            /\ current <= w + 1 => Cardinality(Admitted(b, w)) <= count[<<b, w>>]

ThrottleInv == ThrottleTypeOK /\ ClockRight /\ CountRight

-----------------------------------------------------------------------------
LEMMA AdmittedFinite ==
    ASSUME NEW b \in Buckets, NEW w \in Windows
    PROVE  IsFiniteSet(Admitted(b, w)) /\ Cardinality(Admitted(b, w)) \in Nat
<1>1. IsFiniteSet(Admitted(b, w))
  BY AttemptsAssumption, FS_Subset DEF Admitted
<1> QED
  BY <1>1, FS_CardinalityType

\* One request more lets the number grow by one at most.
LEMMA OneMore ==
    ASSUME NEW b \in Buckets, NEW w \in Windows, NEW r,
           Admitted(b, w)' \subseteq Admitted(b, w) \cup {r}
    PROVE  /\ Cardinality(Admitted(b, w)') \in Nat
           /\ Cardinality(Admitted(b, w)') <= Cardinality(Admitted(b, w)) + 1
<1>1. IsFiniteSet(Admitted(b, w) \cup {r})
      /\ Cardinality(Admitted(b, w) \cup {r}) \in Nat
      /\ Cardinality(Admitted(b, w) \cup {r}) <= Cardinality(Admitted(b, w)) + 1
  <2>1. IsFiniteSet(Admitted(b, w) \cup {r})
    BY AdmittedFinite, FS_AddElement
  <2>2. Cardinality(Admitted(b, w) \cup {r}) =
           IF r \in Admitted(b, w) THEN Cardinality(Admitted(b, w)) ELSE Cardinality(Admitted(b, w)) + 1
    BY AdmittedFinite, FS_AddElement
  <2> QED
    BY <2>1, <2>2, AdmittedFinite
<1>2. IsFiniteSet(Admitted(b, w)') /\ Cardinality(Admitted(b, w)') <= Cardinality(Admitted(b, w) \cup {r})
  BY <1>1, FS_Subset
<1>3. Cardinality(Admitted(b, w)') \in Nat
  BY <1>2, FS_CardinalityType
<1> QED
  BY <1>1, <1>2, <1>3, AdmittedFinite

\* The MULTI keeps the types and the lifetime of the keys.
LEMMA MultiRight ==
    ASSUME ThrottleInv, NEW r \in Attempts, Counting(r), Incremented(r), UNCHANGED <<current, window>>
    PROVE  /\ count' \in [Keys -> Nat] /\ used' \in [Keys -> Windows]
           /\ ClockRight'
           /\ \A k \in Keys : count'[k] >= count[k]
           /\ \A b \in BucketsOf[r] :
                <<b, window[r]>> \in Keys /\ count'[<<b, window[r]>>] = count[<<b, window[r]>>] + 1
<1>1. ASSUME NEW b \in BucketsOf[r]
      PROVE  <<b, window[r]>> \in Keys /\ <<b, window[r]>> \in KeysOf(r)
  BY <1>1, BucketsAssumption DEF ThrottleInv, ThrottleTypeOK, Keys, KeysOf
<1>2. count' \in [Keys -> Nat] /\ used' \in [Keys -> Windows] /\ \A k \in Keys : count'[k] >= count[k]
  BY DEF ThrottleInv, ThrottleTypeOK, Incremented
<1>3. \A k \in KeysOf(r) : k[2] = window[r]
  BY DEF KeysOf
<1>4. ClockRight'
  BY <1>2, <1>3 DEF ThrottleInv, ThrottleTypeOK, ClockRight, Incremented, Windows
<1> QED
  BY <1>1, <1>2, <1>4 DEF Incremented

-----------------------------------------------------------------------------
LEMMA ThrottleInitRight == ThrottleInit => ThrottleInv
<1> SUFFICES ASSUME ThrottleInit PROVE ThrottleInv
  OBVIOUS
<1>1. ThrottleTypeOK /\ ClockRight
  BY ClockAssumption DEF ThrottleInit, ThrottleTypeOK, ClockRight, Windows, Keys
<1>2. ASSUME NEW b \in Buckets, NEW w \in Windows PROVE Cardinality(Admitted(b, w)) = 0
  <2>1. Admitted(b, w) = {}
    BY DEF ThrottleInit, Admitted, Through
  <2> QED
    BY <2>1, FS_EmptySet
<1>3. CountRight
  BY <1>2, BucketsAssumption DEF ThrottleInit, CountRight, Keys
<1> QED
  BY <1>1, <1>3 DEF ThrottleInv

LEMMA ThrottleStepRight == ThrottleInv /\ [ThrottleNext]_throttleVars => ThrottleInv'
<1> SUFFICES ASSUME ThrottleInv, [ThrottleNext]_throttleVars PROVE ThrottleInv'
  OBVIOUS
<1>1. ASSUME NEW r \in Attempts, Attempt(r) PROVE ThrottleInv'
  <2>1. ThrottleTypeOK' /\ ClockRight'
    BY <1>1 DEF ThrottleInv, ThrottleTypeOK, ClockRight, Attempt, redis, Windows
  <2>2. ASSUME NEW b \in Buckets, NEW w \in Windows PROVE Admitted(b, w)' = Admitted(b, w)
    BY <1>1 DEF ThrottleInv, ThrottleTypeOK, Attempt, Admitted, Through
  <2>3. CountRight'
    BY <1>1, <2>2 DEF ThrottleInv, CountRight, Attempt, redis
  <2> QED
    BY <2>1, <2>3 DEF ThrottleInv
<1>2. ASSUME NEW r \in Attempts, Count(r) PROVE ThrottleInv'
  <2>1. Counting(r) /\ Incremented(r) /\ UNCHANGED <<current, window, sent>>
    BY <1>2 DEF Count
  <2>2. ThrottleTypeOK' /\ ClockRight'
    BY <1>2, <2>1, MultiRight DEF ThrottleInv, ThrottleTypeOK, Count, Incremented
  <2>3. ASSUME NEW b \in Buckets, NEW w \in Windows, <<b, w>> \notin forgot'
        PROVE  /\ Cardinality(Admitted(b, w)') <= Limit[b]
               /\ current' <= w + 1 => Cardinality(Admitted(b, w)') <= count'[<<b, w>>]
    <3> DEFINE old == Cardinality(Admitted(b, w))
               new == Cardinality(Admitted(b, w)')
    <3>1. /\ <<b, w>> \in Keys /\ current' = current /\ old \in Nat /\ Limit[b] \in Nat
          /\ old <= Limit[b]
          /\ current <= w + 1 => old <= count[<<b, w>>]
          /\ count'[<<b, w>>] >= count[<<b, w>>]
          /\ count[<<b, w>>] \in Nat /\ count'[<<b, w>>] \in Nat
      BY <2>1, <2>3, MultiRight, AdmittedFinite, BucketsAssumption
      DEF ThrottleInv, ThrottleTypeOK, CountRight, Incremented, Keys
    <3>2. CASE b \in BucketsOf[r] /\ w = window[r] /\ ~Over(r)
      <4>1. Admitted(b, w)' \subseteq Admitted(b, w) \cup {r}
        BY <1>2 DEF ThrottleInv, ThrottleTypeOK, Count, Admitted, Through
      <4>2. new \in Nat /\ new <= old + 1
        BY <4>1, OneMore
      <4>3. count'[<<b, w>>] = count[<<b, w>>] + 1 /\ ~(count'[<<b, w>>] > Limit[b])
        BY <2>1, <3>2, MultiRight DEF Over
      <4>4. current <= w + 1
        BY <2>1, <3>2 DEF Counting
      <4> QED
        BY <3>1, <4>2, <4>3, <4>4
    <3>3. CASE ~(b \in BucketsOf[r] /\ w = window[r] /\ ~Over(r))
      <4>1. Admitted(b, w)' = Admitted(b, w)
        BY <1>2, <2>1, <3>3 DEF ThrottleInv, ThrottleTypeOK, Count, Counting, Admitted, Through
      <4> QED
        BY <3>1, <4>1
    <3> QED
      BY <3>2, <3>3
  <2> QED
    BY <2>2, <2>3 DEF ThrottleInv, CountRight
<1>3. ASSUME NEW r \in Attempts, Resend(r) PROVE ThrottleInv'
  <2>1. Counting(r) /\ Incremented(r) /\ UNCHANGED <<current, stage, window>>
    BY <1>3 DEF Resend
  <2>2. ThrottleTypeOK' /\ ClockRight'
    BY <1>3, <2>1, MultiRight, ClockAssumption DEF ThrottleInv, ThrottleTypeOK, Resend, Incremented
  <2>3. ASSUME NEW b \in Buckets, NEW w \in Windows PROVE Admitted(b, w)' = Admitted(b, w)
    BY <2>1 DEF Admitted, Through
  <2>4. CountRight'
    BY <2>1, <2>3, MultiRight, AdmittedFinite DEF ThrottleInv, ThrottleTypeOK, CountRight, Incremented, Keys
  <2> QED
    BY <2>2, <2>4 DEF ThrottleInv
<1>4. ASSUME NEW r \in Attempts, Unavailable(r) PROVE ThrottleInv'
  <2>1. Counting(r) /\ UNCHANGED <<current, window, sent>>
    BY <1>4 DEF Unavailable
  <2>2. ASSUME NEW b \in Buckets, NEW w \in Windows PROVE Admitted(b, w)' = Admitted(b, w)
    BY <1>4, <2>1 DEF ThrottleInv, ThrottleTypeOK, Unavailable, Counting, Admitted, Through
  <2>3. CASE Incremented(r)
    <3>1. ThrottleTypeOK' /\ ClockRight'
      BY <1>4, <2>1, <2>3, MultiRight DEF ThrottleInv, ThrottleTypeOK, Unavailable, Incremented
    <3>2. CountRight'
      BY <2>1, <2>2, <2>3, MultiRight, AdmittedFinite
      DEF ThrottleInv, ThrottleTypeOK, CountRight, Incremented, Keys
    <3> QED
      BY <3>1, <3>2 DEF ThrottleInv
  <2>4. CASE UNCHANGED redis
    <3>1. ThrottleTypeOK' /\ ClockRight'
      BY <1>4, <2>1, <2>4 DEF ThrottleInv, ThrottleTypeOK, ClockRight, Unavailable, redis
    <3>2. CountRight'
      BY <2>1, <2>2, <2>4 DEF ThrottleInv, CountRight, redis
    <3> QED
      BY <3>1, <3>2 DEF ThrottleInv
  <2> QED
    BY <1>4, <2>3, <2>4 DEF Unavailable
<1>5. ASSUME NEW k \in Keys, Expire(k) PROVE ThrottleInv'
  <2>1. ThrottleTypeOK' /\ ClockRight'
    BY <1>5 DEF ThrottleInv, ThrottleTypeOK, ClockRight, Expire
  <2>2. \A b \in Buckets, w \in Windows : Admitted(b, w)' = Admitted(b, w)
    BY <1>5 DEF Expire, Admitted, Through
  <2>3. ~(current <= k[2] + 1)
    BY <1>5 DEF ThrottleInv, ThrottleTypeOK, ClockRight, Expire, Keys, Windows
  <2>4. \A b \in Buckets, w \in Windows :
          <<b, w>> \in Keys /\ (current <= w + 1 => count'[<<b, w>>] = count[<<b, w>>])
    BY <1>5, <2>3 DEF ThrottleInv, ThrottleTypeOK, Expire, Keys
  <2>5. CountRight'
    BY <1>5, <2>2, <2>4 DEF ThrottleInv, CountRight, Expire
  <2> QED
    BY <2>1, <2>5 DEF ThrottleInv
<1>6. ASSUME NEW k \in Keys, Forget(k) PROVE ThrottleInv'
  <2>1. ThrottleTypeOK' /\ ClockRight'
    BY <1>6 DEF ThrottleInv, ThrottleTypeOK, ClockRight, Forget
  <2>2. \A b \in Buckets, w \in Windows : Admitted(b, w)' = Admitted(b, w)
    BY <1>6 DEF Forget, Admitted, Through
  <2>3. CountRight'
    BY <1>6, <2>2 DEF ThrottleInv, ThrottleTypeOK, CountRight, Forget, Keys
  <2> QED
    BY <2>1, <2>3 DEF ThrottleInv
<1>7. CASE NextWindow
  <2>1. current' \in Windows /\ current' >= current
    BY <1>7, ClockAssumption DEF ThrottleInv, ThrottleTypeOK, NextWindow, Windows
  <2>2. ThrottleTypeOK' /\ ClockRight'
    BY <1>7, <2>1 DEF ThrottleInv, ThrottleTypeOK, ClockRight, NextWindow, redis, Windows
  <2>3. \A b \in Buckets, w \in Windows : Admitted(b, w)' = Admitted(b, w)
    BY <1>7 DEF NextWindow, Admitted, Through
  <2>4. CountRight'
    BY <1>7, <2>1, <2>3 DEF ThrottleInv, ThrottleTypeOK, CountRight, NextWindow, redis, Windows
  <2> QED
    BY <2>2, <2>4 DEF ThrottleInv
<1>8. CASE UNCHANGED throttleVars
  <2>1. \A b \in Buckets, w \in Windows : Admitted(b, w)' = Admitted(b, w)
    BY <1>8 DEF throttleVars, Admitted, Through
  <2> QED
    BY <1>8, <2>1 DEF ThrottleInv, ThrottleTypeOK, ClockRight, CountRight, throttleVars, redis
<1> QED
  BY <1>1, <1>2, <1>3, <1>4, <1>5, <1>6, <1>7, <1>8 DEF ThrottleNext

\* The inductive invariant holds in every state of the throttles.
THEOREM ThrottleInvariance == ThrottleSpec => []ThrottleInv
BY ThrottleInitRight, ThrottleStepRight, PTL DEF ThrottleSpec

\* The type invariant of the throttles.
THEOREM ThrottleTypes == ThrottleSpec => []ThrottleTypeOK
<1>1. ThrottleInv => ThrottleTypeOK
  BY DEF ThrottleInv
<1> QED
  BY <1>1, ThrottleInvariance, PTL

\* No bucket of a throttle lets more than its limit through in a window of the
\* clock, whatever is delayed, sent again, lost or expired.
THEOREM ThrottleHolds == ThrottleSpec => []WithinLimit
<1>1. ThrottleInv => WithinLimit
  BY DEF ThrottleInv, CountRight, WithinLimit
<1> QED
  BY <1>1, ThrottleInvariance, PTL
=============================================================================
