--------------------------- MODULE AuthorizeLogin ---------------------------
(***************************************************************************)
(* The sign-in page (server/okk_mcp/oauth.py, GET and POST /authorize).    *)
(* The gateway keeps nothing between the two: a page carries its request,  *)
(* signed with the time of the signature and with the nonce of the form.   *)
(* A person works with several pages, unchecks optional access, mistypes   *)
(* the password, submits twice; the answers to the posts of one page come  *)
(* in any order and the browser shows the answer to the last.              *)
(*                                                                         *)
(* What a sign-in stores, and what fails while it does, is in Maintenance. *)
(***************************************************************************)
EXTENDS Naturals

CONSTANTS Pages,      \* browser tabs, each with a client of its own
          Posts,      \* the requests POST /authorize
          NoPost,
          Scopes,
          Optional,   \* OPTIONAL_GRANTS: scopes with a checkbox
          Lifetime,   \* max_age of a signed request
          MaxTime     \* the end of the modelled time

ASSUME OptionalAssumption == Optional \subseteq Scopes
ASSUME NoPostAssumption == NoPost \notin Posts
ASSUME TimeAssumption == Lifetime \in Nat /\ MaxTime \in Nat

VARIABLES
    now,
    page,      \* the form a tab shows
    awaited,   \* the post whose answer a tab will show
    post,      \* the requests, with the form each one carries
    blocked,   \* tabs whose client an operator has blocked
    late       \* history: posts sent after the client was blocked

vars == <<now, page, awaited, post, blocked, late>>

-----------------------------------------------------------------------------
\* "boxes" is the present form.  A "plain" one is of the previous version,
\* without checkboxes; a "cookie" one is older and its signed request has no
\* nonce.  The last three fields are history: when the tab was opened, whether
\* a stale nonce made the gateway sign again, what the person left unchecked.
Form == [kind : {"none", "cookie", "plain", "boxes"},
         requested : SUBSET Scopes,
         boxes : SUBSET Optional,
         fits : BOOLEAN,         \* the form's nonce is that of its signed request
         signedAt : Nat,
         began : Nat,
         renewed : BOOLEAN,
         refused : SUBSET Optional]

Post == [step : {"unsent", "sent", "renewing", "loading", "okk", "code", "shown", "error"},
         of : Pages,
         form : Form,
         granted : SUBSET Scopes,
         arrived : Nat]

TypeOK ==
    /\ now \in Nat
    /\ page \in [Pages -> Form]
    /\ awaited \in [Pages -> Posts \cup {NoPost}]
    /\ post \in [Posts -> Post]
    /\ blocked \subseteq Pages
    /\ late \subseteq Posts

NoForm == [kind |-> "none", requested |-> {}, boxes |-> {}, fits |-> FALSE,
           signedAt |-> 0, began |-> 0, renewed |-> FALSE, refused |-> {}]

\* validate_scopes lets no empty request through.
Requests == (SUBSET Scopes) \ {{}}

\* Pages of earlier versions may be open when the present one starts.
OldForm(kind, scopes) ==
    [NoForm EXCEPT !.kind = kind, !.requested = scopes, !.fits = (kind = "plain")]

Unsent(p) ==
    [step |-> "unsent", of |-> p, form |-> NoForm, granted |-> {}, arrived |-> 0]

Init ==
    /\ now = 0
    /\ page \in [Pages -> {NoForm} \cup {OldForm(k, s) : k \in {"cookie", "plain"}, s \in Requests}]
    /\ awaited = [p \in Pages |-> NoPost]
    /\ \E p \in Pages : post = [q \in Posts |-> Unsent(p)]
    /\ blocked = {} /\ late = {}

-----------------------------------------------------------------------------
(* The person and the browser                                              *)

\* GET /authorize: a new page has every box checked.
Open(p) ==
    /\ page[p].kind = "none" /\ p \notin blocked
    /\ \E scopes \in Requests :
         page' = [page EXCEPT ![p] =
                    [kind |-> "boxes", requested |-> scopes, boxes |-> scopes \cap Optional,
                     fits |-> TRUE, signedAt |-> now, began |-> now, renewed |-> FALSE, refused |-> {}]]
    /\ UNCHANGED <<now, awaited, post, blocked, late>>

Uncheck(p, s) ==
    /\ page[p].kind = "boxes" /\ s \in page[p].boxes
    /\ page' = [page EXCEPT ![p].boxes = @ \ {s}, ![p].refused = @ \cup {s}]
    /\ UNCHANGED <<now, awaited, post, blocked, late>>

Check(p, s) ==
    /\ page[p].kind = "boxes" /\ s \in (page[p].requested \cap Optional) \ page[p].boxes
    /\ page' = [page EXCEPT ![p].boxes = @ \cup {s}, ![p].refused = @ \ {s}]
    /\ UNCHANGED <<now, awaited, post, blocked, late>>

\* A reload fills the hidden nonce with that of an earlier page.
Restore(p) ==
    /\ page[p].kind # "none" /\ page[p].fits
    /\ page' = [page EXCEPT ![p].fits = FALSE]
    /\ UNCHANGED <<now, awaited, post, blocked, late>>

Submit(p, q) ==
    /\ page[p].kind # "none" /\ post[q].step = "unsent"
    /\ post' = [post EXCEPT ![q] = [@ EXCEPT !.step = "sent", !.of = p, !.form = page[p]]]
    /\ late' = IF p \in blocked THEN late \cup {q} ELSE late
    /\ awaited' = [awaited EXCEPT ![p] = q]
    /\ UNCHANGED <<now, page, blocked>>

-----------------------------------------------------------------------------
(* POST /authorize                                                         *)

Goto(q, step) == post' = [post EXCEPT ![q].step = step]

\* Slip: the scopes of the signed request are granted as they are.
RequestedScope(form) == form.requested

\* _granted_scope: the requested scopes without the boxes left unchecked.
Granted(form) ==
    IF form.kind = "boxes" THEN form.requested \ (Optional \ form.boxes) ELSE form.requested

\* The signature and its age, then the nonce.
Arrive(q) ==
    /\ post[q].step = "sent"
    /\ IF now > post[q].form.signedAt + Lifetime
         THEN Goto(q, "error")
         ELSE post' = [post EXCEPT ![q].step = IF post[q].form.fits THEN "loading" ELSE "renewing",
                                   ![q].granted = Granted(post[q].form),
                                   ![q].arrived = now]
    /\ UNCHANGED <<now, page, awaited, blocked, late>>

Show(q, form) ==
    LET p == post[q].of IN
    page' = IF awaited[p] = q THEN [page EXCEPT ![p] = form] ELSE page

\* _render_login: the page shown again, with the boxes as they were submitted.
Again(q) == [post[q].form EXCEPT !.kind = "boxes", !.boxes = post[q].granted \cap Optional]

\* _refresh_authorization_form: the request signed anew, with a new nonce.
Renew(q) ==
    /\ post[q].step = "renewing" /\ post[q].of \notin blocked
    /\ Show(q, [Again(q) EXCEPT !.signedAt = now, !.fits = TRUE, !.renewed = TRUE])
    /\ Goto(q, "shown")
    /\ UNCHANGED <<now, awaited, blocked, late>>

\* Slip: the client was looked at when the page was opened.
LoadSigned(q) ==
    /\ post[q].step = "loading"
    /\ Goto(q, "okk")
    /\ UNCHANGED <<now, page, awaited, blocked, late>>

\* _load_client and the throttle.
Load(q) ==
    /\ post[q].step = "loading" /\ post[q].of \notin blocked
    /\ Goto(q, "okk")
    /\ UNCHANGED <<now, page, awaited, blocked, late>>

\* Slip: the page after a wrong password is signed anew as well.
RetrySigned(q) ==
    /\ post[q].step = "okk"
    /\ Show(q, [Again(q) EXCEPT !.signedAt = now])
    /\ Goto(q, "shown")
    /\ UNCHANGED <<now, awaited, blocked, late>>

WrongPassword(q) ==
    /\ post[q].step = "okk"
    /\ Show(q, Again(q))
    /\ Goto(q, "shown")
    /\ UNCHANGED <<now, awaited, blocked, late>>

\* OKK opened a session; the code grants post[q].granted.
SignIn(q) ==
    /\ post[q].step = "okk"
    /\ Goto(q, "code")
    /\ UNCHANGED <<now, page, awaited, blocked, late>>

\* An unusable client, the throttle, OKK or the database: an error, and the
\* person may go back to the page.
Fail(q) ==
    /\ post[q].step \in {"renewing", "loading", "okk"}
    /\ Goto(q, "error")
    /\ UNCHANGED <<now, page, awaited, blocked, late>>

-----------------------------------------------------------------------------
Block(p) ==
    /\ p \notin blocked
    /\ blocked' = blocked \cup {p}
    /\ UNCHANGED <<now, page, awaited, post, late>>

Tick ==
    /\ now < MaxTime
    /\ now' = now + 1
    /\ UNCHANGED <<page, awaited, post, blocked, late>>

Person(p) ==
    \/ Open(p) \/ Restore(p)
    \/ \E s \in Optional : Uncheck(p, s) \/ Check(p, s)
    \/ \E q \in Posts : Submit(p, q)

Answer(q) == Arrive(q) \/ Renew(q) \/ Load(q) \/ WrongPassword(q) \/ SignIn(q) \/ Fail(q)

Next ==
    \/ \E p \in Pages : Person(p) \/ Block(p)
    \/ \E q \in Posts : Answer(q)
    \/ Tick

Spec == Init /\ [][Next]_vars

-----------------------------------------------------------------------------
(* Properties                                                              *)

Signed(q) == post[q].step = "code"

\* docs/security.md: "An unchecked box removes that scope", and "a page shown
\* again keeps the boxes as the person left them": whatever pages, refreshes
\* and wrong passwords came between, a code grants the requested scopes and
\* not one the person had refused when submitting.
ConsentKept ==
    \A q \in Posts : Signed(q) => post[q].granted = post[q].form.requested \ post[q].form.refused

\* The signed request lives for ten minutes: however often the person mistypes
\* the password, the page leads to no code later than that, unless a stale
\* nonce made the gateway sign again.
TenMinutesUnlessRenewed ==
    \A q \in Posts : Signed(q) /\ ~post[q].form.renewed =>
        post[q].arrived <= post[q].form.began + Lifetime

\* /token with a refresh token: validate_scopes(scope or stored.scope), where an
\* empty scope stands for the default ones.
RefreshScope(stored) == IF stored = {} THEN Scopes ELSE stored

\* docs/security.md: "Existing access and refresh tokens retain their original
\* scope": a refresh that names no scope asks for the scope of its token.
RefreshKeepsScope == \A q \in Posts : Signed(q) => RefreshScope(post[q].granted) = post[q].granted

\* An operator's block holds for pages opened before it: no post sent after it
\* gets a code.
BlockedClientGetsNoCode == \A q \in Posts : Signed(q) => q \notin late
=============================================================================
