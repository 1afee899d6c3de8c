# OKK Analytics gateway: a TLA+ verification project

The gateway (`src/server/okk_mcp`) lets MCP clients (Claude, Codex, ChatGPT) read the
analytics of the OKK platform on behalf of a person. It is an OAuth 2.1 server towards its
clients and a client of OKK's own sessions: behind every grant it keeps one encrypted OKK
session, reloads the live account on every request and renews OKK's rotating token pair.
What can go wrong is in the meeting of three parties that fail on their own: concurrent
requests, PostgreSQL transactions and OKK. This directory models that meeting, checks it with
TLC and proves its central properties with TLAPS.

## 1. The system

| Component (source) | State | Operations | What is hard |
|---|---|---|---|
| Account session (`platform_client.py`) | row of `okk_account_sessions` (sealed access and refresh token, `revoked_at`), the per-process renewal cache `_renewed_access` | `live_context`, `_rotate_session`, `_read`, `revoke_upstream`, `authenticate` | OKK's refresh token may be used once only; an await to OKK between two transactions; a row lock held over a network call; lost answers; a revocation against a rotation; restarts |
| OAuth endpoints (`oauth.py`) | rows of `oauth_clients`, `oauth_authorization_codes`, `oauth_tokens`; the signed authorization request; throttle counters in Redis | `/register`, `/authorize` (GET, POST), `/token`, `/revoke`, `/userinfo`, `verify_token` | rotation with a retry window; reuse detection against a rotation in flight; READ COMMITTED snapshots; lock order; an answer lost after commit |
| Cleanup (`maintenance.py`) | the list of orphans it read | `cleanup_once`, `cleanup_loop` | a list used long after it was read; cascades; a pass that fails halfway, every time |
| Connection pool (`db.py`) | the engine's connections | `get_db`, `session_factory` | a request needs a second connection while it holds the first |
| Client metadata (`client_metadata.py`) | a per-process cache | `load_client_metadata` | staleness, one fetch per process |
| Analytics client (`backend_client.py`) | none of its own besides the Redis call counter; one adapter per tool call | 26 tools, scope resolution, grounding of OKK's rows, journal paging, transcript pieces, parallel reads with repeats | an answer is put together from sources that fail or disagree one by one; lists and transcripts move while they are read; a scenario has several versions of which a reader may see some; the time budget ends with reads under way |
| MCP server (`server.py`, `main.py`) | none | the scope check and the errors of a tool, declarations, wiring, lifespan | which failure an answer names |
| Settings, PKCE and scope helpers, reporting helpers | none | pure functions | boundaries |
| Migrations, evaluation suite, smoke test, plugin package | outside the running service | | |

How they meet: an MCP request passes `verify_token`, which reads the token's row and calls
`live_context`; the tool's reads then carry the account's OKK token through `_read`, which may
call `_rotate_session`. A tool (`AnalyticsAdapter`) resolves what the caller named against the live
account, starts reads of OKK side by side and puts one envelope together. `/token` with a refresh token calls `live_context` from inside its own
transaction, and `revoke_upstream` on a second connection when it detects reuse. The cleanup
calls `revoke_upstream` for sessions without a live grant and deletes rows the other
components may be waiting for.

## 2. The modules

| Module | Models |
|---|---|
| `SessionContract` | abstract: what an account session promises the rest of the gateway |
| `AccountSession` | `platform_client.py`: one account session and everybody who uses it at once |
| `AccountSessionProofs` | its theorems, the refinement of `SessionContract` among them |
| `TokenGrants` | `oauth.py`: `/token`, `/revoke` and the verifier, over any number of requests |
| `TokenGrantsProofs` | its theorems |
| `Maintenance` | `maintenance.py` beside sign-ins and token requests |
| `MaintenanceProofs` | its theorems |
| `ConnectionPool` | `db.py`: the engine's connections and who holds two of them |
| `ConnectionPoolProofs` | its theorems |
| `AuthorizeLogin` | `oauth.py`: the sign-in page, GET and POST `/authorize` |
| `Throttle` | `oauth.py` and `backend_client.py`: the counters in Redis |
| `SignInProofs` | theorems of these two |
| `ToolContract` | abstract: what the client of a tool call may conclude from its answer |
| `ToolCall` | `server.py`, `backend_client.py`, `platform_client.py`: one tool call and its reads |
| `ToolCallProofs` | its theorems, the refinement of `ToolContract` among them |
| `AnalyticsScope` | `backend_client.py`: what a tool call may look at; operators of the next four modules |
| `ReportTools` | its tools that report on departments and employees |
| `ScenarioTools` | its tools about scenarios, their versions and criteria |
| `CallTools` | its tools that list, search, open and look up calls |
| `AnalyticsTools` | all the tools together |
| `AnalyticsProofs` | their theorems |
| `JournalPages` | `backend_client.py`: reading a list page by page while it moves |
| `TranscriptChunks` | `backend_client.py`: reading a long transcript in pieces |
| `ClientMetadataCache` | `client_metadata.py`: the per-process cache and its downloads |
| `ReadingProofs` | theorems of these three |
| `Filtering` | the rows of a list that are kept; used by the pages and the cache |
| `MCAccountSession`, `MCTokenGrants`, `MCMaintenance`, `MCConnectionPool`, `MCAuthorizeLogin`, `MCSignIn`, `MCAnalytics` | the instances TLC checks |

`TokenGrants` sees account sessions only as `SessionContract` allows (`KeepsSessionContract`
instantiates it per session), so `AccountSession`, which implements that contract, and
`TokenGrants` compose without a product of their state spaces. `Maintenance` abstracts both: a
sign-in with its session, its code and the last token of its chain. `AuthorizeLogin` ends where a
sign-in of `Maintenance` begins: its step `SignIn` is the `Authenticate` ... `CommitSignIn` there.
`ConnectionPool` looks at the requests of `TokenGrants` and `AccountSession` once more, for the
connections they hold; the rows are only something to wait for. `ToolCall` looks at a tool's reads
only by how they end, the renewal of `AccountSession` being one step of them and the limit of
`Throttle` another; `ReportTools`, `ScenarioTools` and `CallTools` look at what the reads of an
answered call brought, in one step, since an adapter keeps nothing between two calls.
`ClientMetadataCache` ends where the `Load` of `AuthorizeLogin` begins.

Definitions marked *Slip* are not part of a specification. Each is a plausible mistake in the
definition that follows it; putting it in that definition's place must break the property
named for it in `PROJECT.json`.

### AccountSession

A *step* is what happens between two awaits: a database statement, a commit, or one request as
OKK processes it. Tokens are numbered by the pair they belong to: OKK issues pair 1 at sign-in
and pair *n*+1 for refresh token *n*. `pc` follows the code from line to line:

| `pc` | code |
|---|---|
| `idle` → `me` | first transaction of `live_context`, access token read |
| `me` → `check_row` / `lock` | `GET /auth/me`; 401 goes to `_rotate_session` |
| `lock` → `refresh` / `check_current` | `SELECT ... FOR UPDATE`; a waiter that finds another token leaves the transaction |
| `refresh` → `store_pair` / `reject` | `POST /auth/refresh` under the lock |
| `store_pair`, `reject` → | the commit, which releases the row |
| `remember` → | `_remember_renewal`, back to `live_context` or to the read |
| `check_row` → `save_row` / `revoke_row` → `ready` | second transaction of `live_context` |
| `ready` → `send` → `resend` | `_read` of a tool call with its one renewal |

`OkkRotates` and `OkkRefuses` are OKK: the current refresh token is rotated, any other ends the
session. `RefreshLost` leaves the request in `late`: OKK may still process it at any later
moment. `Cancel` is the tool's time budget, a failed statement or an HTTP error; `Crash` the end
of the process (requests, revokers and the cache are gone, rows and OKK stay). Whoever does not
hold `lock` may read the row (READ COMMITTED) but not write it.

### TokenGrants

A request is one transaction: `Begin...` reads its input, the lock steps wait for rows, `Commit...`
writes everything at once and releases the locks, `Refuse` and `Abort` write nothing. The family
UPDATE has two steps, because PostgreSQL fixes the rows it looks at when the statement begins
(`BeginUpdate`, `seen`) and waits for their owners afterwards (`Update`). `Logout` is a commit of
its own: `revoke_upstream` works on a second connection. A verifier's request (`Verify`) takes no
lock; when OKK is unavailable its tool asks for the account a second time (kind `tool`).
The locks are those of codes and refresh tokens. PostgreSQL locks the rows of the UPDATE one after
another; one step is enough for refresh tokens, of which a sign-in has at most one that is not revoked.
The rows of access tokens, which the same UPDATE locks, and foreign-key locks are left out, so
`NoCircularWait` speaks of less than PostgreSQL's whole lock table.
`CloseRetry` closes the retry window at any moment, so both sides of its edge are covered.

### Maintenance

Rows age from `live` to `dead` (used, revoked, expired) to `old` (retention time over) to `none`.
A pass has three steps visible to others: the list of orphans, one `revoke_upstream` at a time,
and the deletions. The DELETE of clients has two, like the UPDATE above: `FindClients` evaluates
its conditions, `CommitDeletes` waits for the sign-ins that hold a client's row (the foreign key of
their code locks it FOR KEY SHARE) and then deletes with the cascades of `models.py`.

A sign-in can end between OKK's answer and its commit: OKK's session is then open and the gateway has
no row of it (`FailSignIn`, and the outcome of `Authenticate` that throws an unusable account away).
Two history variables say why a stored session may be forgotten: `lost`, a login's answer or a logout
that did not arrive, and `dropped`, a session that `live_context` revoked without a logout.

A client's row also carries the operator's block (`deleted_at`); `Loadable` is what `_load_client`
makes of it.

### ConnectionPool

A request of `/token` or `/revoke` takes the connection of `get_db` at its first statement (`first`),
keeps it to its commit and, inside `live_context` or `revoke_upstream`, takes another one for each
short transaction (`second`). An MCP request takes only the latter. `Connect` is a checkout,
`PoolTimeout` the exception of SQLAlchemy's queue after thirty seconds. Sign-ins and the cleanup hold
one connection and wait for no other, so they only delay what is modelled.

### AuthorizeLogin

A page is a record: what its signed request says (`requested`, `signedAt`), whether its nonce is the
signed one (`fits`) and how its boxes stand; the gateway keeps nothing in between. A post carries a
copy of the form. `Arrive` is the code up to its first await (signature, age, consent, nonce);
`Renew`, `Load`, `WrongPassword` and `SignIn` are the awaits after it, with posts of one page overtaking
each other. `Lifetime` is `max_age`. `refused` records what the person left unchecked, `began` when
the tab was opened; both are read by properties only.

### Throttle

One key per bucket and window; a sign-in has two buckets. `Count` is the MULTI with its answer,
`Resend` the Redis client repeating it after a lost answer, `Unavailable` a `RedisError`, with or
without the count. A key may expire two windows after its last `EXPIRE` (120 s for minutes, 7200 s for
hours). The model assumes that reaching Redis takes less than a window (`Counting`): a process
suspended for longer could count under a key that has expired.

### ToolCall

A call is `new`, `counting` (`_count_tool_call`), `running` under its time budget, or has its verdict.
Its reads are started by stage (the statements of a tool that await several reads at once); reads
under the semaphore of `_bounded` wait for a place. A read is `sent`, in a `pause` before a repeat
(`_send_read`), `renewing` (`_rotate_session`), or has ended in one of `Fates`. `Settle` is the
exception that leaves `asyncio.gather`: the first failure decides the verdict, the other reads of the
stage go on, queued ones are still sent. `KeepsAbsent` and `KeepsDown` are the reads whose failure a
tool catches and shows as a missing part. `Contract` maps the phase to the verdict of `ToolContract`
and each read to what it is evidence of.

### AnalyticsScope, ReportTools, ScenarioTools, CallTools

`answer` is the only variable: a question (account, what OKK will answer, selector, employee), the rows
OKK sent for it, and the envelope with what it shows. Each tool is one action; its disjuncts are the
early returns of the method, the last one its envelope. Ids, names and codes are model values; a text is
what the tools tell apart (`transcript` is there, empty or closed); sums are the sets they are taken over,
so that a row counted twice or not at all is visible. Phone numbers are sequences of digits, as
`_normalized_phone_filter` and `_phone_matches` look at them; which characters are digits is left out.
OKK's answers to one call need not agree: a roster, a ranking and a plan are read one after another.

### JournalPages, TranscriptChunks

`ReadCapped` is one round of `_journal_pages` and of `employees`, `ReadCatalog` one of `scenarios`;
between two pages entries `Arrive` and `Leave` anywhere in the list. `ReadChunk` is one tool call
that returns a piece; between two, OKK may `Revise` the transcript. A segment is the sequence of its
characters, and a hash stands for the text it was taken of.

### ClientMetadataCache

`Load`, `Serve`, `Store` and `Use` are the awaits of `load_client_metadata` and of the request that
called it; `Tick` is a second, `Publish` the owner replacing the document. `stale` counts how long ago a
document was replaced and is read by the property only.

## 3. What the runs check

| Run | Instance | Shows |
|---|---|---|
| `session` | 2 requests, 1 revoker, 2 expiries of the access token | the pair in the row is OKK's current pair unless a rotation was interrupted; no interleaving alone shows a refresh token twice; reads never fall back behind the token they started with; revocation is final; the whole implements `SessionContract` |
| `grants` | 1 sign-in, 3 pairs, 2 requests | one head per chain, replays end the session before they are answered, retries and rotations act on unused tokens, consent only narrows, no circle of waiting transactions, sessions used as their contract allows |
| `grants_live` | 1 sign-in, 2 pairs, 2 requests | every request is answered |
| `cleanup` | 2 sign-ins, a registered and a metadata-document client, 1 orphan per pass | a session is swept only if no grant of it lives, save one issued to a request admitted before its token expired; OKK sessions are never forgotten unless a call to OKK was lost; a grant's client and session exist |
| `cleanup_live` | 2 sign-ins of one client | orphans are revoked and old codes deleted in the end |
| `cleanup_unreadable` | one undecryptable session | *violation*: nothing is deleted any more |
| `cleanup_abandoned` | 2 sign-ins of one old client | *violation*: a fresh code is deleted with its client |
| `cleanup_blocked` | a metadata-document client | *violation*: a block is deleted with the row that carries it |
| `pool` | 2 refreshes, 1 revocation, 2 MCP requests, 3 connections | an exhausted pool is at a halt only when token requests hold all of it; its timeout then ends them; whatever stands still with a connection of a short transaction stands behind one renewal |
| `sign_in` | the page: 1 tab, 3 posts, one optional and one other scope, a signature lives for 1 of 2 ticks; the throttles: 2 sign-ins of one address, one tool call, 3 windows, one retry | a code grants what was left checked, is not late and never for a client blocked before the post; a window lets no more than its limit through |
| `login_empty` | the page alone, 3 ticks | *violation*: an empty consent makes a grant that cannot be refreshed |
| `analytics` | 2 departments and 2 people, 3 kinds of account, a name of one department and one of both; 3 scenario versions, 4 criteria, journals of 2 calls; lists of up to 5 entries in pages of 2 with a cap of 3 and 2 moves; transcripts of up to 4 segments, replaced twice; a call of 4 reads in 2 stages with 2 places; 2 metadata clients, 3 requests and room for one entry | no answer is about more than its question or beyond the account; `ok` hides no gap and `no_data` is true of the rows that were read; every evaluation lands once and for every reader alike; phone numbers are found however written; pages lose at most one row per departure, pieces rebuild the transcript; a call's load is bounded, it answers in the end and implements `ToolContract`; no document is older than its lifetime and one download |

**Bounds.** Two requests suffice for every pairwise race (rotation against rotation, revocation,
snapshot update, retry); the proofs cover any number. Three pairs give a chain with a used, a
retried and a current token. `MaxGen` bounds the expiries, `Pairs` the rotations. In `cleanup` two
sign-ins with `Limit` = 1 make an orphan wait for the next pass and a list go stale. Three posts of
one tab are a refreshed form, a wrong password and a sign-in; tabs share nothing but the clock. In `pool` the requests that need two connections are as many as the connections, so that
it can halt and can also be exhausted without halting. In `sign_in` two ticks let a signature be new,
one tick old and over age; windows 0 to 2 let a key be used, counted late and expire.
`sign_in` and `analytics` hold parts that share no state: a behaviour is of one part and the others
rest, so their states add up. In `analytics` the questions are chosen so that a name is unknown, exact or
ambiguous, an employee has moved or left, a code is cut, missing or reused in another department, a
norm differs between versions, and each tool meets each of its early returns; two calls in a journal are
the least that can be split between two versions, two pages or two scenarios. A cap of 3 with pages of 2 is met inside a page and on its
edge, by lists that are shorter, equal and longer. Four reads are a first stage and three side by side for two places, one whose refusal, one
whose outage and none of whose failures the tool keeps. Three requests of two clients in a cache of one entry evict each
other and store two downloads out of order.
Symmetry is used over requests, posts and pairs, in safety runs only. `cleanup_live` fingerprints states without the
history variables, which no guard reads.

**Fairness.** Every await on OKK ends, because the HTTP client and the pool have timeouts: weak
fairness of the answer steps, a lost answer included. A row lock is granted in turn by PostgreSQL,
so a waiter is served although others come and go: strong fairness of the waiting steps. No
fairness is assumed of clients, of OKK granting anything, of expiry, of crashes. `cleanup_loop`
repeats for ever; `cleanup_live` assumes that a pass does not fail at the same statement every time
(strong fairness of the statements), and `cleanup_unreadable` shows what happens when it does.
`ToolCall` assumes that the MCP session runs the call, that Redis answers or its client raises, and that
the timer of the budget fires; nothing of OKK. Readers of pages and pieces go on until they are told the
end; that each request for a page ends is the HTTP client's timeout. `EverythingEnds` joins the three.
In `ConnectionPool` whoever waits for a connection gets it or the
timeout's exception: weak fairness of the two together, none of either alone.
`CHECK_DEADLOCK FALSE` is set where a bounded system may end: in `Maintenance` once every row is gone,
in `AuthorizeLogin`, `Throttle` and the parts of `MCAnalytics` once everything is answered and the time
is over.

## 4. What is proved

For every number of requests, revokers, sessions, pairs, scopes, tabs, posts, buckets, departments, people,
reads and calls. The
assumptions are those of the modules: `NoOne`, `NoPair`, `NoSession` and `NoPost` are not among the
values they stand apart from, bounds and limits are natural numbers, and the requests that are
counted (`ConnectionPool`, `Throttle`) are finitely many.

- `AccountSessionProofs`: `TypeCorrect`, `TwiceOnlyWhenInterrupted`, `PairIsCurrent`,
  `ReadsNeverOlder`, `RevocationIsFinal`, `SessionImplementsContract`.
  The inductive invariant adds to the types who may be at which step: only the owner of the row's
  lock is in the rotation transaction, the pair it is about to store is the one after the row's, an
  uninterrupted row is at OKK's generation or one behind the storing owner, every token in use was
  issued, and the renewal cache maps a token to a newer one. Without the ownership part neither
  the second rotation nor an overwritten pair can be excluded.
- `TokenGrantsProofs`: `GrantTypes`, `OneHead`, `ReuseEndsSession`, `RetriesAnswerUnused`,
  `RotationsUsable`, `ScopesNarrow`, `GrantsKeepContract`, `NoDeadlock`.
  The invariant has four parts: rows (a pair's successor belongs to the same session, used pairs
  have one, scopes shrink along it), holders (a request past its lock step owns the row it
  decided on, and that row is still as it saw it), heads (a chain has at most one usable pair, the
  code of a session with pairs was used, a session whose last pair is being revoked is already
  dead), and the replays answered. `NoDeadlock` needs a second invariant: a revocation waits only
  for the end of a chain, and a retry locks from a token to its successor, so the waiting relation
  descends along chains.
- `ConnectionPoolProofs`: `PoolTypes`, `ShortWaits`, `PoolMoves`, and its corollary `LargePoolMoves` for pools
  larger than the number of token requests. The invariant ties each connection to the step of its request
  and the account's row to the one request renewing; the rest is counting: when every connection
  belongs to a request that waits for a second one, there are as many of them as connections.
  `ShortWaits` does not bound the connections a slow OKK takes, since every request of the person may queue
  with one; it says what they wait for: the owner of the account's row, who waits for OKK and nothing else.
- `SignInProofs`: `LoginTypes`, `LoginKeepsConsent`, `LoginInTime`, `LoginRespectsBlock` of `AuthorizeLogin`,
  `ThrottleTypes` and `ThrottleHolds` of `Throttle`. The invariant of the page says of every form, shown or posted, that its boxes are the requested optional scopes
  without the refused ones and that its signature is as old as its tab unless renewed.
  The invariant of the throttle says that as long as a request of a window may still count, the window's key has counted all that were let through, so the key's
  lifetime and the bound on late requests belong together.
- `MaintenanceProofs`: `MaintenanceTypes`, `SweepsOrphans`, `SessionsKnown`, `GrantsHaveClients`. The
  invariant adds that a sign-in has no session row before its commit, that a waiting request was
  admitted with a live code or token unless that expired since (`late`), and that the list a pass
  read names sessions without a live grant, save those of `late`: what the properties say of swept
  sessions must hold of the whole list while it waits. `SessionsKnown` is about sessions that were stored;
  section 5 has those that
  never were.

- `ToolCallProofs`: `ToolTypes`, `ToolLoad`, `ToolKeepsContract`. The invariant `ToolInv` adds to the types
  that requests sent are bounded by the tries of each token (`Counts`), a read not under way has none
  (`Idle`), a stopped call has no read under way (`Stopped`), the places are at most `Parallel`
  (`PlacesBounded`), and the reads of a stage have begun together (`Together`): without the last, a
  stage that begins could be taken for a read that goes back to waiting. The refinement has one lemma for
  the end of a read and one for the steps in between, which stutter.
- `AnalyticsProofs`: `AnswersTyped`, `ScopesKept`, `AccessKept`, `NoDataHolds`, `LookupsExact`, `GapsShow` (`OkHidesNoGap`),
  `EvidenceCounted` (`EvidenceLands`) and `ReadersCountAlike` (`EveryReaderAgrees`), over any departments,
  names, people, catalogs, journals and answers of OKK. The invariant is `AnswersRight`; its lemmas follow
  the code: what `resolve_department`, `scoped_employee`, `resolve_entity_scope` and `_visible_call` return,
  then one lemma per tool.
  "ok" without a gap rests on counting: a count of left-out rows is zero only when no row was left out,
  and the ranks of the calls of a scenario put each on one page (`EachOnItsPage`, `CodeKept`).
  That evidence lands rests on `CodesNamed` (a version goes by the code of the catalog, of its calls or by
  its id) and on each call having one code. That readers agree has three steps: a scope resolved for both is
  the same scope (`SameScope`: what a word matches can only grow with what is visible); the administrator
  reads more versions, all of them archived (`AdminReadsMore`), and those change the code of no call
  (`CodesAgree`), since an archived version takes the code OKK shows on its calls; and a reader who was told
  "ok" could read every criterion that was evaluated, so the wider reading shows nothing more
  (`ReadingsAgree`). Two hypotheses stand in the property and are needed: OKK shows a version under one code on every
  call (`ShownAlike`), and the administrator is answered at all, because a word that names one visible
  department of the reader may name several of theirs.
- `ReadingProofs`: `ListsRead` (`PagesExact`), `PiecesRebuild` (`ChunksRebuild`), `DocumentsFresh`
  (`StalenessBounded`) and `MetadataTypes`. The modules build sequences with recursive functions, so
  what `Filter` and the joined pieces are for every input is an induction; it is written out
  from the principle that a set of naturals that is not empty has a least element (`LeastNatural`, from the
  library's well-foundedness of `<`), applied to the lengths at which a claim fails.
  `PagesInv` counts: the rows of a list that stood still are its beginning; otherwise the rows that
  stayed and have been neither read nor are still ahead are at most the departures. `ChunksInv` says that
  what was collected is the beginning of the text, and that a reader who has seen a single print has
  collected the beginning of the text with that print. `MetadataInv` says that an entry's age and what is left of
  its lifetime add up to no more than a lifetime and a download, whichever order downloads are stored in.

Each action preserves the invariant in a step of its own; `[]` is introduced once per module
(`Invariance`, `GrantInvariance`, `PoolInvariance`, `LoginInvariance`, `ThrottleInvariance`,
`MaintenanceInvariance`, `InvHolds`, `AnswersHold`, `MetadataHolds`,
`ChunksHold`, `PagesHold`), the other theorems follow from it.

The type invariants of `Maintenance`, `AuthorizeLogin`, `Throttle`, `ConnectionPool`, `ToolCall`,
`ClientMetadataCache` and of the tools' answers are
proved and not checked by a run of their own.

Only model-checked: the liveness properties (`Answered` of `grants_live`, `OrphansEnd`, `OldRowsDeleted`,
`EveryRequestEnds`, `EverythingEnds`), because fairness and ENABLED are outside the prover's reach. Every
safety property of the passing runs is a theorem.

## 5. Disagreements found while modelling

`PROJECT.json` lists four, each with a run and the lines they quote: an unreadable session stops the
cleanup for good; the deletion of an abandoned client can take a fresh code with it, and the deletion
of a blocked metadata-document client forgets the block; a consent that refuses everything leaves a
grant that no refresh can renew.

Others were noticed and have no run of their own; the model contains the behaviour and the properties
are stated so as to allow it:

- `_rotate_session` stores the rotated pair only after OKK's answer (platform_client.py:236-246), so an
  answer lost in between leaves a used refresh token in the row, which the next renewal shows again,
  although line 220 rests on its not being used twice. `TwiceOnlyAfterInterruption` says that nothing
  else does.
- docs/security.md:28 says that "a background cleanup revokes orphaned upstream sessions". It finds them by
  their rows, and OKK opens a session before there is one: when the INSERTs or the commit of a sign-in fail after
  OKK answered (oauth.py:615-631, db.py:22-29), or OKK's answer names an account the gateway cannot use
  (platform_client.py:117-123), nothing ever logs that session out. No failure of the network is needed.
  `StoredSessionsKnown` therefore begins at the commit.
- `live_context` revokes a session without a logout when OKK names another person (platform_client.py:193-195)
  or answers the renewal with nothing usable (platform_client.py:238-241): OKK keeps it open and the cleanup,
  which looks for active rows, passes it over (`dropped`).
- docs/architecture.md:206-207 says that only rotations are serialized; the second transaction of `live_context`
  updates the row a rotation holds, so an MCP request whose own token is good waits for OKK's answer to the
  rotation too, with a connection (`ShortWaitsEndWithRenewal` counts it among the waiting).
- platform_client.py:220-221 calls the OKK refresh "the one external call made under a lock";
  `token_endpoint` (oauth.py:749-781) asks `live_context` while it holds the token's row.
- docs/tool-catalog.md:210-212 says that "configured caps return `partial`". `get_crm_statistics` looks at the
  wholeness of the directory only after it has asked whether any snapshot is available
  (backend_client.py:2934-2938): of a directory cut at `analytics_max_employees` whose read rows are all without
  a Bitrix id it says `no_data`, and `list_employees` says so when no row read is in the scope
  (backend_client.py:1683). `NoDataIsNothing` is about the rows that were read; their `ok`, however, is never said of a
  cut directory (`OkHidesNoGap`).
- A post of the sign-in page that loaded its client before the client was blocked gets its code
  (oauth.py:598-631); `BlockedClientGetsNoCode` is about later posts.
- A replay answered during a rotation of its family misses the pair of that rotation (oauth.py:762-766,
  813-817): its rows stay unrevoked, its session is dead (`CaughtSessionEnded`).
- A login form shown again after a stale nonce is signed anew and begins another ten minutes
  (oauth.py:471-473; docs/security.md:232-236). `TenMinutesUnlessRenewed` covers all other pages.
- The tool-call limit is one of clock minutes: up to twice as many calls pass around an edge
  (backend_client.py:3541; docs/tool-catalog.md:172).
- backend_client.py:1266-1267 promises "whether all of them were read"; a departure between two pages shifts a
  call over the edge of a page already read, and the reading is called complete without it (`employees` alike).
  `LossBoundedByDepartures` says that this is all that is lost.
- docs/tool-catalog.md takes `no_data` for an answer with nothing in it; `list_call_transcripts` also says it
  when every call of a page lost its transcript or its visibility and for a page past the end,
  `get_supervisor_call_statistics` and `list_employees` when every row was left out.
- A page of `list_call_phone_records` all of whose rows match by chance hides that OKK ignored the filter
  (backend_client.py:2292-2293).
- `resolve_entity_scope` takes the department an employee is in now, so calls made before a move are hidden from
  a question about that employee; `get_crm_statistics` does not look at the excluded rows of its roster.
- Scenarios of two departments under one code are one scenario in a question without a department; `scenarios()`
  neither drops repeated rows nor stops at a cap.
- When a read of a tool fails, the reads beside it go on after the answer, queued ones are still sent
  (`LoadBounded` covers them). `_count_tool_call` runs before the time budget begins, and a `TimeoutError`
  from elsewhere inside it, such as a database connection, is reported as the budget.
- Pieces of a transcript in `segments` carry no hash, so a reader cannot see that OKK replaced it in between
  (`ChunksRebuild` promises that for `text` only).

## 6. State of the plan

Done: `AccountSession`, `TokenGrants`, `ConnectionPool`, `AuthorizeLogin`, `Throttle`, `Maintenance`,
`ToolCall`, the analytics tools, `JournalPages`, `TranscriptChunks` and `ClientMetadataCache`, with their
proofs.

Left, in this order: the periods of a report (days in a time zone, comparison periods) as operators
against a reference definition; the choice of excerpts in a transcript search.

Not modelled, and why: migrations run before the service; the evaluation suite, the smoke test and
the plugin package are not part of it; tool declarations, wording, logging and HTTP headers have no
state that a property speaks of. Of the analytics client, the projection of OKK's fields and the
percentages computed from them are data without control, and how a transcript matches a query is OKK's
answer. Of OAuth, the validation of a registration document, PKCE and redirect rules are functions of one
request; the models take their result as given.
