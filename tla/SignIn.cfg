\* One tab, three posts, an optional and a required scope; two sign-ins from one
\* address and a tool call, one of each bucket per window.
SPECIFICATION SignInSpec
CONSTANTS
    Pages = {p1}
    Posts = {q1, q2, q3}
    NoPost = NoPost
    Scopes = {statistics, transcripts}
    Optional = {transcripts}
    Lifetime = 1
    MaxTime = 2
    Attempts = {s1, s2, c1}
    s1 = s1
    s2 = s2
    c1 = c1
    address = address
    account = account
    connection = connection
    Buckets = {address, account, connection}
    BucketsOf <- Mixed
    Limit <- Ones
    FailOpen = {c1}
    Retries = 1
    MaxWindow = 2
SYMMETRY Symmetry
VIEW AtWork
INVARIANTS
    ConsentKept
    TenMinutesUnlessRenewed
    BlockedClientGetsNoCode
    WithinLimit
CHECK_DEADLOCK FALSE
