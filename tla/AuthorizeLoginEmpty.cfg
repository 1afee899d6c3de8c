\* The same instance; a client may request optional scopes only.
SPECIFICATION Spec
CONSTANTS
    Pages = {p1}
    Posts = {q1, q2, q3}
    NoPost = NoPost
    Scopes = {statistics, transcripts}
    Optional = {transcripts}
    Lifetime = 1
    MaxTime = 3
SYMMETRY Symmetry
INVARIANT
    RefreshKeepsScope
CHECK_DEADLOCK FALSE
