\* As many requests that need two connections as the pool has, and MCP requests.
SPECIFICATION FairSpec
CONSTANTS
    Refreshers = {a1, a2}
    Revokers = {v1}
    Callers = {c1, c2}
    Tokens = {t1}
    Size = 3
    NoOne = NoOne
INVARIANTS
    SomeoneMoves
    ShortWaitsEndWithRenewal
PROPERTY
    EveryRequestEnds
