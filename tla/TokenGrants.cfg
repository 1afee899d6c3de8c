\* One sign-in, two requests at once, chains of up to three pairs.
SPECIFICATION Spec
CONSTANTS
    Sessions = {s1}
    Pairs = {p1, p2, p3}
    Scopes = {phones}
    Requests = {r1, r2}
    NoOne = NoOne
    NoPair = NoPair
    NoSession = NoSession
SYMMETRY Symmetry
INVARIANTS
    TypeOK
    ChainHasOneHead
    CaughtSessionEnded
    RetryAnswersUnused
    RotatesOnlyUsable
    ScopeOnlyNarrows
    NoCircularWait
PROPERTY
    KeepsSessionContract
