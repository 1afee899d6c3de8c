\* Two concurrent requests, one revocation, up to two expiries of the OKK token.
SPECIFICATION Spec
CONSTANTS
    Requests = {r1, r2}
    Revokers = {v1}
    NoOne = NoOne
    MaxGen = 3
SYMMETRY Symmetry
INVARIANTS
    TypeOK
    TwiceOnlyAfterInterruption
    StoredPairIsCurrent
    ReadNeverOlder
PROPERTIES
    RevokedIsFinal
    ImplementsContract
