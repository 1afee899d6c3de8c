\* Two requests on one sign-in under the fairness of the awaits and row queues.
SPECIFICATION FairSpec
CONSTANTS
    Sessions = {s1}
    Pairs = {p1, p2}
    Scopes = {}
    Requests = {r1, r2}
    NoOne = NoOne
    NoPair = NoPair
    NoSession = NoSession
PROPERTY
    Answered
