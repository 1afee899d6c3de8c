\* A registered and a metadata-document client, one sign-in each.
SPECIFICATION Spec
CONSTANTS
    s1 = s1
    s2 = s2
    registered = registered
    document = document
    SignIns = {s1, s2}
    Clients = {registered, document}
    Documents = {document}
    ClientOf <- OneClientEach
    Unreadable = {}
    Limit = 1
INVARIANTS
    SweptOnlyOrphans
    StoredSessionsKnown
    GrantHasClient
CHECK_DEADLOCK FALSE
