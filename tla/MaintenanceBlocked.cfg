\* A metadata-document client is blocked and later deleted as abandoned.
SPECIFICATION Spec
CONSTANTS
    s1 = s1
    s2 = s2
    registered = registered
    document = document
    SignIns = {s1, s2}
    Clients = {registered, document}
    Documents = {document}
    ClientOf <- OneClientEach
    Unreadable = {}
    Limit = 1
PROPERTY
    BlockHolds
CHECK_DEADLOCK FALSE
