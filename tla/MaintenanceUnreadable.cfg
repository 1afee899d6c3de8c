\* One session sealed with a secret that was changed since.
SPECIFICATION FairSpec
CONSTANTS
    s1 = s1
    s2 = s2
    registered = registered
    document = document
    SignIns = {s1, s2}
    Clients = {registered, document}
    Documents = {document}
    ClientOf <- SharedClient
    Unreadable = {s1}
    Limit = 1
PROPERTY
    OldRowsDeleted
CHECK_DEADLOCK FALSE
