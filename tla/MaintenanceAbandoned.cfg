\* A person signs in for the first time while an old client is deleted.
SPECIFICATION Spec
CONSTANTS
    s1 = s1
    s2 = s2
    registered = registered
    document = document
    SignIns = {s1, s2}
    Clients = {registered, document}
    Documents = {document}
    ClientOf <- SharedClient
    Unreadable = {}
    Limit = 1
PROPERTY
    OnlyOldRowsDeleted
CHECK_DEADLOCK FALSE
