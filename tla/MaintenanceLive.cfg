\* Two sign-ins of one client; a pass revokes one orphan.
SPECIFICATION FairSpec
CONSTANTS
    s1 = s1
    s2 = s2
    registered = registered
    document = document
    SignIns = {s1, s2}
    Clients = {registered, document}
    Documents = {document}
    ClientOf <- SharedClient
    Unreadable = {}
    Limit = 1
VIEW WithoutHistory
PROPERTIES
    OrphansEnd
    OldRowsDeleted
CHECK_DEADLOCK FALSE
