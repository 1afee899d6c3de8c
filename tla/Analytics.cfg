\* The parts of the analytics client, each in a small instance of its own.
SPECIFICATION Spec
CONSTANTS
    d1 = d1
    d2 = d2
    n1 = n1
    n2 = n2
    p1 = p1
    p2 = p2
    v1 = v1
    v0 = v0
    w1 = w1
    ca = ca
    cb = cb
    cut = cut
    s1 = s1
    s2 = s2
    i1 = i1
    i0 = i0
    j1 = j1
    k1 = k1
    e1 = e1
    e2 = e2
    e3 = e3
    e4 = e4
    e5 = e5
    e6 = e6
    stat = stat
    phones = phones
    card = card
    crm = crm
    search = search
    lists = lists
    None = None
    Absent = Absent
    Departments = {d1, d2}
    Names = {n1, n2}
    NamesOf <- MCNamesOf
    People = {p1, p2}
    Scopes <- MCScopes
    ReportScopes <- MCReportScopes
    Listed <- MCListed
    Reported <- MCReported
    Plans <- MCPlans
    Versions = {v1, v0, w1}
    Codes = {ca, cb, cut}
    Norms = {s1, s2}
    Catalogs <- MCCatalogs
    Criteria = {i1, i0, j1, k1}
    VersionOf <- MCVersionOf
    CriterionCode <- MCCriterionCode
    Critical = {j1}
    AskedCriteria = {j1}
    EvaluatedCalls <- MCEvaluatedCalls
    MaxCalls = 2
    ScenarioScopes <- MCScenarioScopes
    PageCalls <- MCPageCalls
    CallScopes <- MCCallScopes
    CallCatalogs <- MCCallCatalogs
    AskedVersion = v1
    PhoneCalls <- MCPhoneCalls
    Numbers <- MCNumbers
    National = 2
    EndingMin = 1
    Entries = {e1, e2, e3, e4, e5, e6}
    Lists <- MCLists
    Readers = {"journal", "directory", "catalog"}
    PageSize = 2
    Cap = 3
    MaxMoves = 2
    Transcripts <- MCTranscripts
    Formats = {"segments", "text"}
    MaxSegments = 2
    MaxChars = 3
    MaxRevisions = 2
    Reads = {lists, card, crm, search}
    Stage <- MCStage
    Bounded = {card, crm, search}
    Parallel = 2
    Lookups = {search}
    KeepsAbsent = {card}
    KeepsDown = {crm}
    Required = {phones}
    Grants = {{stat}, {stat, phones}}
    Clients = {c1, c2}
    Requests = {q1, q2, q3}
    Lifetime = 2
    FetchLimit = 1
    MaxEntries = 1
INVARIANTS
    ScopeNeverBroadened
    NothingBeyondAccess
    OkHidesNoGap
    NoDataIsNothing
    EveryReaderAgrees
    EvidenceLands
    PhoneAnswerExact
    PagesExact
    ChunksRebuild
    LoadBounded
    StalenessBounded
PROPERTIES
    KeepsToolContract
    EverythingEnds
CHECK_DEADLOCK FALSE
