------------------------------ MODULE MCAnalytics ------------------------------
(* TLC instances of the analytics client. The parts share no state, so one  *)
(* run takes them side by side: each behaviour is one of one part, and the  *)
(* others rest.                                                             *)
EXTENDS AnalyticsTools, JournalPages, TranscriptChunks, ToolCall,
        ClientMetadataCache, TLC

CONSTANTS d1, d2, n1, n2, p1, p2,                 \* departments, names, people
          v1, v0, w1, ca, cb, cut, s1, s2,        \* scenario versions, codes, norms
          i1, i0, j1, k1,                         \* criteria
          e1, e2, e3, e4, e5, e6,                 \* entries of a list
          stat, phones, card, crm, search, lists  \* scopes and reads of a call

Viewer(g) == [admin |-> FALSE, departments |-> g]
Admin == [admin |-> TRUE, departments |-> {}]

\* n1 names one department, n2 both (an acronym of two names).
MCNamesOf == d1 :> {n1, n2} @@ d2 :> {n2}
Asking(accounts, okk, selectors, people) ==
    [account : accounts, okk : okk, selectors : selectors, person : people]
Okk(departments, directory, restricted) ==
    [departments : departments, directory : directory, restricted : restricted]
AnyDirectory == [People -> Departments \cup {None}]
Homes == p1 :> d1 @@ p2 :> d2

MCScopes == Asking({Admin, Viewer({}), Viewer({d1})},
                   Okk({{d1}, {d1, d2}}, AnyDirectory, {{}, {p2}}), Selections, {None, p1})
MCReportScopes == Asking({Admin, Viewer({d1}), Viewer({})},
                         Okk({{d1}}, {Homes}, {{}}) \cup
                         Okk({{d1, d2}},
                             {Homes, p1 :> d1 @@ p2 :> d1, p1 :> d1 @@ p2 :> None, p1 :> d2 @@ p2 :> d1},
                             {{}}),
                         {{}, {d1}, {n2}}, {None, p1})
MCListed == [listed : {{}, {p1, p2}}, whole : {TRUE}] \cup [listed : {{p1}}, whole : {FALSE}]
MCReported == [of : {{}, {p1}, {p1, p2}}, misnamed : {{}}] \cup [of : {{p1}}, misnamed : {{p1}}]
Nobody == [of |-> {}, misnamed |-> {}]
MCPlans == {[mode |-> "missing", rows |-> Nobody], [mode |-> "unset", rows |-> Nobody]}
           \cup [mode : {"set"}, rows : MCReported]

\* v1 is the current version of a scenario of d1, v0 its archived one under a
\* cut code, w1 a scenario of d2, of every department or of one not seen.
Row(code, current, home, norm) == [code |-> code, current |-> current, home |-> home, norm |-> norm]
MCCatalogs == {v1 :> Row(ca, TRUE, d1, s1) @@ v0 :> Row(cut, FALSE, d1, x[1]) @@ w1 :> Row(cb, TRUE, x[2], s1)
                  : x \in {<<s1, d2>>, <<s2, d2>>, <<s2, d1>>}}
              \cup {v1 :> Row(ca, TRUE, d1, s1) @@ v0 :> Row(cut, FALSE, d1, s2) @@ w1 :> Row(None, TRUE, None, s1)}
MCVersionOf == i1 :> v1 @@ i0 :> v0 @@ j1 :> v1 @@ k1 :> w1
MCCriterionCode == i1 :> ca @@ i0 :> ca @@ j1 :> None @@ k1 :> ca
MCScenarioScopes == Asking({Admin, Viewer({d1})}, Okk({{d1, d2}}, {Homes}, {{}}),
                           {{}, {d1}}, {None, p2})
Call(v, c, dep, scored, quality, passes, criteria) ==
    [version |-> v, code |-> c, department |-> dep, scored |-> scored,
     quality |-> quality, passes |-> passes, criteria |-> criteria]
MCEvaluatedCalls == {
    Call(v1, ca, d1, TRUE, "none", TRUE, {i1, j1}),
    Call(v1, ca, d1, TRUE, "norm", TRUE, {i1}),
    Call(v1, ca, d1, FALSE, "none", TRUE, {}),
    Call(v0, ca, d1, TRUE, "none", TRUE, {i0}),
    Call(v0, cb, d1, TRUE, "none", TRUE, {i0}),
    Call(v0, None, d1, TRUE, "below_norm", FALSE, {}),
    Call(w1, cb, d2, TRUE, "none", TRUE, {k1}),
    Call(None, ca, d1, TRUE, "norm", TRUE, {})}

\* Of p1 here, moved and archived, uncoded; of p2 personal, under another card,
\* without an employee, or with a department of its own.
MCCallScopes == Asking({Admin, Viewer({d1})},
                       Okk({{d1, d2}}, {Homes}, {{}}) \cup
                       Okk({{d1, d2}}, {Homes, p1 :> None @@ p2 :> None}, {{p2}}),
                       {{}, {d1}}, {None, p1, p2})
MCCallCatalogs ==
    {v1 :> Row(ca, TRUE, d1, s1) @@ v0 :> Row(cut, FALSE, d1, s2) @@ w1 :> Row(cb, TRUE, d2, s1)}
Opened(e, named, cardDepartment, department, v, c, text) ==
    [employee |-> e, card |-> named, cardDepartment |-> cardDepartment, department |-> department,
     version |-> v, code |-> c, transcript |-> text]
MCPageCalls == {
    Opened(p1, p1, d1, d1, v1, ca, "text"), Opened(p1, p1, d2, d2, v0, ca, "text"),
    Opened(p1, p1, d1, d1, v0, None, "empty"), Opened(p1, None, None, None, w1, cb, "text"),
    Opened(p2, p2, None, None, None, None, "closed"), Opened(p2, p1, None, d2, None, None, "text"),
    Opened(None, None, d1, None, v1, ca, "text"), Opened(p2, p2, None, d2, w1, cb, "text")}
Phoned(e, cardDepartment, number) ==
    [employee |-> e, card |-> e, cardDepartment |-> cardDepartment, department |-> None,
     phone |-> number]
MCPhoneCalls == {Phoned(p1, d1, <<7, 3, 8>>), Phoned(p1, d2, <<7, 3, 8>>), Phoned(p2, None, <<7, 8, 3>>),
                 Phoned(p1, d1, None), Phoned(p1, d1, Absent)}
MCNumbers == {<<8>>, <<3, 8>>, <<8, 3>>, <<7, 3, 8>>, <<8, 3, 8>>, <<3, 7, 8>>}

\* Entries are interchangeable when the reading begins.
MCLists == {SubSeq(<<e1, e2, e3, e4, e5, e6>>, 1, n) : n \in 0..5}

MCTranscripts == {<<>>, <<<<1>>>>, <<<<1, 2>>, <<>>, <<3>>, <<4>>>>, <<<<1, 2, 3, 4>>, <<>>, <<5>>>>,
                  <<<<>>, <<>>, <<6>>, <<7, 8>>>>}
MCStage == lists :> 1 @@ card :> 2 @@ crm :> 2 @@ search :> 2

-------------------------------------------------------------------------------

VARIABLE part   \* the part the behaviour is of

vars == <<part, answer, pageVars, chunkVars, toolVars, metadataVars>>

PagesRest ==
    /\ reader = "catalog" /\ list = <<>> /\ page = 1 /\ rows = <<>> /\ excluded = 0
    /\ verdict = "reading" /\ arrivals = 0 /\ departures = 0 /\ stayed = {}
ChunksRest ==
    /\ format = "text" /\ transcript = <<>> /\ revisions = 0 /\ next = 0
    /\ ended = FALSE /\ collected = <<>> /\ prints = {}
ToolRests ==
    /\ phase = "new" /\ granted = {stat} /\ read = [r \in Reads |-> "waiting"]
    /\ sent = [r \in Reads |-> 0] /\ tries = [r \in Reads |-> 0]
    /\ renewed = [r \in Reads |-> FALSE]
MetadataRests ==
    /\ cache = <<>>
    /\ request = [r \in Requests |-> [step |-> "new", client |-> CHOOSE c \in Clients : TRUE,
                                      left |-> 0, document |-> Latest]]

Init ==
    /\ part \in {"reports", "scenarios", "calls", "pages", "chunks", "tool", "metadata"}
    /\ answer = Silent
    /\ IF part = "pages" THEN PagesInit ELSE PagesRest
    /\ IF part = "chunks" THEN ChunkInit ELSE ChunksRest
    /\ IF part = "tool" THEN ToolInit ELSE ToolRests
    /\ IF part = "metadata" THEN MetadataInit ELSE MetadataRests

Next ==
    /\ UNCHANGED part
    /\ \/ /\ \/ part = "reports" /\ ReportNext
             \/ part = "scenarios" /\ ScenarioNext
             \/ part = "calls" /\ CallNext
          /\ UNCHANGED <<pageVars, chunkVars, toolVars, metadataVars>>
       \/ part = "pages" /\ PagesNext /\ UNCHANGED <<answer, chunkVars, toolVars, metadataVars>>
       \/ part = "chunks" /\ ChunkNext /\ UNCHANGED <<answer, pageVars, toolVars, metadataVars>>
       \/ part = "tool" /\ ToolNext /\ UNCHANGED <<answer, pageVars, chunkVars, metadataVars>>
       \/ part = "metadata" /\ MetadataNext /\ UNCHANGED <<answer, pageVars, chunkVars, toolVars>>

(* The fairness of the three parts that end, of which one is at work.       *)
Spec ==
    /\ Init /\ [][Next]_vars
    /\ WF_vars(\/ part = "pages" /\ NextPage /\ UNCHANGED <<part, answer, chunkVars, toolVars, metadataVars>>
               \/ part = "chunks" /\ ReadChunk /\ UNCHANGED <<part, answer, pageVars, toolVars, metadataVars>>
               \/ part = "tool" /\ CallProgress /\ UNCHANGED <<part, answer, pageVars, chunkVars, metadataVars>>)

(* Every reading of pages, every reading of a transcript and every tool     *)
(* call comes to its end, whatever OKK does meanwhile.                      *)
EverythingEnds == <>CASE part = "pages" -> PagesRead
                      [] part = "chunks" -> ended
                      [] part = "tool" -> CallEnded
                      [] OTHER -> TRUE
===============================================================================
