------------------------------- MODULE CallTools ------------------------------
(* The tools of backend_client.py that list, search and open calls and      *)
(* their transcripts, of departments and of the personal section of the     *)
(* supervisors, and the phone lookup. OKK chooses the rows of a page; the   *)
(* gateway judges each of them again and says what it left out. Reading a   *)
(* long transcript in pieces is TranscriptChunks.                           *)
EXTENDS ScenarioTools

CONSTANTS
    PageCalls,    \* the calls a page of the journal may hold
    CallScopes,   \* the questions asked
    CallCatalogs, \* the scenario catalogs
    AskedVersion, \* the scenario version callers name
    PhoneCalls,   \* the calls a page of the phone lookup may hold
    Numbers,      \* the digits of the phone numbers callers search for
    Absent,       \* the field is missing
    National,     \* digits of a number without its country code (10 in Russia)
    EndingMin     \* fewest digits of a searched ending (PHONE_ENDING_MIN_DIGITS)

(* A call of a page: what _visible_call judges it by, its scenario, and     *)
(* what OKK answers about its transcript when the call is opened.           *)
PageRows == [employee : People \cup {None}, card : People \cup {None},
             cardDepartment : Departments \cup {None}, department : Departments \cup {None},
             version : Versions \cup {None}, code : Codes \cup {None},
             transcript : {"text", "empty", "closed"}]

(* A call of the lookup: the stored number, None when OKK has none for it,  *)
(* or Absent from an OKK whose rows have no such field.                     *)
Phones == Seq(0..9)
PhoneRow(call) == call.phone \in {None, Absent} \cup Phones

ASSUME CallsAssumption ==
    /\ PageCalls \subseteq PageRows
    /\ CallScopes \subseteq ScopeQuestions
    /\ CallCatalogs \subseteq Catalogs /\ AskedVersion \in Versions
    /\ \A call \in PhoneCalls : PhoneRow(call)
    /\ Numbers \subseteq Phones
    /\ National \in Nat /\ EndingMin \in 1..National

-------------------------------------------------------------------------------

(* The calls of a page that pass _visible_call, and those of the supervisor *)
(* section among them.                                                      *)
Passed(q, calls, page, about) ==
    {i \in page : VisibleCall(q.account, q.okk, calls[i],
                              about.department, about.employee).kind # "hidden"}

Personal(q, calls, page, supervisor) ==
    {i \in page : VisibleCall(q.account, q.okk, calls[i], None, supervisor).kind = "supervisor"}

Open(calls, shown) == {i \in shown : calls[i].transcript # "closed"}

(* Which calls of OKK's answer are the page: all of them when OKK pages;    *)
(* for a scenario the calls of all its versions are chosen here from the    *)
(* whole scope and paged here (_scenario_scope_calls).                      *)
ScenarioPage(d, codes) ==
    LET split == CallsOfScenario(d.calls, codes[d.scenario], codes)
        rank(i) == Cardinality({j \in split.selected : j < i})
    IN [rows |-> {i \in split.selected : rank(i) \div d.size = d.page - 1},
        total |-> Cardinality(split.selected), excluded |-> split.excluded,
        whole |-> d.whole]

Page(q, d) ==
    IF d.scenario = None
    THEN [rows |-> DOMAIN d.calls, total |-> d.total, excluded |-> {}, whole |-> TRUE]
    ELSE ScenarioPage(d, VersionCodes(TranscriptScope(q, d.catalog, d.scenario).rows,
                                      d.catalog, d.calls))

(* list_call_transcripts: a call hidden or closed meanwhile is only counted *)
(* as omitted.                                                              *)
ListCallTranscripts(q, d) ==
    LET scope == TranscriptScope(q, d.catalog, d.scenario)
        page == Page(q, d)
        shown == Open(d.calls, Passed(q, d.calls, page.rows, scope.about))
    IN \/ scope.invalid /\ NotAvailable("list_calls", q, d)
       \/ /\ ~scope.invalid
          /\ Envelope("list_calls", q, d,
                      IF ~page.whole \/ page.excluded # {} THEN "partial"
                      ELSE IF shown # {} THEN "ok" ELSE "no_data",
                      scope.about, shown)

(* search_call_transcripts: OKK decides which calls match; a call closed    *)
(* meanwhile stays without excerpts.                                        *)
SearchCallTranscripts(q, d) ==
    LET scope == TranscriptScope(q, d.catalog, d.scenario)
        page == Page(q, d)
        shown == Passed(q, d.calls, page.rows, scope.about)
    IN \/ scope.invalid /\ NotAvailable("search_calls", q, d)
       \/ /\ ~scope.invalid
          /\ Envelope("search_calls", q, d,
                      IF ~page.whole \/ shown # page.rows \/ page.excluded # {} THEN "partial"
                      ELSE IF page.total > 0 THEN "ok" ELSE "no_data",
                      scope.about, shown)

(* get_call_transcript: the call OKK answers for the id, if any; its own    *)
(* department completes the scope when that is one the account sees.        *)
GetCallTranscript(q, d) ==
    LET scope == Scope(q)
        call == VisibleCall(q.account, q.okk, d.calls[1], scope.department, scope.employee)
        found == d.calls # <<>> /\ call.kind # "hidden" /\ d.calls[1].transcript # "closed"
        department == IF scope.department # None THEN scope.department
                      ELSE IF call.department \in Visible(q) THEN call.department ELSE None
    IN \/ (scope.invalid \/ ~found) /\ NotAvailable("open_call", q, d)
       \/ /\ ~scope.invalid /\ found
          /\ Envelope("open_call", q, d,
                      IF d.piece THEN "partial"
                      ELSE IF d.calls[1].transcript = "text" THEN "ok" ELSE "no_data",
                      About(department, call.employee), {1})

-------------------------------------------------------------------------------

(* The supervisor tools: the person must be in the section, and only calls  *)
(* that are judged as personal ones are shown.                              *)
NotASupervisor(q) == q.person \notin q.okk.restricted

(* get_supervisor_call_statistics: counted over every page of the journal.  *)
GetSupervisorCallStatistics(q, d) ==
    LET shown == Personal(q, d.calls, DOMAIN d.calls, q.person)
        gap == ~d.whole \/ shown # DOMAIN d.calls
    IN \/ NotASupervisor(q) /\ NotAvailable("supervisor_statistics", q, d)
       \/ /\ ~NotASupervisor(q)
          /\ Envelope("supervisor_statistics", q, d,
                      IF shown = {} THEN "no_data" ELSE IF gap THEN "partial" ELSE "ok",
                      About(None, q.person), shown)

(* list_supervisor_call_transcripts *)
ListSupervisorCallTranscripts(q, d) ==
    LET shown == Open(d.calls, Personal(q, d.calls, DOMAIN d.calls, q.person))
    IN \/ NotASupervisor(q) /\ NotAvailable("list_supervisor_calls", q, d)
       \/ /\ ~NotASupervisor(q)
          /\ Envelope("list_supervisor_calls", q, d,
                      IF shown # DOMAIN d.calls THEN "partial"
                      ELSE IF shown # {} THEN "ok" ELSE "no_data",
                      About(None, q.person), shown)

(* search_supervisor_call_transcripts *)
SearchSupervisorCallTranscripts(q, d) ==
    LET shown == Personal(q, d.calls, DOMAIN d.calls, q.person)
    IN \/ NotASupervisor(q) /\ NotAvailable("search_supervisor_calls", q, d)
       \/ /\ ~NotASupervisor(q)
          /\ Envelope("search_supervisor_calls", q, d,
                      IF shown # DOMAIN d.calls THEN "partial"
                      ELSE IF d.total > 0 THEN "ok" ELSE "no_data",
                      About(None, q.person), shown)

(* get_supervisor_call_transcript *)
GetSupervisorCallTranscript(q, d) ==
    LET found == {1} = Open(d.calls, Personal(q, d.calls, {1} \cap DOMAIN d.calls, q.person))
    IN \/ (NotASupervisor(q) \/ ~found) /\ NotAvailable("open_supervisor_call", q, d)
       \/ /\ ~NotASupervisor(q) /\ found
          /\ Envelope("open_supervisor_call", q, d,
                      IF d.piece THEN "partial"
                      ELSE IF d.calls[1].transcript = "text" THEN "ok" ELSE "no_data",
                      About(None, q.person), {1})

-------------------------------------------------------------------------------

\* Slip: a number that begins with 8 is kept as it is.
NormalizedNational(digits) == IF Len(digits) = National THEN <<7>> \o digits ELSE digits

(* _normalized_phone_filter() on the digits: 8 and a national number, or a  *)
(* national number alone, is a Russian one (7 is the country code).         *)
Normalized(digits) ==
    IF Len(digits) = National + 1 /\ Head(digits) = 8 THEN <<7>> \o Tail(digits)
    ELSE IF Len(digits) = National THEN <<7>> \o digits
    ELSE digits

Searchable(digits) == Len(Normalized(digits)) >= EndingMin

(* _phone_matches(): the whole number, or the ending of a short search.     *)
PhoneMatches(phone, searched) ==
    /\ phone \notin {None, Absent}
    /\ IF Len(searched) >= National THEN phone = searched ELSE IsSuffix(searched, phone)

(* Whose calls are looked up: a supervisor's, or those of a scope.          *)
LookupRefused(q, d) ==
    IF d.supervisor # None
    THEN \/ q.selectors # {} \/ q.person # None
         \/ d.supervisor \notin q.okk.restricted
    ELSE Scope(q).invalid

LookupAbout(q, d) ==
    IF d.supervisor # None THEN About(None, d.supervisor)
    ELSE About(Scope(q).department, Scope(q).employee)

(* Rows that do not answer the search betray an OKK that ignores it.        *)
Searching(d) == d.number # <<>>
Betraying(d) ==
    {i \in DOMAIN d.calls :
       \/ d.calls[i].phone = Absent
       \/ Searching(d) /\ ~PhoneMatches(d.calls[i].phone, Normalized(d.number))}

(* list_call_phone_records: an answer for the whole page or none; `count`   *)
(* is what has_call and calls_total say.                                    *)
ListCallPhoneRecords(q, d) ==
    LET shown == Passed(q, d.calls, DOMAIN d.calls, LookupAbout(q, d))
        exact == Searching(d) /\ shown = DOMAIN d.calls
        say(status, rows, count) ==
            Envelope("phone_records", q, d, status, LookupAbout(q, d),
                     [rows |-> rows, count |-> count])
    IN IF Searching(d) /\ ~Searchable(d.number) THEN say("error", {}, None)
       ELSE IF LookupRefused(q, d) THEN NotAvailable("phone_records", q, d)
       ELSE IF Searching(d) /\ d.calls = <<>> /\ d.total > 0 THEN say("partial", {}, None)
       ELSE IF Betraying(d) # {} THEN say("error", {}, None)
       ELSE say(IF shown # DOMAIN d.calls THEN "partial"
                ELSE IF d.total > 0 THEN "ok" ELSE "no_data",
                shown, IF exact THEN d.total ELSE None)

-------------------------------------------------------------------------------

CallPages == BoundedSeq(PageCalls, MaxCalls)
Totals(calls) == Len(calls)..MaxCalls + 1

OkkPages == {d \in [catalog : CallCatalogs, calls : CallPages, scenario : {None},
                    total : 0..MaxCalls + 1] : d.total \in Totals(d.calls)}
ScenarioPages == [catalog : CallCatalogs, calls : CallPages, scenario : {AskedVersion},
                  whole : BOOLEAN, page : 1..2, size : 1..MaxCalls]
OneCall == [calls : {<<>>} \cup {<<call>> : call \in PageCalls}, piece : BOOLEAN]
SupervisorQuestions == {q \in CallScopes : q.selectors = {} /\ q.person # None}

CallInit == answer = Silent

CallNext ==
    /\ Asked
    /\ \/ \E q \in CallScopes, d \in OkkPages \cup ScenarioPages :
             ListCallTranscripts(q, d) \/ SearchCallTranscripts(q, d)
       \/ \E q \in CallScopes, d \in OneCall : GetCallTranscript(q, d)
       \/ \E q \in SupervisorQuestions, d \in [calls : CallPages, whole : BOOLEAN] :
             GetSupervisorCallStatistics(q, d)
       \/ \E q \in SupervisorQuestions, d \in OkkPages :
             ListSupervisorCallTranscripts(q, d) \/ SearchSupervisorCallTranscripts(q, d)
       \/ \E q \in SupervisorQuestions, d \in OneCall : GetSupervisorCallTranscript(q, d)
       \/ \E q \in CallScopes,
             d \in {p \in [calls : BoundedSeq(PhoneCalls, MaxCalls), total : 0..MaxCalls + 1,
                          number : Numbers \cup {<<>>}, supervisor : People \cup {None}] :
                     p.total \in Totals(p.calls)} :
             ListCallPhoneRecords(q, d)

CallSpec == CallInit /\ [][CallNext]_answer

-------------------------------------------------------------------------------

PhoneTool == answer.tool = "phone_records"
PersonalTools == {"supervisor_statistics", "list_supervisor_calls",
                  "search_supervisor_calls", "open_supervisor_call"}
CallToolNames == {"list_calls", "search_calls", "open_call", "phone_records"} \cup PersonalTools
ShownCalls == IF answer.status = "not_available" THEN {}
              ELSE IF PhoneTool THEN answer.shown.rows ELSE answer.shown

(* The department a reader of the call would name: of the employee's card,  *)
(* else of the call, which keeps it when the employee moves, else the one   *)
(* the employee is in now.                                                  *)
BelongsTo(q, call) ==
    IF call.cardDepartment # None THEN call.cardDepartment
    ELSE IF call.department # None THEN call.department ELSE q.okk.directory[call.employee]

(* Every call shown is of the employee and department asked about and of a  *)
(* department the account sees, or a supervisor's personal call that OKK    *)
(* grants, never under a department's name; a call whose card names someone *)
(* else, or whose department cannot be told, is not shown (_visible_call is *)
(* applied by every tool to every row).                                     *)
CallsOfTheScope ==
    answer.tool \in CallToolNames =>
        LET q == answer.q
            about == answer.about
        IN \A i \in ShownCalls :
             LET call == answer.d.calls[i]
                 home == BelongsTo(q, call)
                 personal == call.cardDepartment = None /\ call.employee \in q.okk.restricted
             IN /\ call.employee # None /\ call.card \in {None, call.employee}
                /\ about.employee \in {None, call.employee}
                /\ IF personal /\ q.selectors = {} /\ answer.tool \in PersonalTools
                   THEN call.employee = q.person
                   ELSE \/ personal /\ about.department = None
                        \/ /\ home # None /\ about.department \in {None, home}
                           /\ \/ q.account.admin
                              \/ home \in q.account.departments \cap q.okk.departments

(* OKK shows a version that is current under the code of the catalog, and   *)
(* any version under one code, where it shows a code.                       *)
ShownAsListed(calls, catalog) ==
    \A i, j \in DOMAIN calls :
        calls[i].version # None /\ calls[i].code # None =>
            /\ calls[j].version = calls[i].version => calls[j].code \in {None, calls[i].code}
            /\ catalog[calls[i].version].current =>
                  catalog[calls[i].version].code = calls[i].code

(* An "ok" of a search, a lookup or a supervisor tool left no row of the    *)
(* page out, and one about a scenario left no call unplaced and unread; the *)
(* pages of a scenario hold each of its calls exactly once: those of the    *)
(* version asked for, and where OKK keeps to the codes it lists, those of   *)
(* every version it shows under the code. (The plain list of calls counts   *)
(* what it omits and stays "ok".)                                           *)
OkLeavesNothingOut ==
    answer.tool \in CallToolNames /\ answer.status \in {"ok", "partial"} =>
        LET q == answer.q
            d == answer.d
            on(i, page) == i \in Page(q, [d EXCEPT !.page = page]).rows
        IN /\ answer.status = "ok" /\ answer.tool # "list_calls" =>
                 IF answer.tool = "search_calls" THEN answer.shown = Page(q, d).rows
                 ELSE ShownCalls = DOMAIN d.calls
           /\ answer.tool \in {"list_calls", "search_calls"} /\ d.scenario # None =>
                 /\ answer.status = "ok" =>
                      d.whole /\ \A i \in DOMAIN d.calls :
                          d.calls[i].version # None =>
                              d.calls[i].code # None \/
                              d.calls[i].version \in Readable(q, d.catalog, None, TRUE)
                 /\ \A i \in DOMAIN d.calls :
                      LET pages == {p \in 1..Len(d.calls) : on(i, p)}
                      IN /\ Cardinality(pages) <= 1
                         /\ pages = {} /\ d.calls[i].version # None =>
                              /\ d.calls[i].version # d.scenario
                              /\ /\ ShownAsListed(d.calls, d.catalog)
                                 /\ d.catalog[d.scenario].current /\ d.calls[i].code # None
                                 => d.calls[i].code # d.catalog[d.scenario].code

(* A phone answer counts calls only when every row of the page answers the  *)
(* search and is shown, and then it is OKK's total: has_call is never told  *)
(* from a page that hides a call or ignored the number, and "no_data" means *)
(* that OKK knows no such call.                                             *)
PhoneCountExact ==
    PhoneTool /\ answer.status # "not_available" =>
        LET d == answer.d
            searched == Normalized(d.number)
        IN /\ answer.shown.count # None =>
                 /\ answer.shown.count = d.total
                 /\ \A i \in DOMAIN d.calls :
                      /\ i \in answer.shown.rows /\ d.calls[i].phone \in Phones
                      /\ IsSuffix(searched, d.calls[i].phone)
                      /\ Len(d.calls[i].phone) > Len(searched) => Len(searched) < National
           /\ answer.status = "no_data" => d.total = 0

(* A caller may write a Russian number with 8, with 7 or without its code:  *)
(* the rows of that number answer the search, so the lookup never fails on  *)
(* its own result.                                                          *)
NumberFoundHoweverWritten ==
    PhoneTool /\ answer.status = "error" =>
        LET d == answer.d
            written(phone) == {phone, <<8>> \o Tail(phone), Tail(phone)}
            russian(phone) == phone \in Phones /\ Len(phone) = National + 1 /\ Head(phone) = 7
        IN d.number # <<>> =>
             ~\E phone \in {d.calls[i].phone : i \in DOMAIN d.calls} \ {None, Absent} :
                 /\ russian(phone) /\ d.number \in written(phone)
                 /\ \A i \in DOMAIN d.calls : d.calls[i].phone = phone
===============================================================================
