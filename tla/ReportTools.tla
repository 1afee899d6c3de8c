------------------------------ MODULE ReportTools -----------------------------
(* The tools of backend_client.py that report on departments and employees: *)
(* what they read within the scope of AnalyticsScope, what they leave out   *)
(* and which status they give the answer. The sources of one report are     *)
(* read one after the other while OKK moves on, so they need not agree.     *)
EXTENDS AnalyticsScope

CONSTANTS
    Scopes,        \* the questions of the tools that only resolve a scope
    ReportScopes,  \* those of the tools that join several sources
    Listed,        \* how OKK's directory may list people
    Reported,      \* the rows a report of OKK may hold
    Plans          \* its plan reports, by mode

PlanModes == {"missing", "unset", "set"}
PlanReports == [mode : PlanModes, rows : PeopleRows]

ASSUME ReportsAssumption ==
    /\ Scopes \cup ReportScopes \subseteq ScopeQuestions
    /\ Listed \subseteq Listings
    /\ Reported \subseteq PeopleRows
    /\ Plans \subseteq PlanReports

-------------------------------------------------------------------------------

(* get_access_context: the departments and the size of the private section. *)
GetAccessContext(q, d) ==
    Envelope("access_context", q, d, "ok", Everything, Visible(q))

(* get_overview_statistics: one department's ranking is grounded in its     *)
(* roster, a company-wide one is as OKK sends it.                           *)
GetOverviewStatistics(q, d) ==
    LET named == Named(q)
        team == Roster(q.account, q.okk, d.listing, named)
        ranking == Grounded(d.rows, team.rows)
        gap == d.rows.of # {} /\ \/ ~team.whole
                                 \/ team.excluded + ranking.removed + ranking.renamed > 0
    IN \/ Misses(q) /\ NotAvailable("overview", q, d)
       \/ /\ ~Misses(q) /\ NothingGranted(q.account)
          /\ Envelope("overview", q, d, "no_data", Everything, {})
       \/ /\ ~NothingGranted(q.account) /\ q.selectors = {}
          /\ Envelope("overview", q, d, "ok", Everything, d.rows.of)
       \/ /\ named # None
          /\ Envelope("overview", q, d, IF gap THEN "partial" ELSE "ok",
                      About(named, None), ranking.kept)

(* get_department_statistics: ranking, trends (detail=full) and plan rows   *)
(* are each grounded; a platform without call plans leaves the rest.        *)
GetDepartmentStatistics(q, d) ==
    LET named == Named(q)
        team == Roster(q.account, q.okk, d.listing, named)
        sources == {d.rows, d.trends} \cup ({d.plan} \ {None})
        lost == {s \in sources : LET g == Grounded(s, team.rows) IN g.removed + g.renamed > 0}
        gap == ~team.whole \/ team.excluded > 0 \/ lost # {} \/ d.plan = None
    IN \/ named = None /\ NotAvailable("department", q, d)
       \/ /\ named # None
          /\ Envelope("department", q, d, IF gap THEN "partial" ELSE "ok", About(named, None),
                      UNION {Grounded(s, team.rows).kept : s \in sources})

(* compare_departments: each requested one by itself; those not found are   *)
(* only counted, unless nothing is left.                                    *)
CompareDepartments(q, d) ==
    LET found == {ResolveDepartment(q.account, q.okk, {s}) : s \in d.wanted} \ {None}
        effective == IF d.wanted = {} THEN Visible(q) ELSE found
    IN Envelope("compare_departments", q, d,
                IF effective # {} THEN "ok"
                ELSE IF d.wanted = {} THEN "no_data" ELSE "not_available",
                Everything, effective)

(* list_employees: the roster; excluded rows and an unread rest show.       *)
ListEmployees(q, d) ==
    LET named == Named(q)
        team == Roster(q.account, q.okk, d.listing, named)
    IN \/ Misses(q) /\ NotAvailable("employees", q, d)
       \/ /\ ~Misses(q)
          /\ Envelope("employees", q, d,
                      IF team.rows = {} THEN "no_data"
                      ELSE IF ~team.whole \/ team.excluded > 0 THEN "partial" ELSE "ok",
                      About(named, None), team.rows)

(* list_supervisors: the personal section as OKK grants it.                 *)
ListSupervisors(q, d) ==
    Envelope("supervisors", q, d, IF q.okk.restricted = {} THEN "no_data" ELSE "ok",
             Everything, q.okk.restricted)

-------------------------------------------------------------------------------

(* The CRM snapshot of one employee by OKK's status; an outage of the       *)
(* snapshot alone ("down") is an unusable one (_crm_metrics).               *)
SnapshotStates == {"ready", "no_bitrix_id", "not_synced", "down", "other"}

\* Slip: a snapshot that could not be read counts as no link to Bitrix.
CrmStateOrNone(status) ==
    IF status = "ready" THEN "available"
    ELSE IF status = "other" THEN "unknown_status" ELSE "not_applicable"

CrmState(status) ==
    IF status = "ready" THEN "available"
    ELSE IF status = "no_bitrix_id" THEN "not_applicable"
    ELSE IF status = "other" THEN "unknown_status" ELSE "unavailable"

Unusable(status) == CrmState(status) \in {"unavailable", "unknown_status"}

(* get_employee_card: every part for the same dates; partial for a platform *)
(* without call plans or an unusable snapshot.                              *)
GetEmployeeCard(q, d) ==
    LET scope == Scope(q)
    IN \/ scope.employee = None /\ NotAvailable("card", q, d)
       \/ /\ scope.employee # None
          /\ Envelope("card", q, d, IF d.plan = None \/ Unusable(d.crm[q.person])
                                 THEN "partial" ELSE "ok",
                      About(scope.department, q.person), {q.person})

(* compare_employees: those of the scope, the others counted.               *)
CompareEmployees(q, d) ==
    LET named == Named(q)
        effective == {e \in d.wanted : InScope(q.account, q.okk, e, named)}
    IN \/ (Misses(q) \/ effective = {}) /\ NotAvailable("compare_employees", q, d)
       \/ /\ ~Misses(q) /\ effective # {}
          /\ Envelope("compare_employees", q, d, "ok", About(named, None), effective)

(* get_call_statistics, get_client_statistics: OKK's sums for the scope.    *)
GetScopeSums(q, d) ==
    LET scope == Scope(q)
    IN \/ scope.invalid /\ NotAvailable("sums", q, d)
       \/ /\ ~scope.invalid
          /\ Envelope("sums", q, d, "ok", About(scope.department, scope.employee), {})

(* get_call_filter_options: labels for a department or for all.             *)
GetCallFilterOptions(q, d) ==
    \/ Misses(q) /\ NotAvailable("filter_options", q, d)
    \/ ~Misses(q) /\ Envelope("filter_options", q, d, "ok", About(Named(q), None), {})

(* The people a report of the scope covers: one employee, or the roster.    *)
Team(q, listing) ==
    LET scope == Scope(q)
    IN IF scope.employee # None
       THEN [rows |-> {scope.employee}, whole |-> TRUE, excluded |-> 0]
       ELSE Roster(q.account, q.okk, listing, scope.department)

(* The departments a report of the scope covers.                            *)
Targets(q) == IF Scope(q).department # None THEN {Scope(q).department} ELSE Visible(q)

(* get_plan_fact_statistics: the plan of each target, grounded in the rows  *)
(* of its own people; "missing" is a platform without call plans, "unset" a *)
(* department without a plan.                                               *)
GetPlanFactStatistics(q, d) ==
    LET scope == Scope(q)
        team == Team(q, d.listing)
        people(x) == {e \in team.rows : EmployeeDepartment(q.account, q.okk, e) = x}
        answered == {x \in Targets(q) : d.plans[x].mode # "missing"}
        plan(x) == Grounded(d.plans[x].rows, people(x))
        status == IF answered # Targets(q)
                  THEN IF answered = {} THEN "not_available" ELSE "partial"
                  ELSE IF \A x \in answered : d.plans[x].mode = "unset" THEN "no_data"
                  ELSE IF \/ ~team.whole \/ team.excluded > 0
                          \/ \E x \in answered : plan(x).removed + plan(x).renamed > 0
                  THEN "partial" ELSE "ok"
    IN \/ scope.invalid /\ NotAvailable("plan_fact", q, d)
       \/ /\ ~scope.invalid
          /\ Envelope("plan_fact", q, d, status, About(scope.department, scope.employee),
                      UNION {plan(x).kept : x \in answered})

(* get_crm_statistics: the latest snapshot of each employee. `shown` are    *)
(* those whose counters enter the totals. A requested date keeps the        *)
(* snapshots of that date (`dated`) and never makes a whole answer.         *)
GetCrmStatistics(q, d) ==
    LET scope == Scope(q)
        team == Team(q, d.listing)
        rows == IF d.dated = None THEN team.rows ELSE team.rows \cap d.dated
        counted == {e \in rows : CrmState(d.crm[e]) = "available"}
        missing == {e \in rows : Unusable(d.crm[e])}
        about == About(scope.department, scope.employee)
    IN \/ scope.invalid /\ NotAvailable("crm", q, d)
       \/ /\ ~scope.invalid /\ d.dated # None /\ rows = {}
          /\ Envelope("crm", q, d, "not_available", about, {})
       \/ /\ ~scope.invalid /\ (d.dated = None \/ rows # {})
          /\ Envelope("crm", q, d,
                      IF counted = {} THEN IF missing # {} THEN "not_available" ELSE "no_data"
                      ELSE IF missing # {} \/ ~team.whole \/ d.dated # None THEN "partial"
                      ELSE "ok",
                      about, counted)

(* get_growth_insights: OKK's insights of the employee, the department or   *)
(* every visible department; `evaluated` are those with evaluated calls.    *)
GetGrowthInsights(q, d) ==
    LET scope == Scope(q)
        some == IF scope.employee # None THEN scope.employee \in d.evaluated
                ELSE Targets(q) \cap d.evaluated # {}
    IN \/ scope.invalid /\ NotAvailable("growth", q, d)
       \/ /\ ~scope.invalid
          /\ Envelope("growth", q, d, IF some THEN "ok" ELSE "no_data",
                      About(scope.department, scope.employee),
                      IF scope.employee # None THEN {scope.employee} ELSE Targets(q))

-------------------------------------------------------------------------------

(* What the journal, the directory and the dashboards answer is any rows of *)
(* the kinds the constants name; a snapshot of a requested date is one OKK  *)
(* answered, so not one of an outage. Tools that take no employee get the   *)
(* questions that name no one.                                              *)
NoOne(questions) == {q \in questions : q.person = None}
CrmRows == [listing : Listed, crm : [People -> SnapshotStates], dated : {None} \cup SUBSET People]

ReportInit == answer = Silent

ReportNext ==
    /\ Asked
    /\ \/ \E q \in NoOne(Scopes) : \/ GetAccessContext(q, None)
                                   \/ ListSupervisors(q, None)
                                   \/ GetCallFilterOptions(q, None)
       \/ \E q \in Scopes : GetScopeSums(q, None)
       \/ \E q \in NoOne(Scopes), d \in [wanted : (SUBSET Departments) \cup (SUBSET Names)] :
             CompareDepartments(q, d)
       \/ \E q \in NoOne(Scopes), d \in [wanted : (SUBSET People) \ {{}}] : CompareEmployees(q, d)
       \/ \E q \in Scopes, d \in [evaluated : SUBSET (Departments \cup People)] :
             GetGrowthInsights(q, d)
       \/ \E q \in NoOne(ReportScopes), d \in [listing : Listed, rows : Reported] :
             GetOverviewStatistics(q, d)
       \/ \E q \in NoOne(ReportScopes),
             d \in [listing : Listed, rows : Reported, trends : Reported,
                   plan : Reported \cup {None}] :
             GetDepartmentStatistics(q, d)
       \/ \E q \in NoOne(ReportScopes), d \in [listing : Listed] : ListEmployees(q, d)
       \/ \E q \in {p \in ReportScopes : p.person # None},
             d \in [plan : Reported \cup {None}, crm : [People -> SnapshotStates]] :
             GetEmployeeCard(q, d)
       \/ \E q \in ReportScopes, d \in [listing : Listed, plans : [Departments -> Plans]] :
             GetPlanFactStatistics(q, d)
       \/ \E q \in ReportScopes,
             d \in {c \in CrmRows : c.dated = None \/ \A e \in c.dated : c.crm[e] # "down"} :
             GetCrmStatistics(q, d)

ReportSpec == ReportInit /\ [][ReportNext]_answer

-------------------------------------------------------------------------------

(* The tools that take one department or employee to report on.             *)
ScopedTools == {"overview", "department", "employees", "card", "compare_employees",
                "sums", "filter_options", "plan_fact", "crm", "growth"}
UnscopedTools == {"access_context", "compare_departments", "supervisors"}

(* A selector OKK cannot resolve, resolves twice or that is blank, and an   *)
(* employee who is somewhere else, never widen the report: it is about just *)
(* the one department every selector names and the employee named, or it is *)
(* not_available and shows nothing (resolve_department, scoped_employee,    *)
(* resolve_entity_scope and the early returns of every tool).               *)
ScopeNeverBroadened ==
    answer.tool \in ScopedTools =>
        IF answer.status = "not_available" THEN answer.shown = {}
        ELSE /\ \A s \in answer.q.selectors :
                   Matches(answer.q.account, answer.q.okk, s) = {answer.about.department}
             /\ answer.q.person # None =>
                   /\ answer.about.employee = answer.q.person
                   /\ answer.about.department = answer.q.okk.directory[answer.q.person]

(* Whoever is not an administrator sees the departments of the account and  *)
(* the people now in them, and of those only the ones the report is about,  *)
(* even where OKK's directory, ranking, trends or plan name others. Only    *)
(* the ranking of a company-wide overview is left to OKK.                   *)
ShownWithinAccess ==
    answer.tool \in ScopedTools /\ ~(answer.tool = "overview" /\ answer.q.selectors = {}) =>
        \A x \in answer.shown :
            LET home == IF x \in People THEN answer.q.okk.directory[x] ELSE x
            IN /\ home \in answer.q.okk.departments
               /\ answer.q.account.admin \/ home \in answer.q.account.departments
               /\ answer.about.department \in {None, home}

(* What "ok" promises a reader who adds the rows up. Of a department, its   *)
(* ranking and a list of employees: the directory was read to its end and   *)
(* held no one from elsewhere, and every row OKK sent is shown under the    *)
(* directory's name. Of plans: each department answered and every row it    *)
(* sent is shown. Of CRM: the directory was read to its end and everyone in *)
(* the roster is counted or not linked to Bitrix; people the directory put  *)
(* in the wrong department are left out without a word.                     *)
OkMeansWhole ==
    answer.status = "ok" =>
        LET d == answer.d
            whole == d.listing.whole /\ \A e \in d.listing.listed : e \in answer.shown \/
                         InScope(answer.q.account, answer.q.okk, e, answer.about.department)
            kept(rows) == rows.of \subseteq answer.shown /\ rows.misnamed = {}
        IN /\ answer.tool = "overview" =>
                 answer.about.department = None \/ d.rows.of = {} \/ (whole /\ kept(d.rows))
           /\ answer.tool = "department" =>
                 whole /\ kept(d.rows) /\ kept(d.trends) /\ d.plan # None /\ kept(d.plan)
           /\ answer.tool = "employees" => d.listing.whole /\ d.listing.listed = answer.shown
           /\ answer.tool = "plan_fact" =>
                 \A x \in Targets(answer.q) : /\ d.plans[x].mode # "missing"
                                             /\ kept(d.plans[x].rows)
           /\ answer.tool = "crm" =>
                 /\ Team(answer.q, d.listing).whole
                 /\ \A e \in Team(answer.q, d.listing).rows :
                     e \in answer.shown \/ d.crm[e] = "no_bitrix_id"

(* "no_data" is never an outage, a platform without plans, an unusable      *)
(* snapshot or a row left out in disguise: nobody the directory listed      *)
(* belongs to the scope, nobody whose snapshot was kept is linked to        *)
(* Bitrix, no plan is set, no call was evaluated, nothing is shown. For     *)
(* employees and CRM this is a fact about the rows that were read: when the *)
(* directory was cut at its cap, the code says "no_data" of the rest unread *)
(* (get_crm_statistics, list_employees).                                    *)
NoDataIsNothing ==
    answer.status = "no_data" /\ answer.tool \in ScopedTools \cup UnscopedTools =>
        LET q == answer.q
            d == answer.d
            team == Team(q, d.listing).rows
        IN /\ answer.tool = "employees" =>
                 \A e \in d.listing.listed : ~InScope(q.account, q.okk, e, answer.about.department)
           /\ answer.tool = "plan_fact" => \A x \in Targets(q) : d.plans[x].mode = "unset"
           /\ answer.tool = "crm" =>
                 /\ \A e \in IF d.dated = None THEN team ELSE team \cap d.dated : d.crm[e] = "no_bitrix_id"
                 /\ d.dated # None => team \cap d.dated # {}
           /\ answer.tool = "growth" =>
                 (IF q.person # None THEN {q.person} ELSE Targets(q)) \cap d.evaluated = {}
           /\ answer.tool \notin {"plan_fact", "growth"} => answer.shown = {}
===============================================================================
