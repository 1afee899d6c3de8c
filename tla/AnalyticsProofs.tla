---------------------------- MODULE AnalyticsProofs ---------------------------
(* Proofs about the tools, for any OKK, account, question and page: what a  *)
(* report is about and shows, what a list of calls shows, what a phone      *)
(* lookup may say, what an "ok" leaves out, and where each evaluation is    *)
(* counted. Each follows tool by tool from lemmas about the scope, the      *)
(* pages and the codes of scenario versions.                                *)
EXTENDS AnalyticsTools, FiniteSetTheorems, WellFoundedInduction, TLAPS

-------------------------------------------------------------------------------

(* What is visible is granted by OKK and, but for administrators, by the    *)
(* account.                                                                 *)
LEMMA VisibleGranted ==
    ASSUME NEW q \in ScopeQuestions
    PROVE  /\ Visible(q) \subseteq q.okk.departments
           /\ Visible(q) \subseteq Departments
           /\ q.account.admin \/ Visible(q) \subseteq q.account.departments
           /\ None \notin Visible(q)
           /\ NothingGranted(q.account) => Visible(q) = {}
  BY NamesAssumption DEF ScopeQuestions, Accounts, OkkAnswers, Visible, VisibleDepartments,
     NothingGranted

(* A resolved selection is one visible department, the one each selector    *)
(* names.                                                                   *)
LEMMA NamedExact ==
    ASSUME NEW q \in ScopeQuestions, Named(q) # None
    PROVE  /\ Named(q) \in Visible(q)
           /\ q.selectors # {}
           /\ \A s \in q.selectors : Matches(q.account, q.okk, s) = {Named(q)}
  <1> DEFINE agreed == {d \in Departments :
                          \A s \in q.selectors : Matches(q.account, q.okk, s) = {d}}
  <1>1. q.selectors # {} /\ agreed # {} /\ Named(q) = CHOOSE d \in agreed : TRUE
    BY DEF Named, ResolveDepartment
  <1>2. Named(q) \in agreed
    BY <1>1
  <1>3. \A s : Matches(q.account, q.okk, s) \subseteq Visible(q)
    BY DEF Matches, Visible
  <1> QED  BY <1>1, <1>2, <1>3

(* An employee in scope lives in a visible department, the requested one if *)
(* there is one.                                                            *)
LEMMA InScopeExact ==
    ASSUME NEW q \in ScopeQuestions, NEW e, NEW department,
           InScope(q.account, q.okk, e, department)
    PROVE  /\ q.okk.directory[e] \in Visible(q)
           /\ EmployeeDepartment(q.account, q.okk, e) = q.okk.directory[e]
           /\ department \in {None, q.okk.directory[e]}
  BY DEF InScope, EmployeeDepartment, Visible

(* A resolved scope is of the named department and the named employee.      *)
LEMMA ScopeExact ==
    ASSUME NEW q \in ScopeQuestions, ~Scope(q).invalid
    PROVE  /\ Scope(q).employee = q.person
           /\ q.selectors # {} => /\ Scope(q).department \in Visible(q)
                                  /\ Named(q) = Scope(q).department
           /\ q.person # None => /\ Scope(q).department = q.okk.directory[q.person]
                                 /\ Scope(q).department \in Visible(q)
           /\ Scope(q).department \in {None} \cup Visible(q)
  <1> DEFINE named == Named(q)
  <1>1. named # None => named \in Visible(q)
    BY NamedExact
  <1>2. ~(q.selectors # {} /\ named = None)
    BY DEF Scope, EntityScope, Named
  <1>3. q.selectors = {} => named = None
    BY NamedExact
  <1>4. CASE q.person = None
    <2>1. Scope(q) = [department |-> named, employee |-> None, invalid |-> FALSE]
      BY <1>2, <1>4 DEF Scope, EntityScope, Named
    <2> QED  BY <1>1, <1>2, <1>3, <1>4, <2>1
  <1>5. CASE q.person # None
    <2>1. InScope(q.account, q.okk, q.person, named)
      BY <1>2, <1>5 DEF Scope, EntityScope, Named
    <2>2. Scope(q) = [department |-> EmployeeDepartment(q.account, q.okk, q.person),
                      employee |-> q.person, invalid |-> FALSE]
      BY <1>2, <1>5, <2>1 DEF Scope, EntityScope, Named
    <2>3. /\ EmployeeDepartment(q.account, q.okk, q.person) = q.okk.directory[q.person]
          /\ q.okk.directory[q.person] \in Visible(q)
          /\ named \in {None, q.okk.directory[q.person]}
      BY <2>1, InScopeExact
    <2>4. /\ Scope(q).employee = q.person
          /\ Scope(q).department = q.okk.directory[q.person]
      BY <2>2, <2>3
    <2>5. q.selectors # {} => named = Scope(q).department
      BY <1>2, <2>3, <2>4
    <2> QED  BY <1>5, <2>3, <2>4, <2>5
  <1> QED  BY <1>4, <1>5

(* An invalid scope has no employee.                                        *)
LEMMA ScopeRefused ==
    ASSUME NEW q \in ScopeQuestions, Scope(q).invalid
    PROVE  Scope(q).employee = None
  BY DEF Scope, EntityScope

(* The people of a roster are in scope.                                     *)
LEMMA RosterExact ==
    ASSUME NEW q \in ScopeQuestions, NEW listing \in Listings, NEW department,
           NEW e \in Roster(q.account, q.okk, listing, department).rows
    PROVE  e \in listing.listed /\ e \in People /\ InScope(q.account, q.okk, e, department)
  BY DEF Roster, Listings

(* A team is one employee or a roster.                                      *)
LEMMA TeamExact ==
    ASSUME NEW q \in ScopeQuestions, ~Scope(q).invalid, NEW listing \in Listings,
           NEW e \in Team(q, listing).rows
    PROVE  /\ e \in People
           /\ q.okk.directory[e] \in Visible(q)
           /\ Scope(q).department \in {None, q.okk.directory[e]}
  <1>1. CASE Scope(q).employee # None
    <2>1. e = q.person /\ q.person # None
      BY <1>1, ScopeExact DEF Team
    <2> QED  BY <2>1, ScopeExact DEF ScopeQuestions
  <1>2. CASE Scope(q).employee = None
    <2>1. e \in Roster(q.account, q.okk, listing, Scope(q).department).rows
      BY <1>2 DEF Team
    <2> QED  BY <2>1, RosterExact, InScopeExact
  <1> QED  BY <1>1, <1>2

-------------------------------------------------------------------------------

(* What a report about a scope has to be, before it is an answer.           *)
ScopeRight(q, status, about, shown) ==
    IF status = "not_available" THEN shown = {}
    ELSE /\ \A s \in q.selectors : Matches(q.account, q.okk, s) = {about.department}
         /\ q.person # None => /\ about.employee = q.person
                               /\ about.department = q.okk.directory[q.person]

Home(q, x) == IF x \in People THEN q.okk.directory[x] ELSE x

AccessRight(q, about, shown) ==
    \A x \in shown : /\ Home(q, x) \in Visible(q)
                     /\ about.department \in {None, Home(q, x)}

ReportRight == ScopeNeverBroadened /\ ShownWithinAccess

LEMMA EnvelopeRight ==
    ASSUME NEW q \in ScopeQuestions, NEW tool, NEW d, NEW status, NEW about, NEW shown,
           Envelope(tool, q, d, status, about, shown),
           tool \in ScopedTools =>
              /\ ScopeRight(q, status, about, shown)
              /\ ~(tool = "overview" /\ q.selectors = {}) => AccessRight(q, about, shown)
    PROVE  ReportRight'
  <1>1. answer' = [tool |-> tool, q |-> q, d |-> d,
                   status |-> status, about |-> about, shown |-> shown]
    BY DEF Envelope
  <1>2. ScopeNeverBroadened'
    BY <1>1 DEF ScopeNeverBroadened, ScopeRight
  <1>3. ShownWithinAccess'
    BY <1>1, VisibleGranted DEF ShownWithinAccess, AccessRight, Home
  <1> QED  BY <1>2, <1>3 DEF ReportRight

(* "not_available" shows nothing.                                           *)
LEMMA NotAvailableRight ==
    ASSUME NEW q \in ScopeQuestions, NEW tool, NEW d, NotAvailable(tool, q, d)
    PROVE  ReportRight'
  <1>1. Envelope(tool, q, d, "not_available", Everything, {})
    BY DEF NotAvailable
  <1> QED  BY <1>1, EnvelopeRight DEF ScopeRight, AccessRight

(* The reports that take no department and no employee.                     *)
LEMMA UnscopedRight ==
    ASSUME NEW q \in ScopeQuestions, NEW d,
           GetAccessContext(q, d) \/ ListSupervisors(q, d) \/ CompareDepartments(q, d)
    PROVE  ReportRight'
  <1>1. PICK tool, status, about, shown :
           tool \in UnscopedTools /\ Envelope(tool, q, d, status, about, shown)
    BY DEF GetAccessContext, ListSupervisors, CompareDepartments, UnscopedTools
  <1>2. tool \notin ScopedTools
    BY <1>1 DEF UnscopedTools, ScopedTools
  <1> QED  BY <1>1, <1>2, EnvelopeRight

(* What the reports about one named department, or everything, share.       *)
LEMMA NamedRight ==
    ASSUME NEW q \in ScopeQuestions, ~Misses(q), q.person = None, NEW status
    PROVE  /\ \A shown : status # "not_available" => ScopeRight(q, status, About(Named(q), None), shown)
           /\ Named(q) \in {None} \cup Visible(q)
           /\ Named(q) = None => q.selectors = {}
  BY NamedExact DEF Misses, ScopeRight, About

(* Rows that are in scope are within the access.                            *)
LEMMA RowsRight ==
    ASSUME NEW q \in ScopeQuestions, NEW department, NEW employee, NEW shown \in SUBSET People,
           \A e \in shown : InScope(q.account, q.okk, e, department)
    PROVE  AccessRight(q, About(department, employee), shown)
  BY InScopeExact DEF AccessRight, About, Home

LEMMA GroundedRight ==
    ASSUME NEW rows, NEW team
    PROVE  Grounded(rows, team).kept \subseteq team
  BY DEF Grounded

LEMMA OverviewRight ==
    ASSUME NEW q \in ScopeQuestions, q.person = None, NEW d, d.listing \in Listings,
           GetOverviewStatistics(q, d)
    PROVE  ReportRight'
  <1> DEFINE named == Named(q)
             team == Roster(q.account, q.okk, d.listing, named)
             ranking == Grounded(d.rows, team.rows)
  <1>1. CASE NotAvailable("overview", q, d)
    BY <1>1, NotAvailableRight
  <1>2. CASE /\ ~Misses(q) /\ NothingGranted(q.account)
             /\ Envelope("overview", q, d, "no_data", Everything, {})
    <2>1. q.selectors = {}
      BY <1>2, NamedRight, VisibleGranted, NamedExact DEF Misses
    <2> QED  BY <1>2, <2>1, EnvelopeRight DEF ScopeRight
  <1>3. CASE q.selectors = {} /\ Envelope("overview", q, d, "ok", Everything, d.rows.of)
    BY <1>3, EnvelopeRight DEF ScopeRight
  <1>4. ASSUME NEW status \in {"partial", "ok"}, named # None,
               Envelope("overview", q, d, status, About(named, None), ranking.kept)
        PROVE  ReportRight'
    <2>1. ~Misses(q)
      BY <1>4 DEF Misses
    <2>2. ScopeRight(q, status, About(named, None), ranking.kept)
      BY <1>4, <2>1, NamedRight
    <2>3. \A e \in ranking.kept : e \in People /\ InScope(q.account, q.okk, e, named)
      BY RosterExact, GroundedRight
    <2>4. AccessRight(q, About(named, None), ranking.kept)
      BY <2>3, RowsRight
    <2> QED  BY <1>4, <2>2, <2>4, EnvelopeRight
  <1> QED  BY <1>1, <1>2, <1>3, <1>4 DEF GetOverviewStatistics

LEMMA DepartmentRight ==
    ASSUME NEW q \in ScopeQuestions, q.person = None, NEW d, d.listing \in Listings,
           GetDepartmentStatistics(q, d)
    PROVE  ReportRight'
  <1> DEFINE named == Named(q)
             team == Roster(q.account, q.okk, d.listing, named)
             sources == {d.rows, d.trends} \cup ({d.plan} \ {None})
             shown == UNION {Grounded(s, team.rows).kept : s \in sources}
  <1>1. CASE NotAvailable("department", q, d)
    BY <1>1, NotAvailableRight
  <1>2. ASSUME NEW status \in {"partial", "ok"}, named # None,
               Envelope("department", q, d, status, About(named, None), shown)
        PROVE  ReportRight'
    <2>1. ~Misses(q)
      BY <1>2 DEF Misses
    <2>2. ScopeRight(q, status, About(named, None), shown)
      BY <1>2, <2>1, NamedRight
    <2>3. \A e \in shown : e \in People /\ InScope(q.account, q.okk, e, named)
      BY RosterExact, GroundedRight
    <2>4. AccessRight(q, About(named, None), shown)
      BY <2>3, RowsRight
    <2> QED  BY <1>2, <2>2, <2>4, EnvelopeRight
  <1> QED  BY <1>1, <1>2 DEF GetDepartmentStatistics

LEMMA EmployeesRight ==
    ASSUME NEW q \in ScopeQuestions, q.person = None, NEW d, d.listing \in Listings,
           ListEmployees(q, d)
    PROVE  ReportRight'
  <1> DEFINE named == Named(q)
             team == Roster(q.account, q.okk, d.listing, named)
  <1>1. CASE NotAvailable("employees", q, d)
    BY <1>1, NotAvailableRight
  <1>2. ASSUME NEW status \in {"no_data", "partial", "ok"}, ~Misses(q),
               Envelope("employees", q, d, status, About(named, None), team.rows)
        PROVE  ReportRight'
    <2>2. ScopeRight(q, status, About(named, None), team.rows)
      BY <1>2, NamedRight
    <2>3. \A e \in team.rows : e \in People /\ InScope(q.account, q.okk, e, named)
      BY RosterExact
    <2>4. AccessRight(q, About(named, None), team.rows)
      BY <2>3, RowsRight
    <2> QED  BY <1>2, <2>2, <2>4, EnvelopeRight
  <1> QED  BY <1>1, <1>2 DEF ListEmployees

LEMMA CompareEmployeesRight ==
    ASSUME NEW q \in ScopeQuestions, q.person = None, NEW d, d.wanted \subseteq People,
           CompareEmployees(q, d)
    PROVE  ReportRight'
  <1> DEFINE named == Named(q)
             effective == {e \in d.wanted : InScope(q.account, q.okk, e, named)}
  <1>1. CASE NotAvailable("compare_employees", q, d)
    BY <1>1, NotAvailableRight
  <1>2. CASE ~Misses(q) /\ Envelope("compare_employees", q, d, "ok", About(named, None), effective)
    <2>1. ScopeRight(q, "ok", About(named, None), effective)
      BY <1>2, NamedRight
    <2>2. AccessRight(q, About(named, None), effective)
      BY RowsRight
    <2> QED  BY <1>2, <2>1, <2>2, EnvelopeRight
  <1> QED  BY <1>1, <1>2 DEF CompareEmployees

LEMMA OptionsRight ==
    ASSUME NEW q \in ScopeQuestions, q.person = None, NEW d, GetCallFilterOptions(q, d)
    PROVE  ReportRight'
  <1>1. CASE NotAvailable("filter_options", q, d)
    BY <1>1, NotAvailableRight
  <1>2. CASE ~Misses(q) /\ Envelope("filter_options", q, d, "ok", About(Named(q), None), {})
    <2>1. ScopeRight(q, "ok", About(Named(q), None), {})
      BY <1>2, NamedRight
    <2> QED  BY <1>2, <2>1, EnvelopeRight DEF AccessRight
  <1> QED  BY <1>1, <1>2 DEF GetCallFilterOptions

-------------------------------------------------------------------------------

(* What the reports about an employee, a department or everything share.    *)
LEMMA ScopedRight ==
    ASSUME NEW q \in ScopeQuestions, ~Scope(q).invalid
    PROVE  \A status, shown : status # "not_available" =>
              ScopeRight(q, status, About(Scope(q).department, Scope(q).employee), shown)
  <1>1. q.selectors # {} =>
           \A s \in q.selectors : Matches(q.account, q.okk, s) = {Scope(q).department}
    BY ScopeExact, NamedExact, VisibleGranted
  <1> QED  BY <1>1, ScopeExact DEF ScopeRight, About

(* The departments of a scope are visible.                                  *)
LEMMA TargetsRight ==
    ASSUME NEW q \in ScopeQuestions, ~Scope(q).invalid, NEW employee
    PROVE  /\ Targets(q) \subseteq Visible(q)
           /\ AccessRight(q, About(Scope(q).department, employee), Targets(q))
  <1>1. Targets(q) \subseteq Visible(q) /\ Scope(q).department \in {None} \cup Targets(q)
        /\ (Scope(q).department # None => Targets(q) = {Scope(q).department})
    BY ScopeExact DEF Targets
  <1>2. \A x \in Targets(q) : x \notin People
    BY <1>1, VisibleGranted, NamesAssumption
  <1> QED  BY <1>1, <1>2 DEF AccessRight, About, Home

LEMMA TeamRight ==
    ASSUME NEW q \in ScopeQuestions, ~Scope(q).invalid, NEW listing \in Listings, NEW employee,
           NEW shown \in SUBSET Team(q, listing).rows
    PROVE  AccessRight(q, About(Scope(q).department, employee), shown)
  BY TeamExact DEF AccessRight, About, Home

LEMMA CardRight ==
    ASSUME NEW q \in ScopeQuestions, q.person # None, NEW d, GetEmployeeCard(q, d)
    PROVE  ReportRight'
  <1>1. CASE NotAvailable("card", q, d)
    BY <1>1, NotAvailableRight
  <1>2. ASSUME NEW status \in {"partial", "ok"}, Scope(q).employee # None,
               Envelope("card", q, d, status, About(Scope(q).department, q.person), {q.person})
        PROVE  ReportRight'
    <2>1. ~Scope(q).invalid
      BY <1>2, ScopeRefused
    <2>2. ScopeRight(q, status, About(Scope(q).department, q.person), {q.person})
      BY <1>2, <2>1, ScopedRight, ScopeExact
    <2>3. AccessRight(q, About(Scope(q).department, q.person), {q.person})
      BY <2>1, ScopeExact DEF AccessRight, About, Home, ScopeQuestions
    <2> QED  BY <1>2, <2>2, <2>3, EnvelopeRight
  <1> QED  BY <1>1, <1>2 DEF GetEmployeeCard

LEMMA SumsRight ==
    ASSUME NEW q \in ScopeQuestions, NEW d, GetScopeSums(q, d)
    PROVE  ReportRight'
  <1>1. CASE NotAvailable("sums", q, d)
    BY <1>1, NotAvailableRight
  <1>2. CASE /\ ~Scope(q).invalid
             /\ Envelope("sums", q, d, "ok", About(Scope(q).department, Scope(q).employee), {})
    BY <1>2, ScopedRight, EnvelopeRight DEF AccessRight
  <1> QED  BY <1>1, <1>2 DEF GetScopeSums

LEMMA PlanRight ==
    ASSUME NEW q \in ScopeQuestions, NEW d, d.listing \in Listings, GetPlanFactStatistics(q, d)
    PROVE  ReportRight'
  <1> DEFINE scope == Scope(q)
             team == Team(q, d.listing)
             people(x) == {e \in team.rows : EmployeeDepartment(q.account, q.okk, e) = x}
             answered == {x \in Targets(q) : d.plans[x].mode # "missing"}
             plan(x) == Grounded(d.plans[x].rows, people(x))
             status == IF answered # Targets(q)
                       THEN IF answered = {} THEN "not_available" ELSE "partial"
                       ELSE IF \A x \in answered : d.plans[x].mode = "unset" THEN "no_data"
                       ELSE IF \/ ~team.whole \/ team.excluded > 0
                               \/ \E x \in answered : plan(x).removed + plan(x).renamed > 0
                       THEN "partial" ELSE "ok"
             shown == UNION {plan(x).kept : x \in answered}
             about == About(scope.department, scope.employee)
  <1>1. CASE NotAvailable("plan_fact", q, d)
    BY <1>1, NotAvailableRight
  <1>2. CASE ~scope.invalid /\ Envelope("plan_fact", q, d, status, about, shown)
    <2>1. status = "not_available" => shown = {}
      OBVIOUS
    <2>2. ScopeRight(q, status, about, shown)
      <3> HIDE DEF status
      <3> QED  BY <1>2, <2>1, ScopedRight DEF ScopeRight
    <2>3. \A x : plan(x).kept \subseteq people(x)
      BY GroundedRight
    <2>4. shown \subseteq team.rows
      <3> HIDE DEF plan
      <3> QED  BY <2>3
    <2>5. AccessRight(q, about, shown)
      BY <1>2, <2>4, TeamRight
    <2> HIDE DEF status, shown, about
    <2> QED  BY <1>2, <2>2, <2>5, EnvelopeRight
  <1>3. \/ NotAvailable("plan_fact", q, d)
        \/ ~scope.invalid /\ Envelope("plan_fact", q, d, status, about, shown)
    BY DEF GetPlanFactStatistics
  <1> QED  BY <1>1, <1>2, <1>3

LEMMA CrmRight ==
    ASSUME NEW q \in ScopeQuestions, NEW d, d.listing \in Listings, GetCrmStatistics(q, d)
    PROVE  ReportRight'
  <1> DEFINE scope == Scope(q)
             team == Team(q, d.listing)
             rows == IF d.dated = None THEN team.rows ELSE team.rows \cap d.dated
             counted == {e \in rows : CrmState(d.crm[e]) = "available"}
             about == About(scope.department, scope.employee)
  <1>1. CASE NotAvailable("crm", q, d)
    BY <1>1, NotAvailableRight
  <1>2. ASSUME NEW status, NEW shown \in SUBSET team.rows, ~scope.invalid,
               status = "not_available" => shown = {},
               Envelope("crm", q, d, status, about, shown)
        PROVE  ReportRight'
    <2>1. ScopeRight(q, status, about, shown)
      BY <1>2, ScopedRight DEF ScopeRight
    <2>2. AccessRight(q, about, shown)
      BY <1>2, TeamRight
    <2> QED  BY <1>2, <2>1, <2>2, EnvelopeRight
  <1>3. counted \subseteq team.rows
    OBVIOUS
  <1> QED  BY <1>1, <1>2, <1>3 DEF GetCrmStatistics

LEMMA GrowthRight ==
    ASSUME NEW q \in ScopeQuestions, NEW d, GetGrowthInsights(q, d)
    PROVE  ReportRight'
  <1> DEFINE scope == Scope(q)
             shown == IF scope.employee # None THEN {scope.employee} ELSE Targets(q)
  <1>1. CASE NotAvailable("growth", q, d)
    BY <1>1, NotAvailableRight
  <1>2. ASSUME NEW status \in {"ok", "no_data"}, ~scope.invalid,
               Envelope("growth", q, d, status, About(scope.department, scope.employee), shown)
        PROVE  ReportRight'
    <2>1. ScopeRight(q, status, About(scope.department, scope.employee), shown)
      BY <1>2, ScopedRight
    <2>2. CASE scope.employee # None
      <3>1. AccessRight(q, About(scope.department, scope.employee), shown)
        BY <1>2, <2>2, ScopeExact DEF AccessRight, About, Home, ScopeQuestions
      <3> QED  BY <1>2, <2>1, <3>1, EnvelopeRight
    <2>3. CASE scope.employee = None
      <3>1. AccessRight(q, About(scope.department, scope.employee), shown)
        BY <1>2, <2>3, TargetsRight
      <3> QED  BY <1>2, <2>1, <3>1, EnvelopeRight
    <2> QED  BY <2>2, <2>3
  <1> QED  BY <1>1, <1>2 DEF GetGrowthInsights

-------------------------------------------------------------------------------

(* The tools of each kind answer under their own names.                     *)
LEMMA ReportNames ==
    ASSUME ReportNext
    PROVE  answer'.tool \in ScopedTools \cup UnscopedTools
  <1>1. ASSUME NEW tool, NEW q, NEW d, NEW status, NEW about, NEW shown,
               Envelope(tool, q, d, status, about, shown)
        PROVE  answer'.tool = tool
    BY <1>1 DEF Envelope
  <1>2. ASSUME NEW tool, NEW q, NEW d, NotAvailable(tool, q, d)
        PROVE  answer'.tool = tool
    BY <1>1, <1>2 DEF NotAvailable
  <1> DEFINE named == answer'.tool \in ScopedTools \cup UnscopedTools
  <1>3. ASSUME NEW q, NEW d,
               \/ GetAccessContext(q, d) \/ ListSupervisors(q, d) \/ CompareDepartments(q, d)
        PROVE  named
    BY <1>1, <1>3 DEF GetAccessContext, ListSupervisors, CompareDepartments, UnscopedTools
  <1>4. ASSUME NEW q, NEW d,
               \/ GetCallFilterOptions(q, d) \/ GetScopeSums(q, d) \/ CompareEmployees(q, d)
               \/ ListEmployees(q, d) \/ GetEmployeeCard(q, d) \/ GetGrowthInsights(q, d)
        PROVE  named
    BY <1>1, <1>2, <1>4 DEF GetCallFilterOptions, GetScopeSums, CompareEmployees, ListEmployees,
       GetEmployeeCard, GetGrowthInsights, ScopedTools
  <1>5. ASSUME NEW q, NEW d, GetOverviewStatistics(q, d) PROVE named
    BY <1>1, <1>2, <1>5 DEF GetOverviewStatistics, ScopedTools
  <1>6. ASSUME NEW q, NEW d, GetDepartmentStatistics(q, d) PROVE named
    BY <1>1, <1>2, <1>6 DEF GetDepartmentStatistics, ScopedTools
  <1>7. ASSUME NEW q, NEW d, GetPlanFactStatistics(q, d) PROVE named
    BY <1>1, <1>2, <1>7 DEF GetPlanFactStatistics, ScopedTools
  <1>8. ASSUME NEW q, NEW d, GetCrmStatistics(q, d) PROVE named
    BY <1>1, <1>2, <1>8 DEF GetCrmStatistics, ScopedTools
  <1> SUFFICES named
    OBVIOUS
  <1> HIDE DEF named
  <1> QED  BY <1>3, <1>4, <1>5, <1>6, <1>7, <1>8 DEF ReportNext

LEMMA ReportStep ==
    ASSUME ReportNext
    PROVE  ReportRight'
  <1>1. /\ \A q \in Scopes \cup ReportScopes : q \in ScopeQuestions
        /\ \A q \in NoOne(Scopes) \cup NoOne(ReportScopes) : q \in ScopeQuestions /\ q.person = None
    BY ReportsAssumption DEF NoOne
  <1>2. \A listing \in Listed : listing \in Listings
    BY ReportsAssumption
  <1>3. CASE \E q \in NoOne(Scopes) : \/ GetAccessContext(q, None)
                                     \/ ListSupervisors(q, None)
                                     \/ GetCallFilterOptions(q, None)
    BY <1>1, <1>3, UnscopedRight, OptionsRight
  <1>4. CASE \E q \in Scopes : GetScopeSums(q, None)
    BY <1>1, <1>4, SumsRight
  <1>5. CASE \E q \in NoOne(Scopes), d \in [wanted : (SUBSET Departments) \cup (SUBSET Names)] :
                CompareDepartments(q, d)
    BY <1>1, <1>5, UnscopedRight
  <1>6. CASE \E q \in NoOne(Scopes), d \in [wanted : (SUBSET People) \ {{}}] : CompareEmployees(q, d)
    BY <1>1, <1>6, CompareEmployeesRight
  <1>7. CASE \E q \in Scopes, d \in [evaluated : SUBSET (Departments \cup People)] :
                GetGrowthInsights(q, d)
    BY <1>1, <1>7, GrowthRight
  <1>8. CASE \E q \in NoOne(ReportScopes), d \in [listing : Listed, rows : Reported] :
                GetOverviewStatistics(q, d)
    BY <1>1, <1>2, <1>8, OverviewRight
  <1>9. CASE \E q \in NoOne(ReportScopes),
                d \in [listing : Listed, rows : Reported, trends : Reported,
                       plan : Reported \cup {None}] : GetDepartmentStatistics(q, d)
    BY <1>1, <1>2, <1>9, DepartmentRight
  <1>10. CASE \E q \in NoOne(ReportScopes), d \in [listing : Listed] : ListEmployees(q, d)
    BY <1>1, <1>2, <1>10, EmployeesRight
  <1>11. CASE \E q \in {p \in ReportScopes : p.person # None},
                 d \in [plan : Reported \cup {None}, crm : [People -> SnapshotStates]] :
                 GetEmployeeCard(q, d)
    BY <1>1, <1>11, CardRight
  <1>12. CASE \E q \in ReportScopes, d \in [listing : Listed, plans : [Departments -> Plans]] :
                 GetPlanFactStatistics(q, d)
    BY <1>1, <1>2, <1>12, PlanRight
  <1>13. CASE \E q \in ReportScopes,
                 d \in {c \in CrmRows : c.dated = None \/ \A e \in c.dated : c.crm[e] # "down"} :
                 GetCrmStatistics(q, d)
    BY <1>1, <1>2, <1>13, CrmRight DEF CrmRows
  <1> QED
    BY <1>3, <1>4, <1>5, <1>6, <1>7, <1>8, <1>9, <1>10, <1>11, <1>12, <1>13 DEF ReportNext

LEMMA ScenarioNames ==
    ASSUME ScenarioNext
    PROVE  answer'.tool \notin ScopedTools \cup UnscopedTools \cup CallToolNames
  <1> DEFINE names == {"scenarios", "criteria", "scenario_performance", "criterion_performance"}
  <1>1. ASSUME NEW tool, NEW q, NEW d, NEW status, NEW about, NEW shown,
               Envelope(tool, q, d, status, about, shown) \/ NotAvailable(tool, q, d)
        PROVE  answer'.tool = tool
    BY <1>1 DEF Envelope, NotAvailable
  <1>2. ASSUME NEW q, NEW d, ListScenarios(q, d) \/ GetScenarioCriteria(q, d)
        PROVE  answer'.tool \in names
    BY <1>1, <1>2 DEF ListScenarios, GetScenarioCriteria
  <1>3. ASSUME NEW q, NEW d, GetScenarioPerformance(q, d) PROVE answer'.tool \in names
    BY <1>1, <1>3 DEF GetScenarioPerformance
  <1>4. ASSUME NEW q, NEW d, GetCriterionPerformance(q, d) PROVE answer'.tool \in names
    BY <1>1, <1>4 DEF GetCriterionPerformance
  <1>5. answer'.tool \in names
    <2> HIDE DEF names
    <2> QED  BY <1>2, <1>3, <1>4 DEF ScenarioNext
  <1> QED  BY <1>5 DEF ScopedTools, UnscopedTools, CallToolNames, PersonalTools

-------------------------------------------------------------------------------

(* A row that passes _visible_call: its employee and card agree with each   *)
(* other and with the one asked about, and it is a supervisor's call asked  *)
(* for under no department, or one of a department the account may see.     *)
Judged(q, row, department, person, call) ==
    /\ row.employee # None
    /\ row.card \in {None, row.employee}
    /\ person \in {None, row.employee}
    /\ call.employee = row.employee
    /\ \/ /\ call.kind = "supervisor" /\ call.department = None
          /\ row.cardDepartment = None
          /\ row.employee \in q.okk.restricted
          /\ department = None
       \/ /\ call.kind = "call" /\ call.department = BelongsTo(q, row)
          /\ BelongsTo(q, row) # None
          /\ department \in {None, BelongsTo(q, row)}
          /\ q.account.admin \/ BelongsTo(q, row) \in Visible(q)

LEMMA VisibleCallExact ==
    ASSUME NEW q \in ScopeQuestions, NEW row, NEW department, NEW person,
           VisibleCall(q.account, q.okk, row, department, person).kind # "hidden"
    PROVE  Judged(q, row, department, person,
                  VisibleCall(q.account, q.okk, row, department, person))
  <1> DEFINE call == VisibleCall(q.account, q.okk, row, department, person)
             home == CallDepartment(q.account, q.okk, row)
  <1>1. /\ row.employee # None
        /\ row.card \in {None, row.employee}
        /\ person \in {None, row.employee}
    BY DEF VisibleCall, Hidden
  <1>2. CASE row.cardDepartment = None /\ row.employee \in q.okk.restricted /\ department = None
    <2>1. call = [kind |-> "supervisor", employee |-> row.employee, department |-> None]
      BY <1>1, <1>2 DEF VisibleCall
    <2> QED  BY <1>1, <1>2, <2>1 DEF Judged
  <1>3. CASE ~(row.cardDepartment = None /\ row.employee \in q.okk.restricted /\ department = None)
    <2>1. /\ home # None /\ department \in {None, home}
          /\ q.account.admin \/ home \in Visible(q)
          /\ call = [kind |-> "call", employee |-> row.employee, department |-> home]
      BY <1>1, <1>3 DEF VisibleCall, Hidden, Visible
    <2>2. home = BelongsTo(q, row)
      BY <2>1 DEF CallDepartment, BelongsTo, EmployeeDepartment
    <2> QED  BY <1>1, <2>1, <2>2 DEF Judged
  <1> QED  BY <1>2, <1>3

(* What CallsOfTheScope says of one shown row.                              *)
CallRight(q, about, personal, row) ==
    LET home == BelongsTo(q, row)
        supervised == row.cardDepartment = None /\ row.employee \in q.okk.restricted
    IN /\ row.employee # None /\ row.card \in {None, row.employee}
       /\ about.employee \in {None, row.employee}
       /\ IF supervised /\ q.selectors = {} /\ personal
          THEN row.employee = q.person
          ELSE \/ supervised /\ about.department = None
               \/ /\ home # None /\ about.department \in {None, home}
                  /\ \/ q.account.admin
                     \/ home \in q.account.departments \cap q.okk.departments

LEMMA PassedRight ==
    ASSUME NEW q \in ScopeQuestions, NEW calls, NEW page, NEW about,
           NEW i \in Passed(q, calls, page, about)
    PROVE  /\ CallRight(q, about, FALSE, calls[i])
           /\ i \in page
  <1> DEFINE row == calls[i]
             call == VisibleCall(q.account, q.okk, row, about.department, about.employee)
  <1>1. i \in page /\ call.kind # "hidden"
    BY DEF Passed
  <1>2. Judged(q, row, about.department, about.employee, call)
    BY <1>1, VisibleCallExact
  <1> HIDE DEF row, call
  <1>3. CallRight(q, about, FALSE, row)
    BY <1>2, VisibleGranted DEF CallRight, Judged
  <1> QED  BY <1>1, <1>3 DEF row

LEMMA PersonalRight ==
    ASSUME NEW q \in ScopeQuestions, q.person # None, NEW calls, NEW page,
           NEW i \in Personal(q, calls, page, q.person)
    PROVE  /\ CallRight(q, About(None, q.person), TRUE, calls[i])
           /\ i \in page
  <1> DEFINE row == calls[i]
             call == VisibleCall(q.account, q.okk, row, None, q.person)
  <1>1. i \in page /\ call.kind = "supervisor"
    BY DEF Personal
  <1>2. Judged(q, row, None, q.person, call)
    BY <1>1, VisibleCallExact
  <1> HIDE DEF row, call
  <1>3. CallRight(q, About(None, q.person), TRUE, row)
    BY <1>1, <1>2 DEF CallRight, Judged, About
  <1> QED  BY <1>1, <1>3 DEF row

LEMMA CallEnvelopeRight ==
    ASSUME NEW tool \in CallToolNames \ {"phone_records"}, NEW q, NEW d, NEW status, NEW about,
           NEW shown, Envelope(tool, q, d, status, about, shown),
           \A i \in shown : CallRight(q, about, tool \in PersonalTools, d.calls[i])
    PROVE  CallsOfTheScope' /\ answer'.tool \in CallToolNames
  <1>1. answer' = [tool |-> tool, q |-> q, d |-> d,
                   status |-> status, about |-> about, shown |-> shown]
    BY DEF Envelope
  <1>2. /\ answer'.tool = tool /\ answer'.q = q /\ answer'.d = d
        /\ answer'.about = about /\ answer'.shown = shown
    BY <1>1
  <1>3. ShownCalls' \subseteq shown
    BY <1>2 DEF ShownCalls, PhoneTool
  <1>4. ASSUME NEW i \in ShownCalls'
        PROVE  CallRight(answer'.q, answer'.about, answer'.tool \in PersonalTools, answer'.d.calls[i])
    BY <1>2, <1>3
  <1>5. CallsOfTheScope'
    BY <1>4 DEF CallsOfTheScope, CallRight
  <1> QED  BY <1>2, <1>5

LEMMA CallRefusedRight ==
    ASSUME NEW tool \in CallToolNames, NEW q, NEW d, NotAvailable(tool, q, d)
    PROVE  CallsOfTheScope' /\ answer'.tool \in CallToolNames
  BY DEF NotAvailable, Envelope, CallsOfTheScope, ShownCalls

CallStepRight == CallsOfTheScope' /\ answer'.tool \in CallToolNames

LEMMA ListCallsRight ==
    ASSUME NEW q \in ScopeQuestions, NEW d, ListCallTranscripts(q, d)
    PROVE  CallStepRight
  <1> DEFINE scope == TranscriptScope(q, d.catalog, d.scenario)
             page == Page(q, d)
             shown == Open(d.calls, Passed(q, d.calls, page.rows, scope.about))
  <1>1. \/ NotAvailable("list_calls", q, d)
        \/ \E status : Envelope("list_calls", q, d, status, scope.about, shown)
    BY DEF ListCallTranscripts
  <1>2. "list_calls" \in CallToolNames \ {"phone_records"} /\ "list_calls" \notin PersonalTools
    BY DEF CallToolNames, PersonalTools
  <1>3. \A i \in shown : CallRight(q, scope.about, FALSE, d.calls[i])
    BY PassedRight DEF Open
  <1> HIDE DEF shown, scope
  <1>4. \A i \in shown : CallRight(q, scope.about, "list_calls" \in PersonalTools, d.calls[i])
    BY <1>2, <1>3 DEF CallRight
  <1> QED  BY <1>1, <1>2, <1>4, CallRefusedRight, CallEnvelopeRight DEF CallStepRight

LEMMA SearchCallsRight ==
    ASSUME NEW q \in ScopeQuestions, NEW d, SearchCallTranscripts(q, d)
    PROVE  CallStepRight
  <1> DEFINE scope == TranscriptScope(q, d.catalog, d.scenario)
             page == Page(q, d)
             shown == Passed(q, d.calls, page.rows, scope.about)
  <1>1. \/ NotAvailable("search_calls", q, d)
        \/ \E status : Envelope("search_calls", q, d, status, scope.about, shown)
    BY DEF SearchCallTranscripts
  <1>2. "search_calls" \in CallToolNames \ {"phone_records"} /\ "search_calls" \notin PersonalTools
    BY DEF CallToolNames, PersonalTools
  <1>3. \A i \in shown : CallRight(q, scope.about, FALSE, d.calls[i])
    BY PassedRight
  <1> HIDE DEF shown, scope
  <1>4. \A i \in shown : CallRight(q, scope.about, "search_calls" \in PersonalTools, d.calls[i])
    BY <1>2, <1>3 DEF CallRight
  <1> QED  BY <1>1, <1>2, <1>4, CallRefusedRight, CallEnvelopeRight DEF CallStepRight

LEMMA OpenCallRight ==
    ASSUME NEW q \in ScopeQuestions, NEW d, GetCallTranscript(q, d)
    PROVE  CallStepRight
  <1> DEFINE scope == Scope(q)
             row == d.calls[1]
             call == VisibleCall(q.account, q.okk, row, scope.department, scope.employee)
             department == IF scope.department # None THEN scope.department
                           ELSE IF call.department \in Visible(q) THEN call.department ELSE None
             about == About(department, call.employee)
  <1>1. \/ NotAvailable("open_call", q, d)
        \/ call.kind # "hidden" /\ \E status : Envelope("open_call", q, d, status, about, {1})
    BY DEF GetCallTranscript
  <1>2. "open_call" \in CallToolNames \ {"phone_records"} /\ "open_call" \notin PersonalTools
    BY DEF CallToolNames, PersonalTools
  <1>3. CASE NotAvailable("open_call", q, d)
    BY <1>2, <1>3, CallRefusedRight DEF CallStepRight
  <1>4. CASE call.kind # "hidden" /\ \E status : Envelope("open_call", q, d, status, about, {1})
    <2>1. Judged(q, row, scope.department, scope.employee, call)
      BY <1>4, VisibleCallExact
    <2>2. about.department = department /\ about.employee = call.employee
      BY DEF About
    <2>3. call.department \in Visible(q) => call.department # None
      BY VisibleGranted
    <2> HIDE DEF row, call, about, scope
    <2>4. CallRight(q, about, "open_call" \in PersonalTools, row)
      BY <1>2, <2>1, <2>2, <2>3, VisibleGranted DEF Judged, CallRight
    <2>5. \A i \in {1} : CallRight(q, about, "open_call" \in PersonalTools, d.calls[i])
      BY <2>4 DEF row
    <2> QED  BY <1>2, <1>4, <2>5, CallEnvelopeRight DEF CallStepRight
  <1> QED  BY <1>1, <1>3, <1>4

(* The four tools about one supervisor.                                     *)
LEMMA SupervisorToolRight ==
    ASSUME NEW q \in ScopeQuestions, q.person # None, NEW d, NEW tool \in PersonalTools,
           NEW page, NEW shown \in SUBSET Personal(q, d.calls, page, q.person),
           \/ NotAvailable(tool, q, d)
           \/ \E status : Envelope(tool, q, d, status, About(None, q.person), shown)
    PROVE  CallStepRight
  <1>1. tool \in CallToolNames \ {"phone_records"}
    BY DEF CallToolNames, PersonalTools
  <1>2. \A i \in shown : CallRight(q, About(None, q.person), TRUE, d.calls[i])
    BY PersonalRight
  <1>3. \A i \in shown : CallRight(q, About(None, q.person), tool \in PersonalTools, d.calls[i])
    BY <1>2 DEF CallRight
  <1> QED  BY <1>1, <1>3, CallRefusedRight, CallEnvelopeRight DEF CallStepRight

LEMMA SupervisorRight ==
    ASSUME NEW q \in ScopeQuestions, q.person # None, NEW d,
           \/ GetSupervisorCallStatistics(q, d) \/ ListSupervisorCallTranscripts(q, d)
           \/ SearchSupervisorCallTranscripts(q, d) \/ GetSupervisorCallTranscript(q, d)
    PROVE  CallStepRight
  <1> DEFINE personal == Personal(q, d.calls, DOMAIN d.calls, q.person)
             one == Personal(q, d.calls, {1} \cap DOMAIN d.calls, q.person)
             about == About(None, q.person)
  <1>1. CASE GetSupervisorCallStatistics(q, d)
    <2>1. \/ NotAvailable("supervisor_statistics", q, d)
          \/ \E status : Envelope("supervisor_statistics", q, d, status, about, personal)
      BY <1>1 DEF GetSupervisorCallStatistics
    <2>2. "supervisor_statistics" \in PersonalTools
      BY DEF PersonalTools
    <2> QED  BY <2>1, <2>2, SupervisorToolRight
  <1>2. CASE ListSupervisorCallTranscripts(q, d)
    <2>1. \/ NotAvailable("list_supervisor_calls", q, d)
          \/ \E status : Envelope("list_supervisor_calls", q, d, status, about, Open(d.calls, personal))
      BY <1>2 DEF ListSupervisorCallTranscripts
    <2>2. "list_supervisor_calls" \in PersonalTools /\ Open(d.calls, personal) \subseteq personal
      BY DEF PersonalTools, Open
    <2> QED  BY <2>1, <2>2, SupervisorToolRight
  <1>3. CASE SearchSupervisorCallTranscripts(q, d)
    <2>1. \/ NotAvailable("search_supervisor_calls", q, d)
          \/ \E status : Envelope("search_supervisor_calls", q, d, status, about, personal)
      BY <1>3 DEF SearchSupervisorCallTranscripts
    <2>2. "search_supervisor_calls" \in PersonalTools
      BY DEF PersonalTools
    <2> QED  BY <2>1, <2>2, SupervisorToolRight
  <1>4. CASE GetSupervisorCallTranscript(q, d)
    <2>1. \/ NotAvailable("open_supervisor_call", q, d)
          \/ /\ {1} = Open(d.calls, one)
             /\ \E status : Envelope("open_supervisor_call", q, d, status, about, {1})
      BY <1>4 DEF GetSupervisorCallTranscript
    <2>2. "open_supervisor_call" \in PersonalTools /\ Open(d.calls, one) \subseteq one
      BY DEF PersonalTools, Open
    <2> HIDE DEF one, about
    <2>3. CASE NotAvailable("open_supervisor_call", q, d)
      BY <2>2, <2>3, SupervisorToolRight
    <2>4. CASE /\ {1} = Open(d.calls, one)
               /\ \E status : Envelope("open_supervisor_call", q, d, status, about, {1})
      <3>1. {1} \in SUBSET one
        BY <2>2, <2>4
      <3> QED  BY <2>2, <2>4, <3>1, SupervisorToolRight DEF one, about
    <2> QED  BY <2>1, <2>3, <2>4
  <1> QED  BY <1>1, <1>2, <1>3, <1>4

-------------------------------------------------------------------------------

(* A Russian number is found by each of its three spellings.                *)
LEMMA SpellingsMeet ==
    ASSUME NEW phone \in Phones, Len(phone) = National + 1, Head(phone) = 7,
           NEW number \in {phone, << 8 >> \o Tail(phone), Tail(phone)}
    PROVE  Normalized(number) = phone
  <1> DEFINE rest == Tail(phone)
  <1>1. rest \in Seq(0..9) /\ Len(rest) = National /\ National \in Nat
    BY CallsAssumption DEF Phones
  <1>2. phone = <<7>> \o rest
    BY <1>1 DEF Phones
  <1>3. CASE number = phone
    BY <1>1, <1>3 DEF Normalized, Phones
  <1>4. CASE number = <<8>> \o rest
    <2>1. Len(number) = National + 1 /\ Head(number) = 8 /\ Tail(number) = rest
      BY <1>1, <1>4
    <2> QED  BY <1>2, <2>1 DEF Normalized
  <1>5. CASE number = rest
    BY <1>1, <1>2, <1>5 DEF Normalized
  <1> QED  BY <1>3, <1>4, <1>5

(* A whole number is an ending of itself.                                   *)
LEMMA SuffixOfItself ==
    ASSUME NEW phone \in Phones
    PROVE  IsSuffix(phone, phone)
  <1>1. Reverse(phone) \in Seq(0..9)
    BY DEF Reverse, Phones
  <1> QED  BY <1>1 DEF IsSuffix, IsPrefix

(* What a matching row has in common with the search.                       *)
LEMMA MatchExact ==
    ASSUME NEW phone, phone \in {None, Absent} \cup Phones, NEW searched \in Phones,
           PhoneMatches(phone, searched)
    PROVE  /\ phone \in Phones
           /\ IsSuffix(searched, phone)
           /\ Len(phone) > Len(searched) => Len(searched) < National
  <1>1. phone \in Phones
    BY DEF PhoneMatches
  <1>2. CASE Len(searched) >= National
    <2>1. phone = searched
      BY <1>2 DEF PhoneMatches
    <2> QED  BY <1>1, <2>1, SuffixOfItself DEF Phones
  <1>3. CASE ~(Len(searched) >= National)
    BY <1>1, <1>3, CallsAssumption DEF PhoneMatches, Phones
  <1> QED  BY <1>2, <1>3

LEMMA NormalizedDigits ==
    ASSUME NEW number \in Phones
    PROVE  Normalized(number) \in Phones
  <1>1. ASSUME NEW t \in Seq(0..9) PROVE <<7>> \o t \in Seq(0..9)
    OBVIOUS
  <1>2. Len(number) = National + 1 => Tail(number) \in Seq(0..9)
    BY CallsAssumption DEF Phones
  <1>3. CASE Len(number) = National + 1 /\ Head(number) = 8
    BY <1>1, <1>2, <1>3 DEF Normalized, Phones
  <1>4. CASE ~(Len(number) = National + 1 /\ Head(number) = 8)
    BY <1>1, <1>4 DEF Normalized, Phones
  <1> QED  BY <1>3, <1>4

(* The phone lookup, whatever OKK answers.                                  *)
LookupRows == {p \in [calls : BoundedSeq(PhoneCalls, MaxCalls), total : 0..MaxCalls + 1,
                      number : Numbers \cup {<<>>}, supervisor : People \cup {None}] :
                p.total \in Totals(p.calls)}

LEMMA LookupTypes ==
    ASSUME NEW d \in LookupRows
    PROVE  /\ d.number \in Phones /\ d.total \in Nat
           /\ \A i \in DOMAIN d.calls : d.calls[i].phone \in {None, Absent} \cup Phones
  <1>1. /\ d.calls \in BoundedSeq(PhoneCalls, MaxCalls) /\ d.total \in 0..MaxCalls + 1
        /\ d.number \in Numbers \cup {<<>>}
    BY DEF LookupRows
  <1>2. PICK m \in 0..MaxCalls : d.calls \in [1..m -> PhoneCalls]
    BY <1>1 DEF BoundedSeq, SeqOf
  <1>3. \A i \in DOMAIN d.calls : d.calls[i] \in PhoneCalls
    BY <1>2
  <1>4. <<>> \in Phones /\ Numbers \subseteq Phones
    <2>1. <<>> \in Phones
      BY DEF Phones
    <2> QED  BY <2>1, CallsAssumption
  <1> QED  BY <1>1, <1>3, <1>4, CallsAssumption, ScenariosAssumption DEF PhoneRow

(* The cases of its answer: the search cannot be asked, the scope is        *)
(* refused, OKK left the page empty, some row betrays the search, or the    *)
(* page is judged row by row.                                               *)
Nothing == [rows |-> {}, count |-> None]
Answering(q, d, status, shown) ==
    Envelope("phone_records", q, d, status, LookupAbout(q, d), shown)

Lookup(q, d, status, count) ==
    LET shown == Passed(q, d.calls, DOMAIN d.calls, LookupAbout(q, d))
    IN /\ Answering(q, d, status, [rows |-> shown, count |-> count])
       /\ status \in {"partial", "ok", "no_data"}
       /\ status = "no_data" => ~(d.total > 0)
       /\ count # None => Searching(d) /\ shown = DOMAIN d.calls /\ count = d.total

LEMMA LookupCases ==
    ASSUME NEW q, NEW d, ListCallPhoneRecords(q, d)
    PROVE  \/ Searching(d) /\ ~Searchable(d.number) /\ Answering(q, d, "error", Nothing)
           \/ NotAvailable("phone_records", q, d)
           \/ Answering(q, d, "partial", Nothing)
           \/ Betraying(d) # {} /\ Answering(q, d, "error", Nothing)
           \/ Betraying(d) = {} /\ \E status, count : Lookup(q, d, status, count)
  <1> DEFINE shown == Passed(q, d.calls, DOMAIN d.calls, LookupAbout(q, d))
             exact == Searching(d) /\ shown = DOMAIN d.calls
             status == IF shown # DOMAIN d.calls THEN "partial"
                       ELSE IF d.total > 0 THEN "ok" ELSE "no_data"
             count == IF exact THEN d.total ELSE None
  <1>1. \/ Searching(d) /\ ~Searchable(d.number) /\ Answering(q, d, "error", Nothing)
        \/ NotAvailable("phone_records", q, d)
        \/ Answering(q, d, "partial", Nothing)
        \/ Betraying(d) # {} /\ Answering(q, d, "error", Nothing)
        \/ Betraying(d) = {} /\ Answering(q, d, status, [rows |-> shown, count |-> count])
    BY DEF ListCallPhoneRecords, Answering, Nothing
  <1>2. /\ status \in {"partial", "ok", "no_data"}
        /\ status = "no_data" => ~(d.total > 0)
        /\ count # None => Searching(d) /\ shown = DOMAIN d.calls /\ count = d.total
    OBVIOUS
  <1>3. Answering(q, d, status, [rows |-> shown, count |-> count]) => Lookup(q, d, status, count)
    BY <1>2 DEF Lookup
  <1> QED  BY <1>1, <1>3

-------------------------------------------------------------------------------

LEMMA LookupScope ==
    ASSUME NEW q \in ScopeQuestions, NEW d, ListCallPhoneRecords(q, d)
    PROVE  CallStepRight
  <1> DEFINE about == LookupAbout(q, d)
             shown == Passed(q, d.calls, DOMAIN d.calls, about)
  <1>1. "phone_records" \in CallToolNames /\ "phone_records" \notin PersonalTools
    BY DEF CallToolNames, PersonalTools
  <1>2. \A i \in shown : CallRight(q, about, FALSE, d.calls[i])
    BY PassedRight
  <1>3. ASSUME NEW status, NEW rows \in SUBSET shown, NEW count,
               Answering(q, d, status, [rows |-> rows, count |-> count])
        PROVE  CallStepRight
    <2>1. answer' = [tool |-> "phone_records", q |-> q, d |-> d, status |-> status,
                     about |-> about, shown |-> [rows |-> rows, count |-> count]]
      BY <1>3 DEF Answering, Envelope
    <2>2. /\ answer'.tool = "phone_records" /\ answer'.q = q /\ answer'.d = d
          /\ answer'.about = about /\ answer'.shown.rows = rows
      BY <2>1
    <2> HIDE DEF about, shown
    <2>3. ShownCalls' \subseteq shown
      BY <2>2 DEF ShownCalls, PhoneTool
    <2>4. ASSUME NEW i \in ShownCalls'
          PROVE  CallRight(answer'.q, answer'.about, answer'.tool \in PersonalTools, answer'.d.calls[i])
      <3>1. CallRight(q, about, FALSE, d.calls[i])
        BY <1>2, <2>3, <2>4
      <3> QED  BY <1>1, <2>2, <3>1 DEF CallRight
    <2>5. CallsOfTheScope'
      BY <2>4 DEF CallsOfTheScope, CallRight
    <2> QED  BY <1>1, <2>2, <2>5 DEF CallStepRight
  <1>4. CASE NotAvailable("phone_records", q, d)
    BY <1>1, <1>4, CallRefusedRight DEF CallStepRight
  <1>5. CASE \E status : Answering(q, d, status, Nothing)
    BY <1>3, <1>5 DEF Nothing
  <1>6. CASE \E status, count : Lookup(q, d, status, count)
    BY <1>3, <1>6 DEF Lookup
  <1> QED  BY <1>4, <1>5, <1>6, LookupCases

(* The lookup counts only what answers the search, and never fails on the   *)
(* number it looked for.                                                    *)
LEMMA LookupExact ==
    ASSUME NEW q \in ScopeQuestions, NEW d \in LookupRows, ListCallPhoneRecords(q, d)
    PROVE  PhoneAnswerExact'
  <1> DEFINE searched == Normalized(d.number)
             shown == Passed(q, d.calls, DOMAIN d.calls, LookupAbout(q, d))
  <1>1. ASSUME NEW status, NEW about, NEW payload,
               Envelope("phone_records", q, d, status, about, payload)
        PROVE  /\ answer'.tool = "phone_records" /\ answer'.d = d
               /\ answer'.status = status /\ answer'.shown = payload
    BY <1>1 DEF Envelope
  <1>2. CASE NotAvailable("phone_records", q, d)
    <2>1. answer'.status = "not_available"
      BY <1>1, <1>2 DEF NotAvailable
    <2> QED  BY <2>1 DEF PhoneAnswerExact, PhoneCountExact, NumberFoundHoweverWritten
  <1>3. ASSUME NEW status \in {"partial", "error"}, Answering(q, d, status, Nothing)
        PROVE  PhoneCountExact'
    <2>1. answer'.d = d /\ answer'.status = status /\ answer'.shown.count = None
      BY <1>1, <1>3 DEF Answering, Nothing
    <2> QED  BY <2>1 DEF PhoneCountExact
  <1>4. CASE Answering(q, d, "partial", Nothing)
    <2>1. answer'.status = "partial"
      BY <1>1, <1>4 DEF Answering
    <2> QED  BY <1>3, <1>4, <2>1 DEF PhoneAnswerExact, NumberFoundHoweverWritten
  <1>5. CASE /\ Answering(q, d, "error", Nothing)
             /\ (Searching(d) /\ ~Searchable(d.number)) \/ Betraying(d) # {}
    <2>1. answer'.d = d
      BY <1>1, <1>5 DEF Answering
    <2>2. ASSUME NEW phone \in {d.calls[i].phone : i \in DOMAIN d.calls} \ {None, Absent},
                 phone \in Phones, Len(phone) = National + 1, Head(phone) = 7,
                 d.number \in {phone, << 8 >> \o Tail(phone), Tail(phone)},
                 \A i \in DOMAIN d.calls : d.calls[i].phone = phone
          PROVE  FALSE
      <3>1. searched = phone
        BY <2>2, SpellingsMeet
      <3>2. Searchable(d.number)
        BY <2>2, <3>1, CallsAssumption DEF Searchable
      <3>3. PhoneMatches(phone, searched)
        BY <2>2, <3>1, CallsAssumption DEF PhoneMatches
      <3>4. Betraying(d) = {}
        BY <2>2, <3>3 DEF Betraying
      <3> QED  BY <1>5, <3>2, <3>4
    <2>3. NumberFoundHoweverWritten'
      BY <2>1, <2>2 DEF NumberFoundHoweverWritten
    <2> QED  BY <1>3, <1>5, <2>3 DEF PhoneAnswerExact
  <1>6. ASSUME Betraying(d) = {}, NEW status, NEW count, Lookup(q, d, status, count)
        PROVE  PhoneAnswerExact'
    <2>1. /\ answer'.d = d /\ answer'.status = status
          /\ answer'.shown.rows = shown /\ answer'.shown.count = count
      BY <1>1, <1>6 DEF Lookup, Answering
    <2>2. status \in {"partial", "ok", "no_data"} /\ (status = "no_data" => ~(d.total > 0))
          /\ (count # None => Searching(d) /\ shown = DOMAIN d.calls /\ count = d.total)
      BY <1>6 DEF Lookup
    <2>3. d.total \in Nat
      BY LookupTypes
    <2>4. ASSUME Searching(d), NEW i \in DOMAIN d.calls
          PROVE  /\ d.calls[i].phone \in Phones
                 /\ IsSuffix(searched, d.calls[i].phone)
                 /\ Len(d.calls[i].phone) > Len(searched) => Len(searched) < National
      <3>1. PhoneMatches(d.calls[i].phone, searched)
        BY <1>6, <2>4 DEF Betraying
      <3> QED  BY <3>1, LookupTypes, NormalizedDigits, MatchExact
    <2> HIDE DEF shown
    <2>5. PhoneCountExact'
      BY <2>1, <2>2, <2>3, <2>4 DEF PhoneCountExact
    <2>6. NumberFoundHoweverWritten'
      BY <2>1, <2>2 DEF NumberFoundHoweverWritten
    <2> QED  BY <2>5, <2>6 DEF PhoneAnswerExact
  <1> QED  BY <1>2, <1>4, <1>5, <1>6, LookupCases

-------------------------------------------------------------------------------

(* What "no_data" may stand on, tool by tool.                               *)
NoDataRight(tool, q, d, about, shown) ==
    LET team == Team(q, d.listing).rows
    IN /\ tool = "employees" =>
             \A e \in d.listing.listed : ~InScope(q.account, q.okk, e, about.department)
       /\ tool = "plan_fact" => \A x \in Targets(q) : d.plans[x].mode = "unset"
       /\ tool = "crm" =>
             /\ \A e \in IF d.dated = None THEN team ELSE team \cap d.dated : d.crm[e] = "no_bitrix_id"
             /\ d.dated # None => team \cap d.dated # {}
       /\ tool = "growth" =>
             (IF q.person # None THEN {q.person} ELSE Targets(q)) \cap d.evaluated = {}
       /\ tool \notin {"plan_fact", "growth"} => shown = {}

LEMMA NoDataEnvelope ==
    ASSUME NEW tool, NEW q, NEW d, NEW status, NEW about, NEW shown,
           Envelope(tool, q, d, status, about, shown),
           status = "no_data" => NoDataRight(tool, q, d, about, shown)
    PROVE  NoDataIsNothing'
  <1>1. answer' = [tool |-> tool, q |-> q, d |-> d,
                   status |-> status, about |-> about, shown |-> shown]
    BY DEF Envelope
  <1>2. /\ answer'.tool = tool /\ answer'.q = q /\ answer'.d = d
        /\ answer'.status = status /\ answer'.about = about /\ answer'.shown = shown
    BY <1>1
  <1>3. CASE status # "no_data"
    BY <1>2, <1>3 DEF NoDataIsNothing
  <1>4. CASE status = "no_data"
    <2>1. NoDataRight(answer'.tool, answer'.q, answer'.d, answer'.about, answer'.shown)
      BY <1>2, <1>4
    <2> QED  BY <2>1 DEF NoDataIsNothing, NoDataRight
  <1> QED  BY <1>3, <1>4

LEMMA NoDataRefused ==
    ASSUME NEW tool, NEW q, NEW d, NotAvailable(tool, q, d)
    PROVE  NoDataIsNothing'
  BY NoDataEnvelope DEF NotAvailable

(* An empty roster of a department one may see means that no one listed is  *)
(* in scope.                                                                *)
LEMMA EmptyRoster ==
    ASSUME NEW q \in ScopeQuestions, NEW listing \in Listings,
           NEW department \in {None} \cup Visible(q),
           Roster(q.account, q.okk, listing, department).rows = {}
    PROVE  {e \in listing.listed : InScope(q.account, q.okk, e, department)} = {}
  <1>1. CASE NothingGranted(q.account)
    BY <1>1, InScopeExact, VisibleGranted
  <1>2. CASE ~NothingGranted(q.account)
    BY <1>2 DEF Roster, Visible
  <1> QED  BY <1>1, <1>2

LEMMA PlainNoData ==
    ASSUME NEW q \in ScopeQuestions, NEW d,
           \/ GetAccessContext(q, d) \/ ListSupervisors(q, d) \/ CompareDepartments(q, d)
           \/ GetOverviewStatistics(q, d) \/ GetDepartmentStatistics(q, d)
           \/ GetEmployeeCard(q, d) \/ CompareEmployees(q, d) \/ GetScopeSums(q, d)
           \/ GetCallFilterOptions(q, d)
    PROVE  NoDataIsNothing'
  <1>1. ASSUME NEW tool \in {"access_context", "supervisors", "compare_departments", "overview",
                             "department", "card", "compare_employees", "sums", "filter_options"},
               NEW status, NEW about, NEW shown, status = "no_data" => shown = {},
               Envelope(tool, q, d, status, about, shown)
        PROVE  NoDataIsNothing'
    <2>1. status = "no_data" => NoDataRight(tool, q, d, about, shown)
      BY <1>1 DEF NoDataRight
    <2> QED  BY <1>1, <2>1, NoDataEnvelope
  <1>2. CASE GetAccessContext(q, d)
    BY <1>1, <1>2 DEF GetAccessContext
  <1>3. CASE ListSupervisors(q, d)
    BY <1>1, <1>3 DEF ListSupervisors
  <1>4. CASE CompareDepartments(q, d)
    BY <1>1, <1>4 DEF CompareDepartments
  <1>5. CASE GetOverviewStatistics(q, d)
    BY <1>1, <1>5, NoDataRefused DEF GetOverviewStatistics
  <1>6. CASE GetDepartmentStatistics(q, d)
    BY <1>1, <1>6, NoDataRefused DEF GetDepartmentStatistics
  <1>7. CASE GetEmployeeCard(q, d)
    BY <1>1, <1>7, NoDataRefused DEF GetEmployeeCard
  <1>8. CASE CompareEmployees(q, d)
    BY <1>1, <1>8, NoDataRefused DEF CompareEmployees
  <1>9. CASE GetScopeSums(q, d)
    BY <1>1, <1>9, NoDataRefused DEF GetScopeSums
  <1>10. CASE GetCallFilterOptions(q, d)
    BY <1>1, <1>10, NoDataRefused DEF GetCallFilterOptions
  <1> QED  BY <1>2, <1>3, <1>4, <1>5, <1>6, <1>7, <1>8, <1>9, <1>10

LEMMA EmployeesNoData ==
    ASSUME NEW q \in ScopeQuestions, NEW d, d.listing \in Listings, ListEmployees(q, d)
    PROVE  NoDataIsNothing'
  <1> DEFINE named == Named(q)
             team == Roster(q.account, q.okk, d.listing, named)
             status == IF team.rows = {} THEN "no_data"
                       ELSE IF ~team.whole \/ team.excluded > 0 THEN "partial" ELSE "ok"
  <1>1. \/ NotAvailable("employees", q, d)
        \/ Envelope("employees", q, d, status, About(named, None), team.rows)
    BY DEF ListEmployees
  <1>2. status = "no_data" => team.rows = {}
    OBVIOUS
  <1>3. named \in {None} \cup Visible(q)
    BY NamedExact
  <1> HIDE DEF status
  <1>4. status = "no_data" => NoDataRight("employees", q, d, About(named, None), team.rows)
    BY <1>2, <1>3, EmptyRoster DEF NoDataRight, About
  <1> QED  BY <1>1, <1>4, NoDataEnvelope, NoDataRefused

LEMMA PlanNoData ==
    ASSUME NEW q \in ScopeQuestions, NEW d, GetPlanFactStatistics(q, d)
    PROVE  NoDataIsNothing'
  <1> DEFINE answered == {x \in Targets(q) : d.plans[x].mode # "missing"}
             unset == answered = Targets(q) /\ \A x \in answered : d.plans[x].mode = "unset"
  <1>1. \/ NotAvailable("plan_fact", q, d)
        \/ \E status, about, shown :
             /\ status = "no_data" => unset
             /\ Envelope("plan_fact", q, d, status, about, shown)
    BY DEF GetPlanFactStatistics
  <1>2. \A about, shown : unset => NoDataRight("plan_fact", q, d, about, shown)
    BY DEF NoDataRight
  <1> HIDE DEF unset
  <1> QED  BY <1>1, <1>2, NoDataEnvelope, NoDataRefused

LEMMA CrmNoData ==
    ASSUME NEW q \in ScopeQuestions, NEW d, GetCrmStatistics(q, d)
    PROVE  NoDataIsNothing'
  <1> DEFINE rows == IF d.dated = None THEN Team(q, d.listing).rows
                     ELSE Team(q, d.listing).rows \cap d.dated
             counted == {e \in rows : CrmState(d.crm[e]) = "available"}
             missing == {e \in rows : Unusable(d.crm[e])}
             some == d.dated # None => rows # {}
             nothing == counted = {} /\ missing = {} /\ some
  <1>1. \/ NotAvailable("crm", q, d)
        \/ \E status, about, shown :
             /\ status = "no_data" => nothing /\ shown = {}
             /\ Envelope("crm", q, d, status, about, shown)
    BY DEF GetCrmStatistics
  <1>2. ASSUME nothing, NEW e \in rows PROVE d.crm[e] = "no_bitrix_id"
    BY <1>2 DEF CrmState, Unusable
  <1>3. \A about : nothing => NoDataRight("crm", q, d, about, {})
    BY <1>2 DEF NoDataRight
  <1> HIDE DEF nothing
  <1> QED  BY <1>1, <1>3, NoDataEnvelope, NoDataRefused

LEMMA GrowthNoData ==
    ASSUME NEW q \in ScopeQuestions, NEW d, GetGrowthInsights(q, d)
    PROVE  NoDataIsNothing'
  <1> DEFINE some == IF Scope(q).employee # None THEN Scope(q).employee \in d.evaluated
                     ELSE Targets(q) \cap d.evaluated # {}
  <1>1. \/ NotAvailable("growth", q, d)
        \/ /\ ~Scope(q).invalid
           /\ \E about, shown :
                Envelope("growth", q, d, IF some THEN "ok" ELSE "no_data", about, shown)
    BY DEF GetGrowthInsights
  <1>2. ~Scope(q).invalid => Scope(q).employee = q.person
    BY ScopeExact
  <1>3. \A about, shown :
           ~Scope(q).invalid /\ ~some => NoDataRight("growth", q, d, about, shown)
    BY <1>2 DEF NoDataRight
  <1>4. CASE NotAvailable("growth", q, d)
    BY <1>4, NoDataRefused
  <1>5. CASE some /\ \E about, shown : Envelope("growth", q, d, "ok", about, shown)
    BY <1>5, NoDataEnvelope
  <1>6. CASE /\ ~some /\ ~Scope(q).invalid
             /\ \E about, shown : Envelope("growth", q, d, "no_data", about, shown)
    BY <1>3, <1>6, NoDataEnvelope
  <1> QED  BY <1>1, <1>4, <1>5, <1>6

LEMMA NoDataStep ==
    ASSUME ReportNext
    PROVE  NoDataIsNothing'
  <1>1. \A q \in Scopes \cup ReportScopes \cup NoOne(Scopes) \cup NoOne(ReportScopes) :
           q \in ScopeQuestions
    BY ReportsAssumption DEF NoOne
  <1>2. \A listing \in Listed : listing \in Listings
    BY ReportsAssumption
  <1>3. ASSUME NEW q \in ScopeQuestions, NEW d \in [listing : Listed], ListEmployees(q, d)
        PROVE  NoDataIsNothing'
    BY <1>2, <1>3, EmployeesNoData
  <1> QED
    BY <1>1, <1>3, PlainNoData, PlanNoData, CrmNoData, GrowthNoData DEF ReportNext

-------------------------------------------------------------------------------

LEMMA CallStep ==
    ASSUME CallNext
    PROVE  CallStepRight /\ PhoneAnswerExact'
  <1>1. \A q \in CallScopes : q \in ScopeQuestions
    BY CallsAssumption
  <1>2. \A q \in SupervisorQuestions : q \in ScopeQuestions /\ q.person # None
    BY <1>1 DEF SupervisorQuestions
  <1>3. answer'.tool # "phone_records" => PhoneAnswerExact'
    BY DEF PhoneAnswerExact, PhoneCountExact, NumberFoundHoweverWritten, PhoneTool
  <1>4. CASE \E q \in CallScopes, d \in OkkPages \cup ScenarioPages : ListCallTranscripts(q, d)
    <2>1. answer'.tool = "list_calls"
      BY <1>4 DEF ListCallTranscripts, NotAvailable, Envelope
    <2> QED  BY <1>1, <1>3, <1>4, <2>1, ListCallsRight
  <1>5. CASE \E q \in CallScopes, d \in OkkPages \cup ScenarioPages : SearchCallTranscripts(q, d)
    <2>1. answer'.tool = "search_calls"
      BY <1>5 DEF SearchCallTranscripts, NotAvailable, Envelope
    <2> QED  BY <1>1, <1>3, <1>5, <2>1, SearchCallsRight
  <1>6. CASE \E q \in CallScopes, d \in OneCall : GetCallTranscript(q, d)
    <2>1. answer'.tool = "open_call"
      BY <1>6 DEF GetCallTranscript, NotAvailable, Envelope
    <2> QED  BY <1>1, <1>3, <1>6, <2>1, OpenCallRight
  <1>7. ASSUME NEW q \in SupervisorQuestions, NEW d,
               \/ GetSupervisorCallStatistics(q, d) \/ ListSupervisorCallTranscripts(q, d)
               \/ SearchSupervisorCallTranscripts(q, d) \/ GetSupervisorCallTranscript(q, d)
        PROVE  CallStepRight /\ PhoneAnswerExact'
    <2>1. answer'.tool \in PersonalTools
      BY <1>7 DEF GetSupervisorCallStatistics, ListSupervisorCallTranscripts,
         SearchSupervisorCallTranscripts, GetSupervisorCallTranscript, NotAvailable, Envelope,
         PersonalTools
    <2>2. answer'.tool # "phone_records"
      BY <2>1 DEF PersonalTools
    <2> QED  BY <1>2, <1>3, <1>7, <2>2, SupervisorRight
  <1>8. CASE \E q \in CallScopes, d \in LookupRows : ListCallPhoneRecords(q, d)
    BY <1>1, <1>8, LookupScope, LookupExact
  <1> HIDE DEF CallStepRight
  <1> QED  BY <1>4, <1>5, <1>6, <1>7, <1>8 DEF CallNext, LookupRows

-------------------------------------------------------------------------------

(* What "ok" promises, tool by tool.                                        *)
WholeRight(tool, q, d, about, shown) ==
    LET whole == d.listing.whole /\ \A e \in d.listing.listed : e \in shown \/
                     InScope(q.account, q.okk, e, about.department)
        kept(rows) == rows.of \subseteq shown /\ rows.misnamed = {}
    IN /\ tool = "overview" =>
             about.department = None \/ d.rows.of = {} \/ (whole /\ kept(d.rows))
       /\ tool = "department" =>
             whole /\ kept(d.rows) /\ kept(d.trends) /\ d.plan # None /\ kept(d.plan)
       /\ tool = "employees" => d.listing.whole /\ d.listing.listed = shown
       /\ tool = "plan_fact" =>
             \A x \in Targets(q) : d.plans[x].mode # "missing" /\ kept(d.plans[x].rows)
       /\ tool = "crm" =>
             /\ Team(q, d.listing).whole
             /\ \A e \in Team(q, d.listing).rows : e \in shown \/ d.crm[e] = "no_bitrix_id"

LEMMA WholeEnvelope ==
    ASSUME NEW tool, NEW q, NEW d, NEW status, NEW about, NEW shown,
           Envelope(tool, q, d, status, about, shown),
           status = "ok" => WholeRight(tool, q, d, about, shown)
    PROVE  OkMeansWhole'
  <1>1. answer' = [tool |-> tool, q |-> q, d |-> d,
                   status |-> status, about |-> about, shown |-> shown]
    BY DEF Envelope
  <1>2. /\ answer'.tool = tool /\ answer'.q = q /\ answer'.d = d
        /\ answer'.status = status /\ answer'.about = about /\ answer'.shown = shown
    BY <1>1
  <1>3. CASE status # "ok"
    BY <1>2, <1>3 DEF OkMeansWhole
  <1>4. CASE status = "ok"
    <2>1. WholeRight(answer'.tool, answer'.q, answer'.d, answer'.about, answer'.shown)
      BY <1>2, <1>4
    <2> QED  BY <2>1 DEF OkMeansWhole, WholeRight
  <1> QED  BY <1>3, <1>4

LEMMA WholeRefused ==
    ASSUME NEW tool, NEW q, NEW d, NotAvailable(tool, q, d)
    PROVE  OkMeansWhole'
  BY WholeEnvelope DEF NotAvailable

(* Where the counts of removed and renamed rows are zero, every row of OKK  *)
(* is kept and none is under another name.                                  *)
LEMMA GroundedWhole ==
    ASSUME NEW rows \in PeopleRows, NEW team,
           ~(Grounded(rows, team).removed + Grounded(rows, team).renamed > 0)
    PROVE  /\ Grounded(rows, team).kept = rows.of
           /\ rows.of \subseteq team
           /\ rows.misnamed = {}
  <1> DEFINE away == rows.of \ team
             other == rows.of \cap team \cap rows.misnamed
  <1>1. /\ rows.of \subseteq People /\ rows.misnamed \subseteq rows.of
        /\ IsFiniteSet(away) /\ IsFiniteSet(other)
    <2>1. rows.of \subseteq People /\ rows.misnamed \subseteq rows.of
      BY DEF PeopleRows
    <2> QED  BY <2>1, FS_Subset, NamesAssumption
  <1>2. Cardinality(away) = 0 /\ Cardinality(other) = 0
    <2>1. Cardinality(away) \in Nat /\ Cardinality(other) \in Nat
      BY <1>1, FS_CardinalityType
    <2>2. ~(Cardinality(away) + Cardinality(other) > 0)
      BY DEF Grounded
    <2> HIDE DEF away, other
    <2> QED  BY <2>1, <2>2
  <1>3. away = {} /\ other = {}
    BY <1>1, <1>2, FS_EmptySet
  <1> QED  BY <1>1, <1>3 DEF Grounded

(* A roster that excludes no one has everybody OKK lists.                   *)
LEMMA RosterWhole ==
    ASSUME NEW q \in ScopeQuestions, NEW listing \in Listings,
           NEW department \in {None} \cup Visible(q), ~NothingGranted(q.account)
    PROVE  LET team == Roster(q.account, q.okk, listing, department)
           IN /\ team.whole = listing.whole
              /\ team.excluded \in Nat
              /\ ~(team.excluded > 0) =>
                    /\ team.rows = listing.listed
                    /\ \A e \in listing.listed : InScope(q.account, q.okk, e, department)
  <1> DEFINE rows == {e \in listing.listed : InScope(q.account, q.okk, e, department)}
             away == listing.listed \ rows
             team == Roster(q.account, q.okk, listing, department)
  <1>1. team = [rows |-> rows, whole |-> listing.whole, excluded |-> Cardinality(away)]
    BY VisibleGranted DEF Roster, Visible
  <1>2. IsFiniteSet(away)
    BY FS_Subset, NamesAssumption DEF Listings
  <1>3. Cardinality(away) \in Nat /\ (Cardinality(away) = 0 => away = {})
    BY <1>2, FS_CardinalityType, FS_EmptySet
  <1>4. away = {} => /\ rows = listing.listed
                     /\ \A e \in listing.listed : InScope(q.account, q.okk, e, department)
    OBVIOUS
  <1> HIDE DEF away, rows, team
  <1>5. team.rows = rows /\ team.whole = listing.whole /\ team.excluded = Cardinality(away)
    BY <1>1
  <1> QED  BY <1>3, <1>4, <1>5 DEF team

LEMMA OverviewWhole ==
    ASSUME NEW q \in ScopeQuestions, NEW d, d.listing \in Listings, d.rows \in PeopleRows,
           GetOverviewStatistics(q, d)
    PROVE  OkMeansWhole'
  <1> DEFINE named == Named(q)
             team == Roster(q.account, q.okk, d.listing, named)
             ranking == Grounded(d.rows, team.rows)
             gap == d.rows.of # {} /\ \/ ~team.whole
                                      \/ team.excluded + ranking.removed + ranking.renamed > 0
  <1>1. \/ NotAvailable("overview", q, d)
        \/ Envelope("overview", q, d, "no_data", Everything, {})
        \/ Envelope("overview", q, d, "ok", Everything, d.rows.of)
        \/ /\ named # None
           /\ Envelope("overview", q, d, IF gap THEN "partial" ELSE "ok",
                       About(named, None), ranking.kept)
    BY DEF GetOverviewStatistics
  <1>2. WholeRight("overview", q, d, Everything, d.rows.of)
    BY DEF WholeRight, Everything, About
  <1>3. ASSUME named # None, ~gap
        PROVE  WholeRight("overview", q, d, About(named, None), ranking.kept)
    <2>1. CASE d.rows.of = {}
      BY <2>1 DEF WholeRight
    <2>2. CASE d.rows.of # {}
      <3>1. named \in Visible(q) /\ ~NothingGranted(q.account)
        BY <1>3, NamedExact, VisibleGranted
      <3>2. /\ team.whole = d.listing.whole /\ team.excluded \in Nat
            /\ ~(team.excluded > 0) =>
                  \A e \in d.listing.listed : InScope(q.account, q.okk, e, named)
        BY <3>1, RosterWhole
      <3>3. ranking.removed \in Nat /\ ranking.renamed \in Nat
        <4>1. d.rows.of \subseteq People
          BY DEF PeopleRows
        <4>2. \A S : IsFiniteSet(d.rows.of \cap S) /\ IsFiniteSet(d.rows.of \ S)
          BY <4>1, FS_Subset, NamesAssumption
        <4>3. IsFiniteSet((d.rows.of \cap team.rows) \cap d.rows.misnamed)
          BY <4>2, FS_Subset
        <4> QED  BY <4>2, <4>3, FS_CardinalityType DEF Grounded
      <3>4. team.whole /\ ~(team.excluded + ranking.removed + ranking.renamed > 0)
        BY <1>3, <2>2
      <3> HIDE DEF team
      <3>5. ~(team.excluded > 0) /\ ~(ranking.removed + ranking.renamed > 0)
        <4> HIDE DEF ranking
        <4> QED  BY <3>2, <3>3, <3>4
      <3>6. ranking.kept = d.rows.of /\ d.rows.misnamed = {}
        BY <3>5, GroundedWhole
      <3> QED  BY <3>2, <3>4, <3>5, <3>6 DEF WholeRight, About
    <2> QED  BY <2>1, <2>2
  <1> HIDE DEF gap, ranking
  <1> QED  BY <1>1, <1>2, <1>3, WholeEnvelope, WholeRefused

LEMMA DepartmentWhole ==
    ASSUME NEW q \in ScopeQuestions, NEW d, d.listing \in Listings,
           d.rows \in PeopleRows, d.trends \in PeopleRows, d.plan \in PeopleRows \cup {None},
           GetDepartmentStatistics(q, d)
    PROVE  OkMeansWhole'
  <1> DEFINE named == Named(q)
             team == Roster(q.account, q.okk, d.listing, named)
             sources == {d.rows, d.trends} \cup ({d.plan} \ {None})
             lost == {s \in sources : LET g == Grounded(s, team.rows) IN g.removed + g.renamed > 0}
             gap == ~team.whole \/ team.excluded > 0 \/ lost # {} \/ d.plan = None
             shown == UNION {Grounded(s, team.rows).kept : s \in sources}
  <1>1. \/ NotAvailable("department", q, d)
        \/ /\ named # None
           /\ Envelope("department", q, d, IF gap THEN "partial" ELSE "ok",
                       About(named, None), shown)
    BY DEF GetDepartmentStatistics
  <1>2. ASSUME named # None, ~gap
        PROVE  WholeRight("department", q, d, About(named, None), shown)
    <2>1. named \in Visible(q) /\ ~NothingGranted(q.account)
      BY <1>2, NamedExact, VisibleGranted
    <2>2. d.listing.whole /\ \A e \in d.listing.listed : InScope(q.account, q.okk, e, named)
      BY <1>2, <2>1, RosterWhole
    <2>3. ASSUME NEW s \in sources PROVE s.of \subseteq shown /\ s.misnamed = {}
      <3>1. s \in PeopleRows
        BY <2>3
      <3>2. ~(Grounded(s, team.rows).removed + Grounded(s, team.rows).renamed > 0)
        BY <1>2, <2>3
      <3>3. Grounded(s, team.rows).kept = s.of /\ s.misnamed = {}
        BY <3>1, <3>2, GroundedWhole
      <3> QED  BY <2>3, <3>3
    <2>4. d.plan # None /\ d.rows \in sources /\ d.trends \in sources /\ d.plan \in sources
      BY <1>2
    <2> HIDE DEF shown, sources
    <2> QED  BY <2>2, <2>3, <2>4 DEF WholeRight, About
  <1> HIDE DEF gap, shown
  <1> QED  BY <1>1, <1>2, WholeEnvelope, WholeRefused

LEMMA EmployeesWhole ==
    ASSUME NEW q \in ScopeQuestions, NEW d, d.listing \in Listings, ListEmployees(q, d)
    PROVE  OkMeansWhole'
  <1> DEFINE named == Named(q)
             team == Roster(q.account, q.okk, d.listing, named)
             status == IF team.rows = {} THEN "no_data"
                       ELSE IF ~team.whole \/ team.excluded > 0 THEN "partial" ELSE "ok"
  <1>1. \/ NotAvailable("employees", q, d)
        \/ Envelope("employees", q, d, status, About(named, None), team.rows)
    BY DEF ListEmployees
  <1>2. status = "ok" => team.rows # {} /\ team.whole /\ ~(team.excluded > 0)
    OBVIOUS
  <1>3. named \in {None} \cup Visible(q)
    BY NamedExact
  <1>4. NothingGranted(q.account) => team.rows = {}
    BY DEF Roster
  <1>5. status = "ok" => d.listing.whole /\ team.rows = d.listing.listed
    <2> HIDE DEF status
    <2> QED  BY <1>2, <1>3, <1>4, RosterWhole
  <1> HIDE DEF status, team
  <1>6. status = "ok" => WholeRight("employees", q, d, About(named, None), team.rows)
    BY <1>5 DEF WholeRight
  <1> QED  BY <1>1, <1>6, WholeEnvelope, WholeRefused

LEMMA PlanWhole ==
    ASSUME NEW q \in ScopeQuestions, NEW d, \A x \in Targets(q) : d.plans[x].rows \in PeopleRows,
           GetPlanFactStatistics(q, d)
    PROVE  OkMeansWhole'
  <1> DEFINE team == Team(q, d.listing)
             people(x) == {e \in team.rows : EmployeeDepartment(q.account, q.okk, e) = x}
             answered == {x \in Targets(q) : d.plans[x].mode # "missing"}
             plan(x) == Grounded(d.plans[x].rows, people(x))
             shown == UNION {plan(x).kept : x \in answered}
             exact == /\ answered = Targets(q)
                      /\ \A x \in answered : ~(plan(x).removed + plan(x).renamed > 0)
  <1>1. \/ NotAvailable("plan_fact", q, d)
        \/ \E status, about :
             /\ status = "ok" => exact
             /\ Envelope("plan_fact", q, d, status, about, shown)
    BY DEF GetPlanFactStatistics
  <1>2. ASSUME exact, NEW about PROVE WholeRight("plan_fact", q, d, about, shown)
    <2>1. ASSUME NEW x \in Targets(q)
          PROVE  /\ d.plans[x].mode # "missing"
                 /\ d.plans[x].rows.of \subseteq shown /\ d.plans[x].rows.misnamed = {}
      <3>1. x \in answered /\ ~(plan(x).removed + plan(x).renamed > 0)
        BY <1>2, <2>1
      <3>2. plan(x).kept = d.plans[x].rows.of /\ d.plans[x].rows.misnamed = {}
        BY <2>1, <3>1, GroundedWhole
      <3> QED  BY <3>1, <3>2
    <2> HIDE DEF shown
    <2> QED  BY <2>1 DEF WholeRight
  <1> HIDE DEF exact, shown
  <1> QED  BY <1>1, <1>2, WholeEnvelope, WholeRefused

LEMMA CrmWhole ==
    ASSUME NEW q \in ScopeQuestions, NEW d, GetCrmStatistics(q, d)
    PROVE  OkMeansWhole'
  <1> DEFINE team == Team(q, d.listing)
             rows == IF d.dated = None THEN team.rows ELSE team.rows \cap d.dated
             counted == {e \in rows : CrmState(d.crm[e]) = "available"}
             missing == {e \in rows : Unusable(d.crm[e])}
             exact == d.dated = None /\ missing = {} /\ team.whole
  <1>1. \/ NotAvailable("crm", q, d)
        \/ \E status, about, shown :
             /\ status = "ok" => exact /\ shown = counted
             /\ Envelope("crm", q, d, status, about, shown)
    BY DEF GetCrmStatistics
  <1>2. ASSUME exact, NEW e \in team.rows PROVE e \in counted \/ d.crm[e] = "no_bitrix_id"
    BY <1>2 DEF CrmState, Unusable
  <1>3. exact => team.whole
    OBVIOUS
  <1>4. \A about : exact => WholeRight("crm", q, d, about, counted)
    <2> HIDE DEF exact, counted
    <2> QED  BY <1>2, <1>3 DEF WholeRight
  <1> HIDE DEF exact, counted
  <1> QED  BY <1>1, <1>4, WholeEnvelope, WholeRefused

(* The reports whose "ok" makes no such promise.                            *)
LEMMA PlainWhole ==
    ASSUME NEW q, NEW d,
           \/ GetAccessContext(q, d) \/ ListSupervisors(q, d) \/ CompareDepartments(q, d)
           \/ GetEmployeeCard(q, d) \/ CompareEmployees(q, d) \/ GetScopeSums(q, d)
           \/ GetCallFilterOptions(q, d) \/ GetGrowthInsights(q, d)
    PROVE  OkMeansWhole'
  <1>1. PICK tool \in {"access_context", "supervisors", "compare_departments", "card",
                       "compare_employees", "sums", "filter_options", "growth"} :
           \/ NotAvailable(tool, q, d)
           \/ \E status, about, shown : Envelope(tool, q, d, status, about, shown)
    BY DEF GetAccessContext, ListSupervisors, CompareDepartments, GetEmployeeCard, CompareEmployees,
       GetScopeSums, GetCallFilterOptions, GetGrowthInsights
  <1>2. \A about, shown : WholeRight(tool, q, d, about, shown)
    BY DEF WholeRight
  <1> QED  BY <1>1, <1>2, WholeEnvelope, WholeRefused

LEMMA WholeStep ==
    ASSUME ReportNext
    PROVE  OkMeansWhole'
  <1>1. \A q \in Scopes \cup ReportScopes \cup NoOne(Scopes) \cup NoOne(ReportScopes) :
           q \in ScopeQuestions
    BY ReportsAssumption DEF NoOne
  <1>2. /\ \A listing \in Listed : listing \in Listings
        /\ \A rows \in Reported : rows \in PeopleRows
        /\ \A report \in Plans : report.rows \in PeopleRows
    BY ReportsAssumption DEF PlanReports
  <1>3. ASSUME NEW q \in ScopeQuestions, NEW d \in [listing : Listed], ListEmployees(q, d)
        PROVE  OkMeansWhole'
    BY <1>2, <1>3, EmployeesWhole
  <1>4. ASSUME NEW q \in ScopeQuestions, NEW d \in [listing : Listed, rows : Reported],
               GetOverviewStatistics(q, d)
        PROVE  OkMeansWhole'
    BY <1>2, <1>4, OverviewWhole
  <1>5. ASSUME NEW q \in ScopeQuestions,
               NEW d \in [listing : Listed, rows : Reported, trends : Reported,
                          plan : Reported \cup {None}],
               GetDepartmentStatistics(q, d)
        PROVE  OkMeansWhole'
    BY <1>2, <1>5, DepartmentWhole
  <1>6. ASSUME NEW q \in ScopeQuestions,
               NEW d \in [listing : Listed, plans : [Departments -> Plans]],
               GetPlanFactStatistics(q, d)
        PROVE  OkMeansWhole'
    <2>1. CASE ~Scope(q).invalid
      <3>1. Targets(q) \subseteq Departments
        BY <2>1, TargetsRight, VisibleGranted
      <3> QED  BY <1>2, <1>6, <3>1, PlanWhole
    <2>2. CASE Scope(q).invalid
      <3>1. NotAvailable("plan_fact", q, d)
        BY <1>6, <2>2 DEF GetPlanFactStatistics
      <3> QED  BY <3>1, WholeRefused
    <2> QED  BY <2>1, <2>2
  <1> QED
    BY <1>1, <1>3, <1>4, <1>5, <1>6, PlainWhole, CrmWhole DEF ReportNext

-------------------------------------------------------------------------------

(* The least of some natural numbers is one of them.                        *)
LEMMA FirstOf ==
    ASSUME NEW S \in SUBSET Nat, S # {}
    PROVE  Min(S) \in S
  <1> DEFINE R == OpToRel(<, Nat)
  <1>1. IsWellFoundedOn(R, Nat)
    BY NatLessThanWellFounded
  <1>2. \A x, y \in Nat : <<y, x>> \in R <=> y < x
    BY DEF OpToRel
  <1> HIDE DEF R
  <1>3. PICK m \in S : \A y \in S : ~(<<y, m>> \in R)
    BY <1>1, WFMin
  <1>4. \A y \in S : m <= y
    <2> TAKE y \in S
    <2>1. ~(y < m)
      BY <1>2, <1>3
    <2> QED  BY <2>1
  <1> QED  BY <1>3, <1>4 DEF Min

(* The code of a readable version: that of the catalog, or its id, or, for  *)
(* an archived one, the code OKK shows on one of its calls.                 *)
ListedCode(catalog, v) == IF catalog[v].code # None THEN catalog[v].code ELSE v
CodedOn(calls, v) == {i \in DOMAIN calls : calls[i].version = v /\ calls[i].code # None}

LEMMA CodesExact ==
    ASSUME NEW readable, NEW catalog, NEW calls, DOMAIN calls \subseteq Nat
    PROVE  LET codes == VersionCodes(readable, catalog, calls)
           IN /\ DOMAIN codes = readable
              /\ \A v \in readable :
                   IF ~catalog[v].current /\ CodedOn(calls, v) # {}
                   THEN \E i \in CodedOn(calls, v) : codes[v] = calls[i].code
                   ELSE codes[v] = ListedCode(catalog, v)
  <1> DEFINE codes == VersionCodes(readable, catalog, calls)
             first(v) == Min(CodedOn(calls, v))
  <1>1. codes = [v \in readable |->
                   IF ~catalog[v].current /\ CodedOn(calls, v) # {} THEN calls[first(v)].code
                   ELSE ListedCode(catalog, v)]
    BY DEF VersionCodes, CodedOn, ListedCode
  <1>2. \A v : CodedOn(calls, v) # {} => first(v) \in CodedOn(calls, v)
    <2>1. \A v : CodedOn(calls, v) \in SUBSET Nat
      BY DEF CodedOn
    <2> QED  BY <2>1, FirstOf
  <1> HIDE DEF codes, first
  <1>3. DOMAIN codes = readable
    BY <1>1
  <1>4. ASSUME NEW v \in readable
        PROVE  IF ~catalog[v].current /\ CodedOn(calls, v) # {}
               THEN \E i \in CodedOn(calls, v) : codes[v] = calls[i].code
               ELSE codes[v] = ListedCode(catalog, v)
    BY <1>1, <1>2
  <1> QED  BY <1>3, <1>4 DEF codes

(* A journal is a finite sequence.                                          *)
LEMMA JournalIsSeq ==
    ASSUME NEW S, NEW calls \in BoundedSeq(S, MaxCalls)
    PROVE  /\ calls \in Seq(S)
           /\ Len(calls) \in Nat /\ DOMAIN calls = 1..Len(calls)
           /\ \A i \in DOMAIN calls : calls[i] \in S
  <1>1. PICK m \in 0..MaxCalls : calls \in [1..m -> S]
    BY DEF BoundedSeq, SeqOf
  <1>2. m \in Nat
    BY ScenariosAssumption
  <1>3. calls \in Seq(S)
    BY <1>1, <1>2
  <1> QED  BY <1>3

(* The versions a scenario is read with.                                    *)
LEMMA TranscriptScopeExact ==
    ASSUME NEW q \in ScopeQuestions, NEW catalog, NEW scenario, scenario # None,
           ~TranscriptScope(q, catalog, scenario).invalid
    PROVE  LET rows == TranscriptScope(q, catalog, scenario).rows
           IN scenario \in rows /\ rows \subseteq Readable(q, catalog, None, TRUE)
  <1> DEFINE listed == Readable(q, catalog, Scope(q).department, TRUE)
  <1>1. TranscriptScope(q, catalog, scenario).rows \in {{}, listed}
    BY DEF TranscriptScope
  <1>2. /\ TranscriptScope(q, catalog, scenario).rows = listed
        /\ scenario \in listed
    BY DEF TranscriptScope
  <1>3. listed \subseteq Readable(q, catalog, None, TRUE)
    BY DEF Readable
  <1> QED  BY <1>2, <1>3

-------------------------------------------------------------------------------

(* The codes a page of a scenario goes by, and the calls it is cut from.    *)
PageCodes(q, d) ==
    VersionCodes(TranscriptScope(q, d.catalog, d.scenario).rows, d.catalog, d.calls)
Chosen(q, d) ==
    {i \in DOMAIN d.calls : /\ d.calls[i].version # None
                            /\ CallCode(d.calls[i], PageCodes(q, d)) = PageCodes(q, d)[d.scenario]}
Unplaceable(q, d) ==
    {i \in DOMAIN d.calls : /\ d.calls[i].version # None
                            /\ CallCode(d.calls[i], PageCodes(q, d)) = None}
Rank(q, d, i) == Cardinality({j \in Chosen(q, d) : j < i})

LEMMA ScenarioPageExact ==
    ASSUME NEW q, NEW d, d.scenario # None
    PROVE  /\ Page(q, d).rows = {i \in Chosen(q, d) : Rank(q, d, i) \div d.size = d.page - 1}
           /\ Page(q, d).excluded = Unplaceable(q, d)
           /\ Page(q, d).whole = d.whole
  BY DEF Page, ScenarioPage, CallsOfScenario, Chosen, Unplaceable, PageCodes, Rank

LEMMA OtherPage ==
    ASSUME NEW q, NEW d \in ScenarioPages, d.scenario # None, NEW p
    PROVE  Page(q, [d EXCEPT !.page = p]).rows
             = {i \in Chosen(q, d) : Rank(q, d, i) \div d.size = p - 1}
  <1> DEFINE other == [d EXCEPT !.page = p]
  <1>1. /\ other.scenario = d.scenario /\ other.calls = d.calls /\ other.catalog = d.catalog
        /\ other.size = d.size /\ other.page = p
    BY DEF ScenarioPages
  <1> HIDE DEF other
  <1>2. PageCodes(q, other) = PageCodes(q, d)
    BY <1>1 DEF PageCodes
  <1>3. Chosen(q, other) = Chosen(q, d)
    BY <1>1, <1>2 DEF Chosen
  <1>4. \A i : Rank(q, other, i) = Rank(q, d, i)
    BY <1>3 DEF Rank
  <1>5. Page(q, other).rows =
           {i \in Chosen(q, other) : Rank(q, other, i) \div other.size = other.page - 1}
    BY <1>1, ScenarioPageExact
  <1>6. Page(q, other).rows = {i \in Chosen(q, d) : Rank(q, d, i) \div d.size = p - 1}
    BY <1>1, <1>3, <1>4, <1>5
  <1> QED  BY <1>6 DEF other

(* Each call of the scenario stands on one page, and on none beyond the     *)
(* number of calls.                                                         *)
LEMMA RankExact ==
    ASSUME NEW q, NEW d \in ScenarioPages, NEW i \in Chosen(q, d)
    PROVE  /\ Rank(q, d, i) \in Nat
           /\ Rank(q, d, i) \div d.size + 1 \in 1..Len(d.calls)
  <1> DEFINE before == {j \in Chosen(q, d) : j < i}
  <1>1. /\ Len(d.calls) \in Nat /\ DOMAIN d.calls = 1..Len(d.calls)
        /\ d.size \in Nat \ {0}
    BY JournalIsSeq, ScenariosAssumption DEF ScenarioPages, CallPages
  <1>2. i \in 1..Len(d.calls) /\ before \subseteq 1..i-1
    BY <1>1 DEF Chosen
  <1>3. IsFiniteSet(1..i-1) /\ Cardinality(1..i-1) = i - 1
    <2>1. 1 \in Int /\ i - 1 \in Int /\ i - 1 >= 0
      BY <1>1, <1>2
    <2>2. IsFiniteSet(1..i-1) /\ Cardinality(1..i-1) = IF 1 > i - 1 THEN 0 ELSE (i - 1) - 1 + 1
      BY <2>1, FS_Interval
    <2> QED  BY <2>1, <2>2
  <1>4. Cardinality(before) \in Nat /\ Cardinality(before) <= i - 1
    BY <1>2, <1>3, FS_Subset, FS_CardinalityType
  <1> DEFINE rank == Cardinality(before)
             size == d.size
  <1>5. rank \in Nat /\ size \in Nat \ {0} /\ rank <= i - 1 /\ i \in Nat
    BY <1>1, <1>2, <1>4
  <1> HIDE DEF before, rank, size
  <1>6. rank \div size \in Nat /\ rank \div size <= rank
    BY <1>5
  <1>7. rank \div size + 1 \in 1..Len(d.calls)
    BY <1>1, <1>2, <1>5, <1>6
  <1>8. Rank(q, d, i) = rank
    BY DEF Rank, rank, before
  <1> QED  BY <1>5, <1>7, <1>8 DEF size

(* A call OKK shows under a code keeps it, where OKK keeps to its list.     *)
LEMMA CodeKept ==
    ASSUME NEW q, NEW d \in ScenarioPages, ShownAsListed(d.calls, d.catalog),
           NEW i \in DOMAIN d.calls, d.calls[i].version # None, d.calls[i].code # None
    PROVE  CallCode(d.calls[i], PageCodes(q, d)) = d.calls[i].code
  <1> DEFINE codes == PageCodes(q, d)
             v == d.calls[i].version
             rows == TranscriptScope(q, d.catalog, d.scenario).rows
  <1>1. DOMAIN d.calls \subseteq Nat
    BY JournalIsSeq DEF ScenarioPages, CallPages
  <1>2. /\ DOMAIN codes = rows
        /\ \A w \in rows :
             IF ~d.catalog[w].current /\ CodedOn(d.calls, w) # {}
             THEN \E j \in CodedOn(d.calls, w) : codes[w] = d.calls[j].code
             ELSE codes[w] = ListedCode(d.catalog, w)
    BY <1>1, CodesExact DEF PageCodes
  <1>3. CASE v \notin rows
    BY <1>2, <1>3 DEF CallCode
  <1>4. CASE v \in rows
    <2>1. i \in CodedOn(d.calls, v)
      BY DEF CodedOn
    <2>2. CASE d.catalog[v].current
      BY <1>2, <1>4, <2>2 DEF CallCode, ListedCode, ShownAsListed
    <2>3. CASE ~d.catalog[v].current
      <3>1. PICK j \in CodedOn(d.calls, v) : codes[v] = d.calls[j].code
        BY <1>2, <1>4, <2>1, <2>3
      <3>2. d.calls[j].code = d.calls[i].code
        BY <3>1 DEF ShownAsListed, CodedOn
      <3> QED  BY <1>2, <1>4, <3>1, <3>2 DEF CallCode
    <2> QED  BY <2>2, <2>3
  <1> QED  BY <1>3, <1>4

(* What is said of one call of the answer to a question about a scenario.   *)
OnItsPage(q, d, i) ==
    LET pages == {p \in 1..Len(d.calls) : i \in Page(q, [d EXCEPT !.page = p]).rows}
    IN /\ Cardinality(pages) <= 1
       /\ pages = {} /\ d.calls[i].version # None =>
            /\ d.calls[i].version # d.scenario
            /\ /\ ShownAsListed(d.calls, d.catalog)
               /\ d.catalog[d.scenario].current /\ d.calls[i].code # None
               => d.calls[i].code # d.catalog[d.scenario].code

LEMMA EachOnItsPage ==
    ASSUME NEW q \in ScopeQuestions, NEW d \in ScenarioPages, d.scenario # None,
           ~TranscriptScope(q, d.catalog, d.scenario).invalid,
           NEW i \in DOMAIN d.calls
    PROVE  OnItsPage(q, d, i)
  <1> DEFINE pages == {p \in 1..Len(d.calls) : i \in Page(q, [d EXCEPT !.page = p]).rows}
             codes == PageCodes(q, d)
             rows == TranscriptScope(q, d.catalog, d.scenario).rows
             place == Rank(q, d, i) \div d.size + 1
  <1>1. pages = {p \in 1..Len(d.calls) :
                   i \in Chosen(q, d) /\ Rank(q, d, i) \div d.size = p - 1}
    <2>1. \A p : i \in Page(q, [d EXCEPT !.page = p]).rows
                 <=> i \in Chosen(q, d) /\ Rank(q, d, i) \div d.size = p - 1
      BY OtherPage
    <2> QED  BY <2>1
  <1>2. CASE i \notin Chosen(q, d)
    <2>1. pages = {}
      BY <1>1, <1>2
    <2>2. Cardinality(pages) = 0
      BY <2>1, FS_EmptySet
    <2>3. DOMAIN d.calls \subseteq Nat /\ d.scenario \in rows
      <3>1. DOMAIN d.calls \subseteq Nat
        BY JournalIsSeq DEF ScenarioPages, CallPages
      <3> QED  BY <3>1, TranscriptScopeExact
    <2>4. /\ DOMAIN codes = rows
          /\ (d.catalog[d.scenario].current => codes[d.scenario] = ListedCode(d.catalog, d.scenario))
      BY <2>3, CodesExact DEF PageCodes
    <2>5. ASSUME d.calls[i].version # None PROVE d.calls[i].version # d.scenario
      BY <1>2, <2>3, <2>4, <2>5 DEF Chosen, CallCode
    <2>6. ASSUME d.calls[i].version # None, ShownAsListed(d.calls, d.catalog),
                 d.catalog[d.scenario].current, d.calls[i].code # None
          PROVE  d.calls[i].code # d.catalog[d.scenario].code
      <3>1. CallCode(d.calls[i], codes) = d.calls[i].code
        BY <2>6, CodeKept
      <3>2. d.calls[i].code # codes[d.scenario]
        BY <1>2, <2>6, <3>1 DEF Chosen
      <3> QED  BY <2>4, <2>6, <3>2 DEF ListedCode
    <2> HIDE DEF pages
    <2>7. Cardinality(pages) <= 1
      BY <2>2
    <2> QED  BY <2>5, <2>6, <2>7 DEF OnItsPage, pages
  <1>3. CASE i \in Chosen(q, d)
    <2>1. place \in 1..Len(d.calls) /\ Rank(q, d, i) \div d.size \in Int
      <3>1. place \in 1..Len(d.calls) /\ Rank(q, d, i) \in Nat /\ d.size \in Nat \ {0}
        BY <1>3, RankExact, ScenariosAssumption DEF ScenarioPages
      <3> QED  BY <3>1
    <2> DEFINE quotient == Rank(q, d, i) \div d.size
    <2>2. \A p \in 1..Len(d.calls) : quotient = p - 1 <=> p = place
      <3>1. quotient \in Int
        BY <2>1
      <3> HIDE DEF quotient
      <3> QED  BY <3>1 DEF quotient
    <2>3. pages = {place}
      BY <1>1, <1>3, <2>1, <2>2
    <2>4. Cardinality(pages) = 1 /\ pages # {}
      BY <2>3, FS_Singleton
    <2> HIDE DEF pages
    <2>5. Cardinality(pages) <= 1
      BY <2>4
    <2> QED  BY <2>4, <2>5 DEF OnItsPage, pages
  <1> QED  BY <1>2, <1>3

-------------------------------------------------------------------------------

(* What an answer that leaves nothing out has to be. `rows` are the calls   *)
(* it shows.                                                                *)
AllRead(q, d) ==
    d.whole /\ \A i \in DOMAIN d.calls :
        d.calls[i].version # None =>
            d.calls[i].code # None \/ d.calls[i].version \in Readable(q, d.catalog, None, TRUE)

CompleteRight(tool, q, d, status, rows) ==
    /\ status = "ok" /\ tool # "list_calls" =>
          IF tool = "search_calls" THEN rows = Page(q, d).rows ELSE rows = DOMAIN d.calls
    /\ tool \in {"list_calls", "search_calls"} /\ d.scenario # None =>
          /\ status = "ok" => AllRead(q, d)
          /\ \A i \in DOMAIN d.calls : OnItsPage(q, d, i)

LEMMA CompleteEnvelope ==
    ASSUME NEW tool, NEW q, NEW d, NEW status, NEW about, NEW shown, NEW rows,
           Envelope(tool, q, d, status, about, shown),
           rows = IF tool = "phone_records" THEN shown.rows ELSE shown,
           status \in {"ok", "partial"} => CompleteRight(tool, q, d, status, rows)
    PROVE  OkLeavesNothingOut'
  <1>1. answer' = [tool |-> tool, q |-> q, d |-> d,
                   status |-> status, about |-> about, shown |-> shown]
    BY DEF Envelope
  <1>2. /\ answer'.tool = tool /\ answer'.q = q /\ answer'.d = d
        /\ answer'.status = status /\ answer'.shown = shown
    BY <1>1
  <1>3. CASE status \notin {"ok", "partial"}
    BY <1>2, <1>3 DEF OkLeavesNothingOut
  <1>4. CASE status \in {"ok", "partial"}
    <2>1. ShownCalls' = rows
      BY <1>2, <1>4 DEF ShownCalls, PhoneTool
    <2>2. tool = "search_calls" => answer'.shown = rows
      BY <1>2
    <2>3. CompleteRight(answer'.tool, answer'.q, answer'.d, answer'.status, ShownCalls')
      BY <1>2, <1>4, <2>1
    <2>4. answer'.tool = "search_calls" => answer'.shown = ShownCalls'
      BY <1>2, <2>1, <2>2
    <2> QED  BY <2>3, <2>4 DEF OkLeavesNothingOut, CompleteRight, AllRead, OnItsPage
  <1> QED  BY <1>3, <1>4

LEMMA CompleteRefused ==
    ASSUME NEW tool, NEW q, NEW d, NotAvailable(tool, q, d)
    PROVE  OkLeavesNothingOut'
  <1>1. answer'.status = "not_available"
    BY DEF NotAvailable, Envelope
  <1> QED  BY <1>1 DEF OkLeavesNothingOut

(* The tools that page OKK's journal or choose the calls of a scenario.     *)
LEMMA ScenarioRead ==
    ASSUME NEW q \in ScopeQuestions, NEW d \in OkkPages \cup ScenarioPages, d.scenario # None,
           ~TranscriptScope(q, d.catalog, d.scenario).invalid
    PROVE  /\ \A i \in DOMAIN d.calls : OnItsPage(q, d, i)
           /\ Page(q, d).whole /\ Page(q, d).excluded = {} => AllRead(q, d)
  <1>1. d \in ScenarioPages
    BY DEF OkkPages
  <1>2. \A i \in DOMAIN d.calls : OnItsPage(q, d, i)
    BY <1>1, EachOnItsPage
  <1>3. ASSUME Page(q, d).whole, Page(q, d).excluded = {} PROVE AllRead(q, d)
    <2> DEFINE codes == PageCodes(q, d)
               rows == TranscriptScope(q, d.catalog, d.scenario).rows
    <2>1. DOMAIN d.calls \subseteq Nat
      BY <1>1, JournalIsSeq DEF ScenarioPages, CallPages
    <2>2. DOMAIN codes = rows
      BY <2>1, CodesExact DEF PageCodes
    <2>3. d.whole /\ Unplaceable(q, d) = {}
      BY <1>3, ScenarioPageExact
    <2>4. ASSUME NEW i \in DOMAIN d.calls, d.calls[i].version # None, d.calls[i].code = None
          PROVE  d.calls[i].version \in rows
      <3>1. CallCode(d.calls[i], codes) # None
        BY <2>3, <2>4 DEF Unplaceable
      <3> QED  BY <2>2, <2>4, <3>1 DEF CallCode
    <2>5. rows \subseteq Readable(q, d.catalog, None, TRUE)
      BY TranscriptScopeExact
    <2> HIDE DEF rows
    <2> QED  BY <2>3, <2>4, <2>5 DEF AllRead
  <1> QED  BY <1>2, <1>3

LEMMA ListComplete ==
    ASSUME NEW q \in ScopeQuestions, NEW d \in OkkPages \cup ScenarioPages,
           ListCallTranscripts(q, d)
    PROVE  OkLeavesNothingOut'
  <1> DEFINE whole == Page(q, d).whole /\ Page(q, d).excluded = {}
  <1>1. \/ NotAvailable("list_calls", q, d)
        \/ /\ ~TranscriptScope(q, d.catalog, d.scenario).invalid
           /\ \E status, about, shown :
                (status = "ok" => whole) /\ Envelope("list_calls", q, d, status, about, shown)
    BY DEF ListCallTranscripts
  <1>2. ASSUME ~TranscriptScope(q, d.catalog, d.scenario).invalid,
               NEW status, NEW shown, status = "ok" => whole
        PROVE  CompleteRight("list_calls", q, d, status, shown)
    BY <1>2, ScenarioRead DEF CompleteRight
  <1> HIDE DEF whole
  <1> QED  BY <1>1, <1>2, CompleteEnvelope, CompleteRefused

LEMMA SearchComplete ==
    ASSUME NEW q \in ScopeQuestions, NEW d \in OkkPages \cup ScenarioPages,
           SearchCallTranscripts(q, d)
    PROVE  OkLeavesNothingOut'
  <1> DEFINE whole(shown) == /\ Page(q, d).whole /\ Page(q, d).excluded = {}
                             /\ shown = Page(q, d).rows
  <1>1. \/ NotAvailable("search_calls", q, d)
        \/ /\ ~TranscriptScope(q, d.catalog, d.scenario).invalid
           /\ \E status, about, shown :
                (status = "ok" => whole(shown)) /\ Envelope("search_calls", q, d, status, about, shown)
    BY DEF SearchCallTranscripts
  <1>2. ASSUME ~TranscriptScope(q, d.catalog, d.scenario).invalid,
               NEW status, NEW shown, status = "ok" => whole(shown)
        PROVE  CompleteRight("search_calls", q, d, status, shown)
    BY <1>2, ScenarioRead DEF CompleteRight
  <1> HIDE DEF whole
  <1> QED  BY <1>1, <1>2, CompleteEnvelope, CompleteRefused

(* The tools that answer about all rows of a page.                          *)
LEMMA RowsComplete ==
    ASSUME NEW tool \in PersonalTools \cup {"open_call"}, NEW q, NEW d,
           \/ NotAvailable(tool, q, d)
           \/ \E status, about, shown : /\ status = "ok" => shown = DOMAIN d.calls
                                        /\ Envelope(tool, q, d, status, about, shown)
    PROVE  OkLeavesNothingOut'
  <1>1. \A status, shown : (status = "ok" => shown = DOMAIN d.calls) =>
           CompleteRight(tool, q, d, status, shown)
    BY DEF CompleteRight, PersonalTools
  <1>2. tool # "phone_records"
    BY DEF PersonalTools
  <1> QED  BY <1>1, <1>2, CompleteEnvelope, CompleteRefused

(* The row that is opened is all of OKK's answer.                           *)
LEMMA OneCallRow ==
    ASSUME NEW d \in OneCall
    PROVE  d.calls # <<>> => DOMAIN d.calls = {1}
  <1>1. d.calls # <<>> => \E call \in PageCalls : d.calls = <<call>>
    BY DEF OneCall
  <1> QED  BY <1>1

LEMMA OpenComplete ==
    ASSUME NEW q, NEW d \in OneCall, GetCallTranscript(q, d)
    PROVE  OkLeavesNothingOut'
  <1>1. \/ NotAvailable("open_call", q, d)
        \/ d.calls # <<>> /\ \E status, about : Envelope("open_call", q, d, status, about, {1})
    BY DEF GetCallTranscript
  <1> QED  BY <1>1, OneCallRow, RowsComplete

LEMMA PersonalComplete ==
    ASSUME NEW q, NEW d,
           \/ GetSupervisorCallStatistics(q, d) \/ ListSupervisorCallTranscripts(q, d)
           \/ SearchSupervisorCallTranscripts(q, d)
           \/ d \in OneCall /\ GetSupervisorCallTranscript(q, d)
    PROVE  OkLeavesNothingOut'
  <1> DEFINE answered(tool) ==
               \/ NotAvailable(tool, q, d)
               \/ \E status, about, shown : /\ status = "ok" => shown = DOMAIN d.calls
                                            /\ Envelope(tool, q, d, status, about, shown)
  <1>1. CASE GetSupervisorCallStatistics(q, d)
    <2>1. answered("supervisor_statistics")
      BY <1>1 DEF GetSupervisorCallStatistics
    <2> QED  BY <2>1, RowsComplete DEF PersonalTools
  <1>2. CASE ListSupervisorCallTranscripts(q, d)
    <2>1. answered("list_supervisor_calls")
      BY <1>2 DEF ListSupervisorCallTranscripts
    <2> QED  BY <2>1, RowsComplete DEF PersonalTools
  <1>3. CASE SearchSupervisorCallTranscripts(q, d)
    <2>1. answered("search_supervisor_calls")
      BY <1>3 DEF SearchSupervisorCallTranscripts
    <2> QED  BY <2>1, RowsComplete DEF PersonalTools
  <1>4. CASE d \in OneCall /\ GetSupervisorCallTranscript(q, d)
    <2> DEFINE one == Open(d.calls, Personal(q, d.calls, {1} \cap DOMAIN d.calls, q.person))
    <2>1. one \subseteq DOMAIN d.calls
      BY DEF Open, Personal
    <2>2. \/ NotAvailable("open_supervisor_call", q, d)
          \/ /\ {1} = one
             /\ \E status, about : Envelope("open_supervisor_call", q, d, status, about, {1})
      BY <1>4 DEF GetSupervisorCallTranscript
    <2>3. {1} = one => DOMAIN d.calls = {1}
      <3>1. {1} = one => d.calls # <<>>
        <4> HIDE DEF one
        <4>1. DOMAIN <<>> = {}
          OBVIOUS
        <4>2. {1} = one => 1 \in DOMAIN d.calls
          BY <2>1
        <4> QED  BY <4>1, <4>2
      <3> QED  BY <1>4, <3>1, OneCallRow
    <2> HIDE DEF one
    <2>4. answered("open_supervisor_call")
      BY <2>2, <2>3
    <2> QED  BY <2>4, RowsComplete DEF PersonalTools
  <1> QED  BY <1>1, <1>2, <1>3, <1>4

LEMMA LookupComplete ==
    ASSUME NEW q, NEW d, ListCallPhoneRecords(q, d)
    PROVE  OkLeavesNothingOut'
  <1> DEFINE shown == Passed(q, d.calls, DOMAIN d.calls, LookupAbout(q, d))
  <1>1. \/ NotAvailable("phone_records", q, d)
        \/ \E status, about, rows, count :
             /\ status = "ok" => rows = DOMAIN d.calls
             /\ Envelope("phone_records", q, d, status, about, [rows |-> rows, count |-> count])
    BY DEF ListCallPhoneRecords
  <1>2. \A status, rows : (status = "ok" => rows = DOMAIN d.calls) =>
           CompleteRight("phone_records", q, d, status, rows)
    BY DEF CompleteRight
  <1>3. ASSUME NEW status, NEW about, NEW rows, NEW count, status = "ok" => rows = DOMAIN d.calls,
               Envelope("phone_records", q, d, status, about, [rows |-> rows, count |-> count])
        PROVE  OkLeavesNothingOut'
    BY <1>2, <1>3, CompleteEnvelope
  <1> QED  BY <1>1, <1>3, CompleteRefused

LEMMA CompleteStep ==
    ASSUME CallNext
    PROVE  OkLeavesNothingOut'
  <1>1. \A q \in CallScopes : q \in ScopeQuestions
    BY CallsAssumption
  <1> QED
    BY <1>1, PersonalComplete, ListComplete, SearchComplete, OpenComplete, LookupComplete DEF CallNext

-------------------------------------------------------------------------------

(* The parts of a report on scenarios.                                      *)
ReportRows(q, d) == Readable(q, d.catalog, Scope(q).department, d.requested # {})
ReportVersions(q, d) ==
    IF d.requested = {} THEN ReportRows(q, d) ELSE d.requested \cap ReportRows(q, d)
ReportDepartment(q, d) ==
    Inferred(q, d.catalog, ReportVersions(q, d), Scope(q).department)
ReportCalls(q, d) == JournalOf(d.calls, ReportDepartment(q, d))
ReportCodes(q, d) == VersionCodes(ReportRows(q, d), d.catalog, ReportCalls(q, d))
Wanted(q, d) == {ReportCodes(q, d)[v] : v \in ReportVersions(q, d)}

Scored(calls) == {i \in DOMAIN calls : calls[i].scored}
UnderCode(calls, codes, code) == {i \in Scored(calls) : CallCode(calls[i], codes) = code}
RateOf(q, d, code) ==
    LET group == UnderCode(ReportCalls(q, d), ReportCodes(q, d), code)
    IN PassRate(ReportCalls(q, d), group,
                SharedNorm({ReportCalls(q, d)[i].version : i \in group}, ReportRows(q, d), d.catalog))

LEMMA PerformanceExact ==
    ASSUME NEW q, NEW d
    PROVE  /\ Performance(q, d).effective = ReportVersions(q, d)
           /\ Performance(q, d).calls = ReportCalls(q, d)
           /\ Performance(q, d).about = About(ReportDepartment(q, d), Scope(q).employee)
           /\ Performance(q, d).excluded =
                Unplaced(ReportCalls(q, d), Scored(ReportCalls(q, d)), ReportCodes(q, d),
                         IF d.requested = {} THEN Wanted(q, d) ELSE Codes \cup Versions)
  BY DEF Performance, ReportRows, ReportVersions, ReportDepartment, ReportCalls, ReportCodes, Wanted,
     Scored

LEMMA GroupsExact ==
    ASSUME NEW q, NEW d
    PROVE  LET report == Performance(q, d)
           IN /\ DOMAIN report.groups = Wanted(q, d)
              /\ DOMAIN report.rates = Wanted(q, d)
              /\ \A code \in Wanted(q, d) :
                   /\ report.groups[code] = UnderCode(ReportCalls(q, d), ReportCodes(q, d), code)
                   /\ report.rates[code] = RateOf(q, d, code)
  <1> DEFINE report == Performance(q, d)
             group(code) == UnderCode(ReportCalls(q, d), ReportCodes(q, d), code)
             rate(code) == RateOf(q, d, code)
  <1>1. /\ report.groups = [name \in Wanted(q, d) |-> group(name)]
        /\ report.rates = [name \in Wanted(q, d) |-> rate(name)]
    BY DEF Performance, ReportRows, ReportVersions, ReportDepartment, ReportCalls, ReportCodes,
       Wanted, Scored, UnderCode, RateOf
  <1> HIDE DEF report, group, rate
  <1>2. /\ DOMAIN report.groups = Wanted(q, d) /\ DOMAIN report.rates = Wanted(q, d)
        /\ \A code \in Wanted(q, d) :
             report.groups[code] = group(code) /\ report.rates[code] = rate(code)
    BY <1>1
  <1> QED  BY <1>2 DEF report, group, rate

LEMMA JournalExact ==
    ASSUME NEW calls \in Journals, NEW department
    PROVE  /\ DOMAIN JournalOf(calls, department) \subseteq Nat
           /\ \A i \in DOMAIN JournalOf(calls, department) :
                JournalOf(calls, department)[i] \in CallRecords
  <1>1. /\ DOMAIN calls \subseteq Nat
        /\ \A i \in DOMAIN calls : calls[i] \in CallRecords
    BY JournalIsSeq, ScenariosAssumption DEF Journals
  <1> QED  BY <1>1 DEF JournalOf, Restrict

(* A version is called by a code or its own id, and its code is one that    *)
(* the catalog or OKK on its calls knows it under.                          *)
LEMMA CodesNamed ==
    ASSUME NEW readable \in SUBSET Versions, NEW catalog \in Catalogs, NEW calls,
           DOMAIN calls \subseteq Nat, \A i \in DOMAIN calls : calls[i] \in CallRecords,
           NEW v \in readable
    PROVE  LET code == VersionCodes(readable, catalog, calls)[v]
           IN /\ code \in Codes \cup Versions
              /\ code \in {v, catalog[v].code} \cup {calls[j].code : j \in CodedOn(calls, v)}
  <1> DEFINE codes == VersionCodes(readable, catalog, calls)
  <1>1. IF ~catalog[v].current /\ CodedOn(calls, v) # {}
        THEN \E i \in CodedOn(calls, v) : codes[v] = calls[i].code
        ELSE codes[v] = ListedCode(catalog, v)
    BY CodesExact
  <1>2. catalog[v].code \in Codes \cup {None} /\ v \in Versions
    BY ScenariosAssumption DEF VersionRows
  <1>3. \A i \in CodedOn(calls, v) : calls[i].code \in Codes
    BY DEF CodedOn, CallRecords
  <1> HIDE DEF codes
  <1>4. codes[v] \in Codes \cup Versions
    BY <1>1, <1>2, <1>3 DEF ListedCode
  <1>5. codes[v] \in {v, catalog[v].code} \cup {calls[j].code : j \in CodedOn(calls, v)}
    BY <1>1 DEF ListedCode
  <1> QED  BY <1>4, <1>5 DEF codes

LEMMA RowsAreVersions ==
    ASSUME NEW q, NEW catalog, NEW department, NEW archive
    PROVE  Readable(q, catalog, department, archive) \in SUBSET Versions
  BY DEF Readable

(* What is said of the evaluations of a report.                             *)
LandsRight(status, d, report) ==
    LET evaluated == Scored(report.calls)
        landed == {i \in evaluated : \E c \in DOMAIN report.groups : i \in report.groups[c]}
    IN /\ \A i \in landed : i \notin report.excluded /\
             Cardinality({c \in DOMAIN report.groups : i \in report.groups[c]}) = 1
       /\ d.requested = {} => landed \cup report.excluded = evaluated
       /\ \A i \in evaluated \ landed :
             \/ i \in report.excluded
             \/ (NamesOfCall(report.calls, d.catalog, i) \ DOMAIN report.groups)
                  \cap (Codes \cup Versions) # {}
       /\ status = "ok" /\ d.requested = {} => landed = evaluated

LEMMA PerformanceLands ==
    ASSUME NEW q, NEW d, d.catalog \in Catalogs, d.calls \in Journals, NEW status,
           status = "ok" => Performance(q, d).excluded = {}
    PROVE  LandsRight(status, d, Performance(q, d))
  <1> DEFINE report == Performance(q, d)
             calls == ReportCalls(q, d)
             codes == ReportCodes(q, d)
             rows == ReportRows(q, d)
             wanted == Wanted(q, d)
             evaluated == Scored(calls)
             landed == {i \in evaluated : \E c \in DOMAIN report.groups : i \in report.groups[c]}
             code(i) == CallCode(calls[i], codes)
  <1>1. /\ report.calls = calls
        /\ report.excluded = Unplaced(calls, evaluated, codes,
                                      IF d.requested = {} THEN wanted ELSE Codes \cup Versions)
    <2>1. report.calls = calls
      BY PerformanceExact
    <2>2. report.excluded = Unplaced(calls, evaluated, codes,
                                     IF d.requested = {} THEN wanted ELSE Codes \cup Versions)
      BY PerformanceExact, Zenon
    <2> QED  BY <2>1, <2>2
  <1>2. /\ DOMAIN report.groups = wanted
        /\ \A c \in wanted : report.groups[c] = {i \in evaluated : code(i) = c}
    <2>1. /\ DOMAIN report.groups = wanted
          /\ \A c \in wanted : report.groups[c] = UnderCode(calls, codes, c)
      BY GroupsExact
    <2> HIDE DEF report, wanted
    <2> QED  BY <2>1 DEF UnderCode
  <1>3. report.excluded = {i \in evaluated : code(i) \notin IF d.requested = {} THEN wanted
                                                           ELSE Codes \cup Versions}
    BY <1>1 DEF Unplaced
  <1>4. /\ DOMAIN calls \subseteq Nat /\ \A i \in DOMAIN calls : calls[i] \in CallRecords
        /\ rows \in SUBSET Versions
    BY JournalExact, RowsAreVersions DEF ReportCalls, ReportRows
  <1>5. /\ DOMAIN codes = rows
        /\ \A v \in rows : /\ codes[v] \in Codes \cup Versions
                            /\ codes[v] \in {v, d.catalog[v].code}
                                 \cup {calls[j].code : j \in CodedOn(calls, v)}
    BY <1>4, CodesExact, CodesNamed DEF ReportCodes
  <1>6. wanted \subseteq Codes \cup Versions
    BY <1>5 DEF Wanted, ReportVersions
  <1> HIDE DEF report, calls, codes, rows, wanted
  <1>7. landed = {i \in evaluated : code(i) \in wanted}
    BY <1>2
  <1>8. ASSUME NEW i \in landed
        PROVE  i \notin report.excluded /\
               Cardinality({c \in DOMAIN report.groups : i \in report.groups[c]}) = 1
    <2>1. {c \in DOMAIN report.groups : i \in report.groups[c]} = {code(i)}
      BY <1>2, <1>7, <1>8
    <2>2. i \notin report.excluded
      BY <1>3, <1>6, <1>7, <1>8
    <2> QED  BY <2>1, <2>2, FS_Singleton
  <1>9. d.requested = {} => landed \cup report.excluded = evaluated
    BY <1>3, <1>7
  <1>10. ASSUME NEW i \in evaluated \ landed, i \notin report.excluded
         PROVE  (NamesOfCall(calls, d.catalog, i) \ wanted) \cap (Codes \cup Versions) # {}
    <2>1. code(i) \notin wanted /\ code(i) \in Codes \cup Versions
      BY <1>3, <1>7, <1>9, <1>10
    <2>2. code(i) \in NamesOfCall(calls, d.catalog, i)
      <3> DEFINE v == calls[i].version
      <3>1. i \in DOMAIN calls
        BY DEF Scored
      <3>2. CASE v \in rows
        <4>1. code(i) \in {v, d.catalog[v].code} \cup {calls[j].code : j \in CodedOn(calls, v)}
          BY <1>5, <3>2 DEF CallCode
        <4>2. v # None
          BY <1>4, <3>2, ScenariosAssumption
        <4> QED  BY <4>1, <4>2 DEF NamesOfCall, CodedOn
      <3>3. CASE v \notin rows
        BY <1>5, <3>1, <3>3 DEF CallCode, NamesOfCall
      <3> QED  BY <3>2, <3>3
    <2> QED  BY <2>1, <2>2
  <1>11. status = "ok" /\ d.requested = {} => landed = evaluated
    <2>1. status = "ok" => report.excluded = {}
      BY DEF report
    <2> QED  BY <1>9, <2>1
  <1> HIDE DEF landed, evaluated
  <1>12. LandsRight(status, d, report)
    BY <1>1, <1>2, <1>8, <1>9, <1>10, <1>11 DEF LandsRight, landed, evaluated
  <1> QED  BY <1>12 DEF report

-------------------------------------------------------------------------------

(* The parts of a report on criteria: those that can be read, their keys    *)
(* across versions, the evaluations of the scenario, and what they show.    *)
OfScenario(d, codes, code) == d.scenario = None \/ code = codes[d.scenario]
ReadableIn(d, rows, codes) ==
    {i \in Criteria : VersionOf[i] \in rows /\ OfScenario(d, codes, codes[VersionOf[i]])}
KeyOf(codes, i) == <<codes[VersionOf[i]], IF CriterionCode[i] # None THEN CriterionCode[i] ELSE i>>
EffectiveIn(d, rows, codes) ==
    IF d.requested = {} THEN ReadableIn(d, rows, codes) ELSE d.requested \cap ReadableIn(d, rows, codes)
KeysIn(d, rows, codes) == {KeyOf(codes, i) : i \in EffectiveIn(d, rows, codes)}
PlacedIn(d, calls, codes) ==
    {c \in Scored(calls) : OfScenario(d, codes, CallCode(calls[c], codes))}
SeenIn(d, rows, calls, codes) ==
    {i \in ReadableIn(d, rows, codes) : /\ KeyOf(codes, i) \in KeysIn(d, rows, codes)
                                        /\ \E c \in PlacedIn(d, calls, codes) : i \in calls[c].criteria}
ShownKeys(d, rows, calls, codes) == {KeyOf(codes, i) : i \in SeenIn(d, rows, calls, codes)}
ObservedUnder(d, rows, calls, codes, k) ==
    {o \in PlacedIn(d, calls, codes) \X SeenIn(d, rows, calls, codes) :
       KeyOf(codes, o[2]) = k /\ o[2] \in calls[o[1]].criteria}
Gaps(d, rows, calls, codes) ==
    {c \in PlacedIn(d, calls, codes) : \/ calls[c].criteria = {}
                                       \/ ~(calls[c].criteria \subseteq ReadableIn(d, rows, codes))}
Unread(d, rows, calls, codes) ==
    UNION {{<<c, i>> : i \in calls[c].criteria \ ReadableIn(d, rows, codes)} :
             c \in PlacedIn(d, calls, codes)}
UnknownIn(d, calls, codes) ==
    {c \in Scored(calls) : d.scenario # None /\ CallCode(calls[c], codes) = None}

LEMMA ObservationsExact ==
    ASSUME NEW d, NEW rows, NEW calls, NEW codes, NEW about
    PROVE  LET report == ObservationsIn(d, rows, calls, codes, about)
           IN /\ report.effective = EffectiveIn(d, rows, codes)
              /\ report.calls = calls
              /\ report.about = about
              /\ report.excluded = UnknownIn(d, calls, codes) \cup Gaps(d, rows, calls, codes)
              /\ report.unreadable = Unread(d, rows, calls, codes)
  BY DEF ObservationsIn, OfScenario, ReadableIn, KeyOf, EffectiveIn, KeysIn, PlacedIn, SeenIn, Scored,
     Gaps, Unread, UnknownIn

LEMMA ObservedExact ==
    ASSUME NEW d, NEW rows, NEW calls, NEW codes, NEW about
    PROVE  LET report == ObservationsIn(d, rows, calls, codes, about)
           IN report.observed = [k \in ShownKeys(d, rows, calls, codes) |->
                                   ObservedUnder(d, rows, calls, codes, k)]
  <1> DEFINE report == ObservationsIn(d, rows, calls, codes, about)
             seen == SeenIn(d, rows, calls, codes)
             critical == {KeyOf(codes, i) : i \in seen \cap Critical}
             quality == {KeyOf(codes, i) : i \in seen} \ critical
             under(k) == ObservedUnder(d, rows, calls, codes, k)
  <1>1. report.observed = [k \in critical \cup quality |-> under(k)]
    BY DEF ObservationsIn, OfScenario, ReadableIn, KeyOf, EffectiveIn, KeysIn, PlacedIn, SeenIn, Scored,
       ObservedUnder
  <1>2. critical \cup quality = ShownKeys(d, rows, calls, codes)
    BY DEF ShownKeys
  <1> HIDE DEF critical, quality, under, report
  <1>3. report.observed = [k \in ShownKeys(d, rows, calls, codes) |-> under(k)]
    BY <1>1, <1>2
  <1> QED  BY <1>3 DEF report, under

(* What is said of the observations of a report.                            *)
ObservedRight(status, d, report) ==
    d.requested = {} /\ d.scenario = None =>
        LET made == UNION {{<<c, i>> : i \in report.calls[c].criteria} : c \in Scored(report.calls)}
            landed(o) == {k \in DOMAIN report.observed : o \in report.observed[k]}
        IN /\ \A o \in made : IF o \in report.unreadable THEN landed(o) = {}
                               ELSE Cardinality(landed(o)) = 1
           /\ \A c \in DOMAIN report.calls :
                 report.calls[c].scored /\ report.calls[c].criteria = {} => c \in report.excluded
           /\ status = "ok" => report.unreadable = {} /\ report.excluded = {}

LEMMA ObservationsLand ==
    ASSUME NEW d, NEW rows, NEW calls, NEW codes, NEW about, NEW status,
           status = "ok" => ObservationsIn(d, rows, calls, codes, about).excluded = {}
    PROVE  ObservedRight(status, d, ObservationsIn(d, rows, calls, codes, about))
  <1> DEFINE report == ObservationsIn(d, rows, calls, codes, about)
             readable == ReadableIn(d, rows, codes)
             placed == PlacedIn(d, calls, codes)
             seen == SeenIn(d, rows, calls, codes)
             shown == ShownKeys(d, rows, calls, codes)
             scored == Scored(calls)
             made == UNION {{<<c, i>> : i \in calls[c].criteria} : c \in scored}
             landed(o) == {k \in DOMAIN report.observed : o \in report.observed[k]}
             unread == Unread(d, rows, calls, codes)
             gaps == Gaps(d, rows, calls, codes)
  <1> SUFFICES ASSUME d.requested = {}, d.scenario = None
               PROVE  ObservedRight(status, d, report)
    BY DEF ObservedRight
  <1>1. /\ report.calls = calls /\ report.unreadable = unread
        /\ report.excluded = UnknownIn(d, calls, codes) \cup gaps
        /\ report.observed = [k \in shown |-> ObservedUnder(d, rows, calls, codes, k)]
    BY ObservationsExact, ObservedExact
  <1>2. placed = scored /\ UnknownIn(d, calls, codes) = {}
    BY DEF PlacedIn, OfScenario, UnknownIn
  <1>3. seen = {i \in readable : \E c \in scored : i \in calls[c].criteria}
    BY <1>2 DEF SeenIn, KeysIn, EffectiveIn
  <1>4. unread = UNION {{<<c, i>> : i \in calls[c].criteria \ readable} : c \in scored}
    BY <1>2 DEF Unread
  <1>5. \A c \in scored : \A i : <<c, i>> \in unread <=> i \in calls[c].criteria \ readable
    BY <1>4
  <1>6. gaps = {c \in scored : calls[c].criteria = {} \/ ~(calls[c].criteria \subseteq readable)}
    BY <1>2 DEF Gaps
  <1>7. ASSUME NEW c \in scored, NEW i \in calls[c].criteria
        PROVE  landed(<<c, i>>) = IF i \in readable THEN {KeyOf(codes, i)} ELSE {}
    <2>1. /\ DOMAIN report.observed = shown
          /\ \A k \in shown : <<c, i>> \in report.observed[k] <=>
                c \in placed /\ i \in seen /\ KeyOf(codes, i) = k
      BY <1>1, <1>7 DEF ObservedUnder
    <2>2. i \in seen <=> i \in readable
      BY <1>3, <1>7
    <2>3. i \in seen => KeyOf(codes, i) \in shown
      BY DEF ShownKeys
    <2> HIDE DEF report, shown, placed, seen, readable, scored
    <2> QED  BY <1>2, <1>7, <2>1, <2>2, <2>3
  <1> HIDE DEF report, readable, placed, seen, shown, scored, unread, gaps, landed
  <1>8. ASSUME NEW o \in made
        PROVE  IF o \in unread THEN landed(o) = {} ELSE Cardinality(landed(o)) = 1
    <2>1. PICK c \in scored : \E i \in calls[c].criteria : o = <<c, i>>
      BY <1>8
    <2> PICK i \in calls[c].criteria : o = <<c, i>>
      BY <2>1
    <2>2. o \in unread <=> i \notin readable
      BY <1>5, <2>1
    <2>3. landed(o) = IF i \in readable THEN {KeyOf(codes, i)} ELSE {}
      BY <1>7, <2>1
    <2> QED  BY <2>2, <2>3, FS_Singleton
  <1>9. \A c \in scored : calls[c].criteria = {} => c \in report.excluded
    BY <1>1, <1>6
  <1>10. ASSUME status = "ok" PROVE unread = {} /\ report.excluded = {}
    <2>1. report.excluded = {} /\ gaps = {}
      BY <1>1, <1>10 DEF report
    <2>2. \A c \in scored : calls[c].criteria \subseteq readable
      BY <1>6, <2>1
    <2> QED  BY <1>4, <2>1, <2>2
  <1>11. \A c \in DOMAIN calls : calls[c].scored <=> c \in scored
    BY DEF scored, Scored
  <1> HIDE DEF made
  <1> QED
    BY <1>1, <1>8, <1>9, <1>10, <1>11 DEF ObservedRight, made, landed, scored

-------------------------------------------------------------------------------

(* The same question of an administrator: everything that was visible still *)
(* is, and what is resolved for both is the same scope.                     *)
LEMMA AdminAsks ==
    ASSUME NEW q \in ScopeQuestions
    PROVE  /\ AsAdmin(q) \in ScopeQuestions
           /\ AsAdmin(q).okk = q.okk /\ AsAdmin(q).selectors = q.selectors
           /\ AsAdmin(q).person = q.person /\ AsAdmin(q).account.admin
           /\ Visible(AsAdmin(q)) = q.okk.departments
  <1> DEFINE admin == [admin |-> TRUE, departments |-> {}]
  <1>1. admin \in Accounts
    BY DEF Accounts
  <1>2. /\ AsAdmin(q) \in ScopeQuestions
        /\ AsAdmin(q).okk = q.okk /\ AsAdmin(q).selectors = q.selectors
        /\ AsAdmin(q).person = q.person /\ AsAdmin(q).account = admin
    <2> HIDE DEF admin
    <2> QED  BY <1>1 DEF AsAdmin, ScopeQuestions, admin
  <1>3. AsAdmin(q).account.admin
    BY <1>2
  <1> QED  BY <1>2, <1>3 DEF Visible, VisibleDepartments

LEMMA MatchesGrow ==
    ASSUME NEW q \in ScopeQuestions, NEW s
    PROVE  Matches(q.account, q.okk, s) \subseteq Matches(AsAdmin(q).account, q.okk, s)
  <1> DEFINE admin == AsAdmin(q)
  <1>1. Visible(q) \subseteq Visible(admin) /\ Visible(admin) \subseteq Departments
    BY AdminAsks, VisibleGranted
  <1>2. \A d \in Departments : NamesOf[d] \subseteq Names
    BY NamesAssumption
  <1>3. /\ Matches(q.account, q.okk, s) =
              IF s \in Visible(q) THEN {s} ELSE {d \in Visible(q) : s \in NamesOf[d]}
        /\ Matches(admin.account, q.okk, s) =
              IF s \in Visible(admin) THEN {s} ELSE {d \in Visible(admin) : s \in NamesOf[d]}
    BY AdminAsks DEF Matches, Visible
  <1> HIDE DEF admin
  <1>4. CASE s \in Visible(admin) \ Visible(q)
    <2>1. s \notin Names
      BY <1>1, <1>4, NamesAssumption
    <2> QED  BY <1>1, <1>2, <1>3, <1>4, <2>1 DEF admin
  <1>5. CASE s \notin Visible(admin) \ Visible(q)
    BY <1>1, <1>3, <1>5 DEF admin
  <1> QED  BY <1>4, <1>5

LEMMA SameScope ==
    ASSUME NEW q \in ScopeQuestions, ~Scope(q).invalid, ~Scope(AsAdmin(q)).invalid
    PROVE  /\ Scope(AsAdmin(q)).department = Scope(q).department
           /\ Scope(AsAdmin(q)).employee = Scope(q).employee
  <1> DEFINE admin == AsAdmin(q)
  <1>1. /\ admin \in ScopeQuestions /\ admin.okk = q.okk
        /\ admin.selectors = q.selectors /\ admin.person = q.person
    BY AdminAsks
  <1> HIDE DEF admin
  <1>2. Scope(admin).employee = q.person /\ Scope(q).employee = q.person
    BY <1>1, ScopeExact DEF admin
  <1>3. CASE q.person # None
    BY <1>1, <1>3, ScopeExact DEF admin
  <1>4. CASE q.person = None /\ q.selectors # {}
    <2>1. /\ Named(q) = Scope(q).department /\ Named(q) # None
          /\ Named(admin) = Scope(admin).department /\ Named(admin) # None
      BY <1>1, <1>4, ScopeExact, VisibleGranted DEF admin
    <2>2. PICK s \in q.selectors : TRUE
      BY <1>4
    <2>3. /\ Matches(q.account, q.okk, s) = {Named(q)}
          /\ Matches(admin.account, admin.okk, s) = {Named(admin)}
      BY <1>1, <2>1, <2>2, NamedExact
    <2>4. {Named(q)} \subseteq {Named(admin)}
      BY <1>1, <2>3, MatchesGrow DEF admin
    <2> QED  BY <1>2, <2>1, <2>4 DEF admin
  <1>5. CASE q.person = None /\ q.selectors = {}
    <2>1. \A p \in {q, admin} : Scope(p) = [department |-> None, employee |-> None, invalid |-> FALSE]
      BY <1>1, <1>5 DEF Scope, EntityScope, ResolveDepartment
    <2> QED  BY <2>1 DEF admin
  <1> QED  BY <1>2, <1>3, <1>4, <1>5 DEF admin

(* An administrator reads what the other reads and the archive.             *)
LEMMA AdminReadsMore ==
    ASSUME NEW q \in ScopeQuestions, NEW catalog, NEW archive, NEW department \in {None} \cup Visible(q)
    PROVE  LET viewed == Readable(q, catalog, department, archive)
               all == Readable(AsAdmin(q), catalog, department, archive)
           IN viewed \subseteq all /\ \A v \in all \ viewed : ~catalog[v].current
  <1>1. /\ AsAdmin(q).okk = q.okk /\ AsAdmin(q).account.admin
        /\ department # None =>
              department \in Visible(q) /\ department \in Visible(AsAdmin(q))
    <2>1. /\ AsAdmin(q).okk = q.okk /\ AsAdmin(q).account.admin
          /\ Visible(AsAdmin(q)) = q.okk.departments
      BY AdminAsks
    <2>2. Visible(q) \subseteq q.okk.departments
      BY DEF Visible, VisibleDepartments
    <2>3. department = None \/ department \in Visible(q)
      OBVIOUS
    <2>4. department \in Visible(q) => department \in Visible(AsAdmin(q))
      BY <2>1, <2>2
    <2> QED  BY <2>1, <2>3, <2>4
  <1>2. /\ \A v \in Readable(q, catalog, department, archive) :
              v \in Readable(AsAdmin(q), catalog, department, archive)
        /\ \A v \in Readable(AsAdmin(q), catalog, department, archive) :
              catalog[v].current => v \in Readable(q, catalog, department, archive)
    BY <1>1 DEF Readable
  <1> QED  BY <1>2

(* More of the archive changes the code of no call, where OKK shows each    *)
(* version alike.                                                           *)
LEMMA CodesAgree ==
    ASSUME NEW viewed, NEW all \in SUBSET Versions, viewed \subseteq all, NEW catalog, NEW calls,
           DOMAIN calls \subseteq Nat, ShownAlike(calls),
           \A v \in all \ viewed : ~catalog[v].current,
           NEW few, few = VersionCodes(viewed, catalog, calls),
           NEW many, many = VersionCodes(all, catalog, calls)
    PROVE  /\ \A v \in viewed : few[v] = many[v]
           /\ \A i \in DOMAIN calls : CallCode(calls[i], few) = CallCode(calls[i], many)
  <1>1. \A v \in viewed : few[v] = many[v]
    BY DEF VersionCodes
  <1>2. /\ DOMAIN few = viewed /\ DOMAIN many = all
        /\ \A v \in all : ~catalog[v].current /\ CodedOn(calls, v) # {} =>
              \E j \in CodedOn(calls, v) : many[v] = calls[j].code
    BY CodesExact
  <1>3. ASSUME NEW i \in DOMAIN calls PROVE CallCode(calls[i], few) = CallCode(calls[i], many)
    <2> DEFINE v == calls[i].version
    <2>1. CASE v \in viewed \/ v \notin all
      BY <1>1, <1>2, <2>1 DEF CallCode
    <2>2. CASE v \in all \ viewed
      <3>1. v # None
        BY <2>2, ScenariosAssumption
      <3>2. i \in CodedOn(calls, v)
        BY <3>1 DEF ShownAlike, CodedOn
      <3>3. PICK j \in CodedOn(calls, v) : many[v] = calls[j].code
        BY <1>2, <2>2, <3>2
      <3>4. calls[j].code = calls[i].code
        BY <3>1, <3>3 DEF ShownAlike, CodedOn
      <3> QED  BY <1>2, <2>2, <3>3, <3>4 DEF CallCode
    <2> QED  BY <2>1, <2>2
  <1> QED  BY <1>1, <1>3

LEMMA RatesAgree ==
    ASSUME NEW calls, NEW group, NEW norm, NEW other
    PROVE  \/ None \in {PassRate(calls, group, norm), PassRate(calls, group, other)}
           \/ PassRate(calls, group, norm) = PassRate(calls, group, other)
  BY DEF PassRate

-------------------------------------------------------------------------------

(* What is said of two readers of a report on scenarios.                    *)
SameGroups(viewer, admin) ==
    admin.about = viewer.about =>
        \A c \in DOMAIN viewer.groups \cap DOMAIN admin.groups :
            /\ viewer.groups[c] = admin.groups[c]
            /\ None \in {viewer.rates[c], admin.rates[c]} \/ viewer.rates[c] = admin.rates[c]

LEMMA PerformancesAgree ==
    ASSUME NEW q \in ScopeQuestions, NEW d, d.calls \in Journals, ~Scope(q).invalid,
           ~Scope(AsAdmin(q)).invalid, ShownAlike(Performance(q, d).calls)
    PROVE  SameGroups(Performance(q, d), Performance(AsAdmin(q), d))
  <1> DEFINE admin == AsAdmin(q)
             calls == ReportCalls(q, d)
  <1> SUFFICES ASSUME Performance(admin, d).about = Performance(q, d).about
               PROVE  SameGroups(Performance(q, d), Performance(admin, d))
    BY DEF SameGroups
  <1>1. ReportDepartment(admin, d) = ReportDepartment(q, d)
    <2>1. Performance(q, d).about = About(ReportDepartment(q, d), Scope(q).employee)
      BY PerformanceExact
    <2>2. Performance(admin, d).about = About(ReportDepartment(admin, d), Scope(admin).employee)
      BY PerformanceExact
    <2> HIDE DEF admin
    <2> QED  BY <2>1, <2>2 DEF About
  <1>2. ReportCalls(admin, d) = calls /\ ShownAlike(calls)
    BY <1>1, PerformanceExact DEF ReportCalls
  <1>3. /\ ReportRows(q, d) \subseteq ReportRows(admin, d)
        /\ ReportRows(admin, d) \in SUBSET Versions
        /\ \A v \in ReportRows(admin, d) \ ReportRows(q, d) : ~d.catalog[v].current
    <2>1. /\ Scope(admin).department = Scope(q).department
          /\ Scope(q).department \in {None} \cup Visible(q)
      BY SameScope, ScopeExact
    <2> QED  BY <2>1, AdminReadsMore, RowsAreVersions DEF ReportRows
  <1>4. DOMAIN calls \subseteq Nat
    BY JournalExact DEF ReportCalls
  <1> HIDE DEF admin, calls
  <1>5. \A i \in DOMAIN calls :
           CallCode(calls[i], ReportCodes(q, d)) = CallCode(calls[i], ReportCodes(admin, d))
    <2> DEFINE viewed == ReportRows(q, d)
               all == ReportRows(admin, d)
               few == ReportCodes(q, d)
               many == ReportCodes(admin, d)
    <2>1. few = VersionCodes(viewed, d.catalog, calls) /\ many = VersionCodes(all, d.catalog, calls)
      BY <1>2 DEF ReportCodes, calls
    <2> HIDE DEF viewed, all, few, many
    <2>2. \A i \in DOMAIN calls : CallCode(calls[i], few) = CallCode(calls[i], many)
      BY <1>2, <1>3, <1>4, <2>1, CodesAgree DEF viewed, all
    <2> QED  BY <2>2 DEF few, many
  <1>6. \A c : UnderCode(calls, ReportCodes(q, d), c) = UnderCode(calls, ReportCodes(admin, d), c)
    BY <1>5 DEF UnderCode, Scored
  <1>7. \A c : \/ None \in {RateOf(q, d, c), RateOf(admin, d, c)}
               \/ RateOf(q, d, c) = RateOf(admin, d, c)
    BY <1>2, <1>6, RatesAgree DEF RateOf, calls
  <1> QED  BY <1>2, <1>6, <1>7, GroupsExact DEF SameGroups, calls

-------------------------------------------------------------------------------

(* The parts of the answer to a question on criteria.                       *)
CriteriaRows(q, d) == Readable(q, d.catalog, Scope(q).department, TRUE)
CriteriaDepartment(q, d) ==
    IF d.scenario = None THEN Scope(q).department
    ELSE Inferred(q, d.catalog, {d.scenario}, Scope(q).department)
CriteriaCalls(q, d) == JournalOf(d.calls, CriteriaDepartment(q, d))
CriteriaCodes(q, d) == VersionCodes(CriteriaRows(q, d), d.catalog, CriteriaCalls(q, d))

LEMMA QuestionObservations ==
    ASSUME NEW q, NEW d
    PROVE  Observations(q, d) =
             ObservationsIn(d, CriteriaRows(q, d), CriteriaCalls(q, d), CriteriaCodes(q, d),
                            About(CriteriaDepartment(q, d), Scope(q).employee))
  BY DEF Observations, CriteriaRows, CriteriaDepartment, CriteriaCalls, CriteriaCodes

(* Two readings of a journal: the codes agree, and the smaller one reads    *)
(* what was asked for and all that was evaluated.                           *)
Refines(d, calls, viewed, few, all, many) ==
    /\ viewed \subseteq all
    /\ \A v \in viewed : few[v] = many[v]
    /\ \A c \in DOMAIN calls : CallCode(calls[c], few) = CallCode(calls[c], many)
    /\ d.scenario # None => d.scenario \in viewed
    /\ d.requested = {} \/ \E i : d.requested = {i}
    /\ d.requested # {} => EffectiveIn(d, viewed, few) # {}
    /\ Gaps(d, viewed, calls, few) = {}

(* They show the same observations.                                         *)
LEMMA ReadingsAgree ==
    ASSUME NEW d, NEW calls, NEW viewed, NEW all, NEW few, NEW many,
           Refines(d, calls, viewed, few, all, many)
    PROVE  /\ ShownKeys(d, viewed, calls, few) = ShownKeys(d, all, calls, many)
           /\ \A k : ObservedUnder(d, viewed, calls, few, k) = ObservedUnder(d, all, calls, many, k)
  <1> USE DEF Refines
  <1>1. \A code : OfScenario(d, few, code) <=> OfScenario(d, many, code)
    BY DEF OfScenario
  <1>2. PlacedIn(d, calls, few) = PlacedIn(d, calls, many)
    BY <1>1 DEF PlacedIn, Scored
  <1>3. \A c \in PlacedIn(d, calls, few) : calls[c].criteria \subseteq ReadableIn(d, viewed, few)
    BY DEF Gaps
  <1>4. \A i \in ReadableIn(d, viewed, few) :
           i \in ReadableIn(d, all, many) /\ KeyOf(few, i) = KeyOf(many, i)
    BY <1>1 DEF ReadableIn, KeyOf
  <1>5. /\ KeysIn(d, viewed, few) \subseteq KeysIn(d, all, many)
        /\ \A i \in ReadableIn(d, viewed, few) :
             KeyOf(few, i) \in KeysIn(d, all, many) => KeyOf(few, i) \in KeysIn(d, viewed, few)
    <2>1. CASE d.requested = {}
      BY <1>4, <2>1 DEF KeysIn, EffectiveIn
    <2>2. CASE d.requested # {}
      <3>1. PICK i : d.requested = {i}
        BY <2>2
      <3>2. i \in ReadableIn(d, viewed, few)
        BY <2>2, <3>1 DEF EffectiveIn
      <3>3. /\ KeysIn(d, viewed, few) = {KeyOf(few, i)}
            /\ KeysIn(d, all, many) = {KeyOf(many, i)}
        BY <1>4, <2>2, <3>1, <3>2 DEF KeysIn, EffectiveIn
      <3> QED  BY <1>4, <3>2, <3>3
    <2> QED  BY <2>1, <2>2
  <1>6. SeenIn(d, viewed, calls, few) = SeenIn(d, all, calls, many)
    <2>1. \A i \in SeenIn(d, viewed, calls, few) : i \in SeenIn(d, all, calls, many)
      BY <1>2, <1>4, <1>5 DEF SeenIn
    <2>2. ASSUME NEW i \in SeenIn(d, all, calls, many) PROVE i \in SeenIn(d, viewed, calls, few)
      <3>1. i \in ReadableIn(d, viewed, few) /\ KeyOf(many, i) \in KeysIn(d, all, many)
        BY <1>2, <1>3 DEF SeenIn
      <3> QED  BY <1>2, <1>4, <1>5, <3>1 DEF SeenIn
    <2> QED  BY <2>1, <2>2
  <1>7. \A i \in SeenIn(d, viewed, calls, few) : KeyOf(few, i) = KeyOf(many, i)
    BY <1>4 DEF SeenIn
  <1>8. ShownKeys(d, viewed, calls, few) = ShownKeys(d, all, calls, many)
    BY <1>6, <1>7 DEF ShownKeys
  <1>9. ASSUME NEW k
        PROVE  ObservedUnder(d, viewed, calls, few, k) = ObservedUnder(d, all, calls, many, k)
    BY <1>2, <1>6, <1>7 DEF ObservedUnder
  <1> QED  BY <1>8, <1>9

LEMMA ObservationsAgree ==
    ASSUME NEW q \in ScopeQuestions, NEW d, d.calls \in Journals,
           ~Scope(q).invalid, ~Scope(AsAdmin(q)).invalid,
           ShownAlike(Observations(q, d).calls), Observations(q, d).excluded = {},
           d.scenario # None => d.scenario \in CriteriaRows(q, d),
           d.requested = {} \/ \E i : d.requested = {i},
           d.requested # {} => Observations(q, d).effective # {},
           Observations(AsAdmin(q), d).about = Observations(q, d).about
    PROVE  Observations(AsAdmin(q), d).observed = Observations(q, d).observed
  <1> DEFINE admin == AsAdmin(q)
             calls == CriteriaCalls(q, d)
             viewed == CriteriaRows(q, d)
             all == CriteriaRows(admin, d)
             few == CriteriaCodes(q, d)
             many == CriteriaCodes(admin, d)
  <1>1. /\ Observations(q, d).about = About(CriteriaDepartment(q, d), Scope(q).employee)
        /\ Observations(q, d).calls = calls
        /\ Observations(q, d).effective = EffectiveIn(d, viewed, few)
        /\ Observations(q, d).excluded = UnknownIn(d, calls, few) \cup Gaps(d, viewed, calls, few)
    BY QuestionObservations, ObservationsExact
  <1>2. Observations(admin, d).about = About(CriteriaDepartment(admin, d), Scope(admin).employee)
    BY QuestionObservations, ObservationsExact
  <1>3. CriteriaDepartment(admin, d) = CriteriaDepartment(q, d)
    <2> HIDE DEF admin
    <2> QED  BY <1>1, <1>2 DEF About, admin
  <1>4. CriteriaCalls(admin, d) = calls
    BY <1>3 DEF CriteriaCalls
  <1>5. /\ viewed \subseteq all /\ all \in SUBSET Versions
        /\ \A v \in all \ viewed : ~d.catalog[v].current
    <2>1. /\ Scope(admin).department = Scope(q).department
          /\ Scope(q).department \in {None} \cup Visible(q)
      BY SameScope, ScopeExact
    <2> QED  BY <2>1, AdminReadsMore, RowsAreVersions DEF CriteriaRows
  <1>6. DOMAIN calls \subseteq Nat /\ ShownAlike(calls)
    BY <1>1, JournalExact DEF CriteriaCalls
  <1>7. few = VersionCodes(viewed, d.catalog, calls) /\ many = VersionCodes(all, d.catalog, calls)
    BY <1>4 DEF CriteriaCodes
  <1>8. /\ Observations(q, d).observed =
             [k \in ShownKeys(d, viewed, calls, few) |-> ObservedUnder(d, viewed, calls, few, k)]
        /\ Observations(admin, d).observed =
             [k \in ShownKeys(d, all, calls, many) |-> ObservedUnder(d, all, calls, many, k)]
    BY <1>4, QuestionObservations, ObservedExact
  <1> HIDE DEF admin, calls, viewed, all, few, many
  <1>9. /\ \A v \in viewed : few[v] = many[v]
        /\ \A c \in DOMAIN calls : CallCode(calls[c], few) = CallCode(calls[c], many)
    BY <1>5, <1>6, <1>7, CodesAgree
  <1>10. /\ Gaps(d, viewed, calls, few) = {}
         /\ d.requested # {} => EffectiveIn(d, viewed, few) # {}
         /\ d.scenario # None => d.scenario \in viewed
         /\ d.requested = {} \/ \E i : d.requested = {i}
    BY <1>1 DEF viewed
  <1>11. /\ ShownKeys(d, viewed, calls, few) = ShownKeys(d, all, calls, many)
         /\ \A k : ObservedUnder(d, viewed, calls, few, k) = ObservedUnder(d, all, calls, many, k)
    <2>1. Refines(d, calls, viewed, few, all, many)
      BY <1>5, <1>9, <1>10 DEF Refines
    <2> QED  BY <2>1, ReadingsAgree
  <1> QED  BY <1>8, <1>11 DEF admin

-------------------------------------------------------------------------------

(* The promises about evaluations and observations, of every answer.        *)
EvidenceRight ==
    EveryEvaluationLands /\ ReadersAgree /\ EveryObservationLands /\ OkForEveryReader

LEMMA EvidenceElsewhere ==
    ASSUME \/ answer'.tool \notin {"scenario_performance", "criterion_performance"}
           \/ answer'.status = "not_available"
    PROVE  EvidenceRight'
  BY DEF EvidenceRight, EveryEvaluationLands, ReadersAgree, EveryObservationLands, OkForEveryReader,
     Answered

LEMMA EvidenceRefused ==
    ASSUME NEW tool, NEW q, NEW d, NEW about,
           NotAvailable(tool, q, d) \/ Envelope(tool, q, d, "not_available", about, {})
    PROVE  EvidenceRight'
  <1>1. answer'.status = "not_available"
    BY DEF NotAvailable, Envelope
  <1> QED  BY <1>1, EvidenceElsewhere

(* What two readers of a report are told of it, for an administrator who is *)
(* answered and an OKK that shows a version under one code.                 *)
Readers(q, report) == ShownAlike(report.calls) /\ ~Scope(AsAdmin(q)).invalid

LEMMA PerformanceEnvelope ==
    ASSUME NEW q, NEW d, NEW status, NEW about, NEW report, report = Performance(q, d),
           Envelope("scenario_performance", q, d, status, about, report),
           LandsRight(status, d, report),
           Readers(q, report) => SameGroups(report, Performance(AsAdmin(q), d))
    PROVE  EvidenceRight'
  <1>1. answer' = [tool |-> "scenario_performance", q |-> q, d |-> d,
                   status |-> status, about |-> about, shown |-> report]
    BY DEF Envelope
  <1>2. /\ answer'.tool = "scenario_performance" /\ answer'.q = q /\ answer'.d = d
        /\ answer'.status = status /\ answer'.shown = report
    BY <1>1
  <1>3. LandsRight(answer'.status, answer'.d, answer'.shown)
    BY <1>2
  <1>4. EveryEvaluationLands'
    BY <1>3 DEF EveryEvaluationLands, LandsRight, Scored
  <1>5. Readers(answer'.q, answer'.shown) =>
           SameGroups(answer'.shown, Performance(AsAdmin(answer'.q), answer'.d))
    BY <1>2
  <1>6. ReadersAgree'
    BY <1>5 DEF ReadersAgree, Comparable, Readers, SameGroups
  <1>7. EveryObservationLands' /\ OkForEveryReader'
    BY <1>2 DEF EveryObservationLands, OkForEveryReader, Answered
  <1> QED  BY <1>4, <1>6, <1>7 DEF EvidenceRight

LEMMA PerformanceRight ==
    ASSUME NEW q \in ScopeQuestions, NEW d, d.catalog \in Catalogs, d.calls \in Journals,
           GetScenarioPerformance(q, d)
    PROVE  EvidenceRight'
  <1> DEFINE report == Performance(q, d)
  <1>1. \/ \E about : \/ NotAvailable("scenario_performance", q, d)
                      \/ Envelope("scenario_performance", q, d, "not_available", about, {})
        \/ /\ ~Scope(q).invalid
           /\ \E status, about : /\ status = "ok" => report.excluded = {}
                                 /\ Envelope("scenario_performance", q, d, status, about, report)
    BY DEF GetScenarioPerformance
  <1>2. \A status : (status = "ok" => report.excluded = {}) => LandsRight(status, d, report)
    BY PerformanceLands
  <1>3. ~Scope(q).invalid /\ Readers(q, report) => SameGroups(report, Performance(AsAdmin(q), d))
    BY PerformancesAgree DEF Readers
  <1> HIDE DEF report
  <1>4. report = Performance(q, d)
    BY DEF report
  <1> QED  BY <1>1, <1>2, <1>3, <1>4, EvidenceRefused, PerformanceEnvelope

LEMMA ObservationsEnvelope ==
    ASSUME NEW q, NEW d, NEW status, NEW report,
           Envelope("criterion_performance", q, d, status, report.about, report),
           ObservedRight(status, d, report),
           status = "ok" /\ Readers(q, report) =>
               (Observations(AsAdmin(q), d).about = report.about =>
                  Observations(AsAdmin(q), d).observed = report.observed)
    PROVE  EvidenceRight'
  <1>1. answer' = [tool |-> "criterion_performance", q |-> q, d |-> d,
                   status |-> status, about |-> report.about, shown |-> report]
    BY DEF Envelope
  <1>2. /\ answer'.tool = "criterion_performance" /\ answer'.q = q /\ answer'.d = d
        /\ answer'.status = status /\ answer'.shown = report /\ answer'.about = report.about
    BY <1>1
  <1>3. ObservedRight(answer'.status, answer'.d, answer'.shown)
    BY <1>2
  <1>4. EveryObservationLands'
    BY <1>3 DEF EveryObservationLands, ObservedRight, Scored
  <1>5. answer'.status = "ok" /\ Readers(answer'.q, answer'.shown) =>
           (Observations(AsAdmin(answer'.q), answer'.d).about = answer'.about =>
              Observations(AsAdmin(answer'.q), answer'.d).observed = answer'.shown.observed)
    BY <1>2
  <1>6. OkForEveryReader'
    BY <1>5 DEF OkForEveryReader, Comparable, Readers
  <1>7. EveryEvaluationLands' /\ ReadersAgree'
    BY <1>2 DEF EveryEvaluationLands, ReadersAgree, Answered
  <1> QED  BY <1>4, <1>6, <1>7 DEF EvidenceRight

LEMMA ObservationsRight ==
    ASSUME NEW q \in ScopeQuestions, NEW d, d.calls \in Journals,
           d.requested = {} \/ \E i : d.requested = {i},
           GetCriterionPerformance(q, d)
    PROVE  EvidenceRight'
  <1> DEFINE report == Observations(q, d)
             other == Observations(AsAdmin(q), d)
             told(status) == /\ status = "ok" => report.excluded = {}
                             /\ d.requested # {} => report.effective # {}
                             /\ d.scenario # None => d.scenario \in CriteriaRows(q, d)
  <1>1. \/ \E about : \/ NotAvailable("criterion_performance", q, d)
                      \/ Envelope("criterion_performance", q, d, "not_available", about, {})
        \/ /\ ~Scope(q).invalid
           /\ \E status : /\ told(status)
                          /\ Envelope("criterion_performance", q, d, status, report.about, report)
    BY DEF GetCriterionPerformance, CriteriaRows
  <1>2. \A status : told(status) => ObservedRight(status, d, report)
    BY QuestionObservations, ObservationsLand
  <1>3. ASSUME NEW status, told(status), status = "ok", ~Scope(q).invalid, Readers(q, report),
               other.about = report.about
        PROVE  other.observed = report.observed
    BY <1>3, ObservationsAgree DEF Readers
  <1> HIDE DEF report, told
  <1> QED  BY <1>1, <1>2, <1>3, EvidenceRefused, ObservationsEnvelope

LEMMA EvidenceStep ==
    ASSUME ScenarioNext
    PROVE  EvidenceRight'
  <1>1. \A q \in ScenarioScopes : q \in ScopeQuestions
    BY ScenariosAssumption
  <1>2. ASSUME NEW q, NEW d, ListScenarios(q, d) \/ GetScenarioCriteria(q, d)
        PROVE  EvidenceRight'
    <2>1. \E tool \in {"scenarios", "criteria"} : \E status, about, shown :
             Envelope(tool, q, d, status, about, shown)
      BY <1>2 DEF ListScenarios, GetScenarioCriteria, NotAvailable
    <2>2. answer'.tool \in {"scenarios", "criteria"}
      BY <2>1 DEF Envelope
    <2> QED  BY <2>2, EvidenceElsewhere
  <1>3. ASSUME NEW q \in ScenarioScopes, NEW catalog \in Catalogs,
               NEW d \in [catalog : {catalog}, calls : Journals, whole : BOOLEAN,
                          requested : {{}} \cup {{v} : v \in Versions}],
               GetScenarioPerformance(q, d)
        PROVE  EvidenceRight'
    BY <1>1, <1>3, PerformanceRight
  <1>4. ASSUME NEW q \in ScenarioScopes, NEW catalog \in Catalogs,
               NEW d \in [catalog : {catalog}, calls : Journals, whole : {TRUE}, missed : BOOLEAN,
                          scenario : Versions \cup {None},
                          requested : {{}} \cup {{i} : i \in AskedCriteria},
                          limit : {1, Cardinality(Criteria)}],
               GetCriterionPerformance(q, d)
        PROVE  EvidenceRight'
    <2>1. d.calls \in Journals /\ d.requested \in {{}} \cup {{i} : i \in AskedCriteria}
      OBVIOUS
    <2>2. d.requested = {} \/ \E i : d.requested = {i}
      BY <2>1
    <2> QED  BY <1>1, <1>4, <2>1, <2>2, ObservationsRight
  <1> QED  BY <1>2, <1>3, <1>4 DEF ScenarioNext

-------------------------------------------------------------------------------

(* What an answer may be about, and the form of a typed one.                *)
Abouts == [department : Departments \cup {None}, employee : People \cup {None}]
Told(q, d, about) ==
    \E tool : \/ NotAvailable(tool, q, d)
              \/ \E status \in Statuses : \E shown : Envelope(tool, q, d, status, about, shown)

LEMMA ToldTyped ==
    ASSUME NEW q \in ScopeQuestions, NEW d, NEW about \in Abouts, Told(q, d, about)
    PROVE  AnswerTypeOK'
  <1>1. ASSUME NEW tool, NEW status \in Statuses, NEW other \in Abouts, NEW shown,
               Envelope(tool, q, d, status, other, shown)
        PROVE  AnswerTypeOK'
    <2>1. answer' = [tool |-> tool, q |-> q, d |-> d,
                     status |-> status, about |-> other, shown |-> shown]
      BY <1>1 DEF Envelope
    <2>2. answer'.q = q /\ answer'.status = status /\ answer'.about = other
      BY <2>1
    <2> QED  BY <2>2 DEF AnswerTypeOK, Abouts
  <1>2. Everything \in Abouts /\ "not_available" \in Statuses
    BY DEF Everything, About, Abouts, Statuses
  <1> QED  BY <1>1, <1>2 DEF Told, NotAvailable

(* What a scope is about, refused ones included.                            *)
LEMMA ScopeTyped ==
    ASSUME NEW q \in ScopeQuestions
    PROVE  /\ Named(q) \in Departments \cup {None}
           /\ Scope(q).department \in Departments \cup {None}
           /\ Scope(q).employee \in People \cup {None}
           /\ q.person \in People \cup {None}
  <1>1. Named(q) \in Departments \cup {None}
    BY NamedExact, VisibleGranted
  <1>2. q.person \in People \cup {None}
    BY DEF ScopeQuestions
  <1>3. CASE Scope(q).invalid
    <2>1. Scope(q).department \in {None, Named(q)}
      BY <1>3 DEF Scope, EntityScope, Named
    <2> QED  BY <1>1, <1>2, <1>3, <2>1, ScopeRefused
  <1>4. CASE ~Scope(q).invalid
    BY <1>1, <1>2, <1>4, ScopeExact, VisibleGranted
  <1> QED  BY <1>3, <1>4

LEMMA AboutTyped ==
    ASSUME NEW department \in Departments \cup {None}, NEW employee \in People \cup {None}
    PROVE  About(department, employee) \in Abouts
  BY DEF About, Abouts

LEMMA ScopesTyped ==
    ASSUME NEW q \in ScopeQuestions
    PROVE  /\ About(Named(q), None) \in Abouts
           /\ About(Scope(q).department, Scope(q).employee) \in Abouts
           /\ About(Scope(q).department, q.person) \in Abouts
           /\ About(None, q.person) \in Abouts
           /\ Everything \in Abouts
  BY ScopeTyped, AboutTyped DEF Everything

LEMMA InferredTyped ==
    ASSUME NEW q \in ScopeQuestions, NEW catalog, NEW versions,
           NEW department \in Departments \cup {None}
    PROVE  Inferred(q, catalog, versions, department) \in Departments \cup {None}
  <1> DEFINE homes == {catalog[v].home : v \in versions} \ {None}
  <1>1. \/ Inferred(q, catalog, versions, department) = department
        \/ /\ homes \subseteq Visible(q) /\ Cardinality(homes) = 1
           /\ Inferred(q, catalog, versions, department) = CHOOSE home \in homes : TRUE
    BY DEF Inferred
  <1> HIDE DEF homes
  <1>2. Cardinality(homes) = 1 => homes # {}
    BY FS_EmptySet
  <1> QED  BY <1>1, <1>2, VisibleGranted

-------------------------------------------------------------------------------

LEMMA ReportsTold ==
    ASSUME NEW q \in ScopeQuestions, NEW d
    PROVE  /\ GetAccessContext(q, d) \/ ListSupervisors(q, d) \/ CompareDepartments(q, d) =>
                Told(q, d, Everything)
           /\ GetOverviewStatistics(q, d) =>
                Told(q, d, Everything) \/ Told(q, d, About(Named(q), None))
           /\ (\/ GetDepartmentStatistics(q, d) \/ ListEmployees(q, d) \/ CompareEmployees(q, d)
               \/ GetCallFilterOptions(q, d)) =>
                Told(q, d, About(Named(q), None))
           /\ GetEmployeeCard(q, d) => Told(q, d, About(Scope(q).department, q.person))
           /\ (\/ GetScopeSums(q, d) \/ GetPlanFactStatistics(q, d) \/ GetCrmStatistics(q, d)
               \/ GetGrowthInsights(q, d)) =>
                Told(q, d, About(Scope(q).department, Scope(q).employee))
  <1>1. GetAccessContext(q, d) => Told(q, d, Everything)
    BY DEF GetAccessContext, Told, Statuses
  <1>2. ListSupervisors(q, d) => Told(q, d, Everything)
    BY DEF ListSupervisors, Told, Statuses
  <1>3. CompareDepartments(q, d) => Told(q, d, Everything)
    BY DEF CompareDepartments, Told, Statuses
  <1>4. GetOverviewStatistics(q, d) => Told(q, d, Everything) \/ Told(q, d, About(Named(q), None))
    BY DEF GetOverviewStatistics, Told, Statuses
  <1>5. GetDepartmentStatistics(q, d) => Told(q, d, About(Named(q), None))
    BY DEF GetDepartmentStatistics, Told, Statuses
  <1>6. ListEmployees(q, d) => Told(q, d, About(Named(q), None))
    BY DEF ListEmployees, Told, Statuses
  <1>7. CompareEmployees(q, d) => Told(q, d, About(Named(q), None))
    BY DEF CompareEmployees, Told, Statuses
  <1>8. GetCallFilterOptions(q, d) => Told(q, d, About(Named(q), None))
    BY DEF GetCallFilterOptions, Told, Statuses
  <1>9. GetEmployeeCard(q, d) => Told(q, d, About(Scope(q).department, q.person))
    BY DEF GetEmployeeCard, Told, Statuses
  <1> DEFINE about == About(Scope(q).department, Scope(q).employee)
  <1>10. GetScopeSums(q, d) => Told(q, d, about)
    BY DEF GetScopeSums, Told, Statuses
  <1>11. GetPlanFactStatistics(q, d) => Told(q, d, about)
    BY DEF GetPlanFactStatistics, Told, Statuses
  <1>12. GetCrmStatistics(q, d) => Told(q, d, about)
    BY DEF GetCrmStatistics, Told, Statuses
  <1>13. GetGrowthInsights(q, d) => Told(q, d, about)
    BY DEF GetGrowthInsights, Told, Statuses
  <1> QED
    BY <1>1, <1>2, <1>3, <1>4, <1>5, <1>6, <1>7, <1>8, <1>9, <1>10, <1>11, <1>12, <1>13

LEMMA ReportsTyped ==
    ASSUME ReportNext
    PROVE  AnswerTypeOK'
  <1>1. \A q \in Scopes \cup ReportScopes \cup NoOne(Scopes) \cup NoOne(ReportScopes) :
           q \in ScopeQuestions
    BY ReportsAssumption DEF NoOne
  <1>2. ASSUME NEW q \in ScopeQuestions, NEW d,
               \/ GetAccessContext(q, d) \/ ListSupervisors(q, d) \/ CompareDepartments(q, d)
               \/ GetOverviewStatistics(q, d) \/ GetDepartmentStatistics(q, d) \/ ListEmployees(q, d)
               \/ CompareEmployees(q, d) \/ GetCallFilterOptions(q, d) \/ GetEmployeeCard(q, d)
               \/ GetScopeSums(q, d) \/ GetPlanFactStatistics(q, d) \/ GetCrmStatistics(q, d)
               \/ GetGrowthInsights(q, d)
        PROVE  AnswerTypeOK'
    <2>1. \/ Told(q, d, Everything) \/ Told(q, d, About(Named(q), None))
          \/ Told(q, d, About(Scope(q).department, q.person))
          \/ Told(q, d, About(Scope(q).department, Scope(q).employee))
      BY <1>2, ReportsTold
    <2> QED  BY <2>1, ToldTyped, ScopesTyped
  <1> QED  BY <1>1, <1>2 DEF ReportNext

-------------------------------------------------------------------------------

LEMMA ScenariosTyped ==
    ASSUME ScenarioNext
    PROVE  AnswerTypeOK'
  <1>1. \A q \in ScenarioScopes : q \in ScopeQuestions
    BY ScenariosAssumption
  <1>2. ASSUME NEW q \in ScopeQuestions, NEW d, ListScenarios(q, d)
        PROVE  AnswerTypeOK'
    <2>1. Told(q, d, About(Named(q), None))
      BY <1>2 DEF ListScenarios, Told, Statuses
    <2> QED  BY <2>1, ToldTyped, ScopesTyped
  <1>3. ASSUME NEW q \in ScopeQuestions, NEW d, GetScenarioCriteria(q, d)
        PROVE  AnswerTypeOK'
    <2>1. \E home \in Visible(q) \cup {None} : Told(q, d, About(home, None))
      BY <1>3 DEF GetScenarioCriteria, Told, Statuses
    <2> QED  BY <2>1, ToldTyped, AboutTyped, VisibleGranted
  <1>4. ASSUME NEW q \in ScopeQuestions, NEW d, GetScenarioPerformance(q, d)
        PROVE  AnswerTypeOK'
    <2>1. \/ Told(q, d, About(Scope(q).department, Scope(q).employee))
          \/ Told(q, d, Performance(q, d).about)
      BY <1>4 DEF GetScenarioPerformance, Told, Statuses
    <2>2. Performance(q, d).about \in Abouts
      BY PerformanceExact, ScopeTyped, InferredTyped, AboutTyped DEF ReportDepartment
    <2> QED  BY <2>1, <2>2, ToldTyped, ScopesTyped
  <1>5. ASSUME NEW q \in ScopeQuestions, NEW d, GetCriterionPerformance(q, d)
        PROVE  AnswerTypeOK'
    <2>1. Told(q, d, Observations(q, d).about)
      BY <1>5 DEF GetCriterionPerformance, Told, Statuses
    <2>2. Observations(q, d).about = About(CriteriaDepartment(q, d), Scope(q).employee)
      BY QuestionObservations, ObservationsExact
    <2>3. CriteriaDepartment(q, d) \in Departments \cup {None}
      BY ScopeTyped, InferredTyped DEF CriteriaDepartment
    <2> QED  BY <2>1, <2>2, <2>3, ScopeTyped, AboutTyped, ToldTyped
  <1> QED  BY <1>1, <1>2, <1>3, <1>4, <1>5 DEF ScenarioNext

-------------------------------------------------------------------------------

LEMMA TranscriptsTyped ==
    ASSUME NEW q \in ScopeQuestions, NEW d \in OkkPages \cup ScenarioPages
    PROVE  TranscriptScope(q, d.catalog, d.scenario).about \in Abouts
  <1>1. d.catalog \in Catalogs /\ d.scenario \in {None, AskedVersion}
    BY CallsAssumption DEF OkkPages, ScenarioPages
  <1>2. d.scenario # None => d.catalog[d.scenario].home \in Departments \cup {None}
    BY <1>1, CallsAssumption, ScenariosAssumption DEF VersionRows
  <1>3. \/ /\ d.scenario = None
           /\ TranscriptScope(q, d.catalog, d.scenario).about =
                About(Scope(q).department, Scope(q).employee)
        \/ \E department \in {Scope(q).department, d.catalog[d.scenario].home} :
             TranscriptScope(q, d.catalog, d.scenario).about = About(department, Scope(q).employee)
    BY DEF TranscriptScope
  <1>4. CASE d.scenario = None
    BY <1>4, ScopesTyped DEF TranscriptScope
  <1>5. CASE d.scenario # None
    BY <1>2, <1>3, <1>5, ScopeTyped, AboutTyped
  <1> QED  BY <1>4, <1>5

LEMMA OpenTyped ==
    ASSUME NEW q \in ScopeQuestions, NEW d \in OneCall, GetCallTranscript(q, d)
    PROVE  AnswerTypeOK'
  <1> DEFINE call == VisibleCall(q.account, q.okk, d.calls[1], Scope(q).department, Scope(q).employee)
             department == IF Scope(q).department # None THEN Scope(q).department
                           ELSE IF call.department \in Visible(q) THEN call.department ELSE None
  <1>1. \/ NotAvailable("open_call", q, d)
        \/ /\ d.calls # <<>> /\ call.kind # "hidden"
           /\ \E status \in Statuses : \E shown :
                Envelope("open_call", q, d, status, About(department, call.employee), shown)
    BY DEF GetCallTranscript, Statuses
  <1>2. department \in Departments \cup {None}
    BY ScopeTyped, VisibleGranted
  <1>3. ASSUME d.calls # <<>>, call.kind # "hidden" PROVE call.employee \in People \cup {None}
    <2>1. PICK row \in PageRows : d.calls = <<row>>
      BY <1>3, CallsAssumption DEF OneCall
    <2>2. call = VisibleCall(q.account, q.okk, row, Scope(q).department, Scope(q).employee)
      BY <2>1
    <2> HIDE DEF call
    <2>3. Judged(q, row, Scope(q).department, Scope(q).employee, call)
      BY <1>3, <2>2, VisibleCallExact
    <2>4. call.employee = row.employee
      BY <2>3 DEF Judged
    <2> QED  BY <2>4 DEF PageRows
  <1> HIDE DEF call, department
  <1>4. CASE NotAvailable("open_call", q, d)
    <2>1. Told(q, d, Everything)
      BY <1>4 DEF Told
    <2> QED  BY <2>1, ToldTyped, ScopesTyped
  <1>5. CASE d.calls # <<>> /\ call.kind # "hidden" /\ ~NotAvailable("open_call", q, d)
    <2>1. About(department, call.employee) \in Abouts
      BY <1>2, <1>3, <1>5, AboutTyped
    <2>2. Told(q, d, About(department, call.employee))
      BY <1>1, <1>5 DEF Told
    <2> QED  BY <2>1, <2>2, ToldTyped
  <1> QED  BY <1>1, <1>4, <1>5

LEMMA CallsTyped ==
    ASSUME CallNext
    PROVE  AnswerTypeOK'
  <1>1. \A q \in CallScopes \cup SupervisorQuestions : q \in ScopeQuestions
    BY CallsAssumption DEF SupervisorQuestions
  <1>2. ASSUME NEW q \in ScopeQuestions, NEW d \in OkkPages \cup ScenarioPages,
               ListCallTranscripts(q, d) \/ SearchCallTranscripts(q, d)
        PROVE  AnswerTypeOK'
    <2>1. ListCallTranscripts(q, d) => Told(q, d, TranscriptScope(q, d.catalog, d.scenario).about)
      BY DEF ListCallTranscripts, Told, Statuses
    <2>2. SearchCallTranscripts(q, d) => Told(q, d, TranscriptScope(q, d.catalog, d.scenario).about)
      BY DEF SearchCallTranscripts, Told, Statuses
    <2> QED  BY <1>2, <2>1, <2>2, ToldTyped, TranscriptsTyped
  <1>3. ASSUME NEW q \in ScopeQuestions, NEW d,
               \/ GetSupervisorCallStatistics(q, d) \/ ListSupervisorCallTranscripts(q, d)
               \/ SearchSupervisorCallTranscripts(q, d) \/ GetSupervisorCallTranscript(q, d)
        PROVE  AnswerTypeOK'
    <2> DEFINE about == About(None, q.person)
    <2>1. GetSupervisorCallStatistics(q, d) => Told(q, d, about)
      BY DEF GetSupervisorCallStatistics, Told, Statuses
    <2>2. ListSupervisorCallTranscripts(q, d) => Told(q, d, about)
      BY DEF ListSupervisorCallTranscripts, Told, Statuses
    <2>3. SearchSupervisorCallTranscripts(q, d) => Told(q, d, about)
      BY DEF SearchSupervisorCallTranscripts, Told, Statuses
    <2>4. GetSupervisorCallTranscript(q, d) => Told(q, d, about)
      BY DEF GetSupervisorCallTranscript, Told, Statuses
    <2> QED  BY <1>3, <2>1, <2>2, <2>3, <2>4, ToldTyped, ScopesTyped
  <1>4. ASSUME NEW q \in ScopeQuestions, NEW d \in LookupRows, ListCallPhoneRecords(q, d)
        PROVE  AnswerTypeOK'
    <2>1. \/ NotAvailable("phone_records", q, d)
          \/ \E status \in Statuses : \E shown : Answering(q, d, status, shown)
      <3>1. \A status, count : Lookup(q, d, status, count) =>
               status \in Statuses /\ \E shown : Answering(q, d, status, shown)
        BY DEF Lookup, Statuses
      <3> QED  BY <1>4, <3>1, LookupCases DEF Statuses
    <2>2. Told(q, d, LookupAbout(q, d))
      BY <2>1 DEF Told, Answering
    <2>3. d.supervisor \in People \cup {None}
      BY DEF LookupRows
    <2>4. LookupAbout(q, d) \in Abouts
      BY <2>3, ScopesTyped, AboutTyped DEF LookupAbout
    <2> QED  BY <2>2, <2>4, ToldTyped
  <1> QED  BY <1>1, <1>2, <1>3, <1>4, OpenTyped DEF CallNext, LookupRows

-------------------------------------------------------------------------------

(* No answer is broader than its question, none hides what it leaves out,   *)
(* and the evidence of each is counted once and alike for every reader.     *)
AnswersRight ==
    /\ ScopeNeverBroadened /\ ShownWithinAccess /\ NoDataIsNothing
    /\ CallsOfTheScope /\ PhoneAnswerExact
    /\ OkMeansWhole /\ OkLeavesNothingOut /\ EvidenceRight
    /\ AnswerTypeOK

LEMMA AnswersStep == AnswersRight /\ [AnalyticsNext]_answer => AnswersRight'
  <1> SUFFICES ASSUME AnswersRight, [AnalyticsNext]_answer PROVE AnswersRight'
    OBVIOUS
  <1>1. answer'.tool \notin CallToolNames => CallsOfTheScope' /\ PhoneAnswerExact'
    BY DEF CallsOfTheScope, PhoneAnswerExact, PhoneCountExact, NumberFoundHoweverWritten,
       PhoneTool, CallToolNames
  <1>2. answer'.tool \notin ScopedTools => ScopeNeverBroadened' /\ ShownWithinAccess'
    BY DEF ScopeNeverBroadened, ShownWithinAccess
  <1>3. answer'.tool \notin ScopedTools \cup UnscopedTools => NoDataIsNothing'
    BY DEF NoDataIsNothing
  <1>4. (ScopedTools \cup UnscopedTools) \cap CallToolNames = {}
    BY DEF ScopedTools, UnscopedTools, CallToolNames, PersonalTools
  <1>5. answer'.tool \notin ScopedTools \cup UnscopedTools => OkMeansWhole'
    BY DEF OkMeansWhole, ScopedTools, UnscopedTools
  <1>6. answer'.tool \notin CallToolNames => OkLeavesNothingOut'
    BY DEF OkLeavesNothingOut
  <1>7. answer'.tool \in ScopedTools \cup UnscopedTools \cup CallToolNames => EvidenceRight'
    <2>1. {"scenario_performance", "criterion_performance"}
             \cap (ScopedTools \cup UnscopedTools \cup CallToolNames) = {}
      BY DEF ScopedTools, UnscopedTools, CallToolNames, PersonalTools
    <2> QED  BY <2>1, EvidenceElsewhere
  <1>8. CASE ReportNext
    <2>1. answer'.tool \in ScopedTools \cup UnscopedTools /\ answer'.tool \notin CallToolNames
      BY <1>4, <1>8, ReportNames
    <2> QED
      BY <1>1, <1>8, <1>6, <1>7, <2>1, ReportStep, NoDataStep, WholeStep, ReportsTyped
         DEF AnswersRight, ReportRight
  <1>9. CASE ScenarioNext
    BY <1>1, <1>2, <1>3, <1>9, <1>5, <1>6, ScenarioNames, EvidenceStep,
       ScenariosTyped
       DEF AnswersRight
  <1>10. CASE CallNext
    <2>1. answer'.tool \in CallToolNames /\ answer'.tool \notin ScopedTools \cup UnscopedTools
      BY <1>4, <1>10, CallStep DEF CallStepRight
    <2> QED
      BY <1>2, <1>3, <1>10, <1>5, <1>7, <2>1, CallStep, CompleteStep, CallsTyped
         DEF AnswersRight, CallStepRight
  <1>11. CASE UNCHANGED answer
    <2>1. AnswersRight' <=> AnswersRight
      BY <1>11 DEF AnswersRight, ScopeNeverBroadened, ShownWithinAccess, NoDataIsNothing,
         CallsOfTheScope, PhoneAnswerExact, PhoneCountExact, NumberFoundHoweverWritten, PhoneTool,
         ShownCalls, OkMeansWhole, OkLeavesNothingOut, EvidenceRight, EveryEvaluationLands,
         ReadersAgree, EveryObservationLands, OkForEveryReader, Answered, Comparable,
         AnswerTypeOK
    <2> QED  BY <2>1
  <1> QED  BY <1>8, <1>9, <1>10, <1>11 DEF AnalyticsNext

LEMMA AnswersInit == answer = Silent => AnswersRight
  <1> SUFFICES ASSUME answer = Silent PROVE AnswersRight
    OBVIOUS
  <1>1. answer.tool = "none" /\ answer.status = "none"
    BY DEF Silent
  <1>2. /\ ScopeNeverBroadened /\ ShownWithinAccess /\ NoDataIsNothing
        /\ CallsOfTheScope /\ PhoneAnswerExact
    BY <1>1 DEF ScopeNeverBroadened, ShownWithinAccess, NoDataIsNothing,
       CallsOfTheScope, PhoneAnswerExact, PhoneCountExact, NumberFoundHoweverWritten, PhoneTool,
       UnscopedTools, ScopedTools, CallToolNames, PersonalTools
  <1>3. OkMeansWhole /\ OkLeavesNothingOut
    BY <1>1 DEF OkMeansWhole, OkLeavesNothingOut
  <1>4. EvidenceRight
    BY <1>1 DEF EvidenceRight, EveryEvaluationLands, ReadersAgree, EveryObservationLands,
       OkForEveryReader, Answered
  <1>5. AnswerTypeOK
    BY DEF AnswerTypeOK
  <1> QED  BY <1>2, <1>3, <1>4, <1>5 DEF AnswersRight

LEMMA AnswersHold == AnalyticsSpec => []AnswersRight
  BY AnswersInit, AnswersStep, PTL DEF AnalyticsSpec

-------------------------------------------------------------------------------

(* Every answer has one of the statuses and is about one department by its  *)
(* id, one employee, both or everything, for any question to any tool       *)
(* (AnalyticsAdapter.dispatch, envelope).                                   *)
THEOREM AnswersTyped == AnalyticsSpec => []AnswerTypeOK
  <1>1. AnswersRight => AnswerTypeOK
    BY DEF AnswersRight
  <1> QED  BY <1>1, AnswersHold, PTL

(* For any departments, names, people and answers of OKK, no selection that *)
(* fails or is ambiguous, and no employee of somewhere else, widens a       *)
(* report (resolve_department, scoped_employee, resolve_entity_scope).      *)
THEOREM ScopesKept == AnalyticsSpec => []ScopeNeverBroadened
  <1>1. AnswersRight => ScopeNeverBroadened
    BY DEF AnswersRight
  <1> QED  BY <1>1, AnswersHold, PTL

(* For any account and any rows OKK may send, a tool shows no department,   *)
(* person or call beyond the account and the question (departments,         *)
(* _ground_employee_rows, employee, _visible_call).                         *)
THEOREM AccessKept == AnalyticsSpec => []NothingBeyondAccess
  <1>1. AnswersRight => NothingBeyondAccess
    BY DEF AnswersRight, NothingBeyondAccess
  <1> QED  BY <1>1, AnswersHold, PTL

(* "no_data" is never an outage, a platform without plans, an unusable      *)
(* snapshot or a row left out in disguise, for any rows OKK may send: of    *)
(* the rows that were read, none is in the scope with anything to report.   *)
THEOREM NoDataHolds == AnalyticsSpec => []NoDataIsNothing
  <1>1. AnswersRight => NoDataIsNothing
    BY DEF AnswersRight
  <1> QED  BY <1>1, AnswersHold, PTL

(* For any directory, rows, journal, catalog and page of OKK, an "ok" hides *)
(* no gap: no short directory, no row under another name, no missing part,  *)
(* no call left out or unplaced, and the pages of a scenario hold each of   *)
(* its calls once (_ground_employee_rows, _calls_of_scenario,               *)
(* list_call_transcripts, search_call_transcripts).                         *)
THEOREM GapsShow == AnalyticsSpec => []OkHidesNoGap
  <1>1. AnswersRight => OkHidesNoGap
    BY DEF AnswersRight, OkHidesNoGap
  <1> QED  BY <1>1, AnswersHold, PTL

(* For any catalog and any journal, every evaluation is counted in exactly  *)
(* one scenario and every observation under exactly one criterion, or as    *)
(* left out (get_scenario_performance, get_criterion_performance).          *)
THEOREM EvidenceCounted == AnalyticsSpec => []EvidenceLands
  <1>1. AnswersRight => EvidenceLands
    BY DEF AnswersRight, EvidenceRight, EvidenceLands
  <1> QED  BY <1>1, AnswersHold, PTL

(* For any catalog and any journal of an OKK that shows each version under  *)
(* one code, the archive changes no count: a reader and an administrator    *)
(* who is answered the same scope see the same evaluations of a scenario,   *)
(* no pass rate of another norm and, under an "ok", the same observations   *)
(* (_scenario_versions_by_code, _call_scenario_code, _shared_passing_score).*)
THEOREM ReadersCountAlike == AnalyticsSpec => []EveryReaderAgrees
  <1>1. AnswersRight => EveryReaderAgrees
    BY DEF AnswersRight, EvidenceRight, EveryReaderAgrees
  <1> QED  BY <1>1, AnswersHold, PTL

(* For numbers of any length and any page of OKK, a lookup counts only calls*)
(* that answer the search, and finds the number however it was written      *)
(* (_normalized_phone_filter, _phone_matches, list_call_phone_records).     *)
THEOREM LookupsExact == AnalyticsSpec => []PhoneAnswerExact
  <1>1. AnswersRight => PhoneAnswerExact
    BY DEF AnswersRight
  <1> QED  BY <1>1, AnswersHold, PTL
===============================================================================
