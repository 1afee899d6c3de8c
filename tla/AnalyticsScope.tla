---------------------------- MODULE AnalyticsScope ----------------------------
(* What one tool call may look at (AnalyticsAdapter of backend_client.py):  *)
(* the visible departments, the resolution of what the caller named, and    *)
(* the second check of every call and employee OKK hands over. The tools    *)
(* of ReportTools, ScenarioTools and CallTools are built from these         *)
(* operators; all of them put what was asked and answered into `answer`.    *)
EXTENDS Naturals, FiniteSets

CONSTANTS
    Departments,  \* the departments of OKK, by id
    Names,        \* normalized names, codes and acronyms a caller may use
    NamesOf,      \* NamesOf[d]: the keys of _department_selector_keys
    People,       \* employees and supervisors of OKK, by id
    None          \* no department, no person, no call

ASSUME NamesAssumption ==
    /\ NamesOf \in [Departments -> SUBSET Names]
    /\ Names \cap Departments = {} /\ People \cap Departments = {}
    /\ None \notin Departments \cup Names \cup People
    /\ IsFiniteSet(People)

VARIABLE
    answer        \* the question a tool was asked and its envelope

-------------------------------------------------------------------------------

(* GET /auth/me as the token verifier saw it: validated once per tool call. *)
Accounts == [admin : BOOLEAN, departments : SUBSET Departments]

(* What OKK answers this account while the call runs: the rows of           *)
(* /departments, the live card of each person (its department, or None when *)
(* OKK refuses it or the card has another id or no name) and the rows of    *)
(* /employees/restricted (none when OKK refuses the section).               *)
OkkAnswers == [departments : SUBSET Departments,
               directory : [People -> Departments \cup {None}],
               restricted : SUBSET People]

\* Slip: the gateway relies on OKK's list alone.
OkkDepartments(account, okk) == okk.departments

(* departments(): the gateway's own intersection, on top of OKK's.          *)
VisibleDepartments(account, okk) ==
    IF account.admin THEN okk.departments
                     ELSE okk.departments \cap account.departments

NothingGranted(account) == ~account.admin /\ account.departments = {}

(* An id stands for its department, any other word for those it names.      *)
Matches(account, okk, selector) ==
    LET visible == VisibleDepartments(account, okk)
    IN IF selector \in visible THEN {selector}
       ELSE {d \in visible : selector \in NamesOf[d]}

\* Slip: an ambiguous name stands for one of its departments.
ResolveSomeDepartment(account, okk, selectors) ==
    LET agreed == {d \in Departments :
                     \A s \in selectors : d \in Matches(account, okk, s)}
    IN IF selectors # {} /\ agreed # {} THEN CHOOSE d \in agreed : TRUE ELSE None

(* resolve_department for the selectors that were supplied: each names the  *)
(* same one visible department, or the whole selection fails.               *)
ResolveDepartment(account, okk, selectors) ==
    LET agreed == {d \in Departments :
                     \A s \in selectors : Matches(account, okk, s) = {d}}
    IN IF selectors # {} /\ agreed # {} THEN CHOOSE d \in agreed : TRUE ELSE None

(* employee(): the department of a live card the account may see.           *)
EmployeeDepartment(account, okk, person) ==
    LET home == okk.directory[person]
    IN IF home \in VisibleDepartments(account, okk) THEN home ELSE None

(* scoped_employee(): and of the requested department, when there is one.   *)
InScope(account, okk, person, department) ==
    LET home == EmployeeDepartment(account, okk, person)
    IN home # None /\ department \in {None, home}

(* resolve_entity_scope(): an employee alone brings in the own department.  *)
EntityScope(account, okk, selectors, person) ==
    LET named == ResolveDepartment(account, okk, selectors)
        refused == [department |-> None, employee |-> None, invalid |-> TRUE]
    IN IF selectors # {} /\ named = None THEN refused
       ELSE IF person = None
       THEN [department |-> named, employee |-> None, invalid |-> FALSE]
       ELSE IF InScope(account, okk, person, named)
       THEN [department |-> EmployeeDepartment(account, okk, person),
             employee |-> person, invalid |-> FALSE]
       ELSE [refused EXCEPT !.department = named]

-------------------------------------------------------------------------------

(* A call as OKK sends it: whose it is, who its employee card names, the    *)
(* department nested in that card, and the call's own department.           *)
CallRows == [employee : People \cup {None}, card : People \cup {None},
             cardDepartment : Departments \cup {None},
             department : Departments \cup {None}]

Hidden == [kind |-> "hidden", employee |-> None, department |-> None]

(* The department _visible_call judges a call by: the nested one, else the  *)
(* call's own, else that of the live directory.                             *)
CallDepartment(account, okk, row) ==
    IF row.cardDepartment # None THEN row.cardDepartment
    ELSE IF row.department # None THEN row.department
    ELSE EmployeeDepartment(account, okk, row.employee)

(* _visible_call(): the row as a call, as a supervisor's call, or hidden.   *)
VisibleCall(account, okk, row, department, person) ==
    IF \/ row.employee = None
       \/ person \notin {None, row.employee}
       \/ row.card \notin {None, row.employee}
    THEN Hidden
    ELSE IF /\ row.cardDepartment = None
            /\ row.employee \in okk.restricted
            /\ department = None
    THEN [kind |-> "supervisor", employee |-> row.employee, department |-> None]
    ELSE LET home == CallDepartment(account, okk, row)
         IN IF \/ home = None
               \/ department \notin {None, home}
               \/ ~account.admin /\ home \notin VisibleDepartments(account, okk)
            THEN Hidden
            ELSE [kind |-> "call", employee |-> row.employee, department |-> home]

(* employees(): the rows of the directory pages that belong to the roster   *)
(* of a department, or to all visible ones; the others are excluded. The    *)
(* reading of the pages is JournalPages.                                    *)
Listings == [listed : SUBSET People, whole : BOOLEAN]

Roster(account, okk, listing, department) ==
    LET visible == VisibleDepartments(account, okk)
        rows == {e \in listing.listed : InScope(account, okk, e, department)}
    IN IF department # None /\ department \notin visible
       THEN [rows |-> {}, whole |-> FALSE, excluded |-> 0]
       ELSE IF NothingGranted(account)
       THEN [rows |-> {}, whole |-> TRUE, excluded |-> 0]
       ELSE [rows |-> rows, whole |-> listing.whole,
             excluded |-> Cardinality(listing.listed \ rows)]

(* _ground_employee_rows(): rows OKK sends about people, some under another *)
(* name than the directory's; only those of the roster stay.                *)
PeopleRows == {rows \in [of : SUBSET People, misnamed : SUBSET People] :
                 rows.misnamed \subseteq rows.of}

\* Slip: rows under another name are not counted.
GroundedByIdOnly(rows, roster) ==
    [kept |-> rows.of \cap roster,
     removed |-> Cardinality(rows.of \ roster),
     renamed |-> 0]

Grounded(rows, roster) ==
    [kept |-> rows.of \cap roster,
     removed |-> Cardinality(rows.of \ roster),
     renamed |-> Cardinality(rows.of \cap roster \cap rows.misnamed)]

-------------------------------------------------------------------------------

(* A question of the caller: with which account, with what OKK will answer, *)
(* and the department and the employee it names (the server passes at most  *)
(* one selector; a blank one is None and names nothing).                    *)
Selections == {{}} \cup {{s} : s \in Departments \cup Names \cup {None}}

ScopeQuestions == [account : Accounts, okk : OkkAnswers,
                   selectors : Selections, person : People \cup {None}]

Named(q) == ResolveDepartment(q.account, q.okk, q.selectors)
Scope(q) == EntityScope(q.account, q.okk, q.selectors, q.person)
Misses(q) == q.selectors # {} /\ Named(q) = None
Visible(q) == VisibleDepartments(q.account, q.okk)

About(department, employee) == [department |-> department, employee |-> employee]
Everything == About(None, None)

(* The envelope: `q` is the question, `d` the rows OKK sent for it, `about` *)
(* the department and employee of effective_scope, `shown` what the payload *)
(* shows.                                                                   *)
Envelope(tool, q, d, status, about, shown) ==
    answer' = [tool |-> tool, q |-> q, d |-> d,
               status |-> status, about |-> about, shown |-> shown]

NotAvailable(tool, q, d) == Envelope(tool, q, d, "not_available", Everything, {})

(* One question per behaviour: the adapter of a tool call keeps nothing.    *)
Silent == [tool |-> "none", status |-> "none"]
Asked == answer = Silent

Statuses == {"ok", "partial", "no_data", "not_available", "error"}

(* An answer is about one department by its id, one employee, both or       *)
(* everything, and has a status; "error" is a call that raised instead.     *)
AnswerTypeOK ==
    answer # Silent =>
        /\ answer.q \in ScopeQuestions
        /\ answer.status \in Statuses
        /\ answer.about \in [department : Departments \cup {None}, employee : People \cup {None}]
===============================================================================
