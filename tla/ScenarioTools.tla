----------------------------- MODULE ScenarioTools ----------------------------
(* The tools of backend_client.py about call scenarios and their criteria.  *)
(* OKK republishes a scenario as a new version under the same code and      *)
(* archives the old one under a code that may be cut; only an administrator *)
(* reads the archive, yet every reader counts the same evaluations. The     *)
(* placement of a call in its scenario is shared with CallTools.            *)
EXTENDS AnalyticsScope, Sequences, SequencesExt, FiniteSetsExt

CONSTANTS
    Versions,       \* scenario versions, by id
    Codes,          \* scenario codes without the suffix of the archive
    Catalogs,       \* the scenario catalogs OKK may hold
    Norms,          \* the passing scores of an older OKK
    Criteria,       \* criteria, by id: each belongs to one version
    VersionOf,      \* VersionOf[i]: that version
    CriterionCode,  \* CriterionCode[i]: the code kept across versions, or None
    Critical,       \* the criteria that only deduct points
    EvaluatedCalls, \* the calls a journal of evaluations may hold
    AskedCriteria,  \* the criteria callers ask for
    MaxCalls,       \* bound: calls in a journal
    ScenarioScopes  \* the questions asked

VersionRows == [code : Codes \cup {None}, current : BOOLEAN,
                home : Departments \cup {None}, norm : Norms \cup {None}]

(* A call as the journal shows it: the version it was evaluated on, the     *)
(* code OKK shows for it, its department, whether it carries a score, what  *)
(* OKK says of the norm, whether the score reaches the passing score, and   *)
(* the criteria its detail lists (none when the detail is closed by now).   *)
CallRecords == [version : Versions \cup {None}, code : Codes \cup {None},
                department : Departments, scored : BOOLEAN,
                quality : {"norm", "below_norm", "none"}, passes : BOOLEAN,
                criteria : SUBSET Criteria]

ASSUME ScenariosAssumption ==
    /\ Catalogs \subseteq [Versions -> VersionRows]
    /\ VersionOf \in [Criteria -> Versions]
    /\ CriterionCode \in [Criteria -> Codes \cup {None}]
    /\ Critical \subseteq Criteria
    /\ EvaluatedCalls \subseteq CallRecords
    /\ MaxCalls \in Nat
    /\ None \notin Versions \cup Codes
    /\ ScenarioScopes \subseteq ScopeQuestions

-------------------------------------------------------------------------------

(* scenarios(): the versions OKK lists for a department or for all of them, *)
(* the archived ones only for an administrator who needs them.              *)
Readable(q, catalog, department, archive) ==
    LET refused == department # None /\ department \notin Visible(q)
    IN {v \in Versions : /\ ~refused
                         /\ department \in {None, catalog[v].home}
                         /\ catalog[v].home \in q.okk.departments \cup {None}
                         /\ catalog[v].current \/ (archive /\ q.account.admin)}

\* Slip: archived versions keep their own, cut code.
VersionCodesAsListed(readable, catalog, calls) ==
    [v \in readable |-> IF catalog[v].code # None THEN catalog[v].code ELSE v]

(* _scenario_versions_by_code(): an archived version takes the code OKK     *)
(* shows on its calls; one without any code stands alone under its id.      *)
VersionCodes(readable, catalog, calls) ==
    LET coded(v) == {i \in DOMAIN calls : calls[i].version = v /\ calls[i].code # None}
    IN [v \in readable |->
          IF ~catalog[v].current /\ coded(v) # {} THEN calls[Min(coded(v))].code
          ELSE IF catalog[v].code # None THEN catalog[v].code ELSE v]

(* _call_scenario_code(): by the version where it can be read.              *)
CallCode(call, codes) ==
    IF call.version \in DOMAIN codes THEN codes[call.version] ELSE call.code

(* _calls_of_scenario(): the calls made on any version of the scenario, and *)
(* those on a version nobody can place; a call without a version has none.  *)
CallsOfScenario(calls, code, codes) ==
    LET made == {i \in DOMAIN calls : calls[i].version # None}
    IN [selected |-> {i \in made : CallCode(calls[i], codes) = code},
        excluded |-> {i \in made : CallCode(calls[i], codes) = None}]

(* _shared_passing_score(): one passing score of versions all readable.     *)
SharedNorm(versions, readable, catalog) ==
    LET norms == {IF v \in readable THEN catalog[v].norm ELSE None : v \in versions}
    IN IF Cardinality(norms) = 1 THEN CHOOSE n \in norms : TRUE ELSE None

(* _pass_rate(): by OKK's own verdicts, else by the shared passing score.   *)
PassRate(calls, group, norm) ==
    LET rated == {i \in group : calls[i].quality # "none"}
    IN IF group = {} THEN None
       ELSE IF rated = group THEN Cardinality({i \in group : calls[i].quality = "norm"})
       ELSE IF norm # None /\ rated = {} THEN Cardinality({i \in group : calls[i].passes})
       ELSE None

(* The journal of a department, or of every department OKK shows: the calls *)
(* of it under their place in OKK's journal.                                *)
JournalOf(calls, department) ==
    Restrict(calls, {i \in DOMAIN calls : department \in {None, calls[i].department}})

(* The one department of the chosen versions, when the caller named none    *)
(* and it can be seen.                                                      *)
Inferred(q, catalog, versions, department) ==
    LET homes == {catalog[v].home : v \in versions} \ {None}
    IN IF department = None /\ Cardinality(homes) = 1 /\ homes \subseteq Visible(q)
       THEN CHOOSE home \in homes : TRUE ELSE department

-------------------------------------------------------------------------------

(* list_scenarios: the archive is asked for, and applied for administrators.*)
ListScenarios(q, d) ==
    LET rows == Readable(q, d.catalog, Named(q), d.historical)
    IN \/ Misses(q) /\ NotAvailable("scenarios", q, d)
       \/ ~Misses(q) /\ Envelope("scenarios", q, d, IF rows = {} THEN "no_data" ELSE "ok",
                                 About(Named(q), None), rows)

(* get_scenario_criteria: of one version, in its department.                *)
GetScenarioCriteria(q, d) ==
    LET rows == Readable(q, d.catalog, Named(q), TRUE)
        home == IF Named(q) # None THEN Named(q) ELSE d.catalog[d.scenario].home
    IN \/ /\ Misses(q) \/ d.scenario \notin rows \/ home \notin Visible(q)
          /\ NotAvailable("criteria", q, d)
       \/ /\ ~Misses(q) /\ d.scenario \in rows /\ home \in Visible(q)
          /\ Envelope("criteria", q, d, "ok", About(home, None), {d.scenario})

(* _resolve_transcript_scope(): the scope of a tool that may also name a    *)
(* scenario version; then the department is that of the version.            *)
TranscriptScope(q, catalog, scenario) ==
    LET scope == Scope(q)
        rows == Readable(q, catalog, scope.department, TRUE)
        home == catalog[scenario].home
        department == IF scope.department # None THEN scope.department ELSE home
    IN IF scope.invalid \/ scenario = None
       THEN [invalid |-> scope.invalid, about |-> About(scope.department, scope.employee),
             rows |-> {}]
       ELSE [invalid |-> \/ scenario \notin rows \/ department \notin Visible(q)
                         \/ scope.employee # None /\ scope.department # home,
             about |-> About(department, scope.employee), rows |-> rows]

\* Slip: evaluations of a scenario with no version left are not counted.
UnplacedNameless(calls, evaluated, codes, wanted) ==
    {i \in evaluated : CallCode(calls[i], codes) = None}

(* The evaluations of no scenario, or of none of those that are reported.   *)
Unplaced(calls, evaluated, codes, wanted) ==
    {i \in evaluated : CallCode(calls[i], codes) \notin wanted}

(* get_scenario_performance for the requested versions, or for all current  *)
(* ones: the evaluations of each scenario, its pass rate, and the           *)
(* evaluations that could not be placed.                                    *)
Performance(q, d) ==
    LET scope == Scope(q)
        rows == Readable(q, d.catalog, scope.department, d.requested # {})
        effective == IF d.requested = {} THEN rows ELSE d.requested \cap rows
        department == Inferred(q, d.catalog, effective, scope.department)
        calls == JournalOf(d.calls, department)
        codes == VersionCodes(rows, d.catalog, calls)
        wanted == {codes[v] : v \in effective}
        evaluated == {i \in DOMAIN calls : calls[i].scored}
        of(code) == {i \in evaluated : CallCode(calls[i], codes) = code}
        rate(code) == PassRate(calls, of(code),
                          SharedNorm({calls[i].version : i \in of(code)}, rows, d.catalog))
    IN [effective |-> effective, calls |-> calls,
        about |-> About(department, scope.employee),
        groups |-> [code \in wanted |-> of(code)],
        rates |-> [code \in wanted |-> rate(code)],
        excluded |-> Unplaced(calls, evaluated, codes,
                              IF d.requested = {} THEN wanted ELSE Codes \cup Versions)]

GetScenarioPerformance(q, d) ==
    LET scope == Scope(q)
    IN \/ scope.invalid /\ NotAvailable("scenario_performance", q, d)
       \/ /\ ~scope.invalid
          /\ \E report \in {Performance(q, d)} :
               \/ /\ d.requested # {} /\ report.effective = {}
                  /\ Envelope("scenario_performance", q, d, "not_available",
                              About(scope.department, scope.employee), {})
               \/ /\ d.requested = {} \/ report.effective # {}
                  /\ Envelope("scenario_performance", q, d,
                              IF ~d.whole \/ report.excluded # {} THEN "partial"
                              ELSE IF report.effective # {} THEN "ok" ELSE "no_data",
                              report.about, report)

(* get_criterion_performance: a criterion is one code within one scenario   *)
(* across its versions, shown by the current one; the lists of criteria and *)
(* of critical errors are cut to `limit` each.                              *)
ObservationsIn(d, rows, calls, codes, about) ==
    LET ofScenario(code) == d.scenario = None \/ code = codes[d.scenario]
        readable == {i \in Criteria : VersionOf[i] \in rows /\ ofScenario(codes[VersionOf[i]])}
        key(i) == <<codes[VersionOf[i]], IF CriterionCode[i] # None THEN CriterionCode[i] ELSE i>>
        effective == IF d.requested = {} THEN readable ELSE d.requested \cap readable
        keys == {key(i) : i \in effective}
        scored == {c \in DOMAIN calls : calls[c].scored}
        placed == {c \in scored : ofScenario(CallCode(calls[c], codes))}
        unknown == {c \in scored : d.scenario # None /\ CallCode(calls[c], codes) = None}
        seen == {i \in readable : key(i) \in keys /\ \E c \in placed : i \in calls[c].criteria}
        critical == {key(i) : i \in seen \cap Critical}
        quality == {key(i) : i \in seen} \ critical
    IN [effective |-> effective, calls |-> calls, about |-> about,
        observed |-> [k \in critical \cup quality |->
                        {o \in placed \X seen : key(o[2]) = k /\ o[2] \in calls[o[1]].criteria}],
        unreadable |-> UNION {{<<c, i>> : i \in calls[c].criteria \ readable} : c \in placed},
        excluded |-> unknown \cup {c \in placed : \/ calls[c].criteria = {}
                                                  \/ ~(calls[c].criteria \subseteq readable)},
        cut |-> Cardinality(critical) > d.limit \/ Cardinality(quality) > d.limit]

(* The same for a question: the rows and the calls it is about.            *)
Observations(q, d) ==
    LET scope == Scope(q)
        rows == Readable(q, d.catalog, scope.department, TRUE)
        department == IF d.scenario = None THEN scope.department
                      ELSE Inferred(q, d.catalog, {d.scenario}, scope.department)
        calls == JournalOf(d.calls, department)
    IN ObservationsIn(d, rows, calls, VersionCodes(rows, d.catalog, calls),
                      About(department, scope.employee))

GetCriterionPerformance(q, d) ==
    LET scope == Scope(q)
        rows == Readable(q, d.catalog, scope.department, TRUE)
        foreign == \/ d.scenario # None /\ d.scenario \notin rows
                   \/ /\ d.scenario # None /\ scope.department = None
                      /\ d.catalog[d.scenario].home \notin Visible(q)
    IN \/ (scope.invalid \/ foreign) /\ NotAvailable("criterion_performance", q, d)
       \/ /\ ~scope.invalid /\ ~foreign
          /\ \E report \in {Observations(q, d)} :
               \/ /\ d.requested # {} /\ report.effective = {}
                  /\ Envelope("criterion_performance", q, d, "not_available", report.about, {})
               \/ /\ d.requested = {} \/ report.effective # {}
                  /\ Envelope("criterion_performance", q, d,
                              IF \/ ~d.whole \/ d.missed
                                 \/ report.cut \/ report.excluded # {} THEN "partial"
                              ELSE IF DOMAIN report.observed # {} THEN "ok" ELSE "no_data",
                              report.about, report)

-------------------------------------------------------------------------------

Journals == BoundedSeq(EvaluatedCalls, MaxCalls)

ScenarioInit == answer = Silent

ScenarioNext ==
    /\ Asked
    /\ \E q \in ScenarioScopes, catalog \in Catalogs :
         \/ \E d \in [catalog : {catalog}, historical : BOOLEAN] : ListScenarios(q, d)
         \/ \E d \in [catalog : {catalog}, scenario : Versions] : GetScenarioCriteria(q, d)
         \/ \E d \in [catalog : {catalog}, calls : Journals, whole : BOOLEAN,
                      requested : {{}} \cup {{v} : v \in Versions}] :
               GetScenarioPerformance(q, d)
         \/ \E d \in [catalog : {catalog}, calls : Journals, whole : {TRUE}, missed : BOOLEAN,
                      scenario : Versions \cup {None}, requested : {{}} \cup {{i} : i \in AskedCriteria},
                      limit : {1, Cardinality(Criteria)}] :
               GetCriterionPerformance(q, d)

ScenarioSpec == ScenarioInit /\ [][ScenarioNext]_answer

-------------------------------------------------------------------------------

Answered(tool) == answer.tool = tool /\ answer.status # "not_available"

(* What names the scenario of a call: its version, the code of the catalog, *)
(* and what OKK shows on the calls of that version.                         *)
NamesOfCall(calls, catalog, i) ==
    LET version == {calls[i].version} \ {None}
    IN version \cup {catalog[v].code : v \in version}
       \cup {calls[j].code : j \in {j \in DOMAIN calls : calls[j].version = calls[i].version}}

(* Unless scenarios were asked for, every evaluation of the journal lands   *)
(* in exactly one scenario or is counted as excluded, whichever version it  *)
(* was made on, archived ones and cut codes included; for requested ones    *)
(* only evaluations that name another scenario are left out, and an "ok"    *)
(* leaves none out ("every evaluation must land").                          *)
EveryEvaluationLands ==
    Answered("scenario_performance") =>
        LET report == answer.shown
            evaluated == {i \in DOMAIN report.calls : report.calls[i].scored}
            landed == {i \in evaluated : \E c \in DOMAIN report.groups : i \in report.groups[c]}
        IN /\ \A i \in landed : i \notin report.excluded /\
                 Cardinality({c \in DOMAIN report.groups : i \in report.groups[c]}) = 1
           /\ answer.d.requested = {} => landed \cup report.excluded = evaluated
           /\ \A i \in evaluated \ landed :
                 \/ i \in report.excluded
                 \/ (NamesOfCall(report.calls, answer.d.catalog, i) \ DOMAIN report.groups)
                      \cap (Codes \cup Versions) # {}
           /\ answer.status = "ok" /\ answer.d.requested = {} => landed = evaluated

(* OKK shows each version under one code, on every call made on it.         *)
ShownAlike(calls) ==
    \A i, j \in DOMAIN calls :
        calls[i].version = calls[j].version /\ calls[i].version # None =>
            calls[i].code = calls[j].code /\ calls[i].code # None

AsAdmin(q) == [q EXCEPT !.account = [admin |-> TRUE, departments |-> {}]]
Comparable == ShownAlike(answer.shown.calls) /\ ~Scope(AsAdmin(answer.q)).invalid

(* The archive only an administrator reads changes no count: where OKK      *)
(* shows a version under one code, a reader without the archive counts the  *)
(* same evaluations for a scenario as an administrator who asks the same    *)
(* and is answered, and never sees a pass rate against another norm: the    *)
(* same one or none (_scenario_versions_by_code, _call_scenario_code,       *)
(* _shared_passing_score).                                                  *)
ReadersAgree ==
    Answered("scenario_performance") /\ Comparable =>
        \A admin \in {Performance(AsAdmin(answer.q), answer.d)}, viewer \in {answer.shown} :
           admin.about = viewer.about =>
             \A c \in DOMAIN viewer.groups \cap DOMAIN admin.groups :
                 /\ viewer.groups[c] = admin.groups[c]
                 /\ None \in {viewer.rates[c], admin.rates[c]} \/ viewer.rates[c] = admin.rates[c]

(* Every criterion of every evaluation is either one observation of one     *)
(* shown criterion or counted as unreadable, and an evaluation whose detail *)
(* is closed is counted too; an "ok" leaves none out.                       *)
EveryObservationLands ==
    Answered("criterion_performance") /\ answer.d.requested = {} /\ answer.d.scenario = None =>
        LET report == answer.shown
            made == UNION {{<<c, i>> : i \in report.calls[c].criteria} :
                             c \in {c \in DOMAIN report.calls : report.calls[c].scored}}
            landed(o) == {k \in DOMAIN report.observed : o \in report.observed[k]}
        IN /\ \A o \in made : IF o \in report.unreadable THEN landed(o) = {}
                               ELSE Cardinality(landed(o)) = 1
           /\ \A c \in DOMAIN report.calls :
                 report.calls[c].scored /\ report.calls[c].criteria = {} => c \in report.excluded
           /\ answer.status = "ok" => report.unreadable = {} /\ report.excluded = {}

(* A reader without the archive who is told "ok" has the same observations  *)
(* of every criterion as an administrator asking the same.                  *)
OkForEveryReader ==
    Answered("criterion_performance") /\ answer.status = "ok" /\ Comparable =>
        \A admin \in {Observations(AsAdmin(answer.q), answer.d)} :
           admin.about = answer.about => admin.observed = answer.shown.observed
===============================================================================
