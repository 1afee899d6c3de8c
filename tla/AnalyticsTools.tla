----------------------------- MODULE AnalyticsTools ----------------------------
(* Every tool of AnalyticsAdapter.dispatch() over one scope and one         *)
(* envelope, and what their answers promise together.                       *)
EXTENDS ReportTools, CallTools

(* One question to one tool.                                                *)
AnalyticsNext == ReportNext \/ ScenarioNext \/ CallNext
AnalyticsSpec == answer = Silent /\ [][AnalyticsNext]_answer

(* Nothing is shown beyond the access of the account and the scope that was *)
(* asked for: reports by department and person, lists and searches of calls *)
(* row by row (departments(), _ground_employee_rows(), _visible_call()).    *)
NothingBeyondAccess == ShownWithinAccess /\ CallsOfTheScope

(* "ok" hides no gap, each tool of the sources it answers for: a directory  *)
(* cut short, rows under another name, a part of OKK that is missing, calls *)
(* left out or not placed. OkMeansWhole says which tool answers for what.   *)
OkHidesNoGap == OkMeansWhole /\ OkLeavesNothingOut

(* An administrator and a reader without the archive who ask the same get   *)
(* the same counts, unless the answer says that something is missing.       *)
EveryReaderAgrees == ReadersAgree /\ OkForEveryReader

(* Each evaluation and each observation of a criterion is counted once, or  *)
(* counted as left out.                                                     *)
EvidenceLands == EveryEvaluationLands /\ EveryObservationLands

(* A phone lookup finds the number however it was written, and a count of   *)
(* its calls is OKK's own.                                                  *)
PhoneAnswerExact == PhoneCountExact /\ NumberFoundHoweverWritten
===============================================================================
