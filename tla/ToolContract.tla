------------------------------ MODULE ToolContract -----------------------------
(* What the client of one MCP tool call may conclude from its answer,       *)
(* whatever reads, repeats and renewals it took (docs/tool-catalog.md,      *)
(* "Common response envelope"): a verdict is given once and rests on        *)
(* evidence OKK really gave; an outage is never an empty answer.            *)

CONSTANT Reads

VARIABLES
    verdict,   \* "pending", then the answer
    evidence   \* what each read has brought: nothing yet, usable data, a
               \* refusal, an ended account session, an outage, an error of
               \* its own, or it was dropped

contractVars == <<verdict, evidence>>

Evidence == {"none", "good", "refused", "ended", "outage", "broken", "dropped"}
Verdicts == {"answered", "not_available", "reconnect", "unavailable", "failed",
             "stopped", "limited", "step_up"}

ContractInit ==
    /\ verdict = "pending"
    /\ evidence = [r \in Reads |-> "none"]

(* The verdict each failure carries.                                       *)
Carries == [refused |-> "not_available", ended |-> "reconnect",
            outage |-> "unavailable", broken |-> "failed"]

(* A read ends. A good one lets the call go on; another decides it, unless  *)
(* it is decided already.                                                   *)
Learn(r, e) ==
    /\ evidence[r] = "none" /\ e \in Evidence \ {"none", "dropped"}
    /\ evidence' = [evidence EXCEPT ![r] = e]
    /\ verdict' = IF e # "good" /\ verdict = "pending" THEN Carries[e] ELSE verdict

(* Only a call all of whose reads were good is answered.                    *)
Answer ==
    /\ verdict = "pending"
    /\ \A r \in Reads : evidence[r] = "good"
    /\ verdict' = "answered"
    /\ UNCHANGED evidence

(* Before anything was read.                                                *)
TurnAway ==
    /\ verdict = "pending"
    /\ \A r \in Reads : evidence[r] = "none"
    /\ verdict' \in {"limited", "step_up"}
    /\ UNCHANGED evidence

(* The time is up: every read that has not ended is dropped with the call.  *)
Stop ==
    /\ verdict = "pending"
    /\ verdict' = "stopped"
    /\ evidence' = [r \in Reads |-> IF evidence[r] = "none" THEN "dropped" ELSE evidence[r]]

ContractNext ==
    \/ \E r \in Reads, e \in Evidence : Learn(r, e)
    \/ Answer \/ TurnAway \/ Stop

ContractSpec == ContractInit /\ [][ContractNext]_contractVars
===============================================================================
