-------------------------------- MODULE ToolCall -------------------------------
(* One MCP tool call that reads OKK (server.py, BackendClient.get and the   *)
(* reads of platform_client.py): the scope check, the limit, the time       *)
(* budget, the reads of one stage side by side, the repeats after failures  *)
(* in transit, the one renewal of an expired OKK token, and how the first   *)
(* failure ends the call while the reads beside it go on. The renewal       *)
(* itself is AccountSession, the counters are Throttle.                     *)
EXTENDS Naturals, FiniteSets

CONSTANTS
    Reads,      \* the reads of the tool
    Stage,      \* Stage[r]: the reads of one stage are started together
    Bounded,    \* reads under the semaphore of the call (_bounded)
    Parallel,   \* analytics_parallel_requests
    Lookups,    \* the two POST reads
    KeepsAbsent, KeepsDown,  \* reads whose refusal, or outage, the tool shows
                             \* as a part that is missing
    Required, Grants  \* scopes of the tool, and those a connection may have

ASSUME ToolAssumption ==
    /\ Stage \in [Reads -> Nat] /\ Parallel \in Nat \ {0} /\ IsFiniteSet(Reads)
    /\ Bounded \cup Lookups \cup KeepsAbsent \cup KeepsDown \subseteq Reads

VARIABLES
    phase,     \* "new", "counting", "running", or the verdict
    granted,   \* scopes of the connection's token
    read,      \* read[r]: how far, or how it ended
    sent,      \* requests sent for it so far, while it is open
    tries,     \* those with the token it uses now
    renewed    \* it has renewed the token

toolVars == <<phase, granted, read, sent, tries, renewed>>

Tries == 3   \* the first request and two repeats (_READ_RETRY_DELAYS_SECONDS)

OpenReads == {"sent", "pause", "renewing"}

(* How a read ends: with data, with an answer of OKK that is not (the       *)
(* refusals 403 and 409, 404, another 4xx or a body that is not JSON, 500), *)
(* lost three times in transit, a second 401, a renewal that found the      *)
(* session over, OKK away or the database failing, or cancelled.            *)
Answers == {"data", "refusal", "not_found", "rejected", "error"}
Fates == Answers \cup {"lost", "expired", "over", "away", "database", "cancelled"}

Verdicts == {"answered", "stopped", "limited", "step_up",
             "not_available", "reconnect", "unavailable", "failed"}

ToolTypeOK ==
    /\ phase \in {"new", "counting", "running"} \cup Verdicts
    /\ granted \in Grants
    /\ read \in [Reads -> {"waiting", "queued"} \cup OpenReads \cup Fates]
    /\ sent \in [Reads -> 0..2 * Tries]
    /\ tries \in [Reads -> 0..Tries]
    /\ renewed \in [Reads -> BOOLEAN]

ToolInit ==
    /\ phase = "new"
    /\ granted \in Grants
    /\ read = [r \in Reads |-> "waiting"]
    /\ sent = [r \in Reads |-> 0]
    /\ tries = [r \in Reads |-> 0]
    /\ renewed = [r \in Reads |-> FALSE]

-------------------------------------------------------------------------------

(* _require_scopes(): a missing scope asks the person for what the token    *)
(* has and what the tool needs.                                             *)
Challenge == granted \cup Required

Enter ==
    /\ phase = "new"
    /\ phase' = IF Challenge = granted THEN "counting" ELSE "step_up"
    /\ UNCHANGED <<granted, read, sent, tries, renewed>>

(* _count_tool_call(): over the limit, or through (also without Redis).     *)
(* Then dispatch runs under the time budget.                                *)
Count ==
    /\ phase = "counting"
    /\ phase' \in {"running", "limited"}
    /\ UNCHANGED <<granted, read, sent, tries, renewed>>

\* Slip: a lookup whose route is missing looks like an absent entity.
RefusalsWithLookups(r) == {"refusal", "not_found"}

(* How get_with_context() and _post_lookup() read the answers: as data OKK  *)
(* refuses, or as an outage. For a lookup, a 404 is an OKK without the      *)
(* route.                                                                   *)
Refusals(r) == {"refusal"} \cup (IF r \in Lookups THEN {} ELSE {"not_found"})
Outages(r) == {"error", "lost", "away"} \cup ({"not_found"} \ Refusals(r))

(* What the tool goes on with: data, or a part it will show as missing.     *)
Brings(r, fate) ==
    \/ fate = "data"
    \/ r \in KeepsAbsent /\ fate \in Refusals(r)
    \/ r \in KeepsDown /\ fate \in Outages(r)

(* What BackendClient.get() and _read() of server.py make of the others: an *)
(* envelope, or an error of the tool.                                       *)
VerdictOf(r, fate) ==
    IF fate \in Refusals(r) THEN "not_available"
    ELSE IF fate \in Outages(r) THEN "unavailable"
    ELSE IF fate \in {"expired", "over"} THEN "reconnect" ELSE "failed"

(* The next stage begins when every read before it brought what it must.    *)
BeginStage(k) ==
    /\ phase = "running"
    /\ \E r \in Reads : Stage[r] = k /\ read[r] = "waiting"
    /\ \A r \in Reads : Stage[r] < k => Brings(r, read[r])
    /\ read' = [r \in Reads |-> IF Stage[r] = k THEN "queued" ELSE read[r]]
    /\ UNCHANGED <<phase, granted, sent, tries, renewed>>

\* Slip: the place is given up during pauses and renewals.
SentPlaces == {r \in Bounded : read[r] = "sent"}

(* A bounded read waits for a place among the open ones and keeps it until  *)
(* it ends, pauses and renewal included. A call that has already failed     *)
(* does not stop it.                                                        *)
Places == {r \in Bounded : read[r] \in OpenReads}

Transmit(r) ==
    /\ read' = [read EXCEPT ![r] = "sent"]
    /\ sent' = [sent EXCEPT ![r] = @ + 1]
    /\ tries' = [tries EXCEPT ![r] = @ + 1]

Send(r) ==
    /\ read[r] = "queued"
    /\ r \in Bounded => Cardinality(Places) < Parallel
    /\ Transmit(r)
    /\ UNCHANGED <<phase, granted, renewed>>

(* The read ends. The first failure the tool does not keep ends the call.   *)
Settle(r, fate) ==
    /\ read' = [read EXCEPT ![r] = fate]
    /\ phase' = IF phase = "running" /\ ~Brings(r, fate)
                THEN VerdictOf(r, fate) ELSE phase
    /\ sent' = [sent EXCEPT ![r] = 0]
    /\ tries' = [tries EXCEPT ![r] = 0]
    /\ renewed' = [renewed EXCEPT ![r] = FALSE]
    /\ UNCHANGED granted

Respond(r, fate) ==
    /\ read[r] = "sent" /\ fate \in Answers
    /\ Settle(r, fate)

(* A lost connection, a timeout, 502, 503, 504: a pause, or the last try.   *)
LoseInTransit(r) ==
    /\ read[r] = "sent"
    /\ \/ /\ tries[r] < Tries
          /\ read' = [read EXCEPT ![r] = "pause"]
          /\ UNCHANGED <<phase, granted, sent, tries, renewed>>
       \/ tries[r] = Tries /\ Settle(r, "lost")

Repeat(r) ==
    /\ read[r] = "pause"
    /\ Transmit(r)
    /\ UNCHANGED <<phase, granted, renewed>>

(* 401: the token expired during the call; a renewed one is not renewed.    *)
Expired(r) ==
    /\ read[r] = "sent"
    /\ \/ /\ ~renewed[r]
          /\ read' = [read EXCEPT ![r] = "renewing"]
          /\ UNCHANGED <<phase, granted, sent, tries, renewed>>
       \/ renewed[r] /\ Settle(r, "expired")

(* _rotate_session(): a token to repeat the read with, no session any more, *)
(* OKK away, or an error of the database.                                   *)
Renewed(r) ==
    /\ read[r] = "renewing"
    /\ \/ /\ read' = [read EXCEPT ![r] = "sent"]
          /\ sent' = [sent EXCEPT ![r] = @ + 1]
          /\ tries' = [tries EXCEPT ![r] = 1]
          /\ renewed' = [renewed EXCEPT ![r] = TRUE]
          /\ UNCHANGED <<phase, granted>>
       \/ \E fate \in {"over", "away", "database"} : Settle(r, fate)

(* The tool has what it needs, and builds its envelope.                     *)
Finish ==
    /\ phase = "running"
    /\ \A r \in Reads : Brings(r, read[r])
    /\ phase' = "answered"
    /\ UNCHANGED <<granted, read, sent, tries, renewed>>

(* The time budget ends: the call and every read under way are cancelled.   *)
Expire ==
    /\ phase = "running"
    /\ phase' = "stopped"
    /\ read' = [r \in Reads |-> IF read[r] \in Fates THEN read[r] ELSE "cancelled"]
    /\ sent' = [r \in Reads |-> 0]
    /\ tries' = [r \in Reads |-> 0]
    /\ renewed' = [r \in Reads |-> FALSE]
    /\ UNCHANGED granted

ReadStep(r) ==
    \/ Send(r) \/ LoseInTransit(r) \/ Repeat(r) \/ Expired(r) \/ Renewed(r)
    \/ \E fate \in Answers : Respond(r, fate)

ToolNext ==
    \/ Enter \/ Count \/ Finish \/ Expire
    \/ \E k \in {Stage[r] : r \in Reads} : BeginStage(k)
    \/ \E r \in Reads : ReadStep(r)

(* The MCP session runs the call, Redis answers or its client raises, and   *)
(* the timer of the budget fires. Of OKK nothing is assumed.                *)
CallProgress == Enter \/ Count \/ Expire
ToolSpec == ToolInit /\ [][ToolNext]_toolVars /\ WF_toolVars(CallProgress)

-------------------------------------------------------------------------------

(* However OKK fails, a call never has more than Parallel bounded reads at  *)
(* OKK, those that go on after its answer included; it sends no read more   *)
(* than six times; and when the budget stopped it nothing of it goes on     *)
(* (_bounded, _read, _send_read, asyncio.timeout).                          *)
LoadBounded ==
    /\ Cardinality({r \in Bounded : read[r] \in OpenReads}) <= Parallel
    /\ \A r \in Reads : sent[r] <= IF renewed[r] THEN 2 * Tries ELSE Tries
    /\ phase = "stopped" => \A r \in Reads : read[r] \in Fates

(* Every call is answered, even by an OKK that never answers a read.        *)
CallEnded == phase \in Verdicts
EveryCallEnds == <>CallEnded

(* The verdict is given once and rests on what the reads brought.           *)
EvidenceOf(r, fate) ==
    LET refused == fate = "refusal" \/ (fate = "not_found" /\ r \notin Lookups)
        outage == \/ fate \in {"error", "lost", "away"}
                  \/ fate = "not_found" /\ r \in Lookups
    IN IF \/ fate = "data"
          \/ refused /\ r \in KeepsAbsent
          \/ outage /\ r \in KeepsDown THEN "good"
       ELSE IF refused THEN "refused" ELSE IF outage THEN "outage"
       ELSE IF fate \in {"expired", "over"} THEN "ended"
       ELSE IF fate \in {"rejected", "database"} THEN "broken"
       ELSE IF fate = "cancelled" THEN "dropped" ELSE "none"

Contract == INSTANCE ToolContract WITH
    verdict <- IF phase \in Verdicts THEN phase ELSE "pending",
    evidence <- [r \in Reads |-> EvidenceOf(r, read[r])]

(* The call keeps the contract of its answers: "ok" and "no_data" are built *)
(* only when every read brought data or a part the tool shows as missing,   *)
(* an outage and an ended session are named, and the verdict is final.      *)
KeepsToolContract == Contract!ContractSpec
===============================================================================
