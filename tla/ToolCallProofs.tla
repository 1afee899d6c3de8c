----------------------------- MODULE ToolCallProofs ----------------------------
(* Proofs about ToolCall for any reads, stages and limits: its types, the   *)
(* bound on what it asks of OKK, and that its answers keep ToolContract.    *)
EXTENDS ToolCall, FiniteSetTheorems, TLAPS

(* A read that is not open has no count of requests; an open one has sent   *)
(* at most its tries, and three more after a renewal.                       *)
Counts ==
    \A r \in Reads :
        /\ sent[r] <= tries[r] + (IF renewed[r] THEN Tries ELSE 0)
        /\ read[r] \notin OpenReads => sent[r] = 0 /\ tries[r] = 0 /\ ~renewed[r]
        /\ read[r] = "pause" => tries[r] < Tries
        /\ read[r] = "renewing" => ~renewed[r]

(* Nothing is read before the call was counted, and nothing is open after   *)
(* the budget.                                                              *)
Idle == phase \in {"new", "counting"} => \A r \in Reads : read[r] = "waiting"
Stopped == phase = "stopped" => \A r \in Reads : read[r] \in Fates
PlacesBounded == Cardinality(Places) <= Parallel

(* The reads of a stage begin together.                                     *)
Together ==
    \A r, s \in Reads : Stage[r] = Stage[s] => (read[r] = "waiting" <=> read[s] = "waiting")

ToolInv == ToolTypeOK /\ Counts /\ Idle /\ Stopped /\ PlacesBounded /\ Together

-------------------------------------------------------------------------------

(* The ends of a read that is not cancelled: what it brings, or raises.     *)
LEMMA FateCases ==
    ASSUME NEW r \in Reads, NEW fate \in Fates \ {"cancelled"}
    PROVE  /\ Brings(r, fate) <=> EvidenceOf(r, fate) = "good"
           /\ EvidenceOf(r, fate) \in {"good", "refused", "ended", "outage", "broken"}
           /\ ~Brings(r, fate) =>
                 /\ VerdictOf(r, fate) = Contract!Carries[EvidenceOf(r, fate)]
                 /\ VerdictOf(r, fate) \in
                       {"not_available", "reconnect", "unavailable", "failed"}
  BY DEF Fates, Answers, Brings, Refusals, Outages, EvidenceOf, VerdictOf, Contract!Carries

(* The end of an open read keeps the invariant.                             *)
LEMMA SettleKeeps ==
    ASSUME ToolInv, NEW r \in Reads, NEW fate \in Fates \ {"cancelled"},
           read[r] \in OpenReads, Settle(r, fate)
    PROVE  ToolTypeOK' /\ Counts' /\ Idle' /\ Stopped'
  <1>1. phase' \in {phase, "not_available", "reconnect", "unavailable", "failed"}
    BY FateCases DEF Settle
  <1>2. ToolTypeOK'
    BY <1>1 DEF ToolInv, ToolTypeOK, Settle, Verdicts, Tries
  <1>3. Counts'
    BY DEF ToolInv, ToolTypeOK, Counts, Settle, OpenReads, Fates, Answers, Tries
  <1>4. Idle'
    BY <1>1 DEF ToolInv, Idle, OpenReads, Settle
  <1>5. Stopped'
    BY <1>1 DEF ToolInv, ToolTypeOK, Stopped, Settle
  <1> QED  BY <1>2, <1>3, <1>4, <1>5

(* Each step of a read keeps it.                                            *)
LEMMA ReadStepKeeps ==
    ASSUME ToolInv, NEW r \in Reads, ReadStep(r)
    PROVE  ToolTypeOK' /\ Counts' /\ Idle' /\ Stopped'
  <1>1. CASE Send(r)
    <2>1. ToolTypeOK'
      BY <1>1 DEF ToolInv, ToolTypeOK, Counts, Send, Transmit, OpenReads, Tries
    <2>2. Counts'
      BY <1>1 DEF ToolInv, ToolTypeOK, Counts, Send, Transmit, OpenReads, Tries
    <2>3. Idle' /\ Stopped'
      BY <1>1 DEF ToolInv, Idle, Stopped, Send, Fates, Answers
    <2> QED  BY <2>1, <2>2, <2>3
  <1>2. CASE LoseInTransit(r)
    <2>1. CASE Settle(r, "lost")
      BY <1>2, <2>1, SettleKeeps DEF LoseInTransit, OpenReads, Fates
    <2>2. CASE /\ tries[r] < Tries /\ read' = [read EXCEPT ![r] = "pause"]
               /\ UNCHANGED <<phase, granted, sent, tries, renewed>>
      <3>1. ToolTypeOK'
        BY <1>2, <2>2 DEF ToolInv, ToolTypeOK, OpenReads
      <3>2. Counts'
        BY <1>2, <2>2 DEF ToolInv, ToolTypeOK, Counts, LoseInTransit, OpenReads
      <3>3. Idle' /\ Stopped'
        BY <1>2, <2>2 DEF ToolInv, Idle, Stopped, LoseInTransit, Fates, Answers
      <3> QED  BY <3>1, <3>2, <3>3
    <2> QED  BY <1>2, <2>1, <2>2 DEF LoseInTransit
  <1>3. CASE Repeat(r)
    <2>1. ToolTypeOK'
      BY <1>3 DEF ToolInv, ToolTypeOK, Counts, Repeat, Transmit, OpenReads, Tries
    <2>2. Counts'
      BY <1>3 DEF ToolInv, ToolTypeOK, Counts, Repeat, Transmit, OpenReads, Tries
    <2>3. Idle' /\ Stopped'
      BY <1>3 DEF ToolInv, Idle, Stopped, Repeat, Fates, Answers
    <2> QED  BY <2>1, <2>2, <2>3
  <1>4. CASE Expired(r)
    <2>1. CASE Settle(r, "expired")
      BY <1>4, <2>1, SettleKeeps DEF Expired, OpenReads, Fates
    <2>2. CASE /\ ~renewed[r] /\ read' = [read EXCEPT ![r] = "renewing"]
               /\ UNCHANGED <<phase, granted, sent, tries, renewed>>
      <3>1. ToolTypeOK'
        BY <1>4, <2>2 DEF ToolInv, ToolTypeOK, OpenReads
      <3>2. Counts'
        BY <1>4, <2>2 DEF ToolInv, ToolTypeOK, Counts, Expired, OpenReads
      <3>3. Idle' /\ Stopped'
        BY <1>4, <2>2 DEF ToolInv, Idle, Stopped, Expired, Fates, Answers
      <3> QED  BY <3>1, <3>2, <3>3
    <2> QED  BY <1>4, <2>1, <2>2 DEF Expired
  <1>5. CASE Renewed(r)
    <2>1. CASE \E fate \in {"over", "away", "database"} : Settle(r, fate)
      BY <1>5, <2>1, SettleKeeps DEF Renewed, OpenReads, Fates
    <2>2. CASE /\ read' = [read EXCEPT ![r] = "sent"]
               /\ sent' = [sent EXCEPT ![r] = @ + 1]
               /\ tries' = [tries EXCEPT ![r] = 1]
               /\ renewed' = [renewed EXCEPT ![r] = TRUE]
               /\ UNCHANGED <<phase, granted>>
      <3>1. ~renewed[r] /\ sent[r] \in 0..Tries
        BY <1>5 DEF ToolInv, ToolTypeOK, Counts, Renewed, Tries
      <3>2. ToolTypeOK'
        BY <2>2, <3>1 DEF ToolInv, ToolTypeOK, OpenReads, Tries
      <3>3. Counts'
        BY <2>2, <3>1 DEF ToolInv, ToolTypeOK, Counts, OpenReads, Tries
      <3>4. Idle' /\ Stopped'
        BY <1>5, <2>2 DEF ToolInv, Idle, Stopped, Renewed, Fates, Answers
      <3> QED  BY <3>2, <3>3, <3>4
    <2> QED  BY <1>5, <2>1, <2>2 DEF Renewed
  <1>6. CASE \E fate \in Answers : Respond(r, fate)
    BY <1>6, SettleKeeps DEF Respond, OpenReads, Fates, Answers
  <1> QED  BY <1>1, <1>2, <1>3, <1>4, <1>5, <1>6 DEF ReadStep

-------------------------------------------------------------------------------

(* The bounded reads that are open are finitely many.                       *)
LEMMA PlacesFinite ==
    IsFiniteSet(Places) /\ Cardinality(Places) \in Nat
  <1>1. IsFiniteSet(Places)
    BY ToolAssumption, FS_Subset DEF Places
  <1> QED  BY <1>1, FS_CardinalityType

(* A step that opens no read keeps their bound.                             *)
LEMMA NoNewPlace ==
    ASSUME PlacesBounded, Places' \subseteq Places
    PROVE  PlacesBounded'
  <1>1. IsFiniteSet(Places') /\ Cardinality(Places') <= Cardinality(Places)
    BY PlacesFinite, FS_Subset
  <1>2. Cardinality(Places') \in Nat
    BY <1>1, FS_CardinalityType
  <1> QED  BY <1>1, <1>2, PlacesFinite, ToolAssumption DEF PlacesBounded

LEMMA SendKeepsPlaces ==
    ASSUME ToolInv, NEW r \in Reads, Send(r)
    PROVE  PlacesBounded'
  <1>1. CASE r \notin Bounded
    <2>1. Places' \subseteq Places
      BY <1>1 DEF ToolInv, ToolTypeOK, Send, Transmit, Places
    <2> QED  BY <2>1, NoNewPlace DEF ToolInv
  <1>2. CASE r \in Bounded
    <2>1. Places' \subseteq Places \cup {r}
      BY DEF ToolInv, ToolTypeOK, Send, Transmit, Places
    <2>2. /\ IsFiniteSet(Places \cup {r})
          /\ Cardinality(Places \cup {r}) \in Nat
          /\ Cardinality(Places \cup {r}) <= Cardinality(Places) + 1
      <3>1. IsFiniteSet(Places \cup {r})
        BY PlacesFinite, FS_AddElement
      <3>2. Cardinality(Places \cup {r}) =
               IF r \in Places THEN Cardinality(Places) ELSE Cardinality(Places) + 1
        BY PlacesFinite, FS_AddElement
      <3> QED  BY <3>1, <3>2, PlacesFinite
    <2>3. IsFiniteSet(Places') /\ Cardinality(Places') <= Cardinality(Places \cup {r})
      BY <2>1, <2>2, FS_Subset
    <2>4. Cardinality(Places') \in Nat
      BY <2>3, FS_CardinalityType
    <2>5. Cardinality(Places) < Parallel
      BY <1>2 DEF Send
    <2> QED
      BY <2>2, <2>3, <2>4, <2>5, PlacesFinite, ToolAssumption DEF PlacesBounded
  <1> QED  BY <1>1, <1>2

LEMMA ReadStepKeepsTogether ==
    ASSUME ToolInv, NEW r \in Reads, ReadStep(r)
    PROVE  Together'
  <1>1. read[r] # "waiting" /\ \E s : s # "waiting" /\ read' = [read EXCEPT ![r] = s]
    BY DEF ReadStep, Send, LoseInTransit, Repeat, Expired, Renewed, Respond, Transmit,
           Settle, Answers
  <1> QED  BY <1>1 DEF ToolInv, ToolTypeOK, Together

(* Only Send opens a read.                                                  *)
LEMMA ReadStepKeepsPlaces ==
    ASSUME ToolInv, NEW r \in Reads, ReadStep(r)
    PROVE  PlacesBounded'
  <1>1. CASE Send(r)
    BY <1>1, SendKeepsPlaces
  <1>2. CASE ~Send(r)
    <2>1. read[r] \in OpenReads /\ \E s : read' = [read EXCEPT ![r] = s]
      BY <1>2 DEF ReadStep, LoseInTransit, Repeat, Expired, Renewed, Respond, Transmit,
                  Settle, OpenReads
    <2>2. Places' \subseteq Places
      BY <2>1 DEF ToolInv, ToolTypeOK, Places
    <2> QED  BY <2>2, NoNewPlace DEF ToolInv
  <1> QED  BY <1>1, <1>2

-------------------------------------------------------------------------------

LEMMA InitKeeps == ToolInit => ToolInv
  <1> SUFFICES ASSUME ToolInit PROVE ToolInv
    OBVIOUS
  <1>1. ToolTypeOK
    BY DEF ToolInit, ToolTypeOK, Tries
  <1>2. Counts /\ Idle /\ Stopped /\ Together
    BY DEF ToolInit, Counts, Idle, Stopped, Together, OpenReads, Tries
  <1>3. Places = {}
    BY ToolAssumption DEF ToolInit, Places, OpenReads
  <1>4. Cardinality({}) = 0
    BY FS_EmptySet
  <1>5. PlacesBounded
    BY <1>3, <1>4, ToolAssumption DEF PlacesBounded
  <1> QED  BY <1>1, <1>2, <1>5 DEF ToolInv

LEMMA StepKeeps == ToolInv /\ [ToolNext]_toolVars => ToolInv'
  <1> SUFFICES ASSUME ToolInv, [ToolNext]_toolVars PROVE ToolInv'
    OBVIOUS
  <1>1. CASE Enter \/ Count \/ Finish
    <2>1. /\ phase' \in {"counting", "step_up", "running", "limited", "answered"}
          /\ phase' = "counting" => phase = "new"
          /\ UNCHANGED <<granted, read, sent, tries, renewed>>
      BY <1>1 DEF Enter, Count, Finish
    <2>2. ToolTypeOK' /\ Counts'
      BY <2>1 DEF ToolInv, ToolTypeOK, Counts, Verdicts
    <2>3. Idle' /\ Stopped' /\ Together'
      BY <2>1 DEF ToolInv, Idle, Stopped, Together
    <2>4. Places' \subseteq Places
      BY <2>1 DEF Places
    <2> QED  BY <2>2, <2>3, <2>4, NoNewPlace DEF ToolInv
  <1>2. CASE Expire
    <2>1. \A r \in Reads : read'[r] \in Fates
      BY <1>2 DEF Expire, Fates
    <2>2. ToolTypeOK'
      BY <1>2, <2>1 DEF ToolInv, ToolTypeOK, Expire, Verdicts, Tries
    <2>3. Counts'
      BY <1>2, <2>1 DEF Counts, Expire, OpenReads, Fates, Answers, Tries
    <2>4. Idle' /\ Stopped' /\ Together'
      BY <1>2, <2>1 DEF Idle, Stopped, Together, Expire, Fates, Answers
    <2>5. Places' \subseteq Places
      BY <2>1, ToolAssumption DEF Places, OpenReads, Fates, Answers
    <2> QED  BY <2>2, <2>3, <2>4, <2>5, NoNewPlace DEF ToolInv
  <1>3. ASSUME NEW k \in {Stage[r] : r \in Reads}, BeginStage(k) PROVE ToolInv'
    <2>1. /\ read' = [r \in Reads |-> IF Stage[r] = k THEN "queued" ELSE read[r]]
          /\ phase = "running" /\ UNCHANGED <<phase, granted, sent, tries, renewed>>
      BY <1>3 DEF BeginStage
    <2>2. \A r \in Reads : Stage[r] = k => read[r] = "waiting"
      BY <1>3 DEF BeginStage, ToolInv, Together
    <2>3. ToolTypeOK'
      BY <2>1 DEF ToolInv, ToolTypeOK
    <2>4. Counts'
      BY <2>1, <2>2 DEF ToolInv, Counts, OpenReads
    <2>5. Idle' /\ Stopped' /\ Together'
      BY <2>1 DEF ToolInv, Idle, Stopped, Together
    <2>6. Places' \subseteq Places
      BY <2>1, <2>2, ToolAssumption DEF Places, OpenReads
    <2> QED  BY <2>3, <2>4, <2>5, <2>6, NoNewPlace DEF ToolInv
  <1>4. ASSUME NEW r \in Reads, ReadStep(r) PROVE ToolInv'
    BY <1>4, ReadStepKeeps, ReadStepKeepsPlaces, ReadStepKeepsTogether DEF ToolInv
  <1>5. CASE UNCHANGED toolVars
    <2>1. ToolTypeOK' /\ Counts' /\ Idle' /\ Stopped' /\ Together'
      BY <1>5 DEF ToolInv, ToolTypeOK, Counts, Idle, Stopped, Together, toolVars
    <2>2. Places' \subseteq Places
      BY <1>5 DEF Places, toolVars
    <2> QED  BY <2>1, <2>2, NoNewPlace DEF ToolInv
  <1> QED  BY <1>1, <1>2, <1>3, <1>4, <1>5 DEF ToolNext

LEMMA InvHolds == ToolSpec => []ToolInv
  BY InitKeeps, StepKeeps, PTL DEF ToolSpec

-------------------------------------------------------------------------------

(* The types of ToolCall, for any reads, stages and limits.                 *)
THEOREM ToolTypes == ToolSpec => []ToolTypeOK
  <1>1. ToolInv => ToolTypeOK
    BY DEF ToolInv
  <1> QED  BY <1>1, InvHolds, PTL

(* However OKK fails, no call has more bounded reads at OKK than its        *)
(* semaphore has places, none sends a read more than six times, and nothing *)
(* of a call goes on after its time budget (_bounded, _send_read,           *)
(* asyncio.timeout).                                                        *)
THEOREM ToolLoad == ToolSpec => []LoadBounded
  <1>1. ToolInv => LoadBounded
    <2> SUFFICES ASSUME ToolInv PROVE LoadBounded
      OBVIOUS
    <2>1. Cardinality({r \in Bounded : read[r] \in OpenReads}) <= Parallel
      BY DEF ToolInv, PlacesBounded, Places
    <2>2. \A r \in Reads : sent[r] <= IF renewed[r] THEN 2 * Tries ELSE Tries
      BY DEF ToolInv, ToolTypeOK, Counts, Tries
    <2>3. phase = "stopped" => \A r \in Reads : read[r] \in Fates
      BY DEF ToolInv, Stopped
    <2> QED  BY <2>1, <2>2, <2>3 DEF LoadBounded
  <1> QED  BY <1>1, InvHolds, PTL

-------------------------------------------------------------------------------

(* What the contract sees of the end of a read.                             *)
LEMMA SettleLearns ==
    ASSUME ToolInv, NEW r \in Reads, NEW fate \in Fates \ {"cancelled"},
           read[r] \in OpenReads, Settle(r, fate)
    PROVE  Contract!ContractNext
  <1> DEFINE e == EvidenceOf(r, fate)
             evidence == [s \in Reads |-> EvidenceOf(s, read[s])]
             verdict == IF phase \in Verdicts THEN phase ELSE "pending"
  <1>1. /\ e \in {"good", "refused", "ended", "outage", "broken"}
        /\ Brings(r, fate) <=> e = "good"
        /\ ~Brings(r, fate) => /\ VerdictOf(r, fate) = Contract!Carries[e]
                               /\ VerdictOf(r, fate) \in Verdicts
    BY FateCases DEF Verdicts
  <1>2. evidence[r] = "none"
    BY DEF OpenReads, EvidenceOf
  <1>3. evidence' = [evidence EXCEPT ![r] = e]
    <2>1. \A s \in Reads : read'[s] = IF s = r THEN fate ELSE read[s]
      BY DEF Settle, ToolInv, ToolTypeOK
    <2>2. \A s \in Reads : EvidenceOf(s, read'[s]) = IF s = r THEN e ELSE EvidenceOf(s, read[s])
      BY <2>1
    <2>3. evidence' = [s \in Reads |-> IF s = r THEN e ELSE EvidenceOf(s, read[s])]
      BY <2>2
    <2> HIDE DEF e
    <2> QED  BY <2>3
  <1>4. phase \notin {"new", "counting"}
    BY DEF ToolInv, Idle, OpenReads
  <1>5. phase = "running" \/ phase \in Verdicts
    BY <1>4 DEF ToolInv, ToolTypeOK
  <1>6. verdict' = IF e # "good" /\ verdict = "pending" THEN Contract!Carries[e] ELSE verdict
    BY <1>1, <1>5 DEF Settle, Verdicts
  <1>7. e \in Contract!Evidence /\ e \in Contract!Evidence \ {"none", "dropped"}
    BY <1>1 DEF Contract!Evidence
  <1>8. Contract!Learn(r, e)
    BY <1>2, <1>3, <1>6, <1>7 DEF Contract!Learn
  <1> QED  BY <1>7, <1>8 DEF Contract!ContractNext

(* A step of a read is seen as its end, or not at all.                      *)
LEMMA ReadStepMaps ==
    ASSUME ToolInv, NEW r \in Reads, ReadStep(r)
    PROVE  [Contract!ContractNext]_(Contract!contractVars)
  <1>1. CASE \E fate \in Fates \ {"cancelled"} : read[r] \in OpenReads /\ Settle(r, fate)
    BY <1>1, SettleLearns
  <1>2. CASE /\ read[r] \in {"queued"} \cup OpenReads /\ UNCHANGED phase
             /\ \E s \in OpenReads : read' = [read EXCEPT ![r] = s]
    <2>1. \A s \in Reads : EvidenceOf(s, read'[s]) = EvidenceOf(s, read[s])
      BY <1>2 DEF ToolInv, ToolTypeOK, OpenReads, EvidenceOf
    <2>2. [s \in Reads |-> EvidenceOf(s, read'[s])] = [s \in Reads |-> EvidenceOf(s, read[s])]
      BY <2>1
    <2> QED  BY <1>2, <2>2 DEF Contract!contractVars
  <1> QED
    BY <1>1, <1>2 DEF ReadStep, Send, LoseInTransit, Repeat, Expired, Renewed, Respond,
                      Transmit, OpenReads, Fates, Answers

(* The call keeps the contract of its answers, for any reads in any stages: *)
(* one verdict, final, and of the evidence the reads really brought.        *)
THEOREM ToolKeepsContract == ToolSpec => KeepsToolContract
  <1>1. ToolInit => Contract!ContractInit
    <2> SUFFICES ASSUME ToolInit PROVE Contract!ContractInit
      OBVIOUS
    <2>1. \A r \in Reads : EvidenceOf(r, read[r]) = "none"
      BY DEF ToolInit, EvidenceOf
    <2> QED  BY <2>1 DEF ToolInit, Verdicts, Contract!ContractInit
  <1>2. ToolInv /\ [ToolNext]_toolVars => [Contract!ContractNext]_(Contract!contractVars)
    <2> SUFFICES ASSUME ToolInv, [ToolNext]_toolVars
                 PROVE  [Contract!ContractNext]_(Contract!contractVars)
      OBVIOUS
    <2> DEFINE evidence == [r \in Reads |-> EvidenceOf(r, read[r])]
               verdict == IF phase \in Verdicts THEN phase ELSE "pending"
    <2>1. ASSUME phase \in {"new", "counting"}
          PROVE  \A r \in Reads : evidence[r] = "none"
      BY <2>1 DEF ToolInv, Idle, EvidenceOf
    <2>2. CASE Enter \/ Count
      <3>1. phase \in {"new", "counting"} /\ UNCHANGED read
            /\ phase' \in {"counting", "running", "step_up", "limited"}
        BY <2>2 DEF Enter, Count
      <3>2. verdict = "pending" /\ evidence' = evidence
            /\ verdict' \in {"pending", "step_up", "limited"}
        BY <3>1 DEF Verdicts
      <3>3. CASE verdict' = "pending"
        BY <3>2, <3>3 DEF Contract!contractVars
      <3>4. CASE verdict' \in {"step_up", "limited"}
        BY <2>1, <3>1, <3>2, <3>4 DEF Contract!TurnAway, Contract!ContractNext
      <3> QED  BY <3>2, <3>3, <3>4
    <2>3. CASE Finish
      <3>1. \A r \in Reads : read[r] \in Fates \ {"cancelled"} /\ Brings(r, read[r])
        BY <2>3 DEF Finish, Brings, Refusals, Outages, Fates, Answers
      <3>2. \A r \in Reads : evidence[r] = "good"
        BY <3>1, FateCases
      <3>3. verdict = "pending" /\ verdict' = "answered" /\ evidence' = evidence
        BY <2>3 DEF Finish, Verdicts
      <3> QED  BY <3>2, <3>3 DEF Contract!Answer, Contract!ContractNext
    <2>4. CASE Expire
      <3>1. verdict = "pending" /\ verdict' = "stopped"
        BY <2>4 DEF Expire, Verdicts
      <3>2. \A r \in Reads : /\ evidence[r] = "none" <=> read[r] \notin Fates
                             /\ EvidenceOf(r, "cancelled") = "dropped"
        BY DEF ToolInv, ToolTypeOK, EvidenceOf, Fates, Answers, OpenReads
      <3>3. \A r \in Reads : evidence'[r] = IF evidence[r] = "none" THEN "dropped" ELSE evidence[r]
        BY <2>4, <3>2 DEF Expire
      <3>4. evidence' = [r \in Reads |-> IF evidence[r] = "none" THEN "dropped" ELSE evidence[r]]
        BY <3>3
      <3> QED  BY <3>1, <3>4 DEF Contract!Stop, Contract!ContractNext
    <2>5. ASSUME NEW k \in {Stage[r] : r \in Reads}, BeginStage(k)
          PROVE  [Contract!ContractNext]_(Contract!contractVars)
      <3>1. \A r \in Reads : Stage[r] = k => read[r] = "waiting"
        BY <2>5 DEF BeginStage, ToolInv, Together
      <3>2. \A r \in Reads : EvidenceOf(r, read'[r]) = EvidenceOf(r, read[r])
        BY <2>5, <3>1 DEF BeginStage, EvidenceOf
      <3>3. evidence' = evidence /\ verdict' = verdict
        BY <2>5, <3>2 DEF BeginStage
      <3> QED  BY <3>3 DEF Contract!contractVars
    <2>6. ASSUME NEW r \in Reads, ReadStep(r)
          PROVE  [Contract!ContractNext]_(Contract!contractVars)
      BY <2>6, ReadStepMaps
    <2>7. CASE UNCHANGED toolVars
      <3>1. evidence' = evidence /\ verdict' = verdict
        BY <2>7 DEF toolVars, EvidenceOf
      <3> QED  BY <3>1 DEF Contract!contractVars
    <2> QED  BY <2>2, <2>3, <2>4, <2>5, <2>6, <2>7 DEF ToolNext
  <1> QED
    BY <1>1, <1>2, InvHolds, PTL DEF ToolSpec, KeepsToolContract, Contract!ContractSpec
===============================================================================
