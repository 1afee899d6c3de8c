------------------------------ MODULE Throttle ------------------------------
(***************************************************************************)
(* The throttles of the gateway: sign-ins and registrations                *)
(* (server/okk_mcp/oauth.py) and tool calls (backend_client.py).  Each     *)
(* counts in Redis under a key that names a bucket and the window of the   *)
(* clock (a minute, for registrations an hour), and lets the key expire    *)
(* two windows after its last use.                                         *)
(***************************************************************************)
EXTENDS Naturals, FiniteSets

CONSTANTS Attempts,    \* sign-ins, registrations and tool calls, as they are counted
          Buckets,     \* an address, a trusted network, an account, a connection
          BucketsOf,   \* the buckets of a request: two for a sign-in
          Limit,
          FailOpen,    \* those let through without Redis: tool calls
          Retries,     \* how often the Redis client sends a MULTI again
          MaxWindow    \* the last modelled window

ASSUME AttemptsAssumption == IsFiniteSet(Attempts) /\ FailOpen \subseteq Attempts
ASSUME BucketsAssumption ==
    /\ BucketsOf \in [Attempts -> SUBSET Buckets]
    /\ Limit \in [Buckets -> Nat]
ASSUME ClockAssumption == MaxWindow \in Nat /\ Retries \in Nat

VARIABLES
    current,   \* the clock's window: int(time.time() // 60)
    stage,     \* where a request stands
    window,    \* the window a request is counted in
    sent,      \* how often its MULTI was sent again
    count,     \* Redis: the counters, 0 for a missing key
    used,      \* Redis: the window in which a key's lifetime was last set
    forgot     \* history: keys that lost a count when Redis restarted

redis == <<count, used, forgot>>
throttleVars == <<current, stage, window, sent, redis>>

-----------------------------------------------------------------------------
Windows == 0..MaxWindow
Keys == Buckets \X Windows

ThrottleTypeOK ==
    /\ current \in Windows
    /\ stage \in [Attempts -> {"new", "counting", "allowed", "uncounted", "refused"}]
    /\ window \in [Attempts -> Windows]
    /\ sent \in [Attempts -> 0..Retries]
    /\ count \in [Keys -> Nat]
    /\ used \in [Keys -> Windows]
    /\ forgot \subseteq Keys

ThrottleInit ==
    /\ current = 0
    /\ stage = [r \in Attempts |-> "new"]
    /\ window = [r \in Attempts |-> 0]
    /\ sent = [r \in Attempts |-> 0]
    /\ count = [k \in Keys |-> 0]
    /\ used = [k \in Keys |-> 0]
    /\ forgot = {}

-----------------------------------------------------------------------------
KeysOf(r) == {<<b, window[r]>> : b \in BucketsOf[r]}

\* The request reads the clock and opens its connection to Redis.
Attempt(r) ==
    /\ stage[r] = "new"
    /\ stage' = [stage EXCEPT ![r] = "counting"]
    /\ window' = [window EXCEPT ![r] = current]
    /\ UNCHANGED <<current, sent, redis>>

\* Reaching Redis takes less than a window.
Counting(r) == stage[r] = "counting" /\ current <= window[r] + 1

\* INCR and EXPIRE of every key in one MULTI.
Incremented(r) ==
    /\ count' = [k \in Keys |-> IF k \in KeysOf(r) THEN count[k] + 1 ELSE count[k]]
    /\ used' = [k \in Keys |-> IF k \in KeysOf(r) THEN current ELSE used[k]]
    /\ UNCHANGED forgot

Over(r) == \E b \in BucketsOf[r] : count'[<<b, window[r]>>] > Limit[b]

Count(r) ==
    /\ Counting(r)
    /\ Incremented(r)
    /\ stage' = [stage EXCEPT ![r] = IF Over(r) THEN "refused" ELSE "allowed"]
    /\ UNCHANGED <<current, window, sent>>

\* The answer is lost and the Redis client sends the MULTI again.
Resend(r) ==
    /\ Counting(r) /\ sent[r] < Retries
    /\ Incremented(r)
    /\ sent' = [sent EXCEPT ![r] = @ + 1]
    /\ UNCHANGED <<current, stage, window>>

\* RedisError, whether or not the MULTI was executed: sign-ins and
\* registrations are refused, tool calls go on.
Unavailable(r) ==
    /\ Counting(r)
    /\ Incremented(r) \/ UNCHANGED redis
    /\ stage' = [stage EXCEPT ![r] = IF r \in FailOpen THEN "uncounted" ELSE "refused"]
    /\ UNCHANGED <<current, window, sent>>

-----------------------------------------------------------------------------
(* Redis and the clock                                                     *)

\* Slip: EXPIRE with the length of one window.
ExpireEarly(k) ==
    /\ count[k] > 0 /\ current >= used[k] + 1
    /\ count' = [count EXCEPT ![k] = 0]
    /\ UNCHANGED <<current, stage, window, sent, used, forgot>>

Expire(k) ==
    /\ count[k] > 0 /\ current >= used[k] + 2
    /\ count' = [count EXCEPT ![k] = 0]
    /\ UNCHANGED <<current, stage, window, sent, used, forgot>>

\* The append-only file is synced once a second: a crash of Redis loses the
\* last increments.
Forget(k) ==
    /\ count[k] > 0
    /\ count' = [count EXCEPT ![k] = @ - 1]
    /\ forgot' = forgot \cup {k}
    /\ UNCHANGED <<current, stage, window, sent, used>>

NextWindow ==
    /\ current < MaxWindow
    /\ current' = current + 1
    /\ UNCHANGED <<stage, window, sent, redis>>

ThrottleNext ==
    \/ \E r \in Attempts : Attempt(r) \/ Count(r) \/ Resend(r) \/ Unavailable(r)
    \/ \E k \in Keys : Expire(k) \/ Forget(k)
    \/ NextWindow

ThrottleSpec == ThrottleInit /\ [][ThrottleNext]_throttleVars

-----------------------------------------------------------------------------
(* Properties                                                              *)

Through(r) == stage[r] \in IF r \in FailOpen THEN {"allowed"} ELSE {"allowed", "uncounted"}

Admitted(b, w) == {r \in Attempts : Through(r) /\ b \in BucketsOf[r] /\ window[r] = w}

\* However requests, slow connections, lost answers and expiring keys fall
\* together, no bucket gets more than its limit through in a window, unless
\* Redis forgot a count; a connection's tool calls also while Redis is away.
WithinLimit ==
    \A b \in Buckets, w \in Windows :
        <<b, w>> \notin forgot => Cardinality(Admitted(b, w)) <= Limit[b]
=============================================================================
