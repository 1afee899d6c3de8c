------------------------------- MODULE MCSignIn -------------------------------
(* A TLC instance of what a sign-in passes: its page and the throttles.  The *)
(* two share no state, so a behaviour is one of either.                      *)
EXTENDS MCAuthorizeLogin, Throttle

CONSTANTS s1, s2, c1, address, account, connection

VARIABLE part   \* the part the behaviour is of

\* Sign-ins from one address, one of them with the account of interest, and
\* a tool call.
Mixed == [r \in Attempts |-> CASE r = s1 -> {address, account}
                               [] r = s2 -> {address}
                               [] OTHER  -> {connection}]
Ones == [b \in Buckets |-> 1]

SignInInit ==
    /\ part \in {"page", "throttle"}
    /\ Init /\ ThrottleInit
    /\ part = "throttle" => page = [p \in Pages |-> NoForm]

SignInNext ==
    /\ UNCHANGED part
    /\ \/ part = "page" /\ Next /\ UNCHANGED throttleVars
       \/ part = "throttle" /\ ThrottleNext /\ UNCHANGED vars

\* What a state is told apart by: the part at rest never changes.
AtWork == IF part = "page" THEN <<part, vars>> ELSE <<part, throttleVars>>

SignInSpec == SignInInit /\ [][SignInNext]_<<part, vars, throttleVars>>
===============================================================================
