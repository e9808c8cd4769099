----------------------------- MODULE SingleFlight -----------------------------
(***************************************************************************)
(* What provider coordination promises its callers (ADR-008): an operation *)
(* has at most one holder, only the holder calls the provider, and once an *)
(* operation has a verdict nobody calls the provider for it again.  A      *)
(* holder that dies never gives the operation up.                          *)
(***************************************************************************)
CONSTANTS
    Operations, Requests, NoRequest,
    UnknownIsFinal  \* whether an unknown outcome may not be put down as a failure later

VARIABLES
    holder,   \* [Operations -> Requests \cup {NoRequest}]
    verdict,  \* [Operations -> {"open", "result", "failed", "unknown"}]
    calls     \* <<operation, call number, caller>> of every provider call made

vars == <<holder, verdict, calls>>

Init ==
    /\ holder = [op \in Operations |-> NoRequest]
    /\ verdict = [op \in Operations |-> "open"]
    /\ calls = {}

Free(op) == holder[op] = NoRequest /\ verdict[op] = "open"

Acquire(op, r) ==
    /\ Free(op)
    /\ holder' = [holder EXCEPT ![op] = r]
    /\ UNCHANGED <<verdict, calls>>

\* One more provider call, by the holder, under a number no earlier call of the
\* operation had.
Call(op) ==
    /\ holder[op] # NoRequest
    /\ verdict[op] = "open"
    /\ \E c \in calls' :
         /\ calls' = calls \cup {c}
         /\ c[1] = op /\ c[3] = holder[op]
         /\ \A d \in calls : d[1] = op => d[2] # c[2]
    /\ UNCHANGED <<holder, verdict>>

\* The holder steps back without a verdict: not ready, or out of budget.
Yield(op) ==
    /\ holder[op] # NoRequest
    /\ holder' = [holder EXCEPT ![op] = NoRequest]
    /\ UNCHANGED <<verdict, calls>>

Settle(op, v) ==
    /\ holder[op] # NoRequest
    /\ v \in {"result", "failed", "unknown"}
    /\ holder' = [holder EXCEPT ![op] = NoRequest]
    /\ verdict' = [verdict EXCEPT ![op] = v]
    /\ UNCHANGED calls

\* An unknown outcome is put down as a failure, which nobody repeats either.
PutDown(op) ==
    /\ ~ UnknownIsFinal
    /\ verdict[op] = "unknown"
    /\ verdict' = [verdict EXCEPT ![op] = "failed"]
    /\ UNCHANGED <<holder, calls>>

Next ==
    \E op \in Operations :
        \/ \E r \in Requests : Acquire(op, r)
        \/ Call(op)
        \/ Yield(op)
        \/ PutDown(op)
        \/ \E v \in {"result", "failed", "unknown"} : Settle(op, v)

Spec == Init /\ [][Next]_vars
=============================================================================
