------------------------- MODULE ProviderCoordinator -------------------------
(***************************************************************************)
(* companion/app/analysis/coordinator.py: the two SQLite tables that       *)
(* coordinate provider calls, provider_executions (one row per semantic    *)
(* operation) and provider_attempts (one row per provider call that was    *)
(* authorised), and the BEGIN IMMEDIATE transactions over them.  A         *)
(* transaction holds SQLite's write lock from its first statement to its   *)
(* commit, so each of them is one action.                                  *)
(*                                                                         *)
(* The specification of this module lets a caller use the tokens it was    *)
(* given in any order; AnalysisService restricts the order to the one of   *)
(* service.py.                                                             *)
(***************************************************************************)
EXTENDS Naturals, FiniteSets

CONSTANTS
    Operations,  \* operation keys (build_operation_key)
    Requests,    \* callers; the owner token a claim mints is named after its caller
    NoRequest,   \* owner_token before the first claim
    LastDay,     \* bound: the days of the model are 1..LastDay
    Limits       \* the daily_request_limit values a policy may carry

ASSUME CoordinatorAssumptions ==
    /\ NoRequest \notin Requests
    /\ LastDay \in Nat \ {0}
    /\ Limits \subseteq Nat

VARIABLES
    execution,   \* provider_executions
    attempts,    \* provider_attempts
    minted       \* owner tokens handed out so far (secrets.token_urlsafe never repeats)

coordinatorVars == <<execution, attempts, minted>>

Days == 1 .. LastDay

InFlight == {"claimed", "dispatching", "repairing"}

\* Mutant: a row that was claimed but not yet dispatched may be claimed again.
ClaimableWhileClaimed == {"absent", "failed_before_dispatch", "budget_blocked", "claimed"}

\* Mutant: a dispatching row is taken for the remains of a crash.
ClaimableWhileDispatching == {"absent", "failed_before_dispatch", "budget_blocked", "dispatching"}

\* Mutant: a failed operation may be tried again under the same key.
ClaimableAfterFailure == {"absent", "failed_before_dispatch", "budget_blocked", "failed"}

Claimable == {"absent", "failed_before_dispatch", "budget_blocked"}

Settled == {"completed", "failed", "outcome_unknown"}

\* "absent" stands for a key without a row; run names the EngineRun by the
\* attempt that produced it, 0 for NULL.
Execution == [state : InFlight \cup Claimable \cup Settled,
              owner : Requests \cup {NoRequest},
              attempt_count : Nat,
              run : Nat]

Attempt == [op : Operations, number : Nat \ {0}, day : Days, state : {"consumed", "released"}]

CoordinatorInit ==
    /\ execution = [op \in Operations |->
                      [state |-> "absent", owner |-> NoRequest, attempt_count |-> 0, run |-> 0]]
    /\ attempts = {}
    /\ minted = {}

-----------------------------------------------------------------------------
\* Queries.

\* daily_usage, and the COUNT(*) of reserve_and_mark_dispatching
Consumed(day) == {a \in attempts : a.day = day /\ a.state = "consumed"}

Usage(day) == Cardinality(Consumed(day))

\* attempt_number or attempt_count + 1; every caller leaves attempt_number out
NextNumber(op) == execution[op].attempt_count + 1

\* A row at that number refuses the call, whatever its state: an active one by
\* ProviderOperationInFlightError, a released one by UNIQUE(execution_id, attempt_number).
MayReserve(op, r) ==
    /\ execution[op].owner = r
    /\ execution[op].state \in {"claimed", "repairing"}
    /\ ~ \E a \in attempts : a.op = op /\ a.number = NextNumber(op)

\* the attempt row of op with MAX(attempt_number)
IsNewest(a) == \A b \in attempts : b.op = a.op => b.number <= a.number

-----------------------------------------------------------------------------
\* Transactions.

\* the INSERT and the UPDATE that commit a granted reservation
RecordReservation(op, day) ==
    /\ attempts' = attempts \cup
         {[op |-> op, number |-> NextNumber(op), day |-> day, state |-> "consumed"]}
    /\ execution' = [execution EXCEPT ![op].state = "dispatching", ![op].attempt_count = @ + 1]
    /\ UNCHANGED minted

\* claim_operation, where it grants ownership: no row yet, or a row that never
\* reached a provider outcome.
ClaimOperation(op, r) ==
    /\ r \notin minted
    /\ execution[op].state \in Claimable
    /\ execution' = [execution EXCEPT ![op].state = "claimed", ![op].owner = r]
    /\ minted' = minted \cup {r}
    /\ UNCHANGED attempts

\* Mutant: the count is compared with the limit one too late.
ReserveOneTooMany(op, r, day, limit) ==
    /\ MayReserve(op, r)
    /\ Usage(day) <= limit
    /\ RecordReservation(op, day)

\* reserve_and_mark_dispatching, granted
ReserveAndMarkDispatching(op, r, day, limit) ==
    /\ MayReserve(op, r)
    /\ Usage(day) < limit
    /\ RecordReservation(op, day)

\* reserve_and_mark_dispatching, denied by the budget: a committed outcome
DenyBudget(op, r, day, limit) ==
    /\ MayReserve(op, r)
    /\ Usage(day) >= limit
    /\ execution' = [execution EXCEPT ![op].state = "budget_blocked"]
    /\ UNCHANGED <<attempts, minted>>

\* Mutant: giving the slot back also gives its number back.
ReleaseAndRenumber(op, r) ==
    /\ execution[op].owner = r
    /\ execution[op].state \in InFlight
    /\ attempts' = {IF a.op = op /\ IsNewest(a) THEN [a EXCEPT !.state = "released"] ELSE a :
                       a \in attempts}
    /\ execution' = [execution EXCEPT ![op].state = "failed_before_dispatch",
                                      ![op].attempt_count = IF @ = 0 THEN 0 ELSE @ - 1]
    /\ UNCHANGED minted

\* release_before_dispatch gives back the newest attempt if it is still consumed
ReleaseBeforeDispatch(op, r) ==
    /\ execution[op].owner = r
    /\ execution[op].state \in InFlight
    /\ attempts' = {IF a.op = op /\ IsNewest(a) THEN [a EXCEPT !.state = "released"] ELSE a :
                       a \in attempts}
    /\ execution' = [execution EXCEPT ![op].state = "failed_before_dispatch"]
    /\ UNCHANGED minted

\* Mutant: the UPDATE forgets AND state = 'dispatching'.
MarkRepairingAnyState(op, r) ==
    /\ execution[op].owner = r
    /\ execution' = [execution EXCEPT ![op].state = "repairing"]
    /\ UNCHANGED <<attempts, minted>>

MarkRepairing(op, r) ==
    /\ execution[op].owner = r
    /\ execution[op].state = "dispatching"
    /\ execution' = [execution EXCEPT ![op].state = "repairing"]
    /\ UNCHANGED <<attempts, minted>>

\* finish checks the owner and nothing else
Finish(op, r, run, success) ==
    /\ execution[op].owner = r
    /\ execution' = [execution EXCEPT ![op].state = IF success THEN "completed" ELSE "failed",
                                      ![op].run = run]
    /\ UNCHANGED <<attempts, minted>>

MarkOutcomeUnknown(op, r) ==
    /\ execution[op].owner = r
    /\ execution' = [execution EXCEPT ![op].state = "outcome_unknown"]
    /\ UNCHANGED <<attempts, minted>>

-----------------------------------------------------------------------------
\* Any owner, any order.  The run a caller passes to finish is one an attempt
\* of its execution produced.

Transaction(op, r) ==
    \/ ClaimOperation(op, r)
    \/ \E day \in Days, limit \in Limits :
         \/ ReserveAndMarkDispatching(op, r, day, limit)
         \/ DenyBudget(op, r, day, limit)
    \/ ReleaseBeforeDispatch(op, r)
    \/ MarkRepairing(op, r)
    \/ \E run \in 1 .. execution[op].attempt_count, success \in BOOLEAN : Finish(op, r, run, success)
    \/ MarkOutcomeUnknown(op, r)

CoordinatorNext == \E op \in Operations, r \in Requests : Transaction(op, r)

CoordinatorSpec == CoordinatorInit /\ [][CoordinatorNext]_coordinatorVars

-----------------------------------------------------------------------------
\* Properties.

\* The two tables hold rows of their declared shape (db/models.py).
CoordinatorTypeOK ==
    /\ execution \in [Operations -> Execution]
    /\ attempts \subseteq Attempt
    /\ minted \subseteq Requests

\* The attempts of an execution are numbered 1..attempt_count without a gap or
\* a repetition, whatever was released in between: no reservation ever meets
\* the UNIQUE(execution_id, attempt_number) constraint.
AttemptsNumbered ==
    \A op \in Operations :
      /\ \A a \in attempts : a.op = op => a.number \in 1 .. execution[op].attempt_count
      /\ \A n \in 1 .. execution[op].attempt_count :
           \E a \in attempts : a.op = op /\ a.number = n
      /\ \A a, b \in attempts : a.op = op /\ b.op = op /\ a.number = b.number => a = b

\* A row that says a provider call may be under way is backed by a counted
\* attempt: the dispatch line is never crossed on credit.
DispatchIsCounted ==
    \A op \in Operations :
      execution[op].state \in {"dispatching", "repairing"} =>
        \E a \in attempts : /\ a.op = op
                            /\ a.number = execution[op].attempt_count
                            /\ a.state = "consumed"

\* The ledger tells which calls were made, in which order, and counts what may
\* be under way, whatever was released, repaired or claimed again.
LedgerOnRecord == AttemptsNumbered /\ DispatchIsCounted

\* However many callers race for the last slot of a day, the ledger never
\* counts more attempts on that day than the largest limit a policy allows.
BudgetCeiling ==
    \A day \in Days : Usage(day) = 0 \/ \E limit \in Limits : Usage(day) <= limit

\* Ownership of an operation in flight is never taken over: another token is
\* installed only in a row that is not in flight.
OwnershipNotStolen ==
    [][\A op \in Operations :
         execution'[op].owner # execution[op].owner => execution[op].state \notin InFlight
      ]_coordinatorVars
=============================================================================
