---------------------------- MODULE AnalysisService ----------------------------
(***************************************************************************)
(* companion/app/analysis/service.py: AnalysisService.analyze, run by      *)
(* concurrent request threads over the coordinator's tables, the committed *)
(* engine_runs and the provider.  A request is one call of analyze; its    *)
(* pc names the next statement that touches shared state.  The actions     *)
(* follow the order of the source: gate, cache, claim, preflight, attempt  *)
(* reservation, provider call, persisted run, bounded repair, settlement.  *)
(***************************************************************************)
EXTENDS ProviderCoordinator

CONSTANTS
    Plans,     \* provider plans (provider_plan_hash)
    PlanOf,    \* the plan an operation key was built from
    Retries,   \* operation keys built with an explicit retry_id
    MayAbort,  \* requests whose thread may die: process exit, SQLITE_BUSY, any uncaught exception
    NoRun      \* no run to return

ASSUME ServiceAssumptions ==
    /\ PlanOf \in [Operations -> Plans]
    /\ Retries \subseteq Operations
    /\ MayAbort \subseteq Requests

VARIABLES
    runs,      \* committed rows of engine_runs
    request,   \* one record per request
    today,     \* the UTC day (_day_key)
    sends      \* provider calls that really left the machine

serviceVars == <<execution, attempts, minted, runs, request, today, sends>>

Statuses == {"success", "invalid", "error"}

Run == [op : Operations, number : Nat \ {0}, status : Statuses]

\* None is no EngineRun.
ASSUME NoRunAssumption == NoRun \notin Run

\* Points at which a request owns its operation.
Preparing == {"preflight"}
Calling == {"send", "calling"}
Settling == {"mark_unknown", "mark_network", "mark_repairing", "repair", "finish"}
Owning == Preparing \cup Calling \cup Settling

Points == {"idle", "cache", "claim", "wait", "reclaim", "commit_error", "done"} \cup Owning

Replies == {"none", "gate_refused", "result", "outcome_unknown", "in_flight",
            "budget_exceeded", "not_ready", "result_unavailable", "server_error"}

\* number: the attempt in hand; run: the run the request would return
Request == [pc : Points, op : Operations, limit : Limits, fresh : BOOLEAN, repairing : BOOLEAN,
            number : Nat, run : Run \cup {NoRun}, reply : Replies]

\* fresh: the cache is not consulted, because of force, of cache_enabled = False
\* or of an explicit retry_id
NewRequest(op, limit, fresh) ==
    [pc |-> "idle", op |-> op, limit |-> limit, fresh |-> fresh \/ op \in Retries,
     repairing |-> FALSE, number |-> 0, run |-> NoRun, reply |-> "none"]

NewRequests == {NewRequest(op, limit, fresh) :
                  op \in Operations, limit \in Limits, fresh \in BOOLEAN}

ServiceInit ==
    /\ CoordinatorInit
    /\ runs = {}
    /\ request \in [Requests -> NewRequests]
    /\ today = 1
    /\ sends = {}

-----------------------------------------------------------------------------
\* Helpers.

At(r, point) == request[r].pc = point

Op(r) == request[r].op

Goto(r, point) == request' = [request EXCEPT ![r].pc = point]

Answer(r, reply, run) ==
    request' = [request EXCEPT ![r].pc = "done", ![r].reply = reply, ![r].run = run]

Row(r) == execution[Op(r)]

\* get_run: the committed run a coordination row names
StoredRuns(op) == {run \in runs : run.op = op /\ run.number = execution[op].run}

AnswerStoredRun(r) ==
    \/ \E run \in StoredRuns(Op(r)) : Answer(r, "result", run)
    \/ StoredRuns(Op(r)) = {} /\ Answer(r, "result_unavailable", NoRun)

-----------------------------------------------------------------------------
\* Before the claim.

\* Policy, engine package, confirmation and receipt are checked first; any of
\* them may refuse (_effective_execution_policy, _require_package, _verify_execution_gate).
GateRefuses(r) ==
    /\ At(r, "idle")
    /\ Answer(r, "gate_refused", NoRun)
    /\ UNCHANGED <<coordinatorVars, runs, today, sends>>

GatePasses(r) ==
    /\ At(r, "idle")
    /\ Goto(r, IF request[r].fresh THEN "claim" ELSE "cache")
    /\ UNCHANGED <<coordinatorVars, runs, today, sends>>

\* _check_cache: a successful run of the same plan, whatever operation made it
CachedRuns(r) == {run \in runs : PlanOf[run.op] = PlanOf[Op(r)] /\ run.status = "success"}

CacheHit(r) ==
    /\ At(r, "cache")
    /\ \E run \in CachedRuns(r) : Answer(r, "result", run)
    /\ UNCHANGED <<coordinatorVars, runs, today, sends>>

CacheMiss(r) ==
    /\ At(r, "cache")
    /\ CachedRuns(r) = {}
    /\ Goto(r, "claim")
    /\ UNCHANGED <<coordinatorVars, runs, today, sends>>

-----------------------------------------------------------------------------
\* The claim, and the observation of a concurrent owner.

Claims(r) == At(r, "claim") \/ At(r, "reclaim")

ClaimGranted(r) ==
    /\ Claims(r)
    /\ ClaimOperation(Op(r), r)
    /\ Goto(r, "preflight")
    /\ UNCHANGED <<runs, today, sends>>

\* A completed or failed row returns its run.
ClaimFindsRun(r) ==
    /\ Claims(r)
    /\ Row(r).state \in {"completed", "failed"} /\ Row(r).run # 0
    /\ AnswerStoredRun(r)
    /\ UNCHANGED <<coordinatorVars, runs, today, sends>>

\* The second claim catches only the in-flight error.
ClaimFindsUnknown(r) ==
    /\ Claims(r)
    /\ Row(r).state = "outcome_unknown"
    /\ Answer(r, IF At(r, "claim") THEN "outcome_unknown" ELSE "server_error", NoRun)
    /\ UNCHANGED <<coordinatorVars, runs, today, sends>>

ClaimFindsOwner(r) ==
    /\ Claims(r)
    /\ Row(r).state \in InFlight
    /\ \/ At(r, "claim") /\ Goto(r, "wait")
       \/ At(r, "reclaim") /\ Answer(r, "in_flight", NoRun)
    /\ UNCHANGED <<coordinatorVars, runs, today, sends>>

\* wait_for_terminal sees the row out of flight
WaitObserves(r) ==
    /\ At(r, "wait")
    /\ Row(r).state \notin InFlight
    /\ \/ Row(r).run # 0 /\ AnswerStoredRun(r)
       \/ Row(r).run = 0 /\ Row(r).state = "outcome_unknown" /\ Answer(r, "outcome_unknown", NoRun)
       \/ Row(r).run = 0 /\ Row(r).state = "budget_blocked" /\ Answer(r, "budget_exceeded", NoRun)
       \/ Row(r).run = 0 /\ Row(r).state = "failed_before_dispatch" /\ Goto(r, "reclaim")
    /\ UNCHANGED <<coordinatorVars, runs, today, sends>>

\* Mutant: the observer has no deadline.
WaitForever(r) ==
    /\ At(r, "wait")
    /\ Row(r).state \in InFlight
    /\ UNCHANGED serviceVars

\* ... or gives up after its timeout
WaitTimesOut(r) ==
    /\ At(r, "wait")
    /\ Row(r).state \in InFlight
    /\ Answer(r, "in_flight", NoRun)
    /\ UNCHANGED <<coordinatorVars, runs, today, sends>>

-----------------------------------------------------------------------------
\* The owner, up to the dispatch line.

\* create_provider or preflight fails
ProviderNotReady(r) ==
    /\ At(r, "preflight")
    /\ ReleaseBeforeDispatch(Op(r), r)
    /\ Answer(r, "not_ready", NoRun)
    /\ UNCHANGED <<runs, today, sends>>

AttemptReserved(r) ==
    /\ At(r, "preflight")
    /\ ReserveAndMarkDispatching(Op(r), r, today, request[r].limit)
    /\ request' = [request EXCEPT ![r].pc = "send", ![r].number = NextNumber(Op(r))]
    /\ UNCHANGED <<runs, today, sends>>

AttemptDenied(r) ==
    /\ At(r, "preflight")
    /\ DenyBudget(Op(r), r, today, request[r].limit)
    /\ Answer(r, "budget_exceeded", NoRun)
    /\ UNCHANGED <<runs, today, sends>>

-----------------------------------------------------------------------------
\* The provider call.

\* The HTTP request leaves: analyze_vacancy, or repair_output for a repair.
Send(r) ==
    /\ At(r, "send")
    /\ sends' = sends \cup {<<Op(r), request[r].number, r>>}
    /\ Goto(r, "calling")
    /\ UNCHANGED <<coordinatorVars, runs, today>>

\* The provider object raises, before or after the request left.
ProviderRaises(r) ==
    /\ request[r].pc \in Calling
    /\ MarkOutcomeUnknown(Op(r), r)
    /\ IF request[r].repairing THEN Answer(r, "outcome_unknown", request[r].run)
                               ELSE Goto(r, "commit_error")
    /\ UNCHANGED <<runs, today, sends>>

\* The error run of an initial call that raised is committed by the route.
CommitErrorRun(r) ==
    LET run == [op |-> Op(r), number |-> request[r].number, status |-> "error"] IN
    /\ At(r, "commit_error")
    /\ runs' = runs \cup {run}
    /\ Answer(r, "outcome_unknown", run)
    /\ UNCHANGED <<coordinatorVars, today, sends>>

\* What the provider object can return, by what the service makes of it.  The
\* outcome is unknown after a timeout, a connection error ("unknown") and any
\* other error whose text says NETWORK ("network": the message of a proxy, say).
Responses == {"success", "invalid", "error", "unknown", "network"}

StatusOf(response) == IF response \in {"unknown", "network"} THEN "error" ELSE response

\* Mutant: an invalid repair is repaired again.
RepairUnbounded(r, response) ==
    CASE response \in {"unknown", "network"} -> "mark_unknown"
      [] response = "invalid" -> "mark_repairing"
      [] OTHER -> "finish"

\* A repair adds PROVIDER_OUTCOME_UNKNOWN to the result it returns; the initial
\* call leaves what _safe_provider_error made of the text.
AfterResponse(r, response) ==
    CASE response = "unknown" -> "mark_unknown"
      [] response = "network" -> IF request[r].repairing THEN "mark_unknown" ELSE "mark_network"
      [] response = "invalid" /\ ~request[r].repairing -> "mark_repairing"
      [] OTHER -> "finish"

\* The response is parsed, validated, persisted and committed.
ProviderResponds(r) ==
    \E response \in Responses :
      LET run == [op |-> Op(r), number |-> request[r].number, status |-> StatusOf(response)] IN
      /\ At(r, "calling")
      /\ runs' = runs \cup {run}
      /\ request' = [request EXCEPT ![r].run = run, ![r].pc = AfterResponse(r, response)]
      /\ UNCHANGED <<coordinatorVars, today, sends>>

\* Mutant: a call that timed out is made again.
ResponseUnknownRetried(r) ==
    /\ At(r, "mark_unknown")
    /\ MarkOutcomeUnknown(Op(r), r)
    /\ Goto(r, "send")
    /\ UNCHANGED <<runs, today, sends>>

\* The errors of the result say OUTCOME_UNKNOWN, and finish is not called.
ResponseUnknown(r) ==
    /\ At(r, "mark_unknown")
    /\ MarkOutcomeUnknown(Op(r), r)
    /\ Answer(r, "outcome_unknown", request[r].run)
    /\ UNCHANGED <<runs, today, sends>>

\* They say PROVIDER_ERROR: analyze goes on to finish the row it has just marked.
NetworkUnknown(r) ==
    /\ At(r, "mark_network")
    /\ MarkOutcomeUnknown(Op(r), r)
    /\ Goto(r, "finish")
    /\ UNCHANGED <<runs, today, sends>>

-----------------------------------------------------------------------------
\* The one bounded repair, and the settlement.

BeginRepair(r) ==
    /\ At(r, "mark_repairing")
    /\ MarkRepairing(Op(r), r)
    /\ Goto(r, "repair")
    /\ UNCHANGED <<runs, today, sends>>

\* Nothing to repair from, preflight fails, or the reservation raises: the
\* invalid run stands.
RepairSkipped(r) ==
    /\ At(r, "repair")
    /\ Goto(r, "finish")
    /\ UNCHANGED <<coordinatorVars, runs, today, sends>>

RepairReserved(r) ==
    /\ At(r, "repair")
    /\ ReserveAndMarkDispatching(Op(r), r, today, request[r].limit)
    /\ request' = [request EXCEPT ![r].pc = "send", ![r].number = NextNumber(Op(r)),
                                  ![r].repairing = TRUE]
    /\ UNCHANGED <<runs, today, sends>>

\* The invalid run is returned with AI_BUDGET_EXCEEDED and finish is not called.
RepairDenied(r) ==
    /\ At(r, "repair")
    /\ DenyBudget(Op(r), r, today, request[r].limit)
    /\ Answer(r, "budget_exceeded", request[r].run)
    /\ UNCHANGED <<runs, today, sends>>

\* Mutant: only errors count as failures.
FinishInvalidAsCompleted(r) ==
    /\ At(r, "finish")
    /\ Finish(Op(r), r, request[r].run.number, request[r].run.status # "error")
    /\ Answer(r, "result", request[r].run)
    /\ UNCHANGED <<runs, today, sends>>

FinishOperation(r) ==
    /\ At(r, "finish")
    /\ Finish(Op(r), r, request[r].run.number, request[r].run.status = "success")
    /\ Answer(r, "result", request[r].run)
    /\ UNCHANGED <<runs, today, sends>>

-----------------------------------------------------------------------------
\* The environment.

\* The thread dies with its uncommitted work; nothing repairs the row later.
Abort(r) ==
    /\ r \in MayAbort
    /\ request[r].pc \notin {"idle", "done"}
    /\ Answer(r, "server_error", NoRun)
    /\ UNCHANGED <<coordinatorVars, runs, today, sends>>

NextDay ==
    /\ today < LastDay
    /\ today' = today + 1
    /\ UNCHANGED <<coordinatorVars, runs, request, sends>>

\* Every request has been answered and the last day has come.
AllAnswered ==
    /\ today = LastDay
    /\ \A r \in Requests : At(r, "done")
    /\ UNCHANGED serviceVars

Lookup(r) == CacheHit(r) \/ CacheMiss(r)

Claim(r) ==
    \/ ClaimGranted(r) \/ ClaimFindsRun(r) \/ ClaimFindsUnknown(r) \/ ClaimFindsOwner(r)
    \/ WaitObserves(r) \/ WaitTimesOut(r)

Dispatch(r) ==
    \/ ProviderNotReady(r) \/ AttemptReserved(r) \/ AttemptDenied(r)
    \/ Send(r) \/ ProviderRaises(r) \/ CommitErrorRun(r) \/ ProviderResponds(r)

Settle(r) ==
    \/ ResponseUnknown(r) \/ NetworkUnknown(r) \/ BeginRepair(r) \/ RepairSkipped(r)
    \/ RepairReserved(r) \/ RepairDenied(r) \/ FinishOperation(r)

Work(r) == Lookup(r) \/ Claim(r) \/ Dispatch(r) \/ Settle(r)

ServiceNext ==
    \/ \E r \in Requests : GateRefuses(r) \/ GatePasses(r) \/ Work(r) \/ Abort(r)
    \/ NextDay
    \/ AllAnswered

ServiceSpec == ServiceInit /\ [][ServiceNext]_serviceVars

\* A request thread that was admitted keeps running: FastAPI runs it to the end
\* in its thread pool, the provider client has a 120 s timeout and the waiter a
\* 30 s one.
FairServiceSpec == ServiceSpec /\ \A r \in Requests : WF_serviceVars(Work(r))

-----------------------------------------------------------------------------
\* Properties.

ServiceTypeOK ==
    /\ CoordinatorTypeOK
    /\ runs \subseteq Run
    /\ request \in [Requests -> Request]
    /\ today \in Days
    /\ sends \subseteq Operations \X (Nat \ {0}) \X Requests

\* Two requests are never both between claim and settlement of one operation,
\* whatever replies, waits, releases and deaths came before.
SingleOwner ==
    \A r, s \in Requests :
      (r # s /\ Op(r) = Op(s)) => ~(request[r].pc \in Owning /\ request[s].pc \in Owning)

\* A settled row and engine_runs, written in different transactions, agree: a
\* completed operation has its successful run, a failed one an unsuccessful run.
SettledRunCommitted ==
    \A op \in Operations :
      /\ execution[op].state = "completed" =>
           \E run \in StoredRuns(op) : run.status = "success"
      /\ execution[op].state = "failed" =>
           /\ StoredRuns(op) # {}
           /\ \A run \in StoredRuns(op) : run.status # "success"

\* Same-plan duplicates share one persisted result: no operation is ever
\* analysed successfully twice, even across a death between the commit of the
\* run and the settlement of the row.
OneSuccessPerOperation ==
    \A a, b \in runs : (a.op = b.op /\ a.status = "success" /\ b.status = "success") => a = b

\* expected_max_attempts: one execution makes at most the initial call and one
\* repair call.
TwoSendsPerRequest == \A r \in Requests : Cardinality({s \in sends : s[3] = r}) <= 2

\* An answer that says no provider attempt was made is true.
RefusalMeansNoSend ==
    \A r \in Requests :
      (\/ request[r].reply \in {"gate_refused", "not_ready", "in_flight", "result_unavailable"}
       \/ (request[r].reply = "budget_exceeded" /\ request[r].run = NoRun))
        => \A s \in sends : s[3] # r

\* What a request is told agrees with what was sent for it, also when the
\* repair was refused after the first call.
SendsMatchReply == TwoSendsPerRequest /\ RefusalMeansNoSend

\* Once an operation is settled no later request, late reply or retry of the
\* same key calls the provider for it or changes its row, except that the owner
\* of an unknown outcome may still settle it as failed: never as completed, and
\* never as something that may be claimed again.
SettledNeverReopens ==
    [][\A op \in Operations :
         execution[op].state \in Settled =>
           /\ \/ execution'[op] = execution[op]
              \/ /\ execution[op].state = "outcome_unknown"
                 /\ execution'[op].state = "failed"
                 /\ execution'[op].owner = execution[op].owner
           /\ \A s \in sends' : s[1] = op => s \in sends
      ]_serviceVars


\* Repair and explicit retry attempts are counted as real provider attempts
\* (ADR-008): a call that left the machine stays in the day's count.
EverySendIsCounted ==
    \A s \in sends : \E a \in attempts : a.op = s[1] /\ a.number = s[2] /\ a.state = "consumed"

\* An admitted request is answered, also when its operation is stuck in flight.
EveryRequestAnswered ==
    \A r \in Requests : (~ At(r, "idle")) ~> At(r, "done")

\* Every operation leaves flight again unless the thread that owns it died.
EveryOperationLeavesFlight ==
    \A op \in Operations :
      (execution[op].state \in InFlight) ~>
        \/ execution[op].state \notin InFlight
        \/ request[execution[op].owner].reply = "server_error"

\* Nothing hangs: neither the requests nor, unless its owner died, an operation.
ServiceComesToRest == EveryRequestAnswered /\ EveryOperationLeavesFlight

-----------------------------------------------------------------------------
\* The service implements SingleFlight.

HolderOf(op) == IF execution[op].state \in InFlight THEN execution[op].owner ELSE NoRequest

VerdictOf(op) ==
    CASE execution[op].state = "completed" -> "result"
      [] execution[op].state = "failed" -> "failed"
      [] execution[op].state = "outcome_unknown" -> "unknown"
      [] OTHER -> "open"

Flight == INSTANCE SingleFlight
            WITH UnknownIsFinal <- FALSE,
                 holder <- [op \in Operations |-> HolderOf(op)],
                 verdict <- [op \in Operations |-> VerdictOf(op)],
                 calls <- sends

ImplementsSingleFlight == Flight!Spec
=============================================================================
