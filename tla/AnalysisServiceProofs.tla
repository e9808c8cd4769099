------------------------- MODULE AnalysisServiceProofs -------------------------
(***************************************************************************)
(* Proofs about AnalysisService, for any sets of operations and requests,  *)
(* any limits, plans and retries, and whichever threads may die.           *)
(*                                                                         *)
(* Every step of a request is a step of the coordinator or leaves its      *)
(* tables alone, so the service inherits what is proved of the             *)
(* coordinator.  The service's own properties rest on ServiceInv: where a  *)
(* request stands (its pc) fixes the state and the owner of its            *)
(* operation's row, and which runs that row can still get.                 *)
(*                                                                         *)
(* And about Outbox and VacancyIntake, the other requests that arrive      *)
(* twice and whose replies are lost, for any captures, drains and keys.    *)
(***************************************************************************)
EXTENDS AnalysisService, Outbox, ProviderCoordinatorProofs, SequenceTheorems

-----------------------------------------------------------------------------
\* The inductive invariant.

\* A request about to finish a row it has marked as of unknown outcome.
Overruns(r) ==
    /\ request[r].pc = "finish"
    /\ Row(r).state = "outcome_unknown"
    /\ request[r].run.status = "error"

\* The row a request stands on.
Stands(r) ==
    /\ request[r].pc \in Owning \cup {"commit_error"} => Row(r).owner = r
    /\ request[r].pc = "preflight" => Row(r).state = "claimed"
    /\ request[r].pc \in {"send", "calling", "mark_unknown", "mark_network", "mark_repairing"} =>
         Row(r).state = "dispatching"
    /\ request[r].pc = "mark_network" => request[r].run.status = "error"
    /\ request[r].pc = "repair" => Row(r).state = "repairing"
    /\ request[r].pc = "finish" => \/ Row(r).state \in {"dispatching", "repairing"}
                                  \/ Overruns(r)
    /\ request[r].pc = "commit_error" => Row(r).state = "outcome_unknown"

\* A request that calls has the newest attempt, which has no run yet.
CallsNewest(r) ==
    request[r].pc \in {"send", "calling", "commit_error"} =>
      /\ request[r].number # 0
      /\ request[r].number = Row(r).attempt_count
      /\ \A run \in runs : run.op = Op(r) => run.number # request[r].number

\* A request that settles has its run in the database.
HoldsRun(r) ==
    request[r].pc \in Settling => request[r].run \in runs /\ request[r].run.op = Op(r)

\* Runs belong to attempts, one run to an attempt.
RunsNumbered ==
    /\ \A run \in runs : run.number \in 1 .. execution[run.op].attempt_count
    /\ \A a, b \in runs : (a.op = b.op /\ a.number = b.number) => a = b

\* A successful run is the last thing an operation gets: its owner, if it is
\* still there, is about to settle.
Final(run) ==
    /\ execution[run.op].state \in {"completed", "dispatching"}
    /\ \A r \in Requests : (Op(r) = run.op /\ request[r].pc \in Owning) =>
                              (request[r].pc = "finish" /\ request[r].run = run)

SuccessIsFinal == \A run \in runs : run.status = "success" => Final(run)

ServiceInv ==
    /\ ServiceTypeOK
    /\ \A r \in Requests : Stands(r) /\ CallsNewest(r) /\ HoldsRun(r)
    /\ RunsNumbered
    /\ SuccessIsFinal
    /\ OneSuccessPerOperation
    /\ SettledRunCommitted

-----------------------------------------------------------------------------
\* Every step of a request is a transaction of the coordinator or none.

Step(r) == GateRefuses(r) \/ GatePasses(r) \/ Work(r) \/ Abort(r)

\* The steps that open a transaction on the coordinator's tables.
TransactionalStep(r) ==
    \/ ClaimGranted(r)
    \/ ProviderNotReady(r) \/ AttemptReserved(r) \/ AttemptDenied(r)
    \/ ProviderRaises(r) \/ ResponseUnknown(r) \/ NetworkUnknown(r)
    \/ BeginRepair(r) \/ RepairReserved(r) \/ RepairDenied(r) \/ FinishOperation(r)

\* The steps that do not.
LocalStep(r) ==
    \/ GateRefuses(r) \/ GatePasses(r) \/ Lookup(r)
    \/ ClaimFindsRun(r) \/ ClaimFindsUnknown(r) \/ ClaimFindsOwner(r)
    \/ WaitObserves(r) \/ WaitTimesOut(r)
    \/ Send(r) \/ CommitErrorRun(r) \/ ProviderResponds(r) \/ RepairSkipped(r) \/ Abort(r)

LEMMA StepCases ==
    ASSUME NEW r \in Requests, Step(r)
    PROVE  TransactionalStep(r) \/ LocalStep(r)
BY DEF Step, Work, Claim, Dispatch, Settle, TransactionalStep, LocalStep

LEMMA LocalStepsLeaveTables ==
    ASSUME NEW r \in Requests, LocalStep(r)
    PROVE  UNCHANGED coordinatorVars
BY DEF LocalStep, Lookup, GateRefuses, GatePasses, CacheHit, CacheMiss, ClaimFindsRun,
       ClaimFindsUnknown, ClaimFindsOwner, WaitObserves, WaitTimesOut, Send, CommitErrorRun,
       ProviderResponds, RepairSkipped, Abort

LEMMA OperationOfRequest ==
    ASSUME ServiceTypeOK, NEW r \in Requests
    PROVE  /\ Op(r) \in Operations
           /\ request[r].limit \in Limits
           /\ Row(r) \in Execution
BY DEF ServiceTypeOK, CoordinatorTypeOK, Request, Op, Row

LEMMA StepsAreTransactions ==
    ASSUME ServiceInv, NEW r \in Requests, TransactionalStep(r)
    PROVE  Transaction(Op(r), r)
<1>1. today \in Days /\ request[r].limit \in Limits /\ Op(r) \in Operations
  BY OperationOfRequest DEF ServiceInv, ServiceTypeOK
<1>2. CASE ClaimGranted(r)
  BY <1>2 DEF ClaimGranted, Transaction
<1>3. CASE ProviderNotReady(r)
  BY <1>3 DEF ProviderNotReady, Transaction
<1>4. CASE AttemptReserved(r) \/ RepairReserved(r)
  BY <1>1, <1>4 DEF AttemptReserved, RepairReserved, Transaction
<1>5. CASE AttemptDenied(r) \/ RepairDenied(r)
  BY <1>1, <1>5 DEF AttemptDenied, RepairDenied, Transaction
<1>6. CASE ProviderRaises(r) \/ ResponseUnknown(r) \/ NetworkUnknown(r)
  BY <1>6 DEF ProviderRaises, ResponseUnknown, NetworkUnknown, Transaction
<1>7. CASE BeginRepair(r)
  BY <1>7 DEF BeginRepair, Transaction
<1>8. CASE FinishOperation(r)
  <2>1. request[r].run \in runs /\ request[r].run.op = Op(r)
    BY <1>8 DEF ServiceInv, HoldsRun, FinishOperation, At, Settling
  <2>2. request[r].run.number \in 1 .. execution[Op(r)].attempt_count
    BY <2>1 DEF ServiceInv, RunsNumbered
  <2>3. Finish(Op(r), r, request[r].run.number, request[r].run.status = "success")
    BY <1>8 DEF FinishOperation
  <2>4. (request[r].run.status = "success") \in BOOLEAN
    OBVIOUS
  <2> QED BY <2>2, <2>3, <2>4 DEF Transaction
<1> QED BY <1>2, <1>3, <1>4, <1>5, <1>6, <1>7, <1>8 DEF TransactionalStep

-----------------------------------------------------------------------------
\* What a step of r leaves alone.

\* Only r moves, and it keeps its operation.
Moves(r) ==
    /\ \A s \in Requests \ {r} : request'[s] = request[s]
    /\ Op(r)' = Op(r)

LEMMA GotoMoves ==
    ASSUME ServiceTypeOK, NEW r \in Requests, NEW point, Goto(r, point)
    PROVE  Moves(r)
BY DEF ServiceTypeOK, Request, Goto, Moves, Op

LEMMA AnswerMoves ==
    ASSUME ServiceTypeOK, NEW r \in Requests, NEW reply, NEW run, Answer(r, reply, run)
    PROVE  Moves(r)
BY DEF ServiceTypeOK, Request, Answer, Moves, Op

LEMMA OnlyOneMoves ==
    ASSUME ServiceTypeOK, NEW r \in Requests, Step(r)
    PROVE  Moves(r)
<1>1. CASE GateRefuses(r) \/ GatePasses(r) \/ Abort(r)
  BY <1>1, GotoMoves, AnswerMoves DEF GateRefuses, GatePasses, Abort
<1>2. CASE Lookup(r)
  BY <1>2, GotoMoves, AnswerMoves DEF Lookup, CacheHit, CacheMiss
<1>3. CASE ClaimGranted(r)
  BY <1>3, GotoMoves DEF ClaimGranted
<1>4. CASE ClaimFindsUnknown(r)
  BY <1>4, AnswerMoves DEF ClaimFindsUnknown
<1>5. CASE ClaimFindsOwner(r) \/ WaitTimesOut(r)
  BY <1>5, GotoMoves, AnswerMoves DEF ClaimFindsOwner, WaitTimesOut
<1>6. CASE ClaimFindsRun(r) \/ WaitObserves(r)
  BY <1>6, GotoMoves, AnswerMoves DEF ClaimFindsRun, WaitObserves, AnswerStoredRun
<1>7. CASE ProviderNotReady(r) \/ AttemptDenied(r)
  BY <1>7, AnswerMoves DEF ProviderNotReady, AttemptDenied
<1>8. CASE AttemptReserved(r)
  BY <1>8 DEF AttemptReserved, ServiceTypeOK, Request, Moves, Op
<1>9. CASE Send(r) \/ ProviderRaises(r) \/ CommitErrorRun(r)
  BY <1>9, GotoMoves, AnswerMoves DEF Send, ProviderRaises, CommitErrorRun
<1>10. CASE ProviderResponds(r)
  <2>1. PICK run, point : request' = [request EXCEPT ![r].run = run, ![r].pc = point]
    BY <1>10 DEF ProviderResponds
  <2> QED BY <2>1 DEF ServiceTypeOK, Request, Moves, Op
<1>11. CASE RepairReserved(r)
  BY <1>11 DEF RepairReserved, ServiceTypeOK, Request, Moves, Op
<1>12. CASE ResponseUnknown(r) \/ NetworkUnknown(r) \/ BeginRepair(r) \/ RepairSkipped(r) \/ RepairDenied(r)
            \/ FinishOperation(r)
  BY <1>12, GotoMoves, AnswerMoves
     DEF ResponseUnknown, NetworkUnknown, BeginRepair, RepairSkipped, RepairDenied, FinishOperation
<1> QED BY <1>1, <1>2, <1>3, <1>4, <1>5, <1>6, <1>7, <1>8, <1>9, <1>10, <1>11, <1>12
        DEF Step, Work, Claim, Dispatch, Settle

\* Only the row of r's operation changes, and only when nobody or r holds it.
LEMMA OnlyOwnRowChanges ==
    ASSUME ServiceInv, NEW r \in Requests, Step(r)
    PROVE  /\ \A op \in Operations \ {Op(r)} : execution'[op] = execution[op]
           /\ \/ execution' = execution
              \/ Row(r).state \in Claimable
              \/ (Row(r).state \in InFlight \/ Overruns(r)) /\ Row(r).owner = r
<1>1. CASE LocalStep(r)
  BY <1>1, LocalStepsLeaveTables DEF coordinatorVars
<1>2. CASE TransactionalStep(r)
  <2>1. Transaction(Op(r), r)
    BY <1>2, StepsAreTransactions
  <2>2. \A op \in Operations \ {Op(r)} : execution'[op] = execution[op]
    BY <2>1 DEF ServiceInv, ServiceTypeOK, CoordinatorTypeOK, Transaction, ClaimOperation,
                ReserveAndMarkDispatching, RecordReservation, DenyBudget,
                ReleaseBeforeDispatch, MarkRepairing, Finish, MarkOutcomeUnknown
  <2>3. CASE ClaimGranted(r)
    BY <2>2, <2>3 DEF ClaimGranted, ClaimOperation, Row
  <2>4. CASE ~ ClaimGranted(r)
    <3>1. request[r].pc \in Owning
      BY <1>2, <2>4 DEF TransactionalStep, ProviderNotReady, AttemptReserved, AttemptDenied,
           ProviderRaises, ResponseUnknown, NetworkUnknown, BeginRepair, RepairReserved, RepairDenied,
           FinishOperation, At, Owning, Preparing, Calling, Settling
    <3>2. Row(r).owner = r /\ (Row(r).state \in InFlight \/ Overruns(r))
      BY <3>1 DEF ServiceInv, Stands, Owning, Preparing, Calling, Settling, InFlight
    <3> QED BY <2>2, <3>2
  <2> QED BY <2>3, <2>4
<1> QED BY <1>1, <1>2, StepCases

\* A step that adds a run adds the run of the call it makes.
LEMMA OnlyCallsAddRuns ==
    ASSUME ServiceTypeOK, NEW r \in Requests, Step(r)
    PROVE  \/ runs' = runs
           \/ /\ request[r].pc \in {"calling", "commit_error"}
              /\ execution' = execution
              /\ \E run : /\ runs' = runs \cup {run}
                          /\ run.op = Op(r)
                          /\ run.number = request[r].number
                          /\ run.status = "success" => request[r].pc = "calling"
<1>1. CASE CommitErrorRun(r)
  <2> DEFINE run == [op |-> Op(r), number |-> request[r].number, status |-> "error"]
  <2>1. run.op = Op(r) /\ run.number = request[r].number /\ run.status # "success"
    OBVIOUS
  <2> QED BY <1>1, <2>1 DEF CommitErrorRun, At, coordinatorVars
<1>2. CASE ProviderResponds(r)
  <2>1. PICK response \in Responses :
          runs' = runs \cup {[op |-> Op(r), number |-> request[r].number,
                              status |-> StatusOf(response)]}
    BY <1>2 DEF ProviderResponds
  <2> DEFINE run == [op |-> Op(r), number |-> request[r].number,
                     status |-> StatusOf(response)]
  <2>2. run.op = Op(r) /\ run.number = request[r].number
    OBVIOUS
  <2>3. request[r].pc = "calling" /\ execution' = execution
    BY <1>2 DEF ProviderResponds, At, coordinatorVars
  <2> QED BY <2>1, <2>2, <2>3
<1>3. CASE ~ CommitErrorRun(r) /\ ~ ProviderResponds(r)
  BY <1>3 DEF Step, Work, Lookup, Claim, Dispatch, Settle, GateRefuses, GatePasses, Abort,
       CacheHit, CacheMiss, ClaimGranted, ClaimFindsRun, ClaimFindsUnknown, ClaimFindsOwner,
       WaitObserves, WaitTimesOut, ProviderNotReady, AttemptReserved, AttemptDenied, Send,
       ProviderRaises, ResponseUnknown, NetworkUnknown, BeginRepair, RepairSkipped, RepairReserved,
       RepairDenied, FinishOperation
<1> QED BY <1>1, <1>2, <1>3
-----------------------------------------------------------------------------
\* Typing.

LEMMA GotoTyped ==
    ASSUME ServiceTypeOK, NEW r \in Requests, NEW point \in Points, Goto(r, point)
    PROVE  request' \in [Requests -> Request]
BY DEF ServiceTypeOK, Request, Goto

LEMMA AnswerTyped ==
    ASSUME ServiceTypeOK, NEW r \in Requests, NEW reply \in Replies, NEW run \in Run \cup {NoRun},
           Answer(r, reply, run)
    PROVE  request' \in [Requests -> Request]
<1>1. "done" \in Points
  BY DEF Points
<1>2. [request[r] EXCEPT !.pc = "done", !.reply = reply, !.run = run] \in Request
  BY <1>1 DEF ServiceTypeOK, Request
<1>3. request' = [request EXCEPT ![r] = [request[r] EXCEPT !.pc = "done", !.reply = reply,
                                                          !.run = run]]
  BY DEF Answer, ServiceTypeOK
<1> QED BY <1>2, <1>3 DEF ServiceTypeOK

\* What a call that returned or raised leaves in engine_runs.
LEMMA CallMakesRun ==
    ASSUME ServiceInv, NEW r \in Requests, request[r].pc \in {"calling", "commit_error"},
           NEW status \in Statuses
    PROVE  [op |-> Op(r), number |-> request[r].number, status |-> status] \in Run
<1>1. Op(r) \in Operations /\ request[r].number \in Nat
  BY OperationOfRequest DEF ServiceInv, ServiceTypeOK, Request
<1>2. request[r].number # 0
  BY DEF ServiceInv, CallsNewest
<1> QED BY <1>1, <1>2 DEF Run

LEMMA RequestsTyped ==
    ASSUME ServiceInv, NEW r \in Requests, Step(r)
    PROVE  request' \in [Requests -> Request]
<1>0. /\ ServiceTypeOK
      /\ request[r].run \in Run \cup {NoRun}
      /\ NoRun \in Run \cup {NoRun}
      /\ runs \subseteq Run
      /\ NextNumber(Op(r)) \in Nat
  <2>1. execution[Op(r)].attempt_count \in Nat
    BY OperationOfRequest DEF ServiceInv, Row, Execution
  <2> QED BY <2>1 DEF ServiceInv, ServiceTypeOK, Request, NextNumber
<1> USE <1>0 DEF Points, Replies
<1>1. CASE GateRefuses(r) \/ GatePasses(r) \/ Abort(r)
  <2>1. GateRefuses(r) => Answer(r, "gate_refused", NoRun)
    BY DEF GateRefuses
  <2>2. GatePasses(r) => Goto(r, "claim") \/ Goto(r, "cache")
    BY DEF GatePasses
  <2>3. Abort(r) => Answer(r, "server_error", NoRun)
    BY DEF Abort
  <2> QED BY <1>1, <2>1, <2>2, <2>3, GotoTyped, AnswerTyped
<1>2. CASE Lookup(r)
  <2>1. Goto(r, "claim") \/ \E run \in runs : Answer(r, "result", run)
    BY <1>2 DEF Lookup, CacheHit, CacheMiss, CachedRuns
  <2> QED BY <2>1, GotoTyped, AnswerTyped
<1>3. CASE ClaimGranted(r)
  BY <1>3, GotoTyped DEF ClaimGranted, Owning, Preparing
<1>4. CASE ClaimFindsUnknown(r)
  <2>1. Answer(r, "outcome_unknown", NoRun) \/ Answer(r, "server_error", NoRun)
    BY <1>4 DEF ClaimFindsUnknown
  <2> QED BY <2>1, AnswerTyped
<1>5. CASE ClaimFindsOwner(r) \/ WaitTimesOut(r)
  BY <1>5, GotoTyped, AnswerTyped DEF ClaimFindsOwner, WaitTimesOut
<1>6. AnswerStoredRun(r) => request' \in [Requests -> Request]
  <2>1. StoredRuns(Op(r)) \subseteq Run
    BY DEF StoredRuns
  <2> QED BY <2>1, AnswerTyped DEF AnswerStoredRun
<1>7. CASE ClaimFindsRun(r) \/ WaitObserves(r)
  BY <1>6, <1>7, GotoTyped, AnswerTyped DEF ClaimFindsRun, WaitObserves
<1>8. CASE ProviderNotReady(r) \/ AttemptDenied(r)
  BY <1>8, AnswerTyped DEF ProviderNotReady, AttemptDenied
<1>9. CASE AttemptReserved(r)
  <2>1. [request[r] EXCEPT !.pc = "send", !.number = NextNumber(Op(r))] \in Request
    BY DEF ServiceTypeOK, Request, Owning, Calling
  <2>2. request' = [request EXCEPT ![r] =
                      [request[r] EXCEPT !.pc = "send", !.number = NextNumber(Op(r))]]
    BY <1>9 DEF AttemptReserved
  <2> QED BY <2>1, <2>2 DEF ServiceTypeOK
<1>10. CASE Send(r)
  BY <1>10, GotoTyped DEF Send, Owning, Calling
<1>11. CASE ProviderRaises(r)
  BY <1>11, GotoTyped, AnswerTyped DEF ProviderRaises
<1>12. CASE CommitErrorRun(r)
  <2> DEFINE run == [op |-> Op(r), number |-> request[r].number, status |-> "error"]
  <2>1. run \in Run
    BY <1>12, CallMakesRun DEF CommitErrorRun, At, Statuses
  <2>2. Answer(r, "outcome_unknown", run)
    BY <1>12 DEF CommitErrorRun
  <2> HIDE DEF run
  <2> QED BY <2>1, <2>2, AnswerTyped
<1>13. CASE ProviderResponds(r)
  <2>1. PICK response \in Responses :
          request' = [request EXCEPT
            ![r].run = [op |-> Op(r), number |-> request[r].number, status |-> StatusOf(response)],
            ![r].pc = AfterResponse(r, response)]
    BY <1>13 DEF ProviderResponds
  <2> DEFINE run == [op |-> Op(r), number |-> request[r].number, status |-> StatusOf(response)]
  <2>2. StatusOf(response) \in Statuses
    BY DEF Responses, Statuses, StatusOf
  <2>3. run \in Run
    BY <1>13, <2>2, CallMakesRun DEF ProviderResponds, At
  <2>4. AfterResponse(r, response) \in Points
    BY DEF AfterResponse, Owning, Settling
  <2>5. request' = [request EXCEPT ![r].run = run, ![r].pc = AfterResponse(r, response)]
    BY <2>1
  <2>6. [request[r] EXCEPT !.run = run, !.pc = AfterResponse(r, response)] \in Request
    BY <2>3, <2>4 DEF ServiceTypeOK, Request
  <2>7. request' = [request EXCEPT ![r] =
                      [request[r] EXCEPT !.run = run, !.pc = AfterResponse(r, response)]]
    BY <2>5
  <2> QED BY <2>6, <2>7 DEF ServiceTypeOK
<1>14. CASE RepairReserved(r)
  <2>1. [request[r] EXCEPT !.pc = "send", !.number = NextNumber(Op(r)),
                           !.repairing = TRUE] \in Request
    BY DEF ServiceTypeOK, Request, Owning, Calling
  <2>2. request' = [request EXCEPT ![r] =
                      [request[r] EXCEPT !.pc = "send", !.number = NextNumber(Op(r)),
                                         !.repairing = TRUE]]
    BY <1>14 DEF RepairReserved
  <2> QED BY <2>1, <2>2 DEF ServiceTypeOK
<1>15. CASE ResponseUnknown(r) \/ RepairDenied(r) \/ FinishOperation(r)
  BY <1>15, AnswerTyped DEF ResponseUnknown, NetworkUnknown, RepairDenied, FinishOperation
<1>16. CASE NetworkUnknown(r) \/ BeginRepair(r) \/ RepairSkipped(r)
  BY <1>16, GotoTyped DEF NetworkUnknown, BeginRepair, RepairSkipped, Owning, Settling
<1> QED BY <1>1, <1>2, <1>3, <1>4, <1>5, <1>7, <1>8, <1>9, <1>10, <1>11, <1>12, <1>13, <1>14,
           <1>15, <1>16 DEF Step, Work, Claim, Dispatch, Settle

LEMMA StepTyped ==
    ASSUME ServiceInv, NEW r \in Requests, Step(r)
    PROVE  ServiceTypeOK'
<1>1. CoordinatorTypeOK'
  <2>1. CASE TransactionalStep(r)
    BY <2>1, StepsAreTransactions, TransactionTyped, OperationOfRequest DEF ServiceInv, ServiceTypeOK
  <2>2. CASE LocalStep(r)
    BY <2>2, LocalStepsLeaveTables DEF ServiceInv, ServiceTypeOK, CoordinatorTypeOK, coordinatorVars
  <2> QED BY <2>1, <2>2, StepCases
<1>2. runs' \subseteq Run
  <2>1. CASE CommitErrorRun(r)
    BY <2>1, CallMakesRun DEF CommitErrorRun, At, Statuses, ServiceInv, ServiceTypeOK
  <2>2. CASE ProviderResponds(r)
    <3>1. PICK response \in Responses :
            runs' = runs \cup {[op |-> Op(r), number |-> request[r].number, status |-> StatusOf(response)]}
      BY <2>2 DEF ProviderResponds
    <3>2. StatusOf(response) \in Statuses
      BY DEF Responses, Statuses, StatusOf
    <3>3. [op |-> Op(r), number |-> request[r].number, status |-> StatusOf(response)] \in Run
      BY <2>2, <3>2, CallMakesRun DEF ProviderResponds, At
    <3> QED BY <3>1, <3>3 DEF ServiceInv, ServiceTypeOK
  <2>3. CASE runs' = runs
    BY <2>3 DEF ServiceInv, ServiceTypeOK
  <2> QED
    BY <2>1, <2>2, <2>3 DEF Step, Work, Lookup, Claim, Dispatch, Settle, GateRefuses, GatePasses,
       Abort, CacheHit, CacheMiss, ClaimGranted, ClaimFindsRun, ClaimFindsUnknown,
       ClaimFindsOwner, WaitObserves, WaitTimesOut, ProviderNotReady, AttemptReserved,
       AttemptDenied, Send, ProviderRaises, ResponseUnknown, NetworkUnknown, BeginRepair, RepairSkipped,
       RepairReserved, RepairDenied, FinishOperation
<1>3. request' \in [Requests -> Request]
  BY RequestsTyped
<1>4. today' = today
  BY DEF Step, Work, Lookup, Claim, Dispatch, Settle, GateRefuses, GatePasses, Abort,
     CacheHit, CacheMiss, ClaimGranted, ClaimFindsRun, ClaimFindsUnknown, ClaimFindsOwner,
     WaitObserves, WaitTimesOut, ProviderNotReady, AttemptReserved, AttemptDenied, Send,
     ProviderRaises, CommitErrorRun, ProviderResponds, ResponseUnknown, NetworkUnknown, BeginRepair,
     RepairSkipped, RepairReserved, RepairDenied, FinishOperation
<1>5. sends' \subseteq Operations \X (Nat \ {0}) \X Requests
  <2>1. CASE Send(r)
    <3>1. Op(r) \in Operations /\ request[r].number \in Nat \ {0}
      BY <2>1, OperationOfRequest
         DEF Send, At, ServiceInv, ServiceTypeOK, Request, CallsNewest
    <3>2. sends' = sends \cup {<<Op(r), request[r].number, r>>}
      BY <2>1 DEF Send
    <3> QED BY <3>1, <3>2 DEF ServiceInv, ServiceTypeOK
  <2>2. CASE sends' = sends
    BY <2>2 DEF ServiceInv, ServiceTypeOK
  <2> QED
    BY <2>1, <2>2 DEF Step, Work, Lookup, Claim, Dispatch, Settle, GateRefuses, GatePasses,
       Abort, CacheHit, CacheMiss, ClaimGranted, ClaimFindsRun, ClaimFindsUnknown,
       ClaimFindsOwner, WaitObserves, WaitTimesOut, ProviderNotReady, AttemptReserved,
       AttemptDenied, ProviderRaises, CommitErrorRun, ProviderResponds, ResponseUnknown, NetworkUnknown,
       BeginRepair, RepairSkipped, RepairReserved, RepairDenied, FinishOperation
<1> QED BY <1>1, <1>2, <1>3, <1>4, <1>5 DEF ServiceInv, ServiceTypeOK
-----------------------------------------------------------------------------
\* Where a step leaves the request that takes it.

Placed(r) == Stands(r) /\ CallsNewest(r) /\ HoldsRun(r)

Elsewhere == Points \ (Owning \cup {"commit_error"})

LEMMA PlacedElsewhere ==
    ASSUME NEW r \in Requests, request[r].pc \in Elsewhere
    PROVE  Placed(r)
BY DEF Placed, Stands, CallsNewest, HoldsRun, Elsewhere, Owning, Preparing, Calling, Settling

LEMMA GotoPoint ==
    ASSUME ServiceTypeOK, NEW r \in Requests, NEW point, Goto(r, point)
    PROVE  /\ request'[r].pc = point
           /\ request'[r].number = request[r].number
           /\ request'[r].run = request[r].run
BY DEF ServiceTypeOK, Request, Goto

LEMMA AnswerPoint ==
    ASSUME ServiceTypeOK, NEW r \in Requests, NEW reply, NEW run, Answer(r, reply, run)
    PROVE  request'[r].pc = "done"
BY DEF ServiceTypeOK, Request, Answer

\* The steps after which a request holds nothing.
LEMMA LetsGo ==
    ASSUME ServiceInv, NEW r \in Requests, Step(r),
           ~ ClaimGranted(r), ~ AttemptReserved(r), ~ RepairReserved(r), ~ Send(r),
           ~ ProviderRaises(r), ~ ProviderResponds(r), ~ NetworkUnknown(r), ~ BeginRepair(r),
           ~ RepairSkipped(r)
    PROVE  request'[r].pc \in Elsewhere
<1> DEFINE Left == {"done", "claim", "cache", "wait", "reclaim"}
<1>0. Left \subseteq Elsewhere
  BY DEF Elsewhere, Points, Owning, Preparing, Calling, Settling
<1> SUFFICES request'[r].pc \in Left
  BY <1>0
<1>1. ServiceTypeOK
  BY DEF ServiceInv
<1>2. CASE GateRefuses(r) \/ Abort(r) \/ WaitTimesOut(r) \/ ClaimFindsUnknown(r)
  BY <1>1, <1>2, AnswerPoint DEF GateRefuses, Abort, WaitTimesOut, ClaimFindsUnknown
<1>3. CASE GatePasses(r) \/ Lookup(r) \/ ClaimFindsOwner(r)
  BY <1>1, <1>3, AnswerPoint, GotoPoint
     DEF GatePasses, Lookup, CacheHit, CacheMiss, ClaimFindsOwner
<1>4. CASE ClaimFindsRun(r) \/ WaitObserves(r)
  BY <1>1, <1>4, AnswerPoint, GotoPoint DEF ClaimFindsRun, WaitObserves, AnswerStoredRun
<1>5. CASE ProviderNotReady(r) \/ AttemptDenied(r) \/ CommitErrorRun(r)
  BY <1>1, <1>5, AnswerPoint DEF ProviderNotReady, AttemptDenied, CommitErrorRun
<1>6. CASE ResponseUnknown(r) \/ RepairDenied(r) \/ FinishOperation(r)
  BY <1>1, <1>6, AnswerPoint DEF ResponseUnknown, NetworkUnknown, RepairDenied, FinishOperation
<1> QED BY <1>2, <1>3, <1>4, <1>5, <1>6 DEF Step, Work, Claim, Dispatch, Settle

\* A granted reservation makes the newest attempt one that has no run.
LEMMA ReservedIsNewest ==
    ASSUME ServiceInv, NEW r \in Requests, NEW day \in Days, NEW limit \in Limits,
           ReserveAndMarkDispatching(Op(r), r, day, limit), Op(r)' = Op(r),
           request'[r].pc = "send", request'[r].number = NextNumber(Op(r)), runs' = runs
    PROVE  Placed(r)'
<1>1. Op(r) \in Operations /\ Row(r) \in Execution
  BY OperationOfRequest DEF ServiceInv
<1>2. /\ Row(r)'.owner = r
      /\ Row(r)'.state = "dispatching"
      /\ Row(r)'.attempt_count = NextNumber(Op(r))
  BY <1>1 DEF ReserveAndMarkDispatching, RecordReservation, MayReserve, NextNumber, Row, Execution,
              ServiceInv, ServiceTypeOK, CoordinatorTypeOK
<1>3. NextNumber(Op(r)) \in Nat \ {0}
  BY <1>1 DEF NextNumber, Row, Execution
<1>4. \A run \in runs : run.op = Op(r) => run.number # NextNumber(Op(r))
  BY <1>1 DEF ServiceInv, RunsNumbered, NextNumber, Row, Execution
<1>5. CallsNewest(r)'
  BY <1>2, <1>3, <1>4 DEF CallsNewest
<1> QED BY <1>2, <1>5 DEF Placed, Stands, HoldsRun, Settling, Owning, Preparing, Calling

LEMMA ActorPlaced ==
    ASSUME ServiceInv, NEW r \in Requests, Step(r)
    PROVE  Placed(r)'
<1>0. /\ ServiceTypeOK
      /\ Placed(r)
      /\ Op(r)' = Op(r)
      /\ Op(r) \in Operations
      /\ execution \in [Operations -> Execution]
  BY OnlyOneMoves, OperationOfRequest
     DEF ServiceInv, Placed, Moves, ServiceTypeOK, CoordinatorTypeOK
<1>1. CASE ClaimGranted(r)
  <2>1. request'[r].pc = "preflight"
    BY <1>0, <1>1, GotoPoint DEF ClaimGranted
  <2>2. Row(r)'.owner = r /\ Row(r)'.state = "claimed"
    BY <1>0, <1>1 DEF ClaimGranted, ClaimOperation, Row, Execution
  <2> QED BY <2>1, <2>2
        DEF Placed, Stands, CallsNewest, HoldsRun, Settling, Owning, Preparing, Calling
<1>2. CASE AttemptReserved(r) \/ RepairReserved(r)
  <2>1. request'[r].pc = "send" /\ request'[r].number = NextNumber(Op(r)) /\ runs' = runs
    BY <1>0, <1>2 DEF AttemptReserved, RepairReserved, ServiceTypeOK, Request
  <2>2. today \in Days /\ request[r].limit \in Limits
    BY <1>0, OperationOfRequest DEF ServiceTypeOK
  <2>3. ReserveAndMarkDispatching(Op(r), r, today, request[r].limit)
    BY <1>2 DEF AttemptReserved, RepairReserved
  <2> QED BY <1>0, <2>1, <2>2, <2>3, ReservedIsNewest
<1>3. CASE Send(r)
  <2>1. /\ request[r].pc = "send"
        /\ request'[r].pc = "calling"
        /\ request'[r].number = request[r].number
        /\ runs' = runs
    BY <1>0, <1>3, GotoPoint DEF Send, At
  <2>2. Row(r)' = Row(r)
    BY <1>0, <1>3 DEF Send, coordinatorVars, Row
  <2> QED BY <1>0, <2>1, <2>2
        DEF Placed, Stands, CallsNewest, HoldsRun, Settling, Owning, Preparing, Calling
<1>4. CASE ProviderRaises(r)
  <2>1. CASE request[r].repairing
    <3>1. request'[r].pc = "done"
      BY <1>0, <1>4, <2>1, AnswerPoint DEF ProviderRaises
    <3>2. request'[r].pc \in Elsewhere
      BY <3>1 DEF Elsewhere, Points, Owning, Preparing, Calling, Settling
    <3> QED BY <3>2
          DEF Placed, Stands, CallsNewest, HoldsRun, Elsewhere, Owning, Preparing, Calling, Settling
  <2>2. CASE ~ request[r].repairing
    <3>1. /\ request[r].pc \in {"send", "calling"}
          /\ request'[r].pc = "commit_error"
          /\ request'[r].number = request[r].number
          /\ runs' = runs
      BY <1>0, <1>4, <2>2, GotoPoint DEF ProviderRaises, Calling
    <3>2. /\ Row(r)'.owner = r
          /\ Row(r)'.state = "outcome_unknown"
          /\ Row(r)'.attempt_count = Row(r).attempt_count
      BY <1>0, <1>4 DEF ProviderRaises, MarkOutcomeUnknown, Row, Execution
    <3> QED BY <1>0, <3>1, <3>2
          DEF Placed, Stands, CallsNewest, HoldsRun, Settling, Owning, Preparing, Calling
  <2> QED BY <2>1, <2>2
<1>5. CASE ProviderResponds(r)
  <2>0. PICK response \in Responses :
          LET run == [op |-> Op(r), number |-> request[r].number, status |-> StatusOf(response)] IN
          /\ runs' = runs \cup {run}
          /\ request' = [request EXCEPT ![r].run = run, ![r].pc = AfterResponse(r, response)]
    BY <1>5 DEF ProviderResponds
  <2> DEFINE run == [op |-> Op(r), number |-> request[r].number,
                     status |-> StatusOf(response)]
  <2>1. /\ run.op = Op(r)
        /\ runs' = runs \cup {run}
        /\ request' = [request EXCEPT ![r].run = run, ![r].pc = AfterResponse(r, response)]
    BY <2>0
  <2> HIDE DEF run
  <2>2. /\ request[r].pc = "calling"
        /\ request'[r].pc = AfterResponse(r, response)
        /\ request'[r].run = run
    BY <1>0, <1>5, <2>1 DEF ProviderResponds, At, ServiceTypeOK, Request
  <2>4. /\ request'[r].pc \in {"mark_unknown", "mark_network", "mark_repairing", "finish"}
        /\ request'[r].pc = "mark_network" => run.status = "error"
    BY <2>2 DEF AfterResponse, run, StatusOf
  <2>3. Row(r)' = Row(r)
    BY <1>0, <1>5 DEF ProviderResponds, coordinatorVars, Row
  <2> QED BY <1>0, <2>1, <2>2, <2>3, <2>4
        DEF Placed, Stands, CallsNewest, HoldsRun, Settling, Owning, Preparing, Calling
<1>6. CASE BeginRepair(r)
  <2>1. /\ request[r].pc = "mark_repairing"
        /\ request'[r].pc = "repair"
        /\ request'[r].run = request[r].run
        /\ runs' = runs
    BY <1>0, <1>6, GotoPoint DEF BeginRepair, At
  <2>2. Row(r)'.owner = r /\ Row(r)'.state = "repairing"
    BY <1>0, <1>6 DEF BeginRepair, MarkRepairing, Row, Execution
  <2> QED BY <1>0, <2>1, <2>2
        DEF Placed, Stands, CallsNewest, HoldsRun, Settling, Owning, Preparing, Calling
<1>7. CASE RepairSkipped(r)
  <2>1. /\ request[r].pc = "repair"
        /\ request'[r].pc = "finish"
        /\ request'[r].run = request[r].run
        /\ runs' = runs
    BY <1>0, <1>7, GotoPoint DEF RepairSkipped, At
  <2>2. Row(r)' = Row(r)
    BY <1>0, <1>7 DEF RepairSkipped, coordinatorVars, Row
  <2> QED BY <1>0, <2>1, <2>2
        DEF Placed, Stands, CallsNewest, HoldsRun, Settling, Owning, Preparing, Calling
<1>8. CASE NetworkUnknown(r)
  <2>1. /\ request[r].pc = "mark_network"
        /\ request'[r].pc = "finish"
        /\ request'[r].run = request[r].run
        /\ runs' = runs
    BY <1>0, <1>8, GotoPoint DEF NetworkUnknown, At
  <2>2. Row(r)'.owner = r /\ Row(r)'.state = "outcome_unknown"
    BY <1>0, <1>8 DEF NetworkUnknown, MarkOutcomeUnknown, Row, Execution
  <2>3. request[r].run.status = "error"
    BY <1>0, <2>1 DEF Placed, Stands
  <2> QED BY <1>0, <2>1, <2>2, <2>3
        DEF Placed, Stands, Overruns, CallsNewest, HoldsRun, Settling, Owning, Preparing, Calling
<1>9. CASE request'[r].pc \in Elsewhere
  BY <1>9 DEF Placed, Stands, CallsNewest, HoldsRun, Elsewhere, Owning, Preparing, Calling, Settling
<1> QED BY <1>1, <1>2, <1>3, <1>4, <1>5, <1>6, <1>7, <1>8, <1>9, LetsGo

-----------------------------------------------------------------------------
\* Where it leaves the others.

\* A request that holds its operation keeps everybody else off it.
LEMMA HolderExcludes ==
    ASSUME ServiceInv, NEW r \in Requests, Step(r), NEW s \in Requests \ {r},
           Op(s) = Op(r), request[s].pc \notin Elsewhere
    PROVE  execution' = execution /\ runs' = runs
<1>1. /\ request[s].pc \in Owning \cup {"commit_error"}
      /\ Row(r) = Row(s)
  BY DEF Elsewhere, ServiceInv, ServiceTypeOK, Request, Row
<1>2. Row(r).owner = s /\ Row(r).state \in InFlight \cup {"outcome_unknown"}
  BY <1>1 DEF ServiceInv, Stands, Overruns, Owning, Preparing, Calling, Settling, InFlight
<1>3. execution' = execution
  BY <1>2, OnlyOwnRowChanges DEF InFlight, Claimable
<1>4. CASE request[r].pc \in {"calling", "commit_error"}
  BY <1>2, <1>4 DEF ServiceInv, Stands, Owning, Calling
<1> QED BY <1>3, <1>4, OnlyCallsAddRuns DEF ServiceInv

LEMMA OthersPlaced ==
    ASSUME ServiceInv, NEW r \in Requests, Step(r), NEW s \in Requests \ {r}
    PROVE  Placed(s)'
<1>1. request'[s] = request[s] /\ Op(s)' = Op(s) /\ Op(s) \in Operations /\ Placed(s)
  BY OnlyOneMoves, OperationOfRequest DEF Moves, Op, ServiceInv, Placed
<1>2. CASE request[s].pc \in Elsewhere
  BY <1>1, <1>2
     DEF Placed, Stands, CallsNewest, HoldsRun, Elsewhere, Owning, Preparing, Calling, Settling
<1>3. CASE request[s].pc \notin Elsewhere /\ Op(s) = Op(r)
  <2>1. execution' = execution /\ runs' = runs
    BY <1>3, HolderExcludes
  <2> QED BY <1>1, <2>1 DEF Placed, Stands, Overruns, CallsNewest, HoldsRun, Row
<1>4. CASE Op(s) # Op(r)
  <2>1. Row(s)' = Row(s)
    BY <1>1, <1>4, OnlyOwnRowChanges DEF Row
  <2>2. runs' = runs \/ \E run : runs' = runs \cup {run} /\ run.op = Op(r)
    BY OnlyCallsAddRuns DEF ServiceInv
  <2> QED BY <1>1, <1>4, <2>1, <2>2 DEF Placed, Stands, Overruns, CallsNewest, HoldsRun
<1> QED BY <1>2, <1>3, <1>4

-----------------------------------------------------------------------------
\* Runs.

LEMMA CountsGrow ==
    ASSUME ServiceInv, NEW r \in Requests, Step(r), NEW op \in Operations
    PROVE  execution'[op].attempt_count >= execution[op].attempt_count
<1>1. execution \in [Operations -> Execution] /\ execution[op].attempt_count \in Nat
  BY DEF ServiceInv, ServiceTypeOK, CoordinatorTypeOK, Execution
<1>2. CASE execution' = execution
  BY <1>1, <1>2
<1>3. CASE Transaction(Op(r), r)
  BY <1>3, CountsNeverFall, OperationOfRequest DEF ServiceInv, ServiceTypeOK
<1> QED BY <1>2, <1>3, StepCases, StepsAreTransactions, LocalStepsLeaveTables DEF coordinatorVars

LEMMA StepNumbersRuns ==
    ASSUME ServiceInv, NEW r \in Requests, Step(r)
    PROVE  RunsNumbered'
<1>0. /\ ServiceTypeOK
      /\ ServiceTypeOK'
      /\ RunsNumbered
      /\ \A op \in Operations : /\ execution[op].attempt_count \in Nat
                                /\ execution'[op].attempt_count \in Nat
      /\ \A run \in runs : run.op \in Operations /\ run.number \in Nat
  BY StepTyped DEF ServiceInv, ServiceTypeOK, CoordinatorTypeOK, Execution, Run
<1>1. CASE runs' = runs
  <2>1. ASSUME NEW run \in runs
        PROVE  run.number \in 1 .. execution'[run.op].attempt_count
    <3>1. execution'[run.op].attempt_count >= execution[run.op].attempt_count
      BY <1>0, CountsGrow
    <3> QED BY <1>0, <3>1 DEF RunsNumbered
  <2> QED BY <1>0, <1>1, <2>1 DEF RunsNumbered
<1>2. CASE runs' # runs
  <2>1. PICK run : /\ runs' = runs \cup {run}
                   /\ run.op = Op(r)
                   /\ run.number = request[r].number
                   /\ request[r].pc \in {"calling", "commit_error"}
                   /\ execution' = execution
    BY <1>0, <1>2, OnlyCallsAddRuns
  <2>2. /\ run.number = execution[run.op].attempt_count
        /\ run.number # 0
        /\ \A other \in runs : other.op = run.op => other.number # run.number
    BY <2>1 DEF ServiceInv, CallsNewest, Row
  <2>3. run.number \in 1 .. execution'[run.op].attempt_count
    <3>1. run.op \in Operations
      BY <1>0, <2>1, OperationOfRequest
    <3> QED BY <1>0, <2>1, <2>2, <3>1
  <2> QED BY <1>0, <2>1, <2>2, <2>3 DEF RunsNumbered
<1> QED BY <1>1, <1>2

\* A request that holds nothing and whose operation is not up for a claim gets
\* nothing to hold.
LEMMA StaysElsewhere ==
    ASSUME ServiceInv, NEW r \in Requests, Step(r), request[r].pc \in Elsewhere,
           Row(r).state \notin Claimable
    PROVE  /\ request'[r].pc \in Elsewhere
           /\ execution' = execution
           /\ runs' = runs
<1>1. /\ request[r].pc \notin Owning
      /\ request[r].pc # "commit_error"
  BY DEF Elsewhere
<1>2. ~ ClaimGranted(r)
  BY DEF ClaimGranted, ClaimOperation, Row
<1>3. ~ TransactionalStep(r)
  BY <1>1, <1>2 DEF TransactionalStep, ProviderNotReady, AttemptReserved, AttemptDenied,
       ProviderRaises, ResponseUnknown, NetworkUnknown, BeginRepair, RepairReserved, RepairDenied,
       FinishOperation, At, Owning, Preparing, Calling, Settling
<1>4. execution' = execution
  BY <1>3, StepCases, LocalStepsLeaveTables DEF coordinatorVars
<1>5. runs' = runs
  BY <1>1, OnlyCallsAddRuns DEF ServiceInv, Owning, Calling
<1>6. ~ Send(r) /\ ~ ProviderResponds(r) /\ ~ RepairSkipped(r) /\ ~ NetworkUnknown(r)
  BY <1>1 DEF Send, ProviderResponds, RepairSkipped, NetworkUnknown, At, Owning, Calling, Settling
<1>7. ~ AttemptReserved(r) /\ ~ RepairReserved(r) /\ ~ ProviderRaises(r) /\ ~ BeginRepair(r)
  BY <1>3 DEF TransactionalStep
<1> QED BY <1>2, <1>4, <1>5, <1>6, <1>7, LetsGo
-----------------------------------------------------------------------------
\* Success.

\* The run a successful call leaves is the run its caller settles with.
LEMMA NewSuccess ==
    ASSUME ServiceInv, NEW r \in Requests, Step(r),
           NEW run \in runs', run \notin runs, run.status = "success"
    PROVE  /\ run.op = Op(r)
           /\ request[r].pc = "calling"
           /\ request'[r].pc = "finish" /\ request'[r].run = run
           /\ execution' = execution
           /\ runs' = runs \cup {run}
<1>1. request \in [Requests -> Request]
  BY DEF ServiceInv, ServiceTypeOK
<1>2. ProviderResponds(r)
  <2>1. CASE CommitErrorRun(r)
    BY <2>1 DEF CommitErrorRun
  <2> QED
    BY <2>1 DEF Step, Work, Lookup, Claim, Dispatch, Settle, GateRefuses, GatePasses, Abort,
       CacheHit, CacheMiss, ClaimGranted, ClaimFindsRun, ClaimFindsUnknown, ClaimFindsOwner,
       WaitObserves, WaitTimesOut, ProviderNotReady, AttemptReserved, AttemptDenied, Send,
       ProviderRaises, ResponseUnknown, NetworkUnknown, BeginRepair, RepairSkipped, RepairReserved,
       RepairDenied, FinishOperation
<1>3. PICK response \in Responses :
        LET new == [op |-> Op(r), number |-> request[r].number, status |-> StatusOf(response)] IN
        /\ runs' = runs \cup {new}
        /\ request' = [request EXCEPT ![r].run = new, ![r].pc = AfterResponse(r, response)]
  BY <1>2 DEF ProviderResponds
<1>4. run = [op |-> Op(r), number |-> request[r].number,
             status |-> StatusOf(response)]
  BY <1>3
<1>5. response = "success"
  BY <1>4 DEF Responses, StatusOf
<1>6. /\ runs' = runs \cup {run}
      /\ request' = [request EXCEPT ![r].run = run, ![r].pc = AfterResponse(r, response)]
  BY <1>3, <1>4
<1>7. AfterResponse(r, response) = "finish"
  BY <1>5 DEF AfterResponse
<1>8. request'[r].pc = "finish" /\ request'[r].run = run
  BY <1>1, <1>6, <1>7 DEF Request
<1>9. request[r].pc = "calling" /\ execution' = execution
  BY <1>2 DEF ProviderResponds, At, coordinatorVars
<1> QED BY <1>4, <1>6, <1>8, <1>9

LEMMA StepKeepsFinal ==
    ASSUME ServiceInv, NEW r \in Requests, Step(r), NEW run \in runs, run.status = "success"
    PROVE  Final(run)'
<1>1. /\ Final(run)
      /\ run.op \in Operations
      /\ request \in [Requests -> Request]
      /\ execution \in [Operations -> Execution]
      /\ \A s \in Requests \ {r} : request'[s] = request[s] /\ Op(s)' = Op(s)
      /\ Op(r)' = Op(r)
  BY OnlyOneMoves DEF Moves, Op, ServiceInv, ServiceTypeOK, CoordinatorTypeOK, SuccessIsFinal, Run
<1>2. CASE run.op # Op(r)
  <2>1. execution'[run.op] = execution[run.op]
    BY <1>1, <1>2, OnlyOwnRowChanges
  <2> QED BY <1>1, <1>2, <2>1 DEF Final
<1>3. CASE run.op = Op(r) /\ request[r].pc \in Owning
  <2>1. request[r].pc = "finish" /\ request[r].run = run
    BY <1>1, <1>3 DEF Final
  <2>2. FinishOperation(r) \/ Abort(r)
    BY <2>1 DEF Step, Work, Lookup, Claim, Dispatch, Settle, GateRefuses, GatePasses,
       CacheHit, CacheMiss, ClaimGranted, ClaimFindsRun, ClaimFindsUnknown, ClaimFindsOwner,
       WaitObserves, WaitTimesOut, ProviderNotReady, AttemptReserved, AttemptDenied, Send,
       ProviderRaises, CommitErrorRun, ProviderResponds, ResponseUnknown, NetworkUnknown, BeginRepair,
       RepairSkipped, RepairReserved, RepairDenied, FinishOperation, Abort, At, Claims, Calling
  <2>3. request'[r].pc = "done"
    BY <2>2, AnswerPoint DEF FinishOperation, Abort, ServiceInv
  <2>4. execution'[run.op].state \in {"completed", "dispatching"}
    BY <1>1, <1>3, <2>1, <2>2
       DEF FinishOperation, Finish, Abort, coordinatorVars, Final, Execution
  <2> QED BY <1>1, <1>3, <2>3, <2>4 DEF Final, Owning, Preparing, Calling, Settling
<1>4. CASE run.op = Op(r) /\ request[r].pc \notin Owning
  <2>1. Row(r).state \in {"completed", "dispatching"}
    BY <1>1, <1>4 DEF Final, Row
  <2>2. request[r].pc \in Elsewhere
    BY <1>1, <1>4, <2>1 DEF ServiceInv, Stands, Elsewhere, Request
  <2>3. request'[r].pc \in Elsewhere /\ execution' = execution
    BY <2>1, <2>2, StaysElsewhere DEF Claimable
  <2> QED BY <1>1, <1>4, <2>3 DEF Final, Elsewhere
<1> QED BY <1>2, <1>3, <1>4

LEMMA StepKeepsSuccess ==
    ASSUME ServiceInv, NEW r \in Requests, Step(r)
    PROVE  SuccessIsFinal' /\ OneSuccessPerOperation'
<1>1. ASSUME NEW run \in runs', run \notin runs, run.status = "success"
      PROVE  Final(run)' /\ \A other \in runs : other.op = run.op => other.status # "success"
  <2>1. /\ run.op = Op(r)
        /\ request[r].pc = "calling"
        /\ request'[r].pc = "finish" /\ request'[r].run = run
        /\ execution' = execution
    BY <1>1, NewSuccess
  <2>2. Row(r).owner = r /\ Row(r).state = "dispatching"
    BY <2>1 DEF ServiceInv, Stands, Owning, Calling
  <2>3. ASSUME NEW s \in Requests \ {r}, Op(s)' = run.op
        PROVE  request'[s].pc \notin Owning
    <3>1. request'[s] = request[s] /\ Op(s) = Op(r)
      BY <2>1, <2>3, OnlyOneMoves DEF Moves, Op, ServiceInv
    <3>2. request[s].pc \in Owning => Row(s).owner = s
      BY DEF ServiceInv, Stands
    <3> QED BY <2>2, <3>1, <3>2 DEF Row
  <2>4. Final(run)'
    BY <2>1, <2>2, <2>3 DEF Final, Row
  <2>5. ASSUME NEW other \in runs, other.op = run.op, other.status = "success"
        PROVE  FALSE
    <3>1. Final(other)
      BY <2>5 DEF ServiceInv, SuccessIsFinal
    <3> QED BY <2>1, <2>5, <3>1 DEF Final, Owning, Calling
  <2> QED BY <2>4, <2>5
<1>2. SuccessIsFinal'
  BY <1>1, StepKeepsFinal DEF SuccessIsFinal
<1>3. OneSuccessPerOperation'
  <2>1. ASSUME NEW a \in runs', NEW b \in runs', a \notin runs, b \notin runs,
               a.status = "success", b.status = "success"
        PROVE  a = b
    BY <2>1, NewSuccess
  <2> QED BY <1>1, <2>1 DEF ServiceInv, OneSuccessPerOperation
<1> QED BY <1>2, <1>3
-----------------------------------------------------------------------------
\* Settlement.

Agrees(op) ==
    /\ execution[op].state = "completed" => \E run \in StoredRuns(op) : run.status = "success"
    /\ execution[op].state = "failed" => /\ StoredRuns(op) # {}
                                         /\ \A run \in StoredRuns(op) : run.status # "success"

\* Only finish makes a row completed or failed.
LEMMA OnlyFinishSettles ==
    ASSUME ServiceInv, NEW r \in Requests, Step(r), execution' # execution, ~ FinishOperation(r)
    PROVE  execution'[Op(r)].state \notin {"completed", "failed"}
<1>1. execution \in [Operations -> Execution] /\ Op(r) \in Operations
  BY OperationOfRequest DEF ServiceInv, ServiceTypeOK, CoordinatorTypeOK
<1>2. TransactionalStep(r)
  BY StepCases, LocalStepsLeaveTables DEF coordinatorVars
<1>3. CASE ClaimGranted(r)
  BY <1>1, <1>3 DEF ClaimGranted, ClaimOperation
<1>4. CASE ProviderNotReady(r)
  BY <1>1, <1>4 DEF ProviderNotReady, ReleaseBeforeDispatch
<1>5. CASE AttemptReserved(r) \/ RepairReserved(r)
  <2>1. ReserveAndMarkDispatching(Op(r), r, today, request[r].limit)
    BY <1>5 DEF AttemptReserved, RepairReserved
  <2>2. execution'[Op(r)].state = "dispatching"
    BY <1>1, <2>1 DEF ReserveAndMarkDispatching, RecordReservation
  <2> QED BY <2>2
<1>6. CASE AttemptDenied(r) \/ RepairDenied(r)
  <2>1. DenyBudget(Op(r), r, today, request[r].limit)
    BY <1>6 DEF AttemptDenied, RepairDenied
  <2>2. execution'[Op(r)].state = "budget_blocked"
    BY <1>1, <2>1 DEF DenyBudget
  <2> QED BY <2>2
<1>7. CASE ProviderRaises(r) \/ ResponseUnknown(r) \/ NetworkUnknown(r)
  <2>1. MarkOutcomeUnknown(Op(r), r)
    BY <1>7 DEF ProviderRaises, ResponseUnknown, NetworkUnknown
  <2>2. execution'[Op(r)].state = "outcome_unknown"
    BY <1>1, <2>1 DEF MarkOutcomeUnknown
  <2> QED BY <2>2
<1>8. CASE BeginRepair(r)
  BY <1>1, <1>8 DEF BeginRepair, MarkRepairing
<1> QED BY <1>2, <1>3, <1>4, <1>5, <1>6, <1>7, <1>8 DEF TransactionalStep

LEMMA StepKeepsAgreement ==
    ASSUME ServiceInv, NEW r \in Requests, Step(r), NEW op \in Operations
    PROVE  Agrees(op)'
<1>1. /\ Agrees(op)
      /\ execution \in [Operations -> Execution]
      /\ Op(r) \in Operations
  BY OperationOfRequest
     DEF ServiceInv, ServiceTypeOK, CoordinatorTypeOK, SettledRunCommitted, Agrees
<1>2. CASE op # Op(r)
  <2>1. execution'[op] = execution[op]
    BY <1>2, OnlyOwnRowChanges
  <2>2. runs' = runs \/ \E run : runs' = runs \cup {run} /\ run.op = Op(r)
    BY OnlyCallsAddRuns DEF ServiceInv
  <2>3. StoredRuns(op)' = StoredRuns(op)
    BY <1>2, <2>1, <2>2 DEF StoredRuns
  <2> QED BY <1>1, <2>1, <2>3 DEF Agrees
<1>3. CASE op = Op(r) /\ runs' # runs
  <2>1. request[r].pc \in {"calling", "commit_error"} /\ execution' = execution
    BY <1>3, OnlyCallsAddRuns DEF ServiceInv
  <2>2. Row(r).state \in {"dispatching", "outcome_unknown"}
    BY <2>1 DEF ServiceInv, Stands
  <2> QED BY <1>3, <2>1, <2>2 DEF Agrees, Row
<1>4. CASE op = Op(r) /\ runs' = runs /\ execution' = execution
  BY <1>1, <1>4 DEF Agrees, StoredRuns
<1>5. CASE op = Op(r) /\ execution' # execution /\ ~ FinishOperation(r)
  BY <1>5, OnlyFinishSettles DEF Agrees
<1>6. CASE op = Op(r) /\ FinishOperation(r)
  <2> DEFINE run == request[r].run
  <2>1. run \in runs /\ run.op = op
    BY <1>6 DEF FinishOperation, At, ServiceInv, HoldsRun, Settling
  <2>2. /\ execution'[op].run = run.number
        /\ execution'[op].state = IF run.status = "success" THEN "completed" ELSE "failed"
        /\ runs' = runs
    BY <1>1, <1>6 DEF FinishOperation, Finish, Execution
  <2>3. StoredRuns(op)' = {run}
    BY <2>1, <2>2 DEF StoredRuns, ServiceInv, RunsNumbered
  <2> QED BY <2>2, <2>3 DEF Agrees
<1> QED BY <1>2, <1>3, <1>4, <1>5, <1>6

-----------------------------------------------------------------------------
\* The invariant is inductive.

LEMMA InvInit == ServiceInit => ServiceInv
<1> SUFFICES ASSUME ServiceInit PROVE ServiceInv
  OBVIOUS
<1>1. CoordinatorTypeOK
  BY InitTyped DEF ServiceInit
<1>2. runs = {} /\ sends = {} /\ today = 1 /\ request \in [Requests -> NewRequests]
  BY DEF ServiceInit
<1>3. ASSUME NEW r \in Requests
      PROVE  request[r] \in Request /\ request[r].pc = "idle"
  <2>1. PICK op \in Operations, limit \in Limits, fresh \in BOOLEAN :
          request[r] = NewRequest(op, limit, fresh)
    BY <1>2 DEF NewRequests
  <2>2. "idle" \in Points /\ "none" \in Replies
    BY DEF Points, Replies
  <2>3. limit \in Limits /\ (fresh \/ op \in Retries) \in BOOLEAN
    OBVIOUS
  <2> QED BY <2>1, <2>2, <2>3 DEF NewRequest, Request
<1>4. 1 \in Days
  BY CoordinatorAssumptions DEF Days
<1>5. ServiceTypeOK
  <2>1. request \in [Requests -> Request]
    BY <1>2, <1>3
  <2> QED BY <1>1, <1>2, <1>4, <2>1 DEF ServiceTypeOK
<1>6. ASSUME NEW r \in Requests PROVE Placed(r)
  BY <1>3, PlacedElsewhere DEF Elsewhere, Points, Owning, Preparing, Calling, Settling
<1>7. SettledRunCommitted
  BY DEF SettledRunCommitted, ServiceInit, CoordinatorInit
<1> QED BY <1>2, <1>5, <1>6, <1>7
        DEF ServiceInv, Placed, RunsNumbered, SuccessIsFinal, OneSuccessPerOperation

LEMMA InvStep == ServiceInv /\ [ServiceNext]_serviceVars => ServiceInv'
<1>1. ASSUME ServiceInv, NEW r \in Requests, Step(r)
      PROVE  ServiceInv'
  <2>1. \A s \in Requests : Placed(s)'
    BY <1>1, ActorPlaced, OthersPlaced
  <2>2. ServiceTypeOK' /\ RunsNumbered' /\ SuccessIsFinal' /\ OneSuccessPerOperation'
    BY <1>1, StepTyped, StepNumbersRuns, StepKeepsSuccess
  <2>3. SettledRunCommitted'
    BY <1>1, StepKeepsAgreement DEF SettledRunCommitted, Agrees
  <2> QED BY <2>1, <2>2, <2>3 DEF ServiceInv, Placed
<1>2. ASSUME ServiceInv, NextDay
      PROVE  ServiceInv'
  <2>1. today' \in Days
    BY <1>2, CoordinatorAssumptions DEF NextDay, Days, ServiceInv, ServiceTypeOK
  <2>2. UNCHANGED <<execution, attempts, minted, runs, request, sends>>
    BY <1>2 DEF NextDay, coordinatorVars
  <2>3. ServiceTypeOK'
    BY <1>2, <2>1, <2>2 DEF ServiceInv, ServiceTypeOK, CoordinatorTypeOK
  <2>4. \A r \in Requests : Placed(r)'
    BY <1>2, <2>2 DEF ServiceInv, Placed, Stands, Overruns, CallsNewest, HoldsRun, Row, Op
  <2> QED BY <1>2, <2>2, <2>3, <2>4
        DEF ServiceInv, Placed, RunsNumbered, SuccessIsFinal, Final, Op, OneSuccessPerOperation,
            SettledRunCommitted, StoredRuns
<1>3. ASSUME ServiceInv, UNCHANGED serviceVars
      PROVE  ServiceInv'
  <2>1. UNCHANGED <<execution, attempts, minted, runs, request, sends, today>>
    BY <1>3 DEF serviceVars
  <2>2. ServiceTypeOK'
    BY <1>3, <2>1 DEF ServiceInv, ServiceTypeOK, CoordinatorTypeOK
  <2>3. \A r \in Requests : Placed(r)'
    BY <1>3, <2>1 DEF ServiceInv, Placed, Stands, Overruns, CallsNewest, HoldsRun, Row, Op
  <2> QED BY <1>3, <2>1, <2>2, <2>3
        DEF ServiceInv, Placed, RunsNumbered, SuccessIsFinal, Final, Op, OneSuccessPerOperation,
            SettledRunCommitted, StoredRuns
<1> QED BY <1>1, <1>2, <1>3 DEF ServiceNext, AllAnswered, Step

LEMMA InvAlways == ServiceSpec => []ServiceInv
BY InvInit, InvStep, PTL DEF ServiceSpec

-----------------------------------------------------------------------------
\* What the invariant gives.

\* Requests, runs and the coordinator's rows keep their declared shape in
\* every reachable state of service.py.
THEOREM ServiceTyped == ServiceSpec => []ServiceTypeOK
<1>1. ServiceInv => ServiceTypeOK
  BY DEF ServiceInv
<1> QED BY InvAlways, <1>1, PTL

\* Two requests are never both between claim and settlement of one operation.
THEOREM OwnerIsSingle == ServiceSpec => []SingleOwner
<1>1. ServiceInv => SingleOwner
  BY DEF ServiceInv, SingleOwner, Stands, Row
<1> QED BY InvAlways, <1>1, PTL

\* A settled row and engine_runs agree.
THEOREM SettledRunsAreCommitted == ServiceSpec => []SettledRunCommitted
<1>1. ServiceInv => SettledRunCommitted
  BY DEF ServiceInv
<1> QED BY InvAlways, <1>1, PTL

\* No operation is analysed successfully twice.
THEOREM SuccessIsUnique == ServiceSpec => []OneSuccessPerOperation
<1>1. ServiceInv => OneSuccessPerOperation
  BY DEF ServiceInv
<1> QED BY InvAlways, <1>1, PTL

\* An unknown outcome is put down as a failure by its owner.
PutDown(op) ==
    /\ execution[op].state = "outcome_unknown" /\ execution'[op].state = "failed"
    /\ execution'[op].owner = execution[op].owner

LEMMA StepKeepsSettled ==
    ASSUME ServiceInv, NEW r \in Requests, Step(r), NEW op \in Operations,
           execution[op].state \in Settled
    PROVE  /\ execution'[op] = execution[op] \/ PutDown(op)
           /\ \A s \in sends' : s[1] = op => s \in sends
<1>1. execution'[op] = execution[op] \/ PutDown(op)
  <2>1. CASE execution'[op] # execution[op]
    <3>1. op = Op(r) /\ Overruns(r) /\ execution' # execution
      BY <2>1, OnlyOwnRowChanges DEF Row, Claimable, InFlight, Settled
    <3>2. FinishOperation(r)
      <4>1. TransactionalStep(r) /\ request[r].pc = "finish"
        BY <3>1, StepCases, LocalStepsLeaveTables DEF coordinatorVars, Overruns
      <4>2. ~ ClaimGranted(r)
        BY <4>1 DEF ClaimGranted, Claims, At
      <4> QED BY <4>1, <4>2 DEF TransactionalStep, ProviderNotReady, AttemptReserved,
            AttemptDenied, ProviderRaises, ResponseUnknown, NetworkUnknown, BeginRepair,
            RepairReserved, RepairDenied, At, Calling
    <3>3. execution \in [Operations -> Execution]
      BY DEF ServiceInv, ServiceTypeOK, CoordinatorTypeOK
    <3> QED BY <3>1, <3>2, <3>3 DEF FinishOperation, Finish, Overruns, PutDown, Row, Execution
  <2> QED BY <2>1
<1>2. CASE Send(r)
  <2>1. Row(r).state = "dispatching"
    BY <1>2 DEF Send, At, ServiceInv, Stands
  <2>2. sends' = sends \cup {<<Op(r), request[r].number, r>>}
    BY <1>2 DEF Send
  <2> QED BY <1>1, <2>1, <2>2 DEF Row, Settled
<1>3. CASE sends' = sends
  BY <1>1, <1>3
<1> QED
  BY <1>2, <1>3 DEF Step, Work, Lookup, Claim, Dispatch, Settle, GateRefuses, GatePasses, Abort,
     CacheHit, CacheMiss, ClaimGranted, ClaimFindsRun, ClaimFindsUnknown, ClaimFindsOwner,
     WaitObserves, WaitTimesOut, ProviderNotReady, AttemptReserved, AttemptDenied,
     ProviderRaises, CommitErrorRun, ProviderResponds, ResponseUnknown, NetworkUnknown, BeginRepair,
     RepairSkipped, RepairReserved, RepairDenied, FinishOperation

\* A settled operation is never sent to the provider again and keeps its row, unless
\* its owner settles an unknown outcome as failed.
THEOREM SettledStaysSettled == ServiceSpec => SettledNeverReopens
<1> DEFINE Kept == \A op \in Operations :
                     execution[op].state \in Settled =>
                       /\ \/ execution'[op] = execution[op]
                          \/ /\ execution[op].state = "outcome_unknown"
                             /\ execution'[op].state = "failed"
                             /\ execution'[op].owner = execution[op].owner
                       /\ \A s \in sends' : s[1] = op => s \in sends
<1>1. ServiceInv /\ [ServiceNext]_serviceVars => [Kept]_serviceVars
  <2>1. ServiceInv /\ (\E r \in Requests : Step(r)) => Kept
    BY StepKeepsSettled DEF PutDown
  <2>2. NextDay \/ UNCHANGED serviceVars => Kept
    BY DEF NextDay, coordinatorVars, serviceVars
  <2> QED BY <2>1, <2>2 DEF ServiceNext, AllAnswered, Step
<1> QED BY InvAlways, <1>1, PTL DEF ServiceSpec, SettledNeverReopens

-----------------------------------------------------------------------------
\* The service uses the coordinator as the coordinator's specification says.

\* Every behaviour of service.py is a behaviour of the coordinator.
THEOREM ServiceUsesCoordinator == ServiceSpec => CoordinatorSpec
<1>1. ServiceInit => CoordinatorInit
  BY DEF ServiceInit
<1>2. ServiceInv /\ [ServiceNext]_serviceVars => [CoordinatorNext]_coordinatorVars
  <2>1. ASSUME ServiceInv, NEW r \in Requests, Step(r)
        PROVE  [CoordinatorNext]_coordinatorVars
    <3>1. TransactionalStep(r) => CoordinatorNext
      BY <2>1, StepsAreTransactions, OperationOfRequest DEF CoordinatorNext, ServiceInv
    <3> QED BY <2>1, <3>1, StepCases, LocalStepsLeaveTables
  <2>2. NextDay \/ UNCHANGED serviceVars => UNCHANGED coordinatorVars
    BY DEF NextDay, coordinatorVars, serviceVars
  <2> QED BY <2>1, <2>2 DEF ServiceNext, AllAnswered, Step
<1> QED BY <1>1, <1>2, InvAlways, PTL DEF ServiceSpec, CoordinatorSpec

\* Whatever requests race, die or repair, no day counts more attempts than the
\* largest limit of a policy.
THEOREM ServiceKeepsBudget == ServiceSpec => []BudgetCeiling
BY ServiceUsesCoordinator, BudgetIsKept, PTL

-----------------------------------------------------------------------------
\* The service implements SingleFlight.

\* Calls are numbered like attempts, and a request about to call has a number
\* no call of its operation had.
SendsNumbered ==
    /\ \A s \in sends : s[2] \in 1 .. execution[s[1]].attempt_count
    /\ \A r \in Requests : request[r].pc = "send" =>
         \A s \in sends : s[1] = Op(r) => s[2] # request[r].number

\* Where a reservation leaves the number of the attempt.
LEMMA ReservationNumber ==
    ASSUME ServiceInv, NEW r \in Requests, AttemptReserved(r) \/ RepairReserved(r)
    PROVE  request'[r].number = NextNumber(Op(r))
BY DEF AttemptReserved, RepairReserved, ServiceInv, ServiceTypeOK, Request

\* Only a reservation leads to the call.
LEMMA OnlyReservationsSend ==
    ASSUME ServiceInv, NEW r \in Requests, Step(r), request'[r].pc = "send"
    PROVE  AttemptReserved(r) \/ RepairReserved(r)
<1>1. ServiceTypeOK
  BY DEF ServiceInv
<1>2. CASE ClaimGranted(r)
  BY <1>1, <1>2, GotoPoint DEF ClaimGranted
<1>3. CASE Send(r) \/ NetworkUnknown(r) \/ BeginRepair(r) \/ RepairSkipped(r)
  BY <1>1, <1>3, GotoPoint DEF Send, NetworkUnknown, BeginRepair, RepairSkipped
<1>4. CASE ProviderRaises(r)
  BY <1>1, <1>4, GotoPoint, AnswerPoint DEF ProviderRaises
<1>5. CASE ProviderResponds(r)
  <2>1. PICK response \in Responses :
          \E run : request' = [request EXCEPT ![r].run = run, ![r].pc = AfterResponse(r, response)]
    BY <1>5 DEF ProviderResponds
  <2>2. request'[r].pc = AfterResponse(r, response)
    BY <1>1, <2>1 DEF ServiceTypeOK, Request
  <2> QED BY <2>2 DEF AfterResponse
<1> QED BY <1>2, <1>3, <1>4, <1>5, LetsGo DEF Elsewhere, Owning, Calling

LEMMA StepNumbersSends ==
    ASSUME ServiceInv, SendsNumbered, NEW r \in Requests, Step(r)
    PROVE  SendsNumbered'
<1>0. /\ ServiceTypeOK
      /\ ServiceTypeOK'
      /\ \A op \in Operations : /\ execution[op].attempt_count \in Nat
                                /\ execution'[op].attempt_count \in Nat
      /\ \A s \in sends : s[1] \in Operations /\ s[2] \in Nat
      /\ Op(r) \in Operations
  BY StepTyped, OperationOfRequest DEF ServiceInv, ServiceTypeOK, CoordinatorTypeOK, Execution
<1>1. ASSUME NEW s \in sends
      PROVE  s[2] \in 1 .. execution'[s[1]].attempt_count
  <2>1. execution'[s[1]].attempt_count >= execution[s[1]].attempt_count
    BY <1>0, CountsGrow
  <2> QED BY <1>0, <2>1 DEF SendsNumbered
<1>2. CASE Send(r)
  <2> DEFINE new == <<Op(r), request[r].number, r>>
  <2>1. /\ sends' = sends \cup {new}
        /\ request[r].pc = "send"
        /\ request'[r].pc = "calling"
        /\ execution' = execution
    BY <1>0, <1>2, GotoPoint DEF Send, At, coordinatorVars
  <2>2. /\ request[r].number = Row(r).attempt_count
        /\ request[r].number # 0
        /\ Row(r).owner = r
    BY <2>1 DEF ServiceInv, CallsNewest, Stands, Owning, Calling
  <2>3. new[2] \in 1 .. execution'[new[1]].attempt_count
    BY <1>0, <2>1, <2>2 DEF Row
  <2>4. ASSUME NEW s \in Requests, request'[s].pc = "send"
        PROVE  \A call \in sends' : call[1] = Op(s)' => call[2] # request'[s].number
    <3>1. s # r /\ request'[s] = request[s] /\ Op(s)' = Op(s)
      BY <2>1, <2>4, OnlyOneMoves DEF Moves, Op, ServiceInv
    <3>2. Op(s) # Op(r)
      BY <2>2, <2>4, <3>1 DEF ServiceInv, Stands, Owning, Calling, Row
    <3> QED BY <2>1, <2>4, <3>1, <3>2 DEF SendsNumbered
  <2> QED BY <1>1, <2>1, <2>3, <2>4 DEF SendsNumbered
<1>3. CASE sends' = sends
  <2>1. ASSUME NEW s \in Requests, request'[s].pc = "send", s # r
        PROVE  \A call \in sends : call[1] = Op(s)' => call[2] # request'[s].number
    BY <2>1, OnlyOneMoves DEF Moves, Op, ServiceInv, SendsNumbered
  <2>2. ASSUME request'[r].pc = "send"
        PROVE  \A call \in sends : call[1] = Op(r)' => call[2] # request'[r].number
    <3>1. request'[r].number = execution[Op(r)].attempt_count + 1
      BY <2>2, OnlyReservationsSend, ReservationNumber DEF NextNumber
    <3>2. Op(r)' = Op(r)
      BY OnlyOneMoves DEF Moves, ServiceInv
    <3>3. \A call \in sends : call[1] = Op(r) => call[2] <= execution[Op(r)].attempt_count
      BY <1>0 DEF SendsNumbered
    <3> QED BY <1>0, <3>1, <3>2, <3>3
  <2> QED BY <1>1, <1>3, <2>1, <2>2 DEF SendsNumbered
<1> QED
  BY <1>2, <1>3 DEF Step, Work, Lookup, Claim, Dispatch, Settle, GateRefuses, GatePasses, Abort,
     CacheHit, CacheMiss, ClaimGranted, ClaimFindsRun, ClaimFindsUnknown, ClaimFindsOwner,
     WaitObserves, WaitTimesOut, ProviderNotReady, AttemptReserved, AttemptDenied,
     ProviderRaises, CommitErrorRun, ProviderResponds, ResponseUnknown, NetworkUnknown, BeginRepair,
     RepairSkipped, RepairReserved, RepairDenied, FinishOperation

\* The holder and the verdict of every operation, as SingleFlight sees them.
Holder == [op \in Operations |-> HolderOf(op)]
Verdict == [op \in Operations |-> VerdictOf(op)]

\* A step that rewrites one row moves the holder and the verdict of that
\* operation only.
LEMMA OneRowMapped ==
    ASSUME ServiceInv, NEW r \in Requests, Step(r)
    PROVE  /\ Holder' = [Holder EXCEPT ![Op(r)] = HolderOf(Op(r))']
           /\ Verdict' = [Verdict EXCEPT ![Op(r)] = VerdictOf(Op(r))']
<1>0. Op(r) \in Operations
  BY OperationOfRequest DEF ServiceInv
<1>1. Op(r)' = Op(r)
  BY OnlyOneMoves DEF Moves, ServiceInv
<1>2. \A op \in Operations \ {Op(r)} : execution'[op] = execution[op]
  BY OnlyOwnRowChanges
<1>3. \A op \in Operations \ {Op(r)} : HolderOf(op)' = HolderOf(op) /\ VerdictOf(op)' = VerdictOf(op)
  BY <1>2 DEF HolderOf, VerdictOf
<1>4. Holder' = [op \in Operations |-> HolderOf(op)'] /\ Verdict' = [op \in Operations |-> VerdictOf(op)']
  BY DEF Holder, Verdict
<1> QED BY <1>0, <1>1, <1>3, <1>4 DEF Holder, Verdict

\* A step that changes no owner and no state of a row moves neither.
LEMMA RowKeptMapped ==
    ASSUME ServiceInv, NEW r \in Requests, Step(r),
           HolderOf(Op(r))' = HolderOf(Op(r)), VerdictOf(Op(r))' = VerdictOf(Op(r))
    PROVE  Holder' = Holder /\ Verdict' = Verdict
BY OneRowMapped, OperationOfRequest DEF ServiceInv, Holder, Verdict

\* What a request that owns its operation is to SingleFlight.
LEMMA OwnerHolds ==
    ASSUME ServiceInv, NEW r \in Requests, request[r].pc \in Owning, ~ Overruns(r)
    PROVE  HolderOf(Op(r)) = r /\ r # NoRequest /\ VerdictOf(Op(r)) = "open"
<1>1. Row(r).owner = r /\ Row(r).state \in InFlight
  BY DEF ServiceInv, Stands, Owning, Preparing, Calling, Settling, InFlight
<1>2. r # NoRequest
  BY CoordinatorAssumptions
<1> QED BY <1>1, <1>2 DEF HolderOf, VerdictOf, Row, InFlight

LEMMA StepsMapped ==
    ASSUME ServiceInv, SendsNumbered, NEW r \in Requests, Step(r)
    PROVE  \/ UNCHANGED <<Holder, Verdict, sends>>
           \/ Flight!Next
<1> DEFINE op == Op(r)
<1>0. /\ op \in Operations
      /\ Op(r)' = op
      /\ CoordinatorTypeOK
      /\ r # NoRequest
      /\ Holder[op] = HolderOf(op) /\ Verdict[op] = VerdictOf(op)
  BY OnlyOneMoves, OperationOfRequest, CoordinatorAssumptions
     DEF Moves, ServiceInv, ServiceTypeOK, Holder, Verdict
<1>1. /\ Holder' = [Holder EXCEPT ![op] = HolderOf(op)']
      /\ Verdict' = [Verdict EXCEPT ![op] = VerdictOf(op)']
  BY OneRowMapped
<1> HIDE DEF op
<1>2. CASE ClaimGranted(r)
  <2>1. /\ execution[op].state \in Claimable
        /\ execution'[op].state = "claimed" /\ execution'[op].owner = r
        /\ sends' = sends
    BY <1>0, <1>2 DEF ClaimGranted, ClaimOperation, CoordinatorTypeOK, Execution, op
  <2>2. /\ HolderOf(op) = NoRequest /\ VerdictOf(op) = "open"
        /\ HolderOf(op)' = r /\ VerdictOf(op)' = "open"
    BY <1>0, <2>1 DEF HolderOf, VerdictOf, Claimable, InFlight, op
  <2>3. Verdict' = Verdict
    BY <1>0, <1>1, <2>2 DEF Verdict
  <2>4. Flight!Acquire(op, r)
    BY <1>0, <1>1, <2>1, <2>2, <2>3 DEF Flight!Acquire, Flight!Free, Holder, Verdict
  <2> QED BY <1>0, <2>4 DEF Flight!Next
<1>3. CASE Send(r)
  <2>1. HolderOf(op) = r /\ VerdictOf(op) = "open" /\ request[r].pc = "send"
    BY <1>3, OwnerHolds DEF Send, At, Overruns, Owning, Calling, op
  <2>2. execution' = execution /\ sends' = sends \cup {<<op, request[r].number, r>>}
    BY <1>3 DEF Send, coordinatorVars, op
  <2>3. Holder' = Holder /\ Verdict' = Verdict
    BY <2>2 DEF Holder, Verdict, HolderOf, VerdictOf
  <2>4. \A d \in sends : d[1] = op => d[2] # request[r].number
    BY <2>1 DEF SendsNumbered, op
  <2>5. Flight!Call(op)
    <3> DEFINE c == <<op, request[r].number, r>>
    <3>1. c \in sends' /\ sends' = sends \cup {c} /\ c[1] = op /\ c[3] = Holder[op]
      BY <1>0, <2>1, <2>2
    <3>2. \A d \in sends : d[1] = op => d[2] # c[2]
      BY <2>4
    <3> HIDE DEF c
    <3> QED BY <1>0, <2>1, <2>3, <3>1, <3>2 DEF Flight!Call, Holder, Verdict
  <2> QED BY <1>0, <2>5 DEF Flight!Next
<1>4. CASE AttemptReserved(r) \/ RepairReserved(r) \/ BeginRepair(r)
  <2>1. request[r].pc \in Owning /\ ~ Overruns(r)
    BY <1>4 DEF AttemptReserved, RepairReserved, BeginRepair, At, Overruns, Owning, Preparing,
                Settling
  <2>2. ReserveAndMarkDispatching(op, r, today, request[r].limit) \/ MarkRepairing(op, r)
    BY <1>4 DEF AttemptReserved, RepairReserved, BeginRepair, op
  <2>3. execution'[op].owner = r /\ execution'[op].state \in {"dispatching", "repairing"}
    BY <1>0, <2>2, RowAfter
  <2>4. HolderOf(op) = r /\ VerdictOf(op) = "open"
    BY <2>1, OwnerHolds DEF op
  <2>6. HolderOf(op)' = r /\ VerdictOf(op)' = "open"
    BY <1>0, <2>3 DEF HolderOf, VerdictOf, InFlight, op
  <2>7. sends' = sends
    BY <1>4 DEF AttemptReserved, RepairReserved, BeginRepair
  <2> QED BY <2>4, <2>6, <2>7, RowKeptMapped DEF op
<1>5. CASE ProviderNotReady(r) \/ AttemptDenied(r) \/ RepairDenied(r)
  <2>1. request[r].pc \in Owning /\ ~ Overruns(r) /\ sends' = sends
    BY <1>5 DEF ProviderNotReady, AttemptDenied, RepairDenied, At, Overruns, Owning, Preparing,
                Settling
  <2>2. HolderOf(op) = r /\ VerdictOf(op) = "open"
    BY <2>1, OwnerHolds DEF op
  <2>3. ReleaseBeforeDispatch(op, r) \/ DenyBudget(op, r, today, request[r].limit)
    BY <1>5 DEF ProviderNotReady, AttemptDenied, RepairDenied, op
  <2>4. execution'[op].state \in {"failed_before_dispatch", "budget_blocked"}
    BY <1>0, <2>3, RowAfter
  <2>5. HolderOf(op)' = NoRequest /\ VerdictOf(op)' = "open"
    BY <1>0, <2>4 DEF HolderOf, VerdictOf, InFlight, op
  <2>6. Verdict' = Verdict
    BY <1>0, <1>1, <2>2, <2>5 DEF Verdict
  <2>7. Flight!Yield(op)
    BY <1>0, <1>1, <2>1, <2>2, <2>5, <2>6 DEF Flight!Yield, Holder, Verdict
  <2> QED BY <1>0, <2>7 DEF Flight!Next
<1>6. CASE ~ Overruns(r) /\ (\/ ProviderRaises(r) \/ ResponseUnknown(r) \/ NetworkUnknown(r)
                             \/ FinishOperation(r))
  <2>1. request[r].pc \in Owning /\ sends' = sends
    BY <1>6 DEF ProviderRaises, ResponseUnknown, NetworkUnknown, FinishOperation, At, Owning,
                Settling
  <2>2. HolderOf(op) = r
    BY <1>6, <2>1, OwnerHolds DEF op
  <2>3. \/ MarkOutcomeUnknown(op, r)
        \/ Finish(op, r, request[r].run.number, request[r].run.status = "success")
    BY <1>6 DEF ProviderRaises, ResponseUnknown, NetworkUnknown, FinishOperation, op
  <2>4. execution'[op].state \in {"outcome_unknown", "completed", "failed"}
    BY <1>0, <2>3, RowAfter
  <2>5. HolderOf(op)' = NoRequest /\ VerdictOf(op)' \in {"result", "failed", "unknown"}
    BY <1>0, <2>4 DEF HolderOf, VerdictOf, InFlight, op
  <2>6. \E v \in {"result", "failed", "unknown"} : Flight!Settle(op, v)
    BY <1>0, <1>1, <2>1, <2>2, <2>5 DEF Flight!Settle, Holder, Verdict
  <2> QED BY <1>0, <2>6 DEF Flight!Next
<1>8. CASE Overruns(r) /\ FinishOperation(r)
  <2>1. sends' = sends /\ Finish(op, r, request[r].run.number, FALSE)
    BY <1>8 DEF FinishOperation, Overruns, op
  <2>2. execution[op].state = "outcome_unknown" /\ execution'[op].state = "failed"
    BY <1>0, <1>8, <2>1 DEF Overruns, Finish, Row, CoordinatorTypeOK, Execution, op
  <2>3. /\ HolderOf(op) = NoRequest /\ VerdictOf(op) = "unknown"
        /\ HolderOf(op)' = NoRequest /\ VerdictOf(op)' = "failed"
    BY <1>0, <2>2 DEF HolderOf, VerdictOf, InFlight, op
  <2>4. Holder' = Holder
    BY <1>0, <1>1, <2>3 DEF Holder
  <2>5. Flight!PutDown(op)
    BY <1>0, <1>1, <2>1, <2>3, <2>4 DEF Flight!PutDown, Holder, Verdict
  <2> QED BY <1>0, <2>5 DEF Flight!Next
<1>9. CASE Overruns(r) /\ (ProviderRaises(r) \/ ResponseUnknown(r) \/ NetworkUnknown(r))
  BY <1>9 DEF Overruns, ProviderRaises, ResponseUnknown, NetworkUnknown, At, Calling
<1>7. CASE LocalStep(r) /\ ~ Send(r)
  <2>1. execution' = execution
    BY <1>7, LocalStepsLeaveTables DEF coordinatorVars
  <2>2. sends' = sends
    BY <1>7 DEF LocalStep, Lookup, GateRefuses, GatePasses, CacheHit, CacheMiss, ClaimFindsRun,
       ClaimFindsUnknown, ClaimFindsOwner, WaitObserves, WaitTimesOut, CommitErrorRun,
       ProviderResponds, RepairSkipped, Abort
  <2> QED BY <2>1, <2>2 DEF Holder, Verdict, HolderOf, VerdictOf
<1> QED BY <1>2, <1>3, <1>4, <1>5, <1>6, <1>7, <1>8, <1>9, StepCases DEF TransactionalStep

\* Whatever requests race, wait, die, are denied or repair, the coordination
\* keeps the promise of ADR-008: one holder, calls by the holder only, and none
\* after the verdict.
THEOREM ServiceImplementsSingleFlight == ServiceSpec => ImplementsSingleFlight
<1>1. ServiceInit => Flight!Init /\ SendsNumbered
  <2> SUFFICES ASSUME ServiceInit PROVE Flight!Init /\ SendsNumbered
    OBVIOUS
  <2>1. \A op \in Operations : HolderOf(op) = NoRequest /\ VerdictOf(op) = "open"
    BY DEF ServiceInit, CoordinatorInit, HolderOf, VerdictOf, InFlight
  <2>2. sends = {}
    BY DEF ServiceInit
  <2> QED BY <2>1, <2>2 DEF Flight!Init, SendsNumbered
<1>2. ServiceInv /\ SendsNumbered /\ [ServiceNext]_serviceVars => SendsNumbered'
  <2>1. ServiceInv /\ SendsNumbered /\ (\E r \in Requests : Step(r)) => SendsNumbered'
    BY StepNumbersSends
  <2>2. SendsNumbered /\ (NextDay \/ UNCHANGED serviceVars) => SendsNumbered'
    BY DEF NextDay, coordinatorVars, serviceVars, SendsNumbered, Op
  <2> QED BY <2>1, <2>2 DEF ServiceNext, AllAnswered, Step
<1>3. ServiceInv /\ SendsNumbered /\ [ServiceNext]_serviceVars => [Flight!Next]_(Flight!vars)
  <2>1. UNCHANGED <<Holder, Verdict, sends>> => UNCHANGED Flight!vars
    BY DEF Flight!vars, Holder, Verdict
  <2>2. ServiceInv /\ SendsNumbered /\ (\E r \in Requests : Step(r)) => [Flight!Next]_(Flight!vars)
    BY <2>1, StepsMapped
  <2>3. NextDay \/ UNCHANGED serviceVars => UNCHANGED <<Holder, Verdict, sends>>
    BY DEF NextDay, coordinatorVars, serviceVars, Holder, Verdict, HolderOf, VerdictOf
  <2> QED BY <2>1, <2>2, <2>3 DEF ServiceNext, AllAnswered, Step
<1> QED BY <1>1, <1>2, <1>3, InvAlways, PTL DEF ServiceSpec, ImplementsSingleFlight, Flight!Spec

-----------------------------------------------------------------------------
\* What a request is told agrees with what was sent for it.

NeverSent(r) == \A s \in sends : s[3] # r

SentOnce(r) == \E x : \A s \in sends : s[3] = r => s = x

SentTwice(r) == \E x, y : \A s \in sends : s[3] = r => s = x \/ s = y

\* Points before the first call.
BeforeSend(r) ==
    \/ request[r].pc \in {"idle", "cache", "claim", "wait", "reclaim", "preflight"}
    \/ request[r].pc = "send" /\ ~ request[r].repairing

\* Points after the first call and before that of the repair.
BeforeRepair(r) ==
    \/ request[r].pc = "send"
    \/ request[r].pc \in {"calling", "mark_repairing", "repair"} /\ ~ request[r].repairing

\* The answers that say so.
Refused(r) ==
    \/ request[r].reply \in {"gate_refused", "not_ready", "in_flight", "result_unavailable"}
    \/ request[r].reply = "budget_exceeded" /\ request[r].run = NoRun

\* Where a request stands bounds the calls made for it; none is repaired twice,
\* and nothing is answered before the end.
Counts(r) ==
    /\ BeforeSend(r) => NeverSent(r)
    /\ BeforeRepair(r) => SentOnce(r)
    /\ SentTwice(r)
    /\ request[r].pc \in {"mark_repairing", "repair"} => ~ request[r].repairing
    /\ request[r].pc # "done" => request[r].reply = "none"
    /\ Refused(r) => NeverSent(r)

AllCount == \A r \in Requests : Counts(r)

CountsInv == ServiceInv /\ AllCount

LEMMA GotoFields ==
    ASSUME ServiceTypeOK, NEW r \in Requests, NEW point, Goto(r, point)
    PROVE  /\ request'[r].pc = point
           /\ request'[r].repairing = request[r].repairing
           /\ request'[r].reply = request[r].reply
BY DEF ServiceTypeOK, Request, Goto

LEMMA AnswerFields ==
    ASSUME ServiceTypeOK, NEW r \in Requests, NEW reply, NEW run, Answer(r, reply, run)
    PROVE  /\ request'[r].pc = "done"
           /\ request'[r].reply = reply
           /\ request'[r].run = run
BY DEF ServiceTypeOK, Request, Answer

\* A request that goes on without a call or an answer.
LEMMA GoesOn ==
    ASSUME ServiceTypeOK, NEW r \in Requests, Counts(r), sends' = sends,
           request[r].pc # "done", request'[r].pc # "done",
           request'[r].reply = request[r].reply,
           BeforeSend(r)' => BeforeSend(r),
           BeforeRepair(r)' => BeforeSend(r) \/ BeforeRepair(r),
           request'[r].pc \in {"mark_repairing", "repair"} => ~ request'[r].repairing
    PROVE  Counts(r)'
<1>1. NeverSent(r) => SentOnce(r)
  BY DEF NeverSent, SentOnce
<1>2. UNCHANGED <<NeverSent(r), SentOnce(r), SentTwice(r)>>
  BY DEF NeverSent, SentOnce, SentTwice
<1>3. request'[r].reply = "none"
  BY DEF Counts
<1>4. ~ Refused(r)'
  BY <1>3 DEF Refused
<1> QED BY <1>1, <1>2, <1>3, <1>4 DEF Counts

\* A request that is answered.
LEMMA IsAnswered ==
    ASSUME ServiceTypeOK, NEW r \in Requests, Counts(r), sends' = sends,
           NEW reply, NEW run, Answer(r, reply, run),
           (\/ reply \in {"gate_refused", "not_ready", "in_flight", "result_unavailable"}
            \/ reply = "budget_exceeded" /\ run = NoRun) => BeforeSend(r)
    PROVE  Counts(r)'
<1>1. /\ request'[r].pc = "done"
      /\ request'[r].reply = reply
      /\ request'[r].run = run
  BY AnswerFields
<1>2. ~ BeforeSend(r)' /\ ~ BeforeRepair(r)'
  BY <1>1 DEF BeforeSend, BeforeRepair
<1>3. UNCHANGED <<NeverSent(r), SentTwice(r)>>
  BY DEF NeverSent, SentTwice
<1>4. Refused(r)' => BeforeSend(r)
  BY <1>1 DEF Refused
<1> QED BY <1>1, <1>2, <1>3, <1>4 DEF Counts

LEMMA ActorCounts ==
    ASSUME CountsInv, NEW r \in Requests, Step(r)
    PROVE  Counts(r)'
<1>0. ServiceTypeOK /\ Counts(r)
  BY DEF CountsInv, AllCount, ServiceInv
<1> DEFINE s == request[r].pc
<1>1. CASE GateRefuses(r)
  <2>1. s = "idle" /\ sends' = sends /\ Answer(r, "gate_refused", NoRun)
    BY <1>1 DEF GateRefuses, At
  <2>2. BeforeSend(r)
    BY <2>1 DEF BeforeSend
  <2> QED BY <1>0, <2>1, <2>2, IsAnswered
<1>2. CASE GatePasses(r) \/ CacheMiss(r) \/ ClaimGranted(r)
  <2>1. s \in {"idle", "cache", "claim", "reclaim"} /\ sends' = sends
    BY <1>2 DEF GatePasses, CacheMiss, ClaimGranted, Claims, At
  <2>2. \E point \in {"cache", "claim", "preflight"} : Goto(r, point)
    BY <1>2 DEF GatePasses, CacheMiss, ClaimGranted
  <2>3. /\ request'[r].pc \in {"cache", "claim", "preflight"}
        /\ request'[r].reply = request[r].reply
    BY <1>0, <2>2, GotoFields
  <2>4. BeforeSend(r) /\ ~ BeforeRepair(r)'
    BY <2>1, <2>3 DEF BeforeSend, BeforeRepair
  <2> QED BY <1>0, <2>1, <2>3, <2>4, GoesOn
<1>3. AnswerStoredRun(r) /\ BeforeSend(r) /\ sends' = sends => Counts(r)'
  BY <1>0, IsAnswered DEF AnswerStoredRun
<1>4. CASE CacheHit(r) \/ ClaimFindsUnknown(r) \/ Abort(r)
  <2>1. sends' = sends
    BY <1>4 DEF CacheHit, ClaimFindsUnknown, Abort
  <2>2. \E reply \in {"result", "outcome_unknown", "server_error"} : \E run : Answer(r, reply, run)
    BY <1>4 DEF CacheHit, ClaimFindsUnknown, Abort
  <2> QED BY <1>0, <2>1, <2>2, IsAnswered
<1>5. CASE ClaimFindsRun(r)
  <2>1. BeforeSend(r)
    BY <1>5 DEF ClaimFindsRun, Claims, At, BeforeSend
  <2> QED BY <1>3, <1>5, <2>1 DEF ClaimFindsRun
<1>6. CASE ClaimFindsOwner(r) \/ WaitTimesOut(r) \/ WaitObserves(r)
  <2>1. BeforeSend(r) /\ s # "done" /\ sends' = sends
    BY <1>6 DEF ClaimFindsOwner, WaitTimesOut, WaitObserves, Claims, At, BeforeSend
  <2>2. \/ AnswerStoredRun(r)
        \/ \E reply \in {"in_flight", "outcome_unknown", "budget_exceeded"} :
             Answer(r, reply, NoRun)
        \/ Goto(r, "wait") \/ Goto(r, "reclaim")
    BY <1>6 DEF ClaimFindsOwner, WaitTimesOut, WaitObserves
  <2>3. CASE Goto(r, "wait") \/ Goto(r, "reclaim")
    <3>1. /\ request'[r].pc \in {"wait", "reclaim"}
          /\ request'[r].reply = request[r].reply
      BY <1>0, <2>3, GotoFields
    <3>2. ~ BeforeRepair(r)'
      BY <3>1 DEF BeforeRepair
    <3> QED BY <1>0, <2>1, <3>1, <3>2, GoesOn
  <2> QED BY <1>0, <1>3, <2>1, <2>2, <2>3, IsAnswered
<1>7. CASE ProviderNotReady(r) \/ AttemptDenied(r)
  <2>1. BeforeSend(r) /\ sends' = sends
    BY <1>7 DEF ProviderNotReady, AttemptDenied, At, BeforeSend
  <2>2. Answer(r, "not_ready", NoRun) \/ Answer(r, "budget_exceeded", NoRun)
    BY <1>7 DEF ProviderNotReady, AttemptDenied
  <2> QED BY <1>0, <2>1, <2>2, IsAnswered
<1>8. CASE AttemptReserved(r)
  <2>1. s = "preflight" /\ sends' = sends
    BY <1>8 DEF AttemptReserved, At
  <2>2. request'[r].pc = "send" /\ request'[r].reply = request[r].reply
    BY <1>0, <1>8 DEF AttemptReserved, ServiceTypeOK, Request
  <2>3. BeforeSend(r)
    BY <2>1 DEF BeforeSend
  <2> QED BY <1>0, <2>1, <2>2, <2>3, GoesOn
<1>9. CASE RepairReserved(r)
  <2>1. s = "repair" /\ sends' = sends
    BY <1>9 DEF RepairReserved, At
  <2>2. /\ request'[r].pc = "send"
        /\ request'[r].repairing = TRUE
        /\ request'[r].reply = request[r].reply
    BY <1>0, <1>9 DEF RepairReserved, ServiceTypeOK, Request
  <2>3. BeforeRepair(r) /\ ~ BeforeSend(r)'
    BY <1>0, <2>1, <2>2 DEF Counts, BeforeRepair, BeforeSend
  <2> QED BY <1>0, <2>1, <2>2, <2>3, GoesOn
<1>10. CASE Send(r)
  <2> DEFINE c == <<Op(r), request[r].number, r>>
  <2>1. s = "send" /\ sends' = sends \cup {c}
    BY <1>10 DEF Send, At
  <2>2. /\ request'[r].pc = "calling"
        /\ request'[r].repairing = request[r].repairing
        /\ request'[r].reply = request[r].reply
    BY <1>0, <1>10, GotoFields DEF Send
  <2>3. request'[r].reply = "none"
    BY <1>0, <2>1, <2>2 DEF Counts
  <2> HIDE DEF c
  <2>4. SentTwice(r)'
    <3>1. SentOnce(r)
      BY <1>0, <2>1 DEF Counts, BeforeRepair
    <3>2. PICK x : \A d \in sends : d[3] = r => d = x
      BY <3>1 DEF SentOnce
    <3>3. \A d \in sends' : d[3] = r => d = x \/ d = c
      BY <2>1, <3>2
    <3> QED BY <3>3 DEF SentTwice
  <2>5. ~ request[r].repairing => SentOnce(r)'
    <3>1. ~ request[r].repairing => NeverSent(r)
      BY <1>0, <2>1 DEF Counts, BeforeSend
    <3> QED BY <2>1, <3>1 DEF NeverSent, SentOnce
  <2>6. ~ BeforeSend(r)' /\ (BeforeRepair(r)' => ~ request[r].repairing)
    BY <2>2 DEF BeforeSend, BeforeRepair
  <2>7. ~ Refused(r)'
    BY <2>3 DEF Refused
  <2> QED BY <2>2, <2>3, <2>4, <2>5, <2>6, <2>7 DEF Counts
<1>11. CASE ProviderRaises(r)
  <2>1. s \in {"send", "calling"} /\ sends' = sends
    BY <1>11 DEF ProviderRaises, Calling
  <2>2. CASE Goto(r, "commit_error")
    <3>1. request'[r].pc = "commit_error" /\ request'[r].reply = request[r].reply
      BY <1>0, <2>2, GotoFields
    <3>2. ~ BeforeSend(r)' /\ ~ BeforeRepair(r)'
      BY <3>1 DEF BeforeSend, BeforeRepair
    <3> QED BY <1>0, <2>1, <3>1, <3>2, GoesOn
  <2>3. CASE Answer(r, "outcome_unknown", request[r].run)
    BY <1>0, <2>1, <2>3, IsAnswered
  <2> QED BY <1>11, <2>2, <2>3 DEF ProviderRaises
<1>12. CASE CommitErrorRun(r) \/ ResponseUnknown(r) \/ FinishOperation(r)
  <2>1. sends' = sends
    BY <1>12 DEF CommitErrorRun, ResponseUnknown, NetworkUnknown, FinishOperation
  <2>2. \E reply \in {"outcome_unknown", "result"} : \E run : Answer(r, reply, run)
    BY <1>12 DEF CommitErrorRun, ResponseUnknown, NetworkUnknown, FinishOperation
  <2> QED BY <1>0, <2>1, <2>2, IsAnswered
<1>13. CASE ProviderResponds(r)
  <2>1. PICK response \in Responses : \E run :
          request' = [request EXCEPT ![r].run = run, ![r].pc = AfterResponse(r, response)]
    BY <1>13 DEF ProviderResponds
  <2>2. s = "calling" /\ sends' = sends
    BY <1>13 DEF ProviderResponds, At
  <2>3. /\ request'[r].pc = AfterResponse(r, response)
        /\ request'[r].repairing = request[r].repairing
        /\ request'[r].reply = request[r].reply
    BY <1>0, <2>1 DEF ServiceTypeOK, Request
  <2>4. /\ AfterResponse(r, response)
             \in {"mark_unknown", "mark_network", "mark_repairing", "finish"}
        /\ AfterResponse(r, response) = "mark_repairing" => ~ request[r].repairing
    BY DEF AfterResponse
  <2>5. ~ BeforeSend(r)' /\ (BeforeRepair(r)' => BeforeRepair(r))
    BY <2>2, <2>3, <2>4 DEF BeforeSend, BeforeRepair
  <2> QED BY <1>0, <2>2, <2>3, <2>4, <2>5, GoesOn
<1>14. CASE BeginRepair(r) \/ RepairSkipped(r)
  <2>1. s \in {"mark_repairing", "repair"} /\ sends' = sends
    BY <1>14 DEF BeginRepair, RepairSkipped, At
  <2>2. Goto(r, "repair") \/ Goto(r, "finish")
    BY <1>14 DEF BeginRepair, RepairSkipped
  <2>3. /\ request'[r].pc \in {"repair", "finish"}
        /\ request'[r].repairing = request[r].repairing
        /\ request'[r].reply = request[r].reply
    BY <1>0, <2>2, GotoFields
  <2>4. ~ request[r].repairing
    BY <1>0, <2>1 DEF Counts
  <2>5. ~ BeforeSend(r)' /\ (BeforeRepair(r)' => BeforeRepair(r))
    BY <2>1, <2>3, <2>4 DEF BeforeSend, BeforeRepair
  <2> QED BY <1>0, <2>1, <2>3, <2>4, <2>5, GoesOn
<1>15. CASE RepairDenied(r)
  <2>1. s = "repair" /\ sends' = sends /\ Answer(r, "budget_exceeded", request[r].run)
    BY <1>15 DEF RepairDenied, At
  <2>2. request[r].run # NoRun
    BY <2>1, NoRunAssumption DEF CountsInv, ServiceInv, ServiceTypeOK, HoldsRun, Settling
  <2> QED BY <1>0, <2>1, <2>2, IsAnswered
<1>16. CASE NetworkUnknown(r)
  <2>1. s = "mark_network" /\ sends' = sends /\ Goto(r, "finish")
    BY <1>16 DEF NetworkUnknown, At
  <2>2. request'[r].pc = "finish" /\ request'[r].reply = request[r].reply
    BY <1>0, <2>1, GotoFields
  <2>3. ~ BeforeSend(r)' /\ ~ BeforeRepair(r)'
    BY <2>2 DEF BeforeSend, BeforeRepair
  <2> QED BY <1>0, <2>1, <2>2, <2>3, GoesOn
<1> QED BY <1>1, <1>2, <1>4, <1>5, <1>6, <1>7, <1>8, <1>9, <1>10, <1>11, <1>12, <1>13, <1>14,
           <1>15, <1>16 DEF Step, Work, Lookup, Claim, Dispatch, Settle

\* Calls are made for the request that makes the step.
LEMMA OthersCount ==
    ASSUME CountsInv, NEW r \in Requests, Step(r), NEW q \in Requests \ {r}
    PROVE  Counts(q)'
<1>1. request'[q] = request[q]
  BY OnlyOneMoves DEF CountsInv, ServiceInv, Moves
<1>2. \A s \in sends' : s[3] = q => s \in sends
  <2>1. CASE Send(r)
    BY <2>1 DEF Send
  <2>2. CASE sends' = sends
    BY <2>2
  <2> QED
    BY <2>1, <2>2 DEF Step, Work, Lookup, Claim, Dispatch, Settle, GateRefuses, GatePasses, Abort,
       CacheHit, CacheMiss, ClaimGranted, ClaimFindsRun, ClaimFindsUnknown, ClaimFindsOwner,
       WaitObserves, WaitTimesOut, ProviderNotReady, AttemptReserved, AttemptDenied,
       ProviderRaises, CommitErrorRun, ProviderResponds, ResponseUnknown, NetworkUnknown, BeginRepair,
       RepairSkipped, RepairReserved, RepairDenied, FinishOperation
<1>3. /\ NeverSent(q) => NeverSent(q)'
      /\ SentOnce(q) => SentOnce(q)'
      /\ SentTwice(q) => SentTwice(q)'
  BY <1>2 DEF NeverSent, SentOnce, SentTwice
<1>4. UNCHANGED <<BeforeSend(q), BeforeRepair(q), Refused(q)>>
  BY <1>1 DEF BeforeSend, BeforeRepair, Refused
<1> QED BY <1>1, <1>3, <1>4 DEF CountsInv, AllCount, Counts

LEMMA CountsAlways == ServiceSpec => []CountsInv
<1>1. ServiceInit => AllCount
  <2> SUFFICES ASSUME ServiceInit, NEW r \in Requests PROVE Counts(r)
    BY DEF AllCount
  <2>1. sends = {} /\ request[r].pc = "idle" /\ request[r].reply = "none"
    BY DEF ServiceInit, NewRequests, NewRequest
  <2> QED BY <2>1 DEF Counts, BeforeSend, BeforeRepair, Refused, NeverSent, SentOnce, SentTwice
<1>2. CountsInv /\ [ServiceNext]_serviceVars => AllCount'
  <2>1. ASSUME CountsInv, NEW r \in Requests, Step(r)
        PROVE  \A q \in Requests : Counts(q)'
    BY <2>1, ActorCounts, OthersCount
  <2>2. ASSUME CountsInv, NextDay \/ UNCHANGED serviceVars
        PROVE  \A q \in Requests : Counts(q)'
    <3>1. sends' = sends /\ request' = request
      BY <2>2 DEF NextDay, serviceVars
    <3> QED BY <2>2, <3>1 DEF CountsInv, AllCount, Counts, BeforeSend, BeforeRepair, Refused, NeverSent,
               SentOnce, SentTwice
  <2> QED BY <2>1, <2>2 DEF AllCount, ServiceNext, AllAnswered, Step
<1> QED BY <1>1, <1>2, InvInit, InvAlways, PTL DEF ServiceSpec, CountsInv

LEMMA TwoAtMost ==
    ASSUME NEW x, NEW y, NEW S, S \subseteq {x, y}
    PROVE  Cardinality(S) <= 2
<1>1. IsFiniteSet({x}) /\ Cardinality({x}) = 1
  BY FS_Singleton
<1>2. IsFiniteSet({x} \cup {y}) /\ Cardinality({x} \cup {y}) \in {1, 2}
  BY <1>1, FS_AddElement
<1>3. S \subseteq {x} \cup {y}
  OBVIOUS
<1>4. IsFiniteSet(S) /\ Cardinality(S) <= Cardinality({x} \cup {y})
  BY <1>2, <1>3, FS_Subset
<1>5. Cardinality(S) \in Nat
  BY <1>4, FS_CardinalityType
<1> QED BY <1>2, <1>4, <1>5

\* One analyze call sends at most two provider calls, and an answer that says
\* none was made is true, whatever was denied, skipped or died.
THEOREM SendsAgreeWithReplies == ServiceSpec => []SendsMatchReply
<1>1. ASSUME CountsInv PROVE SendsMatchReply
  <2>1. ASSUME NEW r \in Requests PROVE Cardinality({s \in sends : s[3] = r}) <= 2
    <3>1. PICK x, y : \A s \in sends : s[3] = r => s = x \/ s = y
      BY <1>1 DEF CountsInv, AllCount, Counts, SentTwice
    <3> DEFINE S == {s \in sends : s[3] = r}
    <3>2. S \subseteq {x, y}
      BY <3>1
    <3> HIDE DEF S
    <3>3. Cardinality(S) <= 2
      BY <3>2, TwoAtMost
    <3> QED BY <3>3 DEF S
  <2>2. RefusalMeansNoSend
    BY <1>1 DEF CountsInv, AllCount, Counts, Refused, NeverSent, RefusalMeansNoSend
  <2> QED BY <2>1, <2>2 DEF SendsMatchReply, TwoSendsPerRequest
<1> QED BY <1>1, CountsAlways, PTL

-----------------------------------------------------------------------------
(* The outbox and the intake.                                              *)

\* What was stored under the key of a payload, or with its content, settles its delivery.
Acknowledged(p) == \E s \in Stored : s.key = KeyOf[p] \/ s.content = Content[p]
Collided(p) == \E s \in WithKey(p) : s.content # Content[p]

\* The row and the history, of which OutboxTypeOK and HistoryOnRecord speak.
HistoryInv ==
    /\ row \in Rows /\ (Exists(row) <=> row.fields # NoContent) /\ (Exists(row) <=> row.hash # NoContent)
    /\ snaps \in Seq(Snapshots) /\ (Exists(row) <=> Len(snaps) > 0)
    /\ HistoryOnRecord

EntriesInv == outbox \in Seq(Entries) /\ Len(outbox) <= MaxEntries /\ lost \in 0..MaxLost

\* A drain goes through entries that there are; its request is of the first one left.
DrainsInv ==
    /\ drains \in [Drains -> Seq(1..Len(outbox))]
    /\ \A d \in Drains :
          posts[d] # NoPost => /\ drains[d] # <<>>
                               /\ posts[d].payload = outbox[Head(drains[d])].payload

\* An answer is true when it is given, and stays so: also that of an abandoned request.
PostDeclared(post) ==
    /\ post \in Posts
    /\ post.stage # "none" => post.payload \in Payloads
    /\ Exists(post.read) => Exists(row)
    /\ post.stage = "answered" /\ post.reply = "ok" => Acknowledged(post.payload)
    /\ post.stage = "answered" /\ post.reply = "CONFLICT" => Collided(post.payload)

PostsInv == posts \in [Slots -> Posts] /\ \A s \in Slots : PostDeclared(posts[s])

SettledInv == DeletedIsStored /\ ConflictIsCollision

OutboxInv == HistoryInv /\ EntriesInv /\ DrainsInv /\ PostsInv /\ SettledInv

-----------------------------------------------------------------------------
(* Lemmas on the history.                                                  *)

LEMMA InsertedElements ==
    ASSUME NEW S, NEW s \in Seq(S), NEW i \in 1..(Len(s) + 1), NEW e \in S
    PROVE  /\ InsertAt(s, i, e) \in Seq(S) /\ Len(InsertAt(s, i, e)) = Len(s) + 1
           /\ \A j \in 1..(Len(s) + 1) :
                 InsertAt(s, i, e)[j] = IF j < i THEN s[j] ELSE IF j = i THEN e ELSE s[j - 1]
<1>1. Len(s) \in Nat
  BY LenProperties
<1>2. PICK before : before = SubSeq(s, 1, i - 1)
  OBVIOUS
<1>3. PICK after : after = SubSeq(s, i, Len(s))
  OBVIOUS
<1>4. /\ before \in Seq(S) /\ Len(before) = i - 1
      /\ \A j \in 1..(i - 1) : before[j] = s[j]
  <2>1. 1 \in 1..(Len(s) + 1) /\ i - 1 \in 0..Len(s)
    BY <1>1
  <2>2. /\ before \in Seq(S) /\ Len(before) = IF 1 <= i - 1 THEN (i - 1) - 1 + 1 ELSE 0
        /\ \A j \in 1..((i - 1) - 1 + 1) : before[j] = s[1 + j - 1]
    BY <1>2, <2>1, SubSeqProperties
  <2> QED BY <2>1, <2>2
<1>5. /\ after \in Seq(S) /\ Len(after) = Len(s) - i + 1
      /\ \A j \in 1..(Len(s) - i + 1) : after[j] = s[i + j - 1]
  <2>1. Len(s) \in (i - 1)..Len(s)
    BY <1>1
  <2>2. /\ after \in Seq(S) /\ Len(after) = IF i <= Len(s) THEN Len(s) - i + 1 ELSE 0
        /\ \A j \in 1..(Len(s) - i + 1) : after[j] = s[i + j - 1]
    BY <1>3, <2>1, SubSeqProperties
  <2> QED BY <1>1, <2>2
<1>6. PICK one : one = <<e>>
  OBVIOUS
<1>7. one \in Seq(S) /\ Len(one) = 1 /\ one[1] = e
  BY <1>6
<1>8. PICK left : left = before \o one
  OBVIOUS
<1>9. /\ left \in Seq(S) /\ Len(left) = i
      /\ \A j \in 1..i : left[j] = IF j <= i - 1 THEN before[j] ELSE one[j - (i - 1)]
  <2>1. /\ left \in Seq(S) /\ Len(left) = Len(before) + Len(one)
        /\ \A j \in 1..(Len(before) + Len(one)) :
              left[j] = IF j <= Len(before) THEN before[j] ELSE one[j - Len(before)]
    BY <1>4, <1>7, <1>8, ConcatProperties
  <2> QED BY <1>4, <1>7, <2>1
<1>10. PICK all : all = left \o after
  OBVIOUS
<1>11. /\ all \in Seq(S) /\ Len(all) = Len(s) + 1
       /\ \A j \in 1..(Len(s) + 1) : all[j] = IF j <= i THEN left[j] ELSE after[j - i]
  <2>1. /\ all \in Seq(S) /\ Len(all) = Len(left) + Len(after)
        /\ \A j \in 1..(Len(left) + Len(after)) :
              all[j] = IF j <= Len(left) THEN left[j] ELSE after[j - Len(left)]
    BY <1>5, <1>9, <1>10, ConcatProperties
  <2> QED BY <1>1, <1>5, <1>9, <2>1
<1>12. InsertAt(s, i, e) = all
  BY <1>2, <1>3, <1>6, <1>8, <1>10 DEF InsertAt
<1>13. ASSUME NEW j \in 1..(Len(s) + 1)
       PROVE  all[j] = IF j < i THEN s[j] ELSE IF j = i THEN e ELSE s[j - 1]
  <2>1. CASE j < i
    BY <1>1, <1>4, <1>9, <1>11, <2>1
  <2>2. CASE j = i
    <3>1. left[i] = one[i - (i - 1)]
      BY <1>9
    <3>2. i - (i - 1) = 1
      OBVIOUS
    <3> QED BY <1>7, <1>11, <2>2, <3>1, <3>2
  <2>3. CASE j > i
    <3>1. j - i \in 1..(Len(s) - i + 1) /\ i + (j - i) - 1 = j - 1
      BY <1>1, <2>3
    <3> QED BY <1>1, <1>5, <1>11, <2>3, <3>1
  <2> QED BY <1>1, <2>1, <2>2, <2>3
<1> QED BY <1>11, <1>12, <1>13

\* A payload is stored once under its key, and what was stored stays.
LEMMA AppendKeeps ==
    ASSUME snaps \in Seq(Snapshots), OneSnapshotPerKey, NEW p \in Payloads, AppendSnapshot(p)
    PROVE  /\ snaps' \in Seq(Snapshots) /\ Len(snaps') > 0 /\ OneSnapshotPerKey'
           /\ Stored \subseteq Stored' /\ \E s \in Stored' : s.key = KeyOf[p]
<1>1. Len(snaps) \in Nat /\ DOMAIN snaps = 1..Len(snaps)
  BY LenProperties
<1>2. CASE WithKey(p) # {}
  <2>1. snaps' = snaps
    BY <1>2 DEF AppendSnapshot
  <2>2. PICK i \in DOMAIN snaps : snaps[i].key = KeyOf[p]
    BY <1>2 DEF WithKey, Stored
  <2> QED BY <1>1, <2>1, <2>2 DEF OneSnapshotPerKey, Stored
<1>3. CASE WithKey(p) = {}
  <2>1. PICK i \in 1..(Len(snaps) + 1) :
          snaps' = InsertAt(snaps, i, [key |-> KeyOf[p], content |-> Content[p]])
    BY <1>3 DEF AppendSnapshot
  <2>2. PICK e : e = [key |-> KeyOf[p], content |-> Content[p]]
    OBVIOUS
  <2>3. KeyOf[p] \in Keys /\ Content[p] \in Contents
    BY IntakeAssumption DEF Contents
  <2>4. e \in Snapshots /\ e.key = KeyOf[p]
    BY <2>2, <2>3 DEF Snapshots
  <2>5. snaps' = InsertAt(snaps, i, e)
    BY <2>1, <2>2
  <2>6. /\ snaps' \in Seq(Snapshots) /\ Len(snaps') = Len(snaps) + 1
        /\ \A j \in 1..(Len(snaps) + 1) :
              snaps'[j] = IF j < i THEN snaps[j] ELSE IF j = i THEN e ELSE snaps[j - 1]
    BY <2>4, <2>5, InsertedElements
  <2>7. DOMAIN snaps' = 1..(Len(snaps) + 1)
    BY <2>6, LenProperties
  <2>8. \A j \in DOMAIN snaps : snaps[j].key # e.key
    BY <1>3, <2>4 DEF WithKey, Stored
  <2>9. OneSnapshotPerKey'
    <3> SUFFICES ASSUME NEW j \in DOMAIN snaps', NEW k \in DOMAIN snaps', snaps'[j].key = snaps'[k].key
                 PROVE  j = k
      BY DEF OneSnapshotPerKey
    <3> DEFINE Old(n) == IF n < i THEN n ELSE n - 1
    <3>1. \A n \in DOMAIN snaps' : n # i => Old(n) \in DOMAIN snaps /\ snaps'[n] = snaps[Old(n)]
      BY <1>1, <2>6, <2>7
    <3>2. snaps'[i] = e
      BY <1>1, <2>6
    <3>3. CASE j = i \/ k = i
      BY <2>8, <3>1, <3>2, <3>3
    <3>4. CASE j # i /\ k # i
      <4>1. Old(j) = Old(k)
        BY <3>1, <3>4 DEF OneSnapshotPerKey
      <4> QED BY <1>1, <2>7, <3>4, <4>1
    <3> QED BY <3>3, <3>4
  <2>10. Stored \subseteq Stored'
    <3> SUFFICES ASSUME NEW j \in DOMAIN snaps PROVE \E n \in DOMAIN snaps' : snaps'[n] = snaps[j]
      BY DEF Stored
    <3>1. CASE j < i
      BY <1>1, <2>6, <2>7, <3>1
    <3>2. CASE j >= i
      <4>1. j + 1 \in DOMAIN snaps' /\ snaps'[j + 1] = snaps[j]
        BY <1>1, <2>6, <2>7, <3>2
      <4> QED BY <4>1
    <3> QED BY <1>1, <3>1, <3>2
  <2>11. \E s \in Stored' : s.key = KeyOf[p]
    <3>1. snaps'[i] = e /\ i \in DOMAIN snaps'
      BY <1>1, <2>6, <2>7
    <3> QED BY <2>4, <3>1 DEF Stored
  <2> QED BY <1>1, <2>6, <2>9, <2>10, <2>11
<1> QED BY <1>2, <1>3

LEMMA StoredGrows ==
    ASSUME Stored \subseteq Stored', NEW p
    PROVE  /\ Acknowledged(p) => Acknowledged(p)'
           /\ Collided(p) => Collided(p)'
           /\ WithKey(p) # {} => WithKey(p)' # {}
BY DEF Acknowledged, Collided, WithKey

\* There is a difference between a content and none.
LEMMA ContentIsKnown ==
    /\ NoContent \notin Contents /\ \A p \in Payloads : Content[p] \in Contents /\ Content[p] # NoContent
    /\ NoRow \in Rows /\ ~ Exists(NoRow) /\ NoRow.fields = NoContent /\ NoRow.hash = NoContent
    /\ NoRow.revision = 0
<1>1. PICK f \in Fields : TRUE
  BY IntakeAssumption
<1>2. NoContent \notin Contents
  BY <1>1, IntakeAssumption DEF NoContent, Contents
<1>3. \A p \in Payloads : Content[p] \in Contents
  BY IntakeAssumption DEF Contents
<1> QED BY <1>2, <1>3 DEF NoRow, Rows, Exists

\* The transaction of an intake.
LEMMA WritesKeep ==
    ASSUME HistoryInv, NEW post \in Posts, post.payload \in Payloads,
           Exists(post.read) => Exists(row), Writes(post)
    PROVE  /\ HistoryInv' /\ Stored \subseteq Stored' /\ (Exists(row) => Exists(row'))
           /\ ~ Duplicate(post) => Acknowledged(post.payload)'
<1>1. PICK p \in Payloads, content \in Contents : p = post.payload /\ content = Content[p]
  BY ContentIsKnown
<1>2. CASE Duplicate(post)
  <2>1. UNCHANGED <<row, snaps>>
    BY <1>2 DEF Writes
  <2> QED BY <1>2, <2>1 DEF HistoryInv, HistoryOnRecord, OneSnapshotPerKey, RowComesFromHistory,
             Stored, WithKey, Exists
<1>3. CASE ~ Duplicate(post)
  <2>1. AppendSnapshot(p)
    BY <1>1, <1>3 DEF Writes
  <2>2. /\ snaps' \in Seq(Snapshots) /\ Len(snaps') > 0 /\ OneSnapshotPerKey'
        /\ Stored \subseteq Stored' /\ \E s \in Stored' : s.key = KeyOf[p]
    BY <2>1, AppendKeeps DEF HistoryInv, HistoryOnRecord
  <2>3. Acknowledged(p)' /\ WithKey(p)' # {} /\ \A q : WithKey(q) # {} => WithKey(q)' # {}
    BY <2>2, StoredGrows DEF Acknowledged, WithKey
  <2>4. /\ row' \in Rows /\ Exists(row') /\ row'.fields \in Contents /\ row'.hash = content
        /\ \A f \in Fields : \/ row'.fields[f] = content[f]
                           \/ (Exists(row) /\ row'.fields[f] = row.fields[f])
    <3>1. CASE Exists(post.read)
      <4>1. PICK read : read = post.read /\ read \in Rows
        BY DEF Posts
      <4>2. row' = UpdatedRow(read, content) /\ Exists(row)
        BY <1>1, <1>3, <3>1, <4>1 DEF Writes
      <4>3. row.fields \in Contents
        BY <4>2 DEF HistoryInv, Rows
      <4>4. PICK fields : fields = [f \in Fields |-> IF content[f] = read.fields[f]
                                                  THEN row.fields[f] ELSE content[f]]
        OBVIOUS
      <4>5. fields \in Contents /\ \A f \in Fields : fields[f] \in {row.fields[f], content[f]}
        BY <1>1, <4>3, <4>4 DEF Contents
      <4>6. row' = [fields |-> fields, hash |-> content, revision |-> read.revision + 1]
        BY <4>2, <4>4 DEF UpdatedRow
      <4>7. read.revision \in Nat
        BY <4>1 DEF Rows
      <4>8. row' \in Rows /\ row'.fields = fields /\ row'.hash = content /\ row'.revision > 0
        BY <1>1, <4>5, <4>6, <4>7 DEF Rows
      <4> QED BY <4>2, <4>5, <4>8 DEF Exists
    <3>2. CASE ~ Exists(post.read)
      <4>1. row' = [fields |-> content, hash |-> content, revision |-> 1]
        BY <1>1, <1>3, <3>2 DEF Writes, CreatedRow
      <4>2. row' \in Rows /\ row'.fields = content /\ row'.hash = content /\ row'.revision > 0
        BY <1>1, <4>1 DEF Rows
      <4> QED BY <1>1, <4>2 DEF Exists
    <3> QED BY <3>1, <3>2
  <2>5. RowComesFromHistory'
    <3> SUFFICES ASSUME NEW f \in Fields
                 PROVE  \E q \in Payloads : WithKey(q)' # {} /\ Content[q][f] = row'.fields[f]
      BY DEF RowComesFromHistory
    <3>1. CASE row'.fields[f] = content[f]
      BY <1>1, <2>3, <3>1
    <3>2. CASE Exists(row) /\ row'.fields[f] = row.fields[f]
      BY <2>3, <3>2 DEF HistoryInv, HistoryOnRecord, RowComesFromHistory
    <3> QED BY <2>4, <3>1, <3>2
  <2>6. row'.fields # NoContent /\ row'.hash # NoContent
    BY <1>1, <2>4, ContentIsKnown
  <2>7. HistoryInv'
    BY <2>2, <2>4, <2>5, <2>6 DEF HistoryInv, HistoryOnRecord
  <2> QED BY <1>1, <2>2, <2>3, <2>4, <2>7
<1> QED BY <1>2, <1>3

-----------------------------------------------------------------------------
(* Lemmas on the requests.                                                 *)

LEMMA PostFields ==
    /\ DOMAIN NoPost = {"stage", "payload", "read", "reply"} /\ NoPost.stage = "none"
    /\ NoPost \in Posts
    /\ \A p \in Payloads : /\ NewPost(p) \in Posts /\ NewPost(p).stage = "sent"
                           /\ NewPost(p).payload = p /\ ~ Exists(NewPost(p).read)
    /\ ~ Exists(NoPost.read)
<1>1. DOMAIN NoPost = {"stage", "payload", "read", "reply"} /\ NoPost.stage = "none"
      /\ NoPost.read = NoRow /\ NoPost.payload = NoValue /\ NoPost.reply = NoValue
  BY DEF NoPost
<1>2. NoPost \in Posts
  BY ContentIsKnown DEF NoPost, Posts
<1>3. ASSUME NEW p \in Payloads
      PROVE  /\ NewPost(p) \in Posts /\ NewPost(p).stage = "sent"
             /\ NewPost(p).payload = p /\ ~ Exists(NewPost(p).read)
  <2>1. PICK post : post = [NoPost EXCEPT !.stage = "sent", !.payload = p]
    OBVIOUS
  <2>2. post \in Posts /\ post.stage = "sent" /\ post.payload = p /\ post.read = NoRow
    BY <1>1, <1>2, <2>1 DEF Posts
  <2> QED BY <2>1, <2>2, ContentIsKnown DEF NewPost
<1> QED BY <1>1, <1>2, <1>3, ContentIsKnown

LEMMA AnsweredFields ==
    ASSUME NEW post \in Posts, NEW code \in IntakeReplies
    PROVE  /\ Answered(post, code) \in Posts /\ Answered(post, code).stage = "answered"
           /\ Answered(post, code).reply = code /\ Answered(post, code).payload = post.payload
           /\ ~ Exists(Answered(post, code).read)
<1>1. PICK next : next = [post EXCEPT !.stage = "answered", !.reply = code, !.read = NoRow]
  OBVIOUS
<1>2. /\ next \in Posts /\ next.stage = "answered" /\ next.reply = code
      /\ next.payload = post.payload /\ next.read = NoRow
  BY <1>1, ContentIsKnown DEF Posts
<1> QED BY <1>1, <1>2, ContentIsKnown DEF Answered

\* What is true of a request stays so while the history grows.
LEMMA DeclaredStays ==
    ASSUME NEW post, PostDeclared(post), Stored \subseteq Stored', Exists(row) => Exists(row')
    PROVE  PostDeclared(post)'
BY StoredGrows DEF PostDeclared

LEMMA SettledStays ==
    ASSUME SettledInv, Stored \subseteq Stored', UNCHANGED outbox
    PROVE  SettledInv'
BY StoredGrows DEF SettledInv, DeletedIsStored, ConflictIsCollision, Acknowledged, Collided

\* A step of the companion.
LEMMA CompanionStep ==
    ASSUME OutboxInv, NEW s \in Slots, NEW post, posts' = [posts EXCEPT ![s] = post],
           posts[s].stage # "none", post.payload = posts[s].payload, PostDeclared(post)',
           HistoryInv', Stored \subseteq Stored', Exists(row) => Exists(row'),
           UNCHANGED <<outbox, drains, lost>>
    PROVE  OutboxInv'
<1>1. PostsInv'
  <2>1. DOMAIN posts' = Slots /\ posts'[s] = post /\ \A t \in Slots \ {s} : posts'[t] = posts[t]
    BY DEF OutboxInv, PostsInv
  <2> SUFFICES ASSUME NEW t \in Slots \ {s} PROVE PostDeclared(posts[t])'
    BY <2>1 DEF PostsInv, OutboxInv, PostDeclared
  <2>2. PICK other : other = posts[t]
    OBVIOUS
  <2>3. PostDeclared(other)'
    BY <2>2, DeclaredStays DEF OutboxInv, PostsInv
  <2> QED BY <2>1, <2>2, <2>3
<1>2. DrainsInv'
  <2>1. \A d \in Drains : posts'[d] # NoPost => posts[d] # NoPost /\ posts'[d].payload = posts[d].payload
    BY PostFields DEF OutboxInv, PostsInv, Slots
  <2> QED BY <2>1 DEF OutboxInv, DrainsInv
<1> QED BY <1>1, <1>2, SettledStays DEF OutboxInv, EntriesInv

LEMMA CompanionKeepsInv ==
    ASSUME OutboxInv, NEW s \in Slots, Companion(s)
    PROVE  OutboxInv'
<1>1. PICK post, p : post = posts[s] /\ p = post.payload
  OBVIOUS
<1>2. /\ PostDeclared(post) /\ post \in Posts /\ post.stage # "none" /\ p \in Payloads
      /\ UNCHANGED <<outbox, drains, lost>>
  BY <1>1 DEF OutboxInv, PostsInv, PostDeclared, Companion, Handle, Refuse, Decide, Commit
<1>3. OneSnapshotPerKey /\ RowComesFromHistory /\ (Exists(row) => Last(snaps) \in Stored)
  <2>1. Exists(row) => Len(snaps) \in DOMAIN snaps
    BY LenProperties DEF OutboxInv, HistoryInv
  <2> QED BY <2>1 DEF OutboxInv, HistoryInv, HistoryOnRecord, Last, Stored
<1>4. UNCHANGED <<row, snaps>> => /\ HistoryInv' /\ Stored \subseteq Stored'
                                  /\ (Exists(row) => Exists(row'))
                                  /\ \A q : /\ Acknowledged(q)' = Acknowledged(q)
                                          /\ Collided(q)' = Collided(q)
  BY DEF OutboxInv, HistoryInv, HistoryOnRecord, OneSnapshotPerKey, RowComesFromHistory, Stored,
     WithKey, Exists, Acknowledged, Collided
<1>5. ASSUME NEW code \in IntakeReplies, UNCHANGED <<row, snaps>>,
             posts' = [posts EXCEPT ![s] = Answered(post, code)],
             code = "ok" => Acknowledged(p), code = "CONFLICT" => Collided(p)
      PROVE  OutboxInv'
  <2>1. PICK next : next = Answered(post, code)
    OBVIOUS
  <2>2. /\ next \in Posts /\ next.stage = "answered" /\ next.reply = code /\ next.payload = p
        /\ ~ Exists(next.read)
    BY <1>1, <1>2, <2>1, AnsweredFields
  <2>3. PostDeclared(next)'
    BY <1>2, <1>4, <1>5, <2>2 DEF PostDeclared
  <2> QED BY <1>1, <1>2, <1>4, <1>5, <2>1, <2>2, <2>3, CompanionStep
<1>6. ASSUME NEW next, UNCHANGED <<row, snaps>>, posts' = [posts EXCEPT ![s] = next],
             next \in Posts, next.stage \in {"keyRead", "decided"}, next.payload = p,
             Exists(next.read) => Exists(row)
      PROVE  OutboxInv'
  <2>1. PostDeclared(next)'
    BY <1>2, <1>4, <1>6 DEF PostDeclared
  <2> QED BY <1>1, <1>2, <1>4, <1>6, <2>1, CompanionStep
<1>7. CASE Handle(s)
  <2>1. CASE WithKey(p) = {}
    <3>1. PICK next : next = [post EXCEPT !.stage = "keyRead"]
      OBVIOUS
    <3>2. /\ next \in Posts /\ next.stage = "keyRead" /\ next.payload = p /\ next.read = post.read
      BY <1>1, <1>2, <3>1 DEF Posts
    <3>3. posts' = [posts EXCEPT ![s] = next] /\ UNCHANGED <<row, snaps>>
      BY <1>1, <1>7, <2>1, <3>1 DEF Handle, ReadsKey
    <3> QED BY <1>2, <1>6, <3>2, <3>3 DEF PostDeclared
  <2>2. CASE \E t \in WithKey(p) : t.content = Content[p]
    <3>1. posts' = [posts EXCEPT ![s] = Answered(post, "ok")] /\ UNCHANGED <<row, snaps>>
      BY <1>1, <1>7, <2>2 DEF Handle, ReadsKey
    <3>2. Acknowledged(p)
      BY <2>2 DEF Acknowledged, WithKey
    <3> QED BY <1>5, <3>1, <3>2 DEF IntakeReplies
  <2>3. CASE WithKey(p) # {} /\ \A t \in WithKey(p) : t.content # Content[p]
    <3>1. posts' = [posts EXCEPT ![s] = Answered(post, "CONFLICT")] /\ UNCHANGED <<row, snaps>>
      BY <1>1, <1>7, <2>3 DEF Handle, ReadsKey
    <3>2. Collided(p)
      BY <2>3 DEF Collided
    <3> QED BY <1>5, <3>1, <3>2 DEF IntakeReplies
  <2> QED BY <2>1, <2>2, <2>3
<1>8. CASE Refuse(s)
  <2>1. posts' = [posts EXCEPT ![s] = Answered(post, "UNAUTHORIZED")] /\ UNCHANGED <<row, snaps>>
    BY <1>1, <1>8 DEF Refuse
  <2> QED BY <1>5, <2>1 DEF IntakeReplies
<1>9. CASE Decide(s)
  <2>1. CASE Exists(row) /\ Last(snaps).content = Content[p]
    <3>1. posts' = [posts EXCEPT ![s] = Answered(post, "ok")] /\ UNCHANGED <<row, snaps>>
      BY <1>1, <1>9, <2>1 DEF Decide, ReadsRow
    <3>2. Acknowledged(p)
      BY <1>3, <2>1 DEF Acknowledged
    <3> QED BY <1>5, <3>1, <3>2 DEF IntakeReplies
  <2>2. CASE ~ (Exists(row) /\ Last(snaps).content = Content[p])
    <3>1. PICK next : next = [post EXCEPT !.stage = "decided", !.read = row]
      OBVIOUS
    <3>2. row \in Rows
      BY DEF OutboxInv, HistoryInv
    <3>3. /\ next \in Posts /\ next.stage = "decided" /\ next.payload = p /\ next.read = row
      BY <1>1, <1>2, <3>1, <3>2 DEF Posts
    <3>4. posts' = [posts EXCEPT ![s] = next] /\ UNCHANGED <<row, snaps>>
      BY <1>1, <1>9, <2>2, <3>1 DEF Decide, ReadsRow
    <3> QED BY <1>6, <3>3, <3>4
  <2> QED BY <2>1, <2>2
<1>10. CASE Commit(s)
  <2>1. Writes(post) /\ posts' = [posts EXCEPT ![s] = Outcome(post)]
    BY <1>1, <1>10 DEF Commit
  <2>2. /\ HistoryInv' /\ Stored \subseteq Stored' /\ (Exists(row) => Exists(row'))
        /\ ~ Duplicate(post) => Acknowledged(p)'
    BY <1>1, <1>2, <2>1, WritesKeep DEF OutboxInv, PostDeclared
  <2>3. PICK code : code = IF Duplicate(post) THEN "INTERNAL_ERROR" ELSE "ok"
    OBVIOUS
  <2>4. PICK next : next = Answered(post, code)
    OBVIOUS
  <2>5. code \in IntakeReplies
    BY <2>3 DEF IntakeReplies
  <2>6. /\ next \in Posts /\ next.stage = "answered" /\ next.reply = code /\ next.payload = p
        /\ ~ Exists(next.read)
    BY <1>1, <1>2, <2>4, <2>5, AnsweredFields
  <2>7. PostDeclared(next)'
    BY <1>2, <2>2, <2>3, <2>6 DEF PostDeclared
  <2>8. posts' = [posts EXCEPT ![s] = next]
    BY <2>1, <2>3, <2>4 DEF Outcome
  <2> QED BY <1>1, <1>2, <2>2, <2>6, <2>7, <2>8, CompanionStep
<1> QED BY <1>7, <1>8, <1>9, <1>10 DEF Companion

-----------------------------------------------------------------------------
(* The steps of the extension.                                             *)

LEMMA EntryFields ==
    ASSUME NEW entry \in Entries, NEW status \in Live \cup SetAside \cup {"waiting", "gone"}
    PROVE  /\ [entry EXCEPT !.status = status] \in Entries
           /\ [entry EXCEPT !.status = status].payload = entry.payload
           /\ [entry EXCEPT !.status = status].status = status
BY DEF Entries

\* Nothing of the companion changes.
LEMMA ExtensionStands ==
    ASSUME OutboxInv, UNCHANGED <<row, snaps>>
    PROVE  /\ HistoryInv' /\ Stored' = Stored /\ Exists(row') = Exists(row)
           /\ \A post : PostDeclared(post) => PostDeclared(post)'
<1>1. HistoryInv' /\ Stored' = Stored /\ Exists(row') = Exists(row)
  BY DEF OutboxInv, HistoryInv, HistoryOnRecord, OneSnapshotPerKey, RowComesFromHistory, Stored,
     WithKey, Exists
<1>2. ASSUME NEW post, PostDeclared(post) PROVE PostDeclared(post)'
  BY <1>1, <1>2, DeclaredStays
<1> QED BY <1>1, <1>2

\* One entry gets another status, which its delivery justifies.
LEMMA EntryMoves ==
    ASSUME OutboxInv, UNCHANGED <<row, snaps>>, NEW e \in DOMAIN outbox,
           NEW entry \in Entries, outbox' = [outbox EXCEPT ![e] = entry],
           entry.payload = outbox[e].payload,
           entry.status = "gone" => outbox[e].status = "gone" \/ Acknowledged(entry.payload),
           entry.status = "conflict" => outbox[e].status = "conflict" \/ Collided(entry.payload)
    PROVE  /\ SettledInv' /\ outbox' \in Seq(Entries) /\ Len(outbox') = Len(outbox)
           /\ \A i \in DOMAIN outbox : outbox'[i].payload = outbox[i].payload
<1>1. outbox \in Seq(Entries) /\ e \in 1..Len(outbox) /\ Len(outbox) \in Nat
      /\ DOMAIN outbox = 1..Len(outbox)
  BY LenProperties DEF OutboxInv, EntriesInv
<1>2. /\ outbox' \in Seq(Entries) /\ Len(outbox') = Len(outbox) /\ DOMAIN outbox' = DOMAIN outbox
      /\ \A i \in DOMAIN outbox : outbox'[i] = IF i = e THEN entry ELSE outbox[i]
  BY <1>1, ExceptSeq
<1>3. Stored' = Stored
  BY ExtensionStands
<1>4. SettledInv'
  BY <1>2, <1>3 DEF OutboxInv, SettledInv, DeletedIsStored, ConflictIsCollision, Acknowledged,
     Collided, WithKey
<1> QED BY <1>2, <1>4

LEMMA OutboxFillsKeepsInv ==
    ASSUME OutboxInv,
           \/ \E p \in Payloads : Enqueue(p)
           \/ \E e \in DOMAIN outbox : BecomesDue(e)
    PROVE  OutboxInv'
<1>1. /\ outbox \in Seq(Entries) /\ Len(outbox) \in Nat /\ DOMAIN outbox = 1..Len(outbox)
      /\ UNCHANGED <<row, snaps, drains, posts, lost>>
  BY LenProperties DEF OutboxInv, EntriesInv, Enqueue, BecomesDue
<1>2. HistoryInv' /\ PostsInv'
  BY <1>1, ExtensionStands DEF OutboxInv, PostsInv
<1>3. ASSUME NEW p \in Payloads, Enqueue(p) PROVE OutboxInv'
  <2>1. PICK entry : entry = [payload |-> p, status |-> "pending"]
    OBVIOUS
  <2>2. entry \in Entries /\ entry.status = "pending"
    BY <2>1 DEF Entries, Live
  <2>3. outbox' = Append(outbox, entry) /\ Len(outbox) < MaxEntries
    BY <1>3, <2>1 DEF Enqueue
  <2>4. /\ outbox' \in Seq(Entries) /\ Len(outbox') = Len(outbox) + 1
        /\ \A i \in DOMAIN outbox : outbox'[i] = outbox[i]
        /\ outbox'[Len(outbox) + 1] = entry /\ DOMAIN outbox' = 1..(Len(outbox) + 1)
    BY <1>1, <2>2, <2>3
  <2>5. SettledInv'
    <3>1. Stored' = Stored
      BY <1>1, ExtensionStands
    <3>2. \A i \in DOMAIN outbox' : i \in DOMAIN outbox \/ outbox'[i].status = "pending"
      BY <1>1, <2>2, <2>4
    <3> QED BY <2>4, <3>1, <3>2 DEF OutboxInv, SettledInv, DeletedIsStored, ConflictIsCollision,
               WithKey
  <2>6. DrainsInv'
    <3>1. \A d \in Drains : drains[d] \in Seq(1..(Len(outbox) + 1))
      BY <1>1 DEF OutboxInv, DrainsInv
    <3>2. \A d \in Drains : drains[d] # <<>> => Head(drains[d]) \in DOMAIN outbox
      BY <1>1 DEF OutboxInv, DrainsInv
    <3> QED BY <1>1, <2>4, <3>1, <3>2 DEF OutboxInv, DrainsInv
  <2>7. EntriesInv'
    BY <1>1, <2>3, <2>4, OutboxAssumption DEF OutboxInv, EntriesInv
  <2> QED BY <1>2, <2>5, <2>6, <2>7 DEF OutboxInv
<1>4. ASSUME NEW e \in DOMAIN outbox, BecomesDue(e) PROVE OutboxInv'
  <2>1. PICK entry : entry = [outbox[e] EXCEPT !.status = "retrying"]
    OBVIOUS
  <2>2. outbox[e] \in Entries
    BY <1>1
  <2>3. /\ entry \in Entries /\ entry.payload = outbox[e].payload /\ entry.status = "retrying"
    BY <2>1, <2>2, EntryFields DEF Live
  <2>4. outbox' = [outbox EXCEPT ![e] = entry]
    BY <1>4, <2>1 DEF BecomesDue
  <2>5. /\ SettledInv' /\ outbox' \in Seq(Entries) /\ Len(outbox') = Len(outbox)
        /\ \A i \in DOMAIN outbox : outbox'[i].payload = outbox[i].payload
    BY <1>1, <2>3, <2>4, EntryMoves
  <2>6. DrainsInv'
    <3>1. \A d \in Drains : drains[d] # <<>> => Head(drains[d]) \in DOMAIN outbox
      BY <1>1 DEF OutboxInv, DrainsInv
    <3> QED BY <1>1, <2>5, <3>1 DEF OutboxInv, DrainsInv
  <2> QED BY <1>1, <1>2, <2>5, <2>6 DEF OutboxInv, EntriesInv
<1> QED BY <1>3, <1>4

\* A drain takes the entries that wait, goes on to the first of them, or is given up.
LEMMA PostsMove ==
    ASSUME OutboxInv, UNCHANGED <<row, snaps>>, NEW d \in Drains, NEW post, PostDeclared(post),
           \/ posts' = [posts EXCEPT ![d] = post]
           \/ /\ posts' = [posts EXCEPT ![d] = post, ![lost + 1] = posts[d]] /\ lost < MaxLost
    PROVE  /\ PostsInv' /\ posts'[d] = post
           /\ \A o \in Drains \ {d} : posts'[o] = posts[o]
<1>1. /\ posts \in [Slots -> Posts] /\ \A s \in Slots : PostDeclared(posts[s])
      /\ post \in Posts /\ lost \in Nat /\ d \in Slots
  BY OutboxAssumption DEF OutboxInv, PostsInv, EntriesInv, PostDeclared, Slots
<1>2. PICK old : old = posts[d] /\ old \in Posts /\ PostDeclared(old)
  BY <1>1
<1>3. CASE posts' = [posts EXCEPT ![d] = post]
  <2>1. posts' \in [Slots -> Posts] /\ posts'[d] = post /\ \A s \in Slots \ {d} : posts'[s] = posts[s]
    BY <1>1, <1>3
  <2>2. ASSUME NEW s \in Slots PROVE PostDeclared(posts'[s])
    BY <1>1, <2>1
  <2>3. ASSUME NEW s \in Slots PROVE PostDeclared(posts[s])'
    <3>1. PICK next : next = posts'[s] /\ PostDeclared(next)
      BY <2>2
    <3>2. PostDeclared(next)'
      BY <3>1, ExtensionStands
    <3> QED BY <3>1, <3>2
  <2> QED BY <2>1, <2>3 DEF PostsInv, Slots
<1>4. CASE posts' = [posts EXCEPT ![d] = post, ![lost + 1] = posts[d]] /\ lost < MaxLost
  <2>1. lost + 1 \in 1..MaxLost /\ lost + 1 \notin Drains /\ lost + 1 \in Slots
    BY <1>1, <1>4, OutboxAssumption DEF Slots
  <2>2. /\ posts' \in [Slots -> Posts] /\ posts'[d] = post /\ posts'[lost + 1] = old
        /\ \A s \in Slots \ {d, lost + 1} : posts'[s] = posts[s]
    BY <1>1, <1>2, <1>4, <2>1
  <2>3. ASSUME NEW s \in Slots PROVE PostDeclared(posts'[s])
    BY <1>1, <1>2, <2>2
  <2>4. ASSUME NEW s \in Slots PROVE PostDeclared(posts[s])'
    <3>1. PICK next : next = posts'[s] /\ PostDeclared(next)
      BY <2>3
    <3>2. PostDeclared(next)'
      BY <3>1, ExtensionStands
    <3> QED BY <3>1, <3>2
  <2>5. \A o \in Drains \ {d} : posts'[o] = posts[o]
    BY <2>1, <2>2 DEF Slots
  <2> QED BY <2>2, <2>4, <2>5 DEF PostsInv
<1> QED BY <1>3, <1>4

LEMMA NothingDeclared == PostDeclared(NoPost)
BY PostFields DEF PostDeclared

LEMMA DrainStartsKeepsInv ==
    ASSUME OutboxInv, NEW d \in Drains, StartDrain(d) \/ Deliver(d)
    PROVE  OutboxInv'
<1>1. /\ outbox \in Seq(Entries) /\ Len(outbox) \in Nat /\ DOMAIN outbox = 1..Len(outbox)
      /\ UNCHANGED <<row, snaps, outbox, lost>> /\ drains \in [Drains -> Seq(1..Len(outbox))]
  BY LenProperties DEF OutboxInv, EntriesInv, DrainsInv, StartDrain, Deliver
<1>2. HistoryInv' /\ EntriesInv' /\ SettledInv'
  BY <1>1, ExtensionStands, SettledStays DEF OutboxInv, EntriesInv
<1>3. CASE StartDrain(d)
  <2>1. PICK list \in ListPending : list # <<>> /\ drains' = [drains EXCEPT ![d] = list]
    BY <1>3 DEF StartDrain
  <2>2. list \in Seq(1..Len(outbox))
    <3>1. PICK eligible \in SUBSET (1..Len(outbox)) : list \in [1..Cardinality(eligible) -> eligible]
      BY <1>1 DEF ListPending, InOrder
    <3>2. IsFiniteSet(1..Len(outbox))
      BY <1>1, FS_Interval
    <3>3. Cardinality(eligible) \in Nat
      BY <3>2, FS_Subset, FS_CardinalityType
    <3>4. PICK n \in Nat : n = Cardinality(eligible) /\ list \in [1..n -> 1..Len(outbox)]
      BY <3>1, <3>3
    <3> QED BY <3>4
  <2>3. posts' = posts /\ posts[d] = NoPost
    BY <1>3 DEF StartDrain, OutboxInv, DrainsInv
  <2>4. PostsInv'
    BY <1>1, <2>3, ExtensionStands DEF OutboxInv, PostsInv
  <2>5. DrainsInv'
    BY <1>1, <2>1, <2>2, <2>3 DEF OutboxInv, DrainsInv
  <2> QED BY <1>2, <2>4, <2>5 DEF OutboxInv
<1>4. CASE Deliver(d)
  <2>1. PICK head : head = Head(drains[d]) /\ head \in 1..Len(outbox)
    BY <1>1, <1>4 DEF Deliver
  <2>2. PICK p \in Payloads : p = outbox[head].payload
    <3>1. PICK entry \in Entries : entry = outbox[head]
      BY <1>1, <2>1
    <3> QED BY <3>1 DEF Entries
  <2>3. PICK post : post = NewPost(p)
    OBVIOUS
  <2>4. post \in Posts /\ post.stage = "sent" /\ post.payload = p /\ ~ Exists(post.read)
    BY <2>3, PostFields
  <2>5. posts' = [posts EXCEPT ![d] = post] /\ drains' = drains /\ drains[d] # <<>>
    BY <1>4, <2>1, <2>2, <2>3 DEF Deliver
  <2>6. PostDeclared(post)
    BY <2>4 DEF PostDeclared
  <2>7. /\ PostsInv' /\ posts'[d] = post /\ \A o \in Drains \ {d} : posts'[o] = posts[o]
    BY <1>1, <2>5, <2>6, PostsMove
  <2>8. DrainsInv'
    BY <1>1, <2>1, <2>2, <2>4, <2>5, <2>7 DEF OutboxInv, DrainsInv
  <2> QED BY <1>2, <2>7, <2>8 DEF OutboxInv
<1> QED BY <1>3, <1>4

LEMMA ClosePanelKeepsInv ==
    ASSUME OutboxInv, NEW d \in Drains, ClosePanel(d)
    PROVE  OutboxInv'
<1>1. /\ posts' = [posts EXCEPT ![d] = NoPost, ![lost + 1] = posts[d]] /\ lost < MaxLost
      /\ drains' = [drains EXCEPT ![d] = <<>>] /\ lost' = lost + 1 /\ UNCHANGED <<row, snaps, outbox>>
  BY DEF ClosePanel
<1>2. /\ PostsInv' /\ posts'[d] = NoPost /\ \A o \in Drains \ {d} : posts'[o] = posts[o]
  BY <1>1, NothingDeclared, PostsMove
<1>3. <<>> \in Seq(1..Len(outbox)) /\ drains \in [Drains -> Seq(1..Len(outbox))]
  BY DEF OutboxInv, DrainsInv
<1>4. DrainsInv'
  BY <1>1, <1>2, <1>3 DEF OutboxInv, DrainsInv
<1>5. HistoryInv' /\ SettledInv'
  BY <1>1, ExtensionStands, SettledStays DEF OutboxInv
<1>6. EntriesInv'
  BY <1>1, OutboxAssumption DEF OutboxInv, EntriesInv
<1> QED BY <1>2, <1>4, <1>5, <1>6 DEF OutboxInv

\* A reply settles the entry, or its absence lets it wait.
LEMMA SettleKeepsInv ==
    ASSUME OutboxInv, NEW d \in Drains, SettleEntry(d) \/ GiveUp(d)
    PROVE  OutboxInv'
<1>1. PICK post, e : post = posts[d] /\ e = Head(drains[d])
  OBVIOUS
<1>2. /\ PostDeclared(post) /\ post \in Posts /\ post # NoPost
      /\ drains \in [Drains -> Seq(1..Len(outbox))] /\ drains[d] # <<>>
  BY <1>1, PostFields DEF OutboxInv, PostsInv, DrainsInv, Slots, SettleEntry, GiveUp
<1>3. /\ outbox \in Seq(Entries) /\ Len(outbox) \in Nat /\ DOMAIN outbox = 1..Len(outbox)
  BY LenProperties DEF OutboxInv, EntriesInv
<1>4. /\ e \in DOMAIN outbox /\ post.payload = outbox[e].payload
      /\ Tail(drains[d]) \in Seq(1..Len(outbox))
  BY <1>1, <1>2, <1>3 DEF OutboxInv, DrainsInv
<1>5. PICK outcome :
        /\ outbox' = [outbox EXCEPT ![e] = AfterOutcome(@, outcome)]
        /\ outcome \in {"committed", "conflict", "retry", "dead"}
        /\ outcome = "committed" => Acknowledged(post.payload)
        /\ outcome = "conflict" => Collided(post.payload)
  <2>1. CASE SettleEntry(d)
    <3>1. PICK reply : reply = post.reply /\ reply \in IntakeReplies \cup {NoValue}
      BY <1>2 DEF Posts
    <3>2. post.stage = "answered" /\ outbox' = [outbox EXCEPT ![e] = AfterOutcome(@, Classify(reply))]
      BY <1>1, <2>1, <3>1 DEF SettleEntry
    <3>3. /\ Classify(reply) \in {"committed", "conflict", "retry", "dead"}
          /\ Classify(reply) = "committed" => reply = "ok"
          /\ Classify(reply) = "conflict" => reply = "CONFLICT"
      BY <3>1 DEF Classify, IntakeReplies, Conflicting, Retryable, NoValue
    <3> QED BY <1>2, <3>1, <3>2, <3>3 DEF PostDeclared
  <2>2. CASE GiveUp(d)
    <3>1. Classify("TIMEOUT") = "retry"
      BY DEF Classify, Conflicting, Retryable
    <3> QED BY <1>1, <2>2, <3>1 DEF GiveUp
  <2> QED BY <2>1, <2>2
<1>6. PICK old \in Entries : old = outbox[e]
  BY <1>3, <1>4
<1>7. PICK entry : entry = AfterOutcome(old, outcome)
  OBVIOUS
<1>8. /\ entry \in Entries /\ entry.payload = old.payload
      /\ entry.status = "gone" => old.status = "gone" \/ outcome = "committed"
      /\ entry.status = "conflict" => old.status = "conflict" \/ outcome = "conflict"
  <2>1. CASE old.status = "gone"
    BY <1>7, <2>1 DEF AfterOutcome
  <2>2. CASE old.status # "gone"
    <3>1. PICK status : status = CASE outcome = "committed" -> "gone"
                                   [] outcome = "retry"     -> "waiting"
                                   [] OTHER                 -> outcome
      OBVIOUS
    <3>2. /\ status \in Live \cup SetAside \cup {"waiting", "gone"}
          /\ status = "gone" => outcome = "committed"
          /\ status = "conflict" => outcome = "conflict"
      BY <1>5, <3>1 DEF SetAside
    <3>3. entry = [old EXCEPT !.status = status]
      BY <1>7, <2>2, <3>1 DEF AfterOutcome
    <3> QED BY <3>2, <3>3, EntryFields
  <2> QED BY <2>1, <2>2
<1>9. /\ UNCHANGED <<row, snaps>> /\ drains' = [drains EXCEPT ![d] = Tail(@)]
      /\ outbox' = [outbox EXCEPT ![e] = entry] /\ (lost' = lost \/ (lost < MaxLost /\ lost' = lost + 1))
      /\ \/ posts' = [posts EXCEPT ![d] = NoPost]
         \/ /\ posts' = [posts EXCEPT ![d] = NoPost, ![lost + 1] = posts[d]] /\ lost < MaxLost
  BY <1>5, <1>6, <1>7 DEF SettleEntry, GiveUp
<1>10. /\ entry.payload = outbox[e].payload
       /\ entry.status = "gone" => outbox[e].status = "gone" \/ Acknowledged(entry.payload)
       /\ entry.status = "conflict" => outbox[e].status = "conflict" \/ Collided(entry.payload)
  <2>1. entry.payload = post.payload
    BY <1>4, <1>6, <1>8
  <2> QED BY <1>5, <1>6, <1>8, <2>1
<1>11. /\ SettledInv' /\ outbox' \in Seq(Entries) /\ Len(outbox') = Len(outbox)
       /\ \A i \in DOMAIN outbox : outbox'[i].payload = outbox[i].payload
  BY <1>4, <1>8, <1>9, <1>10, EntryMoves
<1>12. /\ PostsInv' /\ posts'[d] = NoPost /\ \A o \in Drains \ {d} : posts'[o] = posts[o]
  BY <1>9, NothingDeclared, PostsMove
<1>13. DrainsInv'
  <2>1. \A o \in Drains : drains[o] # <<>> => Head(drains[o]) \in DOMAIN outbox
    BY <1>2, <1>3
  <2> QED BY <1>2, <1>4, <1>9, <1>11, <1>12, <2>1 DEF OutboxInv, DrainsInv
<1>14. HistoryInv'
  BY <1>9, ExtensionStands
<1>15. EntriesInv'
  BY <1>9, <1>11, OutboxAssumption DEF OutboxInv, EntriesInv
<1> QED BY <1>11, <1>12, <1>13, <1>14, <1>15 DEF OutboxInv

-----------------------------------------------------------------------------
(* The theorems.                                                           *)

LEMMA InitOutboxInv ==
    ASSUME OutboxInit
    PROVE  OutboxInv
<1>1. <<>> \in Seq(Snapshots) /\ Len(<<>>) = 0 /\ DOMAIN <<>> = {} /\ <<>> \in Seq(Entries)
      /\ <<>> \in Seq(1..Len(outbox))
  OBVIOUS
<1>2. HistoryInv
  BY <1>1, ContentIsKnown DEF OutboxInit, IntakeInit, HistoryInv, HistoryOnRecord,
     OneSnapshotPerKey, RowComesFromHistory
<1>3. EntriesInv /\ SettledInv
  BY <1>1, OutboxAssumption DEF OutboxInit, EntriesInv, SettledInv, DeletedIsStored,
     ConflictIsCollision
<1>4. DrainsInv
  BY <1>1 DEF OutboxInit, DrainsInv, Slots
<1>5. PostsInv
  BY PostFields, NothingDeclared DEF OutboxInit, PostsInv
<1> QED BY <1>2, <1>3, <1>4, <1>5 DEF OutboxInv

LEMMA OutboxInvIsKept ==
    ASSUME OutboxInv, [OutboxNext]_outboxVars
    PROVE  OutboxInv'
<1>1. CASE UNCHANGED outboxVars
  BY <1>1, ExtensionStands, SettledStays DEF outboxVars, OutboxInv, EntriesInv, DrainsInv, PostsInv
<1>2. CASE OutboxNext
  <2>1. ASSUME NEW d \in Drains,
               StartDrain(d) \/ Deliver(d) \/ SettleEntry(d) \/ GiveUp(d) \/ ClosePanel(d)
        PROVE  OutboxInv'
    BY <2>1, DrainStartsKeepsInv, SettleKeepsInv, ClosePanelKeepsInv
  <2> QED BY <1>2, <2>1, OutboxFillsKeepsInv, CompanionKeepsInv DEF OutboxNext
<1> QED BY <1>1, <1>2

LEMMA InvIsOnRecord ==
    ASSUME OutboxInv
    PROVE  OutboxOnRecord /\ HistoryOnRecord
<1>1. /\ Len(outbox) \in Nat /\ Len(outbox) <= MaxEntries /\ MaxEntries \in Nat
      /\ drains \in [Drains -> Seq(1..Len(outbox))]
  BY LenProperties, OutboxAssumption DEF OutboxInv, EntriesInv, DrainsInv
<1>2. 1..Len(outbox) \subseteq 1..MaxEntries
  BY <1>1
<1>3. drains \in [Drains -> Seq(1..MaxEntries)]
  BY <1>1, <1>2
<1>4. OutboxTypeOK
  BY <1>3 DEF OutboxInv, HistoryInv, EntriesInv, DrainsInv, PostsInv, OutboxTypeOK
<1> QED BY <1>4 DEF OutboxInv, HistoryInv, SettledInv, OutboxOnRecord

\* Whatever drains overlap, replies are lost and panels closed: nothing leaves the outbox
\* without having been stored, and nothing is set aside as a conflict without one.
THEOREM CapturesAreDelivered == OutboxSpec => []OutboxOnRecord
<1>1. OutboxInit => OutboxInv
  BY InitOutboxInv
<1>2. OutboxInv /\ [OutboxNext]_outboxVars => OutboxInv'
  BY OutboxInvIsKept
<1>3. OutboxInv => OutboxOnRecord
  BY InvIsOnRecord
<1> QED BY <1>1, <1>2, <1>3, PTL DEF OutboxSpec

\* Whatever requests overlap, a key has one snapshot, and each field of the row is one that
\* a capture in the history had.
THEOREM HistoryIsKept == OutboxSpec => []HistoryOnRecord
<1>1. OutboxInit => OutboxInv
  BY InitOutboxInv
<1>2. OutboxInv /\ [OutboxNext]_outboxVars => OutboxInv'
  BY OutboxInvIsKept
<1>3. OutboxInv => HistoryOnRecord
  BY InvIsOnRecord
<1> QED BY <1>1, <1>2, <1>3, PTL DEF OutboxSpec
=============================================================================
