---------------------------- MODULE StandaloneAI ----------------------------
(***************************************************************************)
(* Provider calls of the extension without a companion.  Every side panel  *)
(* runs the same pipeline: the user reviews a plan, the panel rebuilds it  *)
(* from current data, looks into the cache, reserves an attempt, calls the *)
(* provider, completes the operation and stores the result.  All panels    *)
(* share one browser database; nothing but its transactions keeps them     *)
(* apart.  The options page deletes data meanwhile: its write barrier      *)
(* lives in its own page and stops no panel.                               *)
(*                                                                         *)
(* A plan stands for the hash of everything that is sent.  The vacancy, the *)
(* profile and the settings it is compiled from may change at any time, so *)
(* each time they are read they may compile to any plan, or to none.  An   *)
(* owner token is told by the panel that waits with it: a panel has one    *)
(* request at a time.                                                      *)
(***************************************************************************)
EXTENDS Integers, Sequences, FiniteSets

CONSTANTS Panels, NoPanel,
          Plans, NoPlan,   \* NoPlan: AI is off, or the vacancy is gone
          InputOf,         \* [Plans -> inputs]: kind and input hash, coarser than the plan
          Retries,         \* retry ids, NoRetry among them
          NoRetry,
          Limit,           \* requests of a day
          Legacy,          \* counted events of day 1 that no ledger row stands for
          MaxDisturbances  \* bound: deletions and changes of the day, together

ASSUME StandaloneAssumption ==
    /\ NoPlan \notin Plans
    /\ NoPanel \notin Panels /\ NoRetry \in Retries
    /\ Limit \in Nat /\ Legacy \in Nat /\ MaxDisturbances \in Nat

VARIABLES
    execution,  \* the aiExecution table
    budget,     \* the consumed rows of aiBudget: operation and day
    legacy,     \* legacy events still in the log
    rows,       \* aiCache: plan and call whose result it refers to
    metas,      \* the results themselves, each by its call
    day,
    calls,      \* history: provider calls, by operation, wipe, panel and day
    request,    \* what each panel is doing
    reset,      \* what the options page is doing
    past,       \* history: the aiExecution tables that were wiped
    excused     \* history: operations whose result was given up, since the last wipe

vars == <<execution, budget, legacy, rows, metas, day, calls,
          request, reset, past, excused>>
ledger == <<execution, budget, legacy>>
cache == <<rows, metas>>
history == <<calls, past, excused>>

Operations == Plans \X Retries
PlanOf(op) == op[1]
Epoch == Len(past)

Rows == [state : {"none", "dispatching", "completed", "outcome_unknown"},
         owner : Panels \cup {NoPanel}]
NoRow == [state |-> "none", owner |-> NoPanel]
Unsafe == {"dispatching", "outcome_unknown"}

Points == {"idle", "reviewed", "lookup", "readMeta", "ready", "send", "answer",
           "storeMeta", "storeRow", "done"}

NoRequest == [pc |-> "idle", op |-> <<NoPlan, NoRetry>>, keep |-> FALSE, epoch |-> 0,
              day |-> 0, call |-> <<>>]

\* A call is told by its operation and the wipe it was reserved after.
Call(p) == <<request[p].op, request[p].epoch>>

NoReset == [pc |-> "idle", listed |-> {}, done |-> 0]

Init ==
    /\ execution = [op \in Operations |-> NoRow]
    /\ budget = {} /\ legacy = Legacy
    /\ rows = {} /\ metas = {}
    /\ day = 1 /\ calls = {}
    /\ request = [p \in Panels |-> NoRequest]
    /\ reset = NoReset
    /\ past = <<>> /\ excused = {}

-----------------------------------------------------------------------------
(* The pipeline of a request.                                              *)

At(p, pc) == request[p].pc = pc
Goto(p, pc) == request' = [request EXCEPT ![p].pc = pc]

\* The user sees why there is no result.
Refuse(p) == request' = [request EXCEPT ![p] = NoRequest]

\* The user sees the result of a call.
Show(p, call) ==
    request' = [request EXCEPT ![p] =
        [NoRequest EXCEPT !.pc = "done", !.op = request[p].op, !.call = call]]
Op(p) == request[p].op

\* The user reviews what would be sent.  Nothing is written.
Prepare(p) ==
    /\ At(p, "idle") \/ At(p, "done")
    /\ \E plan \in Plans, retry \in Retries :
         request' = [request EXCEPT ![p] =
             [NoRequest EXCEPT !.pc = "reviewed", !.op = <<plan, retry>>]]
    /\ UNCHANGED <<ledger, cache, day, history, reset>>

\* The plan is rebuilt from current data, and refused when it is no longer the
\* reviewed one.  The cache is looked into when it is on and nothing is retried.
Execute(p) ==
    /\ At(p, "reviewed")
    /\ \E now \in Plans \cup {NoPlan}, caching \in BOOLEAN :
         IF now # PlanOf(Op(p))
         THEN Refuse(p)
         ELSE request' = [request EXCEPT
                  ![p].pc = IF caching /\ Op(p)[2] = NoRetry THEN "lookup" ELSE "ready",
                  ![p].keep = caching]
    /\ UNCHANGED <<ledger, cache, day, history, reset>>

\* A mutant that matches the input and forgets the policy it was sent under.
MatchesByInput(row, plan) == InputOf[row.plan] = InputOf[plan]

Matches(row, plan) ==
    /\ InputOf[row.plan] = InputOf[plan]
    /\ row.plan = plan

\* The row is found first, the result it refers to is read afterwards.
FindRow(p) ==
    /\ At(p, "lookup")
    /\ \/ /\ \E row \in rows :
               /\ Matches(row, PlanOf(Op(p)))
               /\ request' = [request EXCEPT ![p].pc = "readMeta", ![p].call = row.call]
       \/ /\ \A row \in rows : ~ Matches(row, PlanOf(Op(p)))
          /\ Goto(p, "ready")
    /\ UNCHANGED <<ledger, cache, day, history, reset>>

\* A row without its result is deleted.
ReadMeta(p) ==
    /\ At(p, "readMeta")
    /\ IF request[p].call \in metas
       THEN Show(p, request[p].call) /\ UNCHANGED rows
       ELSE /\ rows' = {row \in rows : row.call # request[p].call}
            /\ request' = [request EXCEPT ![p].pc = "ready", ![p].call = <<>>]
    /\ UNCHANGED <<ledger, metas, day, history, reset>>

\* The browser denies the origin, or no API key is stored.
NotReady(p) ==
    /\ At(p, "ready")
    /\ Refuse(p)
    /\ UNCHANGED <<ledger, cache, day, history, reset>>

-----------------------------------------------------------------------------
(* The ledger: one transaction each.                                       *)

LegacyToday == IF day = 1 THEN legacy ELSE 0
Used == Cardinality({row \in budget : row[2] = day}) + LegacyToday

\* A mutant that takes an unknown outcome for a retryable one.
MayReserveAgain(op) == execution[op].state \in {"none", "outcome_unknown"} /\ Used < Limit

MayReserve(op) == execution[op].state = "none" /\ Used < Limit

\* The operation is claimed and the attempt is paid for in the same transaction.
\* A row in any state refuses: no reservation is given back, and none is retried.
Reserve(p) ==
    /\ At(p, "ready")
    /\ IF MayReserve(Op(p))
       THEN /\ execution' = [execution EXCEPT ![Op(p)] =
                                 [state |-> "dispatching", owner |-> p]]
            /\ budget' = budget \cup {<<Op(p), day>>}
            /\ request' = [request EXCEPT ![p].pc = "send", ![p].epoch = Epoch,
                                          ![p].day = day]
       ELSE /\ Refuse(p)
            /\ UNCHANGED <<execution, budget>>
    /\ UNCHANGED <<legacy, cache, day, history, reset>>

Owns(p) ==
    /\ execution[Op(p)].state # "none"
    /\ execution[Op(p)].owner = p

\* The row is settled by its owner only; anybody else has lost it.
SettleRow(p, state) ==
    execution' = IF Owns(p) THEN [execution EXCEPT ![Op(p)].state = state] ELSE execution

-----------------------------------------------------------------------------
(* The provider and what follows its answer.                               *)

\* The request leaves the browser.
Send(p) ==
    /\ At(p, "send")
    /\ calls' = calls \cup {[op |-> Op(p), epoch |-> request[p].epoch, panel |-> p,
                             day |-> request[p].day]}
    /\ Goto(p, "answer")
    /\ UNCHANGED <<ledger, cache, day, past, excused, reset>>

\* The key was removed since preflight, or the provider answers with an error:
\* the request may have arrived, so nobody repeats it.
ProviderFails(p) ==
    /\ At(p, "send") \/ At(p, "answer")
    /\ SettleRow(p, "outcome_unknown")
    /\ Refuse(p)
    /\ UNCHANGED <<budget, legacy, cache, day, history, reset>>

\* An answer completes the operation; one that does not parse is replaced by a
\* fallback analysis and completes it too.
ProviderAnswers(p) ==
    /\ At(p, "answer")
    /\ SettleRow(p, "completed")
    /\ IF ~ Owns(p) THEN Refuse(p)
       ELSE IF request[p].keep THEN Goto(p, "storeMeta")
       ELSE Show(p, Call(p))
    /\ excused' = IF Owns(p) /\ ~ request[p].keep THEN excused \cup {Op(p)} ELSE excused
    /\ UNCHANGED <<budget, legacy, cache, day, calls, past, reset>>

\* A mutant that writes the row before the result it refers to.
RowFirst(p) ==
    /\ \/ /\ At(p, "storeMeta") /\ Goto(p, "storeRow")
          /\ rows' = rows \cup {[plan |-> PlanOf(Op(p)), call |-> Call(p)]}
          /\ UNCHANGED metas
       \/ /\ At(p, "storeRow") /\ Show(p, Call(p))
          /\ metas' = metas \cup {Call(p)}
          /\ UNCHANGED rows
    /\ UNCHANGED <<ledger, day, history, reset>>

\* The result is stored first, then the cache row that refers to it.  The event
\* recorded last carries the ledger's version and is not counted as legacy.
StoreResult(p) ==
    /\ \/ /\ At(p, "storeMeta") /\ Goto(p, "storeRow")
          /\ metas' = metas \cup {Call(p)}
          /\ UNCHANGED rows
       \/ /\ At(p, "storeRow") /\ Show(p, Call(p))
          /\ rows' = rows \cup {[plan |-> PlanOf(Op(p)), call |-> Call(p)]}
          /\ UNCHANGED metas
    /\ UNCHANGED <<ledger, day, history, reset>>

\* The operation whose result the panel has yet to store, if it was not wiped.
Storing(p) ==
    {op \in Operations : /\ Call(p) = <<op, Epoch>>
                         /\ request[p].pc \in {"storeMeta", "storeRow"}}

\* The panel is closed.  What its request held in memory is gone.
ClosePanel(p) ==
    /\ request[p].pc \notin {"idle", "done"}
    /\ request' = [request EXCEPT ![p] = NoRequest]
    /\ excused' = excused \cup Storing(p)
    /\ UNCHANGED <<ledger, cache, day, calls, past, reset>>

Pipeline(p) ==
    \/ Execute(p) \/ FindRow(p) \/ ReadMeta(p) \/ NotReady(p) \/ Reserve(p)
    \/ Send(p) \/ ProviderFails(p) \/ ProviderAnswers(p) \/ StoreResult(p)

-----------------------------------------------------------------------------
(* Time, and the three deletions of the options page.                      *)

Disturbances == day - 1 + reset.done

NextDay ==
    /\ Disturbances < MaxDisturbances
    /\ day' = day + 1
    /\ UNCHANGED <<ledger, cache, history, request, reset>>

\* The operations of calls made since the last wipe.
OfNow(made) == {op \in Operations : <<op, Epoch>> \in made}

\* A deletion enters the barrier of its own page.
StartReset ==
    /\ reset.pc = "idle" /\ Disturbances < MaxDisturbances
    /\ \E first \in {"checkAll", "checkJob", "listCache"} :
         reset' = [reset EXCEPT !.pc = first, !.done = @ + 1]
    /\ UNCHANGED <<ledger, cache, day, history, request>>

EndReset == [reset EXCEPT !.pc = "idle", !.listed = {}]

\* An execution in flight or of unknown outcome blocks the deletion.
AssertNoUnsafeExecutions ==
    /\ reset.pc \in {"checkAll", "checkJob"}
    /\ reset' = [reset EXCEPT !.pc =
           CASE \E op \in Operations : execution[op].state \in Unsafe -> "idle"
             [] reset.pc = "checkAll" -> "wipe"
             [] OTHER                 -> "deleteJob"]
    /\ UNCHANGED <<ledger, cache, day, history, request>>

\* Who may still call the provider for a row.
HolderOf(row) == IF row.state = "dispatching" THEN row.owner ELSE NoPanel

\* Every table is cleared in one transaction, the settings after it.
Wipe ==
    /\ reset.pc = "wipe"
    /\ past' = Append(past, [op \in Operations |->
                   [execution[op] EXCEPT !.owner = HolderOf(execution[op])]])
    /\ excused' = {}
    /\ execution' = [op \in Operations |-> NoRow]
    /\ budget' = {} /\ legacy' = 0 /\ rows' = {} /\ metas' = {}
    /\ reset' = EndReset
    /\ UNCHANGED <<day, calls, request>>

\* The vacancy goes with the results linked to it; the ledger stays.
DeleteJob ==
    /\ reset.pc = "deleteJob"
    /\ rows' = {row \in rows : row.call \notin metas}
    /\ excused' = excused \cup OfNow(metas)
    /\ metas' = {}
    /\ legacy' \in 0..legacy
    /\ reset' = EndReset
    /\ UNCHANGED <<execution, budget, day, calls, past, request>>

\* The cache is listed, cleared, and the listed results deleted: three steps.
ClearCache ==
    /\ \/ /\ reset.pc = "listCache"
          /\ reset' = [reset EXCEPT !.pc = "clearRows", !.listed = rows]
          /\ UNCHANGED <<rows, metas, excused, legacy>>
       \/ /\ reset.pc = "clearRows"
          /\ rows' = {}
          /\ excused' = excused \cup OfNow({row.call : row \in rows})
          /\ reset' = [reset EXCEPT !.pc = "clearMetas"]
          /\ UNCHANGED <<metas, legacy>>
       \/ /\ reset.pc = "clearMetas"
          /\ metas' = metas \ {row.call : row \in reset.listed}
          /\ legacy' = 0
          /\ reset' = EndReset
          /\ UNCHANGED <<rows, excused>>
    /\ UNCHANGED <<execution, budget, day, calls, past, request>>

Next ==
    \/ \E p \in Panels :
         \/ Prepare(p) \/ ClosePanel(p)
         \/ Pipeline(p)
    \/ NextDay
    \/ StartReset \/ AssertNoUnsafeExecutions \/ Wipe
    \/ DeleteJob \/ ClearCache

Spec == Init /\ [][Next]_vars

-----------------------------------------------------------------------------
(* Properties.                                                             *)

\* Every table and every request keeps its declared shape.
StandaloneTypeOK ==
    /\ execution \in [Operations -> Rows]
    /\ budget \subseteq Operations \X (1..(MaxDisturbances + 1))
    /\ legacy \in 0..Legacy /\ day \in 1..MaxDisturbances + 1
    /\ rows \subseteq [plan : Plans, call : Operations \X Nat]
    /\ metas \subseteq Operations \X Nat
    /\ request \in [Panels -> [pc : Points, op : Operations \cup {NoRequest.op},
                               keep : BOOLEAN, epoch : Nat, day : 0..MaxDisturbances + 1,
                               call : {<<>>} \cup Operations \X Nat]]
    /\ past \in Seq([Operations -> Rows]) /\ Epoch <= MaxDisturbances

SpentOn(d) == {c \in calls : c.epoch = Epoch /\ c.day = d}

\* However many panels call the provider, and whatever is deleted meanwhile,
\* the calls of a day and the counted events of an older version stay within
\* the daily limit: each call was paid for before it was made.
BudgetCeiling ==
    \A d \in 1..MaxDisturbances + 1 :
      SpentOn(d) # {} =>
        Cardinality(SpentOn(d)) + (IF d = 1 THEN legacy ELSE 0) <= Limit

\* A result shown for a plan, from the provider or from the cache, is one the
\* provider gave to that very plan, under the same policy.
ResultIsForReviewedPlan ==
    \A p \in Panels :
      At(p, "done") =>
        \E c \in calls : request[p].call = <<c.op, c.epoch>> /\ PlanOf(c.op) = PlanOf(Op(p))

\* What is paid for and shown is what the user allowed and reviewed.
StandaloneOnRecord == StandaloneTypeOK /\ BudgetCeiling /\ ResultIsForReviewedPlan

\* A completed operation is never called again, so its result must stay within
\* reach: in the cache or about to be, unless its panel was closed, the cache
\* was off, or the user deleted it.  A lookup that meets a store half done
\* must not lose it.
CompletedResultIsReachable ==
    \A op \in Operations :
      LET call == <<op, Epoch>> IN
      execution[op].state = "completed" =>
        \/ op \in excused
        \/ call \in metas /\ \E row \in rows : row.call = call
        \/ \E p \in Panels : op \in Storing(p)

\* A deletion of all data never takes away an execution that is in flight or
\* whose outcome is unknown (docs/development/FIX4_DATA_SECURITY_ACCEPTANCE.md).
UnsafeExecutionBlocksReset ==
    [][past' # past => \A op \in Operations : execution[op].state \notin Unsafe]_vars

\* The panels implement SingleFlight, each wipe starting over with operations
\* of its own: one holder, one call, and no call after a verdict.
TableAt(e) == IF e < Epoch THEN past[e + 1]
              ELSE IF e = Epoch THEN execution ELSE [op \in Operations |-> NoRow]

VerdictOf(row) == CASE row.state = "completed"       -> "result"
                    [] row.state = "outcome_unknown" -> "unknown"
                    [] OTHER                         -> "open"

Flight == INSTANCE SingleFlight
            WITH UnknownIsFinal <- TRUE,
                 Operations <- Operations \X (0..MaxDisturbances),
                 Requests <- Panels, NoRequest <- NoPanel,
                 holder <- [oe \in Operations \X (0..MaxDisturbances) |-> HolderOf(TableAt(oe[2])[oe[1]])],
                 verdict <- [oe \in Operations \X (0..MaxDisturbances) |-> VerdictOf(TableAt(oe[2])[oe[1]])],
                 calls <- {<<<<c.op, c.epoch>>, 1, c.panel>> : c \in calls}

PanelsImplementSingleFlight == Flight!Spec
=============================================================================
