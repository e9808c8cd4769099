--------------------------- MODULE ApplicationFactory ---------------------------
(***************************************************************************)
(* companion/app/api/r5_application_factory.py: one reviewed batch of      *)
(* vacancies, its ApplicationSession with one queue item per vacancy, and  *)
(* the clients that preview, confirm (create_session) and execute it       *)
(* concurrently.  Vacancies are re-imported meanwhile, which changes the   *)
(* plan they compile to; a client may die at any point.  The session is    *)
(* the one named by BatchPlan: a confirmation of another plan creates      *)
(* another session (_batch_session_id) and is not followed.                *)
(*                                                                         *)
(* service.analyze is taken as AnalysisService shows it: one verdict per   *)
(* item and content, which replays.                                        *)
(***************************************************************************)
EXTENDS Naturals, FiniteSets

CONSTANTS
    Clients,   \* callers of the API
    Items,     \* positions 1..n of the batch, in the order of body.vacancy_ids
    Versions,  \* contents a vacancy may have
    MaxItems,  \* body.max_items
    MayReturn, \* bound: items whose vacancies may return to an earlier content
    MayArchive, \* bound: items whose vacancies may be archived
    MayDie     \* clients whose request may end in an uncaught exception or a crash

ASSUME FactoryAssumptions ==
    /\ Items \subseteq Nat \ {0} /\ Items # {}
    /\ MaxItems \in Nat \ {0}
    /\ 1 \in Versions /\ Versions \subseteq Nat \ {0}
    /\ MayReturn \subseteq Items /\ MayArchive \subseteq Items
    /\ MayDie \subseteq Clients

VARIABLES
    session,   \* "absent", "active" or "completed"
    item,      \* queue_state of every item
    vacancy,   \* the vacancies table: content and archived flag; and, for the properties,
               \* whether the content has come back to the plan's from another
    verdict,   \* what the provider operation of an item and content came to
    sent,      \* <<item, content>> of the provider calls made
    client     \* one record per client

vars == <<session, item, vacancy, verdict, sent, client>>

\* the plan of an archived vacancy, which has no content
Archived == 0

Terminal == {"SKIPPED", "READY_FOR_MANUAL_APPLY", "FAILED", "DEFERRED", "NEEDS_REVIEW"}

QueueStates == {"absent", "NEEDS_ANALYSIS", "ANALYZING"} \cup Terminal

\* The verdicts of AnalysisService; "ready" and "skip" are successful runs told
\* apart by their decision, and a provider error and an unknown outcome are one.
Verdicts == {"open", "ready", "skip", "invalid", "error"}

\* Outcomes that leave the operation open: "budget" is the bounded budget or a
\* provider that is not ready, "refused" another owner in flight, the execution
\* gate or the engine package.
Refusals == {"budget", "refused"}

Outcomes == Refusals \cup (Verdicts \ {"open"})

\* The plan of a vacancy: its content, or nothing for one that is archived.
Plan == [i \in Items |-> IF vacancy[i].archived THEN Archived ELSE vacancy[i].content]

\* The reviewed plan whose session is followed.
BatchPlan == [i \in Items |-> 1]

Points == {"idle", "reviewed", "insert", "loop", "claimed", "analyze", "settle", "done", "dead"}

Client == [pc : Points,
           seen : [Items -> Versions \cup {Archived}],   \* the plan its receipts are for
           queue : SUBSET Items,                         \* candidate_ids still to visit
           read : Versions,                              \* the content it compiled
           outcome : Outcomes \cup {"none"},
           requeued : BOOLEAN]                           \* the item it settled last waits again

NewClient == [pc |-> "idle", seen |-> BatchPlan, queue |-> {}, read |-> 1,
              outcome |-> "none", requeued |-> FALSE]

Init ==
    /\ session = "absent"
    /\ item = [i \in Items |-> "absent"]
    /\ vacancy = [i \in Items |-> [content |-> 1, archived |-> FALSE, returned |-> FALSE]]
    /\ verdict = [i \in Items |-> [v \in Versions |-> "open"]]
    /\ sent = {}
    /\ client = [c \in Clients |-> NewClient]

-----------------------------------------------------------------------------
\* Helpers.

At(c, point) == client[c].pc = point

\* Only the client's own state changes.
Becomes(c, record) == client' = [client EXCEPT ![c] = record]

Goto(c, point) == Becomes(c, [client[c] EXCEPT !.pc = point])

\* The request returns; its local state is gone.
Leave(c) == Becomes(c, [NewClient EXCEPT !.pc = "done"])

\* The candidates are visited by position.
Current(c) == CHOOSE i \in client[c].queue : \A j \in client[c].queue : i <= j

NextItem(c) ==
    Becomes(c, [client[c] EXCEPT !.pc = "loop", !.queue = client[c].queue \ {Current(c)}])

Settled(c, state) ==
    Becomes(c, [client[c] EXCEPT !.pc = "loop", !.queue = client[c].queue \ {Current(c)},
                                 !.outcome = "none",
                                 !.requeued = (state = "NEEDS_ANALYSIS")])

\* The first max_items items that need analysis, by position.
Candidates ==
    LET waiting == {i \in Items : item[i] = "NEEDS_ANALYSIS"}
    IN  {i \in waiting : Cardinality({j \in waiting : j < i}) < MaxItems}

-----------------------------------------------------------------------------
\* Preview and confirmation.

\* preview_session: the client holds receipts for the plans of the moment.
Preview(c) ==
    /\ At(c, "idle")
    /\ Becomes(c, [client[c] EXCEPT !.pc = "reviewed", !.seen = Plan])
    /\ UNCHANGED <<session, item, vacancy, verdict, sent>>

\* create_session refuses receipts that are not for the current plans; current
\* plans other than BatchPlan name another session.
CreateRefused(c) ==
    /\ At(c, "reviewed")
    /\ Plan # client[c].seen \/ Plan # BatchPlan
    /\ Leave(c)
    /\ UNCHANGED <<session, item, vacancy, verdict, sent>>

\* The deterministic id is looked up ...
CreateFinds(c) ==
    /\ At(c, "reviewed")
    /\ Plan = client[c].seen /\ Plan = BatchPlan
    /\ IF session = "absent" THEN Goto(c, "insert") ELSE Leave(c)
    /\ UNCHANGED <<session, item, vacancy, verdict, sent>>

\* Mutant: the session is merged instead of inserted.
InsertMerges(c) ==
    /\ At(c, "insert")
    /\ session' = "active" /\ item' = [i \in Items |-> "NEEDS_ANALYSIS"]
    /\ Leave(c)
    /\ UNCHANGED <<vacancy, verdict, sent>>

\* ... and inserted; the loser of a race gets an IntegrityError and returns the
\* winner's session.
Insert(c) ==
    /\ At(c, "insert")
    /\ \/ session = "absent" /\ session' = "active" /\ item' = [i \in Items |-> "NEEDS_ANALYSIS"]
       \/ session # "absent" /\ UNCHANGED <<session, item>>
    /\ Leave(c)
    /\ UNCHANGED <<vacancy, verdict, sent>>

-----------------------------------------------------------------------------
\* Execution.

ExecuteRefused(c) ==
    /\ At(c, "reviewed") /\ session # "absent"
    /\ Plan # BatchPlan
    /\ Leave(c)
    /\ UNCHANGED <<session, item, vacancy, verdict, sent>>

ExecuteBegins(c) ==
    /\ At(c, "reviewed") /\ session # "absent"
    /\ Plan = BatchPlan
    /\ Becomes(c, [client[c] EXCEPT !.pc = "loop", !.queue = Candidates,
                                    !.requeued = FALSE])
    /\ UNCHANGED <<session, item, vacancy, verdict, sent>>

\* Mutant: the item is claimed by its id alone.
ClaimItemBlind(c) ==
    /\ At(c, "loop") /\ client[c].queue # {}
    /\ item' = [item EXCEPT ![Current(c)] = "ANALYZING"]
    /\ Goto(c, "claimed")
    /\ UNCHANGED <<session, vacancy, verdict, sent>>

\* Mutant: an item another execution took is waited for.
ClaimItemStuck(c) ==
    /\ At(c, "loop") /\ client[c].queue # {}
    /\ item[Current(c)] = "NEEDS_ANALYSIS"
    /\ item' = [item EXCEPT ![Current(c)] = "ANALYZING"]
    /\ Goto(c, "claimed")
    /\ UNCHANGED <<session, vacancy, verdict, sent>>

\* UPDATE ... WHERE queue_state = 'NEEDS_ANALYSIS', committed; no row, next item.
ClaimItem(c) ==
    /\ At(c, "loop") /\ client[c].queue # {}
    /\ \/ /\ item[Current(c)] = "NEEDS_ANALYSIS"
          /\ item' = [item EXCEPT ![Current(c)] = "ANALYZING"]
          /\ Goto(c, "claimed")
       \/ /\ item[Current(c)] # "NEEDS_ANALYSIS"
          /\ NextItem(c)
          /\ UNCHANGED item
    /\ UNCHANGED <<session, vacancy, verdict, sent>>

\* The vacancy is read again at its turn.
ReadVacancy(c) ==
    /\ At(c, "claimed")
    /\ \/ /\ vacancy[Current(c)].archived
          /\ item' = [item EXCEPT ![Current(c)] = "DEFERRED"]
          /\ Settled(c, "DEFERRED")
       \/ /\ ~ vacancy[Current(c)].archived
          /\ Becomes(c, [client[c] EXCEPT !.pc = "analyze",
                                          !.read = vacancy[Current(c)].content])
          /\ UNCHANGED item
    /\ UNCHANGED <<session, vacancy, verdict, sent>>

\* Mutant: the receipt is not compared with what was compiled.
AnalyzeUngated(c) ==
    LET i == Current(c)
        v == client[c].read
    IN
    /\ At(c, "analyze")
    /\ verdict[i][v] = "open"
    /\ sent' = sent \cup {<<i, v>>}
    /\ verdict' = [verdict EXCEPT ![i][v] = "ready"]
    /\ Becomes(c, [client[c] EXCEPT !.pc = "settle", !.outcome = "ready"])
    /\ UNCHANGED <<session, item, vacancy>>

\* service.analyze: a receipt for other content is refused; a verdict is
\* replayed; otherwise the operation stays open, before the first call or after
\* it when the budget denies the repair, or the provider's answer settles it.
Analyze(c) ==
    LET i == Current(c)
        v == client[c].read
    IN
    /\ At(c, "analyze")
    /\ \E outcome \in Outcomes :
         /\ \/ outcome = "refused" /\ UNCHANGED <<verdict, sent>>
            \/ client[c].seen[i] = v /\ outcome = verdict[i][v] /\ UNCHANGED <<verdict, sent>>
            \/ client[c].seen[i] = v /\ verdict[i][v] = "open"
               /\ outcome \in Refusals /\ UNCHANGED <<verdict, sent>>
            \/ client[c].seen[i] = v /\ verdict[i][v] = "open"
               /\ outcome = "budget" /\ sent' = sent \cup {<<i, v>>} /\ UNCHANGED verdict
            \/ client[c].seen[i] = v /\ verdict[i][v] = "open"
               /\ outcome \notin Refusals /\ sent' = sent \cup {<<i, v>>}
               /\ verdict' = [verdict EXCEPT ![i][v] = outcome]
         /\ Becomes(c, [client[c] EXCEPT !.pc = "settle", !.outcome = outcome])
    /\ UNCHANGED <<session, item, vacancy>>

\* Mutant: an invalid result is an analysis like any other.
ItemAfterLenient(outcome) ==
    CASE outcome \in {"ready", "invalid"} -> "READY_FOR_MANUAL_APPLY"
      [] outcome = "skip" -> "SKIPPED"
      [] outcome = "budget" -> "NEEDS_ANALYSIS"
      [] OTHER -> "FAILED"

ItemAfter(outcome) ==
    CASE outcome = "ready" -> "READY_FOR_MANUAL_APPLY"
      [] outcome = "skip" -> "SKIPPED"
      [] outcome = "invalid" -> "NEEDS_REVIEW"
      [] outcome = "budget" -> "NEEDS_ANALYSIS"
      [] OTHER -> "FAILED"

\* The item is written by its id, without a condition, and committed.
SettleItem(c) ==
    /\ At(c, "settle")
    /\ item' = [item EXCEPT ![Current(c)] = ItemAfter(client[c].outcome)]
    /\ Settled(c, ItemAfter(client[c].outcome))
    /\ UNCHANGED <<session, vacancy, verdict, sent>>

\* Mutant: the session is complete when no item waits.
FinishWhenNoneWaits(c) ==
    /\ At(c, "loop") /\ client[c].queue = {}
    /\ session' = IF \A i \in Items : item[i] # "NEEDS_ANALYSIS" THEN "completed" ELSE session
    /\ Leave(c)
    /\ UNCHANGED <<item, vacancy, verdict, sent>>

\* The items are read again, except the one settled last, which the ORM session
\* still holds as it was written (relationship without the refresh-expire
\* cascade, expire_on_commit=False); the session completes when all are settled.
FinishExecution(c) ==
    /\ At(c, "loop") /\ client[c].queue = {}
    /\ session' = IF ~ client[c].requeued /\ \A i \in Items : item[i] \in Terminal
                  THEN "completed" ELSE session
    /\ Leave(c)
    /\ UNCHANGED <<item, vacancy, verdict, sent>>

\* A client comes back later.
Return(c) ==
    /\ At(c, "done")
    /\ Becomes(c, NewClient)
    /\ UNCHANGED <<session, item, vacancy, verdict, sent>>

Die(c) ==
    /\ c \in MayDie
    /\ client[c].pc \notin {"idle", "done", "dead"}
    /\ Goto(c, "dead")
    /\ UNCHANGED <<session, item, vacancy, verdict, sent>>

-----------------------------------------------------------------------------
\* The rest of the companion: intake and hydration rewrite a vacancy.  No code
\* under companion/app archives one; the flag is read wherever it is modelled.

Reimport(i) ==
    /\ \E v \in Versions :
         /\ v > vacancy[i].content \/ (i \in MayReturn /\ v # vacancy[i].content)
         /\ vacancy' = [vacancy EXCEPT ![i].content = v,
                                       ![i].returned = @ \/ v = BatchPlan[i]]
    /\ UNCHANGED <<session, item, verdict, sent, client>>

Archive(i) ==
    /\ i \in MayArchive /\ ~ vacancy[i].archived
    /\ vacancy' = [vacancy EXCEPT ![i].archived = TRUE]
    /\ UNCHANGED <<session, item, verdict, sent, client>>

Confirm(c) == CreateRefused(c) \/ CreateFinds(c) \/ Insert(c)

Start(c) == ExecuteRefused(c) \/ ExecuteBegins(c)

Run(c) == ClaimItem(c) \/ ReadVacancy(c) \/ Analyze(c) \/ SettleItem(c) \/ FinishExecution(c)

Next ==
    \/ \E c \in Clients : Preview(c) \/ Confirm(c) \/ Start(c) \/ Run(c) \/ Return(c) \/ Die(c)
    \/ \E i \in Items : Reimport(i) \/ Archive(i)

Spec == Init /\ [][Next]_vars

\* A request that executes a batch keeps running; whether users come back, and
\* whether vacancies change, is up to them.
FairSpec == Spec /\ \A c \in Clients : WF_vars(Run(c))

-----------------------------------------------------------------------------
\* Properties.

\* Sessions, items and clients keep their declared shape.
FactoryTypeOK ==
    /\ session \in {"absent", "active", "completed"}
    /\ item \in [Items -> QueueStates]
    /\ vacancy \in [Items -> [content : Versions, archived : BOOLEAN, returned : BOOLEAN]]
    /\ verdict \in [Items -> [Versions -> Verdicts]]
    /\ sent \subseteq Items \X Versions
    /\ client \in [Clients -> Client]

Holding == {"claimed", "analyze", "settle"}

\* Two executions of one session, however they were started, never work on the
\* same item, and the item a client works on is marked as being analysed.
OneAnalystPerItem ==
    \A c \in Clients : client[c].pc \in Holding =>
      /\ item[Current(c)] = "ANALYZING"
      /\ \A d \in Clients \ {c} : client[d].pc \in Holding => Current(d) # Current(c)

\* An execution is bound to the reviewed batch (the comment at
\* r5_application_factory.py:502): the session never sends other content than
\* its plan's.
PlanIsKept == \A s \in sent : s[2] = BatchPlan[s[1]]

\* What the code keeps of that: although a vacancy may be imported again between
\* the check at the start of an execution and the item's turn, other content is
\* sent of an item only after its vacancy has been through other content and
\* back, whatever happened to the other items of the batch.
PlanIsKeptUnlessReturned ==
    \A s \in sent : s[2] = BatchPlan[s[1]] \/ vacancy[s[1]].returned

\* An item offered for manual application, or skipped, has a successful
\* analysis of content that was confirmed for it.
ReadyIsAnalysed ==
    \A i \in Items :
      /\ item[i] = "READY_FOR_MANUAL_APPLY" => \E v \in Versions : verdict[i][v] = "ready"
      /\ item[i] = "SKIPPED" => \E v \in Versions : verdict[i][v] = "skip"

\* A completed session has no item that waits or is being analysed.
CompletedIsSettled == session = "completed" => \A i \in Items : item[i] \in Terminal

\* When every execution has returned, none died, and one of them found the
\* items settled, the session is completed: the last of several concurrent
\* executions closes it.
LastOneCompletes ==
    (/\ \A c \in Clients : client[c].pc \in {"idle", "reviewed", "done"}
     /\ \A i \in Items : item[i] \in Terminal)
      => session = "completed"

\* The session says what its items say, at every time and in the end.
SessionOnRecord == FactoryTypeOK /\ CompletedIsSettled /\ LastOneCompletes

\* A settled item is never put back into the queue, by a second confirmation
\* of the same batch or by a late execution.
SettledStays ==
    [][\A i \in Items : item[i] \in Terminal => item'[i] = item[i]]_vars

\* Every execution returns.
ExecutionReturns ==
    \A c \in Clients : (client[c].pc \in {"loop"} \cup Holding) ~> (client[c].pc \in {"done", "dead"})
=============================================================================
