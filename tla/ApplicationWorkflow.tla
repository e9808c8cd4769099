-------------------------- MODULE ApplicationWorkflow --------------------------
(***************************************************************************)
(* companion/app/domain/workflow.py and the application routes of          *)
(* companion/app/api/application_ops.py over the tables applications and   *)
(* application_events, for one vacancy.  A request reads outside a         *)
(* transaction and writes in one: the SELECTs of a handler see what is     *)
(* committed at the time, its first UPDATE or INSERT takes SQLite's write  *)
(* lock until the commit.  So a request is a step that reads and decides   *)
(* and a step that writes, with other requests in between.                 *)
(*                                                                         *)
(* Only statuses, revisions and the identity of events are kept: timestamps*)
(* and payloads are written with the row they belong to and read by        *)
(* nobody.                                                                 *)
(***************************************************************************)
EXTENDS Naturals, Sequences, FiniteSets

CONSTANTS
    Writers,    \* concurrent requests
    Requested,  \* the statuses requests ask for, aliases resolved (normalize_status)
    MaxEvents   \* bound: no request starts when the log could outgrow it

ASSUME WorkflowAssumptions ==
    /\ Requested \subseteq {"new", "saved", "analyzed", "ready_to_send", "applied", "hr_replied",
                            "interview", "test_task", "offer", "rejected_by_company",
                            "rejected_by_me", "archived"}
    /\ MaxEvents \in Nat

VARIABLES
    apps,     \* applications, in the order they were inserted
    events,   \* application_events, in the order they were inserted
    sent,     \* applications with a letter version of type "sent"
    request   \* one record per request

vars == <<apps, events, sent, request>>

Closing == {"rejected_by_me", "archived"}

Answered == {"hr_replied", "interview", "test_task", "offer", "rejected_by_company"}

Statuses == {"new", "saved", "analyzed", "ready_to_send", "applied"} \cup Answered \cup Closing

\* Mutant: an answer of the company is accepted for an analysed vacancy.
AllowedEarly(from) ==
    CASE from = "new"                    -> {"saved", "analyzed"} \cup Closing
      [] from = "saved"                  -> {"analyzed", "ready_to_send"} \cup Closing
      [] from = "analyzed"               -> {"ready_to_send", "applied", "hr_replied"} \cup Closing
      [] from = "ready_to_send"          -> {"applied"} \cup Closing
      [] from = "applied"                -> Answered \cup Closing
      [] OTHER                           -> {"new", "archived"}

Allowed(from) ==
    CASE from = "new"                    -> {"saved", "analyzed"} \cup Closing
      [] from = "saved"                  -> {"analyzed", "ready_to_send"} \cup Closing
      [] from = "analyzed"               -> {"ready_to_send", "applied"} \cup Closing
      [] from = "ready_to_send"          -> {"applied"} \cup Closing
      [] from = "applied"                -> Answered \cup Closing
      [] from = "hr_replied"             -> (Answered \ {"hr_replied"}) \cup Closing
      [] from = "interview"              -> {"test_task", "offer", "rejected_by_company"} \cup Closing
      [] from = "test_task"              -> {"offer", "rejected_by_company"} \cup Closing
      [] from = "offer"                  -> Closing
      [] from = "archived"               -> {"new", "saved"}
      [] OTHER                           -> {"new", "archived"}

Application == [status : Statuses, revision : Nat \ {0}]

Kinds == {"status", "next_action", "note"}

\* The key a client sends is its own for one intent: the same application, kind,
\* target and expected revision.  A retry sends it again.
Keys == Kinds \X (Nat \ {0}) \X Statuses \X Nat

NoKey == <<>>

\* from and to are the payload of a status event; the event of a creation has
\* its status in both, an event of another type has no use for them.
Event == [type : Kinds \cup {"created"}, app : Nat \ {0}, from : Statuses, to : Statuses,
          key : Keys \cup {NoKey}]

\* app, target, expected and key are the body of the request; seen is the status
\* its first step read.
Request == [pc : {"idle", "insert", "done"} \cup Kinds, app : Nat, target : Statuses,
            expected : Nat, key : Keys \cup {NoKey}, seen : Statuses,
            reply : {"none", "ok", "conflict", "server_error"}]

NewRequest == [pc |-> "idle", app |-> 0, target |-> "new", expected |-> 0, key |-> NoKey,
               seen |-> "new", reply |-> "none"]

Init ==
    /\ apps = <<>>
    /\ events = <<>>
    /\ sent = {}
    /\ request = [r \in Writers |-> NewRequest]

-----------------------------------------------------------------------------
\* Helpers.

At(r, point) == request[r].pc = point

\* A new request may arrive.
Arrives(r) ==
    /\ At(r, "idle")
    /\ Len(events) + Cardinality({s \in Writers : request[s].pc \in {"insert"} \cup Kinds})
         < MaxEvents

\* What a client may name: a revision of the application that some earlier
\* answer showed.
Known(a) == {rev \in 1 .. MaxEvents : rev <= apps[a].revision}

Proceed(r, kind, a, target, expected, key) ==
    request' = [request EXCEPT ![r] = [NewRequest EXCEPT
                  !.pc = kind, !.app = a, !.target = target, !.expected = expected, !.key = key,
                  !.seen = apps[a].status]]

\* an answer; that of a transition that was written names what it wrote
Accept(r) == request' = [request EXCEPT ![r].pc = "done", ![r].reply = "ok"]

Answer(r, reply) == request' = [request EXCEPT ![r] = [NewRequest EXCEPT !.pc = "done", !.reply = reply]]

KeyFor(kind, a, target, expected) == {NoKey, <<kind, a, target, expected>>}

\* the event with that idempotency key, which is UNIQUE
Prior(key) == {i \in DOMAIN events : key # NoKey /\ events[i].key = key}

\* append_event: a key that is known returns its event instead of another one.
AppendEvent(event) ==
    events' = IF Prior(event.key) = {} THEN Append(events, event) ELSE events

-----------------------------------------------------------------------------
\* create_application: looks for an application of the vacancy ...

CreateFinds(r) ==
    /\ At(r, "idle")
    /\ \/ Len(apps) = 1 /\ Answer(r, "ok")
       \/ Len(apps) > 1 /\ Answer(r, "server_error")   \* scalar_one_or_none raises
    /\ UNCHANGED <<apps, events, sent>>

CreateFindsNone(r) ==
    /\ Arrives(r)
    /\ Len(apps) = 0
    /\ \E status \in Requested \ {"applied"} :
         request' = [request EXCEPT ![r].pc = "insert", ![r].target = status]
    /\ UNCHANGED <<apps, events, sent>>

\* ... and inserts one with its event; vacancy_id is not UNIQUE.
CreateInserts(r) ==
    LET status == request[r].target IN
    /\ At(r, "insert")
    /\ apps' = Append(apps, [status |-> status, revision |-> 1])
    /\ events' = Append(events, [type |-> "created", app |-> Len(apps) + 1, from |-> status,
                                 to |-> status, key |-> NoKey])
    /\ Answer(r, "ok")
    /\ UNCHANGED sent

-----------------------------------------------------------------------------
\* transition_application, from PATCH /applications/{id} and POST .../events.

\* APPLIED needs the user's confirmation, and a sent letter or the explicit
\* no-letter reason; whether the request carries them is the user's choice.
Confirmed(a, confirmation, without_letter) == confirmation /\ (a \in sent \/ without_letter)

\* The first step answers a known key with the application, refuses what is not
\* allowed from the status it reads, and lets the rest go on.
TransitionReads(r) ==
    /\ Arrives(r)
    /\ \E a \in DOMAIN apps, target \in Requested, confirmation, without_letter \in BOOLEAN :
       \E expected \in Known(a) :
       \E key \in KeyFor("status", a, target, expected) :
         \/ Prior(key) # {} /\ Answer(r, "ok")
         \/ /\ Prior(key) = {}
            /\ \/ target = "applied" /\ ~ Confirmed(a, confirmation, without_letter)
               \/ target \notin Allowed(apps[a].status)
            /\ Answer(r, "conflict")
         \/ /\ Prior(key) = {}
            /\ target = "applied" => Confirmed(a, confirmation, without_letter)
            /\ target \in Allowed(apps[a].status)
            /\ Proceed(r, "status", a, target, expected, key)
    /\ UNCHANGED <<apps, events, sent>>

StatusEvent(r) == [type |-> "status", app |-> request[r].app, from |-> request[r].seen,
                   to |-> request[r].target, key |-> request[r].key]

OtherEvent(r) == [StatusEvent(r) EXCEPT !.type = request[r].pc, !.from = "new", !.to = "new"]

Fresh(r) == apps[request[r].app].revision = request[r].expected

\* Mutant: the UPDATE forgets AND revision = expected_revision.
TransitionWritesBlind(r) ==
    /\ At(r, "status")
    /\ apps' = [apps EXCEPT ![request[r].app] =
                  [status |-> request[r].target, revision |-> @.revision + 1]]
    /\ AppendEvent(StatusEvent(r))
    /\ Accept(r)
    /\ UNCHANGED sent

\* UPDATE ... WHERE revision = expected_revision, the event and the commit; no
\* row updated is a rollback and a 409.
TransitionWrites(r) ==
    /\ At(r, "status")
    /\ \/ /\ Fresh(r)
          /\ apps' = [apps EXCEPT ![request[r].app] =
                        [status |-> request[r].target, revision |-> @.revision + 1]]
          /\ AppendEvent(StatusEvent(r))
          /\ Accept(r)
       \/ ~ Fresh(r) /\ Answer(r, "conflict") /\ UNCHANGED <<apps, events>>
    /\ UNCHANGED sent

-----------------------------------------------------------------------------
\* update_application without a status: the revision is compared when it is
\* read, and again by the UPDATE, whose rowcount is ignored.

NextActionReads(r) ==
    /\ Arrives(r)
    /\ \E a \in DOMAIN apps : \E expected \in Known(a) :
         IF apps[a].revision = expected
         THEN Proceed(r, "next_action", a, "new", expected, NoKey)
         ELSE Answer(r, "conflict")
    /\ UNCHANGED <<apps, events, sent>>

NextActionWrites(r) ==
    /\ At(r, "next_action")
    /\ apps' = IF Fresh(r) THEN [apps EXCEPT ![request[r].app].revision = @ + 1] ELSE apps
    /\ AppendEvent(OtherEvent(r))
    /\ Answer(r, "ok")
    /\ UNCHANGED sent

-----------------------------------------------------------------------------
\* create_application_event without a status: append_event alone.

NoteReads(r) ==
    /\ Arrives(r)
    /\ \E a \in DOMAIN apps : \E key \in KeyFor("note", a, "new", 0) :
         IF Prior(key) # {} THEN Answer(r, "ok") ELSE Proceed(r, "note", a, "new", 0, key)
    /\ UNCHANGED <<apps, events, sent>>

\* The INSERT that loses a race for its key fails on the UNIQUE constraint,
\* which the route does not catch.
NoteWrites(r) ==
    /\ At(r, "note")
    /\ IF Prior(request[r].key) = {}
       THEN events' = Append(events, OtherEvent(r)) /\ Answer(r, "ok")
       ELSE UNCHANGED events /\ Answer(r, "server_error")
    /\ UNCHANGED <<apps, sent>>

-----------------------------------------------------------------------------
\* The letter routes record a sent letter; versions are never deleted.
LetterSent(a) ==
    /\ a \notin sent
    /\ sent' = sent \cup {a}
    /\ UNCHANGED <<apps, events, request>>

Return(r) ==
    /\ At(r, "done")
    /\ request' = [request EXCEPT ![r] = NewRequest]
    /\ UNCHANGED <<apps, events, sent>>

Next ==
    \/ \E r \in Writers :
         \/ CreateFinds(r) \/ CreateFindsNone(r) \/ CreateInserts(r)
         \/ TransitionReads(r) \/ TransitionWrites(r)
         \/ NextActionReads(r) \/ NextActionWrites(r)
         \/ NoteReads(r) \/ NoteWrites(r)
         \/ Return(r)
    \/ \E a \in DOMAIN apps : LetterSent(a)

Spec == Init /\ [][Next]_vars

-----------------------------------------------------------------------------
\* Properties.

WorkflowTypeOK ==
    /\ apps \in Seq(Application)
    /\ events \in Seq(Event)
    /\ sent \subseteq DOMAIN apps
    /\ request \in [Writers -> Request]

\* the places in the log of the events that carry the status of an application
Marks(a) == {i \in DOMAIN events : events[i].app = a /\ events[i].type \in {"created", "status"}}

First(i, a) == i \in Marks(a) /\ \A j \in Marks(a) : i <= j

Latest(i, a) == i \in Marks(a) /\ \A j \in Marks(a) : j <= i

\* the event at j is the next one of the application after that at i
Follows(j, i, a) == i < j /\ \A k \in Marks(a) : k <= i \/ j <= k

\* The projection agrees with the append-only log (every status change writes
\* an event and updates the projection in one transaction, repositories.py):
\* the status events of an application form one chain from its creation to
\* the status of the row, although each was decided on an earlier read.
ProjectionFollowsEvents ==
    \A a \in DOMAIN apps :
      /\ \E i \in DOMAIN events : First(i, a) /\ events[i].type = "created"
      /\ \A i, j \in Marks(a) : Follows(j, i, a) => events[j].from = events[i].to
      /\ \E i \in DOMAIN events : Latest(i, a) /\ events[i].to = apps[a].status

\* The company can only have answered an application the user confirmed: a row
\* that reached an answered status by transitions has its application_confirmed
\* event in the log.
AnsweredWasConfirmed ==
    \A a \in DOMAIN apps :
      (/\ apps[a].status \in Answered
       /\ \A i \in DOMAIN events : First(i, a) => events[i].to \notin Answered) =>
        \E i \in DOMAIN events : events[i].app = a /\ events[i].to = "applied"

\* A transition whose write was answered with success is in the log under its
\* key, also when a retry of the same request raced with it.
AcknowledgedIsRecorded ==
    \A r \in Writers :
      (At(r, "done") /\ request[r].reply = "ok" /\ request[r].app # 0) =>
        \E i \in DOMAIN events : /\ events[i].app = request[r].app
                                 /\ events[i].to = request[r].target
                                 /\ events[i].key = request[r].key

\* What a row or an answer claims is on record: how it came to its status, that
\* the company answered, that the user confirmed, that a transition was written.
WorkflowOnRecord ==
    /\ WorkflowTypeOK
    /\ ProjectionFollowsEvents
    /\ AnsweredWasConfirmed
    /\ AcknowledgedIsRecorded
=============================================================================
