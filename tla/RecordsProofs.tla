---------------------------- MODULE RecordsProofs ----------------------------
(* The records of the companion: the workflow of the applications, their     *)
(* letters and their follow-ups keep what they promise, for any number of    *)
(* writers, rows and revisions.                                              *)
EXTENDS ApplicationWorkflow, CoverLetters, FollowUps, TLAPS

\* The sequences that tables and logs are.

LEMMA AppendedTo ==
    ASSUME NEW S, NEW s \in Seq(S), NEW e \in S
    PROVE  /\ Append(s, e) \in Seq(S)
           /\ Len(Append(s, e)) = Len(s) + 1 /\ Len(s) \in Nat
           /\ DOMAIN s = 1 .. Len(s) /\ DOMAIN Append(s, e) = 1 .. Len(s) + 1
           /\ \A i \in DOMAIN s : Append(s, e)[i] = s[i]
           /\ Append(s, e)[Len(s) + 1] = e
OBVIOUS

LEMMA ReplacedIn ==
    ASSUME NEW S, NEW s \in Seq(S), NEW i \in DOMAIN s, NEW e \in S
    PROVE  /\ [s EXCEPT ![i] = e] \in Seq(S)
           /\ DOMAIN [s EXCEPT ![i] = e] = DOMAIN s
           /\ \A j \in DOMAIN s : j # i => [s EXCEPT ![i] = e][j] = s[j]
           /\ [s EXCEPT ![i] = e][i] = e
           /\ \A j \in DOMAIN s : s[j] \in S /\ [s EXCEPT ![i] = e][j] \in S
           /\ Len([s EXCEPT ![i] = e]) = Len(s)
OBVIOUS

-----------------------------------------------------------------------------
(* The workflow of an application.                                         *)

MarkTypes == {"created", "status"}

\* What a key says of the event that has it: the intent it stands for, and that
\* a transition asked for at that revision has been written.
KeysTellIntent ==
    \A i \in DOMAIN events : events[i].key # NoKey =>
      /\ events[i].key[1] = events[i].type
      /\ events[i].key[2] = events[i].app
      /\ events[i].type = "status" => events[i].key[4] < apps[events[i].app].revision

\* What a request that is to write still knows of the application it read.
Sound(r) ==
    /\ request[r].pc \in Kinds => request[r].app \in DOMAIN apps
    /\ request[r].pc = "status" =>
         /\ request[r].target \in Allowed(request[r].seen)
         /\ request[r].expected <= apps[request[r].app].revision
         /\ Fresh(r) => request[r].seen = apps[request[r].app].status
         /\ request[r].key \in KeyFor("status", request[r].app, request[r].target, request[r].expected)
    /\ request[r].pc = "next_action" => request[r].key = NoKey
    /\ request[r].pc = "note" => request[r].key \in KeyFor("note", request[r].app, "new", 0)

\* Every event is of an application that exists.
EventsAreOwned == \A i \in DOMAIN events : events[i].app \in DOMAIN apps

WorkflowInv ==
    /\ WorkflowOnRecord
    /\ EventsAreOwned
    /\ KeysTellIntent
    /\ \A r \in Writers : Sound(r)

-----------------------------------------------------------------------------
\* What a step may do to the two tables.

LogGrows == DOMAIN events \subseteq DOMAIN events' /\ \A i \in DOMAIN events : events'[i] = events[i]

RowsGrow ==
    /\ DOMAIN apps \subseteq DOMAIN apps'
    /\ \A a \in DOMAIN apps : apps'[a] = apps[a] \/ apps'[a].revision > apps[a].revision

\* A request that is left alone stays sound when other requests write.
LEMMA SoundStays ==
    ASSUME WorkflowTypeOK, NEW r \in Writers, Sound(r), RowsGrow, request'[r] = request[r],
           \A a \in DOMAIN apps : apps'[a] \in Application
    PROVE  Sound(r)'
<1>1. request[r] \in Request
  BY DEF WorkflowTypeOK
<1>2. CASE request[r].pc \in Kinds
  <2> DEFINE a == request[r].app
  <2>1. a \in DOMAIN apps /\ a \in DOMAIN apps' /\ apps[a] \in Application /\ apps'[a] \in Application
    BY <1>2 DEF Sound, RowsGrow, WorkflowTypeOK
  <2>2. apps[a].revision \in Nat /\ apps'[a].revision \in Nat /\ request[r].expected \in Nat
    BY <1>1, <2>1 DEF Application, Request
  <2>3. apps'[a] = apps[a] \/ apps'[a].revision > apps[a].revision
    BY <2>1 DEF RowsGrow
  <2> QED BY <1>2, <2>1, <2>2, <2>3 DEF Sound, Fresh, KeyFor, Kinds
<1> QED BY <1>2 DEF Sound, Kinds

\* A request that is not about to write is sound.
LEMMA IdleIsSound == ASSUME NEW r \in Writers, request[r].pc \notin Kinds PROVE Sound(r)
BY DEF Sound, Kinds

LEMMA AcknowledgedStays ==
    ASSUME AcknowledgedIsRecorded, LogGrows,
           \A r \in Writers : request'[r] = request[r] \/ request'[r].app = 0
                                \/ request'[r].pc # "done"
    PROVE  AcknowledgedIsRecorded'
BY DEF AcknowledgedIsRecorded, LogGrows, At

-----------------------------------------------------------------------------
\* The steps that leave the statuses and their events alone.

Quiet ==
    /\ LogGrows
    /\ \A i \in DOMAIN events' \ DOMAIN events : events'[i].type \notin MarkTypes
    /\ DOMAIN apps' = DOMAIN apps
    /\ \A a \in DOMAIN apps : apps'[a].status = apps[a].status

LEMMA QuietMarks ==
    ASSUME Quiet
    PROVE  /\ \A a : Marks(a)' = Marks(a)
           /\ \A a, i : First(i, a)' <=> First(i, a)
           /\ \A a, i : Latest(i, a)' <=> Latest(i, a)
           /\ \A a, i, j : Follows(j, i, a)' <=> Follows(j, i, a)
<1>1. \A a : Marks(a)' = Marks(a)
  BY DEF Quiet, LogGrows, Marks, MarkTypes
<1> QED BY <1>1 DEF First, Latest, Follows

LEMMA QuietProjection ==
    ASSUME Quiet, ProjectionFollowsEvents, AnsweredWasConfirmed
    PROVE  ProjectionFollowsEvents' /\ AnsweredWasConfirmed'
<1>1. \A a, i : i \in Marks(a) => i \in DOMAIN events
  BY DEF Marks
<1>2. ASSUME NEW a \in DOMAIN apps'
      PROVE  /\ \E i \in DOMAIN events' : First(i, a)' /\ events'[i].type = "created"
             /\ \A i, j \in Marks(a)' : Follows(j, i, a)' => events'[j].from = events'[i].to
             /\ \E i \in DOMAIN events' : Latest(i, a)' /\ events'[i].to = apps'[a].status
  <2>1. PICK i \in DOMAIN events : First(i, a) /\ events[i].type = "created"
    BY <1>2 DEF ProjectionFollowsEvents, Quiet
  <2>2. First(i, a)' /\ events'[i].type = "created" /\ i \in DOMAIN events'
    BY <2>1, QuietMarks DEF Quiet, LogGrows
  <2>3. \A l, j \in Marks(a)' : Follows(j, l, a)' => events'[j].from = events'[l].to
    BY <1>1, <1>2, QuietMarks DEF ProjectionFollowsEvents, Quiet, LogGrows
  <2>4. PICK l \in DOMAIN events : Latest(l, a) /\ events[l].to = apps[a].status
    BY <1>2 DEF ProjectionFollowsEvents, Quiet
  <2>5. Latest(l, a)' /\ events'[l].to = apps'[a].status /\ l \in DOMAIN events'
    BY <1>2, <2>4, QuietMarks DEF Quiet, LogGrows
  <2> QED BY <2>2, <2>3, <2>5
<1>3. ASSUME NEW a \in DOMAIN apps', apps'[a].status \in Answered,
             \A i \in DOMAIN events' : First(i, a)' => events'[i].to \notin Answered
      PROVE  \E i \in DOMAIN events' : events'[i].app = a /\ events'[i].to = "applied"
  <2>1. a \in DOMAIN apps /\ apps[a].status \in Answered
    BY <1>3 DEF Quiet
  <2>2. \A i \in DOMAIN events : First(i, a) => events[i].to \notin Answered
    BY <1>3, QuietMarks DEF Quiet, LogGrows
  <2>3. PICK i \in DOMAIN events : events[i].app = a /\ events[i].to = "applied"
    BY <2>1, <2>2 DEF AnsweredWasConfirmed
  <2> QED BY <2>3 DEF Quiet, LogGrows
<1> QED BY <1>2, <1>3 DEF ProjectionFollowsEvents, AnsweredWasConfirmed

-----------------------------------------------------------------------------
\* The two steps that write a status.

\* A row that is new is of nobody yet: its event is its first and its latest.
LEMMA CreatedProjection ==
    ASSUME WorkflowInv, NEW r \in Writers, CreateInserts(r),
           NEW n, n = Len(events) + 1, NEW m, m = Len(apps) + 1
    PROVE  ProjectionFollowsEvents' /\ AnsweredWasConfirmed'
<1> DEFINE status == request[r].target
           event == [type |-> "created", app |-> m, from |-> status, to |-> status, key |-> NoKey]
           row == [status |-> status, revision |-> 1]
<1>1. events \in Seq(Event) /\ apps \in Seq(Application) /\ status \in Statuses
  BY DEF WorkflowInv, WorkflowOnRecord, WorkflowTypeOK, Request
<1>2. event \in Event /\ row \in Application /\ m \in Nat \ {0} /\ n \in Nat
  BY <1>1 DEF Event, Application
<1>3. events' = Append(events, event) /\ apps' = Append(apps, row)
  BY DEF CreateInserts
<1> HIDE DEF event, row
<1>4. /\ DOMAIN events = 1 .. n - 1 /\ DOMAIN events' = 1 .. n
      /\ \A i \in 1 .. n - 1 : events'[i] = events[i]
      /\ events'[n] = event
  BY <1>1, <1>2, <1>3, AppendedTo
<1>5. /\ DOMAIN apps = 1 .. m - 1 /\ DOMAIN apps' = 1 .. m
      /\ \A a \in 1 .. m - 1 : apps'[a] = apps[a]
      /\ apps'[m] = row
  BY <1>1, <1>2, <1>3, AppendedTo
<1>6. event.app = m /\ event.type = "created" /\ event.to = status /\ row.status = status
  BY DEF event, row
<1>7. \A i \in 1 .. n - 1 : events[i].app \in 1 .. m - 1
  BY <1>4, <1>5 DEF WorkflowInv, EventsAreOwned
<1>8. Marks(m)' = {n}
  BY <1>2, <1>4, <1>6, <1>7 DEF Marks
<1>9. \A a \in 1 .. m - 1 : Marks(a)' = Marks(a) /\ Marks(a) \subseteq 1 .. n - 1
  BY <1>2, <1>4, <1>6 DEF Marks
<1>10. First(n, m)' /\ Latest(n, m)'
  BY <1>2, <1>8 DEF First, Latest
<1>11. ASSUME NEW a \in 1 .. m - 1
      PROVE  /\ \A i : First(i, a)' <=> First(i, a)
             /\ \A i : Latest(i, a)' <=> Latest(i, a)
             /\ \A i, j : Follows(j, i, a)' <=> Follows(j, i, a)
  BY <1>9 DEF First, Latest, Follows
<1>12. ProjectionFollowsEvents'
  <2>1. ASSUME NEW a \in 1 .. m - 1
        PROVE  /\ \E i \in DOMAIN events' : First(i, a)' /\ events'[i].type = "created"
               /\ \A i, j \in Marks(a)' : Follows(j, i, a)' => events'[j].from = events'[i].to
               /\ \E i \in DOMAIN events' : Latest(i, a)' /\ events'[i].to = apps'[a].status
    <3>1. PICK i \in 1 .. n - 1 : First(i, a) /\ events[i].type = "created"
      BY <1>4, <1>5 DEF WorkflowInv, WorkflowOnRecord, ProjectionFollowsEvents
    <3>2. i \in DOMAIN events' /\ First(i, a)' /\ events'[i].type = "created"
      BY <1>2, <1>4, <1>11, <3>1
    <3>3. ASSUME NEW l \in Marks(a)', NEW j \in Marks(a)', Follows(j, l, a)'
          PROVE  events'[j].from = events'[l].to
      <4>1. l \in Marks(a) /\ j \in Marks(a) /\ l \in 1 .. n - 1 /\ j \in 1 .. n - 1
        BY <1>9
      <4>2. Follows(j, l, a)
        BY <1>11, <3>3
      <4>3. events[j].from = events[l].to
        BY <1>5, <4>1, <4>2 DEF WorkflowInv, WorkflowOnRecord, ProjectionFollowsEvents
      <4> QED BY <1>4, <4>1, <4>3
    <3>4. PICK l \in 1 .. n - 1 : Latest(l, a) /\ events[l].to = apps[a].status
      BY <1>4, <1>5 DEF WorkflowInv, WorkflowOnRecord, ProjectionFollowsEvents
    <3>5. l \in DOMAIN events' /\ Latest(l, a)' /\ events'[l].to = apps'[a].status
      BY <1>2, <1>4, <1>5, <1>11, <3>4
    <3> QED BY <3>2, <3>3, <3>5
  <2>2. /\ n \in DOMAIN events' /\ First(n, m)' /\ events'[n].type = "created"
        /\ \A i, j \in Marks(m)' : ~ Follows(j, i, m)'
        /\ Latest(n, m)' /\ events'[n].to = apps'[m].status
    BY <1>2, <1>4, <1>5, <1>6, <1>8, <1>10 DEF Follows
  <2>3. \A a \in DOMAIN apps' : a = m \/ a \in 1 .. m - 1
    BY <1>2, <1>5
  <2> QED BY <2>1, <2>2, <2>3 DEF ProjectionFollowsEvents
<1>13. AnsweredWasConfirmed'
  <2>1. ASSUME NEW a \in DOMAIN apps', apps'[a].status \in Answered,
               \A i \in DOMAIN events' : First(i, a)' => events'[i].to \notin Answered
        PROVE  \E i \in DOMAIN events' : events'[i].app = a /\ events'[i].to = "applied"
    <3>1. a # m
      BY <1>2, <1>4, <1>5, <1>6, <1>10, <2>1
    <3>2. a \in 1 .. m - 1 /\ apps[a].status \in Answered
      BY <1>2, <1>5, <2>1, <3>1
    <3>3. \A i \in DOMAIN events : First(i, a) => events[i].to \notin Answered
      BY <1>2, <1>4, <1>11, <2>1, <3>2
    <3>4. PICK i \in DOMAIN events : events[i].app = a /\ events[i].to = "applied"
      BY <1>5, <3>2, <3>3 DEF WorkflowInv, WorkflowOnRecord, AnsweredWasConfirmed
    <3> QED BY <1>2, <1>4, <3>4
  <2> QED BY <2>1 DEF AnsweredWasConfirmed
<1> QED BY <1>12, <1>13

\* A transition that is written is the latest event of its application, and was
\* decided on the status the one before it had left.
LEMMA TransitionWritten ==
    ASSUME WorkflowInv, NEW r \in Writers, At(r, "status"), Fresh(r),
           NEW n, n = Len(events) + 1,
           NEW b, b = request[r].app,
           apps' = [apps EXCEPT ![b] = [status |-> request[r].target, revision |-> @.revision + 1]],
           AppendEvent(StatusEvent(r))
    PROVE  /\ events' = Append(events, StatusEvent(r))
           /\ StatusEvent(r) \in Event
           /\ b \in DOMAIN apps /\ apps[b] \in Application
           /\ request[r].seen = apps[b].status /\ request[r].target \in Allowed(apps[b].status)
           /\ request[r].target \in Statuses
<1>1. /\ request[r] \in Request /\ request[r].pc = "status" /\ b \in DOMAIN apps
      /\ events \in Seq(Event) /\ apps[b] \in Application
  BY DEF WorkflowInv, WorkflowOnRecord, WorkflowTypeOK, At, Sound, Kinds
<1>2. /\ request[r].seen = apps[b].status /\ request[r].target \in Allowed(apps[b].status)
      /\ request[r].key \in {NoKey, <<"status", b, request[r].target, request[r].expected>>}
      /\ request[r].expected = apps[b].revision
      /\ b \in Nat \ {0}
  BY <1>1 DEF WorkflowInv, Sound, Fresh, KeyFor, WorkflowOnRecord, WorkflowTypeOK, Application
<1>3. StatusEvent(r) \in Event
  BY <1>1, <1>2 DEF StatusEvent, Event, Request
<1>4. ASSUME NEW i \in Prior(request[r].key)
      PROVE  FALSE
  <2>1. i \in DOMAIN events /\ events[i].key = <<"status", b, request[r].target, request[r].expected>>
         /\ events[i].key # NoKey
    BY <1>2, <1>4 DEF Prior
  <2>2. events[i].key[1] = "status" /\ events[i].key[2] = b /\ events[i].key[4] = request[r].expected
    BY <2>1
  <2>3. /\ events[i].key[1] = events[i].type
        /\ events[i].key[2] = events[i].app
        /\ events[i].type = "status" => events[i].key[4] < apps[events[i].app].revision
    BY <2>1 DEF WorkflowInv, KeysTellIntent
  <2> QED BY <1>1, <1>2, <2>2, <2>3 DEF Application
<1>5. StatusEvent(r).key = request[r].key
  BY DEF StatusEvent
<1>6. events' = Append(events, StatusEvent(r))
  BY <1>4, <1>5 DEF AppendEvent
<1> QED BY <1>1, <1>2, <1>3, <1>6 DEF Request

LEMMA TransitionProjection ==
    ASSUME WorkflowInv, NEW r \in Writers, At(r, "status"), Fresh(r),
           NEW n, n = Len(events) + 1,
           NEW b, b = request[r].app,
           apps' = [apps EXCEPT ![b] = [status |-> request[r].target, revision |-> @.revision + 1]],
           AppendEvent(StatusEvent(r))
    PROVE  ProjectionFollowsEvents' /\ AnsweredWasConfirmed'
<1> DEFINE event == StatusEvent(r)
           target == request[r].target
<1>1. /\ events' = Append(events, event) /\ event \in Event
      /\ b \in DOMAIN apps /\ request[r].seen = apps[b].status /\ target \in Allowed(apps[b].status)
  BY TransitionWritten
<1>2. event.app = b /\ event.type = "status" /\ event.to = target /\ event.from = apps[b].status
  BY <1>1 DEF StatusEvent
<1>3. events \in Seq(Event) /\ n \in Nat
  BY DEF WorkflowInv, WorkflowOnRecord, WorkflowTypeOK
<1> HIDE DEF event, target
<1>4. /\ DOMAIN events = 1 .. n - 1 /\ DOMAIN events' = 1 .. n
      /\ \A i \in 1 .. n - 1 : events'[i] = events[i]
      /\ events'[n] = event
  BY <1>1, <1>3, AppendedTo
<1>5. /\ DOMAIN apps' = DOMAIN apps
      /\ \A a \in DOMAIN apps : a # b => apps'[a] = apps[a]
      /\ apps'[b].status = target
  BY <1>1 DEF target
<1>6. \A a : a # b => Marks(a)' = Marks(a)
  BY <1>2, <1>3, <1>4 DEF Marks
<1>7. Marks(b)' = Marks(b) \cup {n}
  BY <1>2, <1>3, <1>4 DEF Marks
<1>8. \A a : Marks(a) \subseteq 1 .. n - 1
  BY <1>4 DEF Marks
<1>9. ASSUME NEW a \in DOMAIN apps, a # b
      PROVE  /\ \A i : First(i, a)' <=> First(i, a)
             /\ \A i : Latest(i, a)' <=> Latest(i, a)
             /\ \A i, j : Follows(j, i, a)' <=> Follows(j, i, a)
  BY <1>6, <1>9 DEF First, Latest, Follows
<1>10. \A i : First(i, b) => First(i, b)'
  BY <1>3, <1>7, <1>8 DEF First
<1>11. PICK f \in 1 .. n - 1 : First(f, b) /\ events[f].type = "created"
  BY <1>1, <1>4 DEF WorkflowInv, WorkflowOnRecord, ProjectionFollowsEvents
<1>12. PICK l \in 1 .. n - 1 : Latest(l, b) /\ events[l].to = apps[b].status
  BY <1>1, <1>4 DEF WorkflowInv, WorkflowOnRecord, ProjectionFollowsEvents
<1>13. Latest(n, b)'
  BY <1>3, <1>7, <1>8 DEF Latest
<1>14. ASSUME NEW i \in Marks(b)', NEW j \in Marks(b)', Follows(j, i, b)'
       PROVE  events'[j].from = events'[i].to
  <2>1. /\ i < j /\ \A k \in Marks(b) \cup {n} : k <= i \/ j <= k
        /\ i \in Marks(b) \cup {n} /\ j \in Marks(b) \cup {n}
    BY <1>7, <1>14 DEF Follows
  <2>2. i \in Marks(b) /\ i \in 1 .. n - 1
    BY <1>3, <1>8, <2>1
  <2>3. CASE j \in Marks(b)
    <3>1. Follows(j, i, b) /\ j \in 1 .. n - 1
      BY <1>8, <2>1, <2>3 DEF Follows
    <3>2. events[j].from = events[i].to
      BY <1>1, <2>2, <2>3, <3>1 DEF WorkflowInv, WorkflowOnRecord, ProjectionFollowsEvents
    <3> QED BY <1>4, <2>2, <3>1, <3>2
  <2>4. CASE j = n
    <3>1. i = l
      BY <1>3, <1>8, <1>12, <2>1, <2>2, <2>4 DEF Latest
    <3> QED BY <1>2, <1>4, <1>12, <2>4, <3>1
  <2> QED BY <2>1, <2>3, <2>4
<1>15. ProjectionFollowsEvents'
  <2>1. ASSUME NEW a \in DOMAIN apps, a # b
        PROVE  /\ \E i \in DOMAIN events' : First(i, a)' /\ events'[i].type = "created"
               /\ \A i, j \in Marks(a)' : Follows(j, i, a)' => events'[j].from = events'[i].to
               /\ \E i \in DOMAIN events' : Latest(i, a)' /\ events'[i].to = apps'[a].status
    <3>1. PICK i \in 1 .. n - 1 : First(i, a) /\ events[i].type = "created"
      BY <1>4, <2>1 DEF WorkflowInv, WorkflowOnRecord, ProjectionFollowsEvents
    <3>2. i \in DOMAIN events' /\ First(i, a)' /\ events'[i].type = "created"
      BY <1>3, <1>4, <1>9, <2>1, <3>1
    <3>3. ASSUME NEW k \in Marks(a)', NEW j \in Marks(a)', Follows(j, k, a)'
          PROVE  events'[j].from = events'[k].to
      <4>1. k \in Marks(a) /\ j \in Marks(a) /\ k \in 1 .. n - 1 /\ j \in 1 .. n - 1
        BY <1>6, <1>8, <2>1
      <4>2. Follows(j, k, a)
        BY <1>9, <2>1, <3>3
      <4>3. events[j].from = events[k].to
        BY <4>1, <4>2 DEF WorkflowInv, WorkflowOnRecord, ProjectionFollowsEvents
      <4> QED BY <1>4, <4>1, <4>3
    <3>4. PICK k \in 1 .. n - 1 : Latest(k, a) /\ events[k].to = apps[a].status
      BY <1>4, <2>1 DEF WorkflowInv, WorkflowOnRecord, ProjectionFollowsEvents
    <3>5. k \in DOMAIN events' /\ Latest(k, a)' /\ events'[k].to = apps'[a].status
      BY <1>3, <1>4, <1>5, <1>9, <2>1, <3>4
    <3> QED BY <3>2, <3>3, <3>5
  <2>2. f \in DOMAIN events' /\ First(f, b)' /\ events'[f].type = "created"
    BY <1>3, <1>4, <1>10, <1>11
  <2>3. n \in DOMAIN events' /\ Latest(n, b)' /\ events'[n].to = apps'[b].status
    BY <1>2, <1>3, <1>4, <1>5, <1>13
  <2> QED BY <1>5, <1>14, <2>1, <2>2, <2>3 DEF ProjectionFollowsEvents
<1>16. AnsweredWasConfirmed'
  <2>1. ASSUME NEW a \in DOMAIN apps, apps'[a].status \in Answered,
               \A i \in DOMAIN events' : First(i, a)' => events'[i].to \notin Answered
        PROVE  \E i \in DOMAIN events' : events'[i].app = a /\ events'[i].to = "applied"
    <3>1. \A i \in DOMAIN events : First(i, a) => events[i].to \notin Answered
      BY <1>3, <1>4, <1>9, <1>10, <2>1
    <3>2. CASE apps[a].status \in Answered
      <4>1. PICK i \in DOMAIN events : events[i].app = a /\ events[i].to = "applied"
        BY <3>1, <3>2 DEF WorkflowInv, WorkflowOnRecord, AnsweredWasConfirmed
      <4> QED BY <1>3, <1>4, <4>1
    <3>3. CASE apps[a].status \notin Answered
      <4>1. a = b /\ target \in Answered
        BY <1>5, <2>1, <3>3
      <4>2. apps[b].status = "applied"
        BY <1>1, <3>3, <4>1 DEF Allowed, Answered, Closing
      <4>3. l \in DOMAIN events' /\ events'[l].to = "applied" /\ events'[l].app = b
        BY <1>3, <1>4, <1>12, <4>2 DEF Latest, Marks
      <4> QED BY <4>1, <4>3
    <3> QED BY <3>2, <3>3
  <2> QED BY <1>5, <2>1 DEF AnsweredWasConfirmed
<1> QED BY <1>15, <1>16

-----------------------------------------------------------------------------
\* The steps that only read, and change the record of their request.

LEMMA ReadsAreQuiet ==
    ASSUME WorkflowInv, NEW r \in Writers, UNCHANGED <<apps, events, sent>>,
           NEW q \in Request, request' = [request EXCEPT ![r] = q],
           q.app = 0 \/ q.pc # "done",
           Sound(r)'
    PROVE  WorkflowInv'
<1>1. /\ request \in [Writers -> Request]
      /\ request'[r] = q
      /\ \A s \in Writers \ {r} : request'[s] = request[s]
  BY DEF WorkflowInv, WorkflowOnRecord, WorkflowTypeOK
<1>2. WorkflowTypeOK'
  BY <1>1 DEF WorkflowInv, WorkflowOnRecord, WorkflowTypeOK
<1>3. LogGrows /\ RowsGrow /\ Quiet
  BY DEF LogGrows, RowsGrow, Quiet
<1>4. ProjectionFollowsEvents' /\ AnsweredWasConfirmed'
  BY <1>3, QuietProjection DEF WorkflowInv, WorkflowOnRecord
<1>5. AcknowledgedIsRecorded'
  BY <1>1, <1>3, AcknowledgedStays DEF WorkflowInv, WorkflowOnRecord
<1>6. \A s \in Writers : Sound(s)'
  <2>1. ASSUME NEW s \in Writers \ {r} PROVE Sound(s)'
    BY <1>1, <1>2, <1>3, SoundStays DEF WorkflowInv, WorkflowOnRecord, WorkflowTypeOK
  <2> QED BY <2>1
<1>7. EventsAreOwned' /\ KeysTellIntent'
  BY DEF WorkflowInv, EventsAreOwned, KeysTellIntent
<1> QED BY <1>2, <1>4, <1>5, <1>6, <1>7 DEF WorkflowInv, WorkflowOnRecord

LEMMA RequestTypes ==
    /\ NewRequest \in Request
    /\ \A reply \in {"none", "ok", "conflict", "server_error"} :
         [NewRequest EXCEPT !.pc = "done", !.reply = reply] \in Request
BY DEF NewRequest, Request, Kinds, Statuses

LEMMA AnswersAreQuiet ==
    ASSUME WorkflowInv, NEW r \in Writers, UNCHANGED <<apps, events, sent>>,
           NEW reply \in {"none", "ok", "conflict", "server_error"}, Answer(r, reply)
    PROVE  WorkflowInv'
<1> DEFINE q == [NewRequest EXCEPT !.pc = "done", !.reply = reply]
<1>1. q \in Request /\ q.app = 0 /\ q.pc = "done"
  BY RequestTypes DEF NewRequest
<1>2. request' = [request EXCEPT ![r] = q] /\ request'[r] = q
  BY DEF Answer, WorkflowInv, WorkflowOnRecord, WorkflowTypeOK
<1> HIDE DEF q
<1>3. Sound(r)'
  BY <1>1, <1>2 DEF Sound, Kinds
<1> QED BY <1>1, <1>2, <1>3, ReadsAreQuiet

LEMMA ProceedsAreQuiet ==
    ASSUME WorkflowInv, NEW r \in Writers, UNCHANGED <<apps, events, sent>>,
           NEW kind \in Kinds, NEW a \in DOMAIN apps, NEW target \in Statuses, NEW expected \in Nat,
           NEW key \in Keys \cup {NoKey}, Proceed(r, kind, a, target, expected, key),
           kind = "status" => /\ target \in Allowed(apps[a].status)
                              /\ expected <= apps[a].revision
                              /\ key \in KeyFor("status", a, target, expected),
           kind = "next_action" => key = NoKey,
           kind = "note" => key \in KeyFor("note", a, "new", 0)
    PROVE  WorkflowInv'
<1> DEFINE q == [NewRequest EXCEPT !.pc = kind, !.app = a, !.target = target,
                   !.expected = expected, !.key = key, !.seen = apps[a].status]
<1>1. apps[a] \in Application /\ a \in Nat
  BY DEF WorkflowInv, WorkflowOnRecord, WorkflowTypeOK
<1>2. q \in Request
  BY <1>1 DEF NewRequest, Request, Application
<1>3. q.pc = kind /\ q.app = a /\ q.target = target /\ q.expected = expected /\ q.key = key
      /\ q.seen = apps[a].status
  BY DEF NewRequest
<1>4. request' = [request EXCEPT ![r] = q] /\ request'[r] = q
  BY DEF Proceed, WorkflowInv, WorkflowOnRecord, WorkflowTypeOK
<1> HIDE DEF q
<1>5. Sound(r)'
  BY <1>3, <1>4 DEF Sound, Fresh, KeyFor
<1> QED BY <1>2, <1>3, <1>4, <1>5, ReadsAreQuiet DEF Kinds

LEMMA KeysTyped ==
    ASSUME NEW kind \in Kinds, NEW a \in Nat \ {0}, NEW target \in Statuses, NEW expected \in Nat
    PROVE  KeyFor(kind, a, target, expected) \subseteq Keys \cup {NoKey}
BY DEF KeyFor, Keys

LEMMA ReadersKeepInv ==
    ASSUME WorkflowInv, NEW r \in Writers,
           \/ CreateFinds(r) \/ CreateFindsNone(r) \/ TransitionReads(r) \/ NextActionReads(r)
           \/ NoteReads(r) \/ Return(r)
    PROVE  WorkflowInv'
<1>0. Requested \subseteq Statuses
  BY WorkflowAssumptions DEF Statuses, Answered, Closing
<1>1. CASE CreateFinds(r)
  BY <1>1, AnswersAreQuiet DEF CreateFinds
<1>2. CASE CreateFindsNone(r)
  <2>1. PICK status \in Requested : request' = [request EXCEPT ![r].pc = "insert", ![r].target = status]
    BY <1>2 DEF CreateFindsNone
  <2> DEFINE q == [request[r] EXCEPT !.pc = "insert", !.target = status]
  <2>2. /\ request[r] \in Request /\ q \in Request /\ q.pc = "insert"
        /\ request' = [request EXCEPT ![r] = q] /\ request'[r] = q
    BY <1>0, <2>1 DEF WorkflowInv, WorkflowOnRecord, WorkflowTypeOK, Request
  <2> HIDE DEF q
  <2>3. Sound(r)'
    BY <2>2 DEF Sound, Kinds
  <2> QED BY <1>2, <2>2, <2>3, ReadsAreQuiet DEF CreateFindsNone
<1>3. CASE TransitionReads(r)
  <2>1. PICK a \in DOMAIN apps, target \in Requested, confirmation \in BOOLEAN, without_letter \in BOOLEAN :
          \E expected \in Known(a) : \E key \in KeyFor("status", a, target, expected) :
            \/ Answer(r, "ok")
            \/ Answer(r, "conflict")
            \/ /\ target \in Allowed(apps[a].status)
               /\ Proceed(r, "status", a, target, expected, key)
    BY <1>3 DEF TransitionReads
  <2>2. PICK expected \in Known(a) : \E key \in KeyFor("status", a, target, expected) :
            \/ Answer(r, "ok")
            \/ Answer(r, "conflict")
            \/ /\ target \in Allowed(apps[a].status)
               /\ Proceed(r, "status", a, target, expected, key)
    BY <2>1
  <2>3. PICK key \in KeyFor("status", a, target, expected) :
            \/ Answer(r, "ok")
            \/ Answer(r, "conflict")
            \/ /\ target \in Allowed(apps[a].status)
               /\ Proceed(r, "status", a, target, expected, key)
    BY <2>2
  <2>4. expected \in Nat /\ expected <= apps[a].revision /\ target \in Statuses /\ a \in Nat \ {0}
    BY <1>0 DEF Known, WorkflowInv, WorkflowOnRecord, WorkflowTypeOK
  <2>5. key \in Keys \cup {NoKey}
    BY <2>4, KeysTyped DEF Kinds
  <2>6. UNCHANGED <<apps, events, sent>>
    BY <1>3 DEF TransitionReads
  <2>7. CASE Answer(r, "ok") \/ Answer(r, "conflict")
    BY <2>6, <2>7, AnswersAreQuiet
  <2>8. CASE target \in Allowed(apps[a].status) /\ Proceed(r, "status", a, target, expected, key)
    BY <2>4, <2>5, <2>6, <2>8, ProceedsAreQuiet DEF Kinds
  <2> QED BY <2>3, <2>7, <2>8
<1>4. CASE NextActionReads(r)
  <2>1. PICK a \in DOMAIN apps : \E expected \in Known(a) :
          Proceed(r, "next_action", a, "new", expected, NoKey) \/ Answer(r, "conflict")
    BY <1>4 DEF NextActionReads
  <2>2. PICK expected \in Known(a) :
          Proceed(r, "next_action", a, "new", expected, NoKey) \/ Answer(r, "conflict")
    BY <2>1
  <2>3. expected \in Nat /\ UNCHANGED <<apps, events, sent>>
    BY <1>4 DEF Known, NextActionReads
  <2>4. CASE Answer(r, "conflict")
    BY <2>3, <2>4, AnswersAreQuiet
  <2>5. CASE Proceed(r, "next_action", a, "new", expected, NoKey)
    BY <2>3, <2>5, ProceedsAreQuiet DEF Kinds, Statuses
  <2> QED BY <2>2, <2>4, <2>5
<1>5. CASE NoteReads(r)
  <2>1. PICK a \in DOMAIN apps : \E key \in KeyFor("note", a, "new", 0) :
          Proceed(r, "note", a, "new", 0, key) \/ Answer(r, "ok")
    BY <1>5 DEF NoteReads
  <2>2. PICK key \in KeyFor("note", a, "new", 0) :
          Proceed(r, "note", a, "new", 0, key) \/ Answer(r, "ok")
    BY <2>1
  <2>3. UNCHANGED <<apps, events, sent>> /\ a \in Nat \ {0}
    BY <1>5 DEF NoteReads, WorkflowInv, WorkflowOnRecord, WorkflowTypeOK
  <2>4. key \in Keys \cup {NoKey}
    BY <2>3, KeysTyped DEF Kinds, Statuses
  <2>5. CASE Answer(r, "ok")
    BY <2>3, <2>5, AnswersAreQuiet
  <2>6. CASE Proceed(r, "note", a, "new", 0, key)
    BY <2>3, <2>4, <2>6, ProceedsAreQuiet DEF Kinds, Statuses
  <2> QED BY <2>2, <2>5, <2>6
<1>6. CASE Return(r)
  <2>1. request' = [request EXCEPT ![r] = NewRequest] /\ request'[r] = NewRequest
    BY <1>6 DEF Return, WorkflowInv, WorkflowOnRecord, WorkflowTypeOK
  <2>2. NewRequest \in Request /\ NewRequest.app = 0 /\ NewRequest.pc = "idle"
    BY RequestTypes DEF NewRequest
  <2>3. Sound(r)'
    BY <2>1, <2>2 DEF Sound, Kinds
  <2> QED BY <1>6, <2>1, <2>2, <2>3, ReadsAreQuiet DEF Return
<1> QED BY <1>1, <1>2, <1>3, <1>4, <1>5, <1>6

-----------------------------------------------------------------------------
\* The steps that write.

\* A request that is answered leaves nothing that has to be sound.
LEMMA AnswerFacts ==
    ASSUME WorkflowTypeOK, NEW r \in Writers,
           NEW reply \in {"none", "ok", "conflict", "server_error"}, Answer(r, reply)
    PROVE  /\ request' \in [Writers -> Request]
           /\ request'[r].app = 0 /\ Sound(r)'
           /\ \A s \in Writers \ {r} : request'[s] = request[s]
<1> DEFINE q == [NewRequest EXCEPT !.pc = "done", !.reply = reply]
<1>1. q \in Request /\ q.app = 0 /\ q.pc = "done"
  BY RequestTypes DEF NewRequest
<1>2. request' = [request EXCEPT ![r] = q] /\ request'[r] = q
  BY DEF Answer, WorkflowTypeOK
<1> HIDE DEF q
<1> QED BY <1>1, <1>2 DEF Sound, Kinds, WorkflowTypeOK

LEMMA CreateKeepsInv ==
    ASSUME WorkflowInv, NEW r \in Writers, CreateInserts(r)
    PROVE  WorkflowInv'
<1> DEFINE status == request[r].target
           event == [type |-> "created", app |-> Len(apps) + 1, from |-> status, to |-> status,
                     key |-> NoKey]
           row == [status |-> status, revision |-> 1]
<1>1. WorkflowTypeOK /\ Answer(r, "ok")
  BY DEF WorkflowInv, WorkflowOnRecord, CreateInserts
<1>2. event \in Event /\ row \in Application
  BY <1>1 DEF Event, Application, WorkflowTypeOK, Request
<1>3. events' = Append(events, event) /\ apps' = Append(apps, row) /\ sent' = sent
  BY DEF CreateInserts
<1>4. event.app = Len(apps) + 1 /\ event.key = NoKey
  OBVIOUS
<1> HIDE DEF event, row
<1>5. /\ events' \in Seq(Event) /\ DOMAIN events = 1 .. Len(events)
      /\ DOMAIN events' = 1 .. Len(events) + 1
      /\ \A i \in DOMAIN events : events'[i] = events[i]
      /\ events'[Len(events) + 1] = event
  BY <1>1, <1>2, <1>3, AppendedTo DEF WorkflowTypeOK
<1>6. /\ apps' \in Seq(Application) /\ DOMAIN apps = 1 .. Len(apps)
      /\ DOMAIN apps' = 1 .. Len(apps) + 1
      /\ \A a \in DOMAIN apps : apps'[a] = apps[a]
  BY <1>1, <1>2, <1>3, AppendedTo DEF WorkflowTypeOK
<1>7. Len(apps) \in Nat /\ Len(events) \in Nat
  BY <1>1 DEF WorkflowTypeOK
<1>8. LogGrows /\ RowsGrow
  BY <1>5, <1>6, <1>7 DEF LogGrows, RowsGrow
<1>9. ProjectionFollowsEvents' /\ AnsweredWasConfirmed'
  BY CreatedProjection
<1>10. /\ request' \in [Writers -> Request] /\ request'[r].app = 0 /\ Sound(r)'
       /\ \A s \in Writers \ {r} : request'[s] = request[s]
  BY <1>1, AnswerFacts
<1>11. WorkflowTypeOK'
  BY <1>1, <1>3, <1>5, <1>6, <1>7, <1>10 DEF WorkflowTypeOK
<1>12. AcknowledgedIsRecorded'
  BY <1>8, <1>10, AcknowledgedStays DEF WorkflowInv, WorkflowOnRecord
<1>13. EventsAreOwned' /\ KeysTellIntent'
  <2>1. \A i \in DOMAIN events' : i \in DOMAIN events \/ events'[i] = event
    BY <1>5, <1>7
  <2>2. EventsAreOwned'
    BY <1>4, <1>5, <1>6, <1>7, <2>1 DEF WorkflowInv, EventsAreOwned
  <2>3. KeysTellIntent'
    BY <1>4, <1>5, <1>6, <2>1 DEF WorkflowInv, KeysTellIntent, EventsAreOwned
  <2> QED BY <2>2, <2>3
<1>14. ASSUME NEW s \in Writers \ {r} PROVE Sound(s)'
  <2>1. \A a \in DOMAIN apps : apps'[a] \in Application
    BY <1>1, <1>6 DEF WorkflowTypeOK
  <2> QED BY <1>1, <1>8, <1>10, <2>1, SoundStays DEF WorkflowInv
<1> QED BY <1>9, <1>10, <1>11, <1>12, <1>13, <1>14 DEF WorkflowInv, WorkflowOnRecord

LEMMA TransitionKeepsInv ==
    ASSUME WorkflowInv, NEW r \in Writers, TransitionWrites(r)
    PROVE  WorkflowInv'
<1>1. CASE Fresh(r)
  <2> DEFINE b == request[r].app
             event == StatusEvent(r)
  <2>1. /\ At(r, "status") /\ sent' = sent
        /\ apps' = [apps EXCEPT ![b] = [status |-> request[r].target, revision |-> @.revision + 1]]
        /\ AppendEvent(event) /\ Accept(r)
    BY <1>1 DEF TransitionWrites
  <2>2. /\ events' = Append(events, event) /\ event \in Event
        /\ b \in DOMAIN apps /\ apps[b] \in Application
        /\ request[r].target \in Statuses
    BY <1>1, <2>1, TransitionWritten
  <2>3. ProjectionFollowsEvents' /\ AnsweredWasConfirmed'
    BY <1>1, <2>1, TransitionProjection
  <2>4. event.app = b /\ event.key = request[r].key /\ event.type = "status" /\ event.to = request[r].target
    BY <2>1 DEF StatusEvent
  <2>5. WorkflowTypeOK /\ request[r] \in Request /\ request[r].pc = "status"
    BY <2>1 DEF WorkflowInv, WorkflowOnRecord, WorkflowTypeOK, At
  <2>6. /\ events' \in Seq(Event) /\ DOMAIN events = 1 .. Len(events)
        /\ DOMAIN events' = 1 .. Len(events) + 1
        /\ \A i \in DOMAIN events : events'[i] = events[i]
        /\ events'[Len(events) + 1] = event /\ Len(events) \in Nat
    BY <2>2, <2>5, AppendedTo DEF WorkflowTypeOK
  <2>7. /\ apps' \in Seq(Application) /\ DOMAIN apps' = DOMAIN apps
        /\ \A a \in DOMAIN apps : a # b => apps'[a] = apps[a]
        /\ apps'[b].revision = apps[b].revision + 1 /\ apps[b].revision \in Nat
        /\ \A a \in DOMAIN apps : apps[a] \in Application /\ apps'[a] \in Application
    <3> DEFINE row == [status |-> request[r].target, revision |-> apps[b].revision + 1]
    <3>1. row \in Application /\ row.revision = apps[b].revision + 1 /\ apps[b].revision \in Nat
      BY <2>2 DEF Application
    <3>2. apps' = [apps EXCEPT ![b] = row] /\ apps \in Seq(Application)
      BY <2>1, <2>5 DEF WorkflowTypeOK
    <3> HIDE DEF row
    <3> QED BY <2>2, <3>1, <3>2, ReplacedIn
  <2>8. /\ request' \in [Writers -> Request]
        /\ request'[r] = [request[r] EXCEPT !.pc = "done", !.reply = "ok"]
        /\ \A s \in Writers \ {r} : request'[s] = request[s]
    BY <2>1, <2>5 DEF Accept, WorkflowTypeOK, Request
  <2>9. LogGrows /\ RowsGrow
    BY <2>6, <2>7 DEF LogGrows, RowsGrow
  <2>10. WorkflowTypeOK'
    BY <2>1, <2>5, <2>6, <2>7, <2>8 DEF WorkflowTypeOK
  <2>11. AcknowledgedIsRecorded'
    <3>1. ASSUME NEW s \in Writers, request'[s].pc = "done", request'[s].reply = "ok", request'[s].app # 0
          PROVE  \E i \in DOMAIN events' : /\ events'[i].app = request'[s].app
                                           /\ events'[i].to = request'[s].target
                                           /\ events'[i].key = request'[s].key
      <4>1. CASE s = r
        <5>1. /\ request'[r].app = b /\ request'[r].target = request[r].target
              /\ request'[r].key = request[r].key
          BY <2>5, <2>8 DEF Request
        <5> QED BY <2>4, <2>6, <4>1, <5>1
      <4>2. CASE s # r
        <5>1. PICK i \in DOMAIN events : /\ events[i].app = request[s].app
                                         /\ events[i].to = request[s].target
                                         /\ events[i].key = request[s].key
          BY <2>8, <3>1, <4>2 DEF WorkflowInv, WorkflowOnRecord, AcknowledgedIsRecorded, At
        <5> QED BY <2>6, <2>8, <4>2, <5>1
      <4> QED BY <4>1, <4>2
    <3> QED BY <3>1 DEF AcknowledgedIsRecorded, At
  <2>12. EventsAreOwned'
    BY <2>2, <2>4, <2>6, <2>7 DEF WorkflowInv, EventsAreOwned
  <2>13. KeysTellIntent'
    <3>1. ASSUME NEW i \in DOMAIN events', events'[i].key # NoKey
          PROVE  /\ events'[i].key[1] = events'[i].type
                 /\ events'[i].key[2] = events'[i].app
                 /\ events'[i].type = "status" => events'[i].key[4] < apps'[events'[i].app].revision
      <4>1. CASE i \in DOMAIN events
        <5>1. /\ events[i].key[1] = events[i].type
              /\ events[i].key[2] = events[i].app
              /\ events[i].type = "status" => events[i].key[4] < apps[events[i].app].revision
              /\ events[i].app \in DOMAIN apps /\ events[i] \in Event
          BY <2>5, <2>6, <3>1, <4>1 DEF WorkflowInv, KeysTellIntent, EventsAreOwned, WorkflowTypeOK
        <5>2. events[i].key[4] \in Nat
          BY <2>6, <3>1, <4>1, <5>1 DEF Event, Keys
        <5>3. apps[events[i].app].revision \in Nat
          BY <2>7, <5>1 DEF Application
        <5>4. events[i].type = "status" => events[i].key[4] < apps'[events[i].app].revision
          <6>1. CASE events[i].app = b
            BY <2>7, <5>1, <5>2, <5>3, <6>1
          <6>2. CASE events[i].app # b
            BY <2>7, <5>1, <6>2
          <6> QED BY <6>1, <6>2
        <5> QED BY <2>6, <4>1, <5>1, <5>4
      <4>2. CASE i = Len(events) + 1
        <5>1. request[r].key = <<"status", b, request[r].target, request[r].expected>>
          BY <2>4, <2>5, <2>6, <3>1, <4>2 DEF WorkflowInv, Sound, KeyFor
        <5>2. request[r].key[1] = "status" /\ request[r].key[2] = b /\ request[r].key[4] = request[r].expected
          BY <5>1
        <5>3. request[r].expected = apps[b].revision
          BY <1>1 DEF Fresh
        <5> QED BY <2>4, <2>6, <2>7, <4>2, <5>2, <5>3
      <4> QED BY <2>6, <4>1, <4>2
    <3> QED BY <3>1 DEF KeysTellIntent
  <2>14. \A s \in Writers \ {r} : Sound(s)'
    BY <2>5, <2>7, <2>8, <2>9, SoundStays DEF WorkflowInv
  <2>15. Sound(r)'
    BY <2>5, <2>8 DEF Sound, Kinds, Request
  <2> QED BY <2>3, <2>10, <2>11, <2>12, <2>13, <2>14, <2>15 DEF WorkflowInv, WorkflowOnRecord
<1>2. CASE ~ Fresh(r)
  BY <1>2, AnswersAreQuiet DEF TransitionWrites
<1> QED BY <1>1, <1>2

\* The writers of other events than a status.
LEMMA OthersKeepInv ==
    ASSUME WorkflowInv, NEW r \in Writers,
           NextActionWrites(r) \/ NoteWrites(r),
           NEW reply \in {"ok", "server_error"}, Answer(r, reply),
           UNCHANGED sent,
           \/ UNCHANGED events
           \/ events' = Append(events, OtherEvent(r)),
           \/ UNCHANGED apps
           \/ apps' = [apps EXCEPT ![request[r].app].revision = @ + 1]
    PROVE  WorkflowInv'
<1> DEFINE b == request[r].app
           event == OtherEvent(r)
<1>1. /\ WorkflowTypeOK /\ request[r] \in Request
      /\ request[r].pc \in {"next_action", "note"} /\ b \in DOMAIN apps /\ apps[b] \in Application
      /\ b \in Nat \ {0}
  BY DEF WorkflowInv, WorkflowOnRecord, WorkflowTypeOK, NextActionWrites, NoteWrites, At, Sound, Kinds
<1>2. /\ event.app = b /\ event.type = request[r].pc /\ event.key = request[r].key
      /\ event \in Event
  BY <1>1 DEF OtherEvent, StatusEvent, Event, Request, Statuses, Kinds
<1>3. request[r].key = NoKey \/ (request[r].key[1] = request[r].pc /\ request[r].key[2] = b)
  BY <1>1 DEF WorkflowInv, Sound, KeyFor
<1> HIDE DEF event
<1>4. /\ events' \in Seq(Event) /\ DOMAIN events \subseteq DOMAIN events'
      /\ \A i \in DOMAIN events : events'[i] = events[i]
      /\ \A i \in DOMAIN events' \ DOMAIN events : events'[i] = event
  <2>1. CASE UNCHANGED events
    BY <1>1, <2>1 DEF WorkflowTypeOK
  <2>2. CASE events' = Append(events, event)
    BY <1>1, <1>2, <2>2, AppendedTo DEF WorkflowTypeOK
  <2> QED BY <2>1, <2>2 DEF event
<1>5. /\ apps' \in Seq(Application) /\ DOMAIN apps' = DOMAIN apps
      /\ \A a \in DOMAIN apps : apps'[a].status = apps[a].status
      /\ \A a \in DOMAIN apps : apps'[a] = apps[a] \/ apps'[a].revision = apps[a].revision + 1
      /\ \A a \in DOMAIN apps : apps[a] \in Application /\ apps'[a] \in Application
  <2>1. CASE UNCHANGED apps
    BY <1>1, <2>1 DEF WorkflowTypeOK
  <2>2. CASE apps' = [apps EXCEPT ![b].revision = @ + 1]
    <3> DEFINE row == [apps[b] EXCEPT !.revision = @ + 1]
    <3>1. row \in Application /\ row.revision = apps[b].revision + 1 /\ row.status = apps[b].status
      BY <1>1 DEF Application
    <3>2. apps' = [apps EXCEPT ![b] = row] /\ apps \in Seq(Application)
      BY <1>1, <2>2 DEF WorkflowTypeOK
    <3> HIDE DEF row
    <3> QED BY <1>1, <3>1, <3>2, ReplacedIn
  <2> QED BY <2>1, <2>2
<1>6. LogGrows /\ RowsGrow
  BY <1>4, <1>5 DEF LogGrows, RowsGrow, Application
<1>7. Quiet
  BY <1>1, <1>2, <1>4, <1>5, <1>6 DEF Quiet, MarkTypes
<1>8. ProjectionFollowsEvents' /\ AnsweredWasConfirmed'
  BY <1>7, QuietProjection DEF WorkflowInv, WorkflowOnRecord
<1>9. /\ request' \in [Writers -> Request] /\ request'[r].app = 0 /\ Sound(r)'
      /\ \A s \in Writers \ {r} : request'[s] = request[s]
  BY <1>1, AnswerFacts
<1>10. WorkflowTypeOK'
  BY <1>1, <1>4, <1>5, <1>9 DEF WorkflowTypeOK
<1>11. AcknowledgedIsRecorded'
  BY <1>6, <1>9, AcknowledgedStays DEF WorkflowInv, WorkflowOnRecord
<1>12. EventsAreOwned'
  BY <1>1, <1>2, <1>4, <1>5 DEF WorkflowInv, EventsAreOwned
<1>13. KeysTellIntent'
  <2>1. ASSUME NEW i \in DOMAIN events', events'[i].key # NoKey
        PROVE  /\ events'[i].key[1] = events'[i].type
               /\ events'[i].key[2] = events'[i].app
               /\ events'[i].type = "status" => events'[i].key[4] < apps'[events'[i].app].revision
    <3>1. CASE i \in DOMAIN events
      <4>1. /\ events[i].key[1] = events[i].type
            /\ events[i].key[2] = events[i].app
            /\ events[i].type = "status" => events[i].key[4] < apps[events[i].app].revision
            /\ events[i].app \in DOMAIN apps /\ events[i] \in Event
        BY <1>1, <1>4, <2>1, <3>1 DEF WorkflowInv, KeysTellIntent, EventsAreOwned, WorkflowTypeOK
      <4>2. events[i].key[4] \in Nat
        BY <1>4, <2>1, <3>1, <4>1 DEF Event, Keys
      <4>3. apps[events[i].app].revision \in Nat
        BY <1>5, <4>1 DEF Application
      <4> QED BY <1>4, <1>5, <3>1, <4>1, <4>2, <4>3
    <3>2. CASE i \notin DOMAIN events
      BY <1>1, <1>2, <1>3, <1>4, <2>1, <3>2
    <3> QED BY <3>1, <3>2
  <2> QED BY <2>1 DEF KeysTellIntent
<1>14. \A s \in Writers \ {r} : Sound(s)'
  BY <1>1, <1>5, <1>6, <1>9, SoundStays DEF WorkflowInv
<1> QED BY <1>8, <1>9, <1>10, <1>11, <1>12, <1>13, <1>14 DEF WorkflowInv, WorkflowOnRecord

LEMMA WorkflowStep == WorkflowInv /\ [Next]_vars => WorkflowInv'
<1>1. ASSUME WorkflowInv, NEW r \in Writers, NextActionWrites(r)
      PROVE  WorkflowInv'
  BY <1>1, OthersKeepInv DEF NextActionWrites, AppendEvent
<1>2. ASSUME WorkflowInv, NEW r \in Writers, NoteWrites(r)
      PROVE  WorkflowInv'
  BY <1>2, OthersKeepInv DEF NoteWrites
<1>3. ASSUME WorkflowInv, NEW a \in DOMAIN apps, LetterSent(a)
      PROVE  WorkflowInv'
  <2>1. LogGrows /\ Quiet
    BY <1>3 DEF LetterSent, LogGrows, Quiet
  <2>2. ProjectionFollowsEvents' /\ AnsweredWasConfirmed'
    BY <1>3, <2>1, QuietProjection DEF WorkflowInv, WorkflowOnRecord
  <2>3. WorkflowTypeOK' /\ AcknowledgedIsRecorded'
    BY <1>3 DEF LetterSent, WorkflowInv, WorkflowOnRecord, WorkflowTypeOK, AcknowledgedIsRecorded, At
  <2> QED BY <1>3, <2>2, <2>3 DEF LetterSent, WorkflowInv, WorkflowOnRecord, EventsAreOwned,
             KeysTellIntent, Sound, Fresh
<1>4. ASSUME WorkflowInv, UNCHANGED vars
      PROVE  WorkflowInv'
  <2>1. LogGrows /\ Quiet
    BY <1>4 DEF vars, LogGrows, Quiet
  <2>2. ProjectionFollowsEvents' /\ AnsweredWasConfirmed'
    BY <1>4, <2>1, QuietProjection DEF WorkflowInv, WorkflowOnRecord
  <2> QED BY <1>4, <2>2 DEF vars, WorkflowInv, WorkflowOnRecord, WorkflowTypeOK, AcknowledgedIsRecorded,
             At, EventsAreOwned, KeysTellIntent, Sound, Fresh
<1> QED BY <1>1, <1>2, <1>3, <1>4, ReadersKeepInv, CreateKeepsInv, TransitionKeepsInv DEF Next

\* The log and the projections agree, keys are used once and what was acknowledged is
\* recorded, for any number of writers, applications and events.
THEOREM WorkflowIsKept == Spec => []WorkflowOnRecord
<1>1. Init => WorkflowInv
  BY RequestTypes DEF Init, WorkflowInv, WorkflowOnRecord, WorkflowTypeOK, ProjectionFollowsEvents,
     AnsweredWasConfirmed, AcknowledgedIsRecorded, At, EventsAreOwned, KeysTellIntent, Sound, Kinds,
     NewRequest
<1>2. WorkflowInv => WorkflowOnRecord
  BY DEF WorkflowInv
<1> QED BY <1>1, <1>2, WorkflowStep, PTL DEF Spec

-----------------------------------------------------------------------------
(* Cover letters.                                                          *)

\* What a request that waits for its write knows of the first letter: the
\* revision it names is at most the one it has read, and as long as that one
\* is the revision of the letter, the letter is what it has read.
KnowsOfLetter(e) ==
    /\ editor[e].pc # "idle" => editor[e].text \in Texts
    /\ editor[e].pc = "append" /\ newest <= 1 =>
         editor[e].expected <= IF newest = 0 THEN 1 ELSE letters[1].revision
    /\ editor[e].pc = "update" => editor[e].letter \in DOMAIN letters
    /\ editor[e].pc = "update" /\ editor[e].letter = 1 =>
         /\ editor[e].expected <= editor[e].row.revision
         /\ editor[e].row.revision <= letters[1].revision
         /\ editor[e].row.revision = letters[1].revision => editor[e].row = letters[1]
         /\ ~ HasType(editor[e].row, {"sent"})

LettersInv ==
    /\ LettersOnRecord
    /\ newest = 0 <=> letters = <<>>
    /\ \A e \in Editors : KnowsOfLetter(e)

-----------------------------------------------------------------------------
\* The columns of a letter after a version was added.
LEMMA WithVersionColumns ==
    ASSUME NEW row \in Letter, NEW old \in Letter, NEW type \in Types, NEW text \in Texts
    PROVE  LET new == WithVersion(row, type, text, old) IN
           /\ new \in Letter
           /\ new.revision = old.revision + 1
           /\ new.versions = Append(old.versions, [type |-> type, text |-> text])
           /\ new.generated = IF type \in Sources /\ row.generated = NoText THEN text ELSE row.generated
           /\ new.sent_text = IF type = "sent" THEN text ELSE row.sent_text
<1> DEFINE new == WithVersion(row, type, text, old)
           generated == IF type \in Sources /\ row.generated = NoText THEN text ELSE row.generated
           sent_text == IF type = "sent" THEN text ELSE row.sent_text
           versions == Append(old.versions, [type |-> type, text |-> text])
<1>1. PICK final \in BOOLEAN : final = (type \in {"final", "sent"} \/ row.is_final)
  OBVIOUS
<1>2. new = [generated |-> generated, sent_text |-> sent_text, is_final |-> final,
             revision |-> old.revision + 1, versions |-> versions]
  BY Zenon, <1>1 DEF WithVersion
<1> HIDE DEF new
<1>3. generated \in Texts \cup {NoText} /\ sent_text \in Texts \cup {NoText}
  BY DEF Letter
<1>4. old.revision + 1 \in Nat \ {0} /\ old.versions \in Seq(Version)
  BY DEF Letter
<1>5. versions \in Seq(Version)
  BY <1>4 DEF Version
<1> HIDE DEF generated, sent_text, versions
<1>6. new \in Letter
  BY ONLY Zenon, <1>2, <1>3, <1>4, <1>5, final \in BOOLEAN DEF Letter
<1>7. new.revision = old.revision + 1 /\ new.versions = versions /\ new.generated = generated
      /\ new.sent_text = sent_text
  BY <1>2
<1> QED BY <1>6, <1>7 DEF new, generated, sent_text, versions

LEMMA WithVersionFinal ==
    ASSUME NEW row \in Letter, NEW old \in Letter, NEW type \in Types, NEW text \in Texts
    PROVE  WithVersion(row, type, text, old).is_final <=> (type \in {"final", "sent"} \/ row.is_final)
<1>1. PICK final \in BOOLEAN : final = (type \in {"final", "sent"} \/ row.is_final)
  OBVIOUS
<1>2. WithVersion(row, type, text, old).is_final = final
  BY Zenon, <1>1 DEF WithVersion
<1> QED BY <1>1, <1>2

LEMMA HasTypeAppended ==
    ASSUME NEW old \in Letter, NEW new, NEW v \in Version, new.versions = Append(old.versions, v), NEW types
    PROVE  /\ HasType(new, types) <=> HasType(old, types) \/ v.type \in types
           /\ old.versions \in Seq(Version) /\ Len(new.versions) = Len(old.versions) + 1
           /\ Len(old.versions) \in Nat
           /\ DOMAIN old.versions = 1 .. Len(old.versions)
           /\ DOMAIN new.versions = 1 .. Len(old.versions) + 1
           /\ \A i \in DOMAIN old.versions : new.versions[i] = old.versions[i]
           /\ new.versions[Len(old.versions) + 1] = v
<1>1. old.versions \in Seq(Version)
  BY DEF Letter
<1>2. /\ Len(new.versions) = Len(old.versions) + 1
      /\ Len(old.versions) \in Nat
      /\ DOMAIN old.versions = 1 .. Len(old.versions)
      /\ DOMAIN new.versions = 1 .. Len(old.versions) + 1
      /\ \A i \in DOMAIN old.versions : new.versions[i] = old.versions[i]
      /\ new.versions[Len(old.versions) + 1] = v
  BY <1>1, AppendedTo
<1> QED BY <1>1, <1>2 DEF HasType

\* A version that is added to a letter which is what was read of it, and was not
\* sent, keeps the letter and its versions in agreement.
LEMMA NextVersionAgrees ==
    ASSUME NEW old \in Letter, NEW type \in Types, NEW text \in Texts,
           FollowsVersions(old), ~ HasType(old, {"sent"})
    PROVE  FollowsVersions(WithVersion(old, type, text, old))
             /\ SentIsLast(WithVersion(old, type, text, old))
<1> DEFINE new == WithVersion(old, type, text, old)
           v == [type |-> type, text |-> text]
           n == Len(old.versions) + 1
<1>1. /\ new \in Letter
      /\ new.versions = Append(old.versions, v)
      /\ new.generated = IF type \in Sources /\ old.generated = NoText THEN text ELSE old.generated
      /\ new.sent_text = IF type = "sent" THEN text ELSE old.sent_text
      /\ new.is_final <=> (type \in {"final", "sent"} \/ old.is_final)
  BY WithVersionColumns, WithVersionFinal
<1>2. v \in Version /\ v.type = type /\ v.text = text
  BY DEF Version
<1>3. \A types : HasType(new, types) <=> HasType(old, types) \/ type \in types
  BY <1>1, <1>2, HasTypeAppended
<1>4. /\ n - 1 \in Nat
      /\ DOMAIN old.versions = 1 .. n - 1 /\ DOMAIN new.versions = 1 .. n
      /\ \A i \in 1 .. n - 1 : new.versions[i] = old.versions[i]
      /\ new.versions[n] = v /\ Len(new.versions) = n
  BY <1>1, <1>2, HasTypeAppended
<1> HIDE DEF v, n, new
<1>5. text # NoText
  BY LettersAssumptions
<1>6. new.generated = NoText => ~ HasType(new, Sources)
  BY <1>1, <1>3, <1>5 DEF FollowsVersions
<1>7. ASSUME new.generated # NoText
      PROVE  \E i \in DOMAIN new.versions :
               /\ new.versions[i].type \in Sources /\ new.versions[i].text = new.generated
               /\ \A j \in 1 .. i - 1 : new.versions[j].type \notin Sources
  <2>1. CASE old.generated # NoText
    <3>1. PICK i \in DOMAIN old.versions :
               /\ old.versions[i].type \in Sources /\ old.versions[i].text = old.generated
               /\ \A j \in 1 .. i - 1 : old.versions[j].type \notin Sources
      BY <2>1 DEF FollowsVersions
    <3>2. i \in DOMAIN new.versions /\ \A j \in 1 .. i - 1 : new.versions[j] = old.versions[j]
      BY <1>4
    <3> QED BY <1>1, <1>4, <2>1, <3>1, <3>2
  <2>2. CASE old.generated = NoText
    <3>1. ~ HasType(old, Sources) /\ type \in Sources
      BY <1>1, <1>7, <2>2 DEF FollowsVersions
    <3>2. \A j \in 1 .. n - 1 : new.versions[j].type \notin Sources
      BY <1>4, <3>1 DEF HasType
    <3>3. n \in DOMAIN new.versions /\ new.versions[n].type = type /\ new.versions[n].text = new.generated
      BY <1>1, <1>2, <1>4, <2>2, <3>1
    <3> QED BY <3>1, <3>2, <3>3
  <2> QED BY <2>1, <2>2
<1>8. new.sent_text = NoText => ~ HasType(new, {"sent"})
  BY <1>1, <1>3, <1>5
<1>9. ASSUME new.sent_text # NoText
      PROVE  \E i \in DOMAIN new.versions : new.versions[i] = [type |-> "sent", text |-> new.sent_text]
  <2>1. CASE type = "sent"
    <3>1. n \in DOMAIN new.versions /\ new.versions[n] = [type |-> "sent", text |-> new.sent_text]
      BY <1>1, <1>4, <2>1 DEF v
    <3> QED BY <3>1
  <2>2. CASE type # "sent"
    <3>1. PICK i \in DOMAIN old.versions : old.versions[i] = [type |-> "sent", text |-> old.sent_text]
      BY <1>1, <1>9, <2>2 DEF FollowsVersions
    <3> QED BY <1>1, <1>4, <2>2, <3>1
  <2> QED BY <2>1, <2>2
<1>10. new.is_final <=> HasType(new, {"final", "sent"})
  BY <1>1, <1>3 DEF FollowsVersions
<1>11. SentIsLast(new)
  <2>1. \A i \in 1 .. n - 1 : new.versions[i].type # "sent"
    BY <1>4 DEF HasType
  <2> QED BY <1>4, <2>1 DEF SentIsLast
<1>12. FollowsVersions(new)
  BY <1>6, <1>7, <1>8, <1>9, <1>10 DEF FollowsVersions
<1> QED BY <1>11, <1>12 DEF new

LEMMA NewLetterAgrees ==
    /\ NewLetter \in Letter /\ FollowsVersions(NewLetter) /\ ~ HasType(NewLetter, {"sent"})
    /\ NewLetter.revision = 1 /\ NewLetter.versions = <<>>
    /\ NewEditor \in Editor /\ NewEditor.pc = "idle"
<1>1. NewLetter \in Letter /\ NewLetter.revision = 1 /\ NewLetter.versions = <<>>
      /\ NewLetter.generated = NoText /\ NewLetter.sent_text = NoText /\ NewLetter.is_final = FALSE
  BY DEF NewLetter, Letter
<1>2. \A types : ~ HasType(NewLetter, types)
  BY <1>1 DEF HasType
<1>3. NewEditor \in Editor /\ NewEditor.pc = "idle"
  BY <1>1 DEF NewEditor, Editor, Types
<1> QED BY <1>1, <1>2, <1>3 DEF FollowsVersions

-----------------------------------------------------------------------------
LEMMA LetterRowTypes ==
    /\ LettersInv => /\ newest # 0 => newest \in DOMAIN letters
                     /\ letters # <<>> => 1 \in DOMAIN letters /\ letters[1].revision \in Nat
    /\ LettersInv => \A l \in DOMAIN letters :
         /\ letters[l] \in Letter /\ letters[l].revision \in Nat
         /\ letters[l].versions \in Seq(Version) /\ Len(letters[l].versions) \in Nat
<1>1. LettersInv => \A l \in DOMAIN letters : letters[l] \in Letter
  BY DEF LettersInv, LettersOnRecord, LettersTypeOK
<1>2. LettersInv => /\ newest # 0 => newest \in DOMAIN letters
                    /\ letters # <<>> => 1 \in DOMAIN letters
  BY DEF LettersInv, LettersOnRecord, LettersTypeOK
<1>3. \A letter \in Letter : /\ letter.revision \in Nat /\ letter.versions \in Seq(Version)
                             /\ Len(letter.versions) \in Nat
  BY DEF Letter
<1> QED BY <1>1, <1>2, <1>3

\* A request that is left alone keeps what it knows.
LEMMA ReadsStay ==
    ASSUME LettersInv, NEW e \in Editors, editor'[e] = editor[e],
           DOMAIN letters \subseteq DOMAIN letters',
           letters # <<>> => letters'[1] = letters[1] \/ letters'[1].revision = letters[1].revision + 1,
           letters = <<>> /\ letters' # <<>> => letters'[1].revision = 2,
           letters' = <<>> => newest' = 0,
           newest' <= 1 => newest <= 1,
           newest' = 0 => newest = 0,
           newest' \in Nat
    PROVE  KnowsOfLetter(e)'
<1>1. editor[e] \in Editor /\ newest \in Nat /\ letters \in Seq(Letter)
  BY DEF LettersInv, LettersOnRecord, LettersTypeOK
<1>2. editor[e].expected \in Nat /\ editor[e].row.revision \in Nat
  BY <1>1 DEF Editor, Letter
<1>3. letters # <<>> => letters[1].revision \in Nat
  BY LetterRowTypes
<1>4. editor[e].pc = "append" /\ newest' <= 1 =>
        editor[e].expected <= IF newest' = 0 THEN 1 ELSE letters'[1].revision
  <2>1. ASSUME editor[e].pc = "append", newest' <= 1, newest = 0
        PROVE  editor[e].expected <= IF newest' = 0 THEN 1 ELSE letters'[1].revision
    <3>1. editor[e].expected <= 1 /\ letters = <<>>
      BY <2>1 DEF LettersInv, KnowsOfLetter
    <3>2. CASE letters' = <<>>
      BY <1>1, <1>2, <2>1, <3>1, <3>2
    <3>3. CASE letters' # <<>>
      BY <1>1, <1>2, <2>1, <3>1, <3>3
    <3> QED BY <3>2, <3>3
  <2>2. ASSUME editor[e].pc = "append", newest' <= 1, newest # 0
        PROVE  editor[e].expected <= IF newest' = 0 THEN 1 ELSE letters'[1].revision
    <3>1. editor[e].expected <= letters[1].revision /\ letters # <<>>
      BY <2>2 DEF LettersInv, KnowsOfLetter
    <3> QED BY <1>2, <1>3, <2>2, <3>1
  <2> QED BY <2>1, <2>2
<1>5. editor[e].pc = "update" /\ editor[e].letter = 1 =>
         /\ editor[e].row.revision <= letters'[1].revision
         /\ editor[e].row.revision = letters'[1].revision => editor[e].row = letters'[1]
  BY <1>2, <1>3 DEF LettersInv, KnowsOfLetter
<1> QED BY <1>4, <1>5 DEF LettersInv, KnowsOfLetter

\* A step that changes only the record of one request.
LEMMA ReadLetterKeeps ==
    ASSUME LettersInv, NEW e \in Editors, UNCHANGED <<letters, newest>>,
           NEW q \in Editor, editor' = [editor EXCEPT ![e] = q], KnowsOfLetter(e)'
    PROVE  LettersInv'
<1>1. editor \in [Editors -> Editor] /\ newest \in Nat /\ letters \in Seq(Letter)
  BY DEF LettersInv, LettersOnRecord, LettersTypeOK
<1>2. editor' \in [Editors -> Editor] /\ \A d \in Editors \ {e} : editor'[d] = editor[d]
  BY <1>1
<1>3. ASSUME NEW d \in Editors \ {e} PROVE KnowsOfLetter(d)'
  <2>1. letters = <<>> => newest = 0
    BY DEF LettersInv
  <2> QED BY <1>1, <1>2, <2>1, ReadsStay
<1>4. LettersOnRecord'
  BY <1>2 DEF LettersInv, LettersOnRecord, LettersTypeOK, FollowsVersions, SentIsLast, HasType
<1> QED BY <1>3, <1>4 DEF LettersInv

LEMMA LetterAnswerFacts ==
    ASSUME LettersInv, NEW e \in Editors, AnswerEditor(e)
    PROVE  /\ editor' = [editor EXCEPT ![e] = NewEditor] /\ NewEditor \in Editor
           /\ editor' \in [Editors -> Editor] /\ \A d \in Editors \ {e} : editor'[d] = editor[d]
           /\ KnowsOfLetter(e)'
<1>1. editor \in [Editors -> Editor] /\ editor' = [editor EXCEPT ![e] = NewEditor]
  BY DEF LettersInv, LettersOnRecord, LettersTypeOK, AnswerEditor
<1>2. editor'[e].pc = "idle"
  BY <1>1, NewLetterAgrees
<1> QED BY <1>1, <1>2, NewLetterAgrees DEF KnowsOfLetter

LEMMA StartsKeepInv ==
    ASSUME LettersInv, NEW e \in Editors, StartEdit(e) \/ StartSent(e)
    PROVE  LettersInv'
<1>1. /\ newest \in Nat /\ newest \in 0 .. Len(letters) /\ letters \in Seq(Letter)
      /\ editor \in [Editors -> Editor]
  BY DEF LettersInv, LettersOnRecord, LettersTypeOK
<1>2. newest # 0 => letters[newest].revision \in Nat
  BY LetterRowTypes
<1>3. /\ UNCHANGED <<letters, newest>>
      /\ \E type \in Types, text \in Texts, expected \in Nat :
           /\ expected <= IF newest = 0 THEN 1 ELSE letters[newest].revision
           /\ editor' = [editor EXCEPT ![e] = [NewEditor EXCEPT
                           !.pc = "append", !.type = type, !.text = text, !.expected = expected]]
  <2>1. CASE StartEdit(e)
    <3>1. MaxVersions \in Nat
      BY LettersAssumptions
    <3>2. PICK type \in Types \ {"sent"}, text \in Texts, expected \in 0 .. MaxVersions + 1 :
         /\ expected > 0 => expected <= IF newest = 0 THEN 1 ELSE letters[newest].revision
         /\ editor' = [editor EXCEPT ![e] = [NewEditor EXCEPT
                         !.pc = "append", !.type = type, !.text = text, !.expected = expected]]
      BY <2>1 DEF StartEdit
    <3>3. expected \in Nat /\ expected <= IF newest = 0 THEN 1 ELSE letters[newest].revision
      BY <1>2, <3>1, <3>2
    <3> QED BY <2>1, <3>2, <3>3 DEF StartEdit
  <2>2. CASE StartSent(e)
    <3>1. PICK text \in Texts, expected \in 1 .. letters[newest].revision :
         editor' = [editor EXCEPT ![e] = [NewEditor EXCEPT
                      !.pc = "append", !.type = "sent", !.text = text, !.expected = expected]]
      BY <2>2 DEF StartSent
    <3>2. newest # 0 /\ UNCHANGED <<letters, newest>> /\ "sent" \in Types
      BY <2>2 DEF StartSent, Types
    <3>3. expected \in Nat /\ expected <= letters[newest].revision
      BY <1>2, <3>2
    <3> QED BY <3>1, <3>2, <3>3
  <2> QED BY <2>1, <2>2
<1>4. PICK type \in Types, text \in Texts, expected \in Nat :
           /\ expected <= IF newest = 0 THEN 1 ELSE letters[newest].revision
           /\ editor' = [editor EXCEPT ![e] = [NewEditor EXCEPT
                           !.pc = "append", !.type = type, !.text = text, !.expected = expected]]
  BY <1>3
<1> DEFINE q == [NewEditor EXCEPT !.pc = "append", !.type = type, !.text = text, !.expected = expected]
<1>5. q \in Editor /\ q.pc = "append" /\ q.text = text /\ q.expected = expected
  BY NewLetterAgrees DEF Editor, NewEditor
<1>6. editor' = [editor EXCEPT ![e] = q]
  BY <1>4
<1> HIDE DEF q
<1>7. newest' = newest /\ letters' = letters /\ editor'[e] = q
  BY <1>1, <1>3, <1>6
<1>8. newest <= 1 => expected <= IF newest = 0 THEN 1 ELSE letters[1].revision
  BY <1>1, <1>4
<1>9. KnowsOfLetter(e)'
  BY <1>5, <1>7, <1>8 DEF KnowsOfLetter
<1> QED BY <1>3, <1>5, <1>6, <1>9, ReadLetterKeeps

LEMMA AppendReadsKeepsInv ==
    ASSUME LettersInv, NEW e \in Editors, AppendReads(e)
    PROVE  LettersInv'
<1>1. /\ newest \in 1 .. Len(letters) /\ letters \in Seq(Letter) /\ editor[e] \in Editor
      /\ editor \in [Editors -> Editor] /\ editor[e].pc = "append"
      /\ UNCHANGED <<letters, newest>>
  BY DEF LettersInv, LettersOnRecord, LettersTypeOK, AppendReads, EditorAt
<1>2. letters[newest] \in Letter /\ letters[newest].revision \in Nat /\ newest \in DOMAIN letters
  BY <1>1, LetterRowTypes
<1>3. CASE HasType(letters[newest], {"sent"})
  <2>1. AnswerEditor(e)
    BY <1>3 DEF AppendReads
  <2> QED BY <1>1, <2>1, LetterAnswerFacts, ReadLetterKeeps
<1>4. CASE ~ HasType(letters[newest], {"sent"})
  <2> DEFINE expected == IF editor[e].expected = 0 THEN letters[newest].revision ELSE editor[e].expected
             q == [editor[e] EXCEPT !.pc = "update", !.letter = newest, !.row = letters[newest],
                                    !.expected = expected]
  <2>1. expected \in Nat
    BY <1>1, <1>2 DEF Editor
  <2>2. editor' = [editor EXCEPT ![e] = q]
    BY <1>1, <1>4 DEF AppendReads
  <2>3. newest = 1 => expected <= letters[1].revision
    BY <1>1, <1>2 DEF LettersInv, KnowsOfLetter
  <2>4. editor[e].text \in Texts
    BY <1>1 DEF LettersInv, KnowsOfLetter
  <2> HIDE DEF expected
  <2>5. q \in Editor /\ q.pc = "update" /\ q.letter = newest /\ q.row = letters[newest]
        /\ q.expected = expected /\ q.text \in Texts
    <3>1. PICK old \in Editor, l \in Nat, row \in Letter :
            old = editor[e] /\ l = newest /\ row = letters[newest]
      BY <1>1, <1>2
    <3>2. q = [old EXCEPT !.pc = "update", !.letter = l, !.row = row, !.expected = expected]
      BY <3>1
    <3> HIDE DEF q
    <3>3. q \in Editor
      BY <2>1, <3>2 DEF Editor
    <3>4. q.pc = "update" /\ q.letter = l /\ q.row = row /\ q.expected = expected /\ q.text = old.text
      BY <3>2 DEF Editor
    <3> QED BY <2>4, <3>1, <3>3, <3>4
  <2> HIDE DEF q
  <2>6. editor'[e] = q /\ newest' = newest /\ letters' = letters
    BY <1>1, <2>2
  <2>7. KnowsOfLetter(e)'
    BY <1>1, <1>2, <1>4, <2>3, <2>5, <2>6 DEF KnowsOfLetter, HasType
  <2> QED BY <1>1, <2>2, <2>5, <2>7, ReadLetterKeeps
<1> QED BY <1>3, <1>4

LEMMA FindsNoneKeepsInv ==
    ASSUME LettersInv, NEW e \in Editors, AppendFindsNone(e)
    PROVE  LettersInv'
<1> DEFINE q == [editor[e] EXCEPT !.pc = "insert"]
<1>1. /\ editor[e] \in Editor /\ editor \in [Editors -> Editor] /\ editor[e].pc = "append"
      /\ UNCHANGED <<letters, newest>> /\ editor[e].text \in Texts
  BY DEF LettersInv, LettersOnRecord, LettersTypeOK, AppendFindsNone, EditorAt, KnowsOfLetter
<1>2. editor' = [editor EXCEPT ![e] = q] /\ q \in Editor /\ q.pc = "insert" /\ q.text \in Texts
  BY <1>1 DEF AppendFindsNone, Editor
<1> HIDE DEF q
<1>3. KnowsOfLetter(e)'
  BY <1>1, <1>2 DEF KnowsOfLetter
<1> QED BY <1>1, <1>2, <1>3, ReadLetterKeeps

LEMMA InsertLetterKeeps ==
    ASSUME LettersInv, NEW e \in Editors, InsertLetter(e)
    PROVE  LettersInv'
<1> DEFINE new == WithVersion(NewLetter, editor[e].type, editor[e].text, NewLetter)
           n == Len(letters) + 1
<1>1. /\ letters \in Seq(Letter) /\ Len(letters) \in Nat /\ newest \in 0 .. Len(letters)
      /\ editor[e] \in Editor /\ editor[e].pc = "insert" /\ editor[e].text \in Texts
      /\ editor[e].type \in Types /\ AnswerEditor(e)
  BY DEF LettersInv, LettersOnRecord, LettersTypeOK, InsertLetter, EditorAt, KnowsOfLetter, Editor
<1>2. CASE editor[e].expected \notin {0, 1}
  <2>1. UNCHANGED <<letters, newest>>
    BY <1>2 DEF InsertLetter
  <2> QED BY <1>1, <2>1, LetterAnswerFacts, ReadLetterKeeps
<1>3. CASE editor[e].expected \in {0, 1}
  <2>1. /\ new \in Letter /\ new.revision = 2 /\ Len(new.versions) = 1
        /\ FollowsVersions(new) /\ SentIsLast(new)
    <3>1. new \in Letter /\ new.revision = NewLetter.revision + 1
          /\ new.versions = Append(NewLetter.versions, [type |-> editor[e].type, text |-> editor[e].text])
      BY <1>1, NewLetterAgrees, WithVersionColumns
    <3>2. FollowsVersions(new) /\ SentIsLast(new)
      BY <1>1, NewLetterAgrees, NextVersionAgrees
    <3> QED BY <3>1, <3>2, NewLetterAgrees
  <2>2. letters' = Append(letters, new) /\ Len(letters) < MaxLetters
        /\ newest' \in {n} \cup (IF newest = 0 THEN {} ELSE {newest})
    BY <1>3 DEF InsertLetter
  <2> HIDE DEF new
  <2>3. /\ letters' \in Seq(Letter) /\ Len(letters') = n
        /\ DOMAIN letters = 1 .. n - 1 /\ DOMAIN letters' = 1 .. n
        /\ \A l \in 1 .. n - 1 : letters'[l] = letters[l]
        /\ letters'[n] = new
    BY <1>1, <2>1, <2>2, AppendedTo
  <2>4. letters # <<>> => letters'[1] = letters[1] /\ 1 \in 1 .. n - 1
    BY <1>1, <2>3
  <2>5. letters = <<>> => letters'[1] = new /\ n = 1
    BY <1>1, <2>3
  <2>6. newest' \in 1 .. n /\ (newest' <= 1 => newest <= 1) /\ letters' # <<>>
    BY <1>1, <2>2, <2>3, <2>4 DEF LettersInv
  <2>7. /\ editor' \in [Editors -> Editor] /\ \A d \in Editors \ {e} : editor'[d] = editor[d]
        /\ KnowsOfLetter(e)'
    BY <1>1, LetterAnswerFacts
  <2>8. LettersTypeOK'
    BY <1>1, <2>2, <2>3, <2>6, <2>7, LettersAssumptions DEF LettersTypeOK
  <2>9. ASSUME NEW l \in DOMAIN letters'
        PROVE  letters'[l].revision = 1 + Len(letters'[l].versions)
    <3>1. CASE l = n
      <4>1. letters'[l] = new
        BY <2>3, <3>1
      <4>2. letters'[l].revision = 2
        BY <2>1, <4>1
      <4>3. Len(letters'[l].versions) = 1
        BY <2>1, <4>1
      <4> QED BY <4>2, <4>3
    <3>2. CASE l # n
      BY <1>1, <2>3, <3>2 DEF LettersInv, LettersOnRecord
    <3> QED BY <3>1, <3>2
  <2>10. FollowsVersions(letters'[1]) /\ SentIsLast(letters'[1])
    BY <2>1, <2>4, <2>5 DEF LettersInv, LettersOnRecord
  <2>11. LettersOnRecord'
    BY <2>8, <2>9, <2>10 DEF LettersOnRecord, FollowsVersions, SentIsLast, HasType
  <2>12. ASSUME NEW d \in Editors \ {e} PROVE KnowsOfLetter(d)'
    <3>1. letters = <<>> /\ letters' # <<>> => letters'[1].revision = 2
      BY <2>1, <2>5
    <3>2. DOMAIN letters \subseteq DOMAIN letters' /\ newest' \in Nat /\ newest' # 0
      BY <1>1, <2>3, <2>6
    <3> QED BY <2>4, <2>6, <2>7, <3>1, <3>2, ReadsStay
  <2> QED BY <2>6, <2>7, <2>11, <2>12 DEF LettersInv
<1> QED BY <1>2, <1>3

LEMMA UpdateKeepsInv ==
    ASSUME LettersInv, NEW e \in Editors, UpdateLetter(e)
    PROVE  LettersInv'
<1> DEFINE l == editor[e].letter
           old == letters[l]
           row == editor[e].row
           new == WithVersion(row, editor[e].type, editor[e].text, old)
<1>1. /\ letters \in Seq(Letter) /\ l \in DOMAIN letters /\ newest \in 0 .. Len(letters)
      /\ editor[e] \in Editor /\ editor[e].pc = "update" /\ editor[e].text \in Texts
      /\ editor[e].type \in Types /\ row \in Letter
      /\ AnswerEditor(e) /\ newest' = newest
  BY DEF LettersInv, LettersOnRecord, LettersTypeOK, UpdateLetter, EditorAt, KnowsOfLetter, Editor
<1>2. old \in Letter
  BY <1>1
<1>3. CASE old.revision # editor[e].expected
  <2>1. UNCHANGED <<letters, newest>>
    BY <1>1, <1>3 DEF UpdateLetter
  <2> QED BY <1>1, <2>1, LetterAnswerFacts, ReadLetterKeeps
<1>4. CASE old.revision = editor[e].expected
  <2>1. /\ new \in Letter /\ new.revision = old.revision + 1
        /\ new.versions = Append(old.versions, [type |-> editor[e].type, text |-> editor[e].text])
    <3> HIDE DEF old, row
    <3> QED BY <1>1, <1>2, WithVersionColumns
  <2>2. Len(new.versions) = Len(old.versions) + 1
    <3>1. old.versions \in Seq(Version)
      BY <1>2 DEF Letter
    <3> HIDE DEF old, new
    <3> QED BY <2>1, <3>1
  <2>3. l = 1 => FollowsVersions(new) /\ SentIsLast(new)
    <3>1. SUFFICES ASSUME l = 1 PROVE FollowsVersions(new) /\ SentIsLast(new)
      OBVIOUS
    <3>2. /\ editor[e].expected <= row.revision /\ row.revision <= old.revision
          /\ row.revision = old.revision => row = old
          /\ ~ HasType(row, {"sent"})
      BY <1>1, <3>1 DEF LettersInv, KnowsOfLetter
    <3>3. row.revision \in Nat /\ old.revision \in Nat
      BY <1>1, <1>2 DEF Letter
    <3>4. row = old
      BY <1>4, <3>2, <3>3
    <3>5. FollowsVersions(old)
      BY <1>1, <3>1 DEF LettersInv, LettersOnRecord
    <3> QED BY <1>1, <1>2, <3>2, <3>4, <3>5, NextVersionAgrees
  <2>4. letters' = [letters EXCEPT ![l] = new]
    BY <1>1, <1>4 DEF UpdateLetter
  <2> HIDE DEF new
  <2>5. /\ letters' \in Seq(Letter) /\ Len(letters') = Len(letters) /\ DOMAIN letters' = DOMAIN letters
        /\ \A k \in DOMAIN letters : k # l => letters'[k] = letters[k]
        /\ letters'[l] = new
    BY <1>1, <2>1, <2>4, ReplacedIn
  <2>6. /\ editor' \in [Editors -> Editor] /\ \A d \in Editors \ {e} : editor'[d] = editor[d]
        /\ KnowsOfLetter(e)'
    BY <1>1, LetterAnswerFacts
  <2>7. LettersTypeOK'
    BY <1>1, <2>5, <2>6 DEF LettersTypeOK, LettersInv, LettersOnRecord
  <2>8. ASSUME NEW k \in DOMAIN letters'
        PROVE  letters'[k].revision = 1 + Len(letters'[k].versions)
    <3>1. CASE k = l
      <4>1. old.revision = 1 + Len(old.versions) /\ Len(old.versions) \in Nat
        BY <1>1, LetterRowTypes DEF LettersInv, LettersOnRecord
      <4>2. letters'[k] = new /\ new.revision = old.revision + 1 /\ Len(new.versions) = Len(old.versions) + 1
        BY <2>1, <2>2, <2>5, <3>1
      <4> HIDE DEF old
      <4> QED BY <4>1, <4>2
    <3>2. CASE k # l
      BY <2>5, <3>2 DEF LettersInv, LettersOnRecord
    <3> QED BY <3>1, <3>2
  <2>9. letters # <<>> /\ letters' # <<>> /\ 1 \in DOMAIN letters
    BY <1>1, <2>5
  <2>10. FollowsVersions(letters'[1]) /\ SentIsLast(letters'[1])
    BY <2>3, <2>5, <2>9 DEF LettersInv, LettersOnRecord
  <2>11. LettersOnRecord'
    BY <2>7, <2>8, <2>10 DEF LettersOnRecord, FollowsVersions, SentIsLast, HasType
  <2>12. letters'[1] = letters[1] \/ letters'[1].revision = letters[1].revision + 1
    BY <2>1, <2>5, <2>9
  <2>13. ASSUME NEW d \in Editors \ {e} PROVE KnowsOfLetter(d)'
    BY <1>1, <2>5, <2>6, <2>9, <2>12, ReadsStay
  <2> QED BY <1>1, <2>6, <2>9, <2>11, <2>13 DEF LettersInv
<1> QED BY <1>3, <1>4

\* Letters and versions agree in every reachable state, for any number of
\* requests, texts, letters and versions.
THEOREM LettersAreKept == LettersSpec => []LettersOnRecord
<1>1. LettersInit => LettersInv
  <2>1. LettersInit => LettersTypeOK /\ letters = <<>> /\ newest = 0
    BY NewLetterAgrees, LettersAssumptions DEF LettersInit, LettersTypeOK
  <2>2. LettersInit => \A e \in Editors : KnowsOfLetter(e)
    BY NewLetterAgrees DEF LettersInit, KnowsOfLetter
  <2> QED BY <2>1, <2>2 DEF LettersInv, LettersOnRecord
<1>2. LettersInv /\ [LettersNext]_lettersVars => LettersInv'
  <2>1. CASE LettersNext
    BY <2>1, StartsKeepInv, AppendReadsKeepsInv, FindsNoneKeepsInv, InsertLetterKeeps, UpdateKeepsInv
       DEF LettersNext
  <2>2. CASE UNCHANGED lettersVars
    BY <2>2 DEF lettersVars, LettersInv, LettersOnRecord, LettersTypeOK, FollowsVersions, SentIsLast,
                HasType, KnowsOfLetter
  <2> QED BY <2>1, <2>2
<1>3. LettersInv => LettersOnRecord
  BY DEF LettersInv
<1> QED BY <1>1, <1>2, <1>3, PTL DEF LettersSpec

-----------------------------------------------------------------------------
(* Follow-ups.                                                             *)

\* What a request that is to write a follow-up knows of it: as long as the
\* revision is the one it has read, the row is; and it only writes the status
\* "sent" when the sending is confirmed, now or in the row.
KnowsOfFollowUp(c) ==
    LET row == followups[caller[c].id]
        item == caller[c].item
    IN  caller[c].pc \in {"update", "generate"} =>
          /\ caller[c].id \in DOMAIN followups
          /\ item.revision <= row.revision
          /\ item.revision = row.revision => item = row
          /\ caller[c].status = "sent" => caller[c].confirmed \/ item.sent_at

SentHasTime ==
    \A f \in DOMAIN followups :
      /\ followups[f].status = "sent" => followups[f].sent_at
      /\ followups[f].revision <= 1 + logged[f]

FollowUpsInv ==
    /\ FollowUpsTypeOK
    /\ OneFollowUpPerKey
    /\ SentHasTime
    /\ \A c \in Callers : KnowsOfFollowUp(c)

\* A step of the routes changes at most one follow-up, by a revision of its own.
Revised(f) ==
    /\ f \in DOMAIN followups /\ DOMAIN followups' = DOMAIN followups
    /\ followups'[f] \in FollowUp
    /\ followups'[f].key = followups[f].key
    /\ followups'[f].revision = followups[f].revision + 1
    /\ followups[f].sent_at => followups'[f].sent_at
    /\ followups'[f].status = "sent" => followups'[f].sent_at
    /\ \A g \in DOMAIN followups : g # f => followups'[g] = followups[g]

-----------------------------------------------------------------------------
LEMMA CallerTypes ==
    /\ NewCaller \in Caller /\ NewCaller.pc = "idle"
    /\ \A key \in FollowUpKeys \cup {NoFollowUpKey} :
         NewFollowUp(key) \in FollowUp /\ NewFollowUp(key).key = key
           /\ NewFollowUp(key).revision = 1 /\ NewFollowUp(key).status = "pending"
BY DEF NewCaller, Caller, NewFollowUp, FollowUp, FollowUpStatuses

LEMMA FollowUpRowTypes ==
    ASSUME FollowUpsInv, NEW f \in DOMAIN followups
    PROVE  followups[f] \in FollowUp /\ followups[f].revision \in Nat
             /\ followups[f].status \in FollowUpStatuses
<1>1. followups[f] \in FollowUp
  BY DEF FollowUpsInv, FollowUpsTypeOK
<1> QED BY <1>1 DEF FollowUp

\* A request that is left alone still knows what it knew.
LEMMA KnowledgeStays ==
    ASSUME FollowUpsInv, NEW c \in Callers, caller'[c] = caller[c],
           DOMAIN followups \subseteq DOMAIN followups',
           \A f \in DOMAIN followups :
             followups'[f] = followups[f] \/ followups'[f].revision = followups[f].revision + 1
    PROVE  KnowsOfFollowUp(c)'
<1>1. CASE caller[c].pc \in {"update", "generate"}
  <2> DEFINE f == caller[c].id
  <2>1. /\ caller[c] \in Caller /\ f \in DOMAIN followups /\ followups[f] \in FollowUp
        /\ KnowsOfFollowUp(c)
    BY <1>1 DEF FollowUpsInv, FollowUpsTypeOK, KnowsOfFollowUp
  <2>2. followups[f].revision \in Nat /\ caller[c].item.revision \in Nat
    BY <2>1 DEF FollowUp, Caller
  <2> QED BY <1>1, <2>1, <2>2 DEF KnowsOfFollowUp
<1>2. CASE caller[c].pc \notin {"update", "generate"}
  BY <1>2 DEF KnowsOfFollowUp
<1> QED BY <1>1, <1>2

\* A read changes the record of its caller only.
LEMMA ReadFollowUpKeeps ==
    ASSUME FollowUpsInv, NEW c \in Callers, UNCHANGED <<followups, logged>>,
           caller' \in [Callers -> Caller], \A d \in Callers \ {c} : caller'[d] = caller[d],
           KnowsOfFollowUp(c)'
    PROVE  FollowUpsInv'
<1>1. \A d \in Callers : KnowsOfFollowUp(d)'
  <2>1. ASSUME NEW d \in Callers \ {c} PROVE KnowsOfFollowUp(d)'
    BY KnowledgeStays
  <2> QED BY <2>1
<1> QED BY <1>1 DEF FollowUpsInv, FollowUpsTypeOK, OneFollowUpPerKey, SentHasTime

LEMMA FollowUpReadersKeep ==
    ASSUME FollowUpsInv, NEW c \in Callers,
           CreateFollowUpReads(c) \/ UpdateFollowUpReads(c) \/ GenerateFollowUpReads(c)
    PROVE  FollowUpsInv' /\ UNCHANGED followups
<1>0. caller \in [Callers -> Caller] /\ caller[c] \in Caller
  BY DEF FollowUpsInv, FollowUpsTypeOK
<1>1. CASE CreateFollowUpReads(c)
  <2>1. PICK key \in FollowUpKeys \cup {NoFollowUpKey} :
          caller' = [caller EXCEPT ![c].pc = "create", ![c].key = key]
    BY <1>1 DEF CreateFollowUpReads
  <2>2. /\ caller' \in [Callers -> Caller] /\ \A d \in Callers \ {c} : caller'[d] = caller[d]
        /\ caller'[c].pc = "create"
    BY <1>0, <2>1 DEF Caller
  <2>3. KnowsOfFollowUp(c)'
    BY <2>2 DEF KnowsOfFollowUp
  <2> QED BY <1>1, <2>2, <2>3, ReadFollowUpKeeps DEF CreateFollowUpReads
<1>2. ASSUME NEW f \in DOMAIN followups, NEW point \in {"update", "generate"},
             NEW status \in FollowUpStatuses, NEW confirmed \in BOOLEAN,
             ReadsFollowUp(c, f, point, status, confirmed),
             status = "sent" => confirmed \/ status = followups[f].status
      PROVE  FollowUpsInv' /\ UNCHANGED followups
  <2> DEFINE q == [NewCaller EXCEPT !.pc = point, !.id = f, !.item = followups[f], !.status = status,
                     !.confirmed = confirmed]
  <2>1. followups[f] \in FollowUp /\ f \in Nat
    BY DEF FollowUpsInv, FollowUpsTypeOK
  <2>2. q \in Caller
    BY <2>1, CallerTypes DEF Caller
  <2>3. q.pc = point /\ q.id = f /\ q.item = followups[f] /\ q.status = status /\ q.confirmed = confirmed
    BY DEF NewCaller
  <2>4. caller' = [caller EXCEPT ![c] = q] /\ UNCHANGED <<followups, logged>>
    BY <1>2 DEF ReadsFollowUp
  <2> HIDE DEF q
  <2>5. status = "sent" => confirmed \/ followups[f].sent_at
    BY <1>2 DEF FollowUpsInv, SentHasTime
  <2>6. /\ caller' \in [Callers -> Caller] /\ \A d \in Callers \ {c} : caller'[d] = caller[d]
        /\ caller'[c] = q
    BY <1>0, <2>2, <2>4
  <2>7. KnowsOfFollowUp(c)'
    BY <2>1, <2>3, <2>4, <2>5, <2>6 DEF KnowsOfFollowUp, FollowUp
  <2> QED BY <2>4, <2>6, <2>7, ReadFollowUpKeeps
<1>3. CASE UpdateFollowUpReads(c)
  <2>1. PICK f \in DOMAIN followups :
          \/ ReadsFollowUp(c, f, "update", "sent", TRUE)
          \/ \E status \in (FollowUpStatuses \ {"sent"}) \cup {followups[f].status} :
               ReadsFollowUp(c, f, "update", status, FALSE)
    BY <1>3 DEF UpdateFollowUpReads
  <2>2. CASE ReadsFollowUp(c, f, "update", "sent", TRUE)
    BY <1>2, <2>2 DEF FollowUpStatuses
  <2>3. ASSUME NEW status \in (FollowUpStatuses \ {"sent"}) \cup {followups[f].status},
               ReadsFollowUp(c, f, "update", status, FALSE)
        PROVE  FollowUpsInv' /\ UNCHANGED followups
    <3>1. status \in FollowUpStatuses
      BY FollowUpRowTypes
    <3> QED BY <1>2, <2>3, <3>1
  <2> QED BY <2>1, <2>2, <2>3
<1>4. CASE GenerateFollowUpReads(c)
  <2>1. PICK f \in DOMAIN followups : ReadsFollowUp(c, f, "generate", followups[f].status, FALSE)
    BY <1>4 DEF GenerateFollowUpReads
  <2>2. followups[f].status \in FollowUpStatuses
    BY FollowUpRowTypes
  <2> QED BY <1>2, <2>1, <2>2
<1> QED BY <1>1, <1>3, <1>4

-----------------------------------------------------------------------------
LEMMA FollowUpAnswerFacts ==
    ASSUME FollowUpsTypeOK, NEW c \in Callers, AnswerCaller(c)
    PROVE  /\ caller' \in [Callers -> Caller] /\ \A d \in Callers \ {c} : caller'[d] = caller[d]
           /\ KnowsOfFollowUp(c)'
<1>1. caller'[c] = NewCaller /\ NewCaller.pc = "idle"
  BY CallerTypes DEF AnswerCaller, FollowUpsTypeOK
<1> QED BY <1>1, CallerTypes DEF AnswerCaller, FollowUpsTypeOK, KnowsOfFollowUp

LEMMA InsertFollowUpKeeps ==
    ASSUME FollowUpsInv, NEW c \in Callers, InsertFollowUp(c)
    PROVE  FollowUpsInv' /\ \A f \in DOMAIN followups : followups[f].sent_at => followups'[f].sent_at
<1> DEFINE key == caller[c].key
           row == NewFollowUp(key)
           n == Len(followups) + 1
<1>1. FollowUpsTypeOK /\ AnswerCaller(c) /\ key \in FollowUpKeys \cup {NoFollowUpKey}
  BY DEF FollowUpsInv, FollowUpsTypeOK, InsertFollowUp, Caller
<1>2. /\ caller' \in [Callers -> Caller] /\ \A d \in Callers \ {c} : caller'[d] = caller[d]
      /\ KnowsOfFollowUp(c)'
  BY <1>1, FollowUpAnswerFacts
<1>3. CASE HasKey(key)
  BY <1>2, <1>3, ReadFollowUpKeeps DEF InsertFollowUp
<1>4. CASE ~ HasKey(key)
  <2>1. row \in FollowUp /\ row.key = key /\ row.revision = 1 /\ row.status = "pending"
    BY <1>1, CallerTypes
  <2>2. followups' = Append(followups, row) /\ logged' = Append(logged, 0)
    BY <1>4 DEF InsertFollowUp
  <2> HIDE DEF row
  <2>3. /\ followups' \in Seq(FollowUp) /\ DOMAIN followups = 1 .. Len(followups) /\ DOMAIN followups' = 1 .. n
        /\ \A f \in DOMAIN followups : followups'[f] = followups[f]
        /\ followups'[n] = row /\ Len(followups) \in Nat
    BY <1>1, <2>1, <2>2, AppendedTo DEF FollowUpsTypeOK
  <2>4. logged \in Seq(Nat) /\ Len(logged) = Len(followups)
    BY <1>1 DEF FollowUpsTypeOK
  <2>5. /\ logged' \in Seq(Nat) /\ Len(logged') = Len(followups')
        /\ DOMAIN logged' = 1 .. n /\ \A f \in DOMAIN followups : logged'[f] = logged[f]
        /\ logged'[n] = 0
    BY <1>1, <2>1, <2>2, <2>3, <2>4, AppendedTo DEF FollowUpsTypeOK
  <2>6. FollowUpsTypeOK'
    BY <1>1, <1>2, <2>3, <2>5 DEF FollowUpsTypeOK
  <2>7. OneFollowUpPerKey'
    <3>1. \A f \in DOMAIN followups : key # NoFollowUpKey => followups[f].key # key
      BY <1>4 DEF HasKey
    <3> QED BY <2>1, <2>3, <3>1 DEF FollowUpsInv, OneFollowUpPerKey
  <2>8. SentHasTime'
    BY <2>1, <2>3, <2>5 DEF FollowUpsInv, SentHasTime
  <2>9. ASSUME NEW d \in Callers \ {c} PROVE KnowsOfFollowUp(d)'
    BY <1>2, <2>3, KnowledgeStays
  <2> QED BY <1>2, <2>3, <2>6, <2>7, <2>8, <2>9 DEF FollowUpsInv
<1> QED BY <1>3, <1>4

\* The event is written with the row, or alone.
LEMMA RevisionKeepsInv ==
    ASSUME FollowUpsInv, NEW c \in Callers, NEW f \in DOMAIN followups, AnswerCaller(c),
           Revised(f) \/ UNCHANGED followups,
           followups' \in Seq(FollowUp),
           logged' = [logged EXCEPT ![f] = @ + 1]
    PROVE  FollowUpsInv' /\ \A g \in DOMAIN followups : followups[g].sent_at => followups'[g].sent_at
<1>1. FollowUpsTypeOK /\ DOMAIN followups' = DOMAIN followups
  BY DEF FollowUpsInv, FollowUpsTypeOK, Revised
<1>2. /\ caller' \in [Callers -> Caller] /\ \A d \in Callers \ {c} : caller'[d] = caller[d]
      /\ KnowsOfFollowUp(c)'
  BY <1>1, FollowUpAnswerFacts
<1>3. /\ DOMAIN logged' = DOMAIN logged /\ DOMAIN logged = DOMAIN followups
      /\ logged' \in Seq(Nat) /\ Len(logged') = Len(followups')
      /\ \A g \in DOMAIN followups : logged[g] \in Nat /\ logged'[g] = IF g = f THEN logged[g] + 1 ELSE logged[g]
  BY <1>1 DEF FollowUpsTypeOK
<1>4. \A g \in DOMAIN followups : followups[g].revision \in Nat
  BY FollowUpRowTypes
<1>5. \A g \in DOMAIN followups :
        /\ followups'[g].key = followups[g].key
        /\ \/ followups'[g] = followups[g]
           \/ g = f /\ followups'[g].revision = followups[g].revision + 1
        /\ followups[g].sent_at => followups'[g].sent_at
        /\ followups'[g].status = "sent" => followups'[g].sent_at
  BY DEF Revised, FollowUpsInv, SentHasTime
<1>6. FollowUpsTypeOK'
  BY <1>1, <1>2, <1>3 DEF FollowUpsTypeOK
<1>7. OneFollowUpPerKey'
  BY <1>1, <1>5 DEF FollowUpsInv, OneFollowUpPerKey
<1>8. SentHasTime'
  BY <1>1, <1>3, <1>4, <1>5 DEF FollowUpsInv, SentHasTime
<1>9. ASSUME NEW d \in Callers \ {c} PROVE KnowsOfFollowUp(d)'
  BY <1>1, <1>2, <1>5, KnowledgeStays
<1> QED BY <1>2, <1>5, <1>6, <1>7, <1>8, <1>9 DEF FollowUpsInv

\* What an update writes over the row it has read.
LEMMA UpdatedRow ==
    ASSUME NEW c \in Callers, caller[c] \in Caller, NEW row \in FollowUp, caller[c].item = row,
           NEW new, new = UpdatedFollowUp(c, row)
    PROVE  /\ new \in FollowUp /\ new.key = row.key /\ new.revision = row.revision + 1
           /\ new.sent_at <=> (caller[c].confirmed \/ row.sent_at)
           /\ new.status = caller[c].status
<1>1. /\ row.revision \in Nat /\ row.key \in FollowUpKeys \cup {NoFollowUpKey}
      /\ row = [key |-> row.key, status |-> row.status, sent_at |-> row.sent_at, revision |-> row.revision]
      /\ caller[c].status \in FollowUpStatuses
  BY DEF FollowUp, Caller
<1>2. PICK sentAt \in BOOLEAN : sentAt = (caller[c].confirmed \/ row.sent_at)
  OBVIOUS
<1>3. new = [row EXCEPT !.status = caller[c].status, !.sent_at = sentAt, !.revision = @ + 1]
  BY Zenon, <1>2 DEF UpdatedFollowUp
<1>4. new = [key |-> row.key, status |-> caller[c].status, sent_at |-> sentAt, revision |-> row.revision + 1]
  BY <1>1, <1>3
<1>5. row.revision + 1 \in Nat \ {0}
  BY <1>1
<1>6. new \in FollowUp
  BY ONLY Zenon, <1>1, <1>4, <1>5 DEF FollowUp
<1>7. new.key = row.key /\ new.revision = row.revision + 1 /\ new.status = caller[c].status
  BY <1>4
<1>8. new.sent_at = sentAt
  BY ONLY Zenon, <1>4
<1> QED BY <1>2, <1>6, <1>7, <1>8

LEMMA WritersKeepInv ==
    ASSUME FollowUpsInv, NEW c \in Callers, UpdateFollowUpWrites(c) \/ GenerateFollowUpWrites(c)
    PROVE  FollowUpsInv' /\ \A g \in DOMAIN followups : followups[g].sent_at => followups'[g].sent_at
<1> DEFINE f == caller[c].id
           row == followups[f]
<1>1. /\ FollowUpsTypeOK /\ caller[c] \in Caller /\ caller[c].pc \in {"update", "generate"}
      /\ f \in DOMAIN followups /\ row \in FollowUp /\ followups \in Seq(FollowUp)
      /\ AnswerCaller(c)
  BY DEF FollowUpsInv, FollowUpsTypeOK, UpdateFollowUpWrites, GenerateFollowUpWrites, CallerAt, KnowsOfFollowUp
<1>2. CASE ~ StillFresh(c)
  <2>1. CASE UpdateFollowUpWrites(c)
    <3>1. UNCHANGED <<followups, logged>>
      BY <1>2, <2>1 DEF UpdateFollowUpWrites
    <3> QED BY <1>1, <3>1, FollowUpAnswerFacts, ReadFollowUpKeeps
  <2>2. CASE GenerateFollowUpWrites(c)
    <3>1. UNCHANGED followups /\ logged' = [logged EXCEPT ![f] = @ + 1]
      BY <1>2, <2>2 DEF GenerateFollowUpWrites
    <3> QED BY <1>1, <3>1, RevisionKeepsInv
  <2> QED BY <2>1, <2>2
<1>3. CASE StillFresh(c)
  <2>1. caller[c].item = row /\ (caller[c].status = "sent" => caller[c].confirmed \/ row.sent_at)
    BY <1>1, <1>3 DEF StillFresh, FollowUpsInv, KnowsOfFollowUp
  <2>2. logged' = [logged EXCEPT ![f] = @ + 1]
    BY <1>3 DEF UpdateFollowUpWrites, GenerateFollowUpWrites
  <2>3. ASSUME NEW new \in FollowUp, followups' = [followups EXCEPT ![f] = new],
               new.key = row.key, new.revision = row.revision + 1,
               row.sent_at => new.sent_at, new.status = "sent" => new.sent_at
        PROVE  Revised(f) /\ followups' \in Seq(FollowUp)
    <3>1. /\ followups' \in Seq(FollowUp) /\ DOMAIN followups' = DOMAIN followups
          /\ \A g \in DOMAIN followups : g # f => followups'[g] = followups[g]
          /\ followups'[f] = new
      BY <1>1, <2>3, ReplacedIn
    <3> QED BY <1>1, <2>3, <3>1 DEF Revised
  <2>4. CASE UpdateFollowUpWrites(c)
    <3> DEFINE new == UpdatedFollowUp(c, row)
    <3>1. followups' = [followups EXCEPT ![f] = new]
      BY <1>3, <2>4 DEF UpdateFollowUpWrites
    <3>2. /\ new \in FollowUp /\ new.key = row.key /\ new.revision = row.revision + 1
          /\ new.sent_at <=> (caller[c].confirmed \/ row.sent_at)
          /\ new.status = caller[c].status
      BY <1>1, <2>1, UpdatedRow
    <3>3. row.sent_at => new.sent_at
      BY <3>2
    <3>4. new.status = "sent" => new.sent_at
      BY <2>1, <3>2
    <3> HIDE DEF new
    <3> QED BY <1>1, <2>2, <2>3, <3>1, <3>2, <3>3, <3>4, RevisionKeepsInv
  <2>5. CASE GenerateFollowUpWrites(c)
    <3> DEFINE new == [row EXCEPT !.revision = @ + 1]
    <3>1. followups' = [followups EXCEPT ![f] = new]
      BY <1>3, <2>5 DEF GenerateFollowUpWrites
    <3>2. row \in FollowUp /\ (row.status = "sent" => row.sent_at)
      BY <1>1 DEF FollowUpsInv, SentHasTime
    <3>3. /\ new \in FollowUp /\ new.key = row.key /\ new.revision = row.revision + 1
          /\ new.sent_at = row.sent_at /\ new.status = row.status
      BY <3>2 DEF FollowUp
    <3>4. (row.sent_at => new.sent_at) /\ (new.status = "sent" => new.sent_at)
      BY <3>2, <3>3
    <3> HIDE DEF new
    <3> QED BY <1>1, <2>2, <2>3, <3>1, <3>3, <3>4, RevisionKeepsInv
  <2> QED BY <2>4, <2>5
<1> QED BY <1>2, <1>3

-----------------------------------------------------------------------------
\* No follow-up is forgotten, made twice or changed without a trace, for any number
\* of callers, keys and follow-ups.
THEOREM FollowUpsAreKept == FollowUpsSpec => FollowUpsOnRecord
<1> DEFINE Kept == \A f \in DOMAIN followups : followups[f].sent_at => followups'[f].sent_at
<1>1. FollowUpsInit => FollowUpsInv
  BY CallerTypes DEF FollowUpsInit, FollowUpsInv, FollowUpsTypeOK, OneFollowUpPerKey, SentHasTime, KnowsOfFollowUp
<1>2. FollowUpsInv /\ [FollowUpsNext]_followUpVars => FollowUpsInv' /\ [Kept]_followups
  <2>1. CASE FollowUpsNext
    BY <2>1, FollowUpReadersKeep, InsertFollowUpKeeps, WritersKeepInv DEF FollowUpsNext
  <2>2. CASE UNCHANGED followUpVars
    BY <2>2 DEF followUpVars, FollowUpsInv, FollowUpsTypeOK, OneFollowUpPerKey, SentHasTime, KnowsOfFollowUp
  <2> QED BY <2>1, <2>2
<1>3. FollowUpsInv => FollowUpsTypeOK /\ OneFollowUpPerKey /\ SentHasTime
  BY DEF FollowUpsInv
<1>4. [](FollowUpsTypeOK /\ OneFollowUpPerKey) /\ [][Kept]_followups /\ []SentHasTime => FollowUpsOnRecord
  BY DEF FollowUpsOnRecord, SendingIsRecorded, SentHasTime
<1> HIDE DEF Kept
<1> QED BY <1>1, <1>2, <1>3, <1>4, PTL DEF FollowUpsSpec
=============================================================================
