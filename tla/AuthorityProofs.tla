--------------------------- MODULE AuthorityProofs ---------------------------
(* Who may say what of the data of the extension: the companion is canonical *)
(* only after an import, for any number of pages, toggles, local changes and *)
(* migrations; a tracked job is "applied" only on the word of the user, for  *)
(* any number of jobs, tasks and deletions; a badge is replaced by newer     *)
(* news only; a verdict does not contradict the flags beside it, and a       *)
(* vacancy that improves loses no points under weights that are not extreme. *)
EXTENDS Authority, LocalTracker, PageBadges, Scoring, SequenceTheorems,
        WellFoundedInduction, TLAPS

(* The operating mode.                                                     *)

AuthoritySpec == AuthorityInit /\ [][AuthorityNext]_authorityVars

PanelPoints == {"closed", "empty", "preparing", "blocked", "planned", "importing", "complete"}
ImportPoints == {"unstarted", "begin", "request", "checkpoint", "switch", "return", "ended"}

AuthorityTypeOK ==
    /\ localData \in Int
    /\ migrationPanel \in [at : PanelPoints, snapshot : Int, run : Int]
    /\ imports \in [ImportIds -> [at : ImportPoints, snapshot : Int]]

\* A migration that is past its request has an import that the companion
\* committed, and one that is about to switch has saved its checkpoint, unless
\* a deletion took it away: of this page, then the barrier is up and the switch is
\* refused, or of another page.
Imported(i) == imports[i].at \in {"checkpoint", "switch"} => imports[i].snapshot \in imported
WasOvertaken == overtaken /\ checkpoint = NoSnapshot
Checkpointed(i) ==
    imports[i].at = "switch" => clearing \/ checkpoint \in imported \/ WasOvertaken

AuthorityInv ==
    /\ AuthorityTypeOK
    /\ \A i \in ImportIds : Imported(i) /\ Checkpointed(i)
    /\ OpsFollowsImport

-----------------------------------------------------------------------------
LEMMA AuthorityStarts == AuthorityInit => AuthorityInv
<1> SUFFICES ASSUME AuthorityInit PROVE AuthorityInv
  OBVIOUS
<1>1. AuthorityTypeOK
  BY DEF AuthorityInit, AuthorityTypeOK, Unstarted, NoSnapshot, ImportPoints, PanelPoints,
         ImportIds, ClosedPanel, Panel
<1>2. \A i \in ImportIds : Imported(i) /\ Checkpointed(i)
  BY DEF AuthorityInit, Imported, Checkpointed, Unstarted
<1>3. OpsFollowsImport
  BY DEF AuthorityInit, OpsFollowsImport
<1>4. QED
  BY <1>1, <1>2, <1>3 DEF AuthorityInv

\* A step that moves no migration and no checkpoint, switches to no authority
\* but "standalone", and leaves the barrier up, keeps the invariant.
LEMMA OtherSteps ==
  ASSUME AuthorityInv, AuthorityTypeOK', UNCHANGED <<imports, checkpoint, imported, overtaken>>,
         authority' \in {authority, "standalone"}, clearing => clearing'
  PROVE  AuthorityInv'
  BY DEF AuthorityInv, Imported, Checkpointed, WasOvertaken, OpsFollowsImport

\* The steps of a page that reads the mode, of the switch and of the panel.
LEMMA ReaderSteps ==
  ASSUME AuthorityInv, NEW p \in Readers,
         ReadsIntent(p) \/ ReadsAuthority(p) \/ RepairsAuthority(p) \/ MutatesLocally(p)
  PROVE  AuthorityInv'
<1>1. AuthorityTypeOK'
  BY DEF AuthorityInv, AuthorityTypeOK, ReadsIntent, ReadsAuthority, RepairsAuthority,
         MutatesLocally, localStores
<1>2. QED
  BY <1>1, OtherSteps DEF ReadsIntent, ReadsAuthority, RepairsAuthority, MutatesLocally,
                          localStores, otherPage

LEMMA SwitchSteps ==
  ASSUME AuthorityInv,
         \/ ClicksSwitch \/ SavesIntent \/ ClearsAuthority \/ ToggleReadsMode \/ FinishesToggle
  PROVE  AuthorityInv'
<1>1. AuthorityTypeOK'
  BY DEF AuthorityInv, AuthorityTypeOK, ClicksSwitch, SavesIntent, ClearsAuthority,
         ToggleReadsMode, FinishesToggle, localStores, ClosedPanel, Panel, PanelPoints, NoSnapshot
<1>2. QED
  BY <1>1, OtherSteps DEF ClicksSwitch, SavesIntent, ClearsAuthority, ToggleReadsMode,
                          FinishesToggle, localStores, otherPage

LEMMA PanelSteps ==
  ASSUME AuthorityInv,
         ShowsPanel \/ HidesPanel \/ CapturesSnapshot \/ PreviewAnswered \/ CancelsPlan
  PROVE  AuthorityInv'
<1>1. AuthorityTypeOK'
  BY DEF AuthorityInv, AuthorityTypeOK, ShowsPanel, HidesPanel, CapturesSnapshot,
         PreviewAnswered, CancelsPlan, localStores, ClosedPanel, EmptyPanel, Panel, PanelPoints,
         NoSnapshot
<1>2. QED
  BY <1>1, OtherSteps DEF ShowsPanel, HidesPanel, CapturesSnapshot, PreviewAnswered,
                          CancelsPlan, localStores, otherPage

-----------------------------------------------------------------------------
(* The steps of a migration.                                               *)

\* Whatever a migration does to the panel, the panel keeps its shape.
LEMMA PanelStaysTyped ==
  ASSUME AuthorityTypeOK, NEW i \in ImportIds, NEW at
  PROVE  PanelAfter(i, at) \in [at : PanelPoints, snapshot : Int, run : Int]
  BY DEF AuthorityTypeOK, PanelAfter, Panel, PanelPoints, NoSnapshot

LEMMA ConfirmsStep == AuthorityInv /\ ConfirmsMigration => AuthorityInv'
<1> SUFFICES ASSUME AuthorityInv, ConfirmsMigration PROVE AuthorityInv'
  OBVIOUS
<1>1. PICK i \in ImportIds :
         /\ imports' = [imports EXCEPT ![i] = [at |-> "begin", snapshot |-> migrationPanel.snapshot]]
         /\ migrationPanel' = Panel("importing", migrationPanel.snapshot, i)
  BY DEF ConfirmsMigration
<1>2. i \in Int
  BY DEF ImportIds
<1>3. AuthorityTypeOK'
  BY <1>1, <1>2 DEF AuthorityInv, AuthorityTypeOK, ConfirmsMigration, localStores, Panel,
                    PanelPoints, ImportPoints
<1>4. \A j \in ImportIds : Imported(j)' /\ Checkpointed(j)'
  BY <1>1 DEF AuthorityInv, AuthorityTypeOK, ConfirmsMigration, localStores, Imported,
              Checkpointed, WasOvertaken, otherPage
<1>5. QED
  BY <1>3, <1>4 DEF AuthorityInv, ConfirmsMigration, localStores, otherPage, OpsFollowsImport

\* A write that meets the barrier ends its migration and changes nothing else.
LEMMA ThrownStep ==
  ASSUME AuthorityInv, NEW i \in ImportIds, Thrown(i), UNCHANGED <<localData, clearing, overtaken>>
  PROVE  AuthorityInv'
<1>1. AuthorityTypeOK'
  BY PanelStaysTyped DEF AuthorityInv, AuthorityTypeOK, Thrown, ImportPoints
<1>2. \A j \in ImportIds : Imported(j)' /\ Checkpointed(j)'
  BY DEF AuthorityInv, AuthorityTypeOK, Thrown, Imported, Checkpointed, WasOvertaken
<1>3. QED
  BY <1>1, <1>2 DEF AuthorityInv, Thrown, OpsFollowsImport

\* Either the barrier stops the step, or it is looked at write by write.
LEMMA MigrationSteps ==
  ASSUME AuthorityInv, NEW i \in ImportIds,
         \/ BeginsMigration(i) \/ ImportAnswered(i) \/ SavesCheckpoint(i)
         \/ SwitchesAuthority(i) \/ ReturnsToStandalone(i)
  PROVE  AuthorityInv'
<1>1. CASE Thrown(i) /\ UNCHANGED <<localData, clearing, overtaken>>
  BY <1>1, ThrownStep
<1>2. CASE BeginsMigration(i) /\ ~ clearing
  <2>1. AuthorityTypeOK'
    BY <1>2 DEF AuthorityInv, AuthorityTypeOK, BeginsMigration, ImportPoints
  <2>2. \A j \in ImportIds : Imported(j)' /\ Checkpointed(j)'
    BY <1>2 DEF AuthorityInv, AuthorityTypeOK, BeginsMigration, Imported, Checkpointed, WasOvertaken,
                           otherPage
  <2>3. OpsFollowsImport'
    BY <1>2 DEF BeginsMigration, OpsFollowsImport, otherPage
  <2>4. QED
    BY <2>1, <2>2, <2>3 DEF AuthorityInv
<1>3. CASE ImportAnswered(i)
  <2>1. PICK answer \in {"error", "rolled_back", "committed"}, commits \in BOOLEAN :
           /\ answer = "committed" => commits
           /\ imported' = IF commits THEN imported \union {imports[i].snapshot} ELSE imported
           /\ imports' = [imports EXCEPT ![i].at = AfterImport(answer)]
    BY <1>3 DEF ImportAnswered
  <2>2. AuthorityTypeOK'
    BY <1>3, <2>1 DEF AuthorityInv, AuthorityTypeOK, ImportAnswered, AfterImport, ImportPoints
  <2>3. \A j \in ImportIds : Imported(j)' /\ Checkpointed(j)'
    BY <1>3, <2>1 DEF AuthorityInv, AuthorityTypeOK, ImportAnswered, AfterImport, Imported,
                      Checkpointed, WasOvertaken, otherPage
  <2>4. OpsFollowsImport'
    BY <1>3, <2>1 DEF AuthorityInv, ImportAnswered, otherPage, OpsFollowsImport
  <2>5. QED
    BY <2>2, <2>3, <2>4 DEF AuthorityInv
<1>4. CASE SavesCheckpoint(i) /\ ~ clearing
  <2>1. AuthorityTypeOK'
    BY <1>4 DEF AuthorityInv, AuthorityTypeOK, SavesCheckpoint, ImportPoints
  <2>2. checkpoint' \in imported'
    BY <1>4 DEF AuthorityInv, SavesCheckpoint, Imported
  <2>3. \A j \in ImportIds : Imported(j)' /\ Checkpointed(j)'
    BY <1>4, <2>2 DEF AuthorityInv, AuthorityTypeOK, SavesCheckpoint, Imported, Checkpointed
  <2>4. QED
    BY <2>1, <2>2, <2>3 DEF AuthorityInv, OpsFollowsImport
<1>5. CASE SwitchesAuthority(i) /\ ~ clearing
  <2>1. AuthorityTypeOK'
    BY <1>5, PanelStaysTyped DEF AuthorityInv, AuthorityTypeOK, SwitchesAuthority, ImportPoints
  <2>2. checkpoint' \in imported' \/ WasOvertaken'
    BY <1>5 DEF AuthorityInv, SwitchesAuthority, Checkpointed, WasOvertaken, otherPage
  <2>3. \A j \in ImportIds : Imported(j)' /\ Checkpointed(j)'
    BY <1>5, <2>2 DEF AuthorityInv, AuthorityTypeOK, SwitchesAuthority, Imported, Checkpointed, WasOvertaken,
                           otherPage
  <2>4. imported' # {}
    BY <1>5 DEF AuthorityInv, SwitchesAuthority, Imported
  <2>5. QED
    BY <2>1, <2>2, <2>3, <2>4 DEF AuthorityInv, WasOvertaken, OpsFollowsImport
<1>6. CASE ReturnsToStandalone(i) /\ ~ clearing
  <2>1. AuthorityTypeOK'
    BY <1>6, PanelStaysTyped DEF AuthorityInv, AuthorityTypeOK, ReturnsToStandalone, ImportPoints
  <2>2. \A j \in ImportIds : Imported(j)' /\ Checkpointed(j)'
    BY <1>6 DEF AuthorityInv, AuthorityTypeOK, ReturnsToStandalone, Imported, Checkpointed, WasOvertaken,
                           otherPage
  <2>3. OpsFollowsImport'
    BY <1>6 DEF ReturnsToStandalone, OpsFollowsImport, otherPage
  <2>4. QED
    BY <2>1, <2>2, <2>3 DEF AuthorityInv
<1>7. QED
  BY <1>1, <1>2, <1>3, <1>4, <1>5, <1>6
     DEF BeginsMigration, SavesCheckpoint, SwitchesAuthority, ReturnsToStandalone, otherPage

-----------------------------------------------------------------------------
(* Deletion and a page that closes: the barrier falls only when no migration *)
(* of the page waits to write, or when all of them are gone.                 *)
LEMMA ResetSteps ==
  ASSUME AuthorityInv,
         \/ ClearsLocalData \/ RestoresDefaults \/ ReopensSettings
         \/ AnotherPageClears \/ AnotherPageRestores
  PROVE  AuthorityInv'
<1>1. AuthorityTypeOK'
  <2>1. CASE ReopensSettings
    BY <2>1 DEF AuthorityInv, AuthorityTypeOK, ReopensSettings, localStores, ClosedPanel,
                Panel, PanelPoints, ImportPoints, NoSnapshot, Unstarted
  <2>2. CASE ClearsLocalData \/ AnotherPageClears
    BY <2>2 DEF AuthorityInv, AuthorityTypeOK, ClearsLocalData, AnotherPageClears
  <2>3. CASE RestoresDefaults \/ AnotherPageRestores
    BY <2>3 DEF AuthorityInv, AuthorityTypeOK, RestoresDefaults, AnotherPageRestores,
                localStores
  <2>4. QED
    BY <2>1, <2>2, <2>3
<1>2. CASE ClearsLocalData
  BY <1>1, <1>2 DEF AuthorityInv, ClearsLocalData, Imported, Checkpointed, OpsFollowsImport
<1>3. CASE RestoresDefaults
  <2>1. \A j \in ImportIds : imports[j].at \notin {"checkpoint", "switch"}
    BY <1>3 DEF RestoresDefaults, WritesPending
  <2>2. QED
    BY <1>1, <1>3, <2>1 DEF AuthorityInv, RestoresDefaults, localStores, otherPage,
                            Imported, Checkpointed, OpsFollowsImport
<1>4. CASE ReopensSettings
  <2>1. \A j \in ImportIds : imports'[j].at \notin {"checkpoint", "switch"}
    BY <1>4 DEF AuthorityInv, AuthorityTypeOK, ReopensSettings, Unstarted
  <2>2. QED
    BY <1>1, <1>4, <2>1 DEF AuthorityInv, ReopensSettings, localStores, otherPage,
                            Imported, Checkpointed, OpsFollowsImport
<1>5. CASE AnotherPageClears
  BY <1>1, <1>5 DEF AuthorityInv, AnotherPageClears, Imported, Checkpointed, WasOvertaken,
                    OpsFollowsImport
<1>6. CASE AnotherPageRestores
  BY <1>1, <1>6, OtherSteps DEF AnotherPageRestores, localStores
<1>7. QED
  BY <1>2, <1>3, <1>4, <1>5, <1>6

LEMMA AuthoritySteps == AuthorityInv /\ [AuthorityNext]_authorityVars => AuthorityInv'
<1> SUFFICES ASSUME AuthorityInv, [AuthorityNext]_authorityVars PROVE AuthorityInv'
  OBVIOUS
<1>1. CASE UNCHANGED authorityVars
  BY <1>1 DEF AuthorityInv, AuthorityTypeOK, Imported, Checkpointed, WasOvertaken,
              OpsFollowsImport, authorityVars, localStores, otherPage
<1>2. CASE AuthorityNext
  BY <1>2, ReaderSteps, SwitchSteps, PanelSteps, ConfirmsStep, MigrationSteps, ResetSteps
     DEF AuthorityNext
<1>3. QED
  BY <1>1, <1>2

\* The companion is canonical only after it committed the import of a snapshot
\* whose checkpoint the extension has saved (confirmMigration and the repairs,
\* toggles, resets and closed pages between its steps); a deletion by another page
\* between its last two writes, which they do not notice, leaves no checkpoint.
THEOREM OpsIsImported == AuthoritySpec => []OpsFollowsImport
<1>1. AuthorityInv => OpsFollowsImport
  BY DEF AuthorityInv
<1>2. QED
  BY AuthorityStarts, AuthoritySteps, <1>1, PTL DEF AuthoritySpec

-----------------------------------------------------------------------------
(* The tracked jobs.                                                       *)

TrackerSpec == TrackerInit /\ [][TrackerNext]_trackerVars

\* The statuses of a job, and what a task that moves nothing has instead.
Statuses == MoveTargets \cup {"", "saved", "applied", "rejected_by_me", "hr_replied"}

\* What tasks have left to do.
StepLists ==
    {<<>>, <<"save">>, <<"save", "score">>, <<"score">>, <<"save", "score", "badge">>,
     <<"score", "badge">>, <<"badge">>, <<"save", "status", "badge">>, <<"status", "badge">>,
     <<"move">>, <<"profile", "score">>, <<"resume">>, <<"guided", "application">>,
     <<"application">>, <<"replied">>, <<"notes">>}

\* Of a vacancy that is not among those said to be applied to, no history says so.
Declared(v, history, said) ==
    /\ history \in Seq(Statuses)
    /\ v \in said \/ \A i \in DOMAIN history : history[i] # "applied"

RowDeclared(v, row, said) == DOMAIN row = DOMAIN NoRow /\ Declared(v, row.history, said)
ApplicationDeclared(v, application, said) ==
    DOMAIN application = DOMAIN NoApplication /\ Declared(v, application.history, said)

\* What a task holds is declared, and so is what it is going to write.
TaskDeclared(task, said) ==
    /\ DOMAIN task = DOMAIN NoTask
    /\ task.steps \in StepLists /\ task.to \in Statuses
    /\ task.steps # <<>> => task.vacancy \in Tracked
    /\ RowDeclared(task.vacancy, task.row, said)
    /\ ApplicationDeclared(task.vacancy, task.application, said)
    /\ task.steps # <<>> /\ Head(task.steps) = "badge" => Exists(task.row)
    /\ task.steps # <<>> /\ Head(task.steps) = "guided" => task.vacancy \in said
    /\ task.to = "applied" => /\ task.steps = <<"move">>
                              /\ task.read => task.vacancy \in said

RowsDeclared ==
    /\ DOMAIN rows = Tracked /\ DOMAIN applications = Tracked
    /\ \A v \in Tracked : /\ RowDeclared(v, rows[v], confirmed)
                          /\ ApplicationDeclared(v, applications[v], confirmed)

BadgesDeclared ==
    /\ DOMAIN badgeOf = Tracked
    /\ \A v \in Tracked : v \in confirmed \/ badgeOf[v].status # "applied"

TasksDeclared ==
    /\ DOMAIN tasks = TaskIds
    /\ \A t \in TaskIds : TaskDeclared(tasks[t], confirmed)

PanelDeclared ==
    /\ DOMAIN panel = {"vacancy", "row", "application", "prepared", "marked"}
    /\ panel.vacancy \in Tracked
    /\ RowDeclared(panel.vacancy, panel.row, confirmed)
    /\ ApplicationDeclared(panel.vacancy, panel.application, confirmed)

TrackerInv == RowsDeclared /\ BadgesDeclared /\ TasksDeclared /\ PanelDeclared

-----------------------------------------------------------------------------
(* Lemmas on what the tracker stores.                                      *)

LEMMA TrackerFields ==
    /\ DOMAIN NoRow = {"history", "profile", "scored", "resume"} /\ NoRow.history = <<>>
    /\ DOMAIN NewRow = DOMAIN NoRow /\ NewRow.history = <<"saved">>
    /\ DOMAIN NoApplication = {"history", "notes"} /\ NoApplication.history = <<>>
    /\ NotShown.status = "none"
    /\ DOMAIN NoTask = {"vacancy", "steps", "read", "row", "application", "to", "profile"}
    /\ NoTask.steps = <<>> /\ NoTask.row = NoRow /\ NoTask.application = NoApplication
    /\ NoTask.to = "" /\ NoTask.vacancy = "" /\ NoTask.read = FALSE
BY DEF NoRow, NewRow, NoApplication, NotShown, NoTask

LEMMA NoStatus == "" \in Statuses
BY DEF Statuses

\* What is left after a step, and what that step was.
LEMMA StepsGoOn ==
    ASSUME NEW s \in StepLists, s # <<>>
    PROVE  /\ Len(s) = 1 \/ Tail(s) \in StepLists
           /\ Tail(s) # <<>> => Head(Tail(s)) \in {"score", "badge", "status", "application"}
           /\ Tail(s) # <<>> /\ Head(Tail(s)) = "badge" => Head(s) \in {"score", "status"}
           /\ Head(s) = "status" => s = <<"status", "badge">>
           /\ Head(s) = "move" => s = <<"move">>
<1>1. \A a : Len(<<a>>) = 1 /\ Tail(<<a>>) = <<>> /\ Head(<<a>>) = a
  OBVIOUS
<1>2. \A a, b : Tail(<<a, b>>) = <<b>> /\ Head(<<a, b>>) = a
  OBVIOUS
<1>3. \A a, b, c : Tail(<<a, b, c>>) = <<b, c>> /\ Head(<<a, b, c>>) = a
  OBVIOUS
<1>4. CASE s \in {<<"save">>, <<"score">>, <<"badge">>, <<"move">>, <<"resume">>,
                  <<"application">>, <<"replied">>, <<"notes">>}
  BY <1>1, <1>4
<1>5. ASSUME NEW a, NEW b, s = <<a, b>>,
             <<a, b>> \in {<<"save", "score">>, <<"score", "badge">>, <<"status", "badge">>,
                          <<"profile", "score">>, <<"guided", "application">>}
      PROVE  /\ Tail(s) \in StepLists /\ Head(Tail(s)) \in {"score", "badge", "application"}
             /\ Head(Tail(s)) = "badge" => Head(s) \in {"score", "status"}
             /\ Head(s) = "status" => s = <<"status", "badge">>
             /\ Head(s) # "move"
  <2>1. Tail(s) = <<b>> /\ Head(s) = a /\ Head(<<b>>) = b
    BY <1>1, <1>2, <1>5
  <2>2. \/ a = "save" /\ b = "score"
        \/ a = "score" /\ b = "badge"
        \/ a = "status" /\ b = "badge"
        \/ a = "profile" /\ b = "score"
        \/ a = "guided" /\ b = "application"
    <3>1. \A c, d : <<a, b>> = <<c, d>> => a = c /\ b = d
      OBVIOUS
    <3> QED BY <1>5, <3>1
  <2>3. <<b>> \in StepLists
    BY <2>2 DEF StepLists
  <2> QED BY <1>5, <2>1, <2>2, <2>3
<1>6. CASE s \in {<<"save", "score", "badge">>, <<"save", "status", "badge">>}
  <2>1. PICK b \in {"score", "status"} : s = <<"save", b, "badge">>
    BY <1>6
  <2>2. Tail(s) = <<b, "badge">> /\ Head(s) = "save" /\ Head(<<b, "badge">>) = b
    BY <1>2, <1>3, <2>1
  <2>3. <<b, "badge">> \in StepLists
    BY <2>1 DEF StepLists
  <2> QED BY <2>1, <2>2, <2>3
<1>7. CASE s \in {<<"save", "score">>, <<"score", "badge">>, <<"status", "badge">>,
                  <<"profile", "score">>, <<"guided", "application">>}
  <2>1. PICK a, b : s = <<a, b>>
    BY <1>7
  <2> QED BY <1>5, <1>7, <2>1
<1> QED BY <1>4, <1>6, <1>7 DEF StepLists

LEMMA MoreIsSaid ==
    ASSUME NEW v, NEW history, NEW said, NEW more, said \subseteq more, Declared(v, history, said)
    PROVE  Declared(v, history, more)
BY DEF Declared

\* A status that may be said of the vacancy is added to a history.
LEMMA StatusAdded ==
    ASSUME NEW v, NEW record, NEW said, NEW status \in Statuses, "history" \in DOMAIN record,
           Declared(v, record.history, said), status = "applied" => v \in said
    PROVE  /\ DOMAIN WithStatus(record, status) = DOMAIN record
           /\ Declared(v, WithStatus(record, status).history, said)
           /\ WithStatus(record, status).history # <<>>
<1>1. PICK history : history = record.history
  OBVIOUS
<1>2. WithStatus(record, status).history = Append(history, status)
  BY <1>1 DEF WithStatus
<1>3. DOMAIN WithStatus(record, status) = DOMAIN record
  BY DEF WithStatus
<1>4. history \in Seq(Statuses) /\ (v \in said \/ \A i \in DOMAIN history : history[i] # "applied")
  BY <1>1 DEF Declared
<1>5. Append(history, status) \in Seq(Statuses) /\ Append(history, status) # <<>>
  BY <1>4
<1>6. v \in said \/ \A i \in DOMAIN Append(history, status) : Append(history, status)[i] # "applied"
  BY <1>4
<1> QED BY <1>2, <1>3, <1>5, <1>6 DEF Declared

LEMMA RowMoved ==
    ASSUME NEW v, NEW row, NEW said, NEW status \in Statuses, RowDeclared(v, row, said),
           status = "applied" => v \in said
    PROVE  RowDeclared(v, WithStatus(row, status), said) /\ Exists(WithStatus(row, status))
<1>1. DOMAIN row = DOMAIN NoRow /\ Declared(v, row.history, said)
  BY DEF RowDeclared
<1>2. "history" \in DOMAIN row
  BY <1>1, TrackerFields
<1>3. /\ DOMAIN WithStatus(row, status) = DOMAIN row
      /\ Declared(v, WithStatus(row, status).history, said)
      /\ WithStatus(row, status).history # <<>>
  BY <1>1, <1>2, StatusAdded
<1> QED BY <1>1, <1>3 DEF RowDeclared, Exists

LEMMA ApplicationMoved ==
    ASSUME NEW v, NEW row, NEW said, NEW status \in Statuses, ApplicationDeclared(v, row, said),
           status = "applied" => v \in said
    PROVE  ApplicationDeclared(v, WithStatus(row, status), said)
<1>1. DOMAIN row = DOMAIN NoApplication /\ Declared(v, row.history, said)
  BY DEF ApplicationDeclared
<1>2. "history" \in DOMAIN row
  BY <1>1, TrackerFields
<1>3. /\ DOMAIN WithStatus(row, status) = DOMAIN row
      /\ Declared(v, WithStatus(row, status).history, said)
  BY <1>1, <1>2, StatusAdded
<1> QED BY <1>1, <1>3 DEF ApplicationDeclared

\* The last status of a history is one of it.
LEMMA LastIsDeclared ==
    ASSUME NEW v, NEW row, NEW said, RowDeclared(v, row, said), Exists(row)
    PROVE  v \in said \/ BadgeState(row).status # "applied"
<1>1. PICK history : history = row.history
  OBVIOUS
<1>2. history \in Seq(Statuses) /\ history # <<>>
      /\ (v \in said \/ \A i \in DOMAIN history : history[i] # "applied")
  BY <1>1 DEF RowDeclared, Declared, Exists
<1>3. Len(history) \in DOMAIN history
  BY <1>2
<1>4. BadgeState(row).status = history[Len(history)]
  BY <1>1 DEF BadgeState, StatusOf, Last
<1> QED BY <1>2, <1>3, <1>4

-----------------------------------------------------------------------------
(* Lemmas on the tasks.                                                    *)

\* A job that is gone is saved again before its status is set.
LEMMA SaveFirst == <<"save">> \o <<"status", "badge">> = <<"save", "status", "badge">>
<1> DEFINE Names == {"save", "status", "badge"}
<1>1. PICK a, b, c : a = <<"save">> /\ b = <<"status", "badge">> /\ c = <<"save", "status", "badge">>
  OBVIOUS
<1>2. /\ a \in Seq(Names) /\ Len(a) = 1 /\ a[1] = "save"
      /\ b \in Seq(Names) /\ Len(b) = 2 /\ b[1] = "status" /\ b[2] = "badge"
      /\ c \in Seq(Names) /\ Len(c) = 3 /\ c[1] = "save" /\ c[2] = "status" /\ c[3] = "badge"
  BY <1>1
<1> HIDE DEF Names
<1>3. PICK joined : joined = a \o b
  OBVIOUS
<1>4. /\ joined \in Seq(Names) /\ Len(joined) = 1 + 2
      /\ \A i \in 1..3 : joined[i] = IF i <= 1 THEN a[i] ELSE b[i - 1]
  BY <1>2, <1>3, ConcatProperties
<1>5. joined[1] = a[1] /\ joined[2] = b[1] /\ joined[3] = b[2]
  BY <1>4
<1>6. Len(joined) = Len(c) /\ \A i \in 1..Len(joined) : joined[i] = c[i]
  BY <1>2, <1>4, <1>5
<1>7. joined = c
  BY <1>2, <1>4, <1>6, SeqEqual
<1> QED BY <1>1, <1>3, <1>7

LEMMA NothingIsDeclared ==
    ASSUME NEW said
    PROVE  /\ \A v : /\ RowDeclared(v, NoRow, said) /\ RowDeclared(v, NewRow, said)
                     /\ ApplicationDeclared(v, NoApplication, said)
           /\ TaskDeclared(NoTask, said)
<1>1. <<>> \in Seq(Statuses) /\ DOMAIN <<>> = {} /\ <<>> \in StepLists
  BY DEF StepLists
<1>2. <<"saved">> \in Seq(Statuses) /\ \A i \in DOMAIN <<"saved">> : <<"saved">>[i] # "applied"
  BY DEF Statuses
<1>3. \A v : RowDeclared(v, NoRow, said) /\ ApplicationDeclared(v, NoApplication, said)
  BY <1>1, TrackerFields DEF RowDeclared, ApplicationDeclared, Declared
<1>4. \A v : RowDeclared(v, NewRow, said)
  BY <1>2, TrackerFields DEF RowDeclared, Declared
<1> QED BY <1>1, <1>3, <1>4, TrackerFields, NoStatus DEF TaskDeclared

\* One task goes on, and the others stay as they are.
LEMMA OneGoesOn ==
    ASSUME TasksDeclared, NEW t \in TaskIds, DOMAIN tasks' = TaskIds,
           \A u \in TaskIds \ {t} : tasks'[u] = tasks[u],
           confirmed \subseteq confirmed', TaskDeclared(tasks'[t], confirmed')
    PROVE  TasksDeclared'
<1> SUFFICES ASSUME NEW u \in TaskIds \ {t} PROVE TaskDeclared(tasks'[u], confirmed')
  BY DEF TasksDeclared
<1>1. PICK other : other = tasks[u]
  OBVIOUS
<1>2. tasks'[u] = other /\ TaskDeclared(other, confirmed)
  BY <1>1 DEF TasksDeclared
<1>3. TaskDeclared(other, confirmed')
  BY <1>2, MoreIsSaid DEF TaskDeclared, RowDeclared, ApplicationDeclared
<1> QED BY <1>2, <1>3

LEMMA TasksGoOn ==
    ASSUME TasksDeclared, NEW t \in TaskIds, NEW task, tasks' = [tasks EXCEPT ![t] = task],
           confirmed \subseteq confirmed', TaskDeclared(task, confirmed')
    PROVE  TasksDeclared'
<1>1. tasks'[t] = task /\ DOMAIN tasks' = TaskIds /\ \A u \in TaskIds \ {t} : tasks'[u] = tasks[u]
  BY DEF TasksDeclared
<1> QED BY <1>1, OneGoesOn

LEMMA TaskFields ==
    ASSUME TasksDeclared, NEW t \in TaskIds
    PROVE  /\ TaskDeclared(tasks[t], confirmed)
           /\ DOMAIN tasks[t] = {"vacancy", "steps", "read", "row", "application", "to", "profile"}
           /\ tasks[t].steps \in StepLists /\ tasks[t].to \in Statuses
           /\ tasks[t].steps # <<>> => tasks[t].vacancy \in Tracked
           /\ RowDeclared(tasks[t].vacancy, tasks[t].row, confirmed)
           /\ ApplicationDeclared(tasks[t].vacancy, tasks[t].application, confirmed)
BY TrackerFields DEF TasksDeclared, TaskDeclared

LEMMA StepDone ==
    ASSUME TasksDeclared, NEW t \in TaskIds, NEW row, tasks[t].steps # <<>>, Done(t, row),
           RowDeclared(tasks[t].vacancy, row, confirmed), confirmed' = confirmed,
           Head(tasks[t].steps) \in {"score", "status"} => Exists(row)
    PROVE  TasksDeclared'
<1>1. PICK task : task = tasks[t]
  OBVIOUS
<1>2. /\ DOMAIN task = {"vacancy", "steps", "read", "row", "application", "to", "profile"}
      /\ task.steps \in StepLists /\ TaskDeclared(task, confirmed)
  BY <1>1, TaskFields
<1>3. CASE Len(tasks[t].steps) = 1
  BY <1>3, NothingIsDeclared, TasksGoOn DEF Done
<1>4. CASE Len(tasks[t].steps) # 1
  <2>1. PICK next : next = [task EXCEPT !.steps = Tail(@), !.read = FALSE, !.row = row]
    OBVIOUS
  <2>2. tasks' = [tasks EXCEPT ![t] = next]
    BY <1>1, <1>4, <2>1 DEF Done
  <2>3. /\ DOMAIN next = DOMAIN task /\ next.steps = Tail(task.steps) /\ next.read = FALSE
        /\ next.row = row /\ next.to = task.to /\ next.vacancy = task.vacancy
        /\ next.application = task.application
    BY <1>2, <2>1
  <2>4. /\ Tail(task.steps) \in StepLists
        /\ Tail(task.steps) # <<>> => Head(Tail(task.steps)) \notin {"guided"}
        /\ Tail(task.steps) # <<>> /\ Head(Tail(task.steps)) = "badge"
             => Head(task.steps) \in {"score", "status"}
    BY <1>1, <1>2, <1>4, StepsGoOn
  <2>5. task.to # "applied"
    <3>1. Len(<<"move">>) = 1
      OBVIOUS
    <3> QED BY <1>1, <1>2, <1>4, <3>1 DEF TaskDeclared
  <2>6. TaskDeclared(next, confirmed)
    BY <1>1, <1>2, <2>3, <2>4, <2>5 DEF TaskDeclared
  <2> QED BY <2>2, <2>6, TasksGoOn
<1> QED BY <1>3, <1>4

\* A task puts its row.
LEMMA RowPut ==
    ASSUME TrackerInv, NEW t \in TaskIds, NEW row, tasks[t].steps # <<>>, Puts(t, row),
           RowDeclared(tasks[t].vacancy, row, confirmed),
           Head(tasks[t].steps) \in {"score", "status"} => Exists(row),
           confirmed' = confirmed
    PROVE  /\ TasksDeclared'
           /\ DOMAIN rows' = Tracked /\ \A v \in Tracked : RowDeclared(v, rows'[v], confirmed)
<1>1. TasksDeclared'
  BY StepDone DEF TrackerInv, Puts
<1>2. rows' = [rows EXCEPT ![tasks[t].vacancy] = row] /\ DOMAIN rows = Tracked
      /\ \A v \in Tracked : RowDeclared(v, rows[v], confirmed)
  BY DEF TrackerInv, RowsDeclared, Puts
<1> QED BY <1>1, <1>2

-----------------------------------------------------------------------------
(* The tasks that are started.                                             *)

\* What was declared stays so when more is said.
LEMMA SaidKeeps ==
    ASSUME TrackerInv, confirmed \subseteq confirmed'
    PROVE  /\ UNCHANGED <<rows, applications>> => RowsDeclared'
           /\ UNCHANGED badgeOf => BadgesDeclared'
           /\ UNCHANGED panel => PanelDeclared'
BY MoreIsSaid DEF TrackerInv, RowsDeclared, BadgesDeclared, PanelDeclared, RowDeclared,
   ApplicationDeclared

\* A task that starts with what is declared, without a word of "applied" unless it was said.
LEMMA TaskStarts ==
    ASSUME TrackerInv, NEW t \in TaskIds, NEW v \in Tracked, NEW s \in StepLists, NEW task,
           Starts(t, task), confirmed \subseteq confirmed', UNCHANGED <<rowVars, panel>>,
           DOMAIN task = DOMAIN NoTask, task.vacancy = v, task.steps = s, task.to \in Statuses,
           RowDeclared(v, task.row, confirmed), ApplicationDeclared(v, task.application, confirmed),
           s # <<>>, Head(s) = "badge" => Exists(task.row), Head(s) = "guided" => v \in confirmed',
           task.to = "applied" => s = <<"move">> /\ ~ task.read
    PROVE  TrackerInv'
<1>1. RowDeclared(v, task.row, confirmed') /\ ApplicationDeclared(v, task.application, confirmed')
  BY MoreIsSaid DEF RowDeclared, ApplicationDeclared
<1>2. TaskDeclared(task, confirmed')
  BY <1>1 DEF TaskDeclared
<1>3. TasksDeclared'
  BY <1>2, TasksGoOn DEF Starts, TrackerInv
<1> QED BY <1>3, SaidKeeps DEF TrackerInv, rowVars

LEMMA PageTasksKeepInv ==
    ASSUME TrackerInv, NEW t \in TaskIds, NEW v \in Tracked,
           \/ HandlePopupSave(t, v) \/ QuickSaveSearchCard(t, v) \/ QuickRejectSearchCard(t, v)
           \/ HandleReject(t, v) \/ HandleMoveJob(t, v)
    PROVE  TrackerInv'
<1> DEFINE Begun(task) == Starts(t, task) /\ UNCHANGED <<rowVars, panel, confirmed>>
<1>1. RowDeclared(v, NoRow, confirmed) /\ ApplicationDeclared(v, NoApplication, confirmed)
      /\ RowDeclared(v, rows[v], confirmed)
  BY NothingIsDeclared DEF TrackerInv, RowsDeclared
<1>2. ASSUME NEW profile, Begun([Steps(v, <<"save", "score">>) EXCEPT !.profile = profile])
      PROVE  TrackerInv'
  <2>1. PICK task : task = [Steps(v, <<"save", "score">>) EXCEPT !.profile = profile]
    OBVIOUS
  <2>2. /\ DOMAIN task = DOMAIN NoTask /\ task.vacancy = v /\ task.steps = <<"save", "score">>
        /\ task.to = "" /\ task.row = NoRow /\ task.application = NoApplication
    BY <2>1 DEF Steps, NoTask
  <2>3. <<"save", "score">> \in StepLists /\ Head(<<"save", "score">>) = "save"
    BY DEF StepLists
  <2> QED BY <1>1, <1>2, <2>1, <2>2, <2>3, TaskStarts, NoStatus
<1>3. ASSUME Exists(rows[v]), Begun([Steps(v, <<"badge">>) EXCEPT !.row = rows[v]])
      PROVE  TrackerInv'
  <2>1. PICK task : task = [Steps(v, <<"badge">>) EXCEPT !.row = rows[v]]
    OBVIOUS
  <2>2. /\ DOMAIN task = DOMAIN NoTask /\ task.vacancy = v /\ task.steps = <<"badge">>
        /\ task.to = "" /\ task.row = rows[v] /\ task.application = NoApplication
    BY <2>1 DEF Steps, NoTask
  <2>3. <<"badge">> \in StepLists /\ Head(<<"badge">>) = "badge"
    BY DEF StepLists
  <2> QED BY <1>1, <1>3, <2>1, <2>2, <2>3, TaskStarts, NoStatus
<1>4. ASSUME Begun(Steps(v, <<"save", "score", "badge">>)) PROVE TrackerInv'
  <2>1. PICK task : task = Steps(v, <<"save", "score", "badge">>)
    OBVIOUS
  <2>2. /\ DOMAIN task = DOMAIN NoTask /\ task.vacancy = v /\ task.steps = <<"save", "score", "badge">>
        /\ task.to = "" /\ task.row = NoRow /\ task.application = NoApplication
    BY <2>1 DEF Steps, NoTask
  <2>3. <<"save", "score", "badge">> \in StepLists /\ Head(<<"save", "score", "badge">>) = "save"
    BY DEF StepLists
  <2> QED BY <1>1, <1>4, <2>1, <2>2, <2>3, TaskStarts, NoStatus
<1>5. ASSUME NEW s \in {<<"status", "badge">>, <<"save", "status", "badge">>},
             Begun([Steps(v, s) EXCEPT !.to = "rejected_by_me"])
      PROVE  TrackerInv'
  <2>1. PICK task : task = [Steps(v, s) EXCEPT !.to = "rejected_by_me"]
    OBVIOUS
  <2>2. /\ DOMAIN task = DOMAIN NoTask /\ task.vacancy = v /\ task.steps = s
        /\ task.to = "rejected_by_me" /\ task.row = NoRow /\ task.application = NoApplication
    BY <2>1 DEF Steps, NoTask
  <2>3. /\ s \in StepLists /\ s # <<>> /\ Head(s) \in {"status", "save"}
        /\ "rejected_by_me" \in Statuses
    BY DEF StepLists, Statuses
  <2> QED BY <1>1, <1>5, <2>1, <2>2, <2>3, TaskStarts, NoStatus
<1>6. ASSUME NEW to \in MoveTargets, Begun([Steps(v, <<"move">>) EXCEPT !.to = to])
      PROVE  TrackerInv'
  <2>1. PICK task : task = [Steps(v, <<"move">>) EXCEPT !.to = to]
    OBVIOUS
  <2>2. /\ DOMAIN task = DOMAIN NoTask /\ task.vacancy = v /\ task.steps = <<"move">> /\ ~ task.read
        /\ task.to = to /\ task.row = NoRow /\ task.application = NoApplication
    BY <2>1 DEF Steps, NoTask
  <2>3. <<"move">> \in StepLists /\ Head(<<"move">>) = "move"
    BY DEF StepLists
  <2>4. to \in Statuses
    BY DEF Statuses
  <2> QED BY <1>1, <1>6, <2>1, <2>2, <2>3, <2>4, TaskStarts, NoStatus
<1>7. CASE HandlePopupSave(t, v)
  BY <1>2, <1>7 DEF HandlePopupSave
<1>8. CASE QuickSaveSearchCard(t, v)
  BY <1>3, <1>4, <1>8 DEF QuickSaveSearchCard
<1>9. CASE QuickRejectSearchCard(t, v)
  BY <1>3, <1>5, <1>9 DEF QuickRejectSearchCard, Reject
<1>10. CASE HandleReject(t, v)
  BY <1>5, <1>10 DEF HandleReject, Reject
<1>11. CASE HandleMoveJob(t, v)
  BY <1>6, <1>11 DEF HandleMoveJob
<1> QED BY <1>7, <1>8, <1>9, <1>10, <1>11

\* The panel starts a task with what it shows.
LEMMA PanelTasksKeepInv ==
    ASSUME TrackerInv, NEW t \in TaskIds,
           \/ Detect(t) \/ HandleSelectProfile(t) \/ HandleSelectResume(t) \/ PersistHrTimeline(t)
           \/ HandleMarkReplied(t) \/ HandleSaveFollowUp(t)
    PROVE  TrackerInv'
<1>1. PICK v \in Tracked : v = panel.vacancy
  BY DEF TrackerInv, PanelDeclared
<1>2. /\ RowDeclared(v, NoRow, confirmed) /\ ApplicationDeclared(v, NoApplication, confirmed)
      /\ RowDeclared(v, panel.row, confirmed) /\ ApplicationDeclared(v, panel.application, confirmed)
  BY <1>1, NothingIsDeclared DEF TrackerInv, PanelDeclared
<1>3. UNCHANGED <<rowVars, panel, confirmed>>
  BY DEF Detect, HandleSelectProfile, HandleSelectResume, PersistHrTimeline, HandleMarkReplied,
         HandleSaveFollowUp
<1>4. \A s : s \in {<<"save">>, <<"profile", "score">>, <<"resume">>, <<"application">>,
                   <<"replied">>, <<"notes">>}
        => s \in StepLists /\ s # <<>> /\ Head(s) \notin {"badge", "guided"}
  BY DEF StepLists
<1>5. ASSUME NEW s, NEW task, Starts(t, task), DOMAIN task = DOMAIN NoTask,
             s \in {<<"save">>, <<"profile", "score">>, <<"resume">>, <<"application">>,
                        <<"replied">>, <<"notes">>},
             task.vacancy = v, task.steps = s, task.to = "", task.row \in {NoRow, panel.row},
             task.application \in {NoApplication, panel.application}
      PROVE  TrackerInv'
  <2>1. s \in StepLists /\ s # <<>> /\ Head(s) \notin {"badge", "guided"}
    BY <1>4, <1>5
  <2> QED BY <1>2, <1>3, <1>5, <2>1, TaskStarts, NoStatus
<1>6. CASE Detect(t)
  <2>1. PICK task :
        /\ task = Steps(v, <<"save">>)
        /\ Starts(t, task)
    BY <1>1, <1>6 DEF Detect
  <2>2. /\ DOMAIN task = DOMAIN NoTask /\ task.vacancy = v /\ task.steps = <<"save">>
        /\ task.to = "" /\ task.row = NoRow /\ task.application = NoApplication
    BY <2>1 DEF Steps, NoTask
  <2>3. PICK s : s = <<"save">>
    OBVIOUS
  <2> QED BY <1>5, <2>1, <2>2, <2>3
<1>7. CASE HandleSelectProfile(t)
  <2>1. PICK profile, task :
        /\ task = [Steps(v, <<"profile", "score">>) EXCEPT
                      !.read = TRUE, !.row = panel.row, !.profile = profile]
        /\ Starts(t, task)
    BY <1>1, <1>7 DEF HandleSelectProfile
  <2>2. /\ DOMAIN task = DOMAIN NoTask /\ task.vacancy = v /\ task.steps = <<"profile", "score">>
        /\ task.to = "" /\ task.row = panel.row /\ task.application = NoApplication
    BY <2>1 DEF Steps, NoTask
  <2>3. PICK s : s = <<"profile", "score">>
    OBVIOUS
  <2> QED BY <1>5, <2>1, <2>2, <2>3
<1>8. CASE HandleSelectResume(t)
  <2>1. PICK task :
        /\ task = [Steps(v, <<"resume">>) EXCEPT !.read = TRUE, !.row = panel.row]
        /\ Starts(t, task)
    BY <1>1, <1>8 DEF HandleSelectResume
  <2>2. /\ DOMAIN task = DOMAIN NoTask /\ task.vacancy = v /\ task.steps = <<"resume">>
        /\ task.to = "" /\ task.row = panel.row /\ task.application = NoApplication
    BY <2>1 DEF Steps, NoTask
  <2>3. PICK s : s = <<"resume">>
    OBVIOUS
  <2> QED BY <1>5, <2>1, <2>2, <2>3
<1>9. CASE PersistHrTimeline(t)
  <2>1. PICK task :
        /\ task = [Steps(v, <<"application">>) EXCEPT !.row = panel.row]
        /\ Starts(t, task)
    BY <1>1, <1>9 DEF PersistHrTimeline
  <2>2. /\ DOMAIN task = DOMAIN NoTask /\ task.vacancy = v /\ task.steps = <<"application">>
        /\ task.to = "" /\ task.row = panel.row /\ task.application = NoApplication
    BY <2>1 DEF Steps, NoTask
  <2>3. PICK s : s = <<"application">>
    OBVIOUS
  <2> QED BY <1>5, <2>1, <2>2, <2>3
<1>10. CASE HandleMarkReplied(t)
  <2>1. PICK task :
        /\ task = [Steps(v, <<"replied">>) EXCEPT !.read = TRUE,
                      !.row = panel.row, !.application = panel.application]
        /\ Starts(t, task)
    BY <1>1, <1>10 DEF HandleMarkReplied
  <2>2. /\ DOMAIN task = DOMAIN NoTask /\ task.vacancy = v /\ task.steps = <<"replied">>
        /\ task.to = "" /\ task.row = panel.row /\ task.application = panel.application
    BY <2>1 DEF Steps, NoTask
  <2>3. PICK s : s = <<"replied">>
    OBVIOUS
  <2> QED BY <1>5, <2>1, <2>2, <2>3
<1>11. CASE HandleSaveFollowUp(t)
  <2>1. PICK task :
        /\ task = [Steps(v, <<"notes">>) EXCEPT !.read = TRUE,
                      !.application = panel.application]
        /\ Starts(t, task)
    BY <1>1, <1>11 DEF HandleSaveFollowUp
  <2>2. /\ DOMAIN task = DOMAIN NoTask /\ task.vacancy = v /\ task.steps = <<"notes">>
        /\ task.to = "" /\ task.row = NoRow /\ task.application = panel.application
    BY <2>1 DEF Steps, NoTask
  <2>3. PICK s : s = <<"notes">>
    OBVIOUS
  <2> QED BY <1>5, <2>1, <2>2, <2>3
<1> QED BY <1>6, <1>7, <1>8, <1>9, <1>10, <1>11

\* The user says that the application was sent; or the checklist is gone through.
LEMMA GuidedKeepsInv ==
    ASSUME TrackerInv,
           \/ \E t \in TaskIds : HandleMarkApplied(t)
           \/ HandleToggleStep \/ HandleCopyLetter \/ RefreshPanel \/ SwitchSettings
    PROVE  TrackerInv'
<1>1. ASSUME NEW t \in TaskIds, HandleMarkApplied(t) PROVE TrackerInv'
  <2>1. PICK v \in Tracked : v = panel.vacancy
    BY DEF TrackerInv, PanelDeclared
  <2>2. PICK task : task = Steps(v, <<"guided", "application">>)
    OBVIOUS
  <2>3. /\ RowDeclared(v, NoRow, confirmed) /\ ApplicationDeclared(v, NoApplication, confirmed)
        /\ <<"guided", "application">> \in StepLists
        /\ <<"guided", "application">> # <<>> /\ Head(<<"guided", "application">>) = "guided"
    BY NothingIsDeclared DEF StepLists
  <2>4. /\ DOMAIN task = DOMAIN NoTask /\ task.vacancy = v /\ task.to = ""
        /\ task.steps = <<"guided", "application">>
        /\ task.row = NoRow /\ task.application = NoApplication
    BY <2>2 DEF Steps, NoTask
  <2>5. /\ Starts(t, task) /\ confirmed' = confirmed \cup {v}
        /\ UNCHANGED <<rowVars, panel>>
    BY <1>1, <2>1, <2>2 DEF HandleMarkApplied
  <2> QED BY <2>3, <2>4, <2>5, TaskStarts, NoStatus
<1>2. ASSUME HandleToggleStep \/ HandleCopyLetter \/ RefreshPanel \/ SwitchSettings
      PROVE  TrackerInv'
  <2>1. UNCHANGED <<rowVars, tasks, confirmed>>
    BY <1>2 DEF HandleToggleStep, HandleCopyLetter, RefreshPanel, SwitchSettings
  <2>2. RowsDeclared' /\ BadgesDeclared' /\ (UNCHANGED panel => PanelDeclared')
    BY <2>1, SaidKeeps DEF rowVars
  <2>3. TasksDeclared'
    BY <2>1 DEF TrackerInv, TasksDeclared
  <2>4. PanelDeclared'
    <3>1. CASE HandleToggleStep
      BY <2>1, <3>1 DEF HandleToggleStep, TrackerInv, PanelDeclared
    <3>2. CASE RefreshPanel
      BY <2>1, <3>2 DEF RefreshPanel, TrackerInv, PanelDeclared, RowsDeclared
    <3> QED BY <1>2, <2>2, <3>1, <3>2 DEF HandleCopyLetter, SwitchSettings
  <2> QED BY <2>2, <2>3, <2>4 DEF TrackerInv
<1> QED BY <1>1, <1>2

-----------------------------------------------------------------------------
(* The steps of the tasks.                                                 *)

LEMMA ReadKeepsInv ==
    ASSUME TrackerInv, NEW t \in TaskIds, Read(t) \/ GiveUp(t)
    PROVE  TrackerInv'
<1>1. UNCHANGED <<rowVars, panel>> /\ confirmed \subseteq confirmed'
  BY DEF Read, GiveUp
<1>2. CASE Read(t)
  <2>1. PICK task, v : task = tasks[t] /\ v = task.vacancy
    OBVIOUS
  <2>2. /\ TaskDeclared(task, confirmed) /\ task.steps # <<>> /\ v \in Tracked
        /\ DOMAIN task = {"vacancy", "steps", "read", "row", "application", "to", "profile"}
        /\ task.steps \in StepLists
    BY <1>2, <2>1, TaskFields DEF Read, TrackerInv
  <2>3. PICK next : next = tasks'[t]
    OBVIOUS
  <2>4. /\ DOMAIN tasks' = TaskIds /\ \A u \in TaskIds \ {t} : tasks'[u] = tasks[u]
        /\ DOMAIN next = DOMAIN task /\ next.steps = task.steps /\ next.to = task.to
        /\ next.vacancy = v /\ next.row \in {task.row, rows[v]} /\ next.application = applications[v]
    BY <1>2, <2>1, <2>2, <2>3 DEF Read, TrackerInv, TasksDeclared
  <2>5. /\ Head(task.steps) # "badge"
        /\ task.to = "applied" /\ Head(task.steps) = "move" => v \in confirmed'
    BY <1>2, <2>1, <2>2 DEF Read, Is
  <2>6. RowDeclared(v, next.row, confirmed) /\ ApplicationDeclared(v, next.application, confirmed)
    BY <2>1, <2>2, <2>4 DEF TrackerInv, RowsDeclared, TaskDeclared
  <2>7. RowDeclared(v, next.row, confirmed') /\ ApplicationDeclared(v, next.application, confirmed')
    BY <1>1, <2>6, MoreIsSaid DEF RowDeclared, ApplicationDeclared
  <2>8. Head(<<"move">>) = "move"
    OBVIOUS
  <2>9. TaskDeclared(next, confirmed')
    BY <1>1, <2>1, <2>2, <2>4, <2>5, <2>7, <2>8 DEF TaskDeclared
  <2>10. TasksDeclared'
    BY <1>1, <2>3, <2>4, <2>9, OneGoesOn DEF TrackerInv
  <2> QED BY <1>1, <2>10, SaidKeeps DEF TrackerInv, rowVars
<1>3. CASE GiveUp(t)
  <2>1. TasksDeclared'
    BY <1>1, <1>3, NothingIsDeclared, TasksGoOn DEF GiveUp, TrackerInv
  <2> QED BY <1>1, <2>1, SaidKeeps DEF TrackerInv, rowVars
<1> QED BY <1>2, <1>3

\* What the step of a task has to write.
LEMMA TaskAtStep ==
    ASSUME TrackerInv, NEW t \in TaskIds, tasks[t].steps # <<>>
    PROVE  /\ tasks[t].vacancy \in Tracked
           /\ RowDeclared(tasks[t].vacancy, tasks[t].row, confirmed)
           /\ ApplicationDeclared(tasks[t].vacancy, tasks[t].application, confirmed)
           /\ Is(t, "badge") => Exists(tasks[t].row)
           /\ Is(t, "guided") => tasks[t].vacancy \in confirmed
           /\ tasks[t].to \in Statuses
           /\ Is(t, "status") => tasks[t].to # "applied"
           /\ Is(t, "move") /\ tasks[t].read /\ tasks[t].to = "applied" => tasks[t].vacancy \in confirmed
<1>1. PICK task : task = tasks[t]
  OBVIOUS
<1>2. TaskDeclared(task, confirmed) /\ task.steps # <<>> /\ task.steps \in StepLists
  BY <1>1 DEF TrackerInv, TasksDeclared, TaskDeclared
<1>3. Head(<<"move">>) = "move"
  OBVIOUS
<1>4. Head(task.steps) = "status" => task.to # "applied"
  BY <1>2, <1>3 DEF TaskDeclared
<1> QED BY <1>1, <1>2, <1>4 DEF TaskDeclared, Is

\* A task puts the row of its vacancy, and nothing else that says of it.
LEMMA PutKeepsInv ==
    ASSUME TrackerInv, NEW t \in TaskIds, NEW row, tasks[t].steps # <<>>, Puts(t, row),
           RowDeclared(tasks[t].vacancy, row, confirmed),
           Head(tasks[t].steps) \in {"score", "status"} => Exists(row), confirmed' = confirmed
    PROVE  /\ UNCHANGED <<applications, badgeOf, panel>> => TrackerInv'
           /\ UNCHANGED applications => RowsDeclared'
<1>1. /\ TasksDeclared' /\ DOMAIN rows' = Tracked
      /\ \A v \in Tracked : RowDeclared(v, rows'[v], confirmed)
  BY RowPut
<1>2. UNCHANGED applications => RowsDeclared'
  BY <1>1 DEF TrackerInv, RowsDeclared
<1> QED BY <1>1, <1>2, SaidKeeps DEF TrackerInv

LEMMA SaveKeepsInv ==
    ASSUME TrackerInv, NEW t \in TaskIds, WriteSave(t) \/ WriteSelection(t)
    PROVE  TrackerInv'
<1>1. tasks[t].steps # <<>> /\ UNCHANGED <<applications, badgeOf, panel, confirmed>>
  BY DEF WriteSave, WriteSelection, Has, Is
<1>2. PICK row : row = tasks[t].row
  OBVIOUS
<1>3. RowDeclared(tasks[t].vacancy, row, confirmed) /\ DOMAIN row = DOMAIN NoRow
  BY <1>1, <1>2, TaskAtStep DEF RowDeclared
<1>4. PICK put : /\ Puts(t, put) /\ Head(tasks[t].steps) \in {"save", "profile", "resume"}
                 /\ put = NewRow \/ (DOMAIN put = DOMAIN NoRow /\ put.history = row.history)
  <2>1. CASE WriteSave(t)
    BY <1>2, <1>3, <2>1 DEF WriteSave, Has, Is
  <2>2. CASE Has(t, "profile") /\ Puts(t, [row EXCEPT !.profile = tasks[t].profile, !.resume = FALSE])
    <3>1. PICK put : put = [row EXCEPT !.profile = tasks[t].profile, !.resume = FALSE]
      OBVIOUS
    <3>2. DOMAIN put = DOMAIN NoRow /\ put.history = row.history
      BY <1>3, <3>1
    <3> QED BY <2>2, <3>1, <3>2 DEF Has, Is
  <2>3. CASE Has(t, "resume") /\ Puts(t, [row EXCEPT !.resume = TRUE])
    <3>1. PICK put : put = [row EXCEPT !.resume = TRUE]
      OBVIOUS
    <3>2. DOMAIN put = DOMAIN NoRow /\ put.history = row.history
      BY <1>3, <3>1
    <3> QED BY <2>3, <3>1, <3>2 DEF Has, Is
  <2> QED BY <1>2, <2>1, <2>2, <2>3 DEF WriteSelection
<1>5. RowDeclared(tasks[t].vacancy, put, confirmed)
  BY <1>3, <1>4, NothingIsDeclared DEF RowDeclared
<1> QED BY <1>1, <1>4, <1>5, PutKeepsInv

LEMMA ScoreKeepsInv ==
    ASSUME TrackerInv, NEW t \in TaskIds, WriteScore(t)
    PROVE  TrackerInv'
<1>1. /\ tasks[t].steps # <<>> /\ UNCHANGED <<applications, panel, confirmed>>
  BY DEF WriteScore, Has, Is
<1>2. PICK row, v : row = tasks[t].row /\ v = tasks[t].vacancy
  OBVIOUS
<1>3. RowDeclared(v, row, confirmed) /\ DOMAIN row = DOMAIN NoRow /\ v \in Tracked
  BY <1>1, <1>2, TaskAtStep DEF RowDeclared
<1>4. \/ \E profile : LET scored == [row EXCEPT !.profile = profile, !.scored = profile] IN
           /\ Exists(row) /\ Puts(t, scored) /\ badgeOf' = [badgeOf EXCEPT ![v] = BadgeState(scored)]
      \/ /\ Done(t, IF Exists(row) THEN row ELSE NewRow) /\ UNCHANGED <<rows, badgeOf>>
  BY <1>2 DEF WriteScore
<1>5. ASSUME NEW profile, NEW scored,
             scored = [row EXCEPT !.profile = profile, !.scored = profile],
             Exists(row), Puts(t, scored), badgeOf' = [badgeOf EXCEPT ![v] = BadgeState(scored)]
      PROVE  TrackerInv'
  <2>1. DOMAIN scored = DOMAIN NoRow /\ scored.history = row.history
    BY <1>3, <1>5, TrackerFields
  <2>2. RowDeclared(v, scored, confirmed) /\ Exists(scored)
    BY <1>3, <1>5, <2>1 DEF RowDeclared, Exists
  <2>3. RowsDeclared'
    BY <1>1, <1>2, <1>5, <2>2, PutKeepsInv
  <2>4. TasksDeclared'
    BY <1>1, <1>2, <1>5, <2>2, RowPut
  <2>5. BadgesDeclared'
    BY <1>1, <1>3, <1>5, <2>2, LastIsDeclared DEF TrackerInv, BadgesDeclared
  <2> QED BY <1>1, <2>3, <2>4, <2>5, SaidKeeps DEF TrackerInv
<1>6. ASSUME Done(t, IF Exists(row) THEN row ELSE NewRow), UNCHANGED <<rows, badgeOf>>
      PROVE  TrackerInv'
  <2>1. PICK next : next = IF Exists(row) THEN row ELSE NewRow
    OBVIOUS
  <2>2. NewRow.history # <<>>
    <3>1. \A a : <<a>> # <<>>
      <4> SUFFICES ASSUME NEW a PROVE <<a>> # <<>>
        OBVIOUS
      <4>1. DOMAIN <<a>> = 1..1 /\ DOMAIN <<>> = {}
        OBVIOUS
      <4>2. 1 \in 1..1
        OBVIOUS
      <4> QED BY <4>1, <4>2
    <3>2. NewRow.history = <<"saved">>
      BY TrackerFields
    <3> QED BY <3>1, <3>2
  <2>3. RowDeclared(v, next, confirmed) /\ Exists(next)
    BY <1>3, <2>1, <2>2, NothingIsDeclared DEF Exists
  <2>4. TasksDeclared'
    BY <1>1, <1>2, <1>6, <2>1, <2>3, StepDone DEF TrackerInv
  <2> QED BY <1>1, <1>6, <2>4, SaidKeeps DEF TrackerInv
<1> QED BY <1>4, <1>5, <1>6

LEMMA StatusKeepsInv ==
    ASSUME TrackerInv, NEW t \in TaskIds, WriteStatus(t) \/ WriteMove(t)
    PROVE  TrackerInv'
<1>1. /\ tasks[t].steps # <<>> /\ UNCHANGED <<applications, badgeOf, panel, confirmed>>
      /\ tasks[t].read /\ (Is(t, "status") \/ Is(t, "move"))
  BY DEF WriteStatus, WriteMove, Has, Is
<1>2. PICK row, v, to : row = tasks[t].row /\ v = tasks[t].vacancy /\ to = tasks[t].to
  OBVIOUS
<1>3. /\ RowDeclared(v, row, confirmed) /\ v \in Tracked
      /\ to \in Statuses /\ (to = "applied" => v \in confirmed)
  BY <1>1, <1>2, TaskAtStep
<1>4. ASSUME Puts(t, WithStatus(row, to)) PROVE TrackerInv'
  <2>1. PICK put : put = WithStatus(row, to)
    OBVIOUS
  <2>2. RowDeclared(v, put, confirmed) /\ Exists(put)
    BY <1>3, <2>1, RowMoved
  <2> QED BY <1>1, <1>2, <1>4, <2>1, <2>2, PutKeepsInv
<1>5. ASSUME UNCHANGED rows, tasks' = [tasks EXCEPT ![t] = NoTask] PROVE TrackerInv'
  <2>1. TasksDeclared'
    BY <1>1, <1>5, NothingIsDeclared, TasksGoOn DEF TrackerInv
  <2> QED BY <1>1, <1>5, <2>1, SaidKeeps DEF TrackerInv
<1>6. ASSUME Is(t, "status"), UNCHANGED rows,
             tasks' = [tasks EXCEPT ![t].steps = <<"save">> \o @, ![t].read = FALSE]
      PROVE  TrackerInv'
  <2>1. PICK task, next : task = tasks[t] /\ next = tasks'[t]
    OBVIOUS
  <2>2. /\ TaskDeclared(task, confirmed) /\ task.steps \in StepLists /\ task.steps # <<>>
        /\ DOMAIN task = {"vacancy", "steps", "read", "row", "application", "to", "profile"}
    BY <1>1, <2>1, TaskFields DEF TrackerInv
  <2>3. task.steps = <<"status", "badge">>
    BY <1>6, <2>1, <2>2, StepsGoOn DEF Is
  <2>4. <<"save">> \o <<"status", "badge">> = <<"save", "status", "badge">>
    BY SaveFirst
  <2>5. /\ DOMAIN tasks' = TaskIds /\ \A u \in TaskIds \ {t} : tasks'[u] = tasks[u]
        /\ DOMAIN next = DOMAIN task /\ next.steps = <<"save">> \o task.steps /\ next.read = FALSE
        /\ next.to = to /\ next.vacancy = v /\ next.row = row /\ next.application = task.application
    BY <1>2, <1>6, <2>1, <2>2 DEF TrackerInv, TasksDeclared
  <2>6. next.steps = <<"save", "status", "badge">>
    BY <2>3, <2>4, <2>5
  <2>7. next.steps \in StepLists /\ Head(next.steps) = "save"
    BY <2>6 DEF StepLists
  <2>8. to # "applied"
    BY <1>1, <1>2, <1>6, TaskAtStep
  <2>9. TaskDeclared(next, confirmed)
    BY <1>2, <1>3, <2>1, <2>2, <2>5, <2>7, <2>8 DEF TaskDeclared
  <2>10. TasksDeclared'
    BY <1>1, <2>1, <2>5, <2>9, OneGoesOn DEF TrackerInv
  <2> QED BY <1>1, <1>6, <2>10, SaidKeeps DEF TrackerInv
<1>7. CASE WriteStatus(t)
  BY <1>2, <1>4, <1>5, <1>6, <1>7 DEF WriteStatus, Has
<1>8. CASE WriteMove(t)
  <2>1. CASE Exists(tasks[t].row)
    BY <1>2, <1>4, <1>8, <2>1 DEF WriteMove
  <2>2. CASE ~ Exists(tasks[t].row)
    <3>1. Done(t, NoRow) /\ UNCHANGED rows /\ Head(tasks[t].steps) = "move"
      BY <1>8, <2>2 DEF WriteMove, Has, Is
    <3>2. TasksDeclared'
      BY <1>1, <3>1, NothingIsDeclared, StepDone DEF TrackerInv
    <3> QED BY <1>1, <3>1, <3>2, SaidKeeps DEF TrackerInv
  <2> QED BY <2>1, <2>2
<1> QED BY <1>7, <1>8

\* The badge shows the status of the row that was put.
LEMMA BadgeKeepsInv ==
    ASSUME TrackerInv, NEW t \in TaskIds, PersistBadgeState(t)
    PROVE  TrackerInv'
<1>1. /\ tasks[t].steps # <<>> /\ UNCHANGED <<rows, applications, panel, confirmed>>
      /\ Is(t, "badge")
  BY DEF PersistBadgeState, Is
<1>2. PICK row, v : row = tasks[t].row /\ v = tasks[t].vacancy
  OBVIOUS
<1>3. RowDeclared(v, row, confirmed) /\ v \in Tracked /\ Exists(row)
  BY <1>1, <1>2, TaskAtStep
<1>4. BadgesDeclared'
  BY <1>1, <1>2, <1>3, LastIsDeclared DEF PersistBadgeState, TrackerInv, BadgesDeclared
<1>5. TasksDeclared'
  BY <1>1, <1>2, <1>3, StepDone DEF PersistBadgeState, TrackerInv
<1> QED BY <1>1, <1>4, <1>5, SaidKeeps DEF TrackerInv

\* The status is "applied" only of a vacancy of which the user said so.
LEMMA ConfirmedKeepsInv ==
    ASSUME TrackerInv, NEW t \in TaskIds, WriteGuided(t)
    PROVE  TrackerInv'
<1>1. /\ tasks[t].steps # <<>> /\ UNCHANGED <<applications, badgeOf, confirmed>>
      /\ Is(t, "guided") /\ Head(tasks[t].steps) = "guided"
  BY DEF WriteGuided, Has, Is
<1>2. PICK row, v : row = tasks[t].row /\ v = tasks[t].vacancy
  OBVIOUS
<1>3. RowDeclared(v, row, confirmed) /\ v \in Tracked /\ v \in confirmed
  BY <1>1, <1>2, TaskAtStep
<1>4. PanelDeclared'
  BY <1>1 DEF WriteGuided, TrackerInv, PanelDeclared
<1>5. ASSUME Puts(t, WithStatus(row, "applied")) PROVE RowsDeclared' /\ TasksDeclared'
  <2>1. PICK put : put = WithStatus(row, "applied")
    OBVIOUS
  <2>2. "applied" \in Statuses
    BY DEF Statuses
  <2>3. RowDeclared(v, put, confirmed) /\ Exists(put)
    BY <1>3, <2>1, <2>2, RowMoved
  <2> QED BY <1>1, <1>2, <1>5, <2>1, <2>3, PutKeepsInv, RowPut
<1>6. ASSUME UNCHANGED rows, tasks' = [tasks EXCEPT ![t] = NoTask]
      PROVE  RowsDeclared' /\ TasksDeclared'
  BY <1>1, <1>6, NothingIsDeclared, TasksGoOn, SaidKeeps DEF TrackerInv
<1>7. RowsDeclared' /\ TasksDeclared'
  BY <1>2, <1>5, <1>6 DEF WriteGuided
<1> QED BY <1>1, <1>4, <1>7, SaidKeeps DEF TrackerInv

\* An application follows from a row, or keeps what it has.
LEMMA ApplicationKeepsInv ==
    ASSUME TrackerInv, NEW t \in TaskIds, WriteApplication(t) \/ WriteReplied(t) \/ WriteNotes(t)
    PROVE  TrackerInv'
<1>1. /\ tasks[t].steps # <<>> /\ UNCHANGED <<badgeOf, panel, confirmed>>
      /\ Head(tasks[t].steps) \in {"application", "replied", "notes"}
  BY DEF WriteApplication, WriteReplied, WriteNotes, Has, Is
<1>2. PICK row, application, v :
        row = tasks[t].row /\ application = tasks[t].application /\ v = tasks[t].vacancy
  OBVIOUS
<1>3. /\ RowDeclared(v, row, confirmed) /\ ApplicationDeclared(v, application, confirmed)
      /\ v \in Tracked /\ "hr_replied" \in Statuses
  BY <1>1, <1>2, TaskAtStep DEF Statuses
<1>4. PICK put : applications' = [applications EXCEPT ![v] = put]
                 /\ ApplicationDeclared(v, put, confirmed)
  <2>1. CASE WriteApplication(t)
    <3>1. PICK put : put = UpsertedApplication(row, application)
      OBVIOUS
    <3>2. /\ DOMAIN put = DOMAIN application
          /\ put.history = IF application.history # <<>> THEN application.history ELSE row.history
      BY <1>3, <3>1, TrackerFields DEF UpsertedApplication, ApplicationDeclared
    <3>3. ApplicationDeclared(v, put, confirmed)
      BY <1>3, <3>2 DEF ApplicationDeclared, RowDeclared
    <3> QED BY <1>2, <2>1, <3>1, <3>3 DEF WriteApplication
  <2>2. CASE WriteReplied(t)
    <3>1. PICK put : put = WithStatus(application, "hr_replied")
      OBVIOUS
    <3>2. ApplicationDeclared(v, put, confirmed)
      BY <1>3, <3>1, ApplicationMoved
    <3> QED BY <1>2, <2>2, <3>1, <3>2 DEF WriteReplied
  <2>3. CASE WriteNotes(t)
    <3>1. PICK put : put = [application EXCEPT !.notes = TRUE]
      OBVIOUS
    <3>2. DOMAIN put = DOMAIN application /\ put.history = application.history
      BY <1>3, <3>1, TrackerFields DEF ApplicationDeclared
    <3>3. ApplicationDeclared(v, put, confirmed)
      BY <1>3, <3>2 DEF ApplicationDeclared
    <3> QED BY <1>2, <2>3, <3>1, <3>3 DEF WriteNotes
  <2> QED BY <2>1, <2>2, <2>3
<1>5. /\ TasksDeclared' /\ DOMAIN rows' = Tracked
      /\ \A u \in Tracked : RowDeclared(u, rows'[u], confirmed)
  <2>1. ASSUME NEW next, Done(t, next), next \in {row, NoRow}, UNCHANGED rows
        PROVE  /\ TasksDeclared' /\ DOMAIN rows' = Tracked
               /\ \A u \in Tracked : RowDeclared(u, rows'[u], confirmed)
    BY <1>1, <1>2, <1>3, <2>1, NothingIsDeclared, StepDone DEF TrackerInv, RowsDeclared
  <2>2. CASE WriteReplied(t)
    <3>1. PICK moved : moved = WithStatus(row, "hr_replied")
      OBVIOUS
    <3>2. RowDeclared(v, moved, confirmed)
      BY <1>3, <3>1, RowMoved
    <3> QED BY <1>1, <1>2, <2>2, <3>1, <3>2, RowPut DEF WriteReplied
  <2> QED BY <1>2, <2>1, <2>2 DEF WriteApplication, WriteNotes
<1>6. RowsDeclared'
  BY <1>1, <1>4, <1>5 DEF TrackerInv, RowsDeclared
<1> QED BY <1>1, <1>5, <1>6, SaidKeeps DEF TrackerInv

-----------------------------------------------------------------------------
(* The deletion of a job, and the first state.                             *)

LEMMA DeletionKeepsInv ==
    ASSUME TrackerInv, NEW v \in Tracked, DeleteJobData(v) \/ RemoveBadgeState(v)
    PROVE  TrackerInv'
<1>1. UNCHANGED <<tasks, panel, confirmed>>
  BY DEF DeleteJobData, RemoveBadgeState
<1>2. TasksDeclared'
  BY <1>1 DEF TrackerInv, TasksDeclared
<1>3. RowsDeclared'
  <2>1. /\ rows' = rows \/ rows' = [rows EXCEPT ![v] = NoRow]
        /\ applications' = applications \/ applications' = [applications EXCEPT ![v] = NoApplication]
    BY DEF DeleteJobData, RemoveBadgeState
  <2> QED BY <1>1, <2>1, NothingIsDeclared DEF TrackerInv, RowsDeclared
<1>4. BadgesDeclared'
  <2>1. badgeOf' = badgeOf \/ badgeOf' = [badgeOf EXCEPT ![v] = NotShown]
    BY DEF DeleteJobData, RemoveBadgeState
  <2> QED BY <1>1, <2>1, TrackerFields DEF TrackerInv, BadgesDeclared
<1> QED BY <1>1, <1>2, <1>3, <1>4, SaidKeeps DEF TrackerInv

LEMMA InitTrackerInv ==
    ASSUME TrackerInit
    PROVE  TrackerInv
<1>1. RowsDeclared
  BY NothingIsDeclared DEF TrackerInit, RowsDeclared
<1>2. BadgesDeclared
  BY TrackerFields DEF TrackerInit, BadgesDeclared
<1>3. TasksDeclared
  BY NothingIsDeclared DEF TrackerInit, TasksDeclared
<1>4. PanelDeclared
  BY NothingIsDeclared DEF TrackerInit, PanelDeclared
<1> QED BY <1>1, <1>2, <1>3, <1>4 DEF TrackerInv

LEMMA InvDeclares ==
    ASSUME TrackerInv
    PROVE  AppliedWasDeclared
<1> SUFFICES ASSUME NEW v \in Tracked, v \notin confirmed
             PROVE  \A h \in {rows[v].history, applications[v].history, <<badgeOf[v].status>>} :
                       "applied" \notin {h[i] : i \in DOMAIN h}
  BY DEF AppliedWasDeclared
<1>1. /\ \A i \in DOMAIN rows[v].history : rows[v].history[i] # "applied"
      /\ \A i \in DOMAIN applications[v].history : applications[v].history[i] # "applied"
  BY DEF TrackerInv, RowsDeclared, RowDeclared, ApplicationDeclared, Declared
<1>2. PICK status : status = badgeOf[v].status
  OBVIOUS
<1>3. status # "applied"
  BY <1>2 DEF TrackerInv, BadgesDeclared
<1>4. \A i \in DOMAIN <<status>> : <<status>>[i] # "applied"
  BY <1>3
<1> QED BY <1>1, <1>2, <1>4

\* Nothing stored says "applied" of a vacancy unless the user has said so of it.
THEOREM OnlyTheUserApplies == TrackerSpec => []AppliedWasDeclared
<1>1. TrackerInit => TrackerInv
  BY InitTrackerInv
<1>2. TrackerInv /\ [TrackerNext]_trackerVars => TrackerInv'
  <2> SUFFICES ASSUME TrackerInv, [TrackerNext]_trackerVars PROVE TrackerInv'
    OBVIOUS
  <2>1. CASE UNCHANGED trackerVars
    <3>1. UNCHANGED <<rows, applications, badgeOf, tasks, panel, confirmed>>
      BY <2>1 DEF trackerVars, rowVars
    <3> QED BY <3>1 DEF TrackerInv, RowsDeclared, BadgesDeclared, TasksDeclared, PanelDeclared
  <2>2. CASE TrackerNext
    <3>1. ASSUME NEW t \in TaskIds, NEW v \in Tracked,
                 \/ HandlePopupSave(t, v) \/ QuickSaveSearchCard(t, v) \/ QuickRejectSearchCard(t, v)
                 \/ HandleReject(t, v) \/ HandleMoveJob(t, v)
          PROVE  TrackerInv'
      BY <3>1, PageTasksKeepInv
    <3>2. ASSUME NEW t \in TaskIds,
                 \/ Detect(t) \/ HandleSelectProfile(t) \/ HandleSelectResume(t)
                 \/ PersistHrTimeline(t) \/ HandleMarkReplied(t) \/ HandleSaveFollowUp(t)
          PROVE  TrackerInv'
      BY <3>2, PanelTasksKeepInv
    <3>3. ASSUME NEW t \in TaskIds,
                 \/ Read(t) \/ GiveUp(t) \/ WriteSave(t) \/ WriteScore(t) \/ WriteStatus(t)
                 \/ PersistBadgeState(t) \/ WriteMove(t) \/ WriteSelection(t) \/ WriteGuided(t)
                 \/ WriteApplication(t) \/ WriteReplied(t) \/ WriteNotes(t)
          PROVE  TrackerInv'
      BY <3>3, ReadKeepsInv, SaveKeepsInv, ScoreKeepsInv, StatusKeepsInv, BadgeKeepsInv,
         ConfirmedKeepsInv, ApplicationKeepsInv
    <3>4. ASSUME NEW v \in Tracked, DeleteJobData(v) \/ RemoveBadgeState(v) PROVE TrackerInv'
      BY <3>4, DeletionKeepsInv
    <3> QED BY <2>2, <3>1, <3>2, <3>3, <3>4, GuidedKeepsInv DEF TrackerNext
  <2> QED BY <2>1, <2>2
<1>3. TrackerInv => AppliedWasDeclared
  BY InvDeclares
<1> QED BY <1>1, <1>2, <1>3, PTL DEF TrackerSpec

-----------------------------------------------------------------------------
(* The badges of the search page.                                          *)

BadgesSpec == BadgesInit /\ [][BadgesNext]_badgeVars

IsList(s) == s \in Seq({s[i] : i \in DOMAIN s})

\* A reader has not seen more changes than there were.
Seen(reading, n) == reading.asOf \in Int /\ reading.asOf <= n

RendersSeen ==
    /\ IsList(renders) /\ renderGeneration = Len(renders)
    /\ \A g \in DOMAIN renders : DOMAIN renders[g] = DOMAIN Idle /\ Seen(renders[g], changes)

BadgesSeen == DOMAIN badges = Cards /\ \A v \in Cards : Seen(badges[v], changes)

\* The badges are older than the newest render, so what it has read is not
\* older than what they show; no other render puts a badge.
NewestIsFresh ==
    \A g \in DOMAIN renders, v \in Cards :
      IsLatest(g) /\ renders[g].answered /\ badges[v].answered
        => renders[g].asOf >= badges[v].asOf

BadgesInv == changes \in Nat /\ RendersSeen /\ BadgesSeen /\ NewestIsFresh

\* Of the elements of a sequence it is a list.
LEMMA ListOfElements ==
    ASSUME NEW S, NEW s \in Seq(S)
    PROVE  IsList(s)
<1>1. s \in [1 .. Len(s) -> S] /\ DOMAIN s = 1 .. Len(s) /\ Len(s) \in Nat
  BY LenProperties
<1>2. s \in [1 .. Len(s) -> {s[i] : i \in DOMAIN s}]
  BY <1>1
<1> QED BY <1>1, <1>2, SeqDef DEF IsList

LEMMA ListAppended ==
    ASSUME NEW s, IsList(s), NEW e
    PROVE  /\ IsList(Append(s, e)) /\ Len(Append(s, e)) = Len(s) + 1 /\ Len(s) \in Nat
           /\ DOMAIN s = 1 .. Len(s) /\ DOMAIN Append(s, e) = 1 .. Len(s) + 1
           /\ \A i \in DOMAIN s : Append(s, e)[i] = s[i]
           /\ Append(s, e)[Len(s) + 1] = e
<1> DEFINE S == {s[i] : i \in DOMAIN s} \cup {e}
<1>1. s \in Seq(S) /\ e \in S
  BY SeqDef DEF IsList
<1> HIDE DEF S
<1>2. Append(s, e) \in Seq(S)
  BY <1>1, AppendProperties
<1>3. /\ Len(Append(s, e)) = Len(s) + 1
      /\ \A i \in 1 .. Len(s) : Append(s, e)[i] = s[i]
      /\ Append(s, e)[Len(s) + 1] = e
  BY <1>1, AppendProperties
<1>4. DOMAIN s = 1 .. Len(s) /\ Len(s) \in Nat /\ DOMAIN Append(s, e) = 1 .. Len(Append(s, e))
  BY <1>1, <1>2, LenProperties
<1> QED BY <1>2, <1>3, <1>4, ListOfElements

LEMMA ListReplaced ==
    ASSUME NEW s, IsList(s), NEW g \in DOMAIN s, NEW e
    PROVE  /\ IsList([s EXCEPT ![g] = e]) /\ Len([s EXCEPT ![g] = e]) = Len(s)
           /\ DOMAIN [s EXCEPT ![g] = e] = DOMAIN s
           /\ [s EXCEPT ![g] = e][g] = e
           /\ \A i \in DOMAIN s : i # g => [s EXCEPT ![g] = e][i] = s[i]
<1> DEFINE S == {s[i] : i \in DOMAIN s} \cup {e}
<1>1. s \in Seq(S) /\ e \in S /\ g \in 1 .. Len(s)
  BY SeqDef, LenProperties DEF IsList
<1> HIDE DEF S
<1>2. [s EXCEPT ![g] = e] \in Seq(S) /\ Len([s EXCEPT ![g] = e]) = Len(s)
  BY <1>1, ExceptSeq
<1> QED BY <1>1, <1>2, ListOfElements, LenProperties


LEMMA IdleFields == Idle.asOf = 0 /\ Idle.answered = FALSE
BY DEF Idle

LEMMA NoBadgeFields == NoBadge.asOf = 0 /\ NoBadge.answered = FALSE
BY DEF NoBadge

LEMMA BadgesStart == BadgesInit => BadgesInv
<1>1. SUFFICES ASSUME BadgesInit PROVE BadgesInv
  OBVIOUS
<1>2. PICK first : /\ DOMAIN first = DOMAIN Idle /\ first.asOf = 0 /\ first.answered = FALSE
                   /\ renders = <<>> \/ renders = <<first>>
  <2>1. DOMAIN Idle = DOMAIN Idle /\ Idle.asOf = 0 /\ Idle.answered = FALSE
    BY DEF Idle
  <2>2. PICK first : first = [Idle EXCEPT !.stage = "loading", !.elements = elements]
    OBVIOUS
  <2>3. DOMAIN first = DOMAIN Idle /\ first.asOf = 0 /\ first.answered = FALSE
    BY <2>2 DEF Idle
  <2>4. renders = <<>> \/ renders = <<first>>
    BY <1>1, <2>2 DEF BadgesInit
  <2> QED BY <2>1, <2>3, <2>4
<1>3. /\ DOMAIN badges = Cards
      /\ \A v \in Cards : badges[v].asOf = 0 /\ badges[v].answered = FALSE
      /\ changes = 0 /\ renderGeneration = Len(renders)
  BY <1>1 DEF BadgesInit, NoBadge
<1>4. renders \in Seq({first})
  <2>1. <<>> \in Seq({first}) /\ <<first>> \in Seq({first})
    OBVIOUS
  <2> QED BY <1>2, <2>1
<1>5. IsList(renders)
  BY <1>4, ListOfElements
<1>6. \A g \in DOMAIN renders : renders[g] = first
  BY <1>2
<1> QED BY <1>2, <1>3, <1>5, <1>6 DEF BadgesInv, RendersSeen, BadgesSeen, NewestIsFresh, Seen, IsLatest

\* Elsewhere data changes and the page does other things.
LEMMA OtherwiseSeen ==
    ASSUME BadgesInv, UNCHANGED <<badges, renders, renderGeneration>>,
           changes' = changes \/ changes' = changes + 1
    PROVE  BadgesInv'
BY DEF BadgesInv, RendersSeen, BadgesSeen, NewestIsFresh, Seen, IsLatest, IsList

\* Badges that are taken away go back to nothing.
LEMMA BadgesRemoved ==
    ASSUME BadgesInv, badges' = [v \in Cards |-> NoBadge],
           UNCHANGED <<renders, renderGeneration, changes>>
    PROVE  BadgesInv'
<1>1. changes' \in Nat /\ RendersSeen'
  BY DEF BadgesInv, RendersSeen, Seen, IsList
<1>2. DOMAIN badges' = Cards /\ \A v \in Cards : badges'[v] = NoBadge
  OBVIOUS
<1> QED BY <1>1, <1>2, NoBadgeFields DEF BadgesInv, BadgesSeen, NewestIsFresh, Seen

LEMMA BadgesReset ==
    ASSUME BadgesInv, BroadcastReset
    PROVE  BadgesInv'
<1>1. /\ renders' = Append(renders, Idle) /\ renderGeneration' = renderGeneration + 1
      /\ badges' = [v \in Cards |-> NoBadge] /\ changes' = changes
  BY DEF BroadcastReset, storeVars
<1>2. RendersSeen'
  BY <1>1, ListAppended, IdleFields DEF BadgesInv, RendersSeen, Seen
<1>3. \A v \in Cards : badges'[v] = NoBadge
  BY <1>1
<1> QED BY <1>1, <1>2, <1>3, NoBadgeFields DEF BadgesInv, BadgesSeen, NewestIsFresh, Seen

\* A render that starts has read nothing yet.
LEMMA RenderStarts ==
    ASSUME BadgesInv, StartsRender, changes' = changes
    PROVE  BadgesInv'
<1>1. PICK begun : /\ DOMAIN begun = DOMAIN Idle /\ begun.asOf = 0 /\ begun.answered = FALSE
                   /\ renders' = Append(renders, begun)
  <2>1. PICK loading : loading = [Idle EXCEPT !.stage = "loading", !.elements = elements]
    OBVIOUS
  <2>2. DOMAIN loading = DOMAIN Idle /\ loading.asOf = 0 /\ loading.answered = FALSE
    BY <2>1 DEF Idle
  <2>3. renders' = Append(renders, loading) \/ renders' = Append(renders, Idle)
    BY <2>1 DEF StartsRender
  <2> QED BY <2>2, <2>3, IdleFields
<1>2. /\ renderGeneration' = renderGeneration + 1
      /\ badges' = badges \/ badges' = [v \in Cards |-> NoBadge]
  BY DEF StartsRender
<1>3. RendersSeen'
  BY <1>1, <1>2, ListAppended DEF BadgesInv, RendersSeen, Seen
<1>4. BadgesSeen'
  <2>1. CASE badges' = badges
    BY <2>1 DEF BadgesInv, BadgesSeen, Seen
  <2>2. CASE badges' = [v \in Cards |-> NoBadge]
    <3>1. DOMAIN badges' = Cards /\ \A v \in Cards : badges'[v] = NoBadge
      BY <2>2
    <3> QED BY <3>1, NoBadgeFields DEF BadgesInv, BadgesSeen, Seen
  <2> QED BY <1>2, <2>1, <2>2
<1>5. NewestIsFresh'
  BY <1>1, <1>2, ListAppended DEF BadgesInv, RendersSeen, NewestIsFresh, IsLatest
<1> QED BY <1>3, <1>4, <1>5 DEF BadgesInv

\* A render that reads sees the data as they are.
LEMMA RenderFilled ==
    ASSUME BadgesInv, NEW g \in DOMAIN renders, NEW loaded, DOMAIN loaded = DOMAIN Idle,
           renders' = [renders EXCEPT ![g] = loaded],
           UNCHANGED <<badges, changes, renderGeneration>>,
           \/ loaded.asOf = changes
           \/ loaded.asOf = renders[g].asOf /\ loaded.answered = renders[g].answered
    PROVE  BadgesInv'
<1>1. /\ \A h \in DOMAIN renders : h # g => renders'[h] = renders[h]
      /\ renders'[g] = loaded /\ DOMAIN renders' = DOMAIN renders
      /\ IsList(renders)' /\ Len(renders') = Len(renders)
  <2>1. IsList(renders')
    BY ListReplaced DEF BadgesInv, RendersSeen
  <2>2. IsList(renders)'
    BY <2>1 DEF IsList
  <2> QED BY <2>2, ListReplaced DEF BadgesInv, RendersSeen
<1>2. RendersSeen'
  <2>1. ASSUME NEW h \in DOMAIN renders PROVE DOMAIN renders'[h] = DOMAIN Idle /\ Seen(renders'[h], changes)
    BY <1>1 DEF BadgesInv, RendersSeen, Seen
  <2> QED BY <1>1, <2>1 DEF BadgesInv, RendersSeen
<1>3. BadgesSeen'
  BY DEF BadgesInv, BadgesSeen, Seen
<1>4. NewestIsFresh'
  BY <1>1 DEF BadgesInv, BadgesSeen, NewestIsFresh, IsLatest, Seen
<1> QED BY <1>2, <1>3, <1>4 DEF BadgesInv

LEMMA RenderReads ==
    ASSUME BadgesInv, NEW g \in DOMAIN renders, HighlightsLoaded(g) \/ LegacyLoaded(g)
    PROVE  BadgesInv'
<1>1. DOMAIN renders[g] = DOMAIN Idle
  BY DEF BadgesInv, RendersSeen
<1>2. UNCHANGED <<badges, changes, renderGeneration>>
  BY DEF HighlightsLoaded, LegacyLoaded, storeVars
<1>3. CASE LegacyLoaded(g)
  <2>1. PICK loaded : loaded = [renders[g] EXCEPT !.legacy = badgeStates]
    OBVIOUS
  <2>2. renders' = [renders EXCEPT ![g] = loaded]
    BY <1>3, <2>1 DEF LegacyLoaded
  <2>3. DOMAIN loaded = DOMAIN Idle
        /\ loaded.asOf = renders[g].asOf /\ loaded.answered = renders[g].answered
    BY <1>1, <2>1 DEF Idle
  <2> QED BY <1>2, <2>2, <2>3, RenderFilled
<1>4. CASE renders' = [renders EXCEPT ![g].answer = [v \in Cards |-> NoState]]
  <2>1. PICK loaded : loaded = [renders[g] EXCEPT !.answer = [v \in Cards |-> NoState]]
    OBVIOUS
  <2>2. renders' = [renders EXCEPT ![g] = loaded]
    BY <1>4, <2>1
  <2>3. DOMAIN loaded = DOMAIN Idle
        /\ loaded.asOf = renders[g].asOf /\ loaded.answered = renders[g].answered
    BY <1>1, <2>1 DEF Idle
  <2> QED BY <1>2, <2>2, <2>3, RenderFilled
<1>5. CASE renders' = [renders EXCEPT ![g].answer = [v \in Cards |-> HighlightState(v)],
                                      ![g].controls = switches, ![g].asOf = changes,
                                      ![g].answered = TRUE]
  <2>1. PICK loaded : loaded = [renders[g] EXCEPT !.answer = [v \in Cards |-> HighlightState(v)],
                                                  !.controls = switches, !.asOf = changes,
                                                  !.answered = TRUE]
    OBVIOUS
  <2>2. renders' = [renders EXCEPT ![g] = loaded]
    BY <1>5, <2>1
  <2>3. DOMAIN loaded = DOMAIN Idle /\ loaded.asOf = changes
    BY <1>1, <2>1 DEF Idle
  <2> QED BY <1>2, <2>2, <2>3, RenderFilled
<1> QED BY <1>3, <1>4, <1>5 DEF HighlightsLoaded

\* What a render puts on a card: nothing, what it has read, or what was there.
LEMMA RenderPuts ==
    ASSUME BadgesInv, NEW g \in DOMAIN renders, Render(g), NEW v \in Cards
    PROVE  \/ badges'[v] = badges[v]
           \/ badges'[v] = NoBadge
           \/ /\ IsLatest(g)
              /\ badges'[v].asOf = renders[g].asOf /\ badges'[v].answered = renders[g].answered
BY DEF BadgesInv, BadgesSeen, Render, BadgeOf

LEMMA RenderEnds ==
    ASSUME BadgesInv, NEW g \in DOMAIN renders, Render(g)
    PROVE  BadgesInv'
<1>1. /\ renders' = [renders EXCEPT ![g] = Idle]
      /\ changes' = changes /\ renderGeneration' = renderGeneration
  BY DEF Render, storeVars
<1>2. /\ \A h \in DOMAIN renders : h # g => renders'[h] = renders[h]
      /\ renders'[g] = Idle /\ DOMAIN renders' = DOMAIN renders
      /\ IsList(renders)' /\ Len(renders') = Len(renders)
  <2>1. IsList(renders')
    BY <1>1, ListReplaced DEF BadgesInv, RendersSeen
  <2>2. IsList(renders)'
    BY <2>1 DEF IsList
  <2> QED BY <1>1, <2>2, ListReplaced DEF BadgesInv, RendersSeen
<1>3. RendersSeen'
  <2>1. ASSUME NEW h \in DOMAIN renders PROVE DOMAIN renders'[h] = DOMAIN Idle /\ Seen(renders'[h], changes)
    BY <1>2, IdleFields DEF BadgesInv, RendersSeen, Seen
  <2> QED BY <1>1, <1>2, <2>1 DEF BadgesInv, RendersSeen
<1>4. DOMAIN badges' = Cards
  BY DEF BadgesInv, BadgesSeen, Render
<1>5. BadgesSeen'
  BY <1>1, <1>4, RenderPuts, NoBadgeFields DEF BadgesInv, BadgesSeen, RendersSeen, Seen
<1>6. NewestIsFresh'
  <2>1. CASE IsLatest(g)
    BY <1>1, <1>2, <2>1, IdleFields DEF NewestIsFresh, IsLatest
  <2>2. CASE ~ IsLatest(g)
    <3>1. badges' = badges
      BY <2>2 DEF Render
    <3> QED BY <1>1, <1>2, <3>1, IdleFields DEF BadgesInv, NewestIsFresh, IsLatest
  <2> QED BY <2>1, <2>2
<1> QED BY <1>1, <1>3, <1>5, <1>6 DEF BadgesInv

LEMMA BadgesStep ==
    ASSUME BadgesInv, [BadgesNext]_badgeVars
    PROVE  BadgesInv'
<1>1. CASE UNCHANGED badgeVars
  BY <1>1, OtherwiseSeen DEF badgeVars, storeVars, searchVars
<1>2. CASE \E v \in Cards : ChangeJob(v) \/ QuickAction(v)
  BY <1>2, OtherwiseSeen DEF ChangeJob, QuickAction, searchVars
<1>3. CASE \E v \in Cards : QuickAnswered(v)
  BY <1>3, RenderStarts DEF QuickAnswered, storeVars
<1>4. CASE ToggleHighlights \/ ReadVisit \/ WriteVisit \/ ClearTables \/ ClearExtensionStorage
  BY <1>4, OtherwiseSeen DEF ToggleHighlights, ReadVisit, WriteVisit, ClearTables,
     ClearExtensionStorage, searchVars, storeVars
<1>5. CASE BroadcastReset
  BY <1>5, BadgesReset
<1>6. CASE ChangeList
  BY <1>6, BadgesRemoved DEF ChangeList, storeVars
<1>7. CASE TimerFires
  BY <1>7, RenderStarts DEF TimerFires, storeVars
<1>8. CASE Pagehide \/ CreateBadge \/ AttachHost \/ RestoreBadgeState \/ UpdateBadge
  BY <1>8, OtherwiseSeen DEF Pagehide, CreateBadge, AttachHost, RestoreBadgeState, UpdateBadge,
     searchVars, storeVars
<1>9. CASE \E g \in DOMAIN renders : HighlightsLoaded(g) \/ LegacyLoaded(g) \/ Render(g)
  BY <1>9, RenderReads, RenderEnds
<1> QED BY <1>1, <1>2, <1>3, <1>4, <1>5, <1>6, <1>7, <1>8, <1>9 DEF BadgesNext

\* A badge is replaced by nothing, or by the newest render.
LEMMA NotOlder ==
    ASSUME BadgesInv, [BadgesNext]_badgeVars, NEW v \in Cards,
           badges[v].answered, badges'[v].answered
    PROVE  badges'[v].asOf >= badges[v].asOf
<1>1. badges[v].asOf \in Int
  BY DEF BadgesInv, BadgesSeen, Seen
<1>2. badges' = badges \/ badges' = [w \in Cards |-> NoBadge] => badges'[v] = badges[v]
  BY NoBadgeFields
<1>3. CASE UNCHANGED badgeVars
  BY <1>1, <1>3 DEF badgeVars, searchVars
<1>4. CASE BadgesNext
  <2>1. CASE \E g \in DOMAIN renders : Render(g)
    BY <1>1, <2>1, RenderPuts, NoBadgeFields DEF BadgesInv, NewestIsFresh
  <2>2. CASE \A g \in DOMAIN renders : ~ Render(g)
    <3>1. badges' = badges \/ badges' = [w \in Cards |-> NoBadge]
      BY <1>4, <2>2 DEF BadgesNext, ChangeJob, QuickAction, QuickAnswered, ToggleHighlights,
         ReadVisit, WriteVisit, BroadcastReset, ClearTables, ClearExtensionStorage, ChangeList,
         TimerFires, Pagehide, HighlightsLoaded, LegacyLoaded, CreateBadge, AttachHost,
         RestoreBadgeState, UpdateBadge, StartsRender, searchVars
    <3> QED BY <1>1, <1>2, <3>1
  <2> QED BY <2>1, <2>2
<1> QED BY <1>3, <1>4

\* Renders overlap and their answers arrive in any order, but only the newest
\* puts badges, and it has read what they say at least as late as they did.
THEOREM BadgesStayFresh == BadgesSpec => BadgesNeverGoBack
<1>1. BadgesInv /\ [BadgesNext]_badgeVars
        => [\A v \in Cards : (badges[v].answered /\ badges'[v].answered)
                               => badges'[v].asOf >= badges[v].asOf]_badgeVars
  BY NotOlder
<1>2. BadgesInv /\ [BadgesNext]_badgeVars => BadgesInv'
  BY BadgesStep
<1> QED BY <1>1, <1>2, BadgesStart, PTL DEF BadgesSpec, BadgesNeverGoBack

-----------------------------------------------------------------------------
(* The score.                                                              *)

ScoringSpec == ScoringInit /\ [][ScoringNext]_scoringVars

IsVacancy(v) ==
    DOMAIN v = DOMAIN FieldTypes /\ \A f \in DOMAIN FieldTypes : v[f] \in FieldTypes[f]

\* What is stored is the score of some vacancy, perhaps an earlier parse of this
\* one, for some profile, perhaps one that was deleted since.
ScoringInv ==
    /\ IsVacancy(vacancy) /\ kept \subseteq DOMAIN ScoreProfiles
    /\ \/ ruleScore = NoScore
       \/ \E v, id : /\ IsVacancy(v) /\ id \in DOMAIN ScoreProfiles
                     /\ ruleScore.result = ScoreJob(v, ScoreProfiles[id], NoCompany)

LEMMA LeastOf == ASSUME NEW S \in SUBSET Nat, S # {} PROVE \E n \in S : \A m \in S : n <= m
<1> DEFINE R == OpToRel(<, Nat)
<1>1. IsWellFoundedOn(R, Nat)
  BY NatLessThanWellFounded
<1>2. \A x, y \in Nat : y < x => <<y, x>> \in R
  BY DEF OpToRel
<1> HIDE DEF R
<1>3. PICK x \in S : \A y \in S : ~ (<<y, x>> \in R)
  BY <1>1, WFMin
<1>4. \A y \in S : ~ (y < x)
  BY <1>2, <1>3
<1> QED BY <1>4

LEMMA RoundIsInt ==
    ASSUME NEW n \in Int, NEW d \in Int, d > 0
    PROVE  Round(n, d) \in Int
BY DEF Round

LEMMA ShareIsInt ==
    ASSUME NEW weight \in Int, NEW percent \in Int
    PROVE  Share(weight, percent) \in Int
<1>1. weight * percent \in Int
  OBVIOUS
<1> QED BY <1>1, RoundIsInt DEF Share

LEMMA SharesAreInts ==
    ASSUME NEW weight \in Int
    PROVE  /\ Share(weight, 5) \in Int /\ Share(weight, 15) \in Int /\ Share(weight, 20) \in Int
           /\ Share(weight, 25) \in Int /\ Share(weight, 30) \in Int /\ Share(weight, 50) \in Int
           /\ Share(weight, 60) \in Int /\ Share(weight, 70) \in Int /\ Share(weight, 80) \in Int
<1>1. \A percent \in Int : Share(weight, percent) \in Int
  BY ShareIsInt
<1> QED BY <1>1

\* What a component reads of a vacancy and a profile.
LEMMA VacancyFields ==
    ASSUME NEW v, IsVacancy(v)
    PROVE  /\ v.overlap \in Counts /\ v.mustHave \in Nat /\ v.niceToHave \in Nat
           /\ v.years \in Counts /\ v.salaryMin \in Counts /\ v.salaryMax \in Counts
           /\ v.length \in Nat
<1>1. v.overlap \in (0..100) \cup {None} /\ v.mustHave \in Nat /\ v.niceToHave \in Nat
  BY DEF IsVacancy, FieldTypes
<1>2. v.years \in Counts /\ v.salaryMin \in Counts /\ v.salaryMax \in Counts /\ v.length \in Nat
  BY DEF IsVacancy, FieldTypes
<1>3. v.overlap \in Counts
  BY <1>1 DEF Counts
<1> QED BY <1>1, <1>2, <1>3

LEMMA ProfileFields ==
    ASSUME NEW id \in DOMAIN ScoreProfiles, NEW p, p = ScoreProfiles[id]
    PROVE  /\ p.mustHave \in Nat /\ p.niceToHave \in Nat /\ p.years \in Counts
           /\ p.salary \in Counts
           /\ \A c \in DOMAIN p.weights : p.weights[c] \in Int
BY ScoringAssumption DEF ProfileTypes

LEMMA WeightsAreInts ==
    ASSUME NEW id \in DOMAIN ScoreProfiles, NEW p, p = ScoreProfiles[id],
           NEW w, w = WeightsOf(p)
    PROVE  /\ w.titleMatch \in Int /\ w.mustHaveSkills \in Int /\ w.niceToHaveSkills \in Int
           /\ w.experienceFit \in Int /\ w.workModeLocation \in Int /\ w.salaryFit \in Int
           /\ w.companyPreference \in Int /\ w.languageScheduleMisc \in Int
BY ProfileFields DEF WeightsOf, DefaultWeights

\* Every component is a whole number of points, also where its divisor is data.
LEMMA SkillsAreInts ==
    ASSUME NEW v, IsVacancy(v), NEW id \in DOMAIN ScoreProfiles, NEW p, p = ScoreProfiles[id],
           NEW weight \in Int
    PROVE  /\ ScoreTitleMatch(v, p, weight).score \in Int
           /\ ScoreMustHaveSkills(v, p, weight).score \in Int
           /\ ScoreNiceToHaveSkills(v, p, weight).score \in Int
<1>1. /\ Share(weight, 80) \in Int /\ Share(weight, 50) \in Int /\ Share(weight, 25) \in Int
  BY SharesAreInts
<1>2. ScoreTitleMatch(v, p, weight).score \in Int
  BY <1>1 DEF ScoreTitleMatch, Result
<1>3. v.mustHave \in Nat /\ v.niceToHave \in Nat /\ p.mustHave \in Nat /\ p.niceToHave \in Nat
  BY VacancyFields, ProfileFields
<1>4. weight * v.mustHave \in Int /\ weight * v.niceToHave \in Int
  BY <1>3
<1>5. /\ p.mustHave # 0 => Round(weight * v.mustHave, p.mustHave) \in Int
      /\ p.niceToHave # 0 => Round(weight * v.niceToHave, p.niceToHave) \in Int
  BY <1>3, <1>4, RoundIsInt
<1>6. ScoreMustHaveSkills(v, p, weight).score \in Int
  BY <1>1, <1>5 DEF ScoreMustHaveSkills, Result
<1>7. ScoreNiceToHaveSkills(v, p, weight).score \in Int
  BY <1>1, <1>5 DEF ScoreNiceToHaveSkills, Result
<1> QED BY <1>2, <1>6, <1>7

LEMMA ExperienceIsInt ==
    ASSUME NEW v, IsVacancy(v), NEW id \in DOMAIN ScoreProfiles, NEW p, p = ScoreProfiles[id],
           NEW weight \in Int
    PROVE  ScoreExperienceFit(v, p, weight).score \in Int
<1>1. v.years \in Int /\ ResolveExperienceYears(p) \in Int
  BY VacancyFields, ProfileFields DEF ResolveExperienceYears, SeniorityYears, Counts, None
<1>2. PICK have : have = ResolveExperienceYears(p)
  OBVIOUS
<1>3. PICK ratio : ratio = Clamp(Round(1000 * have, IF v.years > 1 THEN v.years ELSE 1), 100, 500)
  OBVIOUS
<1>4. ratio \in Int
  <2>1. PICK d : d = IF v.years > 1 THEN v.years ELSE 1
    OBVIOUS
  <2>2. d \in Int /\ d > 0 /\ 1000 * have \in Int
    BY <1>1, <1>2, <2>1
  <2>3. Round(1000 * have, d) \in Int
    BY <2>2, RoundIsInt
  <2> QED BY <1>3, <2>1, <2>3 DEF Clamp
<1>5. Round(weight * ratio, 1000) \in Int /\ Share(weight, 50) \in Int /\ Share(weight, 70) \in Int
  <2>1. weight * ratio \in Int
    BY <1>4
  <2> QED BY <2>1, RoundIsInt, SharesAreInts
<1> QED BY <1>1, <1>2, <1>3, <1>5 DEF ScoreExperienceFit, Result

LEMMA LocationIsInt ==
    ASSUME NEW v, NEW p, NEW weight \in Int
    PROVE  ScoreWorkModeLocation(v, p, weight).score \in Int
<1>1. PICK modeWeight : modeWeight = IF p.hasCities THEN Share(weight, 60) ELSE weight
  OBVIOUS
<1>2. modeWeight \in Int /\ weight - modeWeight \in Int
  BY <1>1, SharesAreInts
<1>3. Share(modeWeight, 50) \in Int /\ Share(weight - modeWeight, 50) \in Int
  BY <1>2, ShareIsInt
<1> QED BY <1>1, <1>2, <1>3 DEF ScoreWorkModeLocation, Result, Clamp

LEMMA SalaryIsInt ==
    ASSUME NEW v, IsVacancy(v), NEW id \in DOMAIN ScoreProfiles, NEW p, p = ScoreProfiles[id],
           NEW weight \in Int
    PROVE  ScoreSalaryFit(v, p, weight).score \in Int
<1>1. HighestSalary(v) \in Nat
  BY VacancyFields DEF HighestSalary, LowestSalary, Counts
<1>2. p.salary \in Int
  BY ProfileFields DEF Counts, None
<1>3. HighestSalary(v) < p.salary
        => Clamp(Round(weight * HighestSalary(v), p.salary), 0, weight) \in Int
  <2>1. weight * HighestSalary(v) \in Int
    BY <1>1
  <2> QED BY <1>1, <1>2, <2>1, RoundIsInt DEF Clamp
<1>4. Share(weight, 50) \in Int /\ Share(weight, 70) \in Int
  BY SharesAreInts
<1> QED BY <1>3, <1>4 DEF ScoreSalaryFit, Result

LEMMA CompanyIsInt ==
    ASSUME NEW weight \in Int
    PROVE  ScoreCompanyPreference(NoCompany, weight).score \in Int
<1>1. Share(weight, 80) \in Int /\ Share(weight, 30) \in Int
  BY SharesAreInts
<1> QED BY <1>1 DEF ScoreCompanyPreference, Result

LEMMA MiscIsInt ==
    ASSUME NEW v, NEW weight \in Int
    PROVE  ScoreLanguageScheduleMisc(v, weight).score \in Int
<1>1. /\ Share(weight, 20) \in Int /\ Share(weight, 15) \in Int
      /\ Share(weight, 5) \in Int /\ Share(weight, 30) \in Int
  BY SharesAreInts
<1> QED BY <1>1 DEF ScoreLanguageScheduleMisc, Result, Clamp

\* The total is within 0..100, and under the cap of every flag that has one.
LEMMA CapsHold ==
    ASSUME NEW total \in 0 .. 100, NEW flags
    PROVE  /\ ApplyCaps(total, flags) \in 0 .. 100
           /\ \A f \in flags : f \in DOMAIN CapRules => ApplyCaps(total, flags) <= CapRules[f]
<1> DEFINE S == {total} \cup {CapRules[f] : f \in flags \cap DOMAIN CapRules}
<1>1. \A f \in DOMAIN CapRules : CapRules[f] \in 0 .. 100
  BY DEF CapRules
<1>2. S \in SUBSET Nat /\ S # {} /\ \A n \in S : n \in 0 .. 100
  BY <1>1
<1>3. ApplyCaps(total, flags) = CHOOSE n \in S : \A c \in S : n <= c
  BY DEF ApplyCaps
<1>4. \A f \in flags : f \in DOMAIN CapRules => CapRules[f] \in S
  OBVIOUS
<1> HIDE DEF S
<1>5. \E n \in S : \A c \in S : n <= c
  BY <1>2, LeastOf
<1>6. ApplyCaps(total, flags) \in S /\ \A c \in S : ApplyCaps(total, flags) <= c
  BY <1>3, <1>5
<1> QED BY <1>2, <1>4, <1>6

\* What is said of a score, whoever computes it.
Heeds(r) ==
    /\ r.total \in 0..100
    /\ r.recommendation = "apply" =>
         r.flags \cap {<<"work_mode_mismatch", "medium">>, <<"missing_core_skill", "high">>} = {}

LEMMA ScoreHeedsFlags ==
    ASSUME NEW v, IsVacancy(v), NEW id \in DOMAIN ScoreProfiles, NEW p, p = ScoreProfiles[id]
    PROVE  Heeds(ScoreJob(v, p, NoCompany))
<1>1. PICK w : w = WeightsOf(p)
  OBVIOUS
<1>2. PICK parts : parts =
        <<ScoreTitleMatch(v, p, w.titleMatch),
          ScoreMustHaveSkills(v, p, w.mustHaveSkills),
          ScoreNiceToHaveSkills(v, p, w.niceToHaveSkills),
          ScoreExperienceFit(v, p, w.experienceFit),
          ScoreWorkModeLocation(v, p, w.workModeLocation),
          ScoreSalaryFit(v, p, w.salaryFit),
          ScoreCompanyPreference(NoCompany, w.companyPreference),
          ScoreLanguageScheduleMisc(v, w.languageScheduleMisc)>>
  OBVIOUS
<1>3. PICK flags : flags = UNION {parts[i].flags : i \in DOMAIN parts}
  OBVIOUS
<1>4. PICK sum : sum = parts[1].score + parts[2].score + parts[3].score + parts[4].score
                       + parts[5].score + parts[6].score + parts[7].score + parts[8].score
  OBVIOUS
<1>5. PICK raw : raw = Clamp(sum - Penalty(flags), 0, 100)
  OBVIOUS
<1>6. ScoreJob(v, p, NoCompany) = [total |-> ApplyCaps(raw, flags),
                        recommendation |-> DetermineRecommendation(ApplyCaps(raw, flags), flags),
                        flags |-> flags]
  BY <1>1, <1>2, <1>3, <1>4, <1>5 DEF ScoreJob
<1>7. raw \in 0 .. 100
  <2>1. /\ w.titleMatch \in Int /\ w.mustHaveSkills \in Int /\ w.niceToHaveSkills \in Int
        /\ w.experienceFit \in Int /\ w.workModeLocation \in Int /\ w.salaryFit \in Int
        /\ w.companyPreference \in Int /\ w.languageScheduleMisc \in Int
    BY <1>1, WeightsAreInts
  <2>2. /\ ScoreTitleMatch(v, p, w.titleMatch).score \in Int
        /\ ScoreMustHaveSkills(v, p, w.mustHaveSkills).score \in Int
        /\ ScoreNiceToHaveSkills(v, p, w.niceToHaveSkills).score \in Int
    BY <2>1, SkillsAreInts
  <2>3. /\ ScoreExperienceFit(v, p, w.experienceFit).score \in Int
        /\ ScoreWorkModeLocation(v, p, w.workModeLocation).score \in Int
        /\ ScoreSalaryFit(v, p, w.salaryFit).score \in Int
    BY <2>1, ExperienceIsInt, LocationIsInt, SalaryIsInt
  <2>4. /\ ScoreCompanyPreference(NoCompany, w.companyPreference).score \in Int
        /\ ScoreLanguageScheduleMisc(v, w.languageScheduleMisc).score \in Int
    BY <2>1, CompanyIsInt, MiscIsInt
  <2>5. sum \in Int
    BY <1>2, <1>4, <2>2, <2>3, <2>4
  <2>6. Penalty(flags) \in Int
    BY DEF Penalty
  <2>7. PICK n \in Int : n = sum - Penalty(flags)
    BY <2>5, <2>6
  <2> QED BY <1>5, <2>7 DEF Clamp
<1>8. /\ ApplyCaps(raw, flags) \in 0 .. 100
      /\ \A f \in flags : f \in DOMAIN CapRules => ApplyCaps(raw, flags) <= CapRules[f]
  BY <1>7, CapsHold
<1>10. DetermineRecommendation(ApplyCaps(raw, flags), flags) = "apply"
         => flags \cap {<<"work_mode_mismatch", "medium">>, <<"missing_core_skill", "high">>} = {}
  <2>1. DetermineRecommendation(ApplyCaps(raw, flags), flags) = "apply"
          => ApplyCaps(raw, flags) >= 85
    BY DEF DetermineRecommendation
  <2>2. \A f \in {<<"work_mode_mismatch", "medium">>, <<"missing_core_skill", "high">>} :
          f \in DOMAIN CapRules /\ CapRules[f] \in Int /\ CapRules[f] < 85
    BY DEF CapRules
  <2> QED BY <1>8, <2>1, <2>2
<1> QED BY <1>6, <1>8, <1>10 DEF Heeds

\* The profile a score is computed for is one that exists.
LEMMA ResolvesToKept ==
    ASSUME kept \subseteq DOMAIN ScoreProfiles, kept # {}, NEW explicit
    PROVE  ResolveProfile(explicit) \in DOMAIN ScoreProfiles
<1>1. Len(ScoreProfiles) \in kept \/ Len(ScoreProfiles) \notin kept
  OBVIOUS
<1>2. kept \in SUBSET Nat
  BY ScoringAssumption
<1>3. \E i \in kept : \A j \in kept : i <= j
  BY <1>2, LeastOf
<1> QED BY <1>3 DEF ResolveProfile

LEMMA RecomputedIsScore ==
    ASSUME ScoringInv, NEW v, IsVacancy(v), NEW explicit,
           ruleScore' = RecomputeScore(v, explicit)
    PROVE  \/ ruleScore' = ruleScore
           \/ \E id \in DOMAIN ScoreProfiles : ruleScore'.result = ScoreJob(v, ScoreProfiles[id], NoCompany)
<1>1. CASE kept = {}
  BY <1>1 DEF RecomputeScore
<1>2. CASE kept # {}
  <2>1. PICK id : id = ResolveProfile(explicit)
    OBVIOUS
  <2>2. id \in DOMAIN ScoreProfiles
    BY <1>2, <2>1, ResolvesToKept DEF ScoringInv
  <2>3. ruleScore' = [profile |-> id, result |-> ScoreJob(v, ScoreProfiles[id], NoCompany)]
    BY <1>2, <2>1 DEF RecomputeScore
  <2>4. ruleScore'.result = ScoreJob(v, ScoreProfiles[id], NoCompany)
    BY <2>3
  <2> QED BY <2>2, <2>4
<1> QED BY <1>1, <1>2

LEMMA ScoringStarts == ScoringInit => ScoringInv
BY ScoringAssumption DEF ScoringInit, ScoringInv, IsVacancy

LEMMA ScoringStep ==
    ASSUME ScoringInv, [ScoringNext]_scoringVars
    PROVE  ScoringInv'
<1>1. CASE UNCHANGED scoringVars
  BY <1>1 DEF scoringVars, ScoringInv, IsVacancy
<1>2. CASE SaveVacancy
  <2>1. PICK f \in DOMAIN FieldValues : \E value \in FieldValues[f] :
          /\ vacancy' = [vacancy EXCEPT ![f] = value]
          /\ ruleScore' = RecomputeScore([vacancy EXCEPT ![f] = value], ruleScore.profile)
          /\ kept' = kept
    BY <1>2 DEF SaveVacancy
  <2>2. PICK value \in FieldValues[f] :
          /\ vacancy' = [vacancy EXCEPT ![f] = value]
          /\ ruleScore' = RecomputeScore([vacancy EXCEPT ![f] = value], ruleScore.profile)
          /\ kept' = kept
    BY <2>1
  <2>3. PICK parsed : parsed = [vacancy EXCEPT ![f] = value]
    OBVIOUS
  <2>4. IsVacancy(parsed)
    BY <2>3, ScoringAssumption DEF ScoringInv, IsVacancy
  <2>5. ruleScore' = RecomputeScore(parsed, ruleScore.profile)
    BY <2>2, <2>3
  <2>6. PICK explicit : explicit = ruleScore.profile
    OBVIOUS
  <2>7. \/ ruleScore' = ruleScore
        \/ \E id \in DOMAIN ScoreProfiles : ruleScore'.result = ScoreJob(parsed, ScoreProfiles[id], NoCompany)
    BY <2>4, <2>5, <2>6, RecomputedIsScore
  <2>8. IsVacancy(vacancy')
    BY <2>2, <2>3, <2>4
  <2> QED BY <2>2, <2>4, <2>7, <2>8 DEF ScoringInv, IsVacancy
<1>3. CASE SelectProfile
  <2>1. PICK id \in kept : ruleScore' = RecomputeScore(vacancy, id) /\ vacancy' = vacancy /\ kept' = kept
    BY <1>3 DEF SelectProfile
  <2>2. PICK v : v = vacancy
    OBVIOUS
  <2>3. IsVacancy(v)
    BY <2>2 DEF ScoringInv, IsVacancy
  <2>4. \/ ruleScore' = ruleScore
        \/ \E i \in DOMAIN ScoreProfiles : ruleScore'.result = ScoreJob(v, ScoreProfiles[i], NoCompany)
    BY <2>1, <2>2, <2>3, RecomputedIsScore
  <2> QED BY <2>1, <2>3, <2>4 DEF ScoringInv, IsVacancy
<1>4. CASE DeleteProfile
  BY <1>4 DEF DeleteProfile, ScoringInv, IsVacancy
<1> QED BY <1>1, <1>2, <1>3, <1>4 DEF ScoringNext

\* Whatever the weights of the profile and the fields of the vacancy, the caps
\* and the verdict have the last word over the points.
THEOREM VerdictsHeedFlags == ScoringSpec => []VerdictHeedsFlags
<1>1. ScoringInv => VerdictHeedsFlags
  <2>1. SUFFICES ASSUME ScoringInv, ruleScore # NoScore PROVE Heeds(ruleScore.result)
    BY DEF VerdictHeedsFlags, Heeds
  <2>2. PICK v, id : /\ IsVacancy(v) /\ id \in DOMAIN ScoreProfiles
                     /\ ruleScore.result = ScoreJob(v, ScoreProfiles[id], NoCompany)
    BY <2>1 DEF ScoringInv
  <2> QED BY <2>2, ScoreHeedsFlags
<1>2. ScoringInv /\ [ScoringNext]_scoringVars => ScoringInv'
  BY ScoringStep
<1> QED BY <1>1, <1>2, ScoringStarts, PTL DEF ScoringSpec

-----------------------------------------------------------------------------
(* An improvement costs nothing: the components one by one, then the score. *)

LEMMA ProductGrows ==
    ASSUME NEW w \in Nat, NEW a \in Int, NEW b \in Int, a <= b
    PROVE  w * a \in Int /\ w * b \in Int /\ w * a <= w * b
OBVIOUS

LEMMA DivGrows ==
    ASSUME NEW a \in Int, NEW b \in Int, a <= b, NEW d \in Int, d > 0
    PROVE  a \div d <= b \div d
<1> DEFINE q == a \div d
           r == b \div d
<1>1. q \in Int /\ r \in Int /\ d * q <= a /\ b < d * r + d
  OBVIOUS
<1> HIDE DEF q, r
<1>2. d * q < d * (r + 1)
  BY <1>1
<1>3. q < r + 1
  <2>1. SUFFICES ASSUME r + 1 <= q PROVE FALSE
    BY <1>1
  <2>2. d * (r + 1) <= d * q
    BY <1>1, <2>1, ProductGrows
  <2> QED BY <1>1, <1>2, <2>2
<1>4. q <= r
  BY <1>1, <1>3
<1> QED BY <1>4 DEF q, r

LEMMA RoundGrows ==
    ASSUME NEW n \in Int, NEW m \in Int, n <= m, NEW d \in Int, d > 0
    PROVE  Round(n, d) <= Round(m, d)
<1>1. (2 * n + d) \div (2 * d) <= (2 * m + d) \div (2 * d)
  BY DivGrows
<1> QED BY <1>1 DEF Round

LEMMA RoundFalls ==
    ASSUME NEW n \in Nat, NEW d \in Int, d > 0, NEW e \in Int, d <= e
    PROVE  Round(n, e) <= Round(n, d)
<1> DEFINE q == (2 * n + e) \div (2 * e)
           r == (2 * n + d) \div (2 * d)
<1>1. /\ q \in Int /\ r \in Int /\ (2 * e) * q <= 2 * n + e
      /\ 2 * n + d < (2 * d) * r + 2 * d /\ 0 <= r
  <2>1. 2 * e \in Int /\ 2 * e > 0 /\ 2 * d \in Int /\ 2 * d > 0
    OBVIOUS
  <2>2. 0 \div (2 * d) <= (2 * n + d) \div (2 * d)
    BY <2>1, DivGrows
  <2>3. 0 \div (2 * d) = 0
    BY <2>1
  <2> QED BY <2>1, <2>2, <2>3
<1> HIDE DEF q, r
<1>2. SUFFICES ASSUME r + 1 <= q PROVE FALSE
  BY <1>1 DEF Round, q, r
<1>3. 2 * q - 1 \in Nat /\ 2 * r + 1 \in Nat /\ 2 * r + 1 <= 2 * q - 1
  BY <1>1, <1>2
<1>4. e * (2 * q - 1) <= 2 * n
  BY <1>1
<1>5. (2 * q - 1) * d <= (2 * q - 1) * e
  BY <1>3, ProductGrows
<1>6. d * (2 * r + 1) <= d * (2 * q - 1)
  BY <1>3, ProductGrows
<1>7. 2 * n < d * (2 * r + 1)
  BY <1>1
<1> QED BY <1>3, <1>4, <1>5, <1>6, <1>7

LEMMA ShareGrows ==
    ASSUME NEW w \in Nat, NEW a \in Int, NEW b \in Int, a <= b
    PROVE  Share(w, a) <= Share(w, b)
BY ProductGrows, RoundGrows DEF Share

\* A share of a weight is no more than a larger share, nor than the weight.
LEMMA SharesInOrder ==
    ASSUME NEW w \in Nat
    PROVE  /\ \A a, b \in 0 .. 100 : Share(w, a) \in Int /\ (a <= b => Share(w, a) <= Share(w, b))
           /\ \A a \in 0 .. 100 : 0 <= Share(w, a) /\ Share(w, a) <= w
<1>1. \A a, b \in 0 .. 100 : Share(w, a) \in Int /\ (a <= b => Share(w, a) <= Share(w, b))
  <2>1. \A a \in Int : Share(w, a) \in Int
    BY ShareIsInt
  <2>2. \A a, b \in Int : a <= b => Share(w, a) <= Share(w, b)
    BY ShareGrows
  <2> QED BY <2>1, <2>2
<1>2. Share(w, 0) = 0 /\ Share(w, 100) = w
  <2>1. w * 0 = 0 /\ w * 100 \in Int
    OBVIOUS
  <2>2. Round(0, 100) = 0
    BY DEF Round
  <2>3. Round(w * 100, 100) = w
    BY DEF Round
  <2> QED BY <2>1, <2>2, <2>3 DEF Share
<1> QED BY <1>1, <1>2

-----------------------------------------------------------------------------
\* What is compared of two vacancies, field by field.
LEMMA BetterFields ==
    ASSUME NEW p, NEW new, IsVacancy(new), NEW old, IsVacancy(old), Better(p, new, old)
    PROVE  /\ new.overlap >= old.overlap /\ new.mustHave >= old.mustHave
           /\ new.niceToHave >= old.niceToHave /\ new.length >= old.length
           /\ \/ new.years = old.years
              \/ new.years # None /\ old.years # None /\ new.years <= old.years
           /\ new.mode \in p.modes \/ new.mode = old.mode
           /\ new.city = "preferred" \/ new.city = old.city
           /\ new.says \subseteq old.says
           /\ \/ new.salaryMin = old.salaryMin /\ new.salaryMax = old.salaryMax
              \/ /\ SalaryKnown(new) /\ SalaryKnown(old)
                 /\ LowestSalary(new) >= LowestSalary(old)
                 /\ HighestSalary(new) >= HighestSalary(old)
<1>1. DOMAIN new = DOMAIN FieldTypes
  BY DEF IsVacancy
<1>2. \A f \in {"overlap", "mustHave", "niceToHave", "length", "years", "mode", "city", "says",
                "salaryMin", "salaryMax"} : new[f] = old[f] \/ NoWorse(p, f, new, old)
  BY <1>1 DEF Better, FieldTypes
<1>3. /\ new.overlap \in Int /\ old.overlap \in Int /\ new.mustHave \in Int
      /\ old.mustHave \in Int /\ new.niceToHave \in Int /\ old.niceToHave \in Int
      /\ new.length \in Int /\ old.length \in Int
  BY VacancyFields DEF Counts, None
<1>4. \A f \in {"overlap", "mustHave", "niceToHave", "length"} :
        NoWorse(p, f, new, old) => new[f] >= old[f]
  BY DEF NoWorse
<1>5. /\ new.overlap = old.overlap \/ new.overlap >= old.overlap
      /\ new.mustHave = old.mustHave \/ new.mustHave >= old.mustHave
      /\ new.niceToHave = old.niceToHave \/ new.niceToHave >= old.niceToHave
      /\ new.length = old.length \/ new.length >= old.length
  BY <1>2, <1>4
<1>6. NoWorse(p, "years", new, old)
        => new.years # None /\ old.years # None /\ new.years <= old.years
  BY DEF NoWorse
<1>7. NoWorse(p, "mode", new, old) => new.mode \in p.modes \/ new.mode = old.mode
  BY DEF NoWorse
<1>8. NoWorse(p, "city", new, old) => new.city = "preferred" \/ new.city = old.city
  BY DEF NoWorse
<1>9. NoWorse(p, "says", new, old) => new.says \subseteq old.says
  BY DEF NoWorse
<1>10. \A f \in {"salaryMin", "salaryMax"} :
         NoWorse(p, f, new, old) => /\ SalaryKnown(new) /\ SalaryKnown(old)
                                    /\ LowestSalary(new) >= LowestSalary(old)
                                    /\ HighestSalary(new) >= HighestSalary(old)
  BY DEF NoWorse
<1>11. /\ new.overlap >= old.overlap /\ new.mustHave >= old.mustHave
       /\ new.niceToHave >= old.niceToHave /\ new.length >= old.length
  BY <1>3, <1>5
<1>12. new.years = old.years \/ NoWorse(p, "years", new, old)
  BY <1>2
<1>13. new.mode = old.mode \/ NoWorse(p, "mode", new, old)
  BY <1>2
<1>14. new.city = old.city \/ NoWorse(p, "city", new, old)
  BY <1>2
<1>15. new.says = old.says \/ NoWorse(p, "says", new, old)
  BY <1>2
<1>17. /\ new.salaryMin = old.salaryMin \/ NoWorse(p, "salaryMin", new, old)
       /\ new.salaryMax = old.salaryMax \/ NoWorse(p, "salaryMax", new, old)
  BY <1>2
<1>18. \/ new.salaryMin = old.salaryMin /\ new.salaryMax = old.salaryMax
       \/ NoWorse(p, "salaryMin", new, old) \/ NoWorse(p, "salaryMax", new, old)
  BY <1>17
<1> QED BY <1>6, <1>7, <1>8, <1>9, <1>10, <1>11, <1>12, <1>13, <1>14, <1>15, <1>18

LEMMA TitleGrows ==
    ASSUME NEW p, NEW new, IsVacancy(new), NEW old, IsVacancy(old), Better(p, new, old),
           NEW w \in Nat
    PROVE  ScoreTitleMatch(new, p, w).score >= ScoreTitleMatch(old, p, w).score
<1>1. new.overlap \in (0..100) \cup {None} /\ old.overlap \in (0..100) \cup {None}
  BY DEF IsVacancy, FieldTypes
<1>2. new.overlap >= old.overlap
  BY BetterFields
<1>3. /\ Share(w, 25) \in Int /\ Share(w, 50) \in Int /\ Share(w, 80) \in Int
      /\ 0 <= Share(w, 25) /\ Share(w, 25) <= Share(w, 50) /\ Share(w, 50) <= Share(w, 80)
      /\ Share(w, 80) <= w
  BY SharesInOrder
<1> QED BY <1>1, <1>2, <1>3 DEF ScoreTitleMatch, Result, None

LEMMA SkillsGrow ==
    ASSUME NEW id \in DOMAIN ScoreProfiles, NEW p, p = ScoreProfiles[id],
           NEW new, IsVacancy(new), NEW old, IsVacancy(old), Better(p, new, old), NEW w \in Nat
    PROVE  /\ ScoreMustHaveSkills(new, p, w).score >= ScoreMustHaveSkills(old, p, w).score
           /\ ScoreNiceToHaveSkills(new, p, w).score >= ScoreNiceToHaveSkills(old, p, w).score
           /\ ScoreMustHaveSkills(new, p, w).flags \subseteq ScoreMustHaveSkills(old, p, w).flags
<1>1. /\ new.mustHave \in Int /\ old.mustHave \in Int /\ new.niceToHave \in Int
      /\ old.niceToHave \in Int /\ p.mustHave \in Nat /\ p.niceToHave \in Nat
      /\ new.mustHave >= old.mustHave /\ new.niceToHave >= old.niceToHave
  BY VacancyFields, ProfileFields, BetterFields
<1>2. /\ w * old.mustHave \in Int /\ w * new.mustHave \in Int
      /\ w * old.mustHave <= w * new.mustHave
  BY <1>1, ProductGrows
<1>3. /\ w * old.niceToHave \in Int /\ w * new.niceToHave \in Int
      /\ w * old.niceToHave <= w * new.niceToHave
  BY <1>1, ProductGrows
<1>4. p.mustHave # 0
        => /\ Round(w * old.mustHave, p.mustHave) <= Round(w * new.mustHave, p.mustHave)
           /\ Round(w * old.mustHave, p.mustHave) \in Int
           /\ Round(w * new.mustHave, p.mustHave) \in Int
  BY <1>1, <1>2, RoundGrows, RoundIsInt
<1>5. p.niceToHave # 0
        => /\ Round(w * old.niceToHave, p.niceToHave) <= Round(w * new.niceToHave, p.niceToHave)
           /\ Round(w * old.niceToHave, p.niceToHave) \in Int
           /\ Round(w * new.niceToHave, p.niceToHave) \in Int
  BY <1>1, <1>3, RoundGrows, RoundIsInt
<1>6. Share(w, 50) \in Int
  BY SharesAreInts
<1>7. ScoreMustHaveSkills(new, p, w).score >= ScoreMustHaveSkills(old, p, w).score
  BY <1>4, <1>6 DEF ScoreMustHaveSkills, Result
<1>8. ScoreNiceToHaveSkills(new, p, w).score >= ScoreNiceToHaveSkills(old, p, w).score
  BY <1>5, <1>6 DEF ScoreNiceToHaveSkills, Result
<1>9. ScoreMustHaveSkills(new, p, w).flags \subseteq ScoreMustHaveSkills(old, p, w).flags
  BY <1>1 DEF ScoreMustHaveSkills, Result
<1> QED BY <1>7, <1>8, <1>9

\* The points of one who has so many years for a vacancy that asks for so many.
Ratio(years, have) == Clamp(Round(1000 * have, IF years > 1 THEN years ELSE 1), 100, 500)
Fit(years, have, w) ==
    IF years <= have THEN w
    ELSE IF years <= have + 2 THEN Share(w, 70) ELSE Round(w * Ratio(years, have), 1000)

\* Within the last band the ratio falls with the years, and at most half of the
\* weight is below the share of the band before.
LEMMA FitFalls ==
    ASSUME NEW have \in Nat, NEW y \in Nat, NEW z \in Nat, y <= z, NEW w \in Nat
    PROVE  Fit(z, have, w) <= Fit(y, have, w) /\ Fit(y, have, w) \in Int /\ Fit(z, have, w) \in Int
<1>1. PICK d \in Int : d = (IF y > 1 THEN y ELSE 1) /\ d > 0
  OBVIOUS
<1>2. PICK e \in Int : e = (IF z > 1 THEN z ELSE 1) /\ e > 0 /\ d <= e
  BY <1>1
<1>3. 1000 * have \in Nat
  OBVIOUS
<1>4. /\ Round(1000 * have, e) <= Round(1000 * have, d)
      /\ Round(1000 * have, e) \in Int /\ Round(1000 * have, d) \in Int
  BY <1>1, <1>2, <1>3, RoundFalls, RoundIsInt
<1>5. /\ Ratio(y, have) \in Int /\ Ratio(z, have) \in Int /\ Ratio(z, have) <= Ratio(y, have)
      /\ Ratio(y, have) <= 500
  BY <1>1, <1>2, <1>4 DEF Ratio, Clamp
<1>6. PICK r \in Int : r = Ratio(y, have)
  BY <1>5
<1>7. PICK s \in Int : s = Ratio(z, have)
  BY <1>5
<1>8. w * s <= w * r /\ w * r <= w * 500 /\ w * s \in Int /\ w * r \in Int /\ w * 500 \in Int
  BY <1>5, <1>6, <1>7, ProductGrows
<1>9. /\ Round(w * s, 1000) <= Round(w * r, 1000)
      /\ Round(w * r, 1000) <= Round(w * 500, 1000)
      /\ Round(w * s, 1000) \in Int /\ Round(w * r, 1000) \in Int
  BY <1>8, RoundGrows, RoundIsInt
<1>10. Round(w * 500, 1000) \in Int /\ Round(w * 500, 1000) <= Share(w, 70)
  BY DEF Round, Share
<1>11. Share(w, 70) \in Int /\ Share(w, 70) <= w
  BY SharesInOrder
<1>12. /\ Fit(y, have, w) = IF y <= have THEN w
                            ELSE IF y <= have + 2 THEN Share(w, 70) ELSE Round(w * r, 1000)
       /\ Fit(z, have, w) = IF z <= have THEN w
                            ELSE IF z <= have + 2 THEN Share(w, 70) ELSE Round(w * s, 1000)
  BY <1>6, <1>7 DEF Fit
<1> QED BY <1>9, <1>10, <1>11, <1>12

LEMMA ExperienceFits ==
    ASSUME NEW v, NEW p, NEW w, NEW have, have = ResolveExperienceYears(p),
           have \in Nat, v.years \in Nat
    PROVE  ScoreExperienceFit(v, p, w).score = Fit(v.years, have, w)
<1>1. have # None /\ v.years # None
  BY DEF None
<1>2. PICK years \in Nat : years = v.years
  OBVIOUS
<1>3. PICK gap \in Int : gap = years - have
  OBVIOUS
<1>4. CASE gap <= 0
  BY <1>1, <1>2, <1>3, <1>4 DEF ScoreExperienceFit, Fit, Result
<1>5. CASE gap \in 1 .. 2
  <2>1. ~ (gap <= 0) /\ ~ (years <= have) /\ years <= have + 2
    BY <1>3, <1>5
  <2> QED BY <1>1, <1>2, <1>3, <1>5, <2>1 DEF ScoreExperienceFit, Fit, Result
<1>6. CASE gap > 2
  <2>1. ~ (gap <= 0) /\ ~ (gap \in 1 .. 2) /\ ~ (years <= have) /\ ~ (years <= have + 2)
    BY <1>3, <1>6
  <2> QED BY <1>1, <1>2, <1>3, <1>6, <2>1 DEF ScoreExperienceFit, Fit, Ratio, Result
<1> QED BY <1>3, <1>4, <1>5, <1>6

LEMMA ExperienceGrows ==
    ASSUME NEW id \in DOMAIN ScoreProfiles, NEW p, p = ScoreProfiles[id],
           NEW new, IsVacancy(new), NEW old, IsVacancy(old), Better(p, new, old), NEW w \in Nat
    PROVE  ScoreExperienceFit(new, p, w).score >= ScoreExperienceFit(old, p, w).score
<1>1. PICK have : have = ResolveExperienceYears(p)
  OBVIOUS
<1>2. /\ new.years \in Counts /\ old.years \in Counts /\ have \in Counts
      /\ ScoreExperienceFit(new, p, w).score \in Int
  BY <1>1, VacancyFields, ProfileFields, ExperienceIsInt
  DEF ResolveExperienceYears, SeniorityYears, Counts, None
<1>3. \/ new.years = old.years
      \/ new.years # None /\ old.years # None /\ new.years <= old.years
  BY BetterFields
<1>4. CASE have = None \/ new.years = None \/ old.years = None
  <2>1. have # None => new.years = old.years
    BY <1>3, <1>4
  <2>2. /\ ScoreExperienceFit(new, p, w).score = Share(w, 50)
        /\ ScoreExperienceFit(old, p, w).score = Share(w, 50)
    BY <1>1, <1>4, <2>1 DEF ScoreExperienceFit, Result
  <2> QED BY <1>2, <2>2
<1>5. CASE have # None /\ new.years # None /\ old.years # None
  <2>1. have \in Nat /\ new.years \in Nat /\ old.years \in Nat /\ new.years <= old.years
    BY <1>2, <1>3, <1>5 DEF Counts, None
  <2>2. /\ ScoreExperienceFit(new, p, w).score = Fit(new.years, have, w)
        /\ ScoreExperienceFit(old, p, w).score = Fit(old.years, have, w)
    BY <1>1, <2>1, ExperienceFits
  <2>3. /\ Fit(old.years, have, w) <= Fit(new.years, have, w)
        /\ Fit(new.years, have, w) \in Int /\ Fit(old.years, have, w) \in Int
    BY <2>1, FitFalls
  <2> QED BY <2>2, <2>3
<1> QED BY <1>4, <1>5

\* Three modes are told apart, and an unknown one is none of them.
LEMMA LocationGrows ==
    ASSUME NEW id \in DOMAIN ScoreProfiles, NEW p, p = ScoreProfiles[id],
           NEW new, IsVacancy(new), NEW old, IsVacancy(old), Better(p, new, old), NEW w \in Nat
    PROVE  /\ ScoreWorkModeLocation(new, p, w).score >= ScoreWorkModeLocation(old, p, w).score
           /\ ScoreWorkModeLocation(new, p, w).flags \subseteq ScoreWorkModeLocation(old, p, w).flags
<1>1. p.modes \subseteq {"remote", "hybrid", "office"}
  BY ScoringAssumption DEF ProfileTypes
<1>2. PICK modeWeight \in Nat :
        /\ modeWeight = (IF p.hasCities THEN Share(w, 60) ELSE w) /\ modeWeight <= w
  <2>1. Share(w, 60) \in Int /\ 0 <= Share(w, 60) /\ Share(w, 60) <= w
    BY SharesInOrder
  <2>2. PICK n : n = IF p.hasCities THEN Share(w, 60) ELSE w
    OBVIOUS
  <2>3. n \in Nat /\ n <= w
    BY <2>1, <2>2
  <2> QED BY <2>2, <2>3
<1>3. PICK cityWeight \in Nat : cityWeight = w - modeWeight
  BY <1>2
<1>4. \A n \in Nat : Share(n, 50) \in Int /\ 0 <= Share(n, 50) /\ Share(n, 50) <= n
  <2>1. SUFFICES ASSUME NEW n \in Nat
                 PROVE  Share(n, 50) \in Int /\ 0 <= Share(n, 50) /\ Share(n, 50) <= n
    OBVIOUS
  <2> QED BY <2>1, SharesInOrder
<1>5. /\ Share(modeWeight, 50) \in Int /\ Share(cityWeight, 50) \in Int
      /\ 0 <= Share(modeWeight, 50) /\ Share(modeWeight, 50) <= modeWeight
      /\ 0 <= Share(cityWeight, 50) /\ Share(cityWeight, 50) <= cityWeight
  BY <1>4
<1> DEFINE Neutral(v) == p.modes = {} \/ v.mode = "unknown"
           Mode(v) == IF Neutral(v) THEN Share(modeWeight, 50)
                      ELSE IF v.mode \in p.modes THEN modeWeight ELSE 0
           City(v) == CASE ~ p.hasCities \/ v.city = "unknown" -> Share(cityWeight, 50)
                        [] v.city = "preferred" -> cityWeight
                        [] OTHER -> 0
<1>6. \A v \in {new, old} :
        ScoreWorkModeLocation(v, p, w) =
          [score |-> Clamp(Mode(v) + City(v), 0, w),
           flags |-> IF ~ Neutral(v) /\ v.mode \notin p.modes
                     THEN {<<"work_mode_mismatch", "medium">>} ELSE {}]
  BY <1>2, <1>3 DEF ScoreWorkModeLocation, Result, Flag
<1>7. /\ new.mode \in p.modes \/ new.mode = old.mode
      /\ new.city = "preferred" \/ new.city = old.city
  BY BetterFields
<1>8. Mode(new) \in Int /\ Mode(old) \in Int /\ Mode(old) <= Mode(new)
  BY <1>1, <1>2, <1>5, <1>7
<1>9. City(new) \in Int /\ City(old) \in Int /\ City(old) <= City(new)
  BY <1>3, <1>5, <1>7
<1>10. ~ Neutral(new) /\ new.mode \notin p.modes => ~ Neutral(old) /\ old.mode \notin p.modes
  BY <1>7
<1> HIDE DEF Mode, City, Neutral
<1>11. /\ ScoreWorkModeLocation(new, p, w).score = Clamp(Mode(new) + City(new), 0, w)
       /\ ScoreWorkModeLocation(old, p, w).score = Clamp(Mode(old) + City(old), 0, w)
  BY <1>6
<1>12. Clamp(Mode(old) + City(old), 0, w) <= Clamp(Mode(new) + City(new), 0, w)
  BY <1>8, <1>9 DEF Clamp
<1>13. ScoreWorkModeLocation(new, p, w).flags \subseteq ScoreWorkModeLocation(old, p, w).flags
  BY <1>6, <1>10
<1>14. Clamp(Mode(old) + City(old), 0, w) \in Int /\ Clamp(Mode(new) + City(new), 0, w) \in Int
  BY <1>8, <1>9 DEF Clamp
<1> QED BY <1>11, <1>12, <1>13, <1>14

\* A salary in the band below the wish may score more than one that covers it in
\* part; the penalty makes up for it as long as the weight is at most 51.
Lost(flags) == IF <<"salary_below_minimum", "medium">> \in flags THEN 15 ELSE 0

LEMMA SalaryGrows ==
    ASSUME NEW id \in DOMAIN ScoreProfiles, NEW p, p = ScoreProfiles[id],
           NEW new, IsVacancy(new), NEW old, IsVacancy(old), Better(p, new, old),
           NEW w \in 0 .. 51
    PROVE  ScoreSalaryFit(new, p, w).score - Lost(ScoreSalaryFit(new, p, w).flags)
             >= ScoreSalaryFit(old, p, w).score - Lost(ScoreSalaryFit(old, p, w).flags)
<1>1. /\ HighestSalary(new) \in Nat /\ HighestSalary(old) \in Nat
      /\ LowestSalary(new) \in Nat /\ LowestSalary(old) \in Nat
  BY VacancyFields DEF HighestSalary, LowestSalary, Counts
<1>2. p.salary \in Counts
  BY ProfileFields
<1>3. /\ ScoreSalaryFit(new, p, w).score \in Int /\ ScoreSalaryFit(old, p, w).score \in Int
  BY SalaryIsInt
<1>4. CASE new.salaryMin = old.salaryMin /\ new.salaryMax = old.salaryMax
  <2>1. ScoreSalaryFit(new, p, w) = ScoreSalaryFit(old, p, w)
    BY <1>4 DEF ScoreSalaryFit, SalaryKnown, HighestSalary, LowestSalary
  <2>2. Lost(ScoreSalaryFit(new, p, w).flags) \in Int
    BY DEF Lost
  <2> QED BY <1>3, <2>1, <2>2
<1>5. CASE /\ SalaryKnown(new) /\ SalaryKnown(old)
           /\ LowestSalary(new) >= LowestSalary(old) /\ HighestSalary(new) >= HighestSalary(old)
  <2>1. CASE p.salary = None
    <3>1. /\ ScoreSalaryFit(new, p, w) = [score |-> Share(w, 50), flags |-> {}]
          /\ ScoreSalaryFit(old, p, w) = [score |-> Share(w, 50), flags |-> {}]
      BY <1>5, <2>1 DEF ScoreSalaryFit, Result
    <3>2. Share(w, 50) \in Int
      BY SharesAreInts
    <3> QED BY <3>1, <3>2 DEF Lost
  <2>2. CASE p.salary # None
    <3>1. PICK wanted \in Nat : wanted = p.salary /\ wanted # None
      BY <1>2, <2>2 DEF Counts
    <3>2. PICK a \in Nat : a = HighestSalary(new)
      BY <1>1
    <3>3. PICK b \in Nat : b = HighestSalary(old)
      BY <1>1
    <3> DEFINE Below(h) == Clamp(Round(w * h, wanted), 0, w)
               Above(v) == IF LowestSalary(v) < wanted THEN Share(w, 70) ELSE w
    <3>4. /\ a < wanted
             => ScoreSalaryFit(new, p, w) =
                  [score |-> Below(a), flags |-> {<<"salary_below_minimum", "medium">>}]
          /\ ~ (a < wanted)
             => ScoreSalaryFit(new, p, w) = [score |-> Above(new), flags |-> {}]
      BY <1>5, <3>1, <3>2 DEF ScoreSalaryFit, Result, Flag
    <3>5. /\ b < wanted
             => ScoreSalaryFit(old, p, w) =
                  [score |-> Below(b), flags |-> {<<"salary_below_minimum", "medium">>}]
          /\ ~ (b < wanted)
             => ScoreSalaryFit(old, p, w) = [score |-> Above(old), flags |-> {}]
      BY <1>5, <3>1, <3>3 DEF ScoreSalaryFit, Result, Flag
    <3>6. a >= b
      BY <1>5, <3>2, <3>3
    <3>7. a < wanted => Below(a) \in Int /\ Below(b) \in Int /\ Below(b) <= Below(a)
      <4>1. SUFFICES ASSUME a < wanted
                     PROVE  Below(a) \in Int /\ Below(b) \in Int /\ Below(b) <= Below(a)
        OBVIOUS
      <4>2. w * b <= w * a /\ w * b \in Int /\ w * a \in Int
        BY <3>6, ProductGrows
      <4>3. /\ Round(w * b, wanted) <= Round(w * a, wanted)
            /\ Round(w * b, wanted) \in Int /\ Round(w * a, wanted) \in Int
        BY <4>1, <4>2, RoundGrows, RoundIsInt
      <4> QED BY <4>3 DEF Clamp
    <3>8. b < wanted => Below(b) \in Int /\ Below(b) <= w
      <4>1. SUFFICES ASSUME b < wanted PROVE Below(b) \in Int /\ Below(b) <= w
        OBVIOUS
      <4>2. w * b \in Int
        BY ProductGrows
      <4>3. Round(w * b, wanted) \in Int
        BY <4>1, <4>2, RoundIsInt
      <4> QED BY <4>3 DEF Clamp
    <3>9. Share(w, 70) \in Int /\ Share(w, 70) <= w /\ w - 15 <= Share(w, 70)
      <4>1. w \in Nat /\ Share(w, 70) \in Int /\ Share(w, 70) <= w
        <5>1. w \in Nat
          OBVIOUS
        <5> QED BY <5>1, SharesInOrder
      <4>2. w - 15 <= Share(w, 70)
        BY DEF Share, Round
      <4> QED BY <4>1, <4>2
    <3>10. /\ Above(new) \in Int /\ Above(old) \in Int /\ Above(old) <= Above(new)
           /\ w - 15 <= Above(new)
      BY <1>1, <1>5, <3>9
    <3> HIDE DEF Below, Above
    <3>11. CASE a < wanted
      <4>1. b < wanted
        BY <3>6, <3>11
      <4> QED BY <3>4, <3>5, <3>7, <3>11, <4>1 DEF Lost
    <3>12. CASE ~ (a < wanted) /\ b < wanted
      BY <3>4, <3>5, <3>8, <3>10, <3>12 DEF Lost
    <3>13. CASE ~ (a < wanted) /\ ~ (b < wanted)
      BY <3>4, <3>5, <3>10, <3>13 DEF Lost
    <3> QED BY <3>11, <3>12, <3>13
  <2> QED BY <2>1, <2>2
<1> QED BY <1>4, <1>5, BetterFields

\* What a description costs.
Taken(v, w) ==
    (IF "relocation" \in v.says THEN Share(w, 20) ELSE 0)
    + (IF v.length < 100 THEN Share(w, 15) ELSE IF v.length < 250 THEN Share(w, 5) ELSE 0)
    + (IF "suspicious" \in v.says THEN Share(w, 30) ELSE 0)

LEMMA MiscTakes ==
    ASSUME NEW v, v.length \in Nat, NEW w \in Nat
    PROVE  /\ ScoreLanguageScheduleMisc(v, w).score = Clamp(w - Taken(v, w), 0, w)
           /\ <<"vague_description", "low">> \in ScoreLanguageScheduleMisc(v, w).flags
                <=> v.length < 100
           /\ <<"suspicious_wording", "medium">> \in ScoreLanguageScheduleMisc(v, w).flags
                <=> "suspicious" \in v.says
<1>1. /\ Share(w, 5) \in Int /\ Share(w, 15) \in Int
      /\ Share(w, 20) \in Int /\ Share(w, 30) \in Int
  <2>1. \A a \in 0 .. 100 : Share(w, a) \in Int
    BY SharesInOrder
  <2> QED BY <2>1
<1>2. ScoreLanguageScheduleMisc(v, w).score =
        Clamp(w - (IF "relocation" \in v.says THEN Share(w, 20) ELSE 0)
                - (IF v.length < 100 THEN Share(w, 15) ELSE 0)
                - (IF ~ (v.length < 100) /\ v.length < 250 THEN Share(w, 5) ELSE 0)
                - (IF "suspicious" \in v.says THEN Share(w, 30) ELSE 0), 0, w)
  BY DEF ScoreLanguageScheduleMisc, Result
<1>3. w - (IF "relocation" \in v.says THEN Share(w, 20) ELSE 0)
        - (IF v.length < 100 THEN Share(w, 15) ELSE 0)
        - (IF ~ (v.length < 100) /\ v.length < 250 THEN Share(w, 5) ELSE 0)
        - (IF "suspicious" \in v.says THEN Share(w, 30) ELSE 0) = w - Taken(v, w)
  BY <1>1 DEF Taken
<1>4. ScoreLanguageScheduleMisc(v, w).score = Clamp(w - Taken(v, w), 0, w)
  BY <1>2, <1>3
<1>5. /\ <<"vague_description", "low">> \in ScoreLanguageScheduleMisc(v, w).flags
           <=> v.length < 100
      /\ <<"suspicious_wording", "medium">> \in ScoreLanguageScheduleMisc(v, w).flags
           <=> "suspicious" \in v.says
  BY DEF ScoreLanguageScheduleMisc, Result, Flag
<1> QED BY <1>4, <1>5

LEMMA MiscGrows ==
    ASSUME NEW p, NEW new, IsVacancy(new), NEW old, IsVacancy(old), Better(p, new, old),
           NEW w \in Nat
    PROVE  /\ ScoreLanguageScheduleMisc(new, w).score >= ScoreLanguageScheduleMisc(old, w).score
           /\ \A f \in {<<"vague_description", "low">>, <<"suspicious_wording", "medium">>} :
                f \in ScoreLanguageScheduleMisc(new, w).flags
                  => f \in ScoreLanguageScheduleMisc(old, w).flags
<1>1. /\ new.length \in Nat /\ old.length \in Nat /\ new.length >= old.length
      /\ new.says \subseteq old.says
  BY VacancyFields, BetterFields
<1>2. /\ Share(w, 5) \in Int /\ Share(w, 15) \in Int /\ Share(w, 20) \in Int
      /\ Share(w, 30) \in Int /\ 0 <= Share(w, 5) /\ Share(w, 5) <= Share(w, 15)
      /\ 0 <= Share(w, 20) /\ 0 <= Share(w, 30)
  BY SharesInOrder
<1>3. Taken(new, w) \in Int /\ Taken(old, w) \in Int /\ Taken(new, w) <= Taken(old, w)
  BY <1>1, <1>2 DEF Taken
<1>4. Clamp(w - Taken(new, w), 0, w) >= Clamp(w - Taken(old, w), 0, w)
  BY <1>3 DEF Clamp
<1>5. /\ ScoreLanguageScheduleMisc(new, w).score = Clamp(w - Taken(new, w), 0, w)
      /\ <<"vague_description", "low">> \in ScoreLanguageScheduleMisc(new, w).flags
           <=> new.length < 100
      /\ <<"suspicious_wording", "medium">> \in ScoreLanguageScheduleMisc(new, w).flags
           <=> "suspicious" \in new.says
  BY <1>1, MiscTakes
<1>6. /\ ScoreLanguageScheduleMisc(old, w).score = Clamp(w - Taken(old, w), 0, w)
      /\ <<"vague_description", "low">> \in ScoreLanguageScheduleMisc(old, w).flags
           <=> old.length < 100
      /\ <<"suspicious_wording", "medium">> \in ScoreLanguageScheduleMisc(old, w).flags
           <=> "suspicious" \in old.says
  BY <1>1, MiscTakes
<1>7. new.length < 100 => old.length < 100
  BY <1>1
<1> QED BY <1>1, <1>4, <1>5, <1>6, <1>7

-----------------------------------------------------------------------------
\* The score of a vacancy, taken apart.
Components(v, p) ==
    <<ScoreTitleMatch(v, p, WeightsOf(p).titleMatch),
      ScoreMustHaveSkills(v, p, WeightsOf(p).mustHaveSkills),
      ScoreNiceToHaveSkills(v, p, WeightsOf(p).niceToHaveSkills),
      ScoreExperienceFit(v, p, WeightsOf(p).experienceFit),
      ScoreWorkModeLocation(v, p, WeightsOf(p).workModeLocation),
      ScoreSalaryFit(v, p, WeightsOf(p).salaryFit),
      ScoreCompanyPreference(NoCompany, WeightsOf(p).companyPreference),
      ScoreLanguageScheduleMisc(v, WeightsOf(p).languageScheduleMisc)>>
Raised(parts) == UNION {parts[i].flags : i \in DOMAIN parts}
Points(parts) ==
    parts[1].score + parts[2].score + parts[3].score + parts[4].score
    + parts[5].score + parts[6].score + parts[7].score + parts[8].score
Total(parts) ==
    ApplyCaps(Clamp(Points(parts) - Penalty(Raised(parts)), 0, 100), Raised(parts))

LEMMA ScoreOfComponents ==
    ASSUME NEW v, NEW p
    PROVE  ScoreJob(v, p, NoCompany) =
             [total |-> Total(Components(v, p)),
              recommendation |-> DetermineRecommendation(Total(Components(v, p)),
                                                         Raised(Components(v, p))),
              flags |-> Raised(Components(v, p))]
BY DEF ScoreJob, Components, Raised, Points, Total

\* Which component raises which flag.
LEMMA FlagsOfComponents ==
    ASSUME NEW v, IsVacancy(v), NEW id \in DOMAIN ScoreProfiles, NEW p, p = ScoreProfiles[id],
           NEW w
    PROVE  /\ ScoreTitleMatch(v, p, w).flags = {} /\ ScoreNiceToHaveSkills(v, p, w).flags = {}
           /\ ScoreMustHaveSkills(v, p, w).flags \subseteq {<<"missing_core_skill", "high">>}
           /\ ScoreExperienceFit(v, p, w).flags \subseteq
                {<<"overqualified", "low">>, <<"underqualified", "high">>,
                 <<"underqualified", "medium">>}
           /\ ScoreWorkModeLocation(v, p, w).flags \subseteq {<<"work_mode_mismatch", "medium">>}
           /\ ScoreSalaryFit(v, p, w).flags \subseteq
                {<<"salary_unknown", "info">>, <<"salary_below_minimum", "medium">>}
           /\ ScoreCompanyPreference(NoCompany, w).flags \subseteq
                {<<"company_blacklist", "critical">>, <<"company_blacklist", "low">>}
           /\ ScoreLanguageScheduleMisc(v, w).flags \subseteq
                {<<"relocation_required", "low">>, <<"vague_description", "low">>,
                 <<"agency_without_employer", "low">>, <<"unpaid_test_task_risk", "medium">>,
                 <<"suspicious_wording", "medium">>}
<1>1. ScoreTitleMatch(v, p, w).flags = {} /\ ScoreNiceToHaveSkills(v, p, w).flags = {}
  BY DEF ScoreTitleMatch, ScoreNiceToHaveSkills, Result
<1>2. ScoreMustHaveSkills(v, p, w).flags \subseteq {<<"missing_core_skill", "high">>}
  BY DEF ScoreMustHaveSkills, Result, Flag
<1>3. ScoreExperienceFit(v, p, w).flags \subseteq
        {<<"overqualified", "low">>, <<"underqualified", "high">>, <<"underqualified", "medium">>}
  <2>1. PICK have : have = ResolveExperienceYears(p)
    OBVIOUS
  <2>2. v.years \in Int /\ have \in Int
    BY <2>1, VacancyFields, ProfileFields
    DEF ResolveExperienceYears, SeniorityYears, Counts, None
  <2>3. PICK gap \in Int : gap = v.years - have
    BY <2>2
  <2>4. gap <= 0 \/ gap \in 1 .. 2 \/ gap > 2
    BY <2>3
  <2> QED BY <2>1, <2>3, <2>4 DEF ScoreExperienceFit, Result, Flag
<1>4. ScoreWorkModeLocation(v, p, w).flags \subseteq {<<"work_mode_mismatch", "medium">>}
  BY DEF ScoreWorkModeLocation, Result, Flag
<1>5. ScoreSalaryFit(v, p, w).flags \subseteq
        {<<"salary_unknown", "info">>, <<"salary_below_minimum", "medium">>}
  BY DEF ScoreSalaryFit, Result, Flag
<1>6. ScoreCompanyPreference(NoCompany, w).flags \subseteq
        {<<"company_blacklist", "critical">>, <<"company_blacklist", "low">>}
  BY DEF ScoreCompanyPreference, Result, Flag
<1>7. ScoreLanguageScheduleMisc(v, w).flags \subseteq
        {<<"relocation_required", "low">>, <<"vague_description", "low">>,
         <<"agency_without_employer", "low">>, <<"unpaid_test_task_risk", "medium">>,
         <<"suspicious_wording", "medium">>}
  BY DEF ScoreLanguageScheduleMisc, Result, Flag
<1> QED BY <1>1, <1>2, <1>3, <1>4, <1>5, <1>6, <1>7

LEMMA RaisedByAComponent ==
    ASSUME NEW v, NEW p, NEW w, w = WeightsOf(p), NEW f
    PROVE  f \in Raised(Components(v, p))
             <=> \/ f \in ScoreTitleMatch(v, p, w.titleMatch).flags
                 \/ f \in ScoreMustHaveSkills(v, p, w.mustHaveSkills).flags
                 \/ f \in ScoreNiceToHaveSkills(v, p, w.niceToHaveSkills).flags
                 \/ f \in ScoreExperienceFit(v, p, w.experienceFit).flags
                 \/ f \in ScoreWorkModeLocation(v, p, w.workModeLocation).flags
                 \/ f \in ScoreSalaryFit(v, p, w.salaryFit).flags
                 \/ f \in ScoreCompanyPreference(NoCompany, w.companyPreference).flags
                 \/ f \in ScoreLanguageScheduleMisc(v, w.languageScheduleMisc).flags
<1>1. PICK parts : parts = Components(v, p)
  OBVIOUS
<1>2. /\ DOMAIN parts = 1 .. 8
      /\ parts[1] = ScoreTitleMatch(v, p, w.titleMatch)
      /\ parts[2] = ScoreMustHaveSkills(v, p, w.mustHaveSkills)
      /\ parts[3] = ScoreNiceToHaveSkills(v, p, w.niceToHaveSkills)
      /\ parts[4] = ScoreExperienceFit(v, p, w.experienceFit)
      /\ parts[5] = ScoreWorkModeLocation(v, p, w.workModeLocation)
      /\ parts[6] = ScoreSalaryFit(v, p, w.salaryFit)
      /\ parts[7] = ScoreCompanyPreference(NoCompany, w.companyPreference)
      /\ parts[8] = ScoreLanguageScheduleMisc(v, w.languageScheduleMisc)
  BY <1>1 DEF Components
<1>3. f \in Raised(parts) <=> \E i \in 1 .. 8 : f \in parts[i].flags
  BY <1>2 DEF Raised
<1>4. f \in Raised(parts)
        <=> \/ f \in parts[1].flags \/ f \in parts[2].flags \/ f \in parts[3].flags
            \/ f \in parts[4].flags \/ f \in parts[5].flags \/ f \in parts[6].flags
            \/ f \in parts[7].flags \/ f \in parts[8].flags
  <2>1. \A i \in 1 .. 8 : i = 1 \/ i = 2 \/ i = 3 \/ i = 4 \/ i = 5 \/ i = 6 \/ i = 7 \/ i = 8
    OBVIOUS
  <2>2. 1 \in 1 .. 8 /\ 2 \in 1 .. 8 /\ 3 \in 1 .. 8 /\ 4 \in 1 .. 8
        /\ 5 \in 1 .. 8 /\ 6 \in 1 .. 8 /\ 7 \in 1 .. 8 /\ 8 \in 1 .. 8
    OBVIOUS
  <2> QED BY <1>3, <2>1, <2>2
<1> QED BY <1>1, <1>2, <1>4

\* Each flag that costs points or has a cap is raised by one component only.
LEMMA FlagIsOfItsComponent ==
    ASSUME NEW v, IsVacancy(v), NEW id \in DOMAIN ScoreProfiles, NEW p, p = ScoreProfiles[id],
           NEW w, w = WeightsOf(p)
    PROVE  /\ <<"salary_below_minimum", "medium">> \in Raised(Components(v, p))
                <=> <<"salary_below_minimum", "medium">> \in ScoreSalaryFit(v, p, w.salaryFit).flags
           /\ \A f \in {<<"vague_description", "low">>, <<"suspicious_wording", "medium">>} :
                f \in Raised(Components(v, p))
                  <=> f \in ScoreLanguageScheduleMisc(v, w.languageScheduleMisc).flags
           /\ <<"company_blacklist", "critical">> \in Raised(Components(v, p))
                <=> <<"company_blacklist", "critical">>
                      \in ScoreCompanyPreference(NoCompany, w.companyPreference).flags
           /\ <<"work_mode_mismatch", "medium">> \in Raised(Components(v, p))
                <=> <<"work_mode_mismatch", "medium">>
                      \in ScoreWorkModeLocation(v, p, w.workModeLocation).flags
           /\ <<"missing_core_skill", "high">> \in Raised(Components(v, p))
                <=> <<"missing_core_skill", "high">>
                      \in ScoreMustHaveSkills(v, p, w.mustHaveSkills).flags
           /\ \A f \in Raised(Components(v, p)) :
                f[2] = "critical" => f = <<"company_blacklist", "critical">>
<1>1. PICK must : must = ScoreMustHaveSkills(v, p, w.mustHaveSkills).flags
  OBVIOUS
<1>2. PICK fit : fit = ScoreExperienceFit(v, p, w.experienceFit).flags
  OBVIOUS
<1>3. PICK place : place = ScoreWorkModeLocation(v, p, w.workModeLocation).flags
  OBVIOUS
<1>4. PICK salary : salary = ScoreSalaryFit(v, p, w.salaryFit).flags
  OBVIOUS
<1>5. PICK employer : employer = ScoreCompanyPreference(NoCompany, w.companyPreference).flags
  OBVIOUS
<1>6. PICK misc : misc = ScoreLanguageScheduleMisc(v, w.languageScheduleMisc).flags
  OBVIOUS
<1>7. /\ must \subseteq {<<"missing_core_skill", "high">>}
      /\ fit \subseteq {<<"overqualified", "low">>, <<"underqualified", "high">>,
                          <<"underqualified", "medium">>}
      /\ place \subseteq {<<"work_mode_mismatch", "medium">>}
      /\ salary \subseteq {<<"salary_unknown", "info">>, <<"salary_below_minimum", "medium">>}
      /\ employer \subseteq {<<"company_blacklist", "critical">>, <<"company_blacklist", "low">>}
      /\ misc \subseteq {<<"relocation_required", "low">>, <<"vague_description", "low">>,
                 <<"agency_without_employer", "low">>, <<"unpaid_test_task_risk", "medium">>,
                 <<"suspicious_wording", "medium">>}
  BY <1>1, <1>2, <1>3, <1>4, <1>5, <1>6, FlagsOfComponents
<1>8. /\ ScoreTitleMatch(v, p, w.titleMatch).flags = {}
      /\ ScoreNiceToHaveSkills(v, p, w.niceToHaveSkills).flags = {}
  BY FlagsOfComponents
<1>9. \A f : f \in Raised(Components(v, p))
               <=> \/ f \in must \/ f \in fit \/ f \in place \/ f \in salary
                     \/ f \in employer \/ f \in misc
  BY <1>1, <1>2, <1>3, <1>4, <1>5, <1>6, <1>8, RaisedByAComponent
<1>10. <<"salary_below_minimum", "medium">> \in Raised(Components(v, p))
         <=> <<"salary_below_minimum", "medium">> \in salary
  BY <1>7, <1>9
<1>11. /\ <<"vague_description", "low">> \in Raised(Components(v, p))
            <=> <<"vague_description", "low">> \in misc
       /\ <<"suspicious_wording", "medium">> \in Raised(Components(v, p))
            <=> <<"suspicious_wording", "medium">> \in misc
  BY <1>7, <1>9
<1>12. /\ <<"company_blacklist", "critical">> \in Raised(Components(v, p))
            <=> <<"company_blacklist", "critical">> \in employer
       /\ <<"work_mode_mismatch", "medium">> \in Raised(Components(v, p))
            <=> <<"work_mode_mismatch", "medium">> \in place
       /\ <<"missing_core_skill", "high">> \in Raised(Components(v, p))
            <=> <<"missing_core_skill", "high">> \in must
  BY <1>7, <1>9
<1>13. \A f \in Raised(Components(v, p)) :
         f[2] = "critical" => f = <<"company_blacklist", "critical">>
  BY <1>7, <1>9
<1> QED BY <1>1, <1>3, <1>4, <1>5, <1>6, <1>10, <1>11, <1>12, <1>13

\* Of two sets of flags, the smaller one costs and caps no more.
LEMMA CapsGrow ==
    ASSUME NEW less \in 0 .. 100, NEW more \in 0 .. 100, less <= more, NEW old, NEW new,
           \A f \in DOMAIN CapRules : f \in new => f \in old
    PROVE  ApplyCaps(less, old) <= ApplyCaps(more, new)
<1> DEFINE S(total, flags) == {total} \cup {CapRules[f] : f \in flags \cap DOMAIN CapRules}
<1>1. \A f \in DOMAIN CapRules : CapRules[f] \in 0 .. 100
  BY DEF CapRules
<1>2. ASSUME NEW total \in 0 .. 100, NEW flags
      PROVE  /\ ApplyCaps(total, flags) \in S(total, flags)
             /\ \A c \in S(total, flags) : ApplyCaps(total, flags) <= c
  <2>1. PICK T : T = S(total, flags)
    OBVIOUS
  <2>2. T \in SUBSET Nat /\ T # {}
    BY <1>1, <2>1
  <2>3. \E n \in T : \A c \in T : n <= c
    BY <2>2, LeastOf
  <2>4. ApplyCaps(total, flags) = CHOOSE n \in T : \A c \in T : n <= c
    BY <2>1 DEF ApplyCaps
  <2> QED BY <2>1, <2>3, <2>4
<1>3. ApplyCaps(more, new) \in S(more, new) /\ ApplyCaps(less, old) \in Int
  <2>1. ApplyCaps(less, old) \in 0 .. 100
    BY CapsHold
  <2> QED BY <1>2, <2>1
<1>4. \A c \in S(less, old) : ApplyCaps(less, old) <= c
  BY <1>2
<1>5. CASE ApplyCaps(more, new) = more
  BY <1>3, <1>4, <1>5
<1>6. CASE \E f \in new \cap DOMAIN CapRules : ApplyCaps(more, new) = CapRules[f]
  BY <1>4, <1>6
<1> QED BY <1>3, <1>5, <1>6

Verdicts == <<"skip", "consider", "apply">>

LEMMA VerdictPlaces ==
    /\ Place(Verdicts, "skip") = 1 /\ Place(Verdicts, "consider") = 2
    /\ Place(Verdicts, "apply") = 3
<1>1. DOMAIN Verdicts = 1 .. 3
  BY DEF Verdicts
<1>2. /\ \A i \in 1 .. 3 : Verdicts[i] = "skip" <=> i = 1
      /\ \A i \in 1 .. 3 : Verdicts[i] = "consider" <=> i = 2
      /\ \A i \in 1 .. 3 : Verdicts[i] = "apply" <=> i = 3
  BY DEF Verdicts
<1>3. ASSUME NEW x, NEW k \in 1 .. 3, \A i \in 1 .. 3 : Verdicts[i] = x <=> i = k
      PROVE  Place(Verdicts, x) = k
  BY <1>1, <1>3 DEF Place
<1> QED BY <1>2, <1>3

LEMMA VerdictGrows ==
    ASSUME NEW less \in Int, NEW more \in Int, less <= more, NEW old, NEW new,
           (\E f \in new : f[2] = "critical") => \E f \in old : f[2] = "critical"
    PROVE  Place(Verdicts, DetermineRecommendation(more, new))
             >= Place(Verdicts, DetermineRecommendation(less, old))
<1>1. DetermineRecommendation(more, new) =
        IF \E f \in new : f[2] = "critical" THEN "skip"
        ELSE IF more >= 85 THEN "apply" ELSE IF more >= 50 THEN "consider" ELSE "skip"
  BY DEF DetermineRecommendation
<1>2. DetermineRecommendation(less, old) =
        IF \E f \in old : f[2] = "critical" THEN "skip"
        ELSE IF less >= 85 THEN "apply" ELSE IF less >= 50 THEN "consider" ELSE "skip"
  BY DEF DetermineRecommendation
<1> QED BY <1>1, <1>2, VerdictPlaces

\* The weights of a modest profile.
LEMMA WeightsAreModest ==
    ASSUME NEW id \in DOMAIN ScoreProfiles, NEW p, p = ScoreProfiles[id], Modest(p),
           NEW w, w = WeightsOf(p)
    PROVE  /\ w.titleMatch \in Nat /\ w.mustHaveSkills \in Nat /\ w.niceToHaveSkills \in Nat
           /\ w.experienceFit \in Nat /\ w.workModeLocation \in Nat /\ w.salaryFit \in 0 .. 51
           /\ w.companyPreference \in Nat /\ w.languageScheduleMisc \in Nat
<1>1. /\ w.titleMatch \in Int /\ w.mustHaveSkills \in Int /\ w.niceToHaveSkills \in Int
      /\ w.experienceFit \in Int /\ w.workModeLocation \in Int /\ w.salaryFit \in Int
      /\ w.companyPreference \in Int /\ w.languageScheduleMisc \in Int
  BY WeightsAreInts
<1>2. w.salaryFit <= 51 /\ \A c \in DOMAIN DefaultWeights : w[c] >= 0
  BY DEF Modest
<1>3. {"titleMatch", "mustHaveSkills", "niceToHaveSkills", "experienceFit", "workModeLocation",
       "salaryFit", "companyPreference", "languageScheduleMisc"} = DOMAIN DefaultWeights
  BY DEF DefaultWeights
<1> QED BY <1>1, <1>2, <1>3

LEMMA PointsAreInts ==
    ASSUME NEW v, IsVacancy(v), NEW id \in DOMAIN ScoreProfiles, NEW p, p = ScoreProfiles[id],
           NEW w, w = WeightsOf(p)
    PROVE  /\ ScoreTitleMatch(v, p, w.titleMatch).score \in Int
           /\ ScoreMustHaveSkills(v, p, w.mustHaveSkills).score \in Int
           /\ ScoreNiceToHaveSkills(v, p, w.niceToHaveSkills).score \in Int
           /\ ScoreExperienceFit(v, p, w.experienceFit).score \in Int
           /\ ScoreWorkModeLocation(v, p, w.workModeLocation).score \in Int
           /\ ScoreSalaryFit(v, p, w.salaryFit).score \in Int
           /\ ScoreCompanyPreference(NoCompany, w.companyPreference).score \in Int
           /\ ScoreLanguageScheduleMisc(v, w.languageScheduleMisc).score \in Int
           /\ Points(Components(v, p)) =
                ScoreTitleMatch(v, p, w.titleMatch).score
                + ScoreMustHaveSkills(v, p, w.mustHaveSkills).score
                + ScoreNiceToHaveSkills(v, p, w.niceToHaveSkills).score
                + ScoreExperienceFit(v, p, w.experienceFit).score
                + ScoreWorkModeLocation(v, p, w.workModeLocation).score
                + ScoreSalaryFit(v, p, w.salaryFit).score
                + ScoreCompanyPreference(NoCompany, w.companyPreference).score
                + ScoreLanguageScheduleMisc(v, w.languageScheduleMisc).score
<1>1. /\ w.titleMatch \in Int /\ w.mustHaveSkills \in Int /\ w.niceToHaveSkills \in Int
      /\ w.experienceFit \in Int /\ w.workModeLocation \in Int /\ w.salaryFit \in Int
      /\ w.companyPreference \in Int /\ w.languageScheduleMisc \in Int
  BY WeightsAreInts
<1>2. /\ ScoreTitleMatch(v, p, w.titleMatch).score \in Int
      /\ ScoreMustHaveSkills(v, p, w.mustHaveSkills).score \in Int
      /\ ScoreNiceToHaveSkills(v, p, w.niceToHaveSkills).score \in Int
  BY <1>1, SkillsAreInts
<1>3. /\ ScoreExperienceFit(v, p, w.experienceFit).score \in Int
      /\ ScoreWorkModeLocation(v, p, w.workModeLocation).score \in Int
      /\ ScoreSalaryFit(v, p, w.salaryFit).score \in Int
  BY <1>1, ExperienceIsInt, LocationIsInt, SalaryIsInt
<1>4. /\ ScoreCompanyPreference(NoCompany, w.companyPreference).score \in Int
      /\ ScoreLanguageScheduleMisc(v, w.languageScheduleMisc).score \in Int
  BY <1>1, CompanyIsInt, MiscIsInt
<1>5. Points(Components(v, p)) =
        ScoreTitleMatch(v, p, w.titleMatch).score
        + ScoreMustHaveSkills(v, p, w.mustHaveSkills).score
        + ScoreNiceToHaveSkills(v, p, w.niceToHaveSkills).score
        + ScoreExperienceFit(v, p, w.experienceFit).score
        + ScoreWorkModeLocation(v, p, w.workModeLocation).score
        + ScoreSalaryFit(v, p, w.salaryFit).score
        + ScoreCompanyPreference(NoCompany, w.companyPreference).score
        + ScoreLanguageScheduleMisc(v, w.languageScheduleMisc).score
  BY DEF Points, Components
<1> QED BY <1>2, <1>3, <1>4, <1>5

\* What a better vacancy gains, component by component, outweighs what its flags cost.
LEMMA PointsGrow ==
    ASSUME NEW id \in DOMAIN ScoreProfiles, NEW p, p = ScoreProfiles[id], Modest(p),
           NEW new, IsVacancy(new), NEW old, IsVacancy(old), Better(p, new, old)
    PROVE  /\ Points(Components(new, p)) \in Int /\ Points(Components(old, p)) \in Int
           /\ Points(Components(old, p)) - Penalty(Raised(Components(old, p)))
                <= Points(Components(new, p)) - Penalty(Raised(Components(new, p)))
<1>1. PICK w : w = WeightsOf(p)
  OBVIOUS
<1>2. /\ w.titleMatch \in Nat /\ w.mustHaveSkills \in Nat /\ w.niceToHaveSkills \in Nat
      /\ w.experienceFit \in Nat /\ w.workModeLocation \in Nat /\ w.salaryFit \in 0 .. 51
      /\ w.companyPreference \in Nat /\ w.languageScheduleMisc \in Nat
  BY <1>1, WeightsAreModest
<1>3. ScoreTitleMatch(new, p, w.titleMatch).score >= ScoreTitleMatch(old, p, w.titleMatch).score
  BY <1>2, TitleGrows
<1>4. ScoreMustHaveSkills(new, p, w.mustHaveSkills).score
        >= ScoreMustHaveSkills(old, p, w.mustHaveSkills).score
  BY <1>2, SkillsGrow
<1>5. ScoreNiceToHaveSkills(new, p, w.niceToHaveSkills).score
        >= ScoreNiceToHaveSkills(old, p, w.niceToHaveSkills).score
  BY <1>2, SkillsGrow
<1>6. ScoreExperienceFit(new, p, w.experienceFit).score
        >= ScoreExperienceFit(old, p, w.experienceFit).score
  BY <1>2, ExperienceGrows
<1>7. ScoreWorkModeLocation(new, p, w.workModeLocation).score
        >= ScoreWorkModeLocation(old, p, w.workModeLocation).score
  BY <1>2, LocationGrows
<1>8. ScoreSalaryFit(new, p, w.salaryFit).score - Lost(ScoreSalaryFit(new, p, w.salaryFit).flags)
        >= ScoreSalaryFit(old, p, w.salaryFit).score
             - Lost(ScoreSalaryFit(old, p, w.salaryFit).flags)
  BY <1>2, SalaryGrows
<1>10. /\ ScoreLanguageScheduleMisc(new, w.languageScheduleMisc).score
            >= ScoreLanguageScheduleMisc(old, w.languageScheduleMisc).score
       /\ \A f \in {<<"vague_description", "low">>, <<"suspicious_wording", "medium">>} :
            f \in ScoreLanguageScheduleMisc(new, w.languageScheduleMisc).flags
              => f \in ScoreLanguageScheduleMisc(old, w.languageScheduleMisc).flags
  BY <1>2, MiscGrows
<1> DEFINE Other(flags) ==
             (IF <<"suspicious_wording", "medium">> \in flags THEN 15 ELSE 0)
             + (IF <<"vague_description", "low">> \in flags THEN 5 ELSE 0)
           N == Raised(Components(new, p))
           O == Raised(Components(old, p))
<1>11. \A flags : Penalty(flags) = Lost(flags) + Other(flags) /\ Lost(flags) \in Int
                    /\ Other(flags) \in Int
  BY DEF Penalty, Lost
<1>12. /\ Lost(N) = Lost(ScoreSalaryFit(new, p, w.salaryFit).flags)
       /\ Lost(O) = Lost(ScoreSalaryFit(old, p, w.salaryFit).flags)
  BY <1>1, FlagIsOfItsComponent DEF Lost
<1>13. \A f \in {<<"vague_description", "low">>, <<"suspicious_wording", "medium">>} :
         f \in N => f \in O
  BY <1>1, <1>10, FlagIsOfItsComponent
<1>14. Other(N) <= Other(O)
  BY <1>13
<1> HIDE DEF Other, N, O
<1>15. Points(Components(new, p)) =
         ScoreTitleMatch(new, p, w.titleMatch).score
         + ScoreMustHaveSkills(new, p, w.mustHaveSkills).score
         + ScoreNiceToHaveSkills(new, p, w.niceToHaveSkills).score
         + ScoreExperienceFit(new, p, w.experienceFit).score
         + ScoreWorkModeLocation(new, p, w.workModeLocation).score
         + ScoreSalaryFit(new, p, w.salaryFit).score
         + ScoreCompanyPreference(NoCompany, w.companyPreference).score
         + ScoreLanguageScheduleMisc(new, w.languageScheduleMisc).score
  BY <1>1, PointsAreInts
<1>16. Points(Components(old, p)) =
         ScoreTitleMatch(old, p, w.titleMatch).score
         + ScoreMustHaveSkills(old, p, w.mustHaveSkills).score
         + ScoreNiceToHaveSkills(old, p, w.niceToHaveSkills).score
         + ScoreExperienceFit(old, p, w.experienceFit).score
         + ScoreWorkModeLocation(old, p, w.workModeLocation).score
         + ScoreSalaryFit(old, p, w.salaryFit).score
         + ScoreCompanyPreference(NoCompany, w.companyPreference).score
         + ScoreLanguageScheduleMisc(old, w.languageScheduleMisc).score
  BY <1>1, PointsAreInts
<1>17. \A v \in {new, old} :
         /\ ScoreTitleMatch(v, p, w.titleMatch).score \in Int
         /\ ScoreMustHaveSkills(v, p, w.mustHaveSkills).score \in Int
         /\ ScoreNiceToHaveSkills(v, p, w.niceToHaveSkills).score \in Int
         /\ ScoreExperienceFit(v, p, w.experienceFit).score \in Int
         /\ ScoreWorkModeLocation(v, p, w.workModeLocation).score \in Int
         /\ ScoreSalaryFit(v, p, w.salaryFit).score \in Int
         /\ ScoreCompanyPreference(NoCompany, w.companyPreference).score \in Int
         /\ ScoreLanguageScheduleMisc(v, w.languageScheduleMisc).score \in Int
  BY <1>1, PointsAreInts
<1>18. Points(Components(new, p)) \in Int /\ Points(Components(old, p)) \in Int
  BY <1>15, <1>16, <1>17
<1>19. Points(Components(old, p)) - (Lost(O) + Other(O))
         <= Points(Components(new, p)) - (Lost(N) + Other(N))
  BY <1>3, <1>4, <1>5, <1>6, <1>7, <1>8, <1>10, <1>11, <1>12, <1>14, <1>15, <1>16, <1>17
<1> QED BY <1>11, <1>18, <1>19 DEF N, O

LEMMA BetterScoresNoLess ==
    ASSUME NEW id \in DOMAIN ScoreProfiles, NEW p, p = ScoreProfiles[id], Modest(p),
           NEW new, IsVacancy(new), NEW old, IsVacancy(old), Better(p, new, old)
    PROVE  /\ ScoreJob(new, p, NoCompany).total >= ScoreJob(old, p, NoCompany).total
           /\ Place(Verdicts, ScoreJob(new, p, NoCompany).recommendation)
                >= Place(Verdicts, ScoreJob(old, p, NoCompany).recommendation)
<1> DEFINE N == Raised(Components(new, p))
           O == Raised(Components(old, p))
<1>1. PICK w : w = WeightsOf(p)
  OBVIOUS
<1>2. /\ w.mustHaveSkills \in Nat /\ w.workModeLocation \in Nat /\ w.companyPreference \in Nat
  BY <1>1, WeightsAreModest
<1>3. /\ <<"missing_core_skill", "high">> \in N => <<"missing_core_skill", "high">> \in O
      /\ <<"work_mode_mismatch", "medium">> \in N => <<"work_mode_mismatch", "medium">> \in O
      /\ <<"company_blacklist", "critical">> \in N => <<"company_blacklist", "critical">> \in O
  <2>1. ScoreMustHaveSkills(new, p, w.mustHaveSkills).flags
          \subseteq ScoreMustHaveSkills(old, p, w.mustHaveSkills).flags
    BY <1>2, SkillsGrow
  <2>2. ScoreWorkModeLocation(new, p, w.workModeLocation).flags
          \subseteq ScoreWorkModeLocation(old, p, w.workModeLocation).flags
    BY <1>2, LocationGrows
  <2> QED BY <1>1, <2>1, <2>2, FlagIsOfItsComponent
<1>4. \A f \in DOMAIN CapRules : f \in N => f \in O
  <2>1. DOMAIN CapRules = {<<"company_blacklist", "critical">>, <<"work_mode_mismatch", "medium">>,
                           <<"missing_core_skill", "high">>}
    BY DEF CapRules
  <2> HIDE DEF N, O
  <2> QED BY <1>3, <2>1
<1>5. (\E f \in N : f[2] = "critical") => \E f \in O : f[2] = "critical"
  <2>1. \A f \in N : f[2] = "critical" => f = <<"company_blacklist", "critical">>
    BY <1>1, FlagIsOfItsComponent
  <2>2. <<"company_blacklist", "critical">>[2] = "critical"
    OBVIOUS
  <2> HIDE DEF N, O
  <2> QED BY <1>3, <2>1, <2>2
<1>6. PICK a \in Int : a = Points(Components(old, p)) - Penalty(O)
  BY PointsGrow DEF Penalty
<1>7. PICK b \in Int : b = Points(Components(new, p)) - Penalty(N)
  BY PointsGrow DEF Penalty
<1>8. a <= b
  BY <1>6, <1>7, PointsGrow
<1>9. /\ Clamp(a, 0, 100) \in 0 .. 100 /\ Clamp(b, 0, 100) \in 0 .. 100
      /\ Clamp(a, 0, 100) <= Clamp(b, 0, 100)
  BY <1>8 DEF Clamp
<1>10. /\ Total(Components(old, p)) = ApplyCaps(Clamp(a, 0, 100), O)
       /\ Total(Components(new, p)) = ApplyCaps(Clamp(b, 0, 100), N)
  BY <1>6, <1>7 DEF Total
<1>11. /\ ScoreJob(new, p, NoCompany).total = Total(Components(new, p))
       /\ ScoreJob(new, p, NoCompany).recommendation = DetermineRecommendation(Total(Components(new, p)), N)
       /\ ScoreJob(old, p, NoCompany).total = Total(Components(old, p))
       /\ ScoreJob(old, p, NoCompany).recommendation = DetermineRecommendation(Total(Components(old, p)), O)
  BY ScoreOfComponents
<1> HIDE DEF N, O
<1>12. /\ Total(Components(old, p)) <= Total(Components(new, p))
       /\ Total(Components(old, p)) \in Int /\ Total(Components(new, p)) \in Int
  BY <1>4, <1>9, <1>10, CapsGrow, CapsHold
<1>13. Place(Verdicts, DetermineRecommendation(Total(Components(new, p)), N))
         >= Place(Verdicts, DetermineRecommendation(Total(Components(old, p)), O))
  BY <1>5, <1>12, VerdictGrows
<1> QED BY <1>11, <1>12, <1>13

\* The stored score of a profile that exists is that of the vacancy as it is.
ScoreIsCurrent ==
    ruleScore.profile \in kept
      => ruleScore.result = ScoreJob(vacancy, ScoreProfiles[ruleScore.profile], NoCompany)

\* Where a profile exists, recomputing stores the score for one of those that exist.
LEMMA RecomputedForKept ==
    ASSUME kept # {}, NEW v, NEW explicit, ruleScore' = RecomputeScore(v, explicit)
    PROVE  ruleScore'.result = ScoreJob(v, ScoreProfiles[ruleScore'.profile], NoCompany)
<1>1. PICK id : id = ResolveProfile(explicit)
  OBVIOUS
<1>2. ruleScore' = [profile |-> id, result |-> ScoreJob(v, ScoreProfiles[id], NoCompany)]
  BY <1>1 DEF RecomputeScore
<1>3. ruleScore'.profile = id /\ ruleScore'.result = ScoreJob(v, ScoreProfiles[id], NoCompany)
  BY <1>2
<1> QED BY <1>3

LEMMA CurrentStarts == ScoringInit => ScoreIsCurrent
<1>1. 0 \notin DOMAIN ScoreProfiles
  BY ScoringAssumption
<1>2. NoScore.profile = 0
  BY DEF NoScore
<1> QED BY <1>1, <1>2 DEF ScoringInit, ScoreIsCurrent

LEMMA CurrentStep ==
    ASSUME ScoreIsCurrent, [ScoringNext]_scoringVars
    PROVE  ScoreIsCurrent'
<1>1. CASE UNCHANGED scoringVars
  BY <1>1 DEF scoringVars, ScoreIsCurrent
<1>2. CASE SaveVacancy
  <2>1. kept' = kept /\ \E explicit : ruleScore' = RecomputeScore(vacancy', explicit)
    BY <1>2 DEF SaveVacancy
  <2>2. PICK explicit : ruleScore' = RecomputeScore(vacancy', explicit)
    BY <2>1
  <2>3. PICK v : v = vacancy'
    OBVIOUS
  <2>4. kept # {} => ruleScore'.result = ScoreJob(v, ScoreProfiles[ruleScore'.profile], NoCompany)
    BY <2>2, <2>3, RecomputedForKept
  <2> QED BY <2>1, <2>3, <2>4 DEF ScoreIsCurrent
<1>3. CASE SelectProfile
  <2>1. PICK id \in kept : ruleScore' = RecomputeScore(vacancy, id) /\ vacancy' = vacancy
    BY <1>3 DEF SelectProfile
  <2>2. PICK v : v = vacancy
    OBVIOUS
  <2>3. ruleScore'.result = ScoreJob(v, ScoreProfiles[ruleScore'.profile], NoCompany)
    BY <2>1, <2>2, RecomputedForKept
  <2> QED BY <2>1, <2>2, <2>3 DEF ScoreIsCurrent
<1>4. CASE DeleteProfile
  BY <1>4 DEF DeleteProfile, ScoreIsCurrent
<1> QED BY <1>1, <1>2, <1>3, <1>4 DEF ScoringNext

\* A vacancy that improves for the profile in any aspects loses neither points nor its
\* verdict, whatever bands, rounding, penalties and caps it passes, under every profile
\* whose weights are not negative and at most 51 for the salary.
THEOREM BetterVacanciesScoreNoLess == ScoringSpec => BetterNeverScoresLess
<1>1. ScoringInv /\ ScoreIsCurrent /\ [ScoringNext]_scoringVars
        => [ /\ ruleScore.profile \in kept /\ ruleScore'.profile = ruleScore.profile
             /\ ruleScore.profile \in DOMAIN ScoreProfiles
             /\ Modest(ScoreProfiles[ruleScore.profile])
             /\ vacancy' # vacancy
             /\ Better(ScoreProfiles[ruleScore.profile], vacancy', vacancy)
             => LET old == ruleScore.result
                    new == ruleScore'.result
                    verdicts == <<"skip", "consider", "apply">>
                IN  /\ new.total >= old.total
                    /\ Place(verdicts, new.recommendation)
                         >= Place(verdicts, old.recommendation) ]_scoringVars
  <2>1. SUFFICES ASSUME ScoringInv, ScoreIsCurrent, [ScoringNext]_scoringVars,
                        ruleScore.profile \in kept, ruleScore'.profile = ruleScore.profile,
                        ruleScore.profile \in DOMAIN ScoreProfiles,
                        Modest(ScoreProfiles[ruleScore.profile]), vacancy' # vacancy,
                        Better(ScoreProfiles[ruleScore.profile], vacancy', vacancy)
                 PROVE  /\ ruleScore'.result.total >= ruleScore.result.total
                        /\ Place(Verdicts, ruleScore'.result.recommendation)
                             >= Place(Verdicts, ruleScore.result.recommendation)
    BY DEF Verdicts
  <2>2. PICK id \in DOMAIN ScoreProfiles : id = ruleScore.profile
    BY <2>1
  <2>3. PICK p : p = ScoreProfiles[id]
    OBVIOUS
  <2>4. PICK old : old = vacancy
    OBVIOUS
  <2>5. PICK new : new = vacancy'
    OBVIOUS
  <2>6. IsVacancy(old) /\ IsVacancy(new)
    <3>1. ScoringInv'
      BY <2>1, ScoringStep
    <3> QED BY <2>1, <2>4, <2>5, <3>1 DEF ScoringInv, IsVacancy
  <2>7. kept' = kept
    BY <2>1 DEF ScoringNext, SaveVacancy, SelectProfile, DeleteProfile, scoringVars
  <2>8. ruleScore.result = ScoreJob(old, p, NoCompany)
    BY <2>1, <2>2, <2>3, <2>4 DEF ScoreIsCurrent
  <2>9. ruleScore'.result = ScoreJob(new, p, NoCompany)
    <3>1. ScoreIsCurrent'
      BY <2>1, CurrentStep
    <3> QED BY <2>1, <2>2, <2>3, <2>5, <2>7, <3>1 DEF ScoreIsCurrent
  <2>10. Better(p, new, old) /\ Modest(p)
    BY <2>1, <2>2, <2>3, <2>4, <2>5
  <2>11. /\ ScoreJob(new, p, NoCompany).total >= ScoreJob(old, p, NoCompany).total
         /\ Place(Verdicts, ScoreJob(new, p, NoCompany).recommendation)
              >= Place(Verdicts, ScoreJob(old, p, NoCompany).recommendation)
    BY <2>3, <2>6, <2>10, BetterScoresNoLess
  <2> QED BY <2>8, <2>9, <2>11
<1>2. ScoringInv /\ [ScoringNext]_scoringVars => ScoringInv'
  BY ScoringStep
<1>3. ScoreIsCurrent /\ [ScoringNext]_scoringVars => ScoreIsCurrent'
  BY CurrentStep
<1> QED BY <1>1, <1>2, <1>3, ScoringStarts, CurrentStarts, PTL
    DEF ScoringSpec, BetterNeverScoresLess
=============================================================================
