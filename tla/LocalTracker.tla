----------------------------- MODULE LocalTracker -----------------------------
(***************************************************************************)
(* The tracked jobs of standalone mode.  The popup, the side panel, search *)
(* pages (through the worker), guided apply and the board of the options   *)
(* page each read a job, change a part of it and put the whole row back;   *)
(* nothing compares revisions.  The side panel writes from the row that it *)
(* has shown.  A task is what one of them still has to write; between the  *)
(* read and the put of a step the others go on, and the user may take the  *)
(* time of a dialog.                                                       *)
(***************************************************************************)
EXTENDS Integers, Sequences, FiniteSets, SequencesExt

CONSTANTS
    Tracked,            \* vacancies
    TaskIds,            \* tasks that are under way at once
    Profiles,           \* of the user
    MoveTargets,        \* statuses that the board offers
    DailyLimit,         \* budget of labs actions
    MaxHistory, MaxTasks, MaxSwitches    \* bounds

ASSUME DailyLimitAssumption == DailyLimit \in Nat

NoProfile == "no profile"
NoRow == [history |-> <<>>, profile |-> NoProfile, scored |-> NoProfile, resume |-> FALSE]
NoApplication == [history |-> <<>>, notes |-> FALSE]
NotShown == [status |-> "none", scored |-> NoProfile]
NewRow == [NoRow EXCEPT !.history = <<"saved">>]

VARIABLES
    rows,            \* vacancy -> its job: history of statuses, profile, profile of the
                     \* score, whether a resume is selected
    applications,    \* vacancy -> its application
    badgeOf,         \* vacancy -> the stored badge state
    events,          \* vacancy -> what the event log says of it
    tasks,           \* task -> its vacancy, the steps left, what it has read
    panel,           \* the side panel: its vacancy and what it shows
    opsMode, labs,   \* mode and switch of labs
    used,            \* of the daily budget
    deleting,        \* vacancies whose badge is still to be deleted
    confirmed,       \* vacancies that the user said to have applied to on HH
    started, modeSwitches

rowVars == <<rows, applications, badgeOf, events>>
settingVars == <<opsMode, labs, modeSwitches>>
trackerVars == <<rowVars, tasks, panel, settingVars, used, deleting, confirmed, started>>

StatusOf(row) == Last(row.history)
Exists(row) == row.history # <<>>
WithStatus(row, status) == [row EXCEPT !.history = Append(@, status)]
BadgeState(row) == [status |-> StatusOf(row), scored |-> row.scored]

NoTask == [vacancy |-> "", steps |-> <<>>, read |-> FALSE, row |-> NoRow,
           application |-> NoApplication, to |-> "", profile |-> NoProfile]

TrackerInit ==
    /\ rows \in [Tracked -> {NoRow, NewRow}]
    /\ applications = [v \in Tracked |-> NoApplication]
    /\ badgeOf = [v \in Tracked |-> NotShown]
    /\ events = [v \in Tracked |-> {}]
    /\ tasks = [t \in TaskIds |-> NoTask]
    /\ panel \in [vacancy : Tracked, row : {NoRow}, application : {NoApplication},
                  prepared : {FALSE}, marked : {FALSE}]
    /\ opsMode = FALSE /\ labs = TRUE /\ used = 0
    /\ deleting = {} /\ confirmed = {} /\ started = 0 /\ modeSwitches = 0

-----------------------------------------------------------------------------
(* Starting a task.                                                        *)

Starts(t, task) ==
    /\ tasks[t] = NoTask /\ started < MaxTasks
    /\ started' = started + 1
    /\ tasks' = [tasks EXCEPT ![t] = task]

Steps(v, steps) == [NoTask EXCEPT !.vacancy = v, !.steps = steps]

\* The popup saves the vacancy of its tab, with the profile it has selected.
HandlePopupSave(t, v) ==
    /\ \E profile \in Profiles \cup {NoProfile} :
         Starts(t, [Steps(v, <<"save", "score">>) EXCEPT !.profile = profile])
    /\ UNCHANGED <<rowVars, panel, settingVars, used, deleting, confirmed>>

\* A panel that finds no job of its vacancy saves one.
Detect(t) ==
    /\ ~ opsMode /\ ~ Exists(rows[panel.vacancy])
    /\ Starts(t, Steps(panel.vacancy, <<"save">>))
    /\ UNCHANGED <<rowVars, panel, settingVars, used, deleting, confirmed>>

QuickSaveSearchCard(t, v) ==
    /\ Starts(t, IF Exists(rows[v])
                 THEN [Steps(v, <<"badge">>) EXCEPT !.row = rows[v]]
                 ELSE Steps(v, <<"save", "score", "badge">>))
    /\ UNCHANGED <<rowVars, panel, settingVars, used, deleting, confirmed>>

Reject(v) == IF Exists(rows[v]) THEN <<"status", "badge">> ELSE <<"save", "status", "badge">>

\* A job that is rejected already only gets its badge.
QuickRejectSearchCard(t, v) ==
    /\ Starts(t, IF Exists(rows[v]) /\ StatusOf(rows[v]) = "rejected_by_me"
                 THEN [Steps(v, <<"badge">>) EXCEPT !.row = rows[v]]
                 ELSE [Steps(v, Reject(v)) EXCEPT !.to = "rejected_by_me"])
    /\ UNCHANGED <<rowVars, panel, settingVars, used, deleting, confirmed>>

\* The popup's reject, in a popup that may not know the job.
HandleReject(t, v) ==
    /\ \E steps \in {Reject(v), <<"save", "status", "badge">>} :
         Starts(t, [Steps(v, steps) EXCEPT !.to = "rejected_by_me"])
    /\ UNCHANGED <<rowVars, panel, settingVars, used, deleting, confirmed>>

HandleMoveJob(t, v) ==
    /\ \E to \in MoveTargets :
         /\ to = "applied" => ~ opsMode
         /\ Starts(t, [Steps(v, <<"move">>) EXCEPT !.to = to])
    /\ UNCHANGED <<rowVars, panel, settingVars, used, deleting, confirmed>>

\* Profile and resume are put into the row that the panel shows.
HandleSelectProfile(t) ==
    /\ ~ opsMode /\ Exists(panel.row)
    /\ \E profile \in Profiles :
         Starts(t, [Steps(panel.vacancy, <<"profile", "score">>) EXCEPT
                      !.read = TRUE, !.row = panel.row, !.profile = profile])
    /\ UNCHANGED <<rowVars, panel, settingVars, used, deleting, confirmed>>

HandleSelectResume(t) ==
    /\ ~ opsMode /\ Exists(panel.row)
    /\ Starts(t, [Steps(panel.vacancy, <<"resume">>) EXCEPT !.read = TRUE, !.row = panel.row])
    /\ UNCHANGED <<rowVars, panel, settingVars, used, deleting, confirmed>>

\* A page with messages about the vacancy; the application follows from the row.
PersistHrTimeline(t) ==
    /\ ~ opsMode /\ Exists(panel.row)
    /\ Starts(t, [Steps(panel.vacancy, <<"application">>) EXCEPT !.row = panel.row])
    /\ UNCHANGED <<rowVars, panel, settingVars, used, deleting, confirmed>>

HandleMarkReplied(t) ==
    /\ ~ opsMode /\ Exists(panel.row) /\ Exists(panel.application)
    /\ StatusOf(panel.row) # "hr_replied"
    /\ Starts(t, [Steps(panel.vacancy, <<"replied">>) EXCEPT
                    !.read = TRUE, !.row = panel.row, !.application = panel.application])
    /\ UNCHANGED <<rowVars, panel, settingVars, used, deleting, confirmed>>

HandleSaveFollowUp(t) ==
    /\ ~ opsMode /\ Exists(panel.application)
    /\ Starts(t, [Steps(panel.vacancy, <<"notes">>) EXCEPT
                    !.read = TRUE, !.application = panel.application])
    /\ UNCHANGED <<rowVars, panel, settingVars, used, deleting, confirmed>>

-----------------------------------------------------------------------------
(* Guided apply: a checklist in the panel, then the user's word that the   *)
(* application was sent on HH.  The checklist is not reset with the        *)
(* vacancy.                                                                *)

CheckGuidedApplyGate == labs /\ used < DailyLimit
CheckGuidedApplyMutationGate == CheckGuidedApplyGate /\ ~ opsMode

HandleToggleStep ==
    /\ Exists(panel.row) /\ ~ panel.marked
    /\ panel' = [panel EXCEPT !.prepared = ~ @]
    /\ UNCHANGED <<rowVars, tasks, settingVars, used, deleting, confirmed, started>>

\* A copied letter counts towards the budget.
HandleCopyLetter ==
    /\ CheckGuidedApplyGate /\ Exists(panel.row) /\ ~ panel.marked
    /\ used' = used + 1
    /\ UNCHANGED <<rowVars, tasks, panel, settingVars, deleting, confirmed, started>>

HandleMarkApplied(t) ==
    /\ Exists(panel.row) /\ panel.prepared /\ ~ panel.marked /\ CheckGuidedApplyMutationGate
    /\ StatusOf(panel.row) # "applied"
    /\ confirmed' = confirmed \cup {panel.vacancy}
    /\ Starts(t, Steps(panel.vacancy, <<"guided", "application">>))
    /\ UNCHANGED <<rowVars, panel, settingVars, used, deleting>>

-----------------------------------------------------------------------------
(* The steps of a task.                                                    *)

Is(t, step) == tasks[t].steps # <<>> /\ Head(tasks[t].steps) = step

\* The row or the application is read, and the user asked whether a job that
\* is moved to "applied" was submitted on HH.
Read(t) ==
    LET v == tasks[t].vacancy
        asks == Is(t, "move") /\ tasks[t].to = "applied" IN
    /\ tasks[t].steps # <<>> /\ ~ tasks[t].read
    /\ ~ Is(t, "badge")
    /\ Is(t, "guided") => CheckGuidedApplyMutationGate
    /\ tasks' = [tasks EXCEPT ![t].read = TRUE,
                              ![t].row = IF Is(t, "application") THEN @ ELSE rows[v],
                              ![t].application = applications[v]]
    /\ confirmed' = IF asks THEN confirmed \cup {v} ELSE confirmed
    /\ UNCHANGED <<rowVars, panel, settingVars, used, deleting, started>>

\* The gate is closed by now, the user declines, or the put is refused.
GiveUp(t) ==
    /\ \/ Is(t, "guided") /\ ~ tasks[t].read /\ ~ CheckGuidedApplyMutationGate
       \/ Is(t, "move") /\ (deleting # {} \/ (tasks[t].to = "applied" /\ ~ tasks[t].read))
    /\ tasks' = [tasks EXCEPT ![t] = NoTask]
    /\ UNCHANGED <<rowVars, panel, settingVars, used, deleting, confirmed, started>>

\* The step is done; the next one has the row that was put.
Done(t, row) ==
    tasks' = [tasks EXCEPT ![t] =
                IF Len(tasks[t].steps) = 1 THEN NoTask
                ELSE [tasks[t] EXCEPT !.steps = Tail(@), !.read = FALSE, !.row = row]]

Puts(t, row) ==
    /\ Len(row.history) <= MaxHistory
    /\ rows' = [rows EXCEPT ![tasks[t].vacancy] = row]
    /\ Done(t, row)

Has(t, step) == Is(t, step) /\ tasks[t].read
Logs(v, event) == events' = [events EXCEPT ![v] = @ \cup {event}]

\* tracker.saveFromDTO
WriteSave(t) ==
    LET v == tasks[t].vacancy IN
    /\ Has(t, "save")
    /\ Puts(t, IF Exists(tasks[t].row) THEN tasks[t].row ELSE NewRow)
    /\ Logs(v, "job_saved")
    /\ UNCHANGED <<applications, badgeOf, panel, settingVars, used, deleting, confirmed, started>>

\* recomputeScoreForJob, without a job, without a profile, or with one
WriteScore(t) ==
    LET v == tasks[t].vacancy
        row == tasks[t].row
        profile == CHOOSE p \in Profiles \cup {NoProfile} :
                     CASE tasks[t].profile # NoProfile -> p = tasks[t].profile
                       [] row.profile # NoProfile -> p = row.profile
                       [] OTHER -> Profiles # {} => p # NoProfile
        scored == [row EXCEPT !.profile = profile, !.scored = profile] IN
    /\ Has(t, "score")
    /\ IF Exists(row) /\ profile # NoProfile
       THEN Puts(t, scored) /\ badgeOf' = [badgeOf EXCEPT ![v] = BadgeState(scored)]
       ELSE Done(t, IF Exists(row) THEN row ELSE NewRow) /\ UNCHANGED <<rows, badgeOf>>
    /\ UNCHANGED <<applications, events, panel, settingVars, used, deleting, confirmed, started>>

\* tracker.updateStatus; a job that is gone is saved again from a search card,
\* and left alone by the popup
WriteStatus(t) ==
    LET v == tasks[t].vacancy
        row == tasks[t].row IN
    /\ Has(t, "status")
    /\ IF Exists(row)
       THEN Puts(t, WithStatus(row, tasks[t].to)) /\ Logs(v, tasks[t].to)
       ELSE /\ \/ tasks' = [tasks EXCEPT ![t] = NoTask]
               \/ tasks' = [tasks EXCEPT ![t].steps = <<"save">> \o @, ![t].read = FALSE]
            /\ UNCHANGED <<rows, events>>
    /\ UNCHANGED <<applications, badgeOf, panel, settingVars, used, deleting, confirmed, started>>

PersistBadgeState(t) ==
    LET v == tasks[t].vacancy IN
    /\ Is(t, "badge")
    /\ badgeOf' = [badgeOf EXCEPT ![v] = BadgeState(tasks[t].row)]
    /\ Done(t, tasks[t].row)
    /\ UNCHANGED <<rows, applications, events, panel, settingVars, used, deleting, confirmed,
                   started>>

WriteMove(t) ==
    /\ Has(t, "move") /\ deleting = {}
    /\ IF Exists(tasks[t].row) THEN Puts(t, WithStatus(tasks[t].row, tasks[t].to))
       ELSE Done(t, NoRow) /\ UNCHANGED rows
    /\ UNCHANGED <<applications, badgeOf, events, panel, settingVars, used, deleting, confirmed,
                   started>>

WriteSelection(t) ==
    LET row == tasks[t].row IN
    /\ \/ Has(t, "profile")
          /\ Puts(t, [row EXCEPT !.profile = tasks[t].profile, !.resume = FALSE])
       \/ Has(t, "resume") /\ Puts(t, [row EXCEPT !.resume = TRUE])
    /\ UNCHANGED <<applications, badgeOf, events, panel, settingVars, used, deleting, confirmed,
                   started>>

\* confirmGuidedApplyMutation up to the application
WriteGuided(t) ==
    LET row == tasks[t].row IN
    /\ Has(t, "guided")
    /\ IF Exists(row) /\ StatusOf(row) # "applied" THEN Puts(t, WithStatus(row, "applied"))
       ELSE tasks' = [tasks EXCEPT ![t] = NoTask] /\ UNCHANGED rows
    /\ panel' = IF Exists(row) THEN [panel EXCEPT !.marked = TRUE] ELSE panel
    /\ used' = IF Exists(row) /\ StatusOf(row) # "applied" THEN used + 1 ELSE used
    /\ UNCHANGED <<applications, badgeOf, events, settingVars, deleting, confirmed, started>>

\* A mutant that infers from the messages that the user has applied.
InferredApplication(row, existing) ==
    [existing EXCEPT !.history = IF @ # <<>> THEN @ ELSE Append(row.history, "applied")]

\* upsertApplicationFromJob: what is there keeps its status
UpsertedApplication(row, existing) ==
    [existing EXCEPT !.history = IF @ # <<>> THEN @ ELSE row.history]

WriteApplication(t) ==
    LET v == tasks[t].vacancy IN
    /\ Has(t, "application")
    /\ applications' = [applications EXCEPT
                          ![v] = UpsertedApplication(tasks[t].row, tasks[t].application)]
    /\ Done(t, tasks[t].row)
    /\ UNCHANGED <<rows, badgeOf, events, panel, settingVars, used, deleting, confirmed, started>>

WriteReplied(t) ==
    LET v == tasks[t].vacancy IN
    /\ Has(t, "replied")
    /\ Puts(t, WithStatus(tasks[t].row, "hr_replied"))
    /\ applications' = [applications EXCEPT ![v] = WithStatus(tasks[t].application, "hr_replied")]
    /\ UNCHANGED <<badgeOf, events, panel, settingVars, used, deleting, confirmed, started>>

WriteNotes(t) ==
    /\ Has(t, "notes")
    /\ applications' = [applications EXCEPT
                          ![tasks[t].vacancy] = [tasks[t].application EXCEPT !.notes = TRUE]]
    /\ Done(t, NoRow)
    /\ UNCHANGED <<rows, badgeOf, events, panel, settingVars, used, deleting, confirmed, started>>

-----------------------------------------------------------------------------
(* The panel, the settings, and the deletion of a job.                     *)

RefreshPanel ==
    \E v \in Tracked :
      /\ panel' = [panel EXCEPT !.vacancy = v, !.row = rows[v], !.application = applications[v]]
      /\ panel' # panel
      /\ UNCHANGED <<rowVars, tasks, settingVars, used, deleting, confirmed, started>>

SwitchSettings ==
    /\ modeSwitches < MaxSwitches /\ modeSwitches' = modeSwitches + 1
    /\ \/ opsMode' = ~ opsMode /\ UNCHANGED labs
       \/ labs' = ~ labs /\ UNCHANGED opsMode
    /\ UNCHANGED <<rowVars, tasks, panel, used, deleting, confirmed, started>>

\* deleteJobData: one transaction, then the badge.  Writes of the same page
\* are refused meanwhile; those of other contexts are not.
DeleteJobData(v) ==
    /\ ~ opsMode /\ Exists(rows[v]) /\ deleting = {}
    /\ modeSwitches < MaxSwitches /\ modeSwitches' = modeSwitches + 1
    /\ rows' = [rows EXCEPT ![v] = NoRow]
    /\ applications' = [applications EXCEPT ![v] = NoApplication]
    /\ events' = [events EXCEPT ![v] = {}]
    /\ deleting' = {v}
    /\ UNCHANGED <<badgeOf, tasks, panel, opsMode, labs, used, confirmed, started>>

RemoveBadgeState(v) ==
    /\ v \in deleting /\ deleting' = deleting \ {v}
    /\ badgeOf' = [badgeOf EXCEPT ![v] = NotShown]
    /\ UNCHANGED <<rows, applications, events, tasks, panel, settingVars, used, confirmed, started>>

TrackerNext ==
    \/ \E t \in TaskIds, v \in Tracked :
         \/ HandlePopupSave(t, v) \/ QuickSaveSearchCard(t, v) \/ QuickRejectSearchCard(t, v)
         \/ HandleReject(t, v) \/ HandleMoveJob(t, v)
    \/ \E t \in TaskIds :
         \/ Detect(t) \/ HandleSelectProfile(t) \/ HandleSelectResume(t) \/ PersistHrTimeline(t)
         \/ HandleMarkReplied(t) \/ HandleSaveFollowUp(t) \/ HandleMarkApplied(t)
         \/ Read(t) \/ GiveUp(t) \/ WriteSave(t) \/ WriteScore(t) \/ WriteStatus(t)
         \/ PersistBadgeState(t) \/ WriteMove(t) \/ WriteSelection(t) \/ WriteGuided(t)
         \/ WriteApplication(t) \/ WriteReplied(t) \/ WriteNotes(t)
    \/ HandleToggleStep \/ HandleCopyLetter \/ RefreshPanel \/ SwitchSettings
    \/ \E v \in Tracked : DeleteJobData(v) \/ RemoveBadgeState(v)

-----------------------------------------------------------------------------
(* Properties.                                                             *)

\* However the writers overtake each other, and whatever pages with messages
\* say, no job and no application is "applied" at any time unless the user has
\* said so of that vacancy.  (hr-timeline-sync.ts: it must never infer that a
\* native HH application was submitted.)
AppliedWasDeclared ==
    \A v \in Tracked :
      \/ v \in confirmed
      \/ \A h \in {rows[v].history, applications[v].history, <<badgeOf[v].status>>} :
           "applied" \notin {h[i] : i \in DOMAIN h}
=============================================================================
