------------------------------ MODULE PageBadges ------------------------------
(***************************************************************************)
(* What content scripts put on the pages of HH: a badge on each card of a  *)
(* search page, rendered anew whenever the list changes or a quick action  *)
(* was done, and one badge on a vacancy page.  A render asks the worker    *)
(* for the tracked jobs and storage for the last badge states; meanwhile   *)
(* lists, jobs and settings change, newer renders start, and all local     *)
(* data may be deleted by another page of the extension.                   *)
(*                                                                         *)
(* There is a search page, or none, and a vacancy page of PageVacancy, or  *)
(* none.  asOf is the number of changes of the stored data that a reader   *)
(* has seen.                                                               *)
(***************************************************************************)
EXTENDS Integers, FiniteSets, Sequences

CONSTANTS
    Cards, PageVacancy,     \* vacancies with a card; the one with a page
    BadgeStatuses,          \* statuses that other pages give to a job
    MaxElements, MaxRenders, MaxChanges    \* bounds

Untracked == "untracked"
NoState == [status |-> Untracked, scored |-> FALSE, views |-> 0]
NoBadge == [parts |-> {}, asOf |-> 0, answered |-> FALSE]
NoElement == 0
NotRead == -1      \* a visit that is to be recorded
NoVisit == -2
Switches == {"enabled", "viewed", "savedRejected", "score", "viewCount", "pageBadge", "visitMarks"}

VARIABLES
    jobs,          \* vacancy -> its job: status, and whether it has a score
    visitMarks,    \* vacancy -> number of views
    badgeStates,   \* local storage: vacancy -> the last badge state
    switches,      \* settings that are on
    changes,       \* of the stored data
    deletion,      \* progress of "delete all data"
    visiting,      \* the views that a visit has read, or none
    elements,      \* of the search page: vacancy -> its card in the document
    badges,        \* of the search page: vacancy -> the badge on that card
    renders,       \* of the search page, by renderGeneration
    renderGeneration, starting, observing, timer,
    quick,         \* quick actions without an answer
    pageBadge, creating    \* of the vacancy page

storeVars == <<jobs, visitMarks, badgeStates, switches, changes>>
searchVars == <<elements, badges, renders, renderGeneration, starting, observing, timer, quick>>
vacancyVars == <<pageBadge, creating, visiting>>
badgeVars == <<storeVars, deletion, searchVars, vacancyVars>>

-----------------------------------------------------------------------------
(* What a badge shows.                                                     *)

Rejected == {"rejected_by_me", "rejected_by_company", "blacklist"}

\* The worker's answer about a vacancy: a new job that was seen is "viewed".
HighlightState(v) ==
    [status |-> IF jobs[v].status \in {Untracked, "new"} /\ visitMarks[v] > 0
                THEN "viewed" ELSE jobs[v].status,
     scored |-> jobs[v].scored,
     views |-> visitMarks[v]]

\* What the worker knows overrides the stored badge state.
Merged(legacy, highlight) ==
    [status |-> IF highlight.status # Untracked THEN highlight.status ELSE legacy.status,
     scored |-> highlight.scored \/ legacy.scored,
     views |-> highlight.views]

ShowsStatus(status, controls) ==
    CASE status = Untracked -> FALSE
      [] status = "viewed" -> "viewed" \in controls
      [] status \in Rejected \cup {"saved"} -> "savedRejected" \in controls
      [] OTHER -> TRUE

BadgeParts(state, controls) ==
    {p \in {"neutral", "status", "score", "viewCount"} :
        CASE p = "neutral" -> state = NoState
          [] p = "status" -> ShowsStatus(state.status, controls)
          [] p = "score" -> state.scored /\ "score" \in controls
          [] p = "viewCount" -> state.views > 0 /\ "viewCount" \in controls}

-----------------------------------------------------------------------------

Idle == [stage |-> "idle", elements |-> <<>>, answer |-> <<>>, legacy |-> <<>>,
         controls |-> Switches, asOf |-> 0, answered |-> FALSE]

BadgesInit ==
    /\ jobs = [v \in Cards |-> [status |-> Untracked, scored |-> FALSE]]
    /\ visitMarks = [v \in Cards |-> 0]
    /\ badgeStates = [v \in Cards |-> NoState]
    /\ switches \in {Switches, Switches \ {"enabled", "pageBadge"},
                     Switches \ {"viewed", "savedRejected", "visitMarks"},
                     Switches \ {"score", "viewCount"}}
    /\ changes = 0 /\ deletion = "none"
    /\ badges = [v \in Cards |-> NoBadge]
    /\ \/ elements = [v \in Cards |-> NoElement] /\ renders = <<>> /\ starting = FALSE
       \/ elements = [v \in Cards |-> 1] /\ starting = TRUE
          /\ renders = <<[Idle EXCEPT !.stage = "loading", !.elements = elements]>>
    /\ renderGeneration = Len(renders) /\ observing = FALSE /\ timer = FALSE
    /\ quick = {}
    /\ pageBadge = NoBadge
    /\ \/ creating = "none" /\ visiting = NoVisit
       \/ creating = "settings" /\ visiting = NotRead

-----------------------------------------------------------------------------
(* The stored data.                                                        *)

\* Another page changes a job; some persist the badge state, some do not.
ChangeJob(v) ==
    \E status \in BadgeStatuses, scored \in BOOLEAN, persists \in BOOLEAN :
      /\ changes < MaxChanges
      /\ jobs' = [jobs EXCEPT ![v] = [status |-> status, scored |-> @.scored \/ scored]]
      /\ badgeStates' = IF persists
                        THEN [badgeStates EXCEPT ![v] = [status |-> status, views |-> 0,
                                                         scored |-> jobs'[v].scored]]
                        ELSE badgeStates
      /\ changes' = changes + 1
      /\ UNCHANGED <<visitMarks, switches, deletion, searchVars, vacancyVars>>

ToggleHighlights ==
    /\ changes < MaxChanges
    /\ switches' = IF "enabled" \in switches THEN switches \ {"enabled"}
                   ELSE switches \cup {"enabled"}
    /\ changes' = changes + 1
    /\ UNCHANGED <<jobs, visitMarks, badgeStates, deletion, searchVars, vacancyVars>>

\* A vacancy page that was opened records the visit, in two steps.
ReadVisit ==
    /\ visiting = NotRead
    /\ visiting' = IF "visitMarks" \in switches THEN visitMarks[PageVacancy] ELSE NoVisit
    /\ UNCHANGED <<storeVars, deletion, searchVars, pageBadge, creating>>

WriteVisit ==
    /\ visiting \notin {NotRead, NoVisit}
    /\ visitMarks' = [visitMarks EXCEPT ![PageVacancy] = visiting + 1]
    /\ visiting' = NoVisit /\ changes' = changes + 1
    /\ UNCHANGED <<jobs, badgeStates, switches, deletion, searchVars, pageBadge, creating>>

-----------------------------------------------------------------------------
(* Delete all data: the pages are told, then the tables are cleared, then  *)
(* storage.  The search page drops its renders, not its timer.             *)

BroadcastReset ==
    /\ deletion = "none"
    /\ deletion' = "told"
    /\ renderGeneration' = renderGeneration + 1
    /\ renders' = Append(renders, Idle)
    /\ observing' = FALSE
    /\ badges' = [v \in Cards |-> NoBadge]
    /\ pageBadge' = NoBadge
    /\ UNCHANGED <<storeVars, elements, starting, timer, quick, creating, visiting>>

ClearTables ==
    /\ deletion = "told"
    /\ deletion' = "tables"
    /\ jobs' = [v \in Cards |-> [status |-> Untracked, scored |-> FALSE]]
    /\ visitMarks' = [v \in Cards |-> 0]
    /\ changes' = changes + 1
    /\ UNCHANGED <<badgeStates, switches, searchVars, vacancyVars>>

ClearExtensionStorage ==
    /\ deletion = "tables"
    /\ deletion' = "done"
    /\ badgeStates' = [v \in Cards |-> NoState]
    /\ switches' = Switches
    /\ UNCHANGED <<jobs, visitMarks, changes, searchVars, vacancyVars>>

-----------------------------------------------------------------------------
(* The search page.                                                        *)

Schedules == timer' = (timer \/ observing)

\* The list is replaced: new cards, without badges.
ChangeList ==
    \E listed \in SUBSET Cards :
      LET next == 1 + Cardinality({e \in 1..MaxElements : \E v \in Cards : elements[v] >= e}) IN
      /\ renderGeneration > 0 /\ next <= MaxElements
      /\ elements' = [v \in Cards |-> IF v \in listed THEN next ELSE NoElement]
      /\ badges' = [v \in Cards |-> NoBadge]
      /\ Schedules
      /\ UNCHANGED <<storeVars, deletion, renders, renderGeneration, starting, observing, quick,
                     vacancyVars>>

HasCards == \E v \in Cards : elements[v] # NoElement

\* injectSearchBadges up to its first await.
StartsRender ==
    /\ renderGeneration' = renderGeneration + 1 /\ renderGeneration' <= MaxRenders
    /\ IF HasCards
       THEN /\ renders' = Append(renders, [Idle EXCEPT !.stage = "loading",
                                                        !.elements = elements])
            /\ UNCHANGED badges
       ELSE /\ renders' = Append(renders, Idle)
            /\ badges' = [v \in Cards |-> NoBadge]

TimerFires ==
    /\ timer /\ timer' = FALSE
    /\ StartsRender
    /\ UNCHANGED <<storeVars, deletion, elements, starting, observing, quick, vacancyVars>>

\* The two answers arrive in any order; a message that fails leaves the stored
\* states and every control on.
HighlightsLoaded(g) ==
    /\ renders[g].stage = "loading" /\ renders[g].answer = <<>>
    /\ \/ renders' = [renders EXCEPT ![g].answer = [v \in Cards |-> HighlightState(v)],
                                     ![g].controls = switches, ![g].asOf = changes,
                                     ![g].answered = TRUE]
       \/ renders' = [renders EXCEPT ![g].answer = [v \in Cards |-> NoState]]
    /\ UNCHANGED <<storeVars, deletion, elements, badges, renderGeneration, starting, observing,
                   timer, quick, vacancyVars>>

LegacyLoaded(g) ==
    /\ renders[g].stage = "loading" /\ renders[g].legacy = <<>>
    /\ renders' = [renders EXCEPT ![g].legacy = badgeStates]
    /\ UNCHANGED <<storeVars, deletion, elements, badges, renderGeneration, starting, observing,
                   timer, quick, vacancyVars>>

\* A mutant that renders whatever was started or reset since.
IsLatestAlways(g) == TRUE

IsLatest(g) == g = renderGeneration

BadgeOf(render, v) ==
    LET state == Merged(render.legacy[v], render.answer[v]) IN
    [parts |-> BadgeParts(state, render.controls), asOf |-> render.asOf,
     answered |-> render.answered]

\* The rest of injectSearchBadges.  Badges are put on the cards that were found
\* at its start.  Only the first render is waited for, to observe the list.
Render(g) ==
    LET r == renders[g] IN
    /\ r.stage = "loading" /\ r.answer # <<>> /\ r.legacy # <<>>
    /\ renders' = [renders EXCEPT ![g] = Idle]
    /\ badges' = IF ~ IsLatest(g) THEN badges
                 ELSE [v \in Cards |->
                         CASE "enabled" \notin r.controls -> NoBadge
                           [] r.elements[v] # NoElement /\ r.elements[v] = elements[v]
                              -> BadgeOf(r, v)
                           [] OTHER -> badges[v]]
    /\ timer' = (timer \/ (observing /\ IsLatest(g)
                           /\ (badges' # badges \/ \E v \in Cards : badges'[v] # NoBadge)))
    /\ IF g = 1 THEN starting' = FALSE /\ observing' = TRUE
       ELSE UNCHANGED <<starting, observing>>
    /\ UNCHANGED <<storeVars, deletion, elements, renderGeneration, quick, vacancyVars>>

\* A click on a badge; the worker saves or rejects the job and its badge state.
QuickAction(v) ==
    \E status \in {"saved", "rejected_by_me"} :
      /\ badges[v] # NoBadge /\ changes < MaxChanges
      /\ jobs' = [jobs EXCEPT ![v].status =
                    IF status = "saved" /\ @ # Untracked THEN @ ELSE status]
      /\ badgeStates' = [badgeStates EXCEPT ![v] = [status |-> jobs'[v].status, views |-> 0,
                                                    scored |-> jobs[v].scored]]
      /\ changes' = changes + 1
      /\ quick' = quick \cup {v}
      /\ UNCHANGED <<visitMarks, switches, deletion, elements, badges, renders, renderGeneration,
                     starting, observing, timer, vacancyVars>>

QuickAnswered(v) ==
    /\ v \in quick /\ quick' = quick \ {v}
    /\ StartsRender
    /\ UNCHANGED <<storeVars, deletion, elements, starting, observing, timer, vacancyVars>>

Pagehide ==
    /\ observing /\ observing' = FALSE
    /\ UNCHANGED <<storeVars, deletion, elements, badges, renders, renderGeneration, starting,
                   timer, quick, vacancyVars>>

-----------------------------------------------------------------------------
(* The vacancy page.                                                       *)

Shown(state) ==
    [parts |-> BadgeParts(state, Switches), asOf |-> changes, answered |-> FALSE]

CreateBadge ==
    /\ creating = "settings"
    /\ creating' = IF "pageBadge" \in switches THEN "host" ELSE "none"
    /\ UNCHANGED <<storeVars, deletion, searchVars, pageBadge, visiting>>

\* The body is there, and the badge is put on it, showing nothing yet.
AttachHost ==
    /\ creating = "host" /\ creating' = "restoring"
    /\ pageBadge' = Shown(NoState)
    /\ UNCHANGED <<storeVars, deletion, searchVars, visiting>>

\* A host that was removed meanwhile is updated, and not seen.
RestoreBadgeState ==
    /\ creating = "restoring" /\ creating' = "done"
    /\ pageBadge' = IF pageBadge = NoBadge \/ badgeStates[PageVacancy] = NoState THEN pageBadge
                    ELSE Shown(badgeStates[PageVacancy])
    /\ UNCHANGED <<storeVars, deletion, searchVars, visiting>>

\* A page of the extension has saved the job and tells its tab.
UpdateBadge ==
    /\ creating \in {"restoring", "done"} /\ pageBadge # NoBadge
    /\ jobs[PageVacancy].status # Untracked
    /\ pageBadge' = Shown([NoState EXCEPT !.status = jobs[PageVacancy].status,
                                          !.scored = jobs[PageVacancy].scored])
    /\ UNCHANGED <<storeVars, deletion, searchVars, creating, visiting>>

BadgesNext ==
    \/ \E v \in Cards : ChangeJob(v) \/ QuickAction(v) \/ QuickAnswered(v)
    \/ ToggleHighlights \/ ReadVisit \/ WriteVisit
    \/ BroadcastReset \/ ClearTables \/ ClearExtensionStorage
    \/ ChangeList \/ TimerFires \/ Pagehide
    \/ \E g \in DOMAIN renders : HighlightsLoaded(g) \/ LegacyLoaded(g) \/ Render(g)
    \/ CreateBadge \/ AttachHost \/ RestoreBadgeState \/ UpdateBadge

-----------------------------------------------------------------------------
(* Properties.                                                             *)

\* Renders overlap and their answers arrive in any order, but a badge that
\* shows what the worker knows is never replaced by one that shows what the
\* worker knew before.
BadgesNeverGoBack ==
    [][\A v \in Cards :
         (badges[v].answered /\ badges'[v].answered) => badges'[v].asOf >= badges[v].asOf]_badgeVars
=============================================================================
