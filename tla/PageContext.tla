----------------------------- MODULE PageContext -----------------------------
(***************************************************************************)
(* How the side panel finds the vacancy it is about.  Content scripts and  *)
(* the popup tell the background worker about their tab; a badge or popup  *)
(* binds the panel of the window to its tab; the panel asks the worker,    *)
(* which asks the page of the bound or the active tab; then the panel asks *)
(* the page for the vacancy and keeps it as a local job.  Tabs navigate,   *)
(* the worker stops, local data are deleted and the panel is refreshed at  *)
(* any point of this.                                                      *)
(*                                                                         *)
(* There is one window with its panel.  An era is the number of resets     *)
(* before a request; the code has only the worker's generation.            *)
(***************************************************************************)
EXTENDS Integers, FiniteSets

CONSTANTS
    PageTabs, PageVacancies,
    MaxNavigations, MaxRefreshes, MaxResets    \* bounds

NoVacancy == "no vacancy"
NoTab == "no tab"

\* Pages with the content script; on others no message is answered.
Pages ==
    [kind : {"vacancy"}, vacancy : PageVacancies]
    \cup [kind : {"messages"}, vacancy : PageVacancies \cup {NoVacancy}]
    \cup [kind : {"foreign"}, vacancy : {NoVacancy}]

Modes == {"standalone", "ops"}

VARIABLES
    page,         \* tab -> what it shows
    activeTab,
    contexts,     \* session storage: tab -> its vacancy
    binding,      \* session storage: the tab the panel is bound to
    generation,   \* of the worker
    cleanups,     \* reads of a context after a navigation: [tab, vacancy]
    mode,         \* the effective operating mode
    localJobs,    \* the vacancies that are kept
    detections,   \* refreshes of the panel: number -> progress
    ctx,          \* what the panel shows
    resets, navigations    \* counted for the properties and the bounds

pageVars == <<page, activeTab, contexts, binding, generation, cleanups, mode, localJobs,
              detections, ctx, resets, navigations>>
sessionVars == <<contexts, binding>>
panelVars == <<mode, localJobs, detections, ctx>>

NoContext == [vacancy |-> NoVacancy, era |-> 0]
EmptyCtx == [refresh |-> 0, vacancy |-> NoVacancy, job |-> NoVacancy, passive |-> NoVacancy]

Refresh == Cardinality(DOMAIN detections)

PageInit ==
    /\ page \in [PageTabs -> Pages]
    /\ activeTab \in PageTabs
    /\ contexts = [tab \in PageTabs |-> NoContext]
    /\ binding = NoTab /\ generation = 0 /\ cleanups = {}
    /\ mode \in Modes
    /\ localJobs = {} /\ detections = <<>> /\ ctx = EmptyCtx
    /\ resets = 0 /\ navigations = 0

-----------------------------------------------------------------------------
(* Tabs.  A context is set for a vacancy page only, by its own tab.        *)

Navigate(tab) ==
    \E to \in Pages \ {page[tab]} :
      /\ navigations < MaxNavigations
      /\ page' = [page EXCEPT ![tab] = to]
      /\ cleanups' = cleanups \cup {[tab |-> tab, vacancy |-> to.vacancy]}
      /\ navigations' = navigations + 1
      /\ UNCHANGED <<activeTab, contexts, binding, generation, panelVars, resets>>

\* onUpdated: the context of another vacancy is dropped.
CleanUp(cleanup) ==
    /\ cleanups' = cleanups \ {cleanup}
    /\ contexts' = IF contexts[cleanup.tab].vacancy = cleanup.vacancy THEN contexts
                   ELSE [contexts EXCEPT ![cleanup.tab] = NoContext]
    /\ UNCHANGED <<page, activeTab, binding, generation, panelVars, resets, navigations>>

SelectTab(tab) ==
    /\ activeTab' = tab /\ activeTab # tab
    /\ UNCHANGED <<page, sessionVars, generation, cleanups, panelVars, resets, navigations>>

Context(v) == [vacancy |-> v, era |-> resets]

\* The content script of a new page.
RegisterVacancyContext(tab) ==
    /\ page[tab].kind = "vacancy"
    /\ contexts' = [contexts EXCEPT ![tab] = Context(page[tab].vacancy)]
    /\ UNCHANGED <<page, activeTab, binding, generation, cleanups, panelVars, resets,
                   navigations>>

\* The badge of a page, and the popup on a vacancy page, open the panel.
OpenSidePanel(tab) ==
    /\ tab = activeTab /\ page[tab].kind = "vacancy"
    /\ contexts' = [contexts EXCEPT ![tab] = Context(page[tab].vacancy)]
    /\ binding' = tab
    /\ UNCHANGED <<page, activeTab, generation, cleanups, panelVars, resets, navigations>>

\* The popup on any other page undoes the binding.
OpenWithoutVacancy ==
    /\ page[activeTab].kind # "vacancy"
    /\ contexts' = [contexts EXCEPT ![activeTab] = NoContext]
    /\ binding' = NoTab
    /\ UNCHANGED <<page, activeTab, generation, cleanups, panelVars, resets, navigations>>

-----------------------------------------------------------------------------
(* The worker.                                                             *)

\* Local data are deleted: the stored contexts go, the generation counts on.
NotifyReset ==
    /\ resets < MaxResets
    /\ resets' = resets + 1
    /\ generation' = generation + 1
    /\ contexts' = [tab \in PageTabs |-> NoContext] /\ binding' = NoTab
    /\ localJobs' = {}
    /\ UNCHANGED <<page, activeTab, cleanups, mode, detections, ctx, navigations>>

NotAsked == [stage |-> "asking", gen |-> 0, era |-> 0, tab |-> NoTab,
             page |-> [kind |-> "foreign", vacancy |-> NoVacancy], mode |-> "standalone",
             found |-> EmptyCtx, retried |-> FALSE]

\* What is left of a detection when it has found something, or nothing.
Showing(found) == [NotAsked EXCEPT !.stage = "show", !.found = found]

InWorker(d) == d.stage \in {"binding", "page"}

\* The browser stops the worker: requests fail, the generation starts again.
WorkerStops ==
    /\ generation' = 0 /\ cleanups' = {}
    /\ detections' = [r \in DOMAIN detections |->
                        IF InWorker(detections[r])
                        THEN Showing(EmptyCtx) ELSE detections[r]]
    /\ UNCHANGED <<page, activeTab, sessionVars, mode, localJobs, ctx, resets, navigations>>

-----------------------------------------------------------------------------
(* The panel.  A refresh cancels the detection before it.                  *)

Goto(r, d) == detections' = [detections EXCEPT ![r] = d]

HandleRefresh ==
    /\ Refresh < MaxRefreshes
    /\ detections' = [r \in 1..(Refresh + 1) |->
                        IF r <= Refresh THEN detections[r] ELSE NotAsked]
    /\ UNCHANGED <<page, activeTab, sessionVars, generation, cleanups, mode, localJobs, ctx,
                   resets, navigations>>

ContextRequested(r) ==
    /\ detections[r].stage = "asking"
    /\ Goto(r, [detections[r] EXCEPT !.stage = "binding", !.gen = generation, !.era = resets])
    /\ UNCHANGED <<page, activeTab, sessionVars, generation, cleanups, mode, localJobs, ctx,
                   resets, navigations>>

ResolveTarget(r) ==
    /\ detections[r].stage = "binding"
    /\ Goto(r, [detections[r] EXCEPT !.stage = "page",
                    !.tab = IF binding = NoTab THEN activeTab ELSE binding])
    /\ UNCHANGED <<page, activeTab, sessionVars, generation, cleanups, mode, localJobs, ctx,
                   resets, navigations>>

\* A mutant that stores an answer whatever was reset since.
IsCurrentAlways(d) == TRUE

IsCurrent(d) == d.gen = generation

\* A null answer is retried (once here), then nothing is shown.
Unresolved(d) == IF d.retried THEN Showing(EmptyCtx) ELSE [NotAsked EXCEPT !.retried = TRUE]

PageAnswers(r) ==
    LET d == detections[r]
        live == page[d.tab]
        known == [NotAsked EXCEPT !.stage = "reading", !.tab = d.tab, !.page = live] IN
    /\ d.stage = "page"
    /\ \/ /\ live.kind = "foreign"
          /\ contexts' = [contexts EXCEPT ![d.tab] = NoContext]
          /\ Goto(r, Unresolved(d))
       \/ /\ live.kind = "messages"
          /\ Goto(r, known) /\ UNCHANGED contexts
       \/ /\ live.kind = "vacancy" /\ IsCurrent(d)
          /\ contexts' = [contexts EXCEPT ![d.tab] = [vacancy |-> live.vacancy, era |-> d.era]]
          /\ Goto(r, known)
       \/ /\ live.kind = "vacancy" /\ ~ IsCurrent(d)
          /\ Goto(r, Unresolved(d)) /\ UNCHANGED contexts
    /\ UNCHANGED <<page, activeTab, binding, generation, cleanups, mode, localJobs, ctx,
                   resets, navigations>>

\* The mode is read, and in standalone mode the job of the vacancy.
ReadJob(r) ==
    LET d == detections[r] IN
    /\ d.stage = "reading"
    /\ Goto(r, [d EXCEPT
            !.stage = "extracting", !.mode = mode,
            !.found = [EmptyCtx EXCEPT
                !.vacancy = d.page.vacancy,
                !.job = IF mode = "standalone" /\ d.page.vacancy \in localJobs
                        THEN d.page.vacancy ELSE NoVacancy]])
    /\ UNCHANGED <<page, activeTab, sessionVars, generation, cleanups, mode, localJobs, ctx,
                   resets, navigations>>

\* The page is asked once more, for the vacancy it shows by now; a vacancy
\* that is not kept yet is saved.
ExtractVacancy(r) ==
    LET d == detections[r]
        live == page[d.tab]
        saves == d.mode = "standalone" /\ d.found.job = NoVacancy /\ live.kind = "vacancy" IN
    /\ d.stage = "extracting" /\ d.page.kind = "vacancy"
    /\ localJobs' = IF saves THEN localJobs \cup {live.vacancy} ELSE localJobs
    /\ Goto(r, Showing([d.found EXCEPT
                  !.passive = IF live.kind = "vacancy" THEN live.vacancy ELSE NoVacancy,
                  !.job = IF saves THEN live.vacancy ELSE @]))
    /\ UNCHANGED <<page, activeTab, sessionVars, generation, cleanups, mode, ctx, resets,
                   navigations>>

\* Messages name the vacancy they are about.
ExtractHrTimeline(r) ==
    LET d == detections[r]
        v == IF page[d.tab].kind = "messages" /\ page[d.tab].vacancy # NoVacancy
             THEN page[d.tab].vacancy ELSE d.page.vacancy IN
    /\ d.stage = "extracting" /\ d.page.kind = "messages"
    /\ Goto(r, Showing([EmptyCtx EXCEPT
                  !.vacancy = v,
                  !.job = IF d.mode = "standalone" /\ v \in localJobs THEN v ELSE NoVacancy]))
    /\ UNCHANGED <<page, activeTab, sessionVars, generation, cleanups, mode, localJobs, ctx,
                   resets, navigations>>

Shows(r) == r = Refresh

SetCtx(r) ==
    /\ detections[r].stage = "show"
    /\ ctx' = IF Shows(r) THEN [detections[r].found EXCEPT !.refresh = r] ELSE ctx
    /\ Goto(r, [NotAsked EXCEPT !.stage = "done"])
    /\ UNCHANGED <<page, activeTab, sessionVars, generation, cleanups, mode, localJobs,
                   resets, navigations>>

ChangeMode ==
    /\ mode' \in Modes \ {mode}
    /\ UNCHANGED <<page, activeTab, sessionVars, generation, cleanups, localJobs, detections,
                   ctx, resets, navigations>>

PageNext ==
    \/ \E tab \in PageTabs :
         Navigate(tab) \/ SelectTab(tab) \/ RegisterVacancyContext(tab) \/ OpenSidePanel(tab)
    \/ OpenWithoutVacancy \/ NotifyReset \/ WorkerStops \/ HandleRefresh \/ ChangeMode
    \/ \E cleanup \in cleanups : CleanUp(cleanup)
    \/ \E r \in DOMAIN detections :
         \/ ContextRequested(r) \/ ResolveTarget(r) \/ PageAnswers(r) \/ ReadJob(r)
         \/ ExtractVacancy(r) \/ ExtractHrTimeline(r) \/ SetCtx(r)

-----------------------------------------------------------------------------
(* Properties.                                                             *)

\* An answer that was asked for before a reset never puts a context back into
\* the session, and once the latest refresh is done the panel shows that one and
\* no earlier one, although all are under way while the worker may be stopped.
StaleAnswersAreDropped ==
    /\ \A tab \in PageTabs : contexts[tab] # NoContext => contexts[tab].era = resets
    /\ \A r \in DOMAIN detections :
         r = Refresh /\ detections[r].stage = "done" => ctx.refresh = r
=============================================================================
