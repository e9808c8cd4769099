--------------------------- MODULE ExtensionProofs ---------------------------
(* The surfaces of the extension: what its panel shows of a page, the token  *)
(* of the companion, the deletion of all data, the letters of the studio and *)
(* the references to profiles, for any number of tabs, pages, handlers,      *)
(* letters, profiles and stops of the worker.                                *)
EXTENDS PageContext, Pairing, SettingsStore, LetterStudio, Profiles, FiniteSetTheorems, TLAPS

(* The context of the page.                                                *)

PageSpec == PageInit /\ [][PageNext]_pageVars

DetectionFields == {"stage", "gen", "era", "tab", "page", "mode", "found", "retried"}

\* A detection, and what it has found, have their fields.
IsDetection(d) == DetectionFields \subseteq DOMAIN d /\ "refresh" \in DOMAIN d.found

PageTypeOK ==
    /\ resets \in Nat /\ generation \in Nat
    /\ contexts = [tab \in PageTabs |-> contexts[tab]]
    /\ \E n \in Nat : DOMAIN detections = 1..n
    /\ \A r \in DOMAIN detections : IsDetection(detections[r])

\* A request is in the worker since the reset that its generation tells, as long
\* as the worker was not stopped.
TellsItsEra(r) ==
    LET d == detections[r] IN
    InWorker(d) => /\ d.gen \in Nat /\ d.gen <= generation
                   /\ d.gen = generation => d.era = resets

PageInv ==
    /\ PageTypeOK
    /\ \A r \in DOMAIN detections : TellsItsEra(r)
    /\ StaleAnswersAreDropped

-----------------------------------------------------------------------------
LEMMA RefreshIs ==
  ASSUME NEW n \in Nat, DOMAIN detections = 1..n
  PROVE  Refresh = n
  BY FS_Interval DEF Refresh

LEMMA PageStarts == PageInit => PageInv
<1> SUFFICES ASSUME PageInit PROVE PageInv
  OBVIOUS
<1>1. DOMAIN detections = 1..0
  BY DEF PageInit
<1>2. QED
  BY <1>1 DEF PageInit, PageInv, PageTypeOK, TellsItsEra, StaleAnswersAreDropped, NoContext

\* A step that moves one refresh on, or none, and is no answer of a page.
LEMMA DetectionStep ==
  ASSUME PageInv, NEW r \in DOMAIN detections, NEW d, Goto(r, d), IsDetection(d),
         TellsItsEra(r)', generation' = generation, resets' = resets,
         contexts' = [tab \in PageTabs |-> contexts'[tab]],
         \A tab \in PageTabs : contexts'[tab] \in {contexts[tab], NoContext} \/ contexts'[tab].era = resets,
         d.stage # "done" => ctx' = ctx,
         d.stage = "done" /\ r = Refresh => ctx'.refresh = r,
         r # Refresh => ctx' = ctx
  PROVE  PageInv'
<1> USE DEF PageInv
<1>1. PICK n \in Nat : DOMAIN detections = 1..n
  BY DEF PageTypeOK
<1>2. DOMAIN detections' = 1..n /\ detections'[r] = d
      /\ \A q \in 1..n : q # r => detections'[q] = detections[q]
  BY <1>1 DEF Goto
<1>3. Refresh = n /\ Refresh' = n
  BY <1>1, <1>2, RefreshIs, FS_Interval DEF Refresh
<1>4. PageTypeOK'
  BY <1>1, <1>2 DEF PageTypeOK
<1>5. \A q \in DOMAIN detections' : TellsItsEra(q)'
  BY <1>1, <1>2 DEF TellsItsEra, InWorker
<1>6. \A tab \in PageTabs : contexts'[tab] # NoContext => contexts'[tab].era = resets'
  BY DEF StaleAnswersAreDropped
<1>7. detections'[n].stage = "done" /\ n # 0 => ctx'.refresh = n
  <2>1. CASE r = n
    BY <1>2, <1>3, <2>1
  <2>2. CASE r # n
    <3>1. n # 0 => (detections[n].stage = "done" => ctx.refresh = n)
      BY <1>1, <1>3 DEF StaleAnswersAreDropped
    <3>2. ctx' = ctx
      BY <1>2, <1>3, <2>2
    <3>3. QED
      BY <1>1, <1>2, <2>2, <3>1, <3>2
  <2>3. QED
    BY <2>1, <2>2
<1>8. StaleAnswersAreDropped'
  BY <1>2, <1>3, <1>6, <1>7 DEF StaleAnswersAreDropped
<1>9. QED
  BY <1>4, <1>5, <1>8

-----------------------------------------------------------------------------
(* The steps of a refresh.                                                  *)

LEMMA Fresh ==
  /\ IsDetection(NotAsked) /\ NotAsked.stage = "asking"
  /\ \A found : "refresh" \in DOMAIN found =>
            IsDetection(Showing(found)) /\ Showing(found).stage = "show"
  /\ \A d : IsDetection(Unresolved(d))
            /\ Unresolved(d).stage \in {"show", "asking"}
  BY DEF NotAsked, Showing, Unresolved, EmptyCtx, DetectionFields, IsDetection

\* A step of a refresh that leaves the worker, or is not in it, moves no context
\* but to none and does not end.
LEMMA OutsideStep ==
  ASSUME PageInv, NEW r \in DOMAIN detections, NEW d, Goto(r, d), IsDetection(d),
         d.stage \in {"asking", "reading", "extracting", "show"},
         UNCHANGED <<generation, resets, ctx>>,
         contexts' = [tab \in PageTabs |-> contexts'[tab]],
         \A tab \in PageTabs : contexts'[tab] \in {contexts[tab], NoContext} \/ contexts'[tab].era = resets
  PROVE  PageInv'
<1>1. detections'[r] = d
  BY DEF Goto
<1>2. TellsItsEra(r)'
  BY <1>1 DEF TellsItsEra, InWorker
<1>3. QED
  BY <1>2, DetectionStep

LEMMA AskSteps ==
  ASSUME PageInv, NEW r \in DOMAIN detections, ContextRequested(r) \/ ResolveTarget(r)
  PROVE  PageInv'
<1> USE DEF PageInv, PageTypeOK
<1>1. IsDetection(detections[r])
  OBVIOUS
<1>2. CASE ContextRequested(r)
  <2> DEFINE d == [detections[r] EXCEPT !.stage = "binding", !.gen = generation, !.era = resets]
  <2>1. IsDetection(d) /\ d.stage = "binding" /\ d.gen = generation /\ d.era = resets
    BY <1>1 DEF DetectionFields, IsDetection
  <2>2. Goto(r, d) /\ UNCHANGED <<contexts, ctx, generation, resets>>
    BY <1>2 DEF ContextRequested, sessionVars
  <2> HIDE DEF d
  <2>3. TellsItsEra(r)'
    BY <2>1, <2>2 DEF TellsItsEra, Goto
  <2>4. QED
    BY <2>1, <2>2, <2>3, DetectionStep
<1>3. CASE ResolveTarget(r)
  <2> DEFINE tab == IF binding = NoTab THEN activeTab ELSE binding
             d == [detections[r] EXCEPT !.stage = "page", !.tab = tab]
  <2>1. IsDetection(d) /\ d.stage = "page" /\ d.gen = detections[r].gen
        /\ d.era = detections[r].era
    BY <1>1 DEF DetectionFields, IsDetection
  <2>2. Goto(r, d) /\ UNCHANGED <<contexts, ctx, generation, resets>> /\ detections[r].stage = "binding"
    BY <1>3 DEF ResolveTarget, sessionVars
  <2> HIDE DEF d
  <2>3. TellsItsEra(r)'
    BY <2>1, <2>2 DEF TellsItsEra, Goto, InWorker
  <2>4. QED
    BY <2>1, <2>2, <2>3, DetectionStep
<1>4. QED
  BY <1>2, <1>3

LEMMA AnswerSteps ==
  ASSUME PageInv, NEW r \in DOMAIN detections, PageAnswers(r)
  PROVE  PageInv'
<1> USE DEF PageInv, PageTypeOK
<1> DEFINE d == detections[r]
           live == page[d.tab]
           known == [NotAsked EXCEPT !.stage = "reading", !.tab = d.tab, !.page = live]
<1>1. UNCHANGED <<ctx, generation, resets>> /\ d.stage = "page"
  BY DEF PageAnswers
<1>2. IsDetection(known) /\ known.stage = "reading"
  BY DEF NotAsked, EmptyCtx, DetectionFields, IsDetection
<1>3. IsDetection(Unresolved(d)) /\ Unresolved(d).stage \in {"show", "asking"}
  BY Fresh
<1>4. CASE /\ contexts' = [contexts EXCEPT ![d.tab] = NoContext] \/ contexts' = contexts
           /\ Goto(r, known) \/ Goto(r, Unresolved(d))
  <2>1. contexts' = [tab \in PageTabs |-> contexts'[tab]]
        /\ \A tab \in PageTabs : contexts'[tab] \in {contexts[tab], NoContext}
    BY <1>4
  <2> HIDE DEF known, d
  <2>2. QED
    BY <1>1, <1>2, <1>3, <1>4, <2>1, OutsideStep
<1>5. CASE /\ contexts' = [contexts EXCEPT ![d.tab] = [vacancy |-> live.vacancy, era |-> d.era]]
           /\ IsCurrent(d) /\ Goto(r, known)
  <2>1. d.era = resets
    BY <1>1, <1>5 DEF IsCurrent, TellsItsEra, InWorker
  <2>2. contexts' = [tab \in PageTabs |-> contexts'[tab]]
        /\ \A tab \in PageTabs : contexts'[tab] = contexts[tab] \/ contexts'[tab].era = resets
    BY <1>5, <2>1
  <2> HIDE DEF known, d
  <2>3. QED
    BY <1>1, <1>2, <1>5, <2>2, OutsideStep
<1>6. QED
  BY <1>4, <1>5 DEF PageAnswers

LEMMA PanelSteps ==
  ASSUME PageInv, NEW r \in DOMAIN detections,
         ReadJob(r) \/ ExtractVacancy(r) \/ ExtractHrTimeline(r) \/ SetCtx(r)
  PROVE  PageInv'
<1> USE DEF PageInv, PageTypeOK
<1>1. IsDetection(detections[r])
  OBVIOUS
<1>2. UNCHANGED <<contexts, generation, resets>>
  BY DEF ReadJob, ExtractVacancy, ExtractHrTimeline, SetCtx, sessionVars
<1>3. CASE ReadJob(r)
  <2>1. PICK m, found : "refresh" \in DOMAIN found /\ Goto(r, [detections[r] EXCEPT !.stage = "extracting", !.mode = m, !.found = found])
    BY <1>3 DEF ReadJob, EmptyCtx
  <2> DEFINE d == [detections[r] EXCEPT !.stage = "extracting", !.mode = m, !.found = found]
  <2>2. IsDetection(d) /\ d.stage = "extracting"
    BY <1>1, <2>1 DEF DetectionFields, IsDetection
  <2>3. Goto(r, d) /\ ctx' = ctx
    BY <1>3, <2>1 DEF ReadJob
  <2> HIDE DEF d
  <2>4. QED
    BY <1>2, <2>2, <2>3, OutsideStep
<1>4. CASE ExtractVacancy(r) \/ ExtractHrTimeline(r)
  <2>1. PICK found : "refresh" \in DOMAIN found /\ Goto(r, Showing(found))
    BY <1>1, <1>4 DEF ExtractVacancy, ExtractHrTimeline, EmptyCtx, IsDetection
  <2>2. ctx' = ctx
    BY <1>4 DEF ExtractVacancy, ExtractHrTimeline
  <2>3. QED
    BY <1>2, <2>1, <2>2, Fresh, OutsideStep
<1>5. CASE SetCtx(r)
  <2> DEFINE d == [NotAsked EXCEPT !.stage = "done"]
  <2>1. IsDetection(d) /\ d.stage = "done"
    BY DEF NotAsked, EmptyCtx, DetectionFields, IsDetection
  <2>2. Goto(r, d)
    BY <1>5 DEF SetCtx
  <2>3. (r = Refresh => ctx' = [detections[r].found EXCEPT !.refresh = r]) /\ (r # Refresh => ctx' = ctx)
    BY <1>5 DEF SetCtx, Shows
  <2> HIDE DEF d
  <2>4. TellsItsEra(r)'
    BY <2>1, <2>2 DEF TellsItsEra, Goto, InWorker
  <2>5. r = Refresh => ctx'.refresh = r
    BY <1>1, <2>3 DEF IsDetection
  <2>6. QED
    BY <1>2, <2>1, <2>2, <2>3, <2>4, <2>5, DetectionStep
<1>6. QED
  BY <1>3, <1>4, <1>5

-----------------------------------------------------------------------------
(* The rest of the browser and the panel.                                   *)

\* A step that moves no refresh on, and counts on the generation with a reset.
LEMMA OtherSteps ==
  ASSUME PageInv,
         \/ OpenWithoutVacancy \/ NotifyReset \/ ChangeMode \/ UNCHANGED pageVars
         \/ \E cleanup \in cleanups : CleanUp(cleanup)
         \/ \E tab \in PageTabs :
              Navigate(tab) \/ SelectTab(tab) \/ RegisterVacancyContext(tab) \/ OpenSidePanel(tab)
  PROVE  PageInv'
<1> USE DEF PageInv, PageTypeOK
<1>1. UNCHANGED <<detections, ctx>>
  BY DEF OpenWithoutVacancy, NotifyReset, ChangeMode, CleanUp, Navigate, SelectTab,
         RegisterVacancyContext, OpenSidePanel, panelVars, pageVars
<1>2. Refresh' = Refresh
  BY <1>1 DEF Refresh
<1>3. CASE NotifyReset
  <2>1. resets' = resets + 1 /\ generation' = generation + 1
        /\ contexts' = [tab \in PageTabs |-> NoContext]
    BY <1>3 DEF NotifyReset
  <2>2. PageTypeOK'
    BY <1>1, <2>1
  <2>3. \A r \in DOMAIN detections : TellsItsEra(r)'
    BY <1>1, <2>1 DEF TellsItsEra, InWorker
  <2>4. StaleAnswersAreDropped'
    BY <1>1, <1>2, <2>1 DEF StaleAnswersAreDropped
  <2>5. QED
    BY <1>1, <2>2, <2>3, <2>4
<1>4. CASE ~ NotifyReset
  <2>1. UNCHANGED <<resets, generation>>
    BY <1>4 DEF OpenWithoutVacancy, ChangeMode, CleanUp, Navigate, SelectTab,
                RegisterVacancyContext, OpenSidePanel, panelVars, sessionVars, pageVars
  <2>2. contexts' = [tab \in PageTabs |-> contexts'[tab]]
        /\ \A tab \in PageTabs : contexts'[tab] \in {contexts[tab], NoContext} \/ contexts'[tab].era = resets
    BY <1>4 DEF OpenWithoutVacancy, ChangeMode, CleanUp, Navigate, SelectTab, Context,
                RegisterVacancyContext, OpenSidePanel, panelVars, sessionVars, pageVars
  <2>3. PageTypeOK'
    BY <1>1, <2>1, <2>2
  <2>4. \A r \in DOMAIN detections : TellsItsEra(r)'
    BY <1>1, <2>1 DEF TellsItsEra, InWorker
  <2>5. StaleAnswersAreDropped'
    BY <1>1, <1>2, <2>1, <2>2 DEF StaleAnswersAreDropped
  <2>6. QED
    BY <1>1, <2>3, <2>4, <2>5
<1>5. QED
  BY <1>3, <1>4

LEMMA WorkerStopsKeeps ==
  ASSUME PageInv, WorkerStops
  PROVE  PageInv'
<1> USE DEF PageInv, PageTypeOK
<1>1. /\ generation' = 0 /\ UNCHANGED <<contexts, resets, ctx>>
      /\ detections' = [r \in DOMAIN detections |->
                          IF InWorker(detections[r]) THEN Showing(EmptyCtx) ELSE detections[r]]
  BY DEF WorkerStops, sessionVars
<1>2. IsDetection(Showing(EmptyCtx)) /\ Showing(EmptyCtx).stage = "show"
  BY Fresh DEF EmptyCtx
<1>3. Refresh' = Refresh /\ DOMAIN detections' = DOMAIN detections
  BY <1>1 DEF Refresh
<1>4. PageTypeOK'
  BY <1>1, <1>2, <1>3
<1>5. \A r \in DOMAIN detections' : TellsItsEra(r)'
  BY <1>1, <1>2 DEF TellsItsEra, InWorker
<1>6. StaleAnswersAreDropped'
  BY <1>1, <1>2, <1>3 DEF StaleAnswersAreDropped
<1>7. QED
  BY <1>4, <1>5, <1>6

LEMMA HandleRefreshKeeps ==
  ASSUME PageInv, HandleRefresh
  PROVE  PageInv'
<1> USE DEF PageInv, PageTypeOK
<1>1. PICK n \in Nat : DOMAIN detections = 1..n
  OBVIOUS
<1>2. Refresh = n
  BY <1>1, RefreshIs
<1>3. /\ UNCHANGED <<contexts, generation, resets, ctx>>
      /\ detections' = [r \in 1..(n + 1) |-> IF r <= n THEN detections[r] ELSE NotAsked]
  BY <1>2 DEF HandleRefresh, sessionVars
<1>4. DOMAIN detections' = 1..(n + 1) /\ Refresh' = n + 1
  <2>1. ASSUME NEW m \in Nat PROVE Cardinality(1..m) = m
    <3>1. m \in Int /\ 1 \in Int /\ (1 > m => m = 0) /\ m - 1 + 1 = m
      OBVIOUS
    <3>2. QED
      BY <3>1, FS_Interval
  <2>2. DOMAIN detections' = 1..(n + 1)
    BY <1>3
  <2>3. QED
    BY <2>1, <2>2 DEF Refresh, PageTypeOK
<1>5. IsDetection(NotAsked) /\ NotAsked.stage = "asking"
  BY Fresh
<1>6. PageTypeOK'
  BY <1>1, <1>3, <1>4, <1>5
<1>7. \A r \in DOMAIN detections' : TellsItsEra(r)'
  BY <1>1, <1>3, <1>5 DEF TellsItsEra, InWorker
<1>8. StaleAnswersAreDropped'
  BY <1>3, <1>4, <1>5 DEF StaleAnswersAreDropped
<1>9. QED
  BY <1>6, <1>7, <1>8

-----------------------------------------------------------------------------
\* An answer asked for before a reset puts no context back, and the panel shows
\* the latest refresh once it is done, however often the worker is stopped.
THEOREM StaleAnswersDropped == PageSpec => []StaleAnswersAreDropped
<1>1. PageInv /\ [PageNext]_pageVars => PageInv'
  BY AskSteps, AnswerSteps, PanelSteps, OtherSteps, WorkerStopsKeeps, HandleRefreshKeeps DEF PageNext
<1>2. PageInv => StaleAnswersAreDropped
  BY DEF PageInv
<1>3. QED
  BY PageStarts, <1>1, <1>2, PTL DEF PageSpec

-----------------------------------------------------------------------------
(* Pairing.                                                                *)

PairingSpec == PairingInit /\ [][PairingNext]_pairingVars

CallPoints == {"idle", "settings", "token", "inject", "handshake", "status", "refused",
               "pair", "recover", "save", "load", "load_to_revoke", "inject_to_revoke",
               "revoke", "forget"}
Call == [at : CallPoints, token : Nat, owned : BOOLEAN, stale : BOOLEAN]

PairingTypeOK ==
    /\ issued \in Nat
    /\ storedToken \in Nat /\ storedToken <= issued
    /\ clientToken \in [PairingPages -> Nat]
    /\ probe \in [PairingPages -> Call]
    /\ job \in Call
    /\ wiped \subseteq {t \in Nat : t # NoToken /\ t <= issued}

\* A call that is over has no token.
IdleHasNone(call) == call.at = "idle" => call.token = NoToken /\ ~ call.owned

\* A token that is to be saved was never stored before.
SavesFreshToken ==
    job.at = "save" => job.token \notin wiped \cup {storedToken, NoToken} /\ job.token <= issued

\* Whoever still holds a forgotten token was told that the client was reset.
HoldersAreStale ==
    ~ wiping =>
      /\ probe[SettingsPage].token \in wiped => probe[SettingsPage].stale
      /\ job.token \in wiped => job.stale

PairingInv ==
    /\ PairingTypeOK
    /\ \A p \in PairingPages : IdleHasNone(probe[p])
    /\ IdleHasNone(job)
    /\ SavesFreshToken
    /\ storedToken \notin wiped
    /\ HoldersAreStale
    /\ ForgottenStaysForgotten

-----------------------------------------------------------------------------
LEMMA PairingStarts == PairingInit => PairingInv
  BY PairingAssumption
  DEF PairingInit, PairingInv, PairingTypeOK, Call, CallPoints, IdleHasNone, SavesFreshToken,
      HoldersAreStale, ForgottenStaysForgotten, ProbeIdle, JobIdle, At, NoToken

\* A probe's step: its page's record is replaced.
LEMMA ProbeMoves ==
  ASSUME PairingInv, NEW p \in PairingPages, NEW q \in Call,
         probe' = [probe EXCEPT ![p] = q], IdleHasNone(q)
  PROVE  /\ probe' \in [PairingPages -> Call]
         /\ probe'[p] = q /\ \A o \in PairingPages \ {p} : probe'[o] = probe[o]
         /\ \A o \in PairingPages : IdleHasNone(probe'[o])
  BY DEF PairingInv, PairingTypeOK

\* A step of a page's probe that stores no token and gives its client none that
\* was forgotten, unless the probe is stale.
LEMMA ProbeStep ==
  ASSUME PairingInv, NEW p \in PairingPages, NEW q \in Call, IdleHasNone(q),
         probe' = [probe EXCEPT ![p] = q],
         q.token \in {NoToken, storedToken} \/ (q.token = probe[p].token /\ q.stale = probe[p].stale),
         NEW t \in Nat, clientToken' = [clientToken EXCEPT ![p] = t],
         t \in {NoToken, clientToken[p]} \/ (t = probe[p].token /\ ~ probe[p].stale),
         storedToken' \in {storedToken, NoToken},
         UNCHANGED <<issued, job, wiping, wiped>>
  PROVE  PairingInv'
<1> USE DEF PairingInv
<1>1. PairingTypeOK' /\ \A o \in PairingPages : IdleHasNone(probe'[o])
  BY ProbeMoves DEF PairingTypeOK, NoToken
<1>2. NoToken \notin wiped
  BY DEF PairingTypeOK
<1>3. (SavesFreshToken /\ storedToken \notin wiped)'
  BY <1>2 DEF SavesFreshToken
<1>4. \A o \in PairingPages \ {p} : probe'[o] = probe[o] /\ clientToken'[o] = clientToken[o]
  BY ProbeMoves DEF PairingTypeOK
<1>5. probe'[p] = q /\ clientToken'[p] = t
  BY DEF PairingTypeOK
<1>6. HoldersAreStale'
  <2>1. CASE p = SettingsPage
    BY <1>2, <1>5, <2>1 DEF HoldersAreStale
  <2>2. CASE p # SettingsPage
    BY <1>4, <2>2, PairingAssumption DEF HoldersAreStale
  <2>3. QED
    BY <2>1, <2>2
<1>7. ForgottenStaysForgotten'
  <2>1. CASE p = SettingsPage
    BY <1>2, <1>5, <2>1 DEF HoldersAreStale, ForgottenStaysForgotten
  <2>2. CASE p # SettingsPage
    BY <1>4, <2>2, PairingAssumption DEF ForgottenStaysForgotten
  <2>3. QED
    BY <2>1, <2>2
<1>8. QED
  BY <1>1, <1>3, <1>6, <1>7

LEMMA CallsStart ==
  ASSUME NEW a \in CallPoints
  PROVE  At(a) \in Call /\ IdleHasNone(At(a)) /\ At(a).token = NoToken /\ At(a).at = a
  BY DEF At, Call, IdleHasNone, NoToken

\* The record of a page's probe may be written field by field.
LEMMA FieldByField ==
  ASSUME PairingTypeOK, NEW p \in PairingPages, NEW a \in CallPoints, NEW t \in Nat, NEW b \in BOOLEAN
  PROVE  /\ [probe EXCEPT ![p].at = a] = [probe EXCEPT ![p] = [probe[p] EXCEPT !.at = a]]
         /\ [probe EXCEPT ![p].at = a, ![p].token = t]
              = [probe EXCEPT ![p] = [probe[p] EXCEPT !.at = a, !.token = t]]
         /\ [probe EXCEPT ![p].at = a, ![p].owned = b]
              = [probe EXCEPT ![p] = [probe[p] EXCEPT !.at = a, !.owned = b]]
  BY DEF PairingTypeOK, Call

LEMMA UnchangedClient ==
  ASSUME PairingTypeOK, NEW p \in PairingPages
  PROVE  clientToken = [clientToken EXCEPT ![p] = clientToken[p]] /\ clientToken[p] \in Nat
  BY DEF PairingTypeOK

LEMMA ProbeSteps ==
  ASSUME PairingInv, NEW p \in PairingPages,
         \/ StartsProbe(p) \/ ReadsSettings(p) \/ LoadsToken(p)
         \/ InjectsToken(p) \/ Handshake(p) \/ PairStatus(p) \/ DeletesRefused(p)
  PROVE  PairingInv'
<1>1. PairingTypeOK /\ probe[p] \in Call /\ NoToken \in Nat
  BY DEF PairingInv, PairingTypeOK, NoToken
<1>2. UNCHANGED <<issued, job, wiping, wiped>>
  BY DEF StartsProbe, ReadsSettings, LoadsToken, InjectsToken, Handshake, PairStatus, DeletesRefused
<1>3. ProbeIdle \in Call /\ IdleHasNone(ProbeIdle) /\ ProbeIdle.token = NoToken
  BY CallsStart DEF ProbeIdle, CallPoints
<1>4. CASE StartsProbe(p)
  <2>1. At("settings") \in Call /\ IdleHasNone(At("settings")) /\ At("settings").token = NoToken
    BY CallsStart DEF CallPoints
  <2>2. probe' = [probe EXCEPT ![p] = At("settings")] /\ UNCHANGED <<clientToken, storedToken>>
    BY <1>4 DEF StartsProbe
  <2>3. QED
    BY <1>1, <1>2, <2>1, <2>2, UnchangedClient, ProbeStep
<1>5. CASE probe' = [probe EXCEPT ![p] = ProbeIdle] /\ clientToken' = clientToken
           /\ storedToken' \in {storedToken, NoToken}
  BY <1>1, <1>2, <1>3, <1>5, UnchangedClient, ProbeStep
<1>6. CASE ReadsSettings(p) /\ opsWanted
  <2> DEFINE q == [probe[p] EXCEPT !.at = "token"]
  <2>1. q \in Call /\ IdleHasNone(q) /\ q.token = probe[p].token /\ q.stale = probe[p].stale
    BY <1>1 DEF Call, CallPoints, IdleHasNone
  <2>2. probe' = [probe EXCEPT ![p].at = "token"] /\ storedToken' = storedToken
        /\ clientToken' = [clientToken EXCEPT ![p] = NoToken]
    BY <1>6 DEF ReadsSettings
  <2>3. probe' = [probe EXCEPT ![p] = q]
    BY <1>1, <2>2, FieldByField DEF CallPoints
  <2> HIDE DEF q
  <2>4. QED
    BY <1>1, <1>2, <2>1, <2>2, <2>3, ProbeStep
<1>7. CASE LoadsToken(p)
  <2> DEFINE q == [probe[p] EXCEPT !.at = "inject", !.token = storedToken]
  <2>1. q \in Call /\ IdleHasNone(q) /\ q.token = storedToken
    BY <1>1 DEF Call, CallPoints, IdleHasNone, PairingTypeOK
  <2>2. probe' = [probe EXCEPT ![p].at = "inject", ![p].token = storedToken]
        /\ UNCHANGED <<storedToken, clientToken>>
    BY <1>7 DEF LoadsToken
  <2>3. "inject" \in CallPoints /\ storedToken \in Nat
    BY <1>1 DEF CallPoints, PairingTypeOK
  <2>4. [probe EXCEPT ![p].at = "inject", ![p].token = storedToken] = [probe EXCEPT ![p] = q]
    BY <1>1, <2>3, FieldByField
  <2>5. probe' = [probe EXCEPT ![p] = q]
    BY <2>2, <2>4
  <2> HIDE DEF q
  <2> QED
    BY <1>1, <1>2, <2>1, <2>2, <2>5, UnchangedClient, ProbeStep
<1>8. CASE InjectsToken(p) /\ Injects(p, probe[p])
  <2> DEFINE q == [probe[p] EXCEPT !.at = "handshake", !.owned = TRUE]
  <2>1. q \in Call /\ IdleHasNone(q) /\ q.token = probe[p].token /\ q.stale = probe[p].stale
    BY <1>1 DEF Call, CallPoints, IdleHasNone
  <2>2. probe' = [probe EXCEPT ![p].at = "handshake", ![p].owned = TRUE] /\ storedToken' = storedToken
        /\ clientToken' = [clientToken EXCEPT ![p] = probe[p].token]
    BY <1>8 DEF InjectsToken
  <2>3. probe' = [probe EXCEPT ![p] = q]
    BY <1>1, <2>2, FieldByField DEF CallPoints
  <2> HIDE DEF q
  <2>4. probe[p].token \in Nat /\ ~ probe[p].stale
    BY <1>1, <1>8 DEF Call, Injects
  <2>5. QED
    BY <1>1, <1>2, <2>1, <2>2, <2>3, <2>4, ProbeStep
<1>9. ASSUME NEW a \in {"status", "refused"}, probe' = [probe EXCEPT ![p].at = a],
             UNCHANGED <<storedToken, clientToken>>
      PROVE  PairingInv'
  <2> DEFINE q == [probe[p] EXCEPT !.at = a]
  <2>1. q \in Call /\ IdleHasNone(q) /\ q.token = probe[p].token /\ q.stale = probe[p].stale
    BY <1>1 DEF Call, CallPoints, IdleHasNone
  <2>2. probe' = [probe EXCEPT ![p] = q]
    BY <1>1, <1>9, FieldByField DEF CallPoints
  <2> HIDE DEF q
  <2>3. QED
    BY <1>1, <1>2, <1>9, <2>1, <2>2, UnchangedClient, ProbeStep
<1>10. CASE DeletesRefused(p)
  <2>1. probe' = [probe EXCEPT ![p] = ProbeIdle] /\ storedToken' \in {storedToken, NoToken}
    BY <1>10 DEF DeletesRefused, ProbeEnds
  <2>2. CASE clientToken' = clientToken
    BY <1>5, <2>1, <2>2
  <2>3. CASE clientToken' = [clientToken EXCEPT ![p] = NoToken]
    BY <1>1, <1>2, <1>3, <2>1, <2>3, ProbeStep
  <2>4. QED
    BY <1>10, <2>2, <2>3 DEF DeletesRefused
<1>11. CASE ReadsSettings(p) \/ InjectsToken(p)
  BY <1>5, <1>6, <1>8, <1>11 DEF ReadsSettings, InjectsToken, ProbeEnds
<1>12. CASE Handshake(p) \/ PairStatus(p)
  BY <1>5, <1>9, <1>12 DEF Handshake, PairStatus, ProbeEnds
<1>13. QED
  BY <1>4, <1>7, <1>10, <1>11, <1>12

-----------------------------------------------------------------------------
(* The settings page.                                                       *)

\* A step of its handler that leaves the clients alone.
LEMMA JobStep ==
  ASSUME PairingInv, UNCHANGED <<clientToken, probe, wiping, wiped>>, issued' \in Nat, issued' >= issued,
         storedToken' \in {storedToken, NoToken} \/ (storedToken' = job.token /\ job.at = "save"),
         job' \in Call, IdleHasNone(job)',
         \/ job'.token = NoToken
         \/ job'.token = job.token /\ job'.stale = job.stale
         \/ job'.token = storedToken
         \/ job'.token > issued,
         job'.at = "save" => /\ job'.token <= issued'
                             /\ job'.token > issued \/ (job.at = "save" /\ job'.token = job.token)
                             /\ storedToken' = storedToken
  PROVE  PairingInv'
<1> USE DEF PairingInv
<1>1. NoToken \notin wiped /\ \A t \in wiped : t \in Nat /\ t <= issued
  BY DEF PairingTypeOK
<1>2. storedToken' \notin wiped /\ storedToken' \in Nat /\ storedToken' <= issued
  BY <1>1 DEF SavesFreshToken, PairingTypeOK, NoToken, Call
<1>3. PairingTypeOK'
  BY <1>1, <1>2 DEF PairingTypeOK
<1>4. job'.token \in wiped => job'.token = job.token /\ job'.stale = job.stale
  BY <1>1 DEF PairingTypeOK, Call
<1>5. HoldersAreStale' /\ ForgottenStaysForgotten'
  BY <1>4 DEF HoldersAreStale, ForgottenStaysForgotten
<1>6. SavesFreshToken'
  BY <1>1 DEF SavesFreshToken, PairingTypeOK, Call, NoToken
<1>7. QED
  BY <1>2, <1>3, <1>5, <1>6

LEMMA JobSteps ==
  ASSUME PairingInv,
         \/ \E offer \in {"pair", "recover"} : StartsPairing(offer)
         \/ CancelsPairing \/ ConfirmsPairing \/ JobLoadsToken \/ Revokes
  PROVE  PairingInv'
<1>1. UNCHANGED <<clientToken, probe, wiping, wiped, storedToken>>
  BY DEF StartsPairing, CancelsPairing, ConfirmsPairing, JobLoadsToken, Revokes
<1>2. job \in Call /\ IdleHasNone(job) /\ issued \in Nat /\ storedToken \in Nat
  BY DEF PairingInv, PairingTypeOK
<1>3. JobIdle \in Call /\ IdleHasNone(JobIdle) /\ JobIdle.token = NoToken /\ JobIdle.at = "idle"
  BY CallsStart DEF JobIdle, CallPoints
<1>4. CASE issued' = issued /\ job' = job
  BY <1>1, <1>2, <1>4, JobStep DEF PairingInv, SavesFreshToken
<1>5. CASE issued' = issued /\ job' = JobIdle
  BY <1>1, <1>2, <1>3, <1>5, JobStep
<1>6. ASSUME NEW offer \in {"pair", "recover"}, StartsPairing(offer) PROVE PairingInv'
  <2>1. At(offer) \in Call /\ IdleHasNone(At(offer)) /\ At(offer).token = NoToken /\ At(offer).at = offer
    BY CallsStart DEF CallPoints
  <2>2. CASE job' = At(offer)
    BY <1>1, <1>2, <1>6, <2>1, <2>2, JobStep DEF StartsPairing
  <2>3. QED
    BY <1>4, <1>6, <2>2 DEF StartsPairing
<1>7. CASE CancelsPairing
  BY <1>5, <1>7 DEF CancelsPairing
<1>8. CASE ConfirmsPairing
  <2>1. CASE issued' = issued + 1 /\ job' = [job EXCEPT !.at = "save", !.token = issued + 1]
    <3>1. issued + 1 \in Nat /\ issued + 1 > issued
      BY <1>2
    <3>2. job' \in Call /\ IdleHasNone(job)' /\ job'.at = "save" /\ job'.token = issued + 1
      BY <1>2, <2>1, <3>1 DEF Call, CallPoints, IdleHasNone
    <3>3. job.at # "save"
      BY <1>8 DEF ConfirmsPairing
    <3>4. QED
      BY <1>1, <1>2, <2>1, <3>1, <3>2, <3>3, JobStep
  <2>2. CASE issued' = issued + 1 /\ job' = JobIdle
    <3>1. issued + 1 \in Nat /\ issued + 1 >= issued
      BY <1>2
    <3>2. QED
      BY <1>1, <1>3, <2>2, <3>1, JobStep
  <2>3. QED
    BY <1>4, <1>5, <1>8, <2>1, <2>2 DEF ConfirmsPairing
<1>9. CASE JobLoadsToken
  <2> DEFINE a == IF job.at = "load" THEN "inject" ELSE "inject_to_revoke"
  <2>1. job' = [job EXCEPT !.at = a, !.token = storedToken] /\ issued' = issued
    BY <1>9 DEF JobLoadsToken
  <2>2. job' \in Call /\ IdleHasNone(job)' /\ job'.at = a /\ job'.token = storedToken
    BY <1>2, <2>1 DEF Call, CallPoints, IdleHasNone
  <2>3. QED
    BY <1>1, <1>2, <2>1, <2>2, JobStep
<1>10. CASE Revokes
  <2>1. job' = [job EXCEPT !.at = "forget"] /\ issued' = issued
    BY <1>10 DEF Revokes
  <2>2. job' \in Call /\ IdleHasNone(job)' /\ job'.at = "forget" /\ job'.token = job.token
        /\ job'.stale = job.stale
    BY <1>2, <2>1 DEF Call, CallPoints, IdleHasNone
  <2>3. QED
    BY <1>1, <1>2, <2>1, <2>2, JobStep
<1>11. QED
  BY <1>6, <1>7, <1>8, <1>9, <1>10

\* A step of the handler that gives the page's client, and a probe that uses it,
\* a token that was not forgotten, or any token before the reset.
LEMMA ClientStep ==
  ASSUME PairingInv, NEW t \in Nat, wiping \/ t \notin wiped, ClientSet(t),
         \/ storedToken' \in {storedToken, NoToken}
         \/ storedToken' = t /\ t \notin wiped /\ t <= issued,
         job' = JobIdle \/ (job' = [job EXCEPT !.at = "revoke"] /\ job.at # "save"),
         UNCHANGED <<issued, wiping, wiped>>
  PROVE  PairingInv'
<1> USE DEF PairingInv
<1> DEFINE u == IF probe[SettingsPage].owned THEN t ELSE probe[SettingsPage].token
           q == [probe[SettingsPage] EXCEPT !.token = u]
<1>1. probe[SettingsPage] \in Call /\ probe[SettingsPage].token \in Nat
  BY PairingAssumption DEF PairingTypeOK, Call
<1>2. probe' = [probe EXCEPT ![SettingsPage] = q]
  BY PairingAssumption DEF ClientSet, PairingTypeOK, Call
<1>3. q \in Call /\ IdleHasNone(q) /\ q.token = u /\ q.stale = probe[SettingsPage].stale
  BY <1>1, PairingAssumption DEF Call, IdleHasNone
<1> HIDE DEF q
<1>4. /\ probe' \in [PairingPages -> Call] /\ probe'[SettingsPage] = q
      /\ \A o \in PairingPages : IdleHasNone(probe'[o])
  BY <1>2, <1>3, ProbeMoves, PairingAssumption
<1>5. clientToken' \in [PairingPages -> Nat] /\ clientToken'[SettingsPage] = t
  BY PairingAssumption DEF ClientSet, PairingTypeOK
<1>6. /\ job' \in Call /\ IdleHasNone(job)' /\ job'.at # "save"
      /\ job'.token = NoToken \/ (job'.token = job.token /\ job'.stale = job.stale)
  <2>1. JobIdle \in Call /\ IdleHasNone(JobIdle) /\ JobIdle.token = NoToken /\ JobIdle.at = "idle"
    BY CallsStart DEF JobIdle, CallPoints
  <2>2. CASE job' = [job EXCEPT !.at = "revoke"] /\ job.at # "save"
    BY <2>2 DEF PairingTypeOK, Call, CallPoints, IdleHasNone
  <2>3. QED
    BY <2>1, <2>2
<1>7. NoToken \notin wiped
  BY DEF PairingTypeOK
<1>8. PairingTypeOK' /\ SavesFreshToken' /\ storedToken' \notin wiped
  BY <1>4, <1>5, <1>6, <1>7 DEF PairingTypeOK, SavesFreshToken, NoToken
<1>9. HoldersAreStale' /\ ForgottenStaysForgotten'
  BY <1>3, <1>4, <1>5, <1>6, <1>7 DEF HoldersAreStale, ForgottenStaysForgotten
<1>10. QED
  BY <1>4, <1>6, <1>8, <1>9

LEMMA ClientSteps ==
  ASSUME PairingInv, SavesToken \/ JobInjectsToken \/ ForgetsToken
  PROVE  PairingInv'
<1> USE DEF PairingInv
<1>1. UNCHANGED <<issued, wiping, wiped>> /\ job \in Call /\ job.token \in Nat /\ issued \in Nat
  BY DEF SavesToken, JobInjectsToken, ForgetsToken, PairingTypeOK, Call
<1>2. JobIdle \in Call /\ IdleHasNone(JobIdle) /\ JobIdle.token = NoToken /\ JobIdle.at = "idle"
  BY CallsStart DEF JobIdle, CallPoints
<1>3. CASE SavesToken
  <2>1. job' = JobIdle /\ job.at = "save" /\ job.token \notin wiped /\ job.token <= issued
    BY <1>3 DEF SavesToken, SavesFreshToken
  <2>2. CASE UNCHANGED <<clientToken, probe>>
    <3>1. storedToken' \in {storedToken, job.token}
      BY <1>3 DEF SavesToken
    <3>2. QED
      BY <1>1, <1>2, <2>1, <2>2, <3>1, JobStep
  <2>3. CASE ClientSet(job.token) /\ storedToken' = job.token
    BY <1>1, <2>1, <2>3, ClientStep
  <2>4. QED
    BY <1>3, <2>2, <2>3 DEF SavesToken
<1>4. CASE JobInjectsToken
  <2>1. storedToken' = storedToken /\ job.at \in {"inject", "inject_to_revoke"}
        /\ job' \in {JobIdle, [job EXCEPT !.at = "revoke"]}
    BY <1>4 DEF JobInjectsToken
  <2>2. CASE UNCHANGED <<clientToken, probe>>
    <3>1. /\ job' \in Call /\ IdleHasNone(job)' /\ job'.at # "save"
          /\ job'.token = NoToken \/ (job'.token = job.token /\ job'.stale = job.stale)
      <4>1. CASE job' = [job EXCEPT !.at = "revoke"]
        BY <1>1, <4>1 DEF Call, CallPoints, IdleHasNone
      <4>2. QED
        BY <1>2, <2>1, <4>1
    <3>2. QED
      BY <1>1, <2>1, <2>2, <3>1, JobStep
  <2>3. CASE ClientSet(job.token) /\ ~ job.stale
    <3>1. wiping \/ job.token \notin wiped
      BY <2>3 DEF HoldersAreStale
    <3>2. QED
      BY <1>1, <2>1, <2>3, <3>1, ClientStep
  <2>4. QED
    BY <1>4, <2>2, <2>3 DEF JobInjectsToken, Injects
<1>5. CASE ForgetsToken
  <2>1. job' = JobIdle /\ NoToken \notin wiped /\ NoToken \in Nat /\ NoToken <= issued
    BY <1>1, <1>5 DEF ForgetsToken, PairingTypeOK, NoToken
  <2>2. CASE UNCHANGED <<clientToken, probe, storedToken>>
    BY <1>1, <1>2, <2>1, <2>2, JobStep
  <2>3. CASE ClientSet(NoToken) /\ storedToken' = NoToken
    BY <1>1, <2>1, <2>3, ClientStep
  <2>4. QED
    BY <1>5, <2>2, <2>3 DEF ForgetsToken
<1>6. QED
  BY <1>3, <1>4, <1>5

\* A new client, which holds no token, and a job that starts over.
LEMMA ReplaceSteps ==
  ASSUME PairingInv, SwitchesOpsMode \/ Disconnects
  PROVE  PairingInv'
<1> USE DEF PairingInv
<1>1. UNCHANGED <<issued, wiping, wiped, storedToken>> /\ ClientReplaced(SettingsPage)
  BY DEF SwitchesOpsMode, Disconnects
<1>2. PICK a \in {"load", "load_to_revoke"} : job' = At(a)
  BY DEF SwitchesOpsMode, Disconnects
<1>3. job' \in Call /\ IdleHasNone(job)' /\ job'.token = NoToken /\ job'.at = a
  BY <1>2, CallsStart DEF CallPoints
<1> DEFINE q == [probe[SettingsPage] EXCEPT !.owned = FALSE]
<1>4. probe[SettingsPage] \in Call /\ IdleHasNone(probe[SettingsPage])
  BY PairingAssumption DEF PairingTypeOK
<1>5. probe' = [probe EXCEPT ![SettingsPage] = q]
  BY <1>1, PairingAssumption DEF ClientReplaced, PairingTypeOK, Call
<1>6. q \in Call /\ IdleHasNone(q) /\ q.token = probe[SettingsPage].token
      /\ q.stale = probe[SettingsPage].stale
  BY <1>4 DEF Call, IdleHasNone
<1> HIDE DEF q
<1>7. /\ probe' \in [PairingPages -> Call] /\ probe'[SettingsPage] = q
      /\ \A o \in PairingPages : IdleHasNone(probe'[o])
  BY <1>5, <1>6, ProbeMoves, PairingAssumption
<1>8. clientToken' \in [PairingPages -> Nat] /\ clientToken'[SettingsPage] = NoToken
  BY <1>1, PairingAssumption DEF ClientReplaced, PairingTypeOK, NoToken
<1>9. NoToken \notin wiped
  BY DEF PairingTypeOK
<1>10. PairingTypeOK' /\ SavesFreshToken'
  BY <1>1, <1>3, <1>7, <1>8 DEF PairingTypeOK, SavesFreshToken
<1>11. HoldersAreStale' /\ ForgottenStaysForgotten'
  BY <1>1, <1>3, <1>6, <1>7, <1>8, <1>9 DEF HoldersAreStale, ForgottenStaysForgotten
<1>12. QED
  BY <1>1, <1>3, <1>7, <1>10, <1>11

LEMMA WipeSteps ==
  ASSUME PairingInv, ClearsToken \/ ResetsClient
  PROVE  PairingInv'
<1> USE DEF PairingInv
<1>1. CASE ClearsToken
  <2>1. /\ wiping' /\ wiped' = {storedToken} \ {NoToken} /\ storedToken' = NoToken
        /\ UNCHANGED <<issued, clientToken, probe, job>>
    BY <1>1 DEF ClearsToken
  <2>2. PairingTypeOK' /\ storedToken' \notin wiped'
    BY <2>1 DEF PairingTypeOK, NoToken
  <2>3. SavesFreshToken'
    BY <2>1 DEF SavesFreshToken
  <2>4. HoldersAreStale' /\ ForgottenStaysForgotten'
    BY <2>1 DEF HoldersAreStale, ForgottenStaysForgotten
  <2>5. QED
    BY <2>1, <2>2, <2>3, <2>4
<1>2. CASE ResetsClient
  <2> DEFINE s == probe[SettingsPage].at # "idle"
             q == [probe[SettingsPage] EXCEPT !.stale = s, !.owned = FALSE]
  <2>1. probe[SettingsPage] \in Call /\ IdleHasNone(probe[SettingsPage])
    BY PairingAssumption DEF PairingTypeOK
  <2>2. probe' = [probe EXCEPT ![SettingsPage] = q]
    BY <1>2, PairingAssumption DEF ResetsClient, PairingTypeOK, Call
  <2>3. q \in Call /\ IdleHasNone(q) /\ (q.stale \/ q.token = NoToken)
    BY <2>1 DEF Call, IdleHasNone
  <2> HIDE DEF q
  <2>4. /\ probe' \in [PairingPages -> Call] /\ probe'[SettingsPage] = q
        /\ \A o \in PairingPages : IdleHasNone(probe'[o])
    BY <2>2, <2>3, ProbeMoves, PairingAssumption
  <2>5. job' \in Call /\ IdleHasNone(job)' /\ (job'.stale \/ job'.token = NoToken) /\ job'.at # "save"
    BY <1>2 DEF ResetsClient, PairingTypeOK, Call, IdleHasNone
  <2>6. clientToken' \in [PairingPages -> Nat] /\ clientToken'[SettingsPage] = NoToken
    BY <1>2, PairingAssumption DEF ResetsClient, PairingTypeOK, NoToken
  <2>7. UNCHANGED <<storedToken, issued, wiped>> /\ NoToken \notin wiped
    BY <1>2 DEF ResetsClient, PairingTypeOK
  <2>8. PairingTypeOK' /\ SavesFreshToken'
    BY <2>4, <2>5, <2>6, <2>7 DEF PairingTypeOK, SavesFreshToken
  <2>9. HoldersAreStale' /\ ForgottenStaysForgotten'
    BY <2>3, <2>4, <2>5, <2>6, <2>7 DEF HoldersAreStale, ForgottenStaysForgotten
  <2>10. QED
    BY <2>4, <2>5, <2>7, <2>8, <2>9
<1>3. QED
  BY <1>1, <1>2

-----------------------------------------------------------------------------
\* What deleting all data has removed stays removed: no probe and no handler
\* that had read the token before gives it back to the page's client.
THEOREM ForgottenTokensStay == PairingSpec => []ForgottenStaysForgotten
<1>1. PairingInv /\ [PairingNext]_pairingVars => PairingInv'
  <2> SUFFICES ASSUME PairingInv, [PairingNext]_pairingVars PROVE PairingInv'
    OBVIOUS
  <2>1. CASE \/ CompanionRestarts
             \/ \E p \in PairingPages : CacheExpires(p)
             \/ UNCHANGED pairingVars
    <3>1. UNCHANGED <<storedToken, issued, clientToken, probe, job, wiping, wiped>>
      BY <2>1 DEF CompanionRestarts, CacheExpires, pairingVars
    <3>2. QED
      BY <3>1 DEF PairingInv, PairingTypeOK, IdleHasNone, SavesFreshToken, HoldersAreStale,
                  ForgottenStaysForgotten
  <2>2. QED
    BY <2>1, ProbeSteps, JobSteps, ClientSteps, ReplaceSteps, WipeSteps DEF PairingNext
<1>2. PairingInv => ForgottenStaysForgotten
  BY DEF PairingInv
<1>3. QED
  BY PairingStarts, <1>1, <1>2, PTL DEF PairingSpec

-----------------------------------------------------------------------------
(* Settings and the deletion of all data.                                  *)

SettingsSpec == SettingsInit /\ [][SettingsNext]_settingsVars

ResetPoints == {"idle", "drain", "first", "second", "defaults", "cleared"}
Kinds == {"none", "all", "job", "cache"}

HandlerFields == {"page", "store", "at", "control", "value", "mounted"}

\* The shape of what the deletions read.
StoreTypeOK ==
    /\ reset \in [OptionsPages -> [kind : Kinds, at : ResetPoints]]
    /\ foreign \in [OptionsPages -> SUBSET (Stores \cup {"settings"})]
    /\ dirty \subseteq Stores
    /\ \A w \in writes :
          /\ HandlerFields \subseteq DOMAIN w
          /\ w.store \in Stores \cup {"settings"}

\* Past the barrier no handler of the page is on its way to a store.
BarrierHolds(p) == reset[p].at \in {"first", "second", "defaults", "cleared"} => Drained(p)

\* What the deletion has cleared so far.
ClearedSoFar(p) ==
    CASE reset[p].at = "second" -> Clears[reset[p].kind][1]
      [] reset[p].at \in {"defaults", "cleared"} -> Scope(reset[p].kind)
      [] OTHER -> {}

StaysCleared(p) ==
    \A s \in ClearedSoFar(p) \ foreign[p] :
        IF s = "settings" THEN settings = Defaults ELSE s \notin dirty

\* A deletion has a kind, and only that of all data saves the defaults.
KindKnown(p) ==
    /\ reset[p].at # "idle" => reset[p].kind \in DOMAIN Clears
    /\ reset[p].at = "defaults" => reset[p].kind = "all"

ResetInv ==
    /\ StoreTypeOK
    /\ \A p \in OptionsPages : BarrierHolds(p) /\ StaysCleared(p) /\ KindKnown(p)

-----------------------------------------------------------------------------
LEMMA ClearsAre ==
  /\ DOMAIN Clears = {"all", "job", "cache"}
  /\ \A kind \in DOMAIN Clears :
        /\ Clears[kind][1] \subseteq Stores /\ Clears[kind][2] \subseteq Stores \cup {"settings"}
        /\ kind # "all" => "settings" \notin Scope(kind)
  BY DEF Clears, Stores, Scope

LEMMA ResetStarts == SettingsInit => ResetInv
  BY DEF SettingsInit, ResetInv, StoreTypeOK, NoReset, ResetPoints, Kinds, BarrierHolds,
         StaysCleared, ClearedSoFar, KindKnown, Stores

\* A step that changes no deletion and neither the settings nor a store, and
\* puts no handler of a page with a barrier on its way.
LEMMA OtherSettingsSteps ==
  ASSUME ResetInv, StoreTypeOK', UNCHANGED <<reset, foreign, settings, dirty>>,
         \A w \in writes' : w.at = "writing" =>
            \/ ~ Barrier(w.page)
            \/ \E x \in writes : x.page = w.page /\ x.at = "writing"
  PROVE  ResetInv'
<1>1. \A p \in OptionsPages : BarrierHolds(p)'
  BY DEF ResetInv, BarrierHolds, Drained, Barrier
<1>2. \A p \in OptionsPages : (StaysCleared(p) /\ KindKnown(p))'
  BY DEF ResetInv, StaysCleared, ClearedSoFar, KindKnown
<1>3. QED
  BY <1>1, <1>2 DEF ResetInv

-----------------------------------------------------------------------------
(* The sections and the handlers.                                           *)

\* A handler that is unmounted or moves on is still of its page and for its store.
LEMMA HandlerShape ==
  ASSUME NEW w, HandlerFields \subseteq DOMAIN w, NEW b, NEW a, NEW v
  PROVE  /\ LET x == [w EXCEPT !.mounted = b] IN
              HandlerFields \subseteq DOMAIN x /\ x.page = w.page /\ x.store = w.store /\ x.at = w.at
         /\ LET x == [w EXCEPT !.at = a] IN
              HandlerFields \subseteq DOMAIN x /\ x.page = w.page /\ x.store = w.store /\ x.at = a
         /\ LET x == [w EXCEPT !.at = a, !.value = v] IN
              HandlerFields \subseteq DOMAIN x /\ x.page = w.page /\ x.store = w.store /\ x.at = a
  BY DEF HandlerFields

LEMMA SectionSteps ==
  ASSUME ResetInv, NEW p \in OptionsPages,
         \/ LoadSection(p) \/ HandleStartDelete(p) \/ HandleConfirmDelete(p) \/ HandleCancel(p)
         \/ \E s \in Sections : OpenSettingsSection(p, s)
  PROVE  ResetInv'
<1>1. UNCHANGED <<reset, foreign, settings, dirty>>
  BY DEF LoadSection, HandleStartDelete, HandleConfirmDelete, HandleCancel, OpenSettingsSection
<1>2. CASE writes' = writes
  BY <1>1, <1>2, OtherSettingsSteps DEF ResetInv, StoreTypeOK
<1>3. CASE \E s \in Sections : OpenSettingsSection(p, s)
  <2>1. writes' = {[w EXCEPT !.mounted = w.mounted /\ w.page # p] : w \in writes}
    BY <1>3 DEF OpenSettingsSection
  <2>2. ASSUME NEW x \in writes'
        PROVE  /\ HandlerFields \subseteq DOMAIN x /\ x.store \in Stores \cup {"settings"}
               /\ \E w \in writes : w.page = x.page /\ w.at = x.at
    <3>1. PICK w \in writes : x = [w EXCEPT !.mounted = w.mounted /\ w.page # p]
      BY <2>1
    <3>2. HandlerFields \subseteq DOMAIN w /\ w.store \in Stores \cup {"settings"}
      BY DEF ResetInv, StoreTypeOK
    <3>3. HandlerFields \subseteq DOMAIN x /\ x.page = w.page /\ x.store = w.store /\ x.at = w.at
      BY <3>1, <3>2, HandlerShape
    <3>4. QED
      BY <3>2, <3>3
  <2>3. StoreTypeOK'
    BY <1>1, <2>2 DEF ResetInv, StoreTypeOK
  <2>4. QED
    BY <1>1, <2>2, <2>3, OtherSettingsSteps
<1>4. QED
  BY <1>2, <1>3 DEF LoadSection, HandleStartDelete, HandleConfirmDelete, HandleCancel

LEMMA StartSteps ==
  ASSUME ResetInv, NEW p \in OptionsPages,
         (\E c \in DOMAIN Controls : Press(p, c)) \/ (\E s \in Stores : StartWrite(p, s))
  PROVE  ResetInv'
<1>1. UNCHANGED <<reset, foreign, settings, dirty>>
  BY DEF Press, StartWrite
<1>2. PICK store \in Stores \cup {"settings"}, a \in {"loading", "loaded"},
              c \in DOMAIN Controls \cup {"general"} :
         writes' = writes \cup {Handler(p, store, a, c, Defaults)}
  BY DEF Press, StartWrite
<1>3. StoreTypeOK'
  BY <1>1, <1>2 DEF ResetInv, StoreTypeOK, Handler, HandlerFields
<1>4. QED
  BY <1>1, <1>2, <1>3, OtherSettingsSteps DEF Handler

LEMMA HandlerSteps ==
  ASSUME ResetInv, NEW w \in writes, LoadSettings(w) \/ WithWriteGuard(w)
  PROVE  ResetInv'
<1>1. UNCHANGED <<reset, foreign, settings, dirty>>
  BY DEF LoadSettings, WithWriteGuard
<1>2. HandlerFields \subseteq DOMAIN w /\ w.store \in Stores \cup {"settings"}
  BY DEF ResetInv, StoreTypeOK
<1>3. \A x \in writes' \ writes :
         /\ HandlerFields \subseteq DOMAIN x /\ x.store \in Stores \cup {"settings"}
         /\ x.at = "writing" => ~ Barrier(x.page)
  <2>1. CASE LoadSettings(w)
    <3>1. PICK v : writes' = (writes \ {w}) \cup {[w EXCEPT !.at = "loaded", !.value = v]}
      BY <2>1 DEF LoadSettings
    <3> DEFINE y == [w EXCEPT !.at = "loaded", !.value = v]
    <3>2. HandlerFields \subseteq DOMAIN y /\ y.store = w.store /\ y.at = "loaded"
      BY <1>2, HandlerShape
    <3> HIDE DEF y
    <3>3. writes' = (writes \ {w}) \cup {y}
      BY <3>1 DEF y
    <3>4. QED
      BY <1>2, <3>2, <3>3
  <2>2. CASE WithWriteGuard(w) /\ Admits(w.page)
    <3> DEFINE y == [w EXCEPT !.at = "writing"]
    <3>1. HandlerFields \subseteq DOMAIN y /\ y.store = w.store /\ y.page = w.page
      BY <1>2, HandlerShape
    <3>2. writes' = (writes \ {w}) \cup {y}
      BY <2>2 DEF WithWriteGuard
    <3> HIDE DEF y
    <3>3. QED
      BY <1>2, <2>2, <3>1, <3>2 DEF Admits
  <2>3. CASE WithWriteGuard(w) /\ ~ Admits(w.page)
    BY <2>3 DEF WithWriteGuard
  <2>4. QED
    BY <2>1, <2>2, <2>3
<1>4. StoreTypeOK'
  BY <1>1, <1>3 DEF ResetInv, StoreTypeOK
<1>5. QED
  BY <1>1, <1>3, <1>4, OtherSettingsSteps

\* A write that lands is not of a page behind its barrier; every other page
\* that deletes takes note of it.
LEMMA LandingSteps ==
  ASSUME ResetInv, NEW w \in writes, WriteLands(w)
  PROVE  ResetInv'
<1> USE DEF ResetInv
<1>1. writes' = writes \ {w} /\ reset' = reset /\ w.at = "writing"
      /\ w.store \in Stores \cup {"settings"}
  BY DEF WriteLands, StoreTypeOK
<1>2. \A p \in OptionsPages :
         foreign'[p] = IF Barrier(p) /\ p # w.page THEN foreign[p] \cup {w.store} ELSE foreign[p]
  BY DEF WriteLands
<1>3. dirty' \subseteq dirty \cup {w.store} /\ (w.store # "settings" => settings' = settings)
      /\ (w.store = "settings" => dirty' = dirty)
  BY DEF WriteLands
<1>4. StoreTypeOK'
  <2>1. dirty' \subseteq Stores
    BY <1>1 DEF WriteLands, StoreTypeOK
  <2>2. foreign' \in [OptionsPages -> SUBSET (Stores \cup {"settings"})]
    BY <1>1 DEF WriteLands, StoreTypeOK
  <2>3. QED
    BY <1>1, <2>1, <2>2 DEF StoreTypeOK
<1>5. ASSUME NEW p \in OptionsPages PROVE (BarrierHolds(p) /\ StaysCleared(p) /\ KindKnown(p))'
  <2>1. (BarrierHolds(p) /\ KindKnown(p))'
    BY <1>1 DEF BarrierHolds, Drained, KindKnown
  <2>2. ClearedSoFar(p)' = ClearedSoFar(p)
    BY <1>1 DEF ClearedSoFar
  <2>3. ClearedSoFar(p) # {} => Barrier(p) /\ p # w.page
    BY <1>1 DEF ClearedSoFar, Barrier, BarrierHolds, Drained
  <2>4. StaysCleared(p)'
    BY <1>2, <1>3, <2>2, <2>3 DEF StaysCleared
  <2>5. QED
    BY <2>1, <2>4
<1>6. QED
  BY <1>4, <1>5

-----------------------------------------------------------------------------
(* The deletions.                                                           *)

LEMMA BeginSteps ==
  ASSUME ResetInv, NEW p \in OptionsPages, NEW kind \in DOMAIN Clears, BeginReset(p, kind)
  PROVE  ResetInv'
<1> USE DEF ResetInv
<1>1. UNCHANGED <<settings, dirty, writes>>
  BY DEF BeginReset
<1>2. CASE Barrier(p)
  <2>1. reset' = reset /\ foreign' = foreign
    BY <1>2 DEF BeginReset
  <2>2. StoreTypeOK'
    BY <1>1, <2>1 DEF StoreTypeOK
  <2>3. QED
    BY <1>1, <2>1, <2>2, OtherSettingsSteps DEF Barrier
<1>3. CASE ~ Barrier(p)
  <2>1. reset' = [reset EXCEPT ![p] = [kind |-> kind, at |-> "drain"]]
        /\ foreign' = [foreign EXCEPT ![p] = {}]
    BY <1>3 DEF BeginReset
  <2>2. StoreTypeOK'
    BY <1>1, <2>1, ClearsAre DEF StoreTypeOK, Kinds, ResetPoints
  <2>3. reset'[p] = [kind |-> kind, at |-> "drain"]
        /\ \A q \in OptionsPages \ {p} : reset'[q] = reset[q] /\ foreign'[q] = foreign[q]
    BY <2>1 DEF StoreTypeOK
  <2>4. ASSUME NEW q \in OptionsPages \ {p}
        PROVE  (BarrierHolds(q) /\ StaysCleared(q) /\ KindKnown(q))'
    BY <1>1, <2>3 DEF BarrierHolds, Drained, StaysCleared, ClearedSoFar, KindKnown
  <2>5. (BarrierHolds(p) /\ StaysCleared(p) /\ KindKnown(p))'
    BY <2>3 DEF BarrierHolds, StaysCleared, ClearedSoFar, KindKnown
  <2>6. QED
    BY <2>2, <2>4, <2>5
<1>4. QED
  BY <1>2, <1>3

\* A page that goes on with its deletion or ends it, and clears on the way.
LEMMA ResetGoesOn ==
  ASSUME ResetInv, NEW p \in OptionsPages, NEW r \in [kind : Kinds, at : ResetPoints],
         reset' = [reset EXCEPT ![p] = r], writes' = writes, foreign' = foreign,
         dirty' \subseteq dirty, settings' \in {settings, Defaults},
         (BarrierHolds(p) /\ StaysCleared(p) /\ KindKnown(p))'
  PROVE  ResetInv'
<1> USE DEF ResetInv
<1>1. StoreTypeOK'
  BY DEF StoreTypeOK
<1>2. \A q \in OptionsPages \ {p} : reset'[q] = reset[q]
  BY DEF StoreTypeOK
<1>3. ASSUME NEW q \in OptionsPages \ {p}
      PROVE  (BarrierHolds(q) /\ StaysCleared(q) /\ KindKnown(q))'
  <2>1. ClearedSoFar(q)' = ClearedSoFar(q)
    BY <1>2 DEF ClearedSoFar
  <2>2. QED
    BY <1>2, <2>1 DEF BarrierHolds, Drained, StaysCleared, KindKnown
<1>4. QED
  BY <1>1, <1>3

\* The record of a deletion that has moved to another point.
LEMMA PointMoves ==
  ASSUME StoreTypeOK, NEW p \in OptionsPages, NEW a \in ResetPoints,
         reset' = [reset EXCEPT ![p].at = a]
  PROVE  \E r \in [kind : Kinds, at : ResetPoints] :
           /\ reset' = [reset EXCEPT ![p] = r]
           /\ reset'[p] = r /\ r.kind = reset[p].kind /\ r.at = a
<1> DEFINE r == [reset[p] EXCEPT !.at = a]
<1>1. r \in [kind : Kinds, at : ResetPoints] /\ r.kind = reset[p].kind /\ r.at = a
  BY DEF StoreTypeOK
<1>2. reset' = [reset EXCEPT ![p] = r]
  BY DEF StoreTypeOK
<1>3. reset'[p] = r
  BY <1>2 DEF StoreTypeOK
<1>4. QED
  BY <1>1, <1>2, <1>3

LEMMA DrainSteps ==
  ASSUME ResetInv, NEW p \in OptionsPages, WritesDrained(p)
  PROVE  ResetInv'
<1>1. PICK r \in [kind : Kinds, at : ResetPoints] :
         reset' = [reset EXCEPT ![p] = r] /\ reset'[p] = r /\ r.kind = reset[p].kind /\ r.at = "first"
  BY PointMoves DEF ResetInv, WritesDrained, ResetPoints
<1>2. (BarrierHolds(p) /\ StaysCleared(p) /\ KindKnown(p))'
  BY <1>1 DEF WritesDrained, BarrierHolds, Drained, StaysCleared, ClearedSoFar, KindKnown, ResetInv
<1>3. QED
  BY <1>1, <1>2, ResetGoesOn DEF WritesDrained

LEMMA ClearSteps ==
  ASSUME ResetInv, NEW p \in OptionsPages, Clear(p)
  PROVE  ResetInv'
<1> USE DEF ResetInv
<1> DEFINE kind == reset[p].kind
           n == IF reset[p].at = "first" THEN 1 ELSE 2
           a == IF reset[p].at = "first" THEN "second"
                ELSE IF kind = "all" THEN "defaults" ELSE "cleared"
<1>1. /\ reset[p].at \in {"first", "second"} /\ UNCHANGED <<writes, foreign>>
      /\ dirty' = dirty \ Clears[kind][n]
      /\ settings' = IF "settings" \in Clears[kind][n] THEN Defaults ELSE settings
  BY DEF Clear
<1>2. PICK r \in [kind : Kinds, at : ResetPoints] :
         reset' = [reset EXCEPT ![p] = r] /\ reset'[p] = r /\ r.kind = kind /\ r.at = a
  <2>1. reset' = [reset EXCEPT ![p].at = a]
    BY DEF Clear, StoreTypeOK
  <2>2. a \in ResetPoints
    BY DEF ResetPoints
  <2> HIDE DEF a
  <2>3. QED
    BY <2>1, <2>2, PointMoves
<1>3. kind \in DOMAIN Clears
  BY <1>1 DEF KindKnown
<1>4. BarrierHolds(p)' /\ KindKnown(p)'
  BY <1>1, <1>2, <1>3 DEF BarrierHolds, Drained, KindKnown
<1>5. ClearedSoFar(p)' \subseteq ClearedSoFar(p) \cup Clears[kind][n]
  BY <1>1, <1>2 DEF ClearedSoFar, Scope
<1>6. StaysCleared(p)'
  BY <1>1, <1>3, <1>5, ClearsAre DEF StaysCleared, Stores
<1>7. QED
  BY <1>1, <1>2, <1>4, <1>6, ResetGoesOn

LEMMA LastSteps ==
  ASSUME ResetInv, NEW p \in OptionsPages, SaveDefaults(p) \/ EndReset(p) \/ ResetFails(p)
  PROVE  ResetInv'
<1> USE DEF ResetInv
<1>1. CASE SaveDefaults(p)
  <2>1. PICK r \in [kind : Kinds, at : ResetPoints] :
           reset' = [reset EXCEPT ![p] = r] /\ reset'[p] = r /\ r.kind = reset[p].kind /\ r.at = "cleared"
    BY <1>1, PointMoves DEF SaveDefaults, ResetPoints
  <2>2. (BarrierHolds(p) /\ StaysCleared(p) /\ KindKnown(p))'
    BY <1>1, <2>1 DEF SaveDefaults, BarrierHolds, Drained, StaysCleared, ClearedSoFar, KindKnown
  <2>3. QED
    BY <1>1, <2>1, <2>2, ResetGoesOn DEF SaveDefaults
<1>2. CASE EndReset(p) \/ ResetFails(p)
  <2>1. NoReset \in [kind : Kinds, at : ResetPoints] /\ reset' = [reset EXCEPT ![p] = NoReset]
    BY <1>2 DEF EndReset, ResetFails, NoReset, Kinds, ResetPoints
  <2>2. reset'[p].at = "idle"
    BY <2>1 DEF StoreTypeOK, NoReset
  <2>3. (BarrierHolds(p) /\ StaysCleared(p) /\ KindKnown(p))'
    BY <2>2 DEF BarrierHolds, StaysCleared, ClearedSoFar, KindKnown
  <2>4. UNCHANGED <<writes, foreign, dirty, settings>>
    BY <1>2 DEF EndReset, ResetFails
  <2>5. QED
    BY <2>1, <2>3, <2>4, ResetGoesOn
<1>3. QED
  BY <1>1, <1>2

-----------------------------------------------------------------------------
\* Whatever handlers of its page are under way, a deletion that reports success
\* has left nothing in the stores it names, but what another page wrote.
THEOREM ResetIsComplete == SettingsSpec => []ResetLeavesNothing
<1>1. ResetInv /\ [SettingsNext]_settingsVars => ResetInv'
  <2> SUFFICES ASSUME ResetInv, [SettingsNext]_settingsVars PROVE ResetInv'
    OBVIOUS
  <2>1. CASE UNCHANGED settingsVars
    <3>1. UNCHANGED <<reset, foreign, settings, dirty, writes>>
      BY <2>1 DEF settingsVars
    <3>2. StoreTypeOK'
      BY <3>1 DEF ResetInv, StoreTypeOK
    <3>3. QED
      BY <3>1, <3>2, OtherSettingsSteps
  <2>2. QED
    BY <2>1, SectionSteps, StartSteps, HandlerSteps, LandingSteps, BeginSteps, DrainSteps,
       ClearSteps, LastSteps DEF SettingsNext
<1>2. ResetInv => ResetLeavesNothing
  BY DEF ResetInv, ResetLeavesNothing, StaysCleared, ClearedSoFar
<1>3. QED
  BY ResetStarts, <1>1, <1>2, PTL DEF SettingsSpec

-----------------------------------------------------------------------------
(* The cover letter studio.                                                *)

StudioSpec == StudioInit /\ [][StudioNext]_studioVars

\* A text that keeps to constraints, as far as the pattern for emoji can be trusted.
Keeps(text, constraints) == text # {} /\ text \cap constraints \subseteq {"emoji"}

\* What a studio would let pass keeps to its constraints: at any time the checks were made
\* for the text and the constraints it has now.
Checked(st) ==
    /\ DOMAIN st = DOMAIN StudioOn(0)
    /\ ~ st.blocked => Keeps(st.text, st.constraints)

StudioInv ==
    /\ DOMAIN studio = Studios /\ \A s \in Studios : Checked(studio[s])
    /\ \E rows : letters \in Seq(rows)
    /\ FinalKeepsConstraints

\* A studio has the fields of one that has just been opened.
LEMMA StudioFields == \A j : DOMAIN StudioOn(j) =
    {"job", "ready", "loading", "text", "source", "constraints", "existing", "edited", "gate",
     "preparing", "prepared", "generating", "saving", "blocked", "afterMatch", "steps"}
BY DEF StudioOn

\* A render checks the text as it is now, whatever was changed.
LEMMA RenderedIsChecked ==
    ASSUME NEW st, DOMAIN st = DOMAIN StudioOn(0)
    PROVE  Checked(Rendered(st))
<1> DEFINE blocked == Blockers(st.text, st.constraints, st.afterMatch) # {}
           r == Rendered(st)
<1>1. ~ blocked => Keeps(st.text, st.constraints)
  BY DEF Blockers, Keeps
<1>2. DOMAIN r = DOMAIN StudioOn(0) /\ r.text = st.text /\ r.constraints = st.constraints
      /\ r.blocked = blocked
  BY StudioFields DEF Rendered
<1> QED BY <1>1, <1>2 DEF Checked

\* Every change but a save.
LEMMA ShowKeepsInv ==
    ASSUME StudioInv, NEW s \in Studios, NEW st, DOMAIN st = DOMAIN StudioOn(0), Show(s, st)
    PROVE  StudioInv'
BY RenderedIsChecked DEF StudioInv, Show, FinalKeepsConstraints

\* A function on 1..n is a sequence.
LEMMA SeqOfFunctions ==
    ASSUME NEW S, NEW n \in Nat, NEW f \in [1 .. n -> S]
    PROVE  f \in Seq(S)
OBVIOUS

\* A list with a row put at its end, or in the place of one.
LEMMA RowPut ==
    ASSUME NEW R, NEW rows \in Seq(R), NEW row, NEW id, NEW put,
           put = Append(rows, row) \/ put = [rows EXCEPT ![id] = row]
    PROVE  /\ put \in Seq(R \cup {row})
           /\ \A i \in DOMAIN put : put[i] = row \/ (i \in DOMAIN rows /\ put[i] = rows[i])
<1>1. rows \in [1 .. Len(rows) -> R] /\ Len(rows) \in Nat
  OBVIOUS
<1>2. CASE put = Append(rows, row)
  <2>1. rows \in Seq(R \cup {row})
    BY <1>1, SeqOfFunctions
  <2>2. /\ put \in Seq(R \cup {row}) /\ DOMAIN put = 1 .. (Len(rows) + 1)
        /\ put[Len(rows) + 1] = row /\ \A i \in 1 .. Len(rows) : put[i] = rows[i]
    BY <1>1, <1>2, <2>1
  <2>3. \A i \in 1 .. (Len(rows) + 1) : i \in 1 .. Len(rows) \/ i = Len(rows) + 1
    BY <1>1
  <2>4. DOMAIN rows = 1 .. Len(rows)
    BY <1>1
  <2> QED BY <2>2, <2>3, <2>4
<1>3. CASE put = [rows EXCEPT ![id] = row]
  <2>1. put \in [1 .. Len(rows) -> R \cup {row}]
    BY <1>1, <1>3
  <2>2. put \in Seq(R \cup {row})
    BY <1>1, <2>1, SeqOfFunctions
  <2> QED BY <1>1, <1>3, <2>1, <2>2
<1> QED BY <1>2, <1>3

\* A save, as final only of a text that is not blocked.
LEMMA SaveKeepsInv ==
    ASSUME StudioInv, NEW s \in Studios, NEW final \in BOOLEAN, NEW sent \in BOOLEAN,
           final => ~ studio[s].blocked, HandleSave(s, final, sent)
    PROVE  StudioInv'
<1> DEFINE st == studio[s]
           letter == LetterOf(st, final, sent)
           id == IF st.existing.id = 0 THEN Len(letters) + 1 ELSE st.existing.id
           saved == [id |-> id, sent |-> letter.sent, versions |-> letter.versions]
           draft == [st EXCEPT !.gate = IF final THEN FALSE ELSE @, !.saving = Append(@, saved)]
<1>1. letters' = (IF id > Len(letters) THEN Append(letters, letter)
                  ELSE [letters EXCEPT ![id] = letter])
      /\ studio' = [studio EXCEPT ![s] = Rendered(draft)]
  BY DEF HandleSave
<1>2. DOMAIN draft = DOMAIN StudioOn(0)
  BY StudioFields DEF StudioInv, Checked
<1>3. /\ letter.final = final /\ letter.text = st.text /\ letter.constraints = st.constraints
  BY DEF LetterOf
<1>4. letter.final => Keeps(letter.text, letter.constraints)
  BY <1>3 DEF StudioInv, Checked
<1>5. PICK rows : letters \in Seq(rows)
  BY DEF StudioInv
<1> HIDE DEF letter, id, draft
<1>6. letters' \in Seq(rows \cup {letter})
      /\ \A i \in DOMAIN letters' :
            letters'[i] = letter \/ (i \in DOMAIN letters /\ letters'[i] = letters[i])
  <2>1. PICK l, r, n, p : l = letters /\ r = letter /\ n = id /\ p = letters'
    OBVIOUS
  <2>2. l \in Seq(rows) /\ (p = Append(l, r) \/ p = [l EXCEPT ![n] = r])
    BY <1>1, <1>5, <2>1
  <2>3. /\ p \in Seq(rows \cup {r})
        /\ \A i \in DOMAIN p : p[i] = r \/ (i \in DOMAIN l /\ p[i] = l[i])
    BY <2>2, RowPut
  <2> QED BY <2>1, <2>3
<1>7. FinalKeepsConstraints'
  BY <1>4, <1>6 DEF StudioInv, FinalKeepsConstraints, Keeps
<1>8. DOMAIN studio' = Studios /\ \A o \in Studios : Checked(studio[o])'
  BY <1>1, <1>2, RenderedIsChecked DEF StudioInv, Checked
<1> QED BY <1>6, <1>7, <1>8 DEF StudioInv

\* No button lets a blocked text pass as final, whatever changed text, constraints or letter
\* between the review and the click.
THEOREM FinalLettersKeepConstraints == StudioSpec => []FinalKeepsConstraints
<1>1. StudioInit => StudioInv
  <2> SUFFICES ASSUME StudioInit PROVE StudioInv
    OBVIOUS
  <2>1. \A j : Checked(StudioOn(j))
    BY StudioFields DEF Checked, StudioOn
  <2>2. letters = <<>> /\ letters \in Seq({})
    BY DEF StudioInit
  <2> QED BY <2>1, <2>2 DEF StudioInit, StudioInv, FinalKeepsConstraints
<1>2. StudioInv /\ [StudioNext]_studioVars => StudioInv'
  <2> SUFFICES ASSUME StudioInv, [StudioNext]_studioVars PROVE StudioInv'
    OBVIOUS
  <2>1. ASSUME NEW s \in Studios, ShowOtherVacancy(s) PROVE StudioInv'
    BY <2>1, ShowKeepsInv, StudioFields DEF ShowOtherVacancy, StudioInv, Checked
  <2>2. ASSUME NEW s \in Studios, LoadLetter(s) PROVE StudioInv'
    BY <2>2, ShowKeepsInv, StudioFields DEF LoadLetter, StudioInv, Checked
  <2>3. ASSUME NEW s \in Studios, RenderAgain(s) PROVE StudioInv'
    BY <2>3, ShowKeepsInv, StudioFields DEF RenderAgain, StudioInv, Checked
  <2>4. ASSUME NEW s \in Studios, HandleTextChange(s) PROVE StudioInv'
    BY <2>4, ShowKeepsInv, StudioFields DEF HandleTextChange, StudioInv, Checked
  <2>5. ASSUME NEW s \in Studios, HandleConstraintToggle(s) PROVE StudioInv'
    BY <2>5, ShowKeepsInv, StudioFields DEF HandleConstraintToggle, StudioInv, Checked
  <2>6. ASSUME NEW s \in Studios, HandleModeChange(s) PROVE StudioInv'
    BY <2>6, ShowKeepsInv, StudioFields DEF HandleModeChange, StudioInv, Checked
  <2>7. ASSUME NEW s \in Studios, HandlePrepareAi(s) PROVE StudioInv'
    BY <2>7, ShowKeepsInv, StudioFields DEF HandlePrepareAi, StudioInv, Checked
  <2>8. ASSUME NEW s \in Studios, Prepared(s) PROVE StudioInv'
    BY <2>8, ShowKeepsInv, StudioFields DEF Prepared, StudioInv, Checked
  <2>9. ASSUME NEW s \in Studios, HandleGenerateAi(s) PROVE StudioInv'
    BY <2>9, ShowKeepsInv, StudioFields DEF HandleGenerateAi, StudioInv, Checked
  <2>10. ASSUME NEW s \in Studios, Generated(s) PROVE StudioInv'
    BY <2>10, ShowKeepsInv, StudioFields DEF Generated, StudioInv, Checked
  <2>11. ASSUME NEW s \in Studios, CancelPreview(s) PROVE StudioInv'
    BY <2>11, ShowKeepsInv, StudioFields DEF CancelPreview, StudioInv, Checked
  <2>12. ASSUME NEW s \in Studios, SaveDraft(s) \/ SaveReviewed(s) \/ ConfirmGate(s)
         PROVE  StudioInv'
    BY <2>12, SaveKeepsInv DEF SaveDraft, SaveReviewed, ConfirmGate
  <2>13. ASSUME NEW s \in Studios, OpenReviewGate(s) PROVE StudioInv'
    BY <2>13, ShowKeepsInv, StudioFields DEF OpenReviewGate, StudioInv, Checked
  <2>14. ASSUME NEW s \in Studios, CloseGate(s) PROVE StudioInv'
    BY <2>14, ShowKeepsInv, StudioFields DEF CloseGate, StudioInv, Checked
  <2>15. ASSUME NEW s \in Studios, Saved(s) PROVE StudioInv'
    BY <2>15, ShowKeepsInv, StudioFields DEF Saved, StudioInv, Checked
  <2>16. CASE UNCHANGED studioVars
    BY <2>16 DEF StudioInv, studioVars, FinalKeepsConstraints
  <2> QED BY <2>1, <2>2, <2>3, <2>4, <2>5, <2>6, <2>7, <2>8, <2>9, <2>10, <2>11, <2>12,
             <2>13, <2>14, <2>15, <2>16 DEF StudioNext
<1>3. StudioInv => FinalKeepsConstraints
  BY DEF StudioInv
<1> QED BY <1>1, <1>2, <1>3, PTL DEF StudioSpec

-----------------------------------------------------------------------------
(* Profiles and resumes.                                                   *)

LinksSpec == ProfilesInit /\ [][ProfilesNext]_profileVars

RefRows == [profile : ProfileIds \cup {Nothing}, resume : ResumeIds \cup {Nothing}]

\* The step of a deletion that clears the references of a table.
SweepOf == [job |-> 2, letter |-> 3, application |-> 4]

\* What the handlers hold is a row, whatever became of it since they read it.
RowsAreHeld ==
    /\ profiles \subseteq ProfileIds /\ owner \in [ResumeIds -> ProfileIds \cup {Nothing}]
    /\ refs \in [Tables -> RefRows]
    /\ \A w \in pending : w.table \in Tables => w.row \in RefRows /\ w.seen \in RefRows
    /\ DOMAIN tabShows = {"profiles", "owner", "job", "letter"}
    /\ tabShows.job \in RefRows /\ tabShows.letter \in RefRows

DeletionsAreKnown ==
    /\ DOMAIN removal = Ids
    /\ \A id \in Ids : /\ DOMAIN removal[id] = DOMAIN NoDeletion /\ removal[id].at \in 0..6
                       /\ removal[id].at # 1 => removal[id].listed \subseteq RefRows

\* A form that puts a resume knows its profile.
SubmitKnowsOwner ==
    /\ DOMAIN submit = DOMAIN NoSubmit
    /\ submit.at \in {"idle", "list", "save"} /\ (submit.at # "idle" => submit.id \in Ids)
    /\ submit.at = "list" \/ submit.others # {} \/ submit.id \in ResumeIds
         => submit.owner \in ProfileIds

\* What a deletion has cleared stays so: a writer that puts the reference back was
\* overtaken.
Cleared ==
    \A t \in Tables \ late, id \in Ids :
        removal[id].at > SweepOf[t] => refs[t][FieldOf(id)] # id

LinksInv == RowsAreHeld /\ DeletionsAreKnown /\ SubmitKnowsOwner /\ Cleared /\ ReferencesResolve

-----------------------------------------------------------------------------

\* Profiles, resumes and Nothing are apart.
LEMMA IdsAndFields ==
    /\ \A p \in ProfileIds : p \in Ids /\ FieldOf(p) = "profile" /\ p # Nothing
    /\ \A r \in ResumeIds : r \in Ids /\ FieldOf(r) = "resume" /\ r # Nothing /\ r \notin ProfileIds
    /\ \A id \in Ids : id \in ProfileIds \/ id \in ResumeIds
    /\ \A id \in Ids : FieldOf(id) \in {"profile", "resume"}
    /\ Nothing \notin Ids
BY ProfilesAssumption DEF Ids, FieldOf

\* What no deletion is after is there.
LEMMA LiveIsThere ==
    ASSUME LinksInv, NEW id \in Ids, Live(id)
    PROVE  /\ removal[id].at = 0
           /\ id \in ProfileIds => id \in profiles
           /\ id \in ResumeIds => id \in StoredResumes
<1>1. id # Nothing
  BY IdsAndFields
<1>2. id \in profiles \/ id \in StoredResumes
  BY <1>1 DEF Live
<1>3. removal[id].at = 0
  BY <1>1 DEF Live
<1>4. profiles \subseteq ProfileIds /\ StoredResumes \subseteq ResumeIds
  BY DEF LinksInv, RowsAreHeld, StoredResumes
<1> QED BY <1>2, <1>3, <1>4, IdsAndFields

\* A row that is put without having been overtaken refers to what is there, or says what
\* the row before it said.
LEMMA PutIsSound ==
    ASSUME LinksInv, NEW t \in Tables, NEW row \in RefRows, NEW seen, PutRow(t, row, seen),
           t \notin late'
    PROVE  \A f \in {"profile", "resume"} :
              \/ row[f] = Nothing \/ Live(row[f])
              \/ t \notin late /\ row[f] = refs[t][f]
<1>1. DOMAIN row = {"profile", "resume"}
  BY DEF RefRows
<1>2. ~ Overtaken(t, row, seen)
  BY DEF PutRow
<1>3. CASE \A f \in DOMAIN row : Live(row[f])
  BY <1>1, <1>3
<1>4. CASE t \notin late /\ \A f \in DOMAIN row : row[f] = refs[t][f] \/ Live(row[f])
  BY <1>1, <1>4
<1> QED BY <1>2, <1>3, <1>4 DEF Overtaken

\* A put: what is stored resolves, and what was cleared stays so.
LEMMA PutKeeps ==
    ASSUME LinksInv, NEW t \in Tables, NEW row \in RefRows, NEW seen, PutRow(t, row, seen)
    PROVE  /\ refs' \in [Tables -> RefRows] /\ refs'[t] = row
           /\ \A u \in Tables \ late' :
                 /\ refs'[u].profile \in profiles \cup {Nothing}
                 /\ refs'[u].resume \in StoredResumes \cup takenAlong \cup {Nothing}
           /\ \A u \in Tables \ late', id \in Ids :
                 removal[id].at > SweepOf[u] => refs'[u][FieldOf(id)] # id
<1>1. refs' = [refs EXCEPT ![t] = row] /\ refs \in [Tables -> RefRows]
  BY DEF PutRow, LinksInv, RowsAreHeld
<1>2. \A u \in Tables \ {t} : refs'[u] = refs[u] /\ (u \in late' <=> u \in late)
  BY <1>1 DEF PutRow
<1>3. refs'[t] = row /\ refs' \in [Tables -> RefRows]
  BY <1>1
<1>4. ASSUME t \notin late'
      PROVE  /\ row.profile \in profiles \cup {Nothing}
             /\ row.resume \in StoredResumes \cup takenAlong \cup {Nothing}
  <2>1. row.profile \in ProfileIds \cup {Nothing} /\ row.resume \in ResumeIds \cup {Nothing}
    BY DEF RefRows
  <2>2. /\ row.profile = Nothing \/ Live(row.profile) \/ (t \notin late /\ row.profile = refs[t].profile)
        /\ row.resume = Nothing \/ Live(row.resume) \/ (t \notin late /\ row.resume = refs[t].resume)
    BY <1>4, PutIsSound
  <2>3. t \notin late => /\ refs[t].profile \in profiles \cup {Nothing}
                         /\ refs[t].resume \in StoredResumes \cup takenAlong \cup {Nothing}
    BY DEF LinksInv, ReferencesResolve
  <2>4. row.profile \in profiles \cup {Nothing}
    BY <2>1, <2>2, <2>3, IdsAndFields, LiveIsThere
  <2>5. row.resume \in StoredResumes \cup takenAlong \cup {Nothing}
    BY <2>1, <2>2, <2>3, IdsAndFields, LiveIsThere
  <2> QED BY <2>4, <2>5
<1>5. ASSUME t \notin late', NEW id \in Ids, removal[id].at > SweepOf[t], row[FieldOf(id)] = id
      PROVE  FALSE
  <2>1. FieldOf(id) \in {"profile", "resume"} /\ id # Nothing
    BY IdsAndFields
  <2>2. Live(id) \/ (t \notin late /\ id = refs[t][FieldOf(id)])
    BY <1>5, <2>1, PutIsSound
  <2>3. CASE Live(id)
    BY <1>5, <2>3, LiveIsThere DEF SweepOf, Tables
  <2>4. CASE t \notin late /\ id = refs[t][FieldOf(id)]
    BY <1>5, <2>4 DEF LinksInv, Cleared
  <2> QED BY <2>2, <2>3, <2>4
<1>6. \A u \in Tables \ late' :
         /\ refs'[u].profile \in profiles \cup {Nothing}
         /\ refs'[u].resume \in StoredResumes \cup takenAlong \cup {Nothing}
  BY <1>2, <1>3, <1>4 DEF LinksInv, ReferencesResolve
<1>7. \A u \in Tables \ late', id \in Ids :
         removal[id].at > SweepOf[u] => refs'[u][FieldOf(id)] # id
  BY <1>2, <1>3, <1>5 DEF LinksInv, Cleared
<1> QED BY <1>3, <1>6, <1>7

\* A writer of the panel puts a row it holds.
LEMMA PanelPutKeepsInv ==
    ASSUME LinksInv, NEW t \in Tables, NEW row \in RefRows, NEW seen, PutRow(t, row, seen),
           UNCHANGED <<profiles, owner, removal, submit, takenAlong, tabShows>>,
           \A w \in pending' : w.table \in Tables => w.row \in RefRows /\ w.seen \in RefRows
    PROVE  LinksInv'
<1>1. RowsAreHeld'
  BY PutKeeps DEF LinksInv, RowsAreHeld
<1>2. DeletionsAreKnown' /\ SubmitKnowsOwner'
  BY DEF LinksInv, DeletionsAreKnown, SubmitKnowsOwner
<1>3. Cleared' /\ ReferencesResolve'
  BY PutKeeps DEF Cleared, ReferencesResolve, StoredResumes
<1> QED BY <1>1, <1>2, <1>3 DEF LinksInv

\* Steps that leave the references alone, and of the deletions no more than their
\* ends.
LEMMA LoadsKeepInv ==
    ASSUME LinksInv, UNCHANGED <<profiles, owner, refs, late, takenAlong>>,
           RowsAreHeld', DeletionsAreKnown', SubmitKnowsOwner',
           \A id \in Ids : removal'[id].at \in {0, 1, 2, removal[id].at}
    PROVE  LinksInv'
<1>1. ReferencesResolve'
  BY DEF LinksInv, ReferencesResolve, StoredResumes
<1>2. Cleared'
  <2> SUFFICES ASSUME NEW t \in Tables \ late, NEW id \in Ids, removal'[id].at > SweepOf[t]
               PROVE  refs[t][FieldOf(id)] # id
    BY DEF Cleared
  <2>1. removal'[id].at = removal[id].at
    BY DEF SweepOf, Tables
  <2> QED BY <2>1 DEF LinksInv, Cleared
<1> QED BY <1>1, <1>2 DEF LinksInv

-----------------------------------------------------------------------------
\* The options page.

\* A deletion that is not under way.
LEMMA RemovalFields == DOMAIN NoDeletion = {"at", "listed", "wasDefault", "mounted"} /\ NoDeletion.at = 0
                       /\ NoDeletion.listed = {}
BY DEF NoDeletion

\* A form that is not submitted.
LEMMA SubmitFields ==
    /\ DOMAIN NoSubmit = {"at", "id", "owner", "main", "others", "mounted"}
    /\ NoSubmit.at = "idle" /\ NoSubmit.others = {} /\ NoSubmit.id = Nothing
BY DEF NoSubmit

\* A page that loads, changes its section or is closed.
LEMMA PageKeepsInv ==
    ASSUME LinksInv, Load \/ CloseOptions \/ Retry \/ \E s \in {"profiles", "resumes"} : OpenSection(s)
    PROVE  LinksInv'
<1>1. UNCHANGED <<profiles, owner, refs, late, takenAlong, tabShows, pending>>
  BY DEF Load, CloseOptions, Retry, OpenSection, linkVars, tabVars
<1>2. RowsAreHeld'
  BY <1>1 DEF LinksInv, RowsAreHeld
<1>3. CASE removal' = removal /\ submit' = submit
  <2>1. DeletionsAreKnown' /\ SubmitKnowsOwner'
    BY <1>3 DEF LinksInv, DeletionsAreKnown, SubmitKnowsOwner
  <2> QED BY <1>1, <1>2, <1>3, <2>1, LoadsKeepInv
<1>4. CASE removal' = [id \in Ids |-> NoDeletion] /\ submit' = NoSubmit
  <2>1. DeletionsAreKnown' /\ \A id \in Ids : removal'[id].at = 0
    BY <1>4, RemovalFields DEF DeletionsAreKnown
  <2>2. SubmitKnowsOwner'
    BY <1>4, SubmitFields, IdsAndFields DEF SubmitKnowsOwner, Ids
  <2> QED BY <1>1, <1>2, <2>1, <2>2, LoadsKeepInv
<1>5. CASE /\ removal' = [id \in Ids |-> [removal[id] EXCEPT !.mounted = FALSE]]
           /\ submit' = [submit EXCEPT !.mounted = FALSE]
  <2>1. DeletionsAreKnown' /\ \A id \in Ids : removal'[id].at = removal[id].at
    BY <1>5, RemovalFields DEF LinksInv, DeletionsAreKnown
  <2>2. SubmitKnowsOwner'
    BY <1>5, SubmitFields DEF LinksInv, SubmitKnowsOwner
  <2> QED BY <1>1, <1>2, <2>1, <2>2, LoadsKeepInv
<1> QED BY <1>3, <1>4, <1>5 DEF Load, CloseOptions, Retry, OpenSection, managerVars

\* A deletion that starts, ends or fails.
LEMMA DeletionBoundsKeepInv ==
    ASSUME LinksInv, NEW id \in Ids, HandleDelete(id) \/ DeletionEnds(id) \/ DeletionFails(id)
    PROVE  LinksInv'
<1>1. UNCHANGED <<profiles, owner, refs, late, takenAlong, tabShows, pending, submit>>
  BY DEF HandleDelete, DeletionEnds, DeletionFails, linkVars, tabVars
<1>2. RowsAreHeld' /\ SubmitKnowsOwner'
  BY <1>1 DEF LinksInv, RowsAreHeld, SubmitKnowsOwner
<1>3. PICK d : /\ removal' = [removal EXCEPT ![id] = d] /\ DOMAIN d = DOMAIN NoDeletion
               /\ d.at \in {0, 1, 2} /\ d.listed = {}
  BY RemovalFields DEF HandleDelete, DeletionEnds, DeletionFails
<1>4. DeletionsAreKnown' /\ \A i \in Ids : removal'[i].at \in {0, 1, 2, removal[i].at}
  BY <1>3 DEF LinksInv, DeletionsAreKnown
<1> QED BY <1>1, <1>2, <1>4, LoadsKeepInv

\* A deletion goes on with another list, or to another step.
Moved(id, phase, listed) ==
    \/ removal' = [removal EXCEPT ![id].at = phase, ![id].listed = listed]
    \/ removal' = [removal EXCEPT ![id].listed = listed] /\ phase = removal[id].at
    \/ removal' = [removal EXCEPT ![id].at = phase] /\ listed = removal[id].listed

LEMMA DeletionMoves ==
    ASSUME LinksInv, NEW id \in Ids, NEW phase \in 0..6, NEW listed, phase # 1 => listed \subseteq RefRows,
           Moved(id, phase, listed)
    PROVE  /\ DeletionsAreKnown'
           /\ removal'[id].at = phase /\ \A i \in Ids \ {id} : removal'[i].at = removal[i].at
<1>1. DOMAIN removal = Ids /\ DOMAIN removal[id] = {"at", "listed", "wasDefault", "mounted"}
  BY RemovalFields DEF LinksInv, DeletionsAreKnown
<1>2. /\ DOMAIN removal' = Ids /\ \A i \in Ids \ {id} : removal'[i] = removal[i]
      /\ DOMAIN removal'[id] = DOMAIN NoDeletion
      /\ removal'[id].at = phase /\ removal'[id].listed = listed
  BY <1>1, RemovalFields DEF Moved
<1> QED BY <1>2 DEF LinksInv, DeletionsAreKnown

\* The resumes of a profile go one by one.
LEMMA LinkedGoKeepInv ==
    ASSUME LinksInv, NEW p \in ProfileIds, DeleteLinkedResumes(p)
    PROVE  LinksInv'
<1>1. p \in Ids /\ removal[p].at = 1
  BY IdsAndFields DEF DeleteLinkedResumes, Reached
<1>2. UNCHANGED <<profiles, refs, late, tabShows, pending, submit>>
  BY DEF DeleteLinkedResumes, tabVars
<1>3. \/ UNCHANGED <<owner, takenAlong>>
      \/ \E r : owner' = [owner EXCEPT ![r] = Nothing] /\ takenAlong' = takenAlong \cup {r}
  BY DEF DeleteLinkedResumes
<1>4. \/ removal' = [removal EXCEPT ![p].at = 2, ![p].listed = {}]
      \/ \E listed : removal' = [removal EXCEPT ![p].listed = listed]
  BY DEF DeleteLinkedResumes, Goes
<1>5. DeletionsAreKnown' /\ \A id \in Ids : removal'[id].at \in {1, 2, removal[id].at}
  <2>1. (\E listed : Moved(p, 1, listed)) \/ Moved(p, 2, {})
    BY <1>1, <1>4 DEF Moved
  <2>2. CASE Moved(p, 2, {})
    BY <1>1, <2>2, DeletionMoves
  <2>3. ASSUME NEW listed, Moved(p, 1, listed)
        PROVE  DeletionsAreKnown' /\ \A id \in Ids : removal'[id].at \in {1, 2, removal[id].at}
    BY <1>1, <2>3, DeletionMoves
  <2> QED BY <2>1, <2>2, <2>3
<1>6. RowsAreHeld' /\ SubmitKnowsOwner'
  BY <1>2, <1>3 DEF LinksInv, RowsAreHeld, SubmitKnowsOwner
<1>7. Cleared'
  <2> SUFFICES ASSUME NEW t \in Tables \ late, NEW id \in Ids, removal'[id].at > SweepOf[t]
               PROVE  refs[t][FieldOf(id)] # id
    BY <1>2 DEF Cleared
  <2>1. removal'[id].at = removal[id].at
    BY <1>5 DEF SweepOf, Tables
  <2> QED BY <2>1 DEF LinksInv, Cleared
<1>8. StoredResumes \cup takenAlong \subseteq (StoredResumes \cup takenAlong)'
  BY <1>3 DEF StoredResumes, LinksInv, RowsAreHeld
<1>9. ReferencesResolve'
  BY <1>2, <1>8 DEF LinksInv, ReferencesResolve
<1> QED BY <1>5, <1>6, <1>7, <1>9 DEF LinksInv

\* A table is listed, found clear, or put again without the reference.
LEMMA SweepKeepsInv ==
    ASSUME LinksInv, NEW id \in Ids, SweepTable(id)
    PROVE  LinksInv'
<1>1. PICK phase \in DOMAIN SweptAt :
         LET table == SweptAt[phase]
             field == FieldOf(id)
             listed == removal[id].listed
         IN  /\ Reached(id, phase)
             /\ \/ /\ listed = {} /\ refs[table][field] = id
                   /\ removal' = [removal EXCEPT ![id].listed = {refs[table]}]
                   /\ UNCHANGED <<refs, late>>
                \/ /\ listed = {} /\ refs[table][field] # id
                   /\ removal' = Goes(id, phase + 1)
                   /\ UNCHANGED <<refs, late>>
                \/ \E seen \in listed :
                   /\ PutRow(table, [seen EXCEPT ![field] = Nothing], seen)
                   /\ removal' = Goes(id, phase + 1)
             /\ UNCHANGED <<profiles, owner, mainResumes, defaultProfile, manager, submit,
                            tabVars, takenAlong, clicks>>
  BY DEF SweepTable
<1> DEFINE table == SweptAt[phase]
           field == FieldOf(id)
<1>2. /\ phase \in 2..4 /\ table \in Tables /\ SweepOf[table] = phase
      /\ \A t \in Tables : SweepOf[t] \in 2..4 /\ (SweepOf[t] = phase => t = table)
  BY DEF SweptAt, SweepOf, Tables
<1>3. /\ removal[id].at = phase /\ removal[id].listed \subseteq RefRows
      /\ UNCHANGED <<profiles, owner, submit, tabShows, pending, takenAlong>>
  BY <1>1, <1>2 DEF Reached, LinksInv, DeletionsAreKnown, tabVars
<1>4. CASE /\ removal' = [removal EXCEPT ![id].listed = {refs[table]}] /\ UNCHANGED <<refs, late>>
  <2>1. {refs[table]} \subseteq RefRows
    BY <1>2 DEF LinksInv, RowsAreHeld
  <2>2. DeletionsAreKnown' /\ \A i \in Ids : removal'[i].at = removal[i].at
    <3>1. PICK listed : listed = {refs[table]}
      OBVIOUS
    <3>2. Moved(id, phase, listed) /\ listed \subseteq RefRows /\ phase \in 0..6
      BY <1>2, <1>3, <1>4, <2>1, <3>1 DEF Moved
    <3> QED BY <1>3, <3>2, DeletionMoves
  <2>3. RowsAreHeld' /\ SubmitKnowsOwner'
    BY <1>3, <1>4 DEF LinksInv, RowsAreHeld, SubmitKnowsOwner
  <2> QED BY <1>3, <1>4, <2>2, <2>3, LoadsKeepInv
<1>5. CASE refs[table][field] # id /\ removal' = Goes(id, phase + 1) /\ UNCHANGED <<refs, late>>
  <2>1. /\ DeletionsAreKnown' /\ removal'[id].at = phase + 1
        /\ \A i \in Ids \ {id} : removal'[i].at = removal[i].at
    <3>1. PICK next \in 3..5 : next = phase + 1
      BY <1>2
    <3>2. Moved(id, next, {})
      BY <1>5, <3>1 DEF Moved, Goes
    <3> QED BY <3>1, <3>2, DeletionMoves
  <2>2. RowsAreHeld' /\ SubmitKnowsOwner' /\ ReferencesResolve'
    BY <1>3, <1>5 DEF LinksInv, RowsAreHeld, SubmitKnowsOwner, ReferencesResolve, StoredResumes
  <2>3. Cleared'
    <3> SUFFICES ASSUME NEW t \in Tables \ late, NEW i \in Ids, removal'[i].at > SweepOf[t]
                 PROVE  refs[t][FieldOf(i)] # i
      BY <1>5 DEF Cleared
    <3>1. CASE i = id /\ t = table
      BY <1>5, <3>1
    <3>2. CASE i # id \/ t # table
      BY <1>2, <1>3, <2>1, <3>2 DEF LinksInv, Cleared
    <3> QED BY <3>1, <3>2
  <2> QED BY <2>1, <2>2, <2>3 DEF LinksInv
<1>6. ASSUME NEW seen \in removal[id].listed,
             PutRow(table, [seen EXCEPT ![field] = Nothing], seen), removal' = Goes(id, phase + 1)
      PROVE  LinksInv'
  <2> DEFINE row == [seen EXCEPT ![field] = Nothing]
  <2>1. row \in RefRows /\ row[field] = Nothing /\ field \in {"profile", "resume"}
    BY <1>3, <1>6, IdsAndFields DEF RefRows
  <2> HIDE DEF row
  <2>2. PutRow(table, row, seen)
    BY <1>6 DEF row
  <2>3. /\ DeletionsAreKnown' /\ removal'[id].at = phase + 1
        /\ \A i \in Ids \ {id} : removal'[i].at = removal[i].at
    <3>1. PICK next \in 3..5 : next = phase + 1
      BY <1>2
    <3>2. Moved(id, next, {})
      BY <1>6, <3>1 DEF Moved, Goes
    <3> QED BY <3>1, <3>2, DeletionMoves
  <2>4. /\ refs' \in [Tables -> RefRows] /\ refs'[table] = row
        /\ \A u \in Tables \ late' :
              /\ refs'[u].profile \in profiles \cup {Nothing}
              /\ refs'[u].resume \in StoredResumes \cup takenAlong \cup {Nothing}
        /\ \A u \in Tables \ late', i \in Ids :
              removal[i].at > SweepOf[u] => refs'[u][FieldOf(i)] # i
    BY <1>2, <2>1, <2>2, PutKeeps
  <2>5. RowsAreHeld' /\ SubmitKnowsOwner' /\ ReferencesResolve'
    BY <1>3, <2>4 DEF LinksInv, RowsAreHeld, SubmitKnowsOwner, ReferencesResolve, StoredResumes
  <2>6. Cleared'
    <3> SUFFICES ASSUME NEW t \in Tables \ late', NEW i \in Ids, removal'[i].at > SweepOf[t]
                 PROVE  refs'[t][FieldOf(i)] # i
      BY DEF Cleared
    <3>1. CASE i = id /\ t = table
      BY <2>1, <2>4, <3>1, IdsAndFields
    <3>2. CASE i # id \/ t # table
      BY <1>2, <1>3, <2>3, <2>4, <3>2
    <3> QED BY <3>1, <3>2
  <2> QED BY <2>3, <2>5, <2>6 DEF LinksInv
<1> QED BY <1>1, <1>4, <1>5, <1>6

\* The row goes when no reference to it is left.
LEMMA DeleteRowKeepsInv ==
    ASSUME LinksInv, NEW id \in Ids, DeleteRow(id)
    PROVE  LinksInv'
<1>1. /\ removal[id].at = 5 /\ UNCHANGED <<refs, late, submit, tabShows, pending>>
      /\ profiles' = profiles \ {id} /\ takenAlong' = takenAlong \ {id}
      /\ owner' = [r \in ResumeIds |-> IF r = id THEN Nothing ELSE owner[r]]
      /\ removal' = [removal EXCEPT ![id].at = 6]
  BY DEF DeleteRow, DeletesRow, Reached, tabVars
<1>2. ASSUME NEW t \in Tables \ late
      PROVE  refs[t][FieldOf(id)] # id
  BY <1>1 DEF LinksInv, Cleared, SweepOf, Tables
<1>3. DeletionsAreKnown' /\ \A i \in Ids \ {id} : removal'[i].at = removal[i].at
  <2>1. PICK listed : listed = removal[id].listed
    OBVIOUS
  <2>2. Moved(id, 6, listed) /\ listed \subseteq RefRows
    BY <1>1, <2>1 DEF Moved, LinksInv, DeletionsAreKnown
  <2> QED BY <2>2, DeletionMoves
<1>4. RowsAreHeld' /\ SubmitKnowsOwner'
  BY <1>1 DEF LinksInv, RowsAreHeld, SubmitKnowsOwner
<1>5. Cleared'
  <2> SUFFICES ASSUME NEW t \in Tables \ late, NEW i \in Ids, removal'[i].at > SweepOf[t]
               PROVE  refs[t][FieldOf(i)] # i
    BY <1>1 DEF Cleared
  <2>1. CASE i = id
    BY <1>2, <2>1
  <2>2. CASE i # id
    BY <1>3, <2>2 DEF LinksInv, Cleared
  <2> QED BY <2>1, <2>2
<1>6. ReferencesResolve'
  <2> SUFFICES ASSUME NEW t \in Tables \ late
               PROVE  /\ refs[t].profile \in profiles' \cup {Nothing}
                      /\ refs[t].resume \in StoredResumes' \cup takenAlong' \cup {Nothing}
    BY <1>1 DEF ReferencesResolve
  <2>1. /\ refs[t].profile \in ProfileIds \cup {Nothing} /\ refs[t].resume \in ResumeIds \cup {Nothing}
        /\ refs[t].profile \in profiles \cup {Nothing}
        /\ refs[t].resume \in StoredResumes \cup takenAlong \cup {Nothing}
    BY DEF LinksInv, RowsAreHeld, ReferencesResolve, RefRows
  <2>2. refs[t].profile # id /\ refs[t].resume # id
    BY <1>2, <2>1, IdsAndFields
  <2>3. \A r \in StoredResumes \ {id} : r \in StoredResumes'
    BY <1>1 DEF StoredResumes
  <2> QED BY <1>1, <2>1, <2>2, <2>3
<1> QED BY <1>3, <1>4, <1>5, <1>6 DEF LinksInv

-----------------------------------------------------------------------------
\* The forms.

\* A form that is opened, or lists what it will put.
LEMMA FormKeepsInv ==
    ASSUME LinksInv,
           \/ \E p \in ProfileIds : HandleSubmitProfile(p)
           \/ \E r \in ResumeIds, p \in ProfileIds, main \in BOOLEAN : HandleSubmitResume(r, p, main)
           \/ ListOtherResumes
    PROVE  LinksInv'
<1>1. UNCHANGED <<profiles, owner, refs, removal, late, takenAlong, tabShows, pending>>
  BY DEF HandleSubmitProfile, HandleSubmitResume, ListOtherResumes, linkVars, tabVars
<1>2. RowsAreHeld' /\ DeletionsAreKnown'
  BY <1>1 DEF LinksInv, RowsAreHeld, DeletionsAreKnown
<1>3. SubmitKnowsOwner'
  <2>1. ASSUME NEW p \in ProfileIds, HandleSubmitProfile(p) PROVE SubmitKnowsOwner'
    BY <2>1, SubmitFields, IdsAndFields DEF HandleSubmitProfile, SubmitKnowsOwner
  <2>2. ASSUME NEW r \in ResumeIds, NEW p \in ProfileIds, NEW main \in BOOLEAN,
               HandleSubmitResume(r, p, main)
        PROVE  SubmitKnowsOwner'
    BY <2>2, SubmitFields, IdsAndFields DEF HandleSubmitResume, SubmitKnowsOwner
  <2>3. CASE ListOtherResumes
    BY <2>3, SubmitFields DEF ListOtherResumes, LinksInv, SubmitKnowsOwner
  <2> QED BY <2>1, <2>2, <2>3
<1>4. \A id \in Ids : removal'[id].at = removal[id].at
  BY <1>1
<1> QED BY <1>1, <1>2, <1>3, <1>4, LoadsKeepInv

\* A form puts a row: ids come back, none goes.
LEMMA PutRowsKeepInv ==
    ASSUME LinksInv, UnsetOtherResume \/ SubmitSaves
    PROVE  LinksInv'
<1>1. UNCHANGED <<refs, removal, late, tabShows, pending>>
  BY DEF UnsetOtherResume, SubmitSaves, tabVars
<1>2. /\ profiles \subseteq profiles' /\ profiles' \subseteq ProfileIds
      /\ \/ UNCHANGED <<owner, takenAlong>>
         \/ \E r, p : /\ p \in ProfileIds /\ owner' = [owner EXCEPT ![r] = p]
                      /\ takenAlong' = takenAlong \ {r}
  <2>1. CASE UnsetOtherResume
    BY <2>1 DEF UnsetOtherResume, LinksInv, SubmitKnowsOwner, RowsAreHeld
  <2>2. CASE SubmitSaves
    <3>1. submit.id \in ProfileIds \/ (submit.id \in ResumeIds /\ submit.owner \in ProfileIds)
      BY <2>2, IdsAndFields DEF SubmitSaves, LinksInv, SubmitKnowsOwner
    <3> QED BY <2>2, <3>1, IdsAndFields DEF SubmitSaves, LinksInv, RowsAreHeld
  <2> QED BY <2>1, <2>2
<1>3. RowsAreHeld' /\ DeletionsAreKnown'
  BY <1>1, <1>2 DEF LinksInv, RowsAreHeld, DeletionsAreKnown
<1>4. SubmitKnowsOwner'
  BY SubmitFields, IdsAndFields DEF UnsetOtherResume, SubmitSaves, LinksInv, SubmitKnowsOwner
<1>5. Cleared'
  BY <1>1 DEF LinksInv, Cleared
<1>6. (StoredResumes \cup takenAlong) \cap ResumeIds \subseteq (StoredResumes \cup takenAlong)'
  BY <1>2, IdsAndFields DEF StoredResumes, LinksInv, RowsAreHeld
<1>7. ReferencesResolve'
  <2> SUFFICES ASSUME NEW t \in Tables \ late
               PROVE  /\ refs[t].profile \in profiles' \cup {Nothing}
                      /\ refs[t].resume \in StoredResumes' \cup takenAlong' \cup {Nothing}
    BY <1>1 DEF ReferencesResolve
  <2>1. /\ refs[t].resume \in ResumeIds \cup {Nothing} /\ refs[t].profile \in profiles \cup {Nothing}
        /\ refs[t].resume \in StoredResumes \cup takenAlong \cup {Nothing}
    BY DEF LinksInv, RowsAreHeld, ReferencesResolve, RefRows
  <2> QED BY <1>2, <1>6, <2>1
<1> QED BY <1>3, <1>4, <1>5, <1>7 DEF LinksInv

-----------------------------------------------------------------------------
\* The side panel.

\* The panel loads, computes a row, or sets the default.
LEMMA PanelReadsKeepInv ==
    ASSUME LinksInv,
           \/ OpenPanelTab \/ RefreshContext \/ SyncReads
           \/ \E p \in ProfileIds : HandleSetDefault(p) \/ HandleSetDefaultProfile(p)
           \/ \E w \in pending : RecomputeReads(w)
    PROVE  LinksInv'
<1>1. UNCHANGED <<profiles, owner, refs, removal, submit, late, takenAlong>>
  BY DEF OpenPanelTab, RefreshContext, SyncReads, HandleSetDefault, HandleSetDefaultProfile,
     RecomputeReads, linkVars, managerVars
<1>2. DeletionsAreKnown' /\ SubmitKnowsOwner' /\ \A id \in Ids : removal'[id].at = removal[id].at
  BY <1>1 DEF LinksInv, DeletionsAreKnown, SubmitKnowsOwner
<1>3. refs["job"] \in RefRows /\ refs["letter"] \in RefRows /\ refs["application"] \in RefRows
  BY DEF LinksInv, RowsAreHeld, Tables
<1>4. /\ DOMAIN tabShows' = {"profiles", "owner", "job", "letter"}
      /\ tabShows'.job \in RefRows /\ tabShows'.letter \in RefRows
  BY <1>3 DEF OpenPanelTab, RefreshContext, SyncReads, HandleSetDefault, HandleSetDefaultProfile,
     RecomputeReads, tabVars, PanelOf, LinksInv, RowsAreHeld
<1>5. \A w \in pending' : w.table \in Tables => w.row \in RefRows /\ w.seen \in RefRows
  <2>1. CASE UNCHANGED pending
    BY <2>1 DEF LinksInv, RowsAreHeld
  <2>2. CASE SyncReads
    <3>1. \E w : pending' = pending \cup {w} /\ w.row \in RefRows /\ w.seen \in RefRows
      <4> DEFINE prefer(f) == IF tabShows.job[f] # Nothing THEN tabShows.job[f]
                              ELSE refs["application"][f]
                 row == [f \in DOMAIN Unlinked |-> prefer(f)]
      <4>1. DOMAIN Unlinked = {"profile", "resume"}
        BY DEF Unlinked, Ref
      <4>2. /\ prefer("profile") \in ProfileIds \cup {Nothing}
            /\ prefer("resume") \in ResumeIds \cup {Nothing}
        BY <1>3 DEF LinksInv, RowsAreHeld, RefRows
      <4>3. row \in RefRows
        <5> HIDE DEF prefer
        <5> QED BY <4>1, <4>2 DEF RefRows
      <4>4. PICK w : w = [table |-> "application", row |-> row, seen |-> refs["application"]]
        OBVIOUS
      <4>5. pending' = pending \cup {w}
        BY <2>2, <4>4 DEF SyncReads
      <4>6. w.row = row /\ w.seen = refs["application"]
        BY <4>4
      <4> HIDE DEF row
      <4> QED BY <1>3, <4>3, <4>5, <4>6
    <3> QED BY <3>1 DEF LinksInv, RowsAreHeld
  <2>3. ASSUME NEW w \in pending, RecomputeReads(w)
        PROVE  \A x \in pending' : x.table \in Tables => x.row \in RefRows /\ x.seen \in RefRows
    <3>1. Resolved(w.row.profile) \subseteq ProfileIds
      BY DEF Resolved, LinksInv, RowsAreHeld
    <3>2. \/ pending' = pending \ {w}
          \/ \E x : pending' = (pending \ {w}) \cup {x} /\ x.row \in RefRows /\ x.seen \in RefRows
      BY <1>3, <2>3, <3>1 DEF RecomputeReads, RefRows
    <3> QED BY <3>2 DEF LinksInv, RowsAreHeld
  <2> QED BY <2>1, <2>2, <2>3 DEF OpenPanelTab, RefreshContext, HandleSetDefault,
       HandleSetDefaultProfile, tabVars
<1>6. RowsAreHeld'
  BY <1>1, <1>4, <1>5 DEF LinksInv, RowsAreHeld
<1> QED BY <1>1, <1>2, <1>6, LoadsKeepInv

\* The panel puts a row.
LEMMA PanelPutsKeepInv ==
    ASSUME LinksInv,
           \/ \E p \in ProfileIds : SelectProfile(p)
           \/ \E r \in ResumeIds : SelectResume(r)
           \/ HandleSaveLetter
           \/ \E w \in pending : PutPending(w)
    PROVE  LinksInv'
<1>1. /\ tabShows.job \in RefRows /\ tabShows.letter \in RefRows
      /\ \A w \in pending : w.table \in Tables => w.row \in RefRows /\ w.seen \in RefRows
      /\ "job" \in Tables /\ "letter" \in Tables /\ "score" \notin Tables
  BY DEF LinksInv, RowsAreHeld, Tables
<1>2. UNCHANGED <<profiles, owner, removal, submit, takenAlong, tabShows>>
  BY DEF SelectProfile, SelectResume, HandleSaveLetter, PutPending, managerVars, tabVars
<1>3. \A w \in pending' : w.table \in Tables => w.row \in RefRows /\ w.seen \in RefRows
  BY <1>1 DEF SelectProfile, SelectResume, HandleSaveLetter, PutPending, tabVars
<1>4. \E t \in Tables, row \in RefRows : \E seen : PutRow(t, row, seen)
  <2>1. ASSUME NEW p \in ProfileIds, SelectProfile(p)
        PROVE  \E t \in Tables, row \in RefRows : \E seen : PutRow(t, row, seen)
    <3>1. Ref(p, Nothing) \in RefRows
      BY DEF Ref, RefRows
    <3> QED BY <1>1, <2>1, <3>1 DEF SelectProfile
  <2>2. ASSUME NEW r \in ResumeIds, SelectResume(r)
        PROVE  \E t \in Tables, row \in RefRows : \E seen : PutRow(t, row, seen)
    <3>1. Ref(tabShows.job.profile, r) \in RefRows
      BY <1>1 DEF Ref, RefRows
    <3> QED BY <1>1, <2>2, <3>1 DEF SelectResume
  <2>3. CASE HandleSaveLetter
    <3> DEFINE found == tabShows.letter.profile = tabShows.job.profile
    <3>1. PICK row : row = IF found THEN tabShows.letter ELSE tabShows.job
      OBVIOUS
    <3>2. PICK seen : seen = IF found THEN tabShows.letter ELSE refs["letter"]
      OBVIOUS
    <3>3. PutRow("letter", row, seen) /\ row \in RefRows
      BY <1>1, <2>3, <3>1, <3>2 DEF HandleSaveLetter
    <3> QED BY <1>1, <3>3
  <2>4. ASSUME NEW w \in pending, PutPending(w)
        PROVE  \E t \in Tables, row \in RefRows : \E seen : PutRow(t, row, seen)
    BY <1>1, <2>4 DEF PutPending
  <2> QED BY <2>1, <2>2, <2>3, <2>4
<1> QED BY <1>2, <1>3, <1>4, PanelPutKeepsInv

-----------------------------------------------------------------------------

\* At first no deletion is under way.
LEMMA InitLinksInv ==
    ASSUME ProfilesInit
    PROVE  LinksInv
<1>1. PICK p \in ProfileIds, r \in ResumeIds : refs \in [Tables -> {Unlinked, Ref(p, r)}]
  BY DEF ProfilesInit
<1>2. PICK q \in ProfileIds : owner = [x \in ResumeIds |-> q]
  BY DEF ProfilesInit
<1>3. {Unlinked, Ref(p, r)} \subseteq RefRows
  BY DEF Unlinked, Ref, RefRows
<1>4. refs \in [Tables -> RefRows] /\ \A t \in Tables : refs[t] \in {Unlinked, Ref(p, r)}
  BY <1>1, <1>3
<1>5. RowsAreHeld
  BY <1>2, <1>4 DEF ProfilesInit, RowsAreHeld, PanelOf, Tables
<1>6. DeletionsAreKnown /\ \A id \in Ids : removal[id].at = 0
  BY RemovalFields DEF ProfilesInit, DeletionsAreKnown
<1>7. SubmitKnowsOwner
  BY SubmitFields, IdsAndFields DEF ProfilesInit, SubmitKnowsOwner
<1>8. Cleared
  BY <1>6 DEF Cleared, SweepOf, Tables
<1>9. StoredResumes = ResumeIds
  BY <1>2, IdsAndFields DEF StoredResumes
<1>10. ReferencesResolve
  BY <1>4, <1>9 DEF ReferencesResolve, ProfilesInit, Unlinked, Ref
<1> QED BY <1>5, <1>6, <1>7, <1>8, <1>10 DEF LinksInv

\* What a row refers to is there at every step of a deletion, also of one that is
\* left half done, unless a writer that the deletion has overtaken put the row.
THEOREM LinksResolve == LinksSpec => []ReferencesResolve
<1>1. ProfilesInit => LinksInv
  BY InitLinksInv
<1>2. LinksInv /\ [ProfilesNext]_profileVars => LinksInv'
  <2> SUFFICES ASSUME LinksInv, [ProfilesNext]_profileVars PROVE LinksInv'
    OBVIOUS
  <2>1. CASE UNCHANGED profileVars
    <3>1. UNCHANGED <<profiles, owner, refs, removal, submit, late, takenAlong, tabShows, pending>>
      BY <2>1 DEF profileVars, linkVars, managerVars, tabVars
    <3> QED BY <3>1 DEF LinksInv, RowsAreHeld, DeletionsAreKnown, SubmitKnowsOwner, Cleared,
         ReferencesResolve, StoredResumes
  <2>2. CASE ProfilesNext
    <3>1. ASSUME NEW p \in ProfileIds, DeleteLinkedResumes(p) PROVE LinksInv'
      BY <3>1, LinkedGoKeepInv
    <3>2. ASSUME NEW id \in Ids,
                 \/ HandleDelete(id) \/ SweepTable(id) \/ DeleteRow(id)
                 \/ DeletionEnds(id) \/ DeletionFails(id)
          PROVE  LinksInv'
      BY <3>2, DeletionBoundsKeepInv, SweepKeepsInv, DeleteRowKeepsInv
    <3> QED BY <2>2, <3>1, <3>2, PageKeepsInv, FormKeepsInv, PutRowsKeepInv, PanelReadsKeepInv,
         PanelPutsKeepInv DEF ProfilesNext
  <2> QED BY <2>1, <2>2
<1>3. LinksInv => ReferencesResolve
  BY DEF LinksInv
<1> QED BY <1>1, <1>2, <1>3, PTL DEF LinksSpec
=============================================================================
