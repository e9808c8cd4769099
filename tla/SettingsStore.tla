---------------------------- MODULE SettingsStore ----------------------------
(***************************************************************************)
(* The settings of the extension and the deletion of its data.  Every      *)
(* page loads the whole settings object, changes a field and saves the     *)
(* whole object again (settings-bridge.ts and the sections of the options  *)
(* page); the deletions of delete-all.ts run behind a barrier that each    *)
(* page holds for its own writes only (reset-guard.ts).                    *)
(***************************************************************************)
EXTENDS Integers, Sequences

CONSTANTS
    OptionsPages,     \* open extension pages
    MaxPresses        \* bound on the sections opened and handlers started

VARIABLES
    settings,         \* app_settings_v1, normalised
    dirty,            \* stores that hold data of the user
    section,          \* page -> the section of the options page it shows
    shown,            \* page -> the settings the section shows, none before they are loaded
    saving,           \* page -> the section's saving flag
    writes,           \* handlers on their way to a store
    step,             \* page -> the DeleteStep of its PrivacySection
    reset,            \* page -> the deletion it runs, and how far it is
    foreign,          \* page -> stores that others wrote to during its deletion
    killed,           \* the user was shown the kill switch on, and has not pressed it since
    presses

settingsVars == <<settings, dirty, section, shown, saving, writes, step, reset, foreign,
                  killed, presses>>

Sections == {"labs", "ai", "general", "privacy"}
Stores == {"rows", "cache", "log", "storage"}

\* The fields that the code below reads; "other" stands for all the rest.
Defaults == [labs |-> FALSE, guided |-> FALSE, kill |-> FALSE, actions |-> 1,
             ai |-> FALSE, provider |-> "none", other |-> FALSE]

\* normalizeSettings: a number out of its range and an unknown provider give way to the default.
Actions == 0..2
Providers == {"openai", "deepseek", "openrouter", "mock"}
NormalizeSettings(s) ==
    [s EXCEPT !.actions = IF @ \in Actions THEN @ ELSE Defaults.actions,
              !.provider = IF @ \in Providers THEN @ ELSE Defaults.provider]

\* The two clears of a deletion, in its order; settings are in the extension's storage.
Clears == [all |-> <<{"rows", "cache", "log"}, {"storage", "settings"}>>,
           job |-> <<{"rows", "cache", "log"}, {"storage"}>>,
           cache |-> <<{"cache"}, {"log"}>>]
Scope(kind) == Clears[kind][1] \cup Clears[kind][2]
NoReset == [kind |-> "none", at |-> "idle"]
Barrier(p) == reset[p].at # "idle"
Unloaded == {}

SettingsInit ==
    /\ settings \in {Defaults, [Defaults EXCEPT !.labs = TRUE, !.guided = TRUE, !.ai = TRUE,
                                                !.provider = "openai"]}
    /\ dirty \in {{}, Stores}
    /\ section \in [OptionsPages -> Sections]
    /\ shown = [p \in OptionsPages |-> Unloaded]
    /\ saving = [p \in OptionsPages |-> FALSE]
    /\ writes = {}
    /\ step = [p \in OptionsPages |-> "idle"]
    /\ reset = [p \in OptionsPages |-> NoReset]
    /\ foreign = [p \in OptionsPages |-> {}]
    /\ killed = FALSE /\ presses = 0

Presses == presses < MaxPresses /\ presses' = presses + 1

\* checkGuidedApplyGate, up to the actions of the day; isProviderImplemented.
GuidedApplyGate(s) == s.labs /\ ~s.kill /\ s.guided /\ s.actions > 0
Implemented == {"openai", "mock"}

-----------------------------------------------------------------------------
(* The sections.                                                            *)

OpenSettingsSection(p, s) ==
    /\ s # section[p]
    /\ section' = [section EXCEPT ![p] = s]
    /\ shown' = [shown EXCEPT ![p] = Unloaded]
    /\ saving' = [saving EXCEPT ![p] = FALSE]
    /\ step' = [step EXCEPT ![p] = "idle"]
    /\ writes' = {[w EXCEPT !.mounted = @ /\ w.page # p] : w \in writes}
    /\ Presses
    /\ UNCHANGED <<settings, dirty, reset, foreign, killed>>

LoadSection(p) ==
    /\ shown[p] = Unloaded
    /\ shown' = [shown EXCEPT ![p] = {NormalizeSettings(settings)}]
    /\ UNCHANGED <<settings, dirty, section, saving, writes, step, reset, foreign, killed,
                   presses>>

\* A control, the section it is in and what it makes of the settings it has loaded.
Controls == [master |-> "labs", guided |-> "labs", kill |-> "labs", actions |-> "labs",
             ai |-> "ai", provider |-> "ai", ai_rest |-> "ai", general |-> "general"]

ToggleMaster(s) == [s EXCEPT !.labs = ~@, !.guided = @ /\ ~s.labs]
Changed(s, control) ==
    CASE control = "master" -> {ToggleMaster(s)}
      [] control = "guided" -> {[s EXCEPT !.guided = ~@]}
      [] control = "kill" -> {[s EXCEPT !.kill = ~@]}
      [] control = "actions" -> {[s EXCEPT !.actions = n] : n \in {0, 2}}
      [] control = "ai" -> {[s EXCEPT !.ai = ~@]}
      [] control = "provider" -> {[s EXCEPT !.provider = i] : i \in Implemented}
      [] OTHER -> {[s EXCEPT !.other = TRUE]}

LabsControl(p, control) == control = "guided" => \A s \in shown[p] : s.labs
AIControl(p, control) == control = "provider" => \A s \in shown[p] : s.ai
Pressable(p, control) ==
    /\ Controls[control] = section[p] /\ shown[p] # Unloaded
    /\ ~saving[p] \/ control = "general"
    /\ LabsControl(p, control) /\ AIControl(p, control)

\* A handler: its page, the store it is for, "loading", "loaded" or "writing", what it writes.
Handler(p, store, at, control, value) ==
    [page |-> p, store |-> store, at |-> at, control |-> control, value |-> value,
     mounted |-> TRUE]

Press(p, control) ==
    /\ Pressable(p, control)
    /\ writes' = writes \cup {Handler(p, "settings", "loading", control, Defaults)}
    /\ saving' = [saving EXCEPT ![p] = TRUE]
    /\ killed' = (killed /\ control # "kill")
    /\ Presses
    /\ UNCHANGED <<settings, dirty, section, shown, step, reset, foreign>>

\* loadSettings has read the object; the handler goes on with it later.
LoadSettings(w) ==
    /\ w \in writes /\ w.at = "loading"
    /\ \E s \in Changed(NormalizeSettings(settings), w.control) :
          writes' = (writes \ {w}) \cup {[w EXCEPT !.at = "loaded", !.value = s]}
    /\ UNCHANGED <<settings, dirty, section, shown, saving, step, reset, foreign, killed,
                   presses>>

\* A write of anything else: an API key, the badge of a page, a row, a cached answer.
StartWrite(p, store) ==
    /\ store \in Stores
    /\ writes' = writes \cup {Handler(p, store, "loaded", "general", Defaults)}
    /\ Presses
    /\ UNCHANGED <<settings, dirty, section, shown, saving, step, reset, foreign, killed>>

HandlerEnds(w) ==
    saving' = IF w.mounted THEN [saving EXCEPT ![w.page] = FALSE] ELSE saving

\* The mutant does not ask the barrier.
AdmitsAlways(p) == TRUE
Admits(p) == ~Barrier(p)

\* withWriteGuard: a write during a reset of its page throws; another is counted as active.
WithWriteGuard(w) ==
    /\ w \in writes /\ w.at = "loaded"
    /\ IF Admits(w.page)
         THEN writes' = (writes \ {w}) \cup {[w EXCEPT !.at = "writing"]} /\ UNCHANGED saving
         ELSE writes' = writes \ {w} /\ HandlerEnds(w)
    /\ UNCHANGED <<settings, dirty, section, shown, step, reset, foreign, killed, presses>>

\* The write is done, and the handler shows what it saved.
WriteLands(w) ==
    /\ w \in writes /\ w.at = "writing"
    /\ writes' = writes \ {w}
    /\ IF w.store = "settings"
         THEN settings' = NormalizeSettings(w.value) /\ UNCHANGED dirty
         ELSE dirty' = dirty \cup {w.store} /\ UNCHANGED settings
    /\ shown' = IF w.store = "settings" /\ w.mounted /\ shown[w.page] # Unloaded
                THEN [shown EXCEPT ![w.page] = {w.value}] ELSE shown
    /\ killed' = (killed \/ (w.control = "kill" /\ w.mounted /\ w.value.kill))
    /\ foreign' = [p \in OptionsPages |->
                       IF Barrier(p) /\ p # w.page THEN foreign[p] \cup {w.store}
                       ELSE foreign[p]]
    /\ HandlerEnds(w)
    /\ UNCHANGED <<section, step, reset, presses>>

-----------------------------------------------------------------------------
(* The deletions of PrivacySection, one barrier per page.                   *)

HandleStartDelete(p) ==
    /\ section[p] = "privacy" /\ step[p] = "idle"
    /\ step' = [step EXCEPT ![p] = "warn-export"]
    /\ UNCHANGED <<settings, dirty, section, shown, saving, writes, reset, foreign, killed,
                   presses>>

HandleConfirmDelete(p) ==
    /\ section[p] = "privacy" /\ step[p] = "warn-export"
    /\ step' = [step EXCEPT ![p] = "confirm"]
    /\ UNCHANGED <<settings, dirty, section, shown, saving, writes, reset, foreign, killed,
                   presses>>

HandleCancel(p) ==
    /\ section[p] = "privacy" /\ step[p] \in {"warn-export", "confirm", "done", "error"}
    /\ step' = [step EXCEPT ![p] = "idle"]
    /\ UNCHANGED <<settings, dirty, section, shown, saving, writes, reset, foreign, killed,
                   presses>>

\* withResetGuard: a second deletion of the page throws; this one waits for its writes.
BeginReset(p, kind) ==
    /\ section[p] = "privacy"
    /\ kind = "all" => step[p] = "confirm"
    /\ IF Barrier(p)
         THEN /\ step' = [step EXCEPT ![p] = IF kind = "all" THEN "error" ELSE @]
              /\ UNCHANGED <<reset, foreign>>
         ELSE /\ step' = [step EXCEPT ![p] = IF kind = "all" THEN "deleting" ELSE @]
              /\ reset' = [reset EXCEPT ![p] = [kind |-> kind, at |-> "drain"]]
              /\ foreign' = [foreign EXCEPT ![p] = {}]
    /\ Presses
    /\ UNCHANGED <<settings, dirty, section, shown, saving, writes, killed>>

Drained(p) == \A w \in writes : w.page # p \/ w.at # "writing"

WritesDrained(p) ==
    /\ reset[p].at = "drain" /\ Drained(p)
    /\ reset' = [reset EXCEPT ![p].at = "first"]
    /\ UNCHANGED <<settings, dirty, section, shown, saving, writes, step, foreign, killed,
                   presses>>

\* The transaction over the tables, then the extension's storage (or the event log).
Clear(p) ==
    /\ reset[p].at \in {"first", "second"}
    /\ LET cleared == Clears[reset[p].kind][IF reset[p].at = "first" THEN 1 ELSE 2]
       IN  /\ dirty' = dirty \ cleared
           /\ settings' = IF "settings" \in cleared THEN Defaults ELSE settings
           /\ reset' = [reset EXCEPT ![p].at =
                  IF @ = "first" THEN "second"
                  ELSE IF reset[p].kind = "all" THEN "defaults" ELSE "cleared"]
    /\ UNCHANGED <<section, shown, saving, writes, step, foreign, killed, presses>>

\* saveSettings(defaultSettings(), allowDuringReset).
SaveDefaults(p) ==
    /\ reset[p].at = "defaults"
    /\ settings' = Defaults /\ killed' = FALSE
    /\ reset' = [reset EXCEPT ![p].at = "cleared"]
    /\ UNCHANGED <<dirty, section, shown, saving, writes, step, foreign, presses>>

EndReset(p) ==
    /\ reset[p].at = "cleared"
    /\ reset' = [reset EXCEPT ![p] = NoReset]
    /\ step' = [step EXCEPT ![p] = IF @ = "deleting" THEN "done" ELSE @]
    /\ UNCHANGED <<settings, dirty, section, shown, saving, writes, foreign, killed, presses>>

\* An unsafe AI execution, a missing row or a failing store: the barrier is lifted too.
ResetFails(p) ==
    /\ reset[p].at \in {"first", "second", "defaults"}
    /\ reset' = [reset EXCEPT ![p] = NoReset]
    /\ step' = [step EXCEPT ![p] = IF @ = "deleting" THEN "error" ELSE @]
    /\ UNCHANGED <<settings, dirty, section, shown, saving, writes, foreign, killed, presses>>

-----------------------------------------------------------------------------
SettingsNext ==
    \/ \E p \in OptionsPages :
          \/ \E s \in Sections : OpenSettingsSection(p, s)
          \/ \E c \in DOMAIN Controls : Press(p, c)
          \/ \E s \in Stores : StartWrite(p, s)
          \/ \E kind \in DOMAIN Clears : BeginReset(p, kind)
          \/ LoadSection(p) \/ HandleStartDelete(p) \/ HandleConfirmDelete(p) \/ HandleCancel(p)
          \/ WritesDrained(p) \/ Clear(p) \/ SaveDefaults(p) \/ EndReset(p) \/ ResetFails(p)
    \/ \E w \in writes : LoadSettings(w) \/ WithWriteGuard(w) \/ WriteLands(w)

-----------------------------------------------------------------------------
(* A deletion that reports success leaves nothing behind in the stores it   *)
(* names, whatever handlers of its page were under way when it began or     *)
(* went on during it: they were waited for or refused.  A store that        *)
(* another page wrote to meanwhile is excepted, since the barrier is kept   *)
(* per page (reset-guard.ts).                                               *)
ResetLeavesNothing ==
    \A p \in OptionsPages : reset[p].at = "cleared" =>
        \A s \in Scope(reset[p].kind) \ foreign[p] :
            IF s = "settings" THEN settings = Defaults ELSE s \notin dirty

(* A single kill switch suppresses all Labs features (labs-control.ts):     *)
(* once it was shown as active, no gate of Guided Apply opens until the     *)
(* user presses it again, whatever else is changed on whatever page.        *)
KillSwitchHolds == killed => ~GuidedApplyGate(settings)
=============================================================================
