------------------------------ MODULE Authority ------------------------------
(***************************************************************************)
(* Which store is canonical.  The user's intent (settings, kept in         *)
(* chrome.storage.local) and the authority (a row of Dexie's opsMeta) are  *)
(* two stores; Ops is effective only when both say so.  The settings page  *)
(* toggles the intent and runs the first migration (capture, preview,      *)
(* confirm, import, checkpoint, switch); every other page reads the mode   *)
(* before a local mutation and repairs an authority that contradicts the   *)
(* intent it has read.  operating-mode.ts, migration-service.ts,           *)
(* MigrationPanel.tsx, the toggle of CompanionSettings.tsx and delete-all. *)
(***************************************************************************)
EXTENDS Integers

CONSTANTS
    Readers,          \* pages, other than the settings page, that read the mode before a mutation
    MaxLocalChanges,  \* bound on the versions of the local data
    MaxToggles,       \* bound on the clicks on the Ops Mode switch
    MaxImports        \* bound on confirmed migrations

VARIABLES
    intent,       \* settings.companion.opsModeEnabled
    authority,    \* opsMeta authority row
    checkpoint,   \* opsMeta lastMigrationSnapshotHash
    localData,    \* version of what Dexie holds
    imported,     \* the snapshots whose import the companion has committed
    modeRead,     \* page -> the getOperatingMode() under way there
    toggle,       \* the setOpsModeIntent() under way on the settings page
    toggles,      \* clicks on the switch so far
    known,        \* CompanionSettings' own opsModeEnabled state
    migrationPanel,        \* MigrationPanel
    imports,      \* import number -> the confirmMigration() it is
    clearing,     \* deleteAllData() holds the settings page's write barrier
    otherWipes,   \* deleteAllData() of another page, between its two writes
    overtaken     \* one has removed the checkpoint of a migration about to switch

localStores == <<checkpoint, localData, imported>>
switchVars == <<toggle, toggles, known>>
otherPage == <<otherWipes, overtaken>>
authorityVars == <<intent, authority, localStores, modeRead, switchVars, migrationPanel,
                   imports, clearing, otherPage>>

NoSnapshot == -1
Unstarted == [at |-> "unstarted", snapshot |-> NoSnapshot]
ReadIdle == [at |-> "idle", intent |-> FALSE]
ToggleIdle == [at |-> "idle", next |-> FALSE]
Panel(at, snapshot, run) == [at |-> at, snapshot |-> snapshot, run |-> run]
ClosedPanel == Panel("closed", NoSnapshot, 0)
EmptyPanel == Panel("empty", NoSnapshot, 0)

ImportIds == 1..MaxImports
EffectiveOps(wanted, stored) == wanted /\ stored = "ops"

AuthorityInit ==
    /\ intent \in BOOLEAN
    /\ authority = "standalone"
    /\ checkpoint = NoSnapshot
    /\ localData = 0
    /\ imported = {}
    /\ modeRead = [p \in Readers |-> ReadIdle]
    /\ toggle = ToggleIdle
    /\ toggles = 0
    /\ known = intent
    /\ migrationPanel = ClosedPanel
    /\ imports = [i \in ImportIds |-> Unstarted]
    /\ clearing = FALSE
    /\ otherWipes = FALSE
    /\ overtaken = FALSE

-----------------------------------------------------------------------------
(* Reading the mode, and the local mutation that the read allows (moving a *)
(* card of the board, confirming an application).                          *)

ReadsIntent(p) ==
    /\ modeRead[p].at = "idle"
    /\ modeRead' = [modeRead EXCEPT ![p] = [at |-> "authority", intent |-> intent]]
    /\ UNCHANGED <<intent, authority, localStores, switchVars, migrationPanel,
                  imports, clearing, otherPage>>

ReadsAuthority(p) ==
    /\ modeRead[p].at = "authority"
    /\ modeRead' = [modeRead EXCEPT ![p] =
           CASE ~modeRead[p].intent /\ authority # "standalone" -> [@ EXCEPT !.at = "repair"]
             [] EffectiveOps(modeRead[p].intent, authority)     -> ReadIdle
             [] OTHER                                           -> [@ EXCEPT !.at = "mutate"]]
    /\ UNCHANGED <<intent, authority, localStores, switchVars, migrationPanel,
                  imports, clearing, otherPage>>

RepairsAuthority(p) ==
    /\ modeRead[p].at = "repair"
    /\ authority' = "standalone"
    /\ modeRead' = [modeRead EXCEPT ![p].at = "mutate"]
    /\ UNCHANGED <<intent, localStores, switchVars, migrationPanel, imports,
                  clearing, otherPage>>

\* The page found Standalone effective: it writes Dexie, or only wanted to know.
MutatesLocally(p) ==
    /\ modeRead[p].at = "mutate"
    /\ modeRead' = [modeRead EXCEPT ![p] = ReadIdle]
    /\ \/ localData' = localData
       \/ localData < MaxLocalChanges /\ localData' = localData + 1
    /\ UNCHANGED <<intent, authority, checkpoint, imported, switchVars,
                  migrationPanel, imports, clearing, otherPage>>

-----------------------------------------------------------------------------
(* The Ops Mode switch.  A write of the settings page is refused while it  *)
(* is being reset; the toggle then ends with an error.                     *)

ClicksSwitch ==
    /\ toggle.at = "idle" /\ toggles < MaxToggles
    /\ toggle' = [at |-> "intent", next |-> ~known]
    /\ toggles' = toggles + 1
    /\ UNCHANGED <<intent, authority, localStores, modeRead, known, migrationPanel,
                  imports, clearing, otherPage>>

SavesIntent ==
    /\ toggle.at = "intent"
    /\ IF clearing
         THEN toggle' = ToggleIdle /\ UNCHANGED intent
         ELSE /\ intent' = toggle.next
              /\ toggle' = [toggle EXCEPT !.at = IF toggle.next THEN "read" ELSE "standalone"]
    /\ UNCHANGED <<authority, localStores, modeRead, toggles, known, migrationPanel,
                  imports, clearing, otherPage>>

\* setAuthorityMode("standalone"), by the disabling itself or by the repair of readMode.
ClearsAuthority ==
    /\ toggle.at \in {"standalone", "repair"}
    /\ IF clearing
         THEN toggle' = ToggleIdle /\ UNCHANGED authority
         ELSE /\ authority' = "standalone"
              /\ toggle' = [toggle EXCEPT !.at = IF @ = "repair" THEN "finish" ELSE "read"]
    /\ UNCHANGED <<intent, localStores, modeRead, toggles, known, migrationPanel,
                  imports, clearing, otherPage>>

ToggleReadsMode ==
    /\ toggle.at = "read"
    /\ toggle' = [toggle EXCEPT !.at =
           IF ~toggle.next /\ authority # "standalone" THEN "repair" ELSE "finish"]
    /\ UNCHANGED <<intent, authority, localStores, modeRead, toggles, known,
                  migrationPanel, imports, clearing, otherPage>>

\* The status is refreshed or set to unavailable: either way the panel is unmounted.
FinishesToggle ==
    /\ toggle.at = "finish"
    /\ known' = toggle.next
    /\ toggle' = ToggleIdle
    /\ migrationPanel' = ClosedPanel
    /\ UNCHANGED <<intent, authority, localStores, modeRead, toggles, imports,
                  clearing, otherPage>>

-----------------------------------------------------------------------------
(* The migration panel, shown while the companion is connected.            *)

\* The mount effect reads the mode: a committed migration is shown as such.
ShowsPanel ==
    /\ known /\ migrationPanel = ClosedPanel
    /\ migrationPanel' = IF intent /\ authority = "ops" THEN Panel("complete", NoSnapshot, 0)
                                                ELSE EmptyPanel
    /\ authority' = IF intent THEN authority ELSE "standalone"
    /\ ~clearing
    /\ UNCHANGED <<intent, localStores, modeRead, switchVars, imports, clearing, otherPage>>

\* Every refresh of the status shows the loading state instead of the panel.
HidesPanel ==
    /\ migrationPanel # ClosedPanel
    /\ migrationPanel' = ClosedPanel
    /\ UNCHANGED <<intent, authority, localStores, modeRead, switchVars, imports,
                  clearing, otherPage>>

CapturesSnapshot ==
    /\ migrationPanel.at = "empty"
    /\ migrationPanel' = Panel("preparing", localData, 0)
    /\ UNCHANGED <<intent, authority, localStores, modeRead, switchVars, imports,
                  clearing, otherPage>>

\* The preview fails, or offers the snapshot with or without blocking conflicts.
PreviewAnswered ==
    /\ migrationPanel.at = "preparing"
    /\ migrationPanel' \in {EmptyPanel, Panel("blocked", migrationPanel.snapshot, 0),
                   Panel("planned", migrationPanel.snapshot, 0)}
    /\ UNCHANGED <<intent, authority, localStores, modeRead, switchVars, imports,
                  clearing, otherPage>>

CancelsPlan ==
    /\ migrationPanel.at \in {"planned", "blocked"}
    /\ migrationPanel' = EmptyPanel
    /\ UNCHANGED <<intent, authority, localStores, modeRead, switchVars, imports,
                  clearing, otherPage>>

ConfirmsMigration ==
    /\ migrationPanel.at = "planned"
    /\ \E i \in ImportIds :
         /\ imports[i] = Unstarted /\ \A j \in 1..(i - 1) : imports[j] # Unstarted
         /\ imports' = [imports EXCEPT ![i] = [at |-> "begin", snapshot |-> migrationPanel.snapshot]]
         /\ migrationPanel' = Panel("importing", migrationPanel.snapshot, i)
    /\ UNCHANGED <<intent, authority, localStores, modeRead, switchVars, clearing, otherPage>>

\* The click handler's end, when the panel it started in is still mounted.
PanelAfter(i, at) ==
    IF migrationPanel.run = i
      THEN IF at = "complete" THEN Panel("complete", NoSnapshot, 0)
                              ELSE Panel("planned", migrationPanel.snapshot, 0)
      ELSE migrationPanel

\* A write that meets the barrier throws: the workflow ends where it is.
Thrown(i) ==
    /\ imports' = [imports EXCEPT ![i].at = "ended"]
    /\ migrationPanel' = PanelAfter(i, "failed")
    /\ UNCHANGED <<authority, checkpoint, imported>>

BeginsMigration(i) ==
    /\ imports[i].at = "begin"
    /\ IF clearing
         THEN Thrown(i)
         ELSE /\ authority' = "migration"
              /\ imports' = [imports EXCEPT ![i].at = "request"]
              /\ UNCHANGED <<checkpoint, imported, migrationPanel>>
    /\ UNCHANGED <<intent, localData, modeRead, switchVars, clearing, otherPage>>

\* The mutant takes an import that was rolled back for a committed one.
AfterAnyImport(answer) == IF answer = "error" THEN "return" ELSE "checkpoint"

\* What the workflow does with the answer: only a committed import goes on.
AfterImport(answer) == IF answer = "committed" THEN "checkpoint" ELSE "return"

\* The request is lost, refused or rolled back, commits, or commits and its answer is lost.
ImportAnswered(i) ==
    /\ imports[i].at = "request"
    /\ \E answer \in {"error", "rolled_back", "committed"}, commits \in BOOLEAN :
         /\ answer = "committed" => commits
         /\ answer = "rolled_back" => ~commits
         /\ imported' = IF commits THEN imported \union {imports[i].snapshot} ELSE imported
         /\ imports' = [imports EXCEPT ![i].at = AfterImport(answer)]
    /\ UNCHANGED <<intent, authority, checkpoint, localData, modeRead, switchVars,
                  migrationPanel, clearing, otherPage>>

SavesCheckpoint(i) ==
    /\ imports[i].at = "checkpoint"
    /\ IF clearing
         THEN Thrown(i) /\ UNCHANGED overtaken
         ELSE /\ checkpoint' = imports[i].snapshot
              /\ overtaken' = FALSE
              /\ imports' = [imports EXCEPT ![i].at = "switch"]
              /\ UNCHANGED <<authority, imported, migrationPanel>>
    /\ UNCHANGED <<intent, localData, modeRead, switchVars, clearing, otherWipes>>

SwitchesAuthority(i) ==
    /\ imports[i].at = "switch"
    /\ IF clearing
         THEN Thrown(i)
         ELSE /\ authority' = "ops"
              /\ imports' = [imports EXCEPT ![i].at = "ended"]
              /\ migrationPanel' = PanelAfter(i, "complete")
              /\ UNCHANGED <<checkpoint, imported>>
    /\ UNCHANGED <<intent, localData, modeRead, switchVars, clearing, otherPage>>

ReturnsToStandalone(i) ==
    /\ imports[i].at = "return"
    /\ IF clearing
         THEN Thrown(i)
         ELSE /\ authority' = "standalone"
              /\ imports' = [imports EXCEPT ![i].at = "ended"]
              /\ migrationPanel' = PanelAfter(i, "failed")
              /\ UNCHANGED <<checkpoint, imported>>
    /\ UNCHANGED <<intent, localData, modeRead, switchVars, clearing, otherPage>>

-----------------------------------------------------------------------------
(* Deleting all data, and the settings page going away in the middle.  The *)
(* barrier is a variable of the page that deletes: it stops this page's    *)
(* writes when this page deletes, and nobody when another one does.        *)

ClearsLocalData ==
    /\ ~clearing /\ localData < MaxLocalChanges
    /\ clearing' = TRUE
    /\ authority' = "standalone"
    /\ checkpoint' = NoSnapshot
    /\ localData' = localData + 1
    /\ UNCHANGED <<intent, imported, modeRead, switchVars, migrationPanel, imports, otherPage>>

\* Another options page empties Dexie, then clears the settings.  It may be closed
\* in between; then the settings stay.
AnotherPageClears ==
    /\ ~otherWipes /\ localData < MaxLocalChanges
    /\ otherWipes' = TRUE
    /\ authority' = "standalone"
    /\ checkpoint' = NoSnapshot
    /\ localData' = localData + 1
    /\ overtaken' = (overtaken \/ \E i \in ImportIds : imports[i].at = "switch")
    /\ UNCHANGED <<intent, imported, modeRead, switchVars, migrationPanel, imports, clearing>>

AnotherPageRestores ==
    /\ otherWipes
    /\ otherWipes' = FALSE
    /\ intent' \in {intent, FALSE}
    /\ UNCHANGED <<authority, localStores, modeRead, switchVars, migrationPanel, imports,
                  clearing, overtaken>>

\* What waits for a local write of this page runs on, and fails, before the reset is over.
WritesPending ==
    \/ toggle.at \in {"intent", "standalone", "repair"}
    \/ \E i \in ImportIds : imports[i].at \in {"begin", "checkpoint", "switch", "return"}

RestoresDefaults ==
    /\ clearing /\ ~WritesPending
    /\ intent' = FALSE
    /\ clearing' = FALSE
    /\ UNCHANGED <<authority, localStores, modeRead, switchVars, migrationPanel,
                  imports, otherPage>>

\* The page is closed: every workflow of it stops where it is; reopened, it reads the intent.
ReopensSettings ==
    /\ toggle' = ToggleIdle
    /\ known' = intent
    /\ migrationPanel' = ClosedPanel
    /\ imports' = [i \in ImportIds |->
           IF imports[i] = Unstarted THEN Unstarted ELSE [imports[i] EXCEPT !.at = "ended"]]
    /\ clearing' = FALSE
    /\ UNCHANGED <<intent, authority, localStores, modeRead, toggles, otherPage>>

AuthorityNext ==
    \/ \E p \in Readers : ReadsIntent(p) \/ ReadsAuthority(p) \/ RepairsAuthority(p)
                            \/ MutatesLocally(p)
    \/ ClicksSwitch \/ SavesIntent \/ ClearsAuthority \/ ToggleReadsMode \/ FinishesToggle
    \/ ShowsPanel \/ HidesPanel \/ CapturesSnapshot \/ PreviewAnswered \/ CancelsPlan
    \/ ConfirmsMigration
    \/ \E i \in ImportIds : BeginsMigration(i) \/ ImportAnswered(i) \/ SavesCheckpoint(i)
                              \/ SwitchesAuthority(i) \/ ReturnsToStandalone(i)
    \/ ClearsLocalData \/ RestoresDefaults \/ ReopensSettings
    \/ AnotherPageClears \/ AnotherPageRestores

-----------------------------------------------------------------------------
\* SQLite is canonical only after the companion committed an import, and the
\* checkpoint beside it is of a committed one, whatever repairs, toggles, resets,
\* closed pages and lost answers come between the steps of confirmMigration.  The one
\* exception: a deletion by another page came between a migration's last two writes,
\* which its barrier does not hold up; then there is no checkpoint at all.
OpsFollowsImport ==
    authority = "ops" =>
        /\ imported # {}
        /\ checkpoint \in imported \/ (overtaken /\ checkpoint = NoSnapshot)
=============================================================================
