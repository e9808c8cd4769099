------------------------------- MODULE Profiles -------------------------------
(***************************************************************************)
(* Profiles, resumes and the rows that refer to them.  The options page    *)
(* (ProfileManager.tsx, ResumeManager.tsx) saves and deletes them, the     *)
(* side panel (ProfileTab.tsx, score-recompute.ts, CoverLetterStudio.tsx,  *)
(* hr-timeline-sync.ts) writes rows that refer to them.  A deletion is a   *)
(* loop of single puts with no transaction and no revision: any handler    *)
(* may run between two of them, and the page may be closed midway.  One    *)
(* vacancy, with one row in each table, stands for all.                    *)
(***************************************************************************)
EXTENDS Integers, Sequences

CONSTANTS
    ProfileIds, ResumeIds,
    Nothing,          \* an undefined reference
    MaxClicks         \* bound on the handlers a button starts

ASSUME ProfilesAssumption ==
    /\ ProfileIds \cap ResumeIds = {}
    /\ Nothing \notin ProfileIds \cup ResumeIds

VARIABLES
    profiles,         \* ids in db.profiles
    owner,            \* resume id -> its profile, Nothing when it is not in db.resumes
    mainResumes,      \* resumes with isDefault
    refs,             \* table -> the profile and the resume its row refers to
    defaultProfile,   \* settings.general.defaultProfileId
    manager,          \* the mounted section of the options page, and what it has loaded
    removal,          \* id -> its handleDelete
    submit,           \* handleSubmit of the mounted form
    tabShows,         \* what the side panel has loaded
    pending,          \* rows the panel has computed and not yet put
    late,             \* tables whose row was put by a writer that a deletion overtook
    takenAlong,       \* resumes deleted with their profile
    clicks

linkVars == <<profiles, owner, mainResumes, refs, defaultProfile>>
managerVars == <<manager, removal, submit>>
tabVars == <<tabShows, pending>>
profileVars == <<linkVars, managerVars, tabVars, late, takenAlong, clicks>>

Ids == ProfileIds \cup ResumeIds
Tables == {"job", "letter", "application"}
\* The tables handleDelete sweeps, in its order: steps 2, 3 and 4 of a profile's deletion.
SweptAt == [step \in 2..4 |-> <<"job", "letter", "application">>[step - 1]]
FieldOf(id) == IF id \in ProfileIds THEN "profile" ELSE "resume"
Ref(p, r) == [profile |-> p, resume |-> r]
Unlinked == Ref(Nothing, Nothing)
StoredResumes == {r \in ResumeIds : owner[r] # Nothing}

\* A deletion: its step, what it has listed for it and not yet handled, whether the id was the
\* page's default when the button was pressed, whether its section is still mounted.
NoDeletion == [at |-> 0, listed |-> {}, wasDefault |-> FALSE, mounted |-> FALSE]
NoSubmit == [at |-> "idle", id |-> Nothing, owner |-> Nothing, main |-> FALSE, others |-> {},
             mounted |-> FALSE]
Mounting(section) == [section |-> section, screen |-> "loading", profiles |-> {},
                      owner |-> [r \in ResumeIds |-> Nothing], default |-> Nothing]
PanelOf(lists, job, letter) == [profiles |-> lists.profiles, owner |-> lists.owner,
                                job |-> job, letter |-> letter]
Lists == [profiles |-> profiles, owner |-> owner]

ProfilesInit ==
    /\ profiles = ProfileIds
    /\ \E p \in ProfileIds : owner = [r \in ResumeIds |-> p]
    /\ mainResumes \in {{}, ResumeIds}
    /\ \E p \in ProfileIds, r \in ResumeIds :
          refs \in [Tables -> {Unlinked, Ref(p, r)}]
    /\ defaultProfile \in ProfileIds
    /\ manager \in {Mounting(s) : s \in {"profiles", "resumes"}}
    /\ removal = [id \in Ids |-> NoDeletion]
    /\ submit = NoSubmit
    /\ tabShows = PanelOf(Lists, refs["job"], refs["letter"])
    /\ pending = {} /\ late = {} /\ takenAlong = {} /\ clicks = 0

Clicks == clicks < MaxClicks /\ clicks' = clicks + 1

-----------------------------------------------------------------------------
(* Puts.  A row is put whole, as its writer has seen it and changed it.     *)

Live(id) ==
    \/ id = Nothing
    \/ id \in profiles /\ removal[id].at = 0
    \/ /\ id \in StoredResumes /\ removal[id].at = 0
       /\ owner[id] \notin ProfileIds \/ removal[owner[id]].at = 0

Overtaken(table, row, seen) ==
    /\ \E f \in DOMAIN row : ~Live(row[f])
    /\ \/ table \in late
       \/ seen # refs[table]
       \/ \E f \in DOMAIN row : row[f] # refs[table][f] /\ ~Live(row[f])

PutRow(table, row, seen) ==
    /\ refs' = [refs EXCEPT ![table] = row]
    /\ late' = IF Overtaken(table, row, seen) THEN late \cup {table} ELSE late \ {table}

-----------------------------------------------------------------------------
(* The options page.                                                        *)

\* Only one section is mounted; the handlers of the one left go on.
OpenSection(s) ==
    /\ s # manager.section /\ s \in {"profiles", "resumes"}
    /\ manager' = Mounting(s)
    /\ removal' = [id \in Ids |-> [removal[id] EXCEPT !.mounted = FALSE]]
    /\ submit' = [submit EXCEPT !.mounted = FALSE]
    /\ UNCHANGED <<linkVars, tabVars, late, takenAlong, clicks>>

\* load(), on mount, after a handler and on Retry.
Load ==
    /\ manager.screen = "loading"
    /\ manager' = [manager EXCEPT !.screen = "list", !.profiles = profiles, !.owner = owner,
                                  !.default = defaultProfile]
    /\ UNCHANGED <<linkVars, removal, submit, tabVars, late, takenAlong, clicks>>

\* The page is closed: nothing of its handlers is left to run.
CloseOptions ==
    /\ manager' = [Mounting("none") EXCEPT !.screen = "closed"]
    /\ removal' = [id \in Ids |-> NoDeletion]
    /\ submit' = NoSubmit
    /\ UNCHANGED <<linkVars, tabVars, late, takenAlong, clicks>>

Retry ==
    /\ manager.screen = "error"
    /\ manager' = [manager EXCEPT !.screen = "loading"]
    /\ UNCHANGED <<linkVars, removal, submit, tabVars, late, takenAlong, clicks>>

HandleSetDefault(p) ==
    /\ manager.screen = "list" /\ manager.section = "profiles"
    /\ p \in manager.profiles /\ p # manager.default
    /\ defaultProfile' = p
    /\ manager' = [manager EXCEPT !.default = p]
    /\ Clicks
    /\ UNCHANGED <<profiles, owner, mainResumes, refs, removal, submit, tabVars, late,
                   takenAlong>>

\* The delete button is never disabled; one deletion of an id at a time is followed.
HandleDelete(id) ==
    /\ manager.screen = "list" /\ removal[id].at = 0
    /\ \/ manager.section = "profiles" /\ id \in manager.profiles
       \/ manager.section = "resumes" /\ id \in ResumeIds /\ manager.owner[id] # Nothing
    /\ removal' = [removal EXCEPT ![id] =
           [at |-> IF id \in ProfileIds THEN 1 ELSE 2, listed |-> {},
            wasDefault |-> id = manager.default, mounted |-> TRUE]]
    /\ Clicks
    /\ UNCHANGED <<linkVars, manager, submit, tabVars, late, takenAlong>>

Reached(id, step) == removal[id].at = step
Goes(id, step) == [removal EXCEPT ![id].at = step, ![id].listed = {}]

\* 1. The linked resumes of a profile, listed once and deleted one by one.
DeleteLinkedResumes(p) ==
    /\ Reached(p, 1)
    /\ \/ /\ removal[p].listed = {}
          /\ LET linked == {r \in ResumeIds : owner[r] = p}
             IN  removal' = IF linked = {} THEN Goes(p, 2)
                             ELSE [removal EXCEPT ![p].listed = linked]
          /\ UNCHANGED <<owner, mainResumes, takenAlong>>
       \/ \E r \in removal[p].listed :
             /\ owner' = [owner EXCEPT ![r] = Nothing]
             /\ mainResumes' = mainResumes \ {r}
             /\ takenAlong' = takenAlong \cup {r}
             /\ removal' = IF removal[p].listed = {r} THEN Goes(p, 2)
                            ELSE [removal EXCEPT ![p].listed = @ \ {r}]
    /\ UNCHANGED <<profiles, refs, defaultProfile, manager, submit, tabVars, late, clicks>>

\* 2. to 4. A table is listed, and the row put again, as listed, without the reference.
SweepTable(id) ==
    \E step \in DOMAIN SweptAt :
        LET table == SweptAt[step]
            field == FieldOf(id)
            listed == removal[id].listed
        IN  /\ Reached(id, step)
            /\ \/ /\ listed = {} /\ refs[table][field] = id
                  /\ removal' = [removal EXCEPT ![id].listed = {refs[table]}]
                  /\ UNCHANGED <<refs, late>>
               \/ /\ listed = {} /\ refs[table][field] # id
                  /\ removal' = Goes(id, step + 1)
                  /\ UNCHANGED <<refs, late>>
               \/ \E seen \in listed :
                  /\ PutRow(table, [seen EXCEPT ![field] = Nothing], seen)
                  /\ removal' = Goes(id, step + 1)
            /\ UNCHANGED <<profiles, owner, mainResumes, defaultProfile, manager, submit,
                           tabVars, takenAlong, clicks>>

\* The mutant deletes the row before the references to it are cleared.
DeletesRowFirst(id) ==
    Reached(id, 2) /\ removal[id].listed = {} /\ id \in profiles \cup StoredResumes

DeletesRow(id) == Reached(id, 5)

DeleteRow(id) ==
    /\ DeletesRow(id)
    /\ profiles' = profiles \ {id}
    /\ owner' = [r \in ResumeIds |-> IF r = id THEN Nothing ELSE owner[r]]
    /\ mainResumes' = mainResumes \ {id}
    /\ takenAlong' = takenAlong \ {id}
    /\ removal' = [removal EXCEPT ![id].at = 6]
    /\ UNCHANGED <<refs, defaultProfile, manager, submit, tabVars, late, clicks>>

\* 6. The default is cleared if it was this one when the button was pressed; then load().
DeletionEnds(id) ==
    /\ Reached(id, 6)
    /\ defaultProfile' = IF removal[id].wasDefault THEN Nothing ELSE defaultProfile
    /\ manager' = IF removal[id].mounted THEN [manager EXCEPT !.screen = "loading"] ELSE manager
    /\ removal' = [removal EXCEPT ![id] = NoDeletion]
    /\ UNCHANGED <<profiles, owner, mainResumes, refs, submit, tabVars, late, takenAlong,
                   clicks>>

\* A database call is refused: the handler shows the error and leaves the rest undone.
DeletionFails(id) ==
    /\ removal[id].at > 0
    /\ manager' = IF removal[id].mounted THEN [manager EXCEPT !.screen = "error"] ELSE manager
    /\ removal' = [removal EXCEPT ![id] = NoDeletion]
    /\ UNCHANGED <<linkVars, submit, tabVars, late, takenAlong, clicks>>

\* The form of a listed row, submitted: the page's copy is put again, deleted or not.
HandleSubmitProfile(p) ==
    /\ manager.screen = "list" /\ manager.section = "profiles" /\ p \in manager.profiles
    /\ submit.at = "idle"
    /\ submit' = [NoSubmit EXCEPT !.at = "save", !.id = p, !.mounted = TRUE]
    /\ Clicks
    /\ UNCHANGED <<linkVars, manager, removal, tabVars, late, takenAlong>>

HandleSubmitResume(r, p, main) ==
    /\ manager.screen = "list" /\ manager.section = "resumes" /\ submit.at = "idle"
    /\ p \in manager.profiles /\ manager.owner[r] # Nothing
    /\ submit' = [at |-> IF main THEN "list" ELSE "save", id |-> r, owner |-> p,
                  main |-> main, others |-> {}, mounted |-> TRUE]
    /\ Clicks
    /\ UNCHANGED <<linkVars, manager, removal, tabVars, late, takenAlong>>

ListOtherResumes ==
    /\ submit.at = "list"
    /\ submit' = [submit EXCEPT !.at = "save",
           !.others = {r \in mainResumes \ {submit.id} : owner[r] = submit.owner}]
    /\ UNCHANGED <<linkVars, manager, removal, tabVars, late, takenAlong, clicks>>

\* A resume of the list is put again without the mark, even if it was deleted meanwhile.
UnsetOtherResume ==
    /\ submit.at = "save"
    /\ \E r \in submit.others :
          /\ owner' = [owner EXCEPT ![r] = submit.owner]
          /\ mainResumes' = mainResumes \ {r}
          /\ takenAlong' = takenAlong \ {r}
          /\ submit' = [submit EXCEPT !.others = @ \ {r}]
    /\ UNCHANGED <<profiles, refs, defaultProfile, manager, removal, tabVars, late, clicks>>

SubmitSaves ==
    /\ submit.at = "save" /\ submit.others = {}
    /\ IF submit.id \in ProfileIds
         THEN profiles' = profiles \cup {submit.id} /\ UNCHANGED <<owner, mainResumes, takenAlong>>
         ELSE /\ owner' = [owner EXCEPT ![submit.id] = submit.owner]
              /\ mainResumes' = IF submit.main THEN mainResumes \cup {submit.id}
                                               ELSE mainResumes \ {submit.id}
              /\ takenAlong' = takenAlong \ {submit.id}
              /\ UNCHANGED profiles
    /\ manager' = IF submit.mounted THEN [manager EXCEPT !.screen = "loading"] ELSE manager
    /\ submit' = NoSubmit
    /\ UNCHANGED <<refs, defaultProfile, removal, tabVars, late, clicks>>

-----------------------------------------------------------------------------
(* The side panel.                                                          *)

\* The tab loads its lists when it is mounted; the context brings the vacancy's row.
OpenPanelTab ==
    /\ tabShows' = PanelOf(Lists, tabShows.job, refs["letter"])
    /\ UNCHANGED <<linkVars, managerVars, pending, late, takenAlong, clicks>>

RefreshContext ==
    /\ tabShows' = [tabShows EXCEPT !.job = refs["job"]]
    /\ UNCHANGED <<linkVars, managerVars, pending, late, takenAlong, clicks>>

\* The row of the context is put with the choice; recomputeScoreForJob follows.
SelectProfile(p) ==
    /\ p \in tabShows.profiles
    /\ PutRow("job", Ref(p, Nothing), tabShows.job)
    /\ pending' = pending \cup {[table |-> "score", row |-> Ref(p, Nothing), seen |-> Unlinked]}
    /\ Clicks
    /\ UNCHANGED <<profiles, owner, mainResumes, defaultProfile, managerVars, tabShows, takenAlong>>

SelectResume(r) ==
    /\ tabShows.owner[r] # Nothing /\ tabShows.owner[r] = tabShows.job.profile
    /\ PutRow("job", Ref(tabShows.job.profile, r), tabShows.job)
    /\ Clicks
    /\ UNCHANGED <<profiles, owner, mainResumes, defaultProfile, managerVars, tabVars,
                   takenAlong>>

HandleSetDefaultProfile(p) ==
    /\ p \in tabShows.profiles
    /\ defaultProfile' = p
    /\ Clicks
    /\ UNCHANGED <<profiles, owner, mainResumes, refs, managerVars, tabVars, late, takenAlong>>

\* resolveProfile: the one asked for, the default one, or the first of the list.
Resolved(p) ==
    IF p \in profiles THEN {p}
    ELSE IF defaultProfile \in profiles THEN {defaultProfile}
    ELSE profiles

RecomputeReads(w) ==
    /\ w \in pending /\ w.table = "score"
    /\ LET row(p) == [refs["job"] EXCEPT !.profile = p]
           put(p) == [table |-> "job", row |-> row(p), seen |-> refs["job"]]
       IN  \/ Resolved(w.row.profile) = {} /\ pending' = pending \ {w}
           \/ \E p \in Resolved(w.row.profile) : pending' = (pending \ {w}) \cup {put(p)}
    /\ UNCHANGED <<linkVars, managerVars, tabShows, late, takenAlong, clicks>>

\* The letter found for the context's profile is put again, or a new one with its references.
HandleSaveLetter ==
    LET found == tabShows.letter.profile = tabShows.job.profile
    IN  /\ tabShows.job.profile # Nothing
        /\ found \/ refs["letter"].profile = Nothing
        /\ PutRow("letter", IF found THEN tabShows.letter ELSE tabShows.job,
               IF found THEN tabShows.letter ELSE refs["letter"])
        /\ Clicks
        /\ UNCHANGED <<profiles, owner, mainResumes, defaultProfile, managerVars, tabVars,
                       takenAlong>>

\* ensureApplicationForJob: what the vacancy refers to, else what the application did.
SyncReads ==
    /\ LET prefer(f) == IF tabShows.job[f] # Nothing THEN tabShows.job[f]
                       ELSE refs["application"][f]
       IN  pending' = pending \cup
               {[table |-> "application", row |-> [f \in DOMAIN Unlinked |-> prefer(f)],
                 seen |-> refs["application"]]}
    /\ Clicks
    /\ UNCHANGED <<linkVars, managerVars, tabShows, late, takenAlong>>

PutPending(w) ==
    /\ w \in pending /\ w.table \in Tables
    /\ PutRow(w.table, w.row, w.seen)
    /\ pending' = pending \ {w}
    /\ UNCHANGED <<profiles, owner, mainResumes, defaultProfile, managerVars, tabShows, takenAlong,
                   clicks>>

-----------------------------------------------------------------------------
ProfilesNext ==
    \/ \E s \in {"profiles", "resumes"} : OpenSection(s)
    \/ Load \/ CloseOptions \/ Retry
    \/ \E p \in ProfileIds :
          \/ HandleSetDefault(p) \/ DeleteLinkedResumes(p) \/ HandleSubmitProfile(p)
          \/ SelectProfile(p) \/ HandleSetDefaultProfile(p)
    \/ \E id \in Ids :
          \/ HandleDelete(id) \/ SweepTable(id) \/ DeleteRow(id)
          \/ DeletionEnds(id) \/ DeletionFails(id)
    \/ \E r \in ResumeIds :
          \/ SelectResume(r)
          \/ \E p \in ProfileIds, main \in BOOLEAN : HandleSubmitResume(r, p, main)
    \/ ListOtherResumes \/ UnsetOtherResume \/ SubmitSaves
    \/ OpenPanelTab \/ RefreshContext \/ HandleSaveLetter \/ SyncReads
    \/ \E w \in pending : RecomputeReads(w) \/ PutPending(w)

-----------------------------------------------------------------------------
(* What a row refers to is still there, at every step of a deletion, also   *)
(* of one whose page is closed or whose next call fails: the references go  *)
(* before the row they name, in three tables, put by put.  Excepted are the *)
(* rows a writer put that the deletion had overtaken, and a resume removed  *)
(* with its profile, whose references are left (handleDelete, step 1).      *)
ReferencesResolve ==
    \A t \in Tables \ late :
        /\ refs[t].profile \in profiles \cup {Nothing}
        /\ refs[t].resume \in StoredResumes \cup takenAlong \cup {Nothing}
=============================================================================
