---------------------------- MODULE LetterStudio ----------------------------
(***************************************************************************)
(* The cover letter studio of a side panel: a draft is loaded, edited or   *)
(* generated, checked against its constraints at every render, and saved   *)
(* as draft, final or sent letter.  The panel shows another vacancy when   *)
(* its tab does, without a new studio.                                     *)
(*                                                                         *)
(* A text is the set of what occurs in it, {} the empty text; constraints  *)
(* are the set of what must not occur.                                     *)
(***************************************************************************)
EXTENDS Integers, Sequences, FiniteSets

CONSTANTS
    Studios,       \* side panels, one in each window
    LetterJobs,    \* vacancies
    Texts,         \* what a user types or a provider answers
    MaxLetters, MaxVersions,   \* bounds: rows, and versions of each
    MaxPendingSaves,           \* bound: saves of a studio in progress
    MaxEditSteps               \* bound: edits, toggles and switches of vacancy

Restrictions == {"emoji", "markdown", "special", "long"}
Warnings == {"generic"}

VARIABLES letters,     \* the rows, in the order of their ids
          studio       \* studio -> its state

studioVars == <<letters, studio>>

DefaultConstraints == {"emoji", "markdown", "long"}
Unsaved == [id |-> 0, sent |-> {}, versions |-> 0]

-----------------------------------------------------------------------------
(* Validation.  The pattern for emoji remembers where its last match in a  *)
(* letter ended and goes on from there: it finds an emoji every other time.*)

FindsEmoji(text, afterMatch) == "emoji" \in text /\ ~ afterMatch

Blockers(text, constraints, afterMatch) ==
    IF text = {} THEN {"empty"}
    ELSE (text \cap (constraints \ {"emoji"}))
         \cup (IF "emoji" \in constraints /\ FindsEmoji(text, afterMatch) THEN {"emoji"} ELSE {})

HasWarnings(text) == text \cap Warnings # {}

\* The draft as it is rendered, with the checks of its text.
Rendered(st) ==
    [st EXCEPT
        !.blocked = Blockers(st.text, st.constraints, st.afterMatch) # {},
        !.afterMatch = IF st.text # {} /\ "emoji" \in st.constraints
                       THEN FindsEmoji(st.text, st.afterMatch) ELSE @]

\* What is stripped from a generated letter.  A letter that is cut at a word
\* gets an ellipsis, and is then too long by one character.
PostProcess(raw, constraints) ==
    LET clean == raw \ (constraints \cap {"emoji", "markdown"})
    IN  {clean} \cup (IF "long" \in constraints THEN {clean \ {"long"}} ELSE {})

-----------------------------------------------------------------------------

\* The first letter of a vacancy; a vacancy without one changes nothing.
MatchOf(job) ==
    {i \in DOMAIN letters : letters[i].job = job
                            /\ \A j \in 1..(i - 1) : letters[j].job # job}

ProvenanceOf(source, final, sent, edited) ==
    IF sent THEN "sent" ELSE IF final THEN "final"
    ELSE IF source = "ai" /\ ~ edited THEN "ai_generated" ELSE "edited"

StudioOn(job) ==
    [job |-> job, ready |-> FALSE, loading |-> TRUE, text |-> {}, source |-> "manual_edit",
     constraints |-> DefaultConstraints, existing |-> Unsaved, edited |-> FALSE, gate |-> FALSE,
     preparing |-> FALSE, prepared |-> {}, generating |-> {}, saving |-> <<>>, blocked |-> TRUE,
     afterMatch |-> FALSE, steps |-> 0]

StudioInit ==
    /\ letters = <<>>
    /\ studio \in [Studios -> {StudioOn(job) : job \in LetterJobs}]

Show(s, st) == studio' = [studio EXCEPT ![s] = Rendered(st)] /\ UNCHANGED letters

ShowOtherVacancy(s) ==
    \E job \in LetterJobs \ {studio[s].job} :
      /\ studio[s].steps < MaxEditSteps
      /\ Show(s, [studio[s] EXCEPT !.job = job, !.loading = TRUE, !.steps = @ + 1])

\* The database answers in the order it was asked: after a save in progress.
LoadLetter(s) ==
    LET st == studio[s]
        loaded == [st EXCEPT !.ready = TRUE, !.loading = FALSE] IN
    /\ st.loading /\ st.saving = <<>>
    /\ \/ MatchOf(st.job) = {} /\ Show(s, loaded)
       \/ \E i \in MatchOf(st.job) :
            Show(s, [loaded EXCEPT
                !.existing = [id |-> i, sent |-> letters[i].sent, versions |-> letters[i].versions],
                !.text = letters[i].text, !.constraints = letters[i].constraints,
                !.source = letters[i].source, !.edited = FALSE])

\* Anything may render the panel again.
RenderAgain(s) == studio[s].ready /\ Show(s, studio[s])

HandleTextChange(s) ==
    \E text \in Texts \cup {{}} :
      /\ studio[s].ready /\ studio[s].steps < MaxEditSteps
      /\ text # studio[s].text
      /\ Show(s, [studio[s] EXCEPT !.text = text, !.edited = TRUE, !.gate = FALSE,
                                   !.steps = @ + 1])

HandleConstraintToggle(s) ==
    \E key \in Restrictions :
      /\ studio[s].ready /\ studio[s].steps < MaxEditSteps
      /\ Show(s, [studio[s] EXCEPT !.prepared = {}, !.steps = @ + 1,
                    !.constraints = IF key \in @ THEN @ \ {key} ELSE @ \cup {key}])

HandleModeChange(s) ==
    /\ studio[s].ready /\ studio[s].steps < MaxEditSteps
    /\ Show(s, [studio[s] EXCEPT !.constraints = DefaultConstraints, !.prepared = {},
                                 !.steps = @ + 1])

-----------------------------------------------------------------------------
(* Generation: a request is prepared for review, then sent.  Only the      *)
(* buttons of the request are disabled meanwhile.                          *)

HandlePrepareAi(s) ==
    /\ studio[s].ready /\ ~ studio[s].preparing /\ studio[s].generating = {}
    /\ Show(s, [studio[s] EXCEPT !.preparing = TRUE])

Prepared(s) ==
    /\ studio[s].preparing
    /\ \E prepared \in {{}, {studio[s].constraints}} :       \* {}: it failed
         Show(s, [studio[s] EXCEPT !.preparing = FALSE, !.prepared = prepared])

HandleGenerateAi(s) ==
    /\ studio[s].generating = {} /\ studio[s].prepared # {}
    /\ Show(s, [studio[s] EXCEPT !.generating = studio[s].prepared])

\* The button "Cancel Preview".
CancelPreview(s) ==
    /\ studio[s].generating = {} /\ studio[s].prepared # {}
    /\ Show(s, [studio[s] EXCEPT !.prepared = {}])

Generated(s) ==
    LET back == [studio[s] EXCEPT !.generating = {}] IN
    /\ studio[s].generating # {}
    /\ \/ Show(s, back)                                       \* it failed
       \/ \E raw \in Texts, constraints \in studio[s].generating :
            \E text \in PostProcess(raw, constraints) :
              Show(s, [back EXCEPT !.prepared = {}, !.text = text, !.source = "ai",
                                   !.edited = FALSE])

-----------------------------------------------------------------------------
(* Saving.  The row is written whole, from the letter the studio knows.    *)

LetterOf(st, final, sent) ==
    [job |-> IF st.existing.id = 0 THEN st.job ELSE letters[st.existing.id].job,
     text |-> st.text, constraints |-> st.constraints, final |-> final,
     sent |-> IF sent THEN st.text ELSE st.existing.sent, source |-> st.source,
     provenance |-> ProvenanceOf(st.source, final, sent, st.edited),
     versions |-> st.existing.versions + 1]

HandleSave(s, final, sent) ==
    LET st == studio[s]
        letter == LetterOf(st, final, sent)
        id == IF st.existing.id = 0 THEN Len(letters) + 1 ELSE st.existing.id IN
    /\ letter.versions <= MaxVersions /\ id <= MaxLetters
    /\ Len(st.saving) < MaxPendingSaves
    /\ letters' = IF id > Len(letters) THEN Append(letters, letter)
                  ELSE [letters EXCEPT ![id] = letter]
    /\ studio' = [studio EXCEPT ![s] = Rendered([st EXCEPT
                    !.gate = IF final THEN FALSE ELSE @,
                    !.saving = Append(@, [id |-> id, sent |-> letter.sent,
                                          versions |-> letter.versions])])]

Saved(s) ==
    /\ studio[s].saving # <<>>
    /\ Show(s, [studio[s] EXCEPT !.existing = Head(studio[s].saving), !.saving = Tail(@)])

SaveDraft(s) ==
    /\ studio[s].ready /\ studio[s].saving = <<>> /\ studio[s].text # {}
    /\ HandleSave(s, FALSE, FALSE)

OpenReviewGate(s) ==
    /\ studio[s].ready /\ ~ studio[s].blocked
    /\ HasWarnings(studio[s].text) /\ ~ studio[s].gate
    /\ Show(s, [studio[s] EXCEPT !.gate = TRUE])

\* The buttons "sent" and "final", the second time if there are warnings.
SaveReviewed(s) ==
    LET st == studio[s] IN
    /\ st.ready /\ st.saving = <<>> /\ ~ st.blocked
    /\ HasWarnings(st.text) => st.gate
    /\ \E sent \in BOOLEAN : (sent => st.existing.sent = {}) /\ HandleSave(s, TRUE, sent)

\* A mutant that confirms a blocked letter.
ConfirmGateBlindly(s) == studio[s].ready /\ studio[s].gate /\ HandleSave(s, TRUE, FALSE)

\* The gate's own button does not wait for a save in progress.
ConfirmGate(s) ==
    studio[s].ready /\ studio[s].gate /\ ~ studio[s].blocked /\ HandleSave(s, TRUE, FALSE)

CloseGate(s) == studio[s].gate /\ Show(s, [studio[s] EXCEPT !.gate = FALSE])

StudioNext ==
    \E s \in Studios :
      \/ ShowOtherVacancy(s) \/ LoadLetter(s) \/ RenderAgain(s)
      \/ HandleTextChange(s) \/ HandleConstraintToggle(s) \/ HandleModeChange(s)
      \/ HandlePrepareAi(s) \/ Prepared(s) \/ HandleGenerateAi(s) \/ Generated(s)
      \/ CancelPreview(s)
      \/ SaveDraft(s) \/ OpenReviewGate(s) \/ SaveReviewed(s) \/ ConfirmGate(s)
      \/ CloseGate(s) \/ Saved(s)

-----------------------------------------------------------------------------
(* Properties.                                                             *)

\* A final letter keeps to the constraints stored with it, but for emoji, and
\* no such letter is empty, although generation, a loaded letter or another
\* mode may change text and constraints under an open review gate.
FinalKeepsConstraints ==
    \A i \in DOMAIN letters :
      letters[i].final => /\ letters[i].text # {}
                          /\ letters[i].text \cap letters[i].constraints \subseteq {"emoji"}
=============================================================================
