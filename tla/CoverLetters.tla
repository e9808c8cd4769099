----------------------------- MODULE CoverLetters -----------------------------
(***************************************************************************)
(* companion/app/api/letters.py and CoverLetterRepository over the tables  *)
(* cover_letters and letter_versions, for one application.  A handler      *)
(* looks for the newest letter of the application, reads what it needs,    *)
(* and then writes in one transaction: the guarded UPDATE of the letter    *)
(* and the INSERT of a version.  "Editors" are the requests.               *)
(***************************************************************************)
EXTENDS Naturals, Sequences, FiniteSets, SequencesExt

CONSTANTS
    Editors,      \* concurrent requests
    Texts,        \* bodies of letters that pass the local validation
    NoText,       \* NULL
    MaxLetters,   \* bound: letters of the application
    MaxVersions   \* bound: versions of all letters

ASSUME LettersAssumptions ==
    /\ NoText \notin Texts
    /\ MaxLetters \in Nat /\ MaxVersions \in Nat

VARIABLES
    letters,   \* cover_letters with their versions, in the order of their insertion
    newest,    \* the letter with the greatest created_at, 0 when there is none
    editor     \* one record per request

lettersVars == <<letters, newest, editor>>

Sources == {"generated", "imported"}

Types == Sources \cup {"user_draft", "final", "sent"}

Version == [type : Types, text : Texts]

\* versions is letter_versions in the order of rowid, which nobody updates
Letter == [generated : Texts \cup {NoText}, sent_text : Texts \cup {NoText}, is_final : BOOLEAN,
           revision : Nat \ {0}, versions : Seq(Version)]

NewLetter == [generated |-> NoText, sent_text |-> NoText, is_final |-> FALSE, revision |-> 1,
              versions |-> <<>>]

\* type, text and expected are the body of the request, expected 0 for none;
\* letter is the one _append found, and row that letter as it was read.
Editor == [pc : {"idle", "append", "insert", "update"}, type : Types,
           text : Texts \cup {NoText}, expected : Nat, letter : Nat, row : Letter]

NewEditor == [pc |-> "idle", type |-> "final", text |-> NoText, expected |-> 0, letter |-> 0,
              row |-> NewLetter]

LettersInit ==
    /\ letters = <<>>
    /\ newest = 0
    /\ editor = [e \in Editors |-> NewEditor]

EditorAt(e, point) == editor[e].pc = point

AnswerEditor(e) == editor' = [editor EXCEPT ![e] = NewEditor]

HasType(letter, types) == \E i \in DOMAIN letter.versions : letter.versions[i].type \in types

\* bound: no request starts when the history could outgrow it
EditorArrives(e) ==
    /\ EditorAt(e, "idle")
    /\ FoldFunction(LAMBDA l, n : n + Len(l.versions), 0, letters)
         + Cardinality({d \in Editors : ~ EditorAt(d, "idle")}) < MaxVersions

-----------------------------------------------------------------------------
\* generate_letter, import_bridge_response, final_letter and edit_letter hand a
\* text that passed their validation to _append; only the first two may leave
\* the expected revision out.
StartEdit(e) ==
    /\ EditorArrives(e)
    /\ \E type \in Types \ {"sent"}, text \in Texts, expected \in 0 .. MaxVersions + 1 :
         /\ expected = 0 => type \in Sources
         /\ expected > 0 => expected <= IF newest = 0 THEN 1 ELSE letters[newest].revision
         /\ editor' = [editor EXCEPT ![e] = [NewEditor EXCEPT
                         !.pc = "append", !.type = type, !.text = text, !.expected = expected]]
    /\ UNCHANGED <<letters, newest>>

\* sent_letter: the newest letter must have a generated or imported version.
StartSent(e) ==
    /\ EditorArrives(e)
    /\ newest # 0 /\ HasType(letters[newest], Sources)
    /\ \E text \in Texts, expected \in 1 .. letters[newest].revision :
         editor' = [editor EXCEPT ![e] = [NewEditor EXCEPT
                      !.pc = "append", !.type = "sent", !.text = text, !.expected = expected]]
    /\ UNCHANGED <<letters, newest>>

\* _append and the reads of add_version: the newest letter, which need not be
\* the one sent_letter has checked, and whether it was sent.
AppendReads(e) ==
    /\ EditorAt(e, "append")
    /\ newest # 0
    /\ IF HasType(letters[newest], {"sent"}) THEN AnswerEditor(e)
       ELSE editor' = [editor EXCEPT ![e].pc = "update", ![e].letter = newest,
                         ![e].row = letters[newest],
                         ![e].expected = IF @ = 0 THEN letters[newest].revision ELSE @]
    /\ UNCHANGED <<letters, newest>>

AppendFindsNone(e) ==
    /\ EditorAt(e, "append")
    /\ newest = 0
    /\ editor' = [editor EXCEPT ![e].pc = "insert"]
    /\ UNCHANGED <<letters, newest>>

\* What the UPDATE sets, from the row as it was read, and the new version.
WithVersion(row, type, text, old) ==
    [generated |-> IF type \in Sources /\ row.generated = NoText THEN text ELSE row.generated,
     sent_text |-> IF type = "sent" THEN text ELSE row.sent_text,
     is_final |-> type \in {"final", "sent"} \/ row.is_final,
     revision |-> old.revision + 1,
     versions |-> Append(old.versions, [type |-> type, text |-> text])]

\* The letter and its first version are inserted in one transaction, which an
\* expected revision other than 1 rolls back.  application_id is not UNIQUE;
\* created_at counts seconds, so another letter of this second may sort last.
InsertLetter(e) ==
    /\ EditorAt(e, "insert")
    /\ IF editor[e].expected \in {0, 1}
       THEN /\ Len(letters) < MaxLetters
            /\ letters' = Append(letters, WithVersion(NewLetter, editor[e].type, editor[e].text,
                                                      NewLetter))
            /\ newest' \in {Len(letters) + 1} \cup (IF newest = 0 THEN {} ELSE {newest})
       ELSE UNCHANGED <<letters, newest>>
    /\ AnswerEditor(e)

\* Mutant: the UPDATE forgets AND revision = expected_revision.
UpdateLetterBlind(e) ==
    LET l == editor[e].letter IN
    /\ EditorAt(e, "update")
    /\ letters' = [letters EXCEPT ![l] = WithVersion(editor[e].row, editor[e].type,
                                                     editor[e].text, @)]
    /\ AnswerEditor(e)
    /\ UNCHANGED newest

\* UPDATE ... WHERE revision = expected_revision, the version and the commit; no
\* row updated is a rollback.
UpdateLetter(e) ==
    LET l == editor[e].letter IN
    /\ EditorAt(e, "update")
    /\ letters' = IF letters[l].revision = editor[e].expected
                  THEN [letters EXCEPT ![l] = WithVersion(editor[e].row, editor[e].type,
                                                          editor[e].text, @)]
                  ELSE letters
    /\ AnswerEditor(e)
    /\ UNCHANGED newest

LettersNext ==
    \E e \in Editors :
        \/ StartEdit(e) \/ StartSent(e)
        \/ AppendReads(e) \/ AppendFindsNone(e)
        \/ InsertLetter(e) \/ UpdateLetter(e)

LettersSpec == LettersInit /\ [][LettersNext]_lettersVars

-----------------------------------------------------------------------------
\* Properties.

LettersTypeOK ==
    /\ letters \in Seq(Letter) /\ Len(letters) <= MaxLetters
    /\ newest \in 0 .. Len(letters)
    /\ editor \in [Editors -> Editor]

\* The projection of a letter agrees with its append-only versions, although
\* each of its columns was computed from a row read before the transaction: the
\* revision counts them, generated_text is the first generated or imported one
\* and never another, sent_text is the sent one, is_final that one was made.
FollowsVersions(letter) ==
    /\ letter.generated = NoText => ~ HasType(letter, Sources)
    /\ letter.generated # NoText =>
         \E i \in DOMAIN letter.versions :
           /\ letter.versions[i].type \in Sources /\ letter.versions[i].text = letter.generated
           /\ \A j \in 1 .. i - 1 : letter.versions[j].type \notin Sources
    /\ letter.sent_text = NoText => ~ HasType(letter, {"sent"})
    /\ letter.sent_text # NoText =>
         \E i \in DOMAIN letter.versions :
           letter.versions[i] = [type |-> "sent", text |-> letter.sent_text]
    /\ letter.is_final <=> HasType(letter, {"final", "sent"})

\* A letter that was sent is closed: its sent version is the last one, whoever
\* was editing it at the time.
SentIsLast(letter) ==
    \A i \in DOMAIN letter.versions : letter.versions[i].type = "sent" => i = Len(letter.versions)

\* The revision of a letter counts its versions, and the first letter of the
\* application and its versions tell one story, which the sending closes.
LettersOnRecord ==
    /\ LettersTypeOK
    /\ \A l \in DOMAIN letters : letters[l].revision = 1 + Len(letters[l].versions)
    /\ letters # <<>> => FollowsVersions(letters[1]) /\ SentIsLast(letters[1])

\* "Raises ValueError if the latest version is already sent (immutable)"
\* (add_version).  Not of a second letter: a request that waits with the
\* revision of the first one may find it equal to that of the second.
SentIsImmutable == \A l \in DOMAIN letters : SentIsLast(letters[l])
=============================================================================
