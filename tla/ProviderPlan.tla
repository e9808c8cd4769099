---------------------------- MODULE ProviderPlan ----------------------------
(***************************************************************************)
(* What a standalone provider request contains.  An input is built from    *)
(* the vacancy, the profile and the resume under the privacy settings; the *)
(* preview shows the user that input; the plan applies the policy once     *)
(* more and compiles the messages that are sent.                           *)
(*                                                                         *)
(* The content of a field is the set of what occurs in it; an empty field  *)
(* is {}.  A setting is a Boolean; force stands for the two options that   *)
(* override strict privacy, which no caller uses.                          *)
(***************************************************************************)
EXTENDS Integers, FiniteSets

Kinds == {"vacancy_analysis", "cover_letter"}

Content == {"text", "email", "phone", "link", "token"}

AnalysisFields == {"title", "company", "salary", "city", "workMode", "experience",
                   "skills", "description", "summary", "targetTitles",
                   "mustHaveSkills", "niceToHaveSkills", "highlights"}
LetterFields == {"title", "company", "topRequirements", "skills", "summary", "highlights"}

PrivacySettings == [strict : BOOLEAN, highlights : BOOLEAN, description : BOOLEAN,
                    contacts : BOOLEAN]

\* A source maps the fields of vacancy, profile and resume to their content.
Field(source, f) == IF f \in DOMAIN source THEN source[f] ELSE {}

-----------------------------------------------------------------------------
(* Redaction: each pattern is replaced by a placeholder.                   *)

Redacted(c, patterns) == IF c = {} THEN {} ELSE (c \ patterns) \cup {"text"}

RedactContacts(c) == Redacted(c, {"email", "phone"})
RedactBase(c) == Redacted(c, {"link", "token"})

RedactProviderValue(c, settings) ==
    IF settings.contacts THEN RedactBase(RedactContacts(c)) ELSE RedactBase(c)

-----------------------------------------------------------------------------
(* The input that is built, and shown in the preview.                      *)

IncludesDescription(settings, force) ==
    IF settings.strict THEN force.description ELSE settings.description

\* A mutant that asks for the resume setting only.
IncludesHighlightsAlways(settings, force) == settings.highlights

IncludesHighlights(settings, force) ==
    settings.highlights /\ (settings.strict => force.highlights)

BuildVacancyAnalysisInput(source, settings, force) ==
    [f \in AnalysisFields |->
        IF \/ f = "description" /\ ~ IncludesDescription(settings, force)
           \/ f = "highlights" /\ ~ IncludesHighlights(settings, force)
        THEN {} ELSE RedactProviderValue(Field(source, f), settings)]

\* The skills the profile must have, or the first ones of the vacancy.
DeriveTopRequirements(source) == Field(source, "skills") \cup {"text"}

BuildCoverLetterInput(source, settings, force) ==
    [f \in LetterFields |->
        IF f = "highlights" /\ ~ IncludesHighlights(settings, force) THEN {}
        ELSE IF f = "topRequirements"
             THEN RedactProviderValue(DeriveTopRequirements(source), settings)
             ELSE RedactProviderValue(Field(source, f), settings)]

BuildInput(kind, source, settings, force) ==
    IF kind = "vacancy_analysis" THEN BuildVacancyAnalysisInput(source, settings, force)
    ELSE BuildCoverLetterInput(source, settings, force)

\* Required fields are listed even when they are empty.
VacancyAnalysisPreview(input) ==
    {f \in AnalysisFields :
        f \in {"salary", "city", "experience", "description", "highlights"} => input[f] # {}}

CoverLetterPreview(input) == {f \in LetterFields : f = "highlights" => input[f] # {}}

Preview(kind, input) == IF kind = "vacancy_analysis" THEN VacancyAnalysisPreview(input)
                        ELSE CoverLetterPreview(input)

-----------------------------------------------------------------------------
(* The plan that is sent.                                                  *)

AllowsResume(settings) == settings.highlights /\ ~ settings.strict
AllowsDescription(settings) == settings.description /\ ~ settings.strict

ApplyPolicyToInput(input, settings) ==
    [f \in DOMAIN input |->
        IF \/ f = "description" /\ ~ AllowsDescription(settings)
           \/ f = "highlights" /\ ~ AllowsResume(settings)
        THEN {} ELSE RedactProviderValue(input[f], settings)]

\* The user message spells out every field; a resume only when there is one.
AnalysisUserPrompt(input) == [f \in {g \in AnalysisFields : input[g] # {}} |-> input[f]]
CoverLetterUserPrompt(input) == [f \in {g \in LetterFields : input[g] # {}} |-> input[f]]

BuildProviderRequestPlan(kind, input, settings) ==
    LET safe == ApplyPolicyToInput(input, settings)
    IN  IF kind = "vacancy_analysis" THEN AnalysisUserPrompt(safe)
        ELSE CoverLetterUserPrompt(safe)

-----------------------------------------------------------------------------
(* A request under review.  The hash of a plan covers the messages and the *)
(* policy they were compiled under.                                        *)

CONSTANT Sources      \* vacancy, profile and resume: what each field contains

VARIABLES privacy,    \* the settings
          review      \* what is shown to the user, and what was sent

planVars == <<privacy, review>>

NoForce == [highlights |-> FALSE, description |-> FALSE]

NoReview == [stage |-> "none", kind |-> "cover_letter", source |-> <<>>, shown |-> {},
             plan |-> <<>>, sent |-> <<>>]

PlanInit == privacy \in PrivacySettings /\ review = NoReview

Plan(kind, source) ==
    BuildProviderRequestPlan(kind, BuildInput(kind, source, privacy, NoForce), privacy)

ProviderPlanHash(kind, source) == <<Plan(kind, source), privacy>>

ReviewRequest ==
    /\ review.stage = "none"
    /\ \E kind \in Kinds, source \in Sources :
         review' = [NoReview EXCEPT
             !.stage = "shown", !.kind = kind, !.source = source,
             !.shown = Preview(kind, BuildInput(kind, source, privacy, NoForce)),
             !.plan = ProviderPlanHash(kind, source)]
    /\ UNCHANGED privacy

\* The preview is cancelled, or closed by the sending.
ClosePreview == review.stage # "none" /\ review' = NoReview /\ UNCHANGED privacy

ChangePrivacy ==
    /\ \E setting \in DOMAIN privacy : privacy' = [privacy EXCEPT ![setting] = ~ @]
    /\ UNCHANGED review

\* What is sent was compiled anew and has the hash of what was reviewed.
SendRequest ==
    /\ review.stage = "shown"
    /\ ProviderPlanHash(review.kind, review.source) = review.plan
    /\ review' = [review EXCEPT !.stage = "sent", !.sent = Plan(review.kind, review.source)]
    /\ UNCHANGED privacy

PlanNext == ReviewRequest \/ ClosePreview \/ ChangePrivacy \/ SendRequest

\* The fields that are sent are those the preview showed, as far as they hold
\* anything; under strict privacy no description and no resume is sent; no
\* link, no token and, if the setting says so, no contact leaves the browser.
\* The preview and the plan are built by different code from the same settings.
OnlyReviewedIsSent ==
    review.stage = "sent" =>
      LET settings == review.plan[2]
          sent == DOMAIN review.sent IN
      /\ sent = {f \in review.shown : f = "topRequirements" \/ Field(review.source, f) # {}}
      /\ settings.strict => sent \cap {"description", "highlights"} = {}
      /\ \A f \in sent :
           review.sent[f] \cap ({"link", "token"} \cup
               (IF settings.contacts THEN {"email", "phone"} ELSE {})) = {}
=============================================================================
