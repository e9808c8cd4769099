------------------------------- MODULE Scoring -------------------------------
(***************************************************************************)
(* The rule-based score of a vacancy for a profile, and its recomputation. *)
(* Eight components add up to the score, penalties are taken off, caps     *)
(* bound it, and the verdict is read from the result.                      *)
(*                                                                         *)
(* A vacancy is what the components read of it: the share of words its     *)
(* title has in common with the best target title (100 is only the title   *)
(* itself), the number of the profile's skills it names, the years it      *)
(* asks for, work mode and city, salary, the length of the description and   *)
(* what it mentions.  None is a value that is not there.                   *)
(***************************************************************************)
EXTENDS Integers, Sequences, FiniteSets

None == -1

CONSTANTS
    ScoreProfiles,      \* the profiles, a function from their ids
    StartVacancies,     \* the vacancies as first parsed
    FieldValues,        \* field -> the values a later parse may find
    MaxEdits            \* bound: fields that differ from the first parse

Counts == Nat \cup {None}

\* The values of what is read of a vacancy, and of a profile.  Salaries and years
\* are not negative; weights are whole points, as the default ones are.
FieldTypes ==
    [overlap |-> (0..100) \cup {None}, mustHave |-> Nat, niceToHave |-> Nat, years |-> Counts,
     mode |-> STRING, city |-> STRING, salaryMin |-> Counts, salaryMax |-> Counts,
     length |-> Nat, says |-> SUBSET STRING]

ProfileTypes ==
    [hasTitles |-> BOOLEAN, mustHave |-> Nat, niceToHave |-> Nat, years |-> Counts,
     seniority |-> STRING, modes |-> SUBSET {"remote", "hybrid", "office"},
     hasCities |-> BOOLEAN, salary |-> Counts]

ASSUME ScoringAssumption ==
    /\ \A v \in StartVacancies :
          DOMAIN v = DOMAIN FieldTypes /\ \A f \in DOMAIN FieldTypes : v[f] \in FieldTypes[f]
    /\ DOMAIN FieldValues \subseteq DOMAIN FieldTypes
    /\ \A f \in DOMAIN FieldValues : FieldValues[f] \subseteq FieldTypes[f]
    /\ DOMAIN ScoreProfiles = 1 .. Len(ScoreProfiles)
    /\ \A id \in DOMAIN ScoreProfiles :
          /\ \A f \in DOMAIN ProfileTypes : ScoreProfiles[id][f] \in ProfileTypes[f]
          /\ \A c \in DOMAIN ScoreProfiles[id].weights : ScoreProfiles[id].weights[c] \in Int

Round(n, d) == (2 * n + d) \div (2 * d)
Share(weight, percent) == Round(weight * percent, 100)
Clamp(n, low, high) == IF n < low THEN low ELSE IF n > high THEN high ELSE n

DefaultWeights ==
    [titleMatch |-> 20, mustHaveSkills |-> 25, niceToHaveSkills |-> 10, experienceFit |-> 15,
     workModeLocation |-> 10, salaryFit |-> 10, companyPreference |-> 5,
     languageScheduleMisc |-> 5]

Flag(code, severity) == {<<code, severity>>}
Result(score, flags) == [score |-> score, flags |-> flags]

-----------------------------------------------------------------------------
(* The components.                                                         *)

ScoreTitleMatch(v, p, weight) ==
    Result(IF ~ p.hasTitles THEN Share(weight, 50)
           ELSE CASE v.overlap = 100 -> weight
                  [] v.overlap \in 70..99 -> Share(weight, 80)
                  [] v.overlap \in 40..69 -> Share(weight, 50)
                  [] v.overlap \in 1..39  -> Share(weight, 25)
                  [] OTHER                -> 0, {})

ScoreMustHaveSkills(v, p, weight) ==
    IF p.mustHave = 0 THEN Result(Share(weight, 50), {})
    ELSE Result(Round(weight * v.mustHave, p.mustHave),
                IF 2 * (p.mustHave - v.mustHave) >= p.mustHave
                THEN Flag("missing_core_skill", "high") ELSE {})

ScoreNiceToHaveSkills(v, p, weight) ==
    Result(IF p.niceToHave = 0 THEN Share(weight, 50)
           ELSE Round(weight * v.niceToHave, p.niceToHave), {})

SeniorityYears == [junior |-> 1, middle |-> 3, senior |-> 6, lead |-> 9, principal |-> 12]

ResolveExperienceYears(p) ==
    IF p.years # None THEN p.years
    ELSE IF p.seniority \in DOMAIN SeniorityYears THEN SeniorityYears[p.seniority] ELSE None

ScoreExperienceFit(v, p, weight) ==
    LET have == ResolveExperienceYears(p)
        gap == v.years - have
        ratio == Clamp(Round(1000 * have, IF v.years > 1 THEN v.years ELSE 1), 100, 500)
    IN  IF v.years = None \/ have = None THEN Result(Share(weight, 50), {})
        ELSE CASE gap <= 0 -> Result(weight, IF have >= 2 * v.years /\ v.years > 0
                                        THEN Flag("overqualified", "low") ELSE {})
               [] gap \in 1..2 -> Result(Share(weight, 70), {})
               [] gap > 2 -> Result(Round(weight * ratio, 1000),
                               Flag("underqualified", IF gap >= 4 THEN "high" ELSE "medium"))

ScoreWorkModeLocation(v, p, weight) ==
    LET modeWeight == IF p.hasCities THEN Share(weight, 60) ELSE weight
        cityWeight == weight - modeWeight
        neutral == p.modes = {} \/ v.mode = "unknown"
        mode == IF neutral THEN Share(modeWeight, 50)
                ELSE IF v.mode \in p.modes THEN modeWeight ELSE 0
        city == CASE ~ p.hasCities \/ v.city = "unknown" -> Share(cityWeight, 50)
                  [] v.city = "preferred" -> cityWeight
                  [] OTHER -> 0
    IN  Result(Clamp(mode + city, 0, weight),
               IF ~ neutral /\ v.mode \notin p.modes
               THEN Flag("work_mode_mismatch", "medium") ELSE {})

LowestSalary(v) == IF v.salaryMin = None THEN 0 ELSE v.salaryMin
HighestSalary(v) == IF v.salaryMax = None THEN LowestSalary(v) ELSE v.salaryMax
SalaryKnown(v) == v.salaryMin # None \/ v.salaryMax # None

ScoreSalaryFit(v, p, weight) ==
    LET wanted == p.salary IN
    CASE ~ SalaryKnown(v) -> Result(Share(weight, 50), Flag("salary_unknown", "info"))
      [] SalaryKnown(v) /\ wanted = None -> Result(Share(weight, 50), {})
      [] SalaryKnown(v) /\ wanted # None /\ HighestSalary(v) < wanted ->
            Result(Clamp(Round(weight * HighestSalary(v), wanted), 0, weight),
                   Flag("salary_below_minimum", "medium"))
      [] OTHER -> Result(IF LowestSalary(v) < wanted THEN Share(weight, 70) ELSE weight, {})

NoCompany == "undefined"

ScoreCompanyPreference(company, weight) ==
    CASE company = NoCompany   -> Result(Share(weight, 80), {})
      [] company = "blacklist" -> Result(0, Flag("company_blacklist", "critical"))
      [] company = "greylist"  -> Result(Share(weight, 30), Flag("company_blacklist", "low"))
      [] OTHER                 -> Result(weight, {})

ScoreLanguageScheduleMisc(v, weight) ==
    LET Off(condition, percent) == IF condition THEN Share(weight, percent) ELSE 0
        Raise(condition, code, severity) == IF condition THEN Flag(code, severity) ELSE {}
        vague == v.length < 100
        says == v.says
    IN  Result(Clamp(weight - Off("relocation" \in says, 20) - Off(vague, 15)
                            - Off(~ vague /\ v.length < 250, 5)
                            - Off("suspicious" \in says, 30), 0, weight),
               Raise("relocation" \in says, "relocation_required", "low")
               \cup Raise(vague, "vague_description", "low")
               \cup Raise("agency" \in says /\ "employer" \notin says,
                          "agency_without_employer", "low")
               \cup Raise({"test", "unpaid"} \subseteq says, "unpaid_test_task_risk", "medium")
               \cup Raise("suspicious" \in says, "suspicious_wording", "medium"))

-----------------------------------------------------------------------------
(* Penalties, caps, verdict.                                               *)

\* A mutant that takes nothing off for a low salary.
PenaltyForgotten(flags) == IF <<"vague_description", "low">> \in flags THEN 5 ELSE 0

Penalty(flags) ==
    (IF <<"salary_below_minimum", "medium">> \in flags THEN 15 ELSE 0)
    + (IF <<"suspicious_wording", "medium">> \in flags THEN 15 ELSE 0)
    + (IF <<"vague_description", "low">> \in flags THEN 5 ELSE 0)

\* A mutant that looks for a severity no mismatch has.
CapRulesForHigh ==
    [f \in {<<"company_blacklist", "critical">>, <<"work_mode_mismatch", "high">>,
            <<"missing_core_skill", "high">>} |->
        CASE f[1] = "company_blacklist" -> 40
          [] f[1] = "work_mode_mismatch" -> 65
          [] f[1] = "missing_core_skill" -> 70]

CapRules ==
    [f \in {<<"company_blacklist", "critical">>, <<"work_mode_mismatch", "medium">>,
            <<"missing_core_skill", "high">>} |->
        CASE f[1] = "company_blacklist" -> 40
          [] f[1] = "work_mode_mismatch" -> 65
          [] f[1] = "missing_core_skill" -> 70]

ApplyCaps(total, flags) ==
    LET caps == {CapRules[f] : f \in flags \cap DOMAIN CapRules}
    IN  CHOOSE n \in {total} \cup caps : \A c \in {total} \cup caps : n <= c

DetermineRecommendation(total, flags) ==
    CASE \E f \in flags : f[2] = "critical" -> "skip"
      [] OTHER -> IF total >= 85 THEN "apply" ELSE IF total >= 50 THEN "consider" ELSE "skip"

\* Weights of the profile replace the default ones.
WeightsOf(p) ==
    [c \in DOMAIN DefaultWeights |->
        IF c \in DOMAIN p.weights THEN p.weights[c] ELSE DefaultWeights[c]]

ScoreJob(v, p, company) ==
    LET w == WeightsOf(p)
        parts == <<ScoreTitleMatch(v, p, w.titleMatch),
                   ScoreMustHaveSkills(v, p, w.mustHaveSkills),
                   ScoreNiceToHaveSkills(v, p, w.niceToHaveSkills),
                   ScoreExperienceFit(v, p, w.experienceFit),
                   ScoreWorkModeLocation(v, p, w.workModeLocation),
                   ScoreSalaryFit(v, p, w.salaryFit),
                   ScoreCompanyPreference(company, w.companyPreference),
                   ScoreLanguageScheduleMisc(v, w.languageScheduleMisc)>>
        flags == UNION {parts[i].flags : i \in DOMAIN parts}
        sum == parts[1].score + parts[2].score + parts[3].score + parts[4].score
               + parts[5].score + parts[6].score + parts[7].score + parts[8].score
        total == ApplyCaps(Clamp(sum - Penalty(flags), 0, 100), flags)
    IN  [total |-> total, recommendation |-> DetermineRecommendation(total, flags),
         flags |-> flags]

-----------------------------------------------------------------------------
(* Recomputation, whenever a vacancy is saved or a profile is selected.    *)

VARIABLES vacancy,      \* as parsed last
          firstParse,   \* as parsed first
          kept,         \* the profiles that exist
          ruleScore     \* the stored score, with the profile it was computed for

scoringVars == <<vacancy, firstParse, kept, ruleScore>>

NoScore == [profile |-> 0, result |-> <<>>]

\* The explicit profile, then the default one, then the first: the ids are
\* listed, and the default is the last of them.
ResolveProfile(explicit) ==
    IF explicit \in kept THEN explicit
    ELSE IF Len(ScoreProfiles) \in kept THEN Len(ScoreProfiles)
    ELSE CHOOSE i \in kept : \A j \in kept : i <= j

\* Without a profile the stored score stays as it is.  scoreJob is given no company,
\* here as in every other call: what it would say of a blacklisted one is not stored.
RecomputeScore(v, explicit) ==
    IF kept = {} THEN ruleScore
    ELSE LET id == ResolveProfile(explicit)
         IN  [profile |-> id, result |-> ScoreJob(v, ScoreProfiles[id], NoCompany)]

ScoringInit ==
    /\ firstParse \in StartVacancies
    /\ vacancy = firstParse
    /\ kept = DOMAIN ScoreProfiles
    /\ ruleScore = NoScore

SaveVacancy ==
    \E f \in DOMAIN FieldValues : \E value \in FieldValues[f] :
      LET parsed == [vacancy EXCEPT ![f] = value] IN
      /\ Cardinality({g \in DOMAIN parsed : parsed[g] # firstParse[g]}) <= MaxEdits
      /\ vacancy' = parsed
      /\ ruleScore' = RecomputeScore(parsed, ruleScore.profile)
      /\ UNCHANGED <<firstParse, kept>>

SelectProfile ==
    \E id \in kept :
      /\ ruleScore' = RecomputeScore(vacancy, id)
      /\ UNCHANGED <<vacancy, firstParse, kept>>

DeleteProfile ==
    \E id \in kept : kept' = kept \ {id} /\ UNCHANGED <<vacancy, firstParse, ruleScore>>

ScoringNext == SaveVacancy \/ SelectProfile \/ DeleteProfile

-----------------------------------------------------------------------------
(* Properties.                                                             *)

Place(list, x) == CHOOSE i \in DOMAIN list : list[i] = x

\* Which vacancy is the better one for p, as far as one field tells; a value
\* that is not known cannot be compared.
NoWorse(p, f, new, old) ==
    CASE f \in {"overlap", "mustHave", "niceToHave", "length"} -> new[f] >= old[f]
      [] f = "years"   -> new.years # None /\ old.years # None /\ new.years <= old.years
      [] f = "mode"    -> new.mode \in p.modes \/ new.mode = old.mode
      [] f = "city"    -> new.city = "preferred" \/ new.city = old.city
      [] f = "says"    -> new.says \subseteq old.says
      [] OTHER         -> /\ SalaryKnown(new) /\ SalaryKnown(old)
                          /\ LowestSalary(new) >= LowestSalary(old)
                          /\ HighestSalary(new) >= HighestSalary(old)

Better(p, new, old) == \A f \in DOMAIN new : new[f] = old[f] \/ NoWorse(p, f, new, old)

\* Weights that take no points away, and at most 51 points for the salary: of 52,
\* what a salary just short of the wish keeps after the penalty of 15 is more than
\* the 70 percent for one that covers it in part.
Modest(p) ==
    (\A c \in DOMAIN DefaultWeights : WeightsOf(p)[c] >= 0) /\ WeightsOf(p).salaryFit <= 51

\* Under the default weights, and all others that are modest, a vacancy that improves
\* for the profile in any aspect never loses points or a verdict, although bands,
\* rounding, penalties and caps meet: a salary just short of the wish scores more in
\* its own band than one that covers it in part, and only the penalty makes up for
\* it.
BetterNeverScoresLess ==
    [][ /\ ruleScore.profile \in kept /\ ruleScore'.profile = ruleScore.profile
        /\ ruleScore.profile \in DOMAIN ScoreProfiles
        /\ Modest(ScoreProfiles[ruleScore.profile])
        /\ vacancy' # vacancy
        /\ Better(ScoreProfiles[ruleScore.profile], vacancy', vacancy)
        => LET old == ruleScore.result
               new == ruleScore'.result
               verdicts == <<"skip", "consider", "apply">>
           IN  /\ new.total >= old.total
               /\ Place(verdicts, new.recommendation) >= Place(verdicts, old.recommendation)
      ]_scoringVars

\* Neither a wrong work mode nor missing core skills can end in "apply", whatever
\* else speaks for the vacancy and whatever the weights are, and a score lies in
\* 0..100.  Of the company a stored verdict says nothing.
VerdictHeedsFlags ==
    ruleScore # NoScore =>
      LET r == ruleScore.result IN
      /\ r.total \in 0..100
      /\ r.recommendation = "apply" =>
           r.flags \cap {<<"work_mode_mismatch", "medium">>, <<"missing_core_skill", "high">>} = {}
=============================================================================
