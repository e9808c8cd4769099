----------------------------- MODULE MCStandalone -----------------------------
(* The evaluation of a vacancy without a companion, part by part: the        *)
(* request that is reviewed and sent, the panels that pay for it and share   *)
(* its result, the answer to it and the rule-based score.  They share no     *)
(* state; each behaviour is one of one part, chosen by its initial state.    *)
EXTENDS MCStandaloneAI, ProviderPlan, AnalysisOutput, Scoring

VARIABLE part

Parts == {"plan", "panels", "output", "scoring"}

\* Vacancy and profile with and without the optional fields.
Base == [f \in {"title", "company", "skills", "summary"} |-> {"text"}]
MCSources ==
    {Base @@ [f \in fields |-> c] :
        fields \in SUBSET {"salary", "city", "description", "highlights"},
        c \in {{"text"}, Content}}

\* Answers in order, and with one or two fields out of order.
InOrder == [fitScore |-> Number(80), recommendation |-> Text("apply"),
            confidence |-> Text("high"), fitReasons |-> List(<<"reason">>),
            riskFlags |-> List({[code |-> "low_signal", severity |-> "low"]}),
            missingSkills |-> List(<<>>), questionsForHR |-> Text("question")]
OutOfOrder ==
    [fitScore |-> {Number(101), Number(-1), NumericText(42), Text(""), Text("high"), Absent},
     recommendation |-> {Text("reject"), Absent},
     confidence |-> {Text("very_low"), Text("sure"), Absent},
     fitReasons |-> {Text(""), Absent},
     riskFlags |-> {List({[code |-> "none", severity |-> "high"], [code |-> "salary_unknown", severity |-> "odd"],
                           [code |-> "odd", severity |-> "high"]}), List({}), Absent},
     missingSkills |-> {Number(1)}, questionsForHR |-> {Absent}]
MCAnswers ==
    {[json |-> j, answer |-> InOrder] : j \in {"none", "broken", "array"}}
    \cup {[json |-> "object", answer |-> InOrder]}
    \cup UNION {{[json |-> "object", answer |-> [InOrder EXCEPT ![f] = x, ![g] = y]] :
                    x \in OutOfOrder[f], y \in OutOfOrder[g]} : f, g \in DOMAIN OutOfOrder}

Plain == [hasTitles |-> TRUE, mustHave |-> 3, niceToHave |-> 2, years |-> 4, seniority |-> "none",
          modes |-> {"remote"}, hasCities |-> TRUE, salary |-> 100, weights |-> <<>>]
MCProfiles == <<Plain,
                [Plain EXCEPT !.mustHave = 0, !.niceToHave = 0, !.years = None, !.seniority = "lead",
                              !.hasCities = FALSE, !.hasTitles = FALSE, !.modes = {}],
                [Plain EXCEPT !.years = None, !.salary = None, !.weights = [salaryFit |-> 60]],
                [Plain EXCEPT !.weights = [titleMatch |-> 40, mustHaveSkills |-> 40, salaryFit |-> 51]]>>
Ideal == [overlap |-> 100, mustHave |-> 3, niceToHave |-> 2, years |-> 3, mode |-> "remote",
          city |-> "preferred", salaryMin |-> 100, salaryMax |-> None,
          length |-> 300, says |-> {}]
Poor == [overlap |-> 0, mustHave |-> 1, niceToHave |-> 0, years |-> 9, mode |-> "office",
         city |-> "other", salaryMin |-> None, salaryMax |-> 99,
         length |-> 50, says |-> {"relocation", "suspicious"}]
Fair == [Ideal EXCEPT !.overlap = 50, !.mustHave = 2, !.niceToHave = 1, !.salaryMin = 80]
Unclear == [Poor EXCEPT !.overlap = 70, !.mustHave = 3, !.mode = "unknown", !.city = "unknown",
                        !.years = None, !.salaryMax = None, !.says = {"agency"}]
MCVacancies == {Ideal, Fair, Unclear, Poor}
MCFieldValues ==
    [overlap |-> {None, 30, 50, 70, 100}, mustHave |-> 0..3, niceToHave |-> {1, 2},
     years |-> {None, 0, 2, 6, 7}, mode |-> {"unknown", "remote", "office"},
     city |-> {"unknown", "preferred", "other"}, salaryMin |-> {None, 80, 100},
     salaryMax |-> {None, 60, 99, 120}, length |-> {50, 150, 300},
     says |-> {{}, {"agency", "employer"}, {"agency", "test", "unpaid"}, {"relocation"}}]

\* A part that is not chosen has one initial state.
StandaloneInit ==
    /\ part \in Parts
    /\ Init
    /\ PlanInit /\ (part = "plan" \/ \A setting \in DOMAIN privacy : privacy[setting])
    /\ OutputInit
    /\ ScoringInit /\ (part = "scoring" \/ vacancy = Ideal)

StandaloneNext ==
    \/ /\ part = "plan" /\ PlanNext
       /\ UNCHANGED <<part, vars, outputVars, scoringVars>>
    \/ /\ part = "panels" /\ Next
       /\ UNCHANGED <<part, planVars, outputVars, scoringVars>>
    \/ /\ part = "output" /\ OutputNext
       /\ UNCHANGED <<part, vars, planVars, scoringVars>>
    \/ /\ part = "scoring" /\ ScoringNext
       /\ UNCHANGED <<part, vars, planVars, outputVars>>

StandaloneSpec ==
    StandaloneInit
    /\ [][StandaloneNext]_<<part, vars, planVars, outputVars, scoringVars>>
=============================================================================
