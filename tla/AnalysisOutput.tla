--------------------------- MODULE AnalysisOutput ---------------------------
(***************************************************************************)
(* What becomes of a provider's answer to a vacancy analysis: the JSON is  *)
(* taken out of the text, each field is validated, an answer with any      *)
(* error is replaced by a fallback, and the result is normalised once more *)
(* before it is stored and shown.  The built-in mock provider answers by a *)
(* formula of its own.                                                     *)
(*                                                                         *)
(* A field is a value with the JSON type it has; Absent is undefined.      *)
(***************************************************************************)
EXTENDS Integers, Sequences

Absent == [type |-> "absent", value |-> ""]
Number(n) == [type |-> "number", value |-> n]
Text(v) == [type |-> "text", value |-> v]
NumericText(n) == [type |-> "numeric", value |-> n]
List(items) == [type |-> "list", value |-> items]

Recommendations == {"apply", "consider", "skip"}
Confidences == {"low", "medium", "high"}
Severities == {"info", "low", "medium", "high", "critical"}
RiskCodes == {"salary_unknown", "low_signal"}      \* the known ones, two of fifteen

\* The fields an answer may have.
AnswerFields == {"fitScore", "recommendation", "confidence", "fitReasons", "riskFlags",
                 "missingSkills", "questionsForHR"}

-----------------------------------------------------------------------------
(* Coercion.  Each result is the value and whether it was in order.        *)

Fine(v) == [value |-> v, ok |-> TRUE]
Wrong(v) == [value |-> v, ok |-> FALSE]

\* What Number() makes of a field: an empty or blank text reads as 0.
IsBlank(field) == field.type = "text" /\ field.value = ""
ReadsAsNumber(field) == field.type \in {"number", "numeric"} \/ IsBlank(field)
Reading(field) == IF IsBlank(field) THEN 0 ELSE field.value

\* A score outside 0..100 is clamped, and is an error.
CoerceNumber(field) ==
    IF ~ ReadsAsNumber(field) THEN Wrong(0)
    ELSE IF Reading(field) < 0 THEN Wrong(0)
    ELSE IF Reading(field) > 100 THEN Wrong(100)
    ELSE Fine(Reading(field))

CoerceRecommendation(field) ==
    IF field.type = "text" /\ field.value \in Recommendations THEN Fine(field.value)
    ELSE Wrong("consider")

\* A text that contains a level passes for it, the lowest level first.
Includes == [medium_high |-> "medium", very_low |-> "low"]
CoerceConfidence(field) ==
    IF field.type = "text" /\ field.value \in Confidences THEN Fine(field.value)
    ELSE IF field.type = "text" /\ field.value \in DOMAIN Includes THEN Fine(Includes[field.value])
    ELSE Wrong("low")

\* A single text passes for a list of one.
CoerceStringArray(field) ==
    CASE field.type = "list" -> Fine(field.value)
      [] field.type = "text" -> Fine(IF field.value = "" THEN <<>> ELSE <<field.value>>)
      [] OTHER               -> Wrong(<<>>)

CoerceSeverity(severity) == IF severity \in Severities THEN severity ELSE "info"

\* Flags are repaired without an error: one without a code is a low signal.
\* Only a missing list is an error.  Their order is left out.
CodeOf(item) == IF item.code = "none" THEN "low_signal" ELSE item.code
CoerceRiskFlags(field) ==
    IF field.type # "list" THEN Wrong({})
    ELSE Fine({[code |-> CodeOf(item), severity |-> CoerceSeverity(item.severity)] :
                  item \in field.value})

-----------------------------------------------------------------------------
(* A raw answer is a text; its JSON is an object, something else, broken,  *)
(* or not there at all.                                                    *)

Lists == {"fitReasons", "missingSkills", "questionsForHR"}

Coerced(answer) ==
    [f \in AnswerFields |->
        CASE f = "fitScore"       -> CoerceNumber(answer[f])
          [] f = "recommendation" -> CoerceRecommendation(answer[f])
          [] f = "confidence"     -> CoerceConfidence(answer[f])
          [] f = "riskFlags"      -> CoerceRiskFlags(answer[f])
          [] OTHER                -> CoerceStringArray(answer[f])]

Parses(raw) == raw.json = "object"

\* A mutant that accepts a repaired answer.
ValidOnceParsed(raw) == Parses(raw)

Valid(raw) == Parses(raw) /\ \A f \in AnswerFields : Coerced(raw.answer)[f].ok

FallbackAnalysis ==
    [fitScore |-> 0, recommendation |-> "consider", confidence |-> "low",
     fitReasons |-> <<"unparsed">>,
     riskFlags |-> {[code |-> "low_signal", severity |-> "info"]},
     missingSkills |-> <<>>, questionsForHR |-> <<>>]

AnalyzeVacancy(raw) ==
    IF Valid(raw) THEN [f \in AnswerFields |-> Coerced(raw.answer)[f].value]
    ELSE FallbackAnalysis

KnownFlag(flag) == flag.code \in RiskCodes /\ flag.severity \in Severities
\* Flags of an unknown code are dropped; everything else is checked again.
NormalizeAnalysisResult(analysis) ==
    [analysis EXCEPT
        !.fitScore = IF @ < 0 THEN 0 ELSE IF @ > 100 THEN 100 ELSE @,
        !.recommendation = IF @ \in Recommendations THEN @ ELSE "consider",
        !.confidence = IF @ \in Confidences THEN @ ELSE "low",
        !.riskFlags = {flag \in @ : KnownFlag(flag)}]

-----------------------------------------------------------------------------
(* The mock provider: matched skills of all skills of the vacancy.         *)

AtMost(a, b) == IF a < b THEN a ELSE b
AtLeast(a, b) == IF a > b THEN a ELSE b

\* The ratio of matched skills, as matched and total; 0 of 0 is 0.
Ratio45(matched, total) ==
    IF total = 0 THEN 0 ELSE (90 * matched + total) \div (2 * total)
ReachesPercent(matched, total, percent) == total > 0 /\ 100 * matched >= percent * total

MockAnalyze(matched, total, strict) ==
    LET recommendation == CASE ReachesPercent(matched, total, 70) -> "apply"
                            [] ReachesPercent(matched, total, 35) -> "consider"
                            [] OTHER                              -> "skip"
        base == CASE recommendation = "apply"    -> AtMost(90, 55 + Ratio45(matched, total))
                  [] recommendation = "consider" -> AtMost(70, 35 + Ratio45(matched, total))
                  [] OTHER                       -> AtLeast(15, 5 + Ratio45(matched, total))
    IN  [recommendation |-> recommendation,
         fitScore |-> IF strict THEN AtLeast(10, base - 5) ELSE base]

-----------------------------------------------------------------------------
CONSTANTS Answers,     \* raw answers: [json, answer]
          MaxSkills    \* bound: skills of a vacancy

\* What is of a numeric type is a number; of a fraction the code decides as of a whole number.
ASSUME AnswersAssumption ==
    /\ MaxSkills \in Nat
    /\ \A raw \in Answers :
          raw.answer["fitScore"].type \in {"number", "numeric"} =>
              raw.answer["fitScore"].value \in Int

VARIABLES answered, shown

outputVars == <<answered, shown>>

NoAnswer == [json |-> "none", answer |-> <<>>]
OutputInit == answered = NoAnswer /\ shown = FallbackAnalysis

\* The provider answers; what is shown is the normalised result.
ReceiveAnswer ==
    /\ answered = NoAnswer
    /\ \E raw \in Answers :
         /\ answered' = raw
         /\ shown' = NormalizeAnalysisResult(AnalyzeVacancy(raw))

ReceiveMockAnswer ==
    /\ answered = NoAnswer
    /\ \E total \in 0..MaxSkills, strict \in BOOLEAN : \E matched \in 0..total :
         LET mock == MockAnalyze(matched, total, strict) IN
         /\ answered' = [json |-> "mock", answer |-> <<matched, total>>]
         /\ shown' = NormalizeAnalysisResult(
                         [FallbackAnalysis EXCEPT !.fitScore = mock.fitScore,
                                                  !.recommendation = mock.recommendation])

OutputNext == ReceiveAnswer \/ ReceiveMockAnswer

\* The risks shown are those the answer names: none of a known code is lost, none
\* is invented, and a severity is the one given or info.
RisksAsNamed(named, flags) ==
    /\ \A item \in named : CodeOf(item) \in RiskCodes => \E flag \in flags : flag.code = CodeOf(item)
    /\ \A flag \in flags :
         \E item \in named : CodeOf(item) = flag.code /\ flag.severity \in {item.severity, "info"}

\* Whatever the provider answers, what is shown is either the fallback or the
\* answer as JavaScript reads it: a verdict put in place of a wrong one, a clamped
\* score and the 0 of a text that is no number never pass for the provider's, and
\* its risks are neither lost nor invented.  An empty text is the exception: it
\* reads as the score 0.  Where the mock answers, its three verdicts keep to bands
\* of scores that do not meet.
ShownIsAnswerOrFallback ==
    \/ shown = FallbackAnalysis
    \/ /\ answered.json = "object"
       /\ ReadsAsNumber(answered.answer["fitScore"])
       /\ shown.fitScore = Reading(answered.answer["fitScore"])
       /\ answered.answer["recommendation"].type = "text"
       /\ shown.recommendation = answered.answer["recommendation"].value
       /\ RisksAsNamed(answered.answer["riskFlags"].value, shown.riskFlags)
       /\ shown.fitScore \in 0..100
    \/ /\ answered.json = "mock"
       /\ shown.fitScore \in CASE shown.recommendation = "apply"    -> 77..90
                               [] shown.recommendation = "consider" -> 46..70
                               [] OTHER                             -> 10..21
=============================================================================
