SPECIFICATION StandaloneSpec
CONSTANTS
    plain = plain
    redacted = redacted
    none = none
    again = again
    p1 = p1
    p2 = p2
    Panels = {p1, p2}
    NoPanel = NoPanel
    Plans = {plain, redacted}
    NoPlan = NoPlan
    InputOf <- MCInputOf
    Retries = {none}
    NoRetry = none
    Limit = 2
    Legacy = 1
    MaxDisturbances = 1
    Sources <- MCSources
    Answers <- MCAnswers
    MaxSkills = 12
    ScoreProfiles <- MCProfiles
    StartVacancies <- MCVacancies
    FieldValues <- MCFieldValues
    MaxEdits = 1
SYMMETRY Symmetry
INVARIANTS
    StandaloneOnRecord
    CompletedResultIsReachable
    OnlyReviewedIsSent
    ShownIsAnswerOrFallback
    VerdictHeedsFlags
PROPERTIES
    PanelsImplementSingleFlight
    BetterNeverScoresLess
CHECK_DEADLOCK FALSE
