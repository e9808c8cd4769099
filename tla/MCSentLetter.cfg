SPECIFICATION LettersSpec
CONSTANTS
    NoText = NoText
    Editors = {e1, e2}
    Texts = {text1}
    MaxLetters = 2
    MaxVersions = 5
INVARIANT
    SentIsImmutable
CHECK_DEADLOCK FALSE
