SPECIFICATION Spec
SYMMETRY Symmetric
CONSTANTS
    s1 = s1
    s2 = s2
    s3 = s3
    Sessions = {s1, s2, s3}
    ElsewhereDir = {s3}
    Stages <- StagesOneTwoThree
    Scores = {0, 3, 5, 6}
    StrongTTL = 2
    WeakTTL = 1
    RefreshEvery = 2
    StaleAfter = 1
    MaxTime = 4
    MaxMoves = 1
INVARIANTS
    MatchIsBest
    SwitchFollowedSoon
PROPERTIES
    AnswersAreFresh
CHECK_DEADLOCK FALSE
