SPECIFICATION Spec
CONSTANTS
    Requests = {r1, r2}
    People = {h1, h2}
    Paths = {p1, p2}
    Situations = {s1, s2}
    Nil = nil
    MaxActivity = 4
CHECK_DEADLOCK FALSE
INVARIANTS
    TypeOK
    RowIsReplay
PROPERTIES
    StaleIsJudged
    AnswerFits
    PinKept
    OverwrittenAsRead
    AnsweredOrForgotten
