SPECIFICATION Spec
CONSTANTS
    Requests = {r1}
    People = {h1, h2}
    Paths = {p1}
    Situations = {s1}
    Nil = nil
    MaxActivity = 3
CHECK_DEADLOCK FALSE
PROPERTIES
    OverwrittenAsShown
