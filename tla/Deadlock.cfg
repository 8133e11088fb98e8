SPECIFICATION SpawnSpec
CONSTANTS
    Callers = {c1, c2}
    Lingers = TRUE
PROPERTY SpawnReturned
CHECK_DEADLOCK FALSE
