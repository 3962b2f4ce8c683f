\* Three runs of the command with two tokens.
SPECIFICATION ESpec
CONSTANTS
    Runs = {e1, e2, e3}
    Tokens = {t1, t2}
    Empty = Empty
    Torn = Torn
    Nobody = Nobody
SYMMETRY Symmetry
CHECK_DEADLOCK FALSE
INVARIANTS
    WholeOrAbsent
    OwnerOnly
    AnswersAreTrue
PROPERTIES
    OnlyForceReplaces
