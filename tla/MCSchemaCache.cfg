SPECIFICATION Spec
CONSTANTS
    Tasks = {t1, t2}
    Connections = {c1, c2}
    NumOptions = 2
    FirstOptions <- AllFirst
    Bare <- BareOnes
    DocOption = 1
    MaxVersion = 1
    None = None
SYMMETRY Symmetry
INVARIANTS
    OldestKeyIsStalest
    CheckedAnswerIsCurrent
