SPECIFICATION Spec
CONSTANTS
    k1 = k1
    k2 = k2
    k3 = k3
    k4 = k4
    Procs = {p1, p2}
    Keys <- MCKeys
    KeyGroups <- MCKeyGroups
    NoKey = NoKey
    capacity = 2
    MaxCalls = 5
SYMMETRY Symmetry
\* The bound on calls ends every behaviour.
CHECK_DEADLOCK FALSE
INVARIANT
    PutStaysPossible
