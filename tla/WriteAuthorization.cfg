SPECIFICATION Spec
CONSTANTS
    Auths = {a1, a2, a3}
    Scopes = {s1}
    Keys = {k1, k2}
    Contexts = {x1, x2}
    Endpoints = {e1}
    Cards = {c1, c2}
    Ops = {o1, o2}
    Null = null
SYMMETRY Symmetry
INVARIANTS
    OneLivePerTarget
    DecisionHasItsCard
CHECK_DEADLOCK FALSE
