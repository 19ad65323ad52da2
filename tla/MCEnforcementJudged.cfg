CONSTANTS
    a = a
    b = b
    Teams = {a, b}
    FirstTeam = a
    SavedBefore = {}
    CacheDir = FALSE
    Callers = {c1, c2}
    Nobody = Nobody
    MaxVersion = 0
    Budget <- OneSwitch
SPECIFICATION Spec
INVARIANTS
    JudgedByOwnTeam
