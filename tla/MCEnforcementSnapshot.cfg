CONSTANTS
    a = a
    b = b
    Teams = {a, b}
    FirstTeam = a
    SavedBefore = {a, b}
    CacheDir = TRUE
    Callers = {c1}
    Nobody = Nobody
    MaxVersion = 1
    Budget <- SwitchOrRestart
SPECIFICATION Spec
INVARIANTS
    MapsMatchRules
    SnapshotIsOwners
    StopNeverMissed
