CONSTANTS
    Handles = {block, other}
    Block = block
    Worker = worker
    Contents = {good}
    Failed = failed
    Clients = {k1, k2}
    UserClient = mine
    RetryAttempts = 2
    MaxVersion = 2
    MaxCalls = 2
    None = None
SPECIFICATION Spec
INVARIANTS
    AppliedAtMostOnce
    FlagIsTrue
    LockIsKept
    ClientsAreHeld
PROPERTIES
    NoLostUpdate
    AnswersAreTrue
