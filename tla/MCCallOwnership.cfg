CONSTANTS
    Runs = {r1, r2}
    Handlers = {h1, h2}
    Caller = caller
    Providers = {openai, anthropic}
    Serving = openai
    MaxDirect = 2
    None = None
SPECIFICATION Spec
SYMMETRY Symmetric
CHECK_DEADLOCK FALSE
INVARIANTS
    RecordedOnce
    NoRecordIsLost
    OwnAttribution
    ClaimsAreTrue
