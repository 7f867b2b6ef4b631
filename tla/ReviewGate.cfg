\* Three reviews of one head, nothing fails.
SPECIFICATION Spec
CONSTANTS
    Heads = {1, 2}
    FirstHead = 1
    None = None
    Workers = {w1}
    Verdicts <- Either
    Diff <- EachItsDiff
    Pushes <- PushOnce
    Reopens = FALSE
    MaxAttempts = 1
    MaxMoves = 0
    MaxRequests = 2
    MaxMishaps = 0
PROPERTY
    GateAgrees
