\* A push and a push back, nothing fails.
SPECIFICATION Spec
CONSTANTS
    Heads = {1, 2}
    FirstHead = 1
    None = None
    Workers = {w1}
    Verdicts <- Clean
    Diff <- EachItsDiff
    Pushes <- PushBack
    Reopens = FALSE
    MaxAttempts = 1
    MaxMoves = 2
    MaxRequests = 0
    MaxMishaps = 0
INVARIANT
    VerdictOfDiff
