\* One worker, one request, one mishap, a push or a closing and reopening.
SPECIFICATION Spec
CONSTANTS
    Heads = {1, 2}
    FirstHead = 1
    None = None
    Workers = {w1}
    Verdicts <- Clean
    Diff <- EachItsDiff
    Pushes <- PushOnce
    Reopens = TRUE
    MaxAttempts = 1
    MaxMoves = 1
    MaxRequests = 1
    MaxMishaps = 1
INVARIANTS
    ReviewTypeOK
    PublishedPosted
    VerdictOfDiff
