\* A closing and reopening, and one run cut short.
SPECIFICATION FairSpec
CONSTANTS
    Heads = {1, 2}
    FirstHead = 1
    None = None
    Workers = {w1}
    Verdicts <- Clean
    Diff <- EachItsDiff
    Pushes <- PushOnce
    Reopens = TRUE
    MaxAttempts = 1
    MaxMoves = 1
    MaxRequests = 0
    MaxMishaps = 1
PROPERTY
    HeadPublished
