\* Two workers, one mishap, which may exhaust a head's only attempt, a push to a
\* rebased head or a closing.
SPECIFICATION FairSpec
CONSTANTS
    Heads = {1, 2}
    FirstHead = 1
    None = None
    Workers = {w1, w2}
    Verdicts <- Clean
    Diff <- OneDiff
    Pushes <- PushOnce
    Reopens = FALSE
    MaxAttempts = 1
    MaxMoves = 1
    MaxRequests = 0
    MaxMishaps = 1
INVARIANT
    PacketHasRow
PROPERTIES
    HeadPublished
    ObsoleteSettles
