SPECIFICATION FairSpec
CONSTANTS
    r1 = r1
    r2 = r2
    r3 = r3
    N = 4
    Releases = {r1, r2, r3}
    NoRelease = NoRelease
    Pinned <- PinnedEachCommit
    Clean = {1, 2, 3}
    Signed = {r1, r2, r3}
    Healthy = {r1, r2}
    StartsPinned = FALSE
    Drills = {FALSE, TRUE}
    Mishaps = {"call", "disk", "kill"}
    MaxMishaps = 3
PROPERTIES AttemptReachesVerdict RolledBackRecovers
