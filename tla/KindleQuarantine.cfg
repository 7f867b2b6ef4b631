SPECIFICATION HistorySpec
CONSTANTS
    r1 = r1
    r2 = r2
    r3 = r3
    N = 4
    Releases = {r1, r2, r3}
    NoRelease = NoRelease
    Pinned <- PinnedWithUnrelated
    Clean = {1, 2, 3, 4}
    Signed = {r1, r2}
    Healthy = {r1, r2, r3}
    StartsPinned = FALSE
    Drills = {FALSE, TRUE}
    Mishaps = {"call", "disk", "kill", "reboot"}
    MaxMishaps = 3

PROPERTY QuarantinedUntilMainAdvances
