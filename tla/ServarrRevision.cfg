SPECIFICATION Spec
CONSTANTS
    s1 = s1
    s2 = s2
    N = 3
    Rollback = 1
    Forward = 2
    Secret <- DifferentSecrets
    NoSecret = NoSecret
    Mishaps = {"command", "disk", "kill"}
    MaxMishaps = 2
INVARIANTS TypeOK EnvFollowsHead
PROPERTIES VerifiedWasTrue PinKindSticks PullServesPin SelectsAtomically
