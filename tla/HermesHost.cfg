\* Three messages, two requests of a turn, two mishaps, two backups at a time.
SPECIFICATION Spec
CONSTANTS
    None = None
    Corrupt = Corrupt
    Families = {1, 2}
    Targets = {"prowlarr"}
    Allowed = {"prowlarr"}
    MaxPending = 2
    Backlog = 0
    MaxEpisodes = 2
    MaxFamilies = 1
    MaxAge = 10
    Worlds <- SmallWorlds
    Supervisors = {one, other}
SYMMETRY Symmetry
INVARIANTS
    TypeOK
    RepeatIsKnown
    CountsAreSightings
    LedgerBounded
    OncePerInterval
    ToldIsAudited
    PassIsAMoment
    DownOnlyInBackup
CHECK_DEADLOCK FALSE
