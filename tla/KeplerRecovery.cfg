SPECIFICATION Spec
CONSTANTS
    Repository <- Repositories
    Declared <- Services
    Legacy <- ReviewedLegacy
    InSnapshot = {"/fast/postgres", "/fast/models"}
    ApprovedAi <- Ai
    Worlds <- StartingWorlds
    Touched = {"postgres", "gitlab"}
    MaxDrift = 1
    MaxMishaps = 1
    MaxInventories = 2
    MaxBackups = 2
    MaxJobs = 2
    None = None
INVARIANTS TypeOK PlannersAgree FinishedIsComplete PostgresAsFound OneAtATime Replannable AiStages
PROPERTIES OnlyApprovedGoes DropIsBacked
CHECK_DEADLOCK FALSE
