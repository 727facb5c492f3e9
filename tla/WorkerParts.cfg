CONSTANTS
    QaRegion = {"a", "b"}
    QaJobs <- MCQaJobs
    ConfigVlm = "global"
    ConfigLlm = "globalLlm"
    Spares <- MCSpares
    MaxEdits = 1
    OcrFragment = {"f1", "f2"}
    Balloons <- MCBalloons
    Place <- MCPlace
    OcrJobs <- MCOcrJobs
    ConfigModel = "global"
    ChunkSize = 2
    CleanupJobs <- MCCleanupJobs
    Fragment = {1, 2, 3}
    Scenes <- MCScenes
    Budget = 2
    Unit = 4
    JoinBudget = 8
    MaxLines = 3
    MaxArea = 40
    Page = {"p"}
    Redo = {"r"}
    Key = {"ja", "det"}
    Detector = {"det"}
    Ttl = 1
    MaxNow = 4
    MaxCopies = 3
    Caller = {"c", "d"}
    Provider = {"slow", "quick", "free"}
    MinDelay <- MCMinDelay
    MaxTime = 4
    MaxSlots = 3
    Job = {"j", "k"}
    Chunk = {"x"}
    Primary = {"main"}
    Fallback = {"spare"}
    Free = {"spare"}
    Anchored = {}
    MaxCalls = 2
SPECIFICATION Spec
INVARIANTS
    TypeOK
    NoInventedVerdict
    CompleteCoversThePage
    HybridIsSound
    FragmentsOnce
    TextIsItsOwn
    ReadersAreNamed
    CleanupAccounted
    RevokedStopsSoon
    GroupsPartition
    NoVetoedGroup
    NoOversizedGroup
    DecisionIsItsOwn
    WorksWithTheCached
    SlotsAreApart
    ReportIsTrue
PROPERTIES
    VerdictStands
CHECK_DEADLOCK FALSE
