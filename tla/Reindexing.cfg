\* Under fairness: a reset of the source and its recovery after a crash; the
\* store may lose its points.
SPECIFICATION FairSpec

CONSTANTS
    parse = parse
    embed = embed
    graph = graph
    cards = cards
    pA = pA
    pB = pB
    w1 = w1
    w2 = w2
    d1 = d1
    NoProc = NoProc
    NoTask = NoTask
    DeadTask = DeadTask
    Phases <- TwoPhases
    Parsing = parse
    Embedding = embed
    MergedOrder <- BuiltinsOnly
    DependsOn <- BuiltinDeps
    Procs <- OneProc
    Pod <- OnePod
    ProcOf <- Together
    PidReuse = FALSE
    MaxBoot = 1
    MaxVersion = 1
    Workers <- OneWorker
    Deleters <- OneDeleter
    LockMayExpire = FALSE
    MayNotApply = {}
    MayWait = {}
    BodyMayFail = {}
    PurgeMayFail = {}
    GateMayVeto = FALSE
    WipeMayFail = {}
    StoreMayBeWiped = TRUE
    LeasesMayAge = FALSE
    SettingsMayMove = TRUE
    Entrances = {"upload", "reindex", "recover"}

PROPERTIES
    ReindexEnds
    NothingBuiltUnderWipe
