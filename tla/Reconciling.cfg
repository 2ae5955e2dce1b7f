\* Under fairness: a worker, a deletion whose phases may fail, and the removal
\* of rows beside them.
SPECIFICATION ReconcileFairSpec

CONSTANTS
    parse = parse
    embed = embed
    graph = graph
    cards = cards
    pA = pA
    pB = pB
    w1 = w1
    w2 = w2
    d1 = d1
    NoProc = NoProc
    NoTask = NoTask
    DeadTask = DeadTask
    Phases <- TwoPhases
    Parsing = parse
    Embedding = embed
    MergedOrder <- BuiltinsOnly
    DependsOn <- BuiltinDeps
    Procs <- OneProc
    Pod <- OnePod
    ProcOf <- Together
    PidReuse = FALSE
    MaxBoot = 0
    MaxVersion = 1
    Workers <- OneWorker
    Deleters <- OneDeleter
    LockMayExpire = FALSE
    MayNotApply = {}
    MayWait = {}
    BodyMayFail = {}
    PurgeMayFail = {}
    GateMayVeto = FALSE
    WipeMayFail = {embed}
    StoreMayBeWiped = FALSE
    LeasesMayAge = FALSE
    SettingsMayMove = TRUE
    Entrances = {"upload", "resume", "delete"}

INVARIANTS
    RemovalTypeOK
PROPERTIES
    RemovalWaitsForWork
    VanishedIsCollected
