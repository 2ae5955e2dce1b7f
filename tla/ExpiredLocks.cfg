\* Two workers in two processes of one pod, whose locks may expire under them
\* and which may each restart once.
SPECIFICATION Spec

CONSTANTS
    parse = parse
    embed = embed
    graph = graph
    cards = cards
    pA = pA
    pB = pB
    w1 = w1
    w2 = w2
    d1 = d1
    NoProc = NoProc
    NoTask = NoTask
    DeadTask = DeadTask
    Phases <- TwoPhases
    Parsing = parse
    Embedding = embed
    MergedOrder <- BuiltinsOnly
    DependsOn <- BuiltinDeps
    Procs <- TwoProcs
    Pod <- OnePod
    ProcOf <- Apart
    PidReuse = FALSE
    MaxBoot = 1
    MaxVersion = 1
    Workers <- TwoWorkers
    Deleters <- NoDeleter
    LockMayExpire = TRUE
    MayNotApply = {}
    MayWait = {}
    BodyMayFail = {}
    PurgeMayFail = {}
    GateMayVeto = FALSE
    WipeMayFail = {}
    StoreMayBeWiped = FALSE
    LeasesMayAge = TRUE
    SettingsMayMove = TRUE
    Entrances = {"upload"}

PROPERTIES
    LiveOwnerIsNoOrphan
    LeavesOwnLock
SYMMETRY
    ChangePlaces
