\* One worker and the heartbeat of its process; crashes, a failing body,
\* settings that move, a store that loses its points.
SPECIFICATION BeatSpec

CONSTANTS
    parse = parse
    embed = embed
    graph = graph
    cards = cards
    pA = pA
    pB = pB
    w1 = w1
    w2 = w2
    d1 = d1
    NoProc = NoProc
    NoTask = NoTask
    DeadTask = DeadTask
    Phases <- TwoPhases
    Parsing = parse
    Embedding = embed
    MergedOrder <- BuiltinsOnly
    DependsOn <- BuiltinDeps
    Procs <- OneProc
    Pod <- OnePod
    ProcOf <- Together
    PidReuse = FALSE
    MaxBoot = 1
    MaxVersion = 2
    Workers <- OneWorker
    Deleters <- NoDeleter
    LockMayExpire = FALSE
    MayNotApply = {}
    MayWait = {}
    BodyMayFail = {embed}
    PurgeMayFail = {}
    GateMayVeto = FALSE
    WipeMayFail = {}
    StoreMayBeWiped = TRUE
    LeasesMayAge = FALSE
    SettingsMayMove = TRUE
    Entrances = {"upload", "resume", "revalidate", "reembed"}

INVARIANTS
    BeatTypeOK
    WorkIsKeptFresh
