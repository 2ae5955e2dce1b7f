\* Expected to be violated.  The contract: the record goes only after every delete.
SPECIFICATION Spec

CONSTANTS
    parse = parse
    embed = embed
    graph = graph
    cards = cards
    pA = pA
    pB = pB
    w1 = w1
    w2 = w2
    d1 = d1
    NoProc = NoProc
    NoTask = NoTask
    DeadTask = DeadTask
    Phases <- ThreePhases
    Parsing = parse
    Embedding = embed
    MergedOrder <- GraphAfter
    DependsOn <- GraphOnEmbedding
    Procs <- OneProc
    Pod <- OnePod
    ProcOf <- Together
    PidReuse = FALSE
    MaxBoot = 1
    MaxVersion = 1
    Workers <- OneWorker
    Deleters <- OneDeleter
    LockMayExpire = FALSE
    MayNotApply = {}
    MayWait = {}
    BodyMayFail = {}
    PurgeMayFail = {}
    GateMayVeto = FALSE
    WipeMayFail = {}
    StoreMayBeWiped = FALSE
    LeasesMayAge = FALSE
    SettingsMayMove = TRUE
    Entrances = {"upload", "resume", "delete"}

PROPERTIES
    DroppedMeansClean
