\* Under fairness: one worker, three phases, every failure but crashes; the
\* settings change between passes only.
SPECIFICATION FairSpec

CONSTANTS
    parse = parse
    embed = embed
    graph = graph
    cards = cards
    pA = pA
    pB = pB
    w1 = w1
    w2 = w2
    d1 = d1
    NoProc = NoProc
    NoTask = NoTask
    DeadTask = DeadTask
    Phases <- ThreePhases
    Parsing = parse
    Embedding = embed
    MergedOrder <- GraphAfter
    DependsOn <- GraphOnEmbedding
    Procs <- OneProc
    Pod <- OnePod
    ProcOf <- Together
    PidReuse = FALSE
    MaxBoot = 0
    MaxVersion = 2
    Workers <- OneWorker
    Deleters <- NoDeleter
    LockMayExpire = FALSE
    MayNotApply = {graph}
    MayWait = {graph}
    BodyMayFail = {parse, embed, graph}
    PurgeMayFail = {}
    GateMayVeto = TRUE
    WipeMayFail = {}
    StoreMayBeWiped = FALSE
    LeasesMayAge = FALSE
    SettingsMayMove = FALSE
    Entrances = {"upload", "resume", "revalidate", "reembed"}

PROPERTIES
    PassEnds
    RowSettles
