\* One worker, three phases: crashes, failing bodies, a phase that does not
\* apply, purges that fail, a vetoing gate; the settings change between passes.
SPECIFICATION Spec

CONSTANTS
    parse = parse
    embed = embed
    graph = graph
    cards = cards
    pA = pA
    pB = pB
    w1 = w1
    w2 = w2
    d1 = d1
    NoProc = NoProc
    NoTask = NoTask
    DeadTask = DeadTask
    Phases <- ThreePhases
    Parsing = parse
    Embedding = embed
    MergedOrder <- GraphAfter
    DependsOn <- GraphOnEmbedding
    Procs <- OneProc
    Pod <- OnePod
    ProcOf <- Together
    PidReuse = FALSE
    MaxBoot = 1
    MaxVersion = 2
    Workers <- OneWorker
    Deleters <- NoDeleter
    LockMayExpire = FALSE
    MayNotApply = {graph}
    MayWait = {graph}
    BodyMayFail = {parse, embed, graph}
    PurgeMayFail = {graph}
    GateMayVeto = TRUE
    WipeMayFail = {}
    StoreMayBeWiped = FALSE
    LeasesMayAge = FALSE
    SettingsMayMove = FALSE
    Entrances = {"upload", "resume", "revalidate", "reembed"}

INVARIANTS
    TypeOK
    CompletedIsSettled
    CompletedHasTaggedProducts
PROPERTIES
    BodyBehindDependencies
    FollowsLifecycle
