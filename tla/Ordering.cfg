\* Every graph of four phases with at most four dependencies, cycles and
\* undeclared ones included.  A walk stops when it is done.
SPECIFICATION Spec

CONSTANTS
    p1 = p1
    p2 = p2
    p3 = p3
    p4 = p4
    Undeclared = Undeclared
    Origin = p1
    MaxEdges = 4
    Registered <- FourPhases
    Graphs <- SparseGraphs

INVARIANTS
    OrderTypeOK
    DependenciesFirst
    EachOnce
    TagsWhenResolvable
    DownstreamIsTransitive
PROPERTIES
    WalkEnds
CHECK_DEADLOCK FALSE
