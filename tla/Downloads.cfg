\* A worker that uploads and one that sweeps, each in its process, one crash;
\* the agent may be deleted.  As in the defaults of the code, the interval of
\* a heartbeat is the shortest time and the life of a download's the longest.
SPECIFICATION FairSpec

CONSTANTS
    Uploaders = {w1}
    Sweepers = {w2}
    NoWorker = NoWorker
    DeadWorker = DeadWorker
    Interval = 1
    BootStale = 2
    DownloadStale = 3
    MaxBeat = 4
    MaxCrashes = 1

INVARIANTS
    DownloadTypeOK
PROPERTIES
    LiveDownloadIsKept
    GhostIsNotResumed
    HungDownloadAges
    DeadDownloadIsTakenUp
    CanceledWorkEnds
