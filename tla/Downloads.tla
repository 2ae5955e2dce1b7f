------------------------------ MODULE Downloads ------------------------------
(***************************************************************************)
(* One source that is a URL: its bytes are downloaded in the middle of the *)
(* parsing phase (reembed._run_parsing_phase), while the row says so and a *)
(* heartbeat of limited life keeps it fresh (the URL hooks of plugin.py).  *)
(* A sweep takes a row that has aged for abandoned, and the agent may be   *)
(* deleted at any time (registry.ingestion_canceled, clear_agent).         *)
(*                                                                         *)
(* Each worker runs in a process of its own.  Of the phase machine, which  *)
(* PhaseMachine models, this keeps what happens to the row, the bytes and  *)
(* the heartbeat; the phases after parsing are one step.  Time passes in   *)
(* units in which a heartbeat is punctual; ages stop at what is asked of   *)
(* them.                                                                   *)
(***************************************************************************)
EXTENDS Integers, FiniteSets

CONSTANTS
    Uploaders,     \* workers that ingest the source, each in its own process
    Sweepers,      \* workers that sweep, the same
    NoWorker,      \* no one: holder of a free lock, owner of a new row
    DeadWorker,    \* holder of a lock whose process restarted
    Interval,      \* of a heartbeat
    BootStale,     \* age at which a row in flight is abandoned
    DownloadStale, \* the same of a row that says it downloads
    MaxBeat,       \* life of a heartbeat that a download starts
    MaxCrashes     \* bound of this model

Workers == Uploaders \cup Sweepers

ASSUME DownloadsAssumption ==
    /\ NoWorker \notin Workers /\ DeadWorker \notin Workers
    /\ Uploaders \cap Sweepers = {}
    /\ NoWorker # DeadWorker
    /\ Interval \in Nat \ {0} /\ BootStale \in Nat /\ DownloadStale \in Nat
    /\ Interval < BootStale /\ BootStale <= DownloadStale
    /\ MaxBeat \in Nat \ {0} /\ MaxCrashes \in Nat

VARIABLES
    row,      \* status, who claimed it last, and age of the row
    agent,    \* how far the deletion of the agent has come
    pass,     \* per worker, its pass over the source
    beat,     \* per worker's process, the heartbeat of the source
    lock,     \* holder of the source lock
    kept,     \* is there a persisted copy of what was downloaded?
    crashes

vars == << row, agent, pass, beat, lock, kept, crashes >>

----------------------------------------------------------------------------
Downloading == {"downloading", "downloaded"}
InFlight    == {"uploaded", "processing"} \cup Downloading
Statuses    == InFlight \cup {"absent", "completed", "error"}

Places == {"idle", "start", "process", "lock", "recover", "parse",
           "downloading", "fetch", "chunk", "later", "exit"}

Unbounded == MaxBeat + 1

NoRow    == [status |-> "absent", owner |-> NoWorker, age |-> 0]
IdlePass == [pc |-> "idle", gate |-> 0, elapsed |-> 0]
NoBeat   == [pc |-> "off", due |-> 0, left |-> 0, status |-> "absent"]
Beating(life) == [pc |-> "sleep", due |-> Interval, left |-> life,
                  status |-> "absent"]

DownloadTypeOK ==
    /\ row \in [status : Statuses, owner : Workers \cup {NoWorker},
                age : 0 .. DownloadStale]
    /\ agent \in {"alive", "marked", "destroyed", "wiped", "gone"}
    /\ pass \in [Workers ->
          [pc : Places, gate : {0, BootStale, DownloadStale},
           elapsed : 0 .. MaxBeat]]
    /\ beat \in [Workers ->
          [pc : {"off", "sleep", "store"}, due : 0 .. Interval,
           left : 0 .. Unbounded, status : Statuses]]
    /\ lock \in Workers \cup {NoWorker, DeadWorker}
    /\ kept \in BOOLEAN
    /\ crashes \in 0 .. MaxCrashes

Init ==
    /\ row = NoRow /\ agent = "alive"
    /\ pass = [w \in Workers |-> IdlePass]
    /\ beat = [w \in Workers |-> NoBeat]
    /\ lock = NoWorker
    /\ kept = FALSE /\ crashes = 0

----------------------------------------------------------------------------
(* The deletion of the agent.  The core sets the marker, waits for what is *)
(* at work (not for ever), destroys the agent and fires the hook, which    *)
(* wipes the rows, the marker with them, and puts the marker back (in      *)
(* between, the lack of a master key stands in for it); the core removes   *)
(* the marker at last.                                                     *)

HasDeleteMarker == agent \in {"marked", "destroyed", "wiped"}
HasMasterKey    == agent \in {"alive", "marked"}

(* Mutant of Canceled: an agent without a master key is not canceled.      *)
CanceledByMarker == HasDeleteMarker
Canceled == HasDeleteMarker \/ ~HasMasterKey

Teardown(from, to) ==
    /\ agent = from
    /\ agent' = to
    /\ UNCHANGED << pass, beat, lock, kept, crashes >>

SetDeleteMarker   == Teardown("alive", "marked") /\ UNCHANGED row
DestroyAgent      == Teardown("marked", "destroyed") /\ UNCHANGED row
ClearAgent        == Teardown("destroyed", "wiped") /\ row' = NoRow
ClearDeleteMarker == Teardown("wiped", "gone") /\ UNCHANGED row

Deletion ==
    \/ SetDeleteMarker \/ DestroyAgent \/ ClearAgent \/ ClearDeleteMarker

----------------------------------------------------------------------------
(* The heartbeat of a process.  Starting one replaces the one there was.   *)

(* Mutant of DownloadLife: the heartbeat of a download has no bound.       *)
EndlessLife == Unbounded
DownloadLife == MaxBeat

(* Mutant of KeptFresh: a row is fresh only while it is processed.         *)
KeptFreshOnceProcessed == {"processing"}
KeptFresh == InFlight

(* A tick: a canceled agent's row is made an error, and that is the last   *)
(* tick; otherwise the row is written again as it is.                      *)
BeatLook(w) ==
    /\ beat[w].pc = "sleep" /\ beat[w].due = 0
    /\ beat' = [beat EXCEPT ![w] =
          IF @.left # 0 /\ row.status \in KeptFresh
          THEN [@ EXCEPT !.pc = "store",
                         !.status = IF Canceled THEN "error" ELSE row.status]
          ELSE NoBeat]
    /\ UNCHANGED << row, agent, pass, lock, kept, crashes >>

BeatStore(w) ==
    /\ beat[w].pc = "store"
    /\ row' = [row EXCEPT !.status = beat[w].status, !.age = 0]
    /\ beat' = [beat EXCEPT ![w] =
          IF @.status = "error" THEN NoBeat
          ELSE [@ EXCEPT !.pc = "sleep", !.due = Interval, !.status = "absent"]]
    /\ UNCHANGED << agent, pass, lock, kept, crashes >>

----------------------------------------------------------------------------
(* The pass.                                                               *)

At(w, place)   == pass[w].pc = place
Goto(w, place) == pass' = [pass EXCEPT ![w].pc = place]

(* Past its claim, a pass works on the source until it exits.              *)
AtWork(w) == pass[w].pc \in Places \ {"idle", "start", "process", "lock"}
Fetching(w) == At(w, "fetch")

Start(w, gate, place) ==
    /\ At(w, "idle")
    /\ pass' = [pass EXCEPT ![w] = [IdlePass EXCEPT !.pc = place, !.gate = gate]]
    /\ UNCHANGED << row, agent, beat, lock, kept, crashes >>

(* ingest_file: the URL is ingested for the first time.                    *)
Upload(w) ==
    /\ w \in Uploaders /\ row.status = "absent" /\ HasMasterKey
    /\ Start(w, 0, "start")

(* Mutant of Resumable: a download that stopped is not taken up.           *)
ResumableButDownloads == row.status \in InFlight \ Downloading

(* _resume_agent: what may be abandoned, and how old it must be.           *)
Resumable ==
    /\ row.status \in InFlight
    /\ row.status \in Downloading => row.age >= DownloadStale

Gate == IF row.status \in Downloading THEN DownloadStale ELSE BootStale

(* Mutant of Sweep: the sweep does not ask whether the agent is canceled.  *)
SweepsCanceled(w) ==
    /\ w \in Sweepers /\ Resumable
    /\ Start(w, Gate, "lock")

Sweep(w) ==
    /\ w \in Sweepers /\ ~Canceled /\ Resumable
    /\ Start(w, Gate, "lock")

(* A row in error is retried while its diary shows a stale phase, which is *)
(* a matter of Diary: here it may or may not.                              *)
SweepError(w) ==
    /\ w \in Sweepers /\ ~Canceled /\ row.status = "error"
    /\ Start(w, BootStale, "lock")

(* Mutant of Completed: the state of a phase in the place of the status.   *)
PhaseComplete == "complete"
Completed == "completed"

(* set_status: of a canceled agent nothing is written.  (Between its look  *)
(* and its store a step of another may fall; here that happens to the      *)
(* heartbeat only, whose writes are of the same kind.)                     *)
Written(status) ==
    row' = IF Canceled THEN row ELSE [row EXCEPT !.status = status, !.age = 0]

HeartbeatStarts(w, life) == beat' = [beat EXCEPT ![w] = Beating(life)]

IngestionStart(w) ==
    /\ At(w, "start")
    /\ Written("uploaded")
    /\ Goto(w, "process")
    /\ UNCHANGED << agent, beat, lock, kept, crashes >>

IngestionProcessing(w) ==
    /\ At(w, "process")
    /\ Written("processing")
    /\ HeartbeatStarts(w, Unbounded)
    /\ Goto(w, "lock")
    /\ UNCHANGED << agent, lock, kept, crashes >>

LockTimeout(w) ==
    /\ At(w, "lock") /\ lock # NoWorker
    /\ Goto(w, "exit")
    /\ UNCHANGED << row, agent, beat, lock, kept, crashes >>

(* claim_source_for_resume, under the source lock.                         *)
Claimable(w) ==
    /\ ~Canceled
    /\ row.status \in InFlight \cup {"error"}
    /\ row.age >= pass[w].gate

Claim(w) ==
    /\ At(w, "lock") /\ lock = NoWorker
    /\ lock' = w
    /\ IF Claimable(w)
       THEN /\ row' = [status |-> "processing", owner |-> w, age |-> 0]
            /\ HeartbeatStarts(w, Unbounded)
            /\ pass' = [pass EXCEPT ![w] = [IdlePass EXCEPT !.pc = "recover"]]
       ELSE Goto(w, "exit") /\ UNCHANGED << row, beat >>
    /\ UNCHANGED << agent, kept, crashes >>

(* Whether a parsing entry left by another pass is abandoned (by process   *)
(* and lease) is a matter of Diary; here it may be or not.                 *)
Recover(w) ==
    /\ At(w, "recover")
    /\ \/ Written("processing") /\ Goto(w, "parse")
       \/ Goto(w, "exit") /\ UNCHANGED row
    /\ UNCHANGED << agent, beat, lock, kept, crashes >>

(* _run_parsing_phase: the bytes are those of the first download, if they  *)
(* were kept.                                                              *)
Parse(w) ==
    /\ At(w, "parse")
    /\ Goto(w, IF Canceled THEN "exit" ELSE IF kept THEN "chunk" ELSE "downloading")
    /\ UNCHANGED << row, agent, beat, lock, kept, crashes >>

(* rabbithole_url_downloading asks first, and starts no heartbeat then.    *)
UrlDownloading(w) ==
    /\ At(w, "downloading")
    /\ Written("downloading")
    /\ IF Canceled THEN UNCHANGED beat ELSE HeartbeatStarts(w, DownloadLife)
    /\ Goto(w, "fetch")
    /\ UNCHANGED << agent, lock, kept, crashes >>

(* rabbithole_url_download_completed; a copy of the bytes that cannot be   *)
(* written is logged only.                                                 *)
UrlDownloadCompleted(w) ==
    /\ At(w, "fetch")
    /\ Written("downloaded")
    /\ HeartbeatStarts(w, Unbounded)
    /\ kept' \in {kept, TRUE}
    /\ pass' = [pass EXCEPT ![w].pc = "chunk", ![w].elapsed = 0]
    /\ UNCHANGED << agent, lock, crashes >>

PhaseFails(w, place) ==
    /\ At(w, place)
    /\ Written("error")
    /\ pass' = [pass EXCEPT ![w].pc = "exit", ![w].elapsed = 0]
    /\ UNCHANGED << agent, beat, lock, kept, crashes >>

FetchFails(w) == PhaseFails(w, "fetch")

(* What is parsed is stored, piece by piece, and the phase recorded.       *)
Chunk(w) ==
    /\ At(w, "chunk")
    /\ Written("processing")
    /\ Goto(w, IF Canceled THEN "exit" ELSE "later")
    /\ UNCHANGED << agent, beat, lock, kept, crashes >>

LaterPhases(w) ==
    /\ At(w, "later")
    /\ Written(Completed)
    /\ Goto(w, "exit")
    /\ UNCHANGED << agent, beat, lock, kept, crashes >>

(* The finally blocks: the heartbeat stops, the lock is left.              *)
Exit(w) ==
    /\ At(w, "exit")
    /\ pass' = [pass EXCEPT ![w] = IdlePass]
    /\ beat' = [beat EXCEPT ![w] = NoBeat]
    /\ lock' = IF lock = w THEN NoWorker ELSE lock
    /\ UNCHANGED << row, agent, kept, crashes >>

----------------------------------------------------------------------------
Crash(w) ==
    /\ crashes < MaxCrashes /\ ~At(w, "idle")
    /\ crashes' = crashes + 1
    /\ pass' = [pass EXCEPT ![w] = IdlePass]
    /\ beat' = [beat EXCEPT ![w] = NoBeat]
    /\ lock' = IF lock = w THEN DeadWorker ELSE lock
    /\ UNCHANGED << row, agent, kept >>

(* What may take long; a unit of time is longer than any other step.       *)
Long == {"fetch", "later"}

LockExpires ==
    /\ lock = DeadWorker \/ \E w \in Workers : lock = w /\ pass[w].pc \in Long
    /\ lock' = NoWorker
    /\ UNCHANGED << row, agent, pass, beat, kept, crashes >>

Older(n, bound) == IF n < bound THEN n + 1 ELSE n

TimePasses ==
    /\ \A w \in Workers :
          /\ pass[w].pc \in Long \cup {"idle", "lock"}
          /\ beat[w].pc = "off" \/ (beat[w].pc = "sleep" /\ beat[w].due > 0)
    /\ row' = IF row.status = "absent" THEN row ELSE [row EXCEPT !.age = Older(@, DownloadStale)]
    /\ beat' = [w \in Workers |->
          IF beat[w].pc = "off" THEN beat[w]
          ELSE [beat[w] EXCEPT !.due = @ - 1,
                   !.left = IF @ \in {0, Unbounded} THEN @ ELSE @ - 1]]
    /\ pass' = [w \in Workers |->
          IF Fetching(w) THEN [pass[w] EXCEPT !.elapsed = Older(@, MaxBeat)]
          ELSE pass[w]]
    /\ UNCHANGED << agent, lock, kept, crashes >>

----------------------------------------------------------------------------
Step(w) ==
    \/ IngestionStart(w) \/ IngestionProcessing(w) \/ Recover(w) \/ Parse(w)
    \/ UrlDownloading(w) \/ Chunk(w) \/ LaterPhases(w) \/ Exit(w)
    \/ PhaseFails(w, "chunk") \/ PhaseFails(w, "later")

Waits(w) == Claim(w) \/ LockTimeout(w)

Fetch(w) == UrlDownloadCompleted(w) \/ FetchFails(w)

Tick(w) == BeatLook(w) \/ BeatStore(w)

Next ==
    \/ \E w \in Workers :
          \/ Upload(w) \/ Sweep(w) \/ SweepError(w)
          \/ Step(w) \/ Waits(w) \/ Fetch(w) \/ Tick(w) \/ Crash(w)
    \/ Deletion \/ LockExpires \/ TimePasses

Spec == Init /\ [][Next]_vars

(* The event loops run, time passes, the sweep comes round, a lock is not  *)
(* held for ever, and a deletion that was begun goes on.  A fetch may      *)
(* never return.                                                           *)
Fairness ==
    /\ \A w \in Workers :
          /\ WF_vars(Step(w) \/ Waits(w)) /\ WF_vars(Tick(w))
          /\ WF_vars(Sweep(w))
    /\ WF_vars(LockExpires) /\ WF_vars(TimePasses)
    /\ WF_vars(DestroyAgent \/ ClearAgent \/ ClearDeleteMarker)

FairSpec == Spec /\ Fairness

----------------------------------------------------------------------------
(* _download_heartbeat_max_seconds, rabbithole_url_downloading: while a    *)
(* download lasts no longer than its heartbeat may live, no sweep claims   *)
(* the source from the pass that claimed it last.  (Of two passes; a third  *)
(* may profit from the error of one that was overtaken: see the README.)   *)
LiveDownloadIsKept ==
    [][\A w, v \in Workers :
          w # v /\ v \in Sweepers /\ row'.owner = v
             /\ row.owner = w /\ row.status \in InFlight
          => ~(Fetching(w) /\ pass[w].elapsed < MaxBeat)]_vars

(* The same: a download that hangs does not keep its row fresh for ever.   *)
HungDownloadAges ==
    \A w \in Workers :
       (Fetching(w) /\ row.owner = w)
          ~> (~Fetching(w) \/ row.owner # w \/ row.age >= DownloadStale
                \/ row.status \notin InFlight)

(* _resume_agent: a row left in flight by a process that died is taken up, *)
(* wherever in its download it stopped.                                    *)
DeadDownloadIsTakenUp ==
    (row.status \in InFlight /\ \A w \in Workers : ~AtWork(w))
       ~> (row.status \notin InFlight \/ Canceled \/ \E w \in Workers : AtWork(w))

(* _heartbeat_status, _raise_if_canceled: once an agent is deleted, all    *)
(* work on its sources comes to its end, but for a fetch that hangs.       *)
CanceledWorkEnds ==
    Canceled ~> [](\A w \in Workers :
                      pass[w].pc \in {"idle", "fetch"} /\ beat[w].pc = "off")

(* ingestion_canceled: a row that was written behind the back of the wipe, *)
(* by a task that had looked before it, is never taken up.                 *)
GhostIsNotResumed ==
    [][agent = "gone" =>
          \A w \in Workers : At(w, "idle") => pass'[w].pc = "idle"]_vars

(* clear_agent, after_cheshire_cat_destroy: no row outlives its agent.     *)
(* (This fails: see README.)                                               *)
NoRowOutlivesAgent == agent = "gone" => row.status = "absent"
=============================================================================
