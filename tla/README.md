# A verification of cat-efficient-ingestion

The plugin ingests sources (files and URLs) into a vector store, phase by
phase, and keeps for each source a *status row* with a *phase diary* so that a
crash, a change of settings or a failed phase costs only the work that is
really lost. The modules here model one source of one agent under the whole of
the plugin: everything the plugin does to several sources it does to each alone
(every lock, row and diary is per source).

## Inventory

| Part | Keeps | Operations | Talks to | What is hard |
|---|---|---|---|---|
| Registry (`registry.py`) | the status document: status, diary, deleted phases, reindexer | `set_status`, `set_phase`, `record_phase_*`, `reset_phase_entries`, `claim_source_for_resume`, `should_abandon`, `delete_status` | read and written by all the others, under no transaction | read-modify-write; who owns an entry after a crash |
| Phase declarations and probe (`phases.py`, `phase_tag_resolver.py`) | nothing | `merged_phases`, `is_phase_stale`, `dependency_outcome`, `phase_execution_order`, `resolve_tags` | settings, plugin hooks | staleness that depends on other phases |
| Phase machine (`reembed.py`) | the local state of a pass | `reembed_sources`: probe, source lock, claim, recovery, dispatch loop, phase guard, bodies, refresh, completion gate | registry, store, locks, phase hooks | several passes at once, crashes between any two awaits, settings that move |
| Deletion and re-ingest (`phases.py`, `registry.py`) | the row's `deleting`/`reindexing` state | `delete_source`, `purge_source_for_reingest`, `recover_reindexing_source` | the same row, store and source lock | resuming a wipe, a pass that does not know of it |
| Sweeps (`resume.py`) | nothing | resume, revalidate, mark file missing | hand the source to the machine | rows that nobody takes up, or that are handed over for ever |
| Heartbeat (`plugin.py`) | a task per agent, scope and source | start, tick, stop | `set_status`, unlocked | its writes fall between those of the pass |
| Reconcile, dismissal (`reconcile.py`, `endpoints.py`) | nothing | purge a vanished source's row, dismiss a row | the source lock | decides on an old copy of the row |
| Splitter (`split.py`) | nothing | `split_oversized`, `split_to_budget` | the embedder's count | bounds of a binary search |
| Hook dispatch (`hooks.py`) | nothing | which registrant is called, with which keyword | plugin managers | each plugin once |
| Phase graph (`phases.py`, `phase_tag_resolver.py`) | nothing | the order of the catalogue, the order a deletion reverses, `resolve_tags`, `downstream_phase_ids` | what plugins declare | cycles, dependencies nobody declares |
| Not-ready budget (`reembed.py`) | the row's `phase_retry` hint | `_wait_not_ready`, `_expired_not_ready` | the row | a clock that starts in the past |
| URL downloads (`plugin.py`, `reembed.py`) | the persisted bytes, a bounded heartbeat | the two URL hooks, the fetch | the row, the sweep's thresholds | a live download against a dead or hung one |
| Teardown of an agent (`registry.py`, `plugin.py`) | the deletion marker | `ingestion_canceled`, `clear_agent` | every write of a row | a write behind the back of the wipe |
| Legacy diaries (`reembed.py`, `phases.py`) | untagged entries | staleness of v1 entries, back-fill | the row | migration under concurrent writes |
| Executor, configuration, catalogues, embedding arithmetic | - | - | - | - |

What makes each part correct is what the properties below say: of the registry,
that an entry is abandoned when its owner is gone and only then; of the machine,
that what is complete exists and was made with its tag, that a phase runs behind
its dependencies, that a source is completed when its diary is, and that each
pass ends; of deletion, that nothing is left and nothing is built meanwhile; of
the sweeps, that every row settles; of the heartbeat, that a row at work is fresh
and its diary is left alone; of reconcile, that it removes only what vanished;
of the splitter, that it ends, loses no word and keeps the budget; of the phase
graph, that whatever is declared each walk ends, with dependencies first; of
downloads, that a live one is left alone and a dead one is not; of the teardown,
that all work ends and none begins again.

## Modules

| Module | Models | State |
|---|---|---|
| `Diary` | entries, ownership (`should_abandon`), tags, `is_phase_stale`, propagation, the derived status | none |
| `SourceState` | the row, `set_status`, artifacts and their purge, locks | `row`, `store`, `file`, `settings`, `boot`, `sourceLock`, `phaseLock` |
| `PhaseMachine` | `reembed_sources` and what hands it the source | `pass[w]` |
| `Deletion` | deletion, re-ingest, recovery of a re-ingest | `req[d]` |
| `Ingestion` | both, with crashes, TTLs, leases, settings; fairness; properties | - |
| `Heartbeat` | the heartbeat beside `Ingestion` | `beat`, `claimed` |
| `Reconcile` | reconcile and dismissal beside `Ingestion` | `removal` |
| `SourceLifecycle` | what a client sees of a source: the abstract specification that `Ingestion` implements | `status`, `outcome` |
| `Downloads` | a URL: its download, its heartbeat, the sweep's ages, the deletion of the agent | `row`, `agent`, `pass`, `beat`, `lock`, `kept` |
| `PhaseOrder` | the four walks over the graph of phases | `stack`, `ordered`, `depth`, `below` |
| `TokenSplit` | the splitter on one document | `doc`, `pc`, `start`, `lo`, `hi`, `chunks` |
| `IngestionProofs`, `LifecycleProofs`, `ProductProofs`, `HeartbeatProofs`, `ReconcileProofs`, `DownloadsProofs`, `TokenSplitProofs`, `PhaseOrderProofs` | theorems | - |
| `MCIngestion`, `MCHeartbeat`, `MCReconcile`, `MCDownloads`, `MCPhaseOrder`, `MCTokenSplit` | values for TLC | - |

`PhaseMachine` and `Deletion` both extend `SourceState`, which extends `Diary`;
`Ingestion` composes them, and `Heartbeat` and `Reconcile` each extend it.
`Downloads`, `PhaseOrder` and `TokenSplit` stand alone: time, graphs and words
are what the others abstract from.

**How the code is cut into steps.** An action is the stretch between two awaits
at which something relevant can happen: a registry write, a call that changes
the store, a lock. A registry write (read, merge, store) is one step; the source
lock keeps other passes and deletions out of it, and the one writer that holds
no lock, the heartbeat, is cut into look, read and store in `Heartbeat`. What the code
writes in two goes is two steps where a crash in between matters: the failure of a
phase and then of its source (`FailsPhase`, `FailsSource`), the diary of a reset
and then its row (`ClearDiary`, `RestartSource`). Taken together are the same two
writes of a failure that is inherited (`Propagate`), the saving of an upload and
the row that tells of it (`UploadPersist`), and in `Downloads` the storing of what
was parsed and its record (`Chunk`). Left out are an exception between two phases,
which writes an error without an entry (`reembed.py:2721`), and the first of the
two error writes of an external phase that reports one.

`pass[w].pc` names the place in `reembed_sources`: `begin`
(existing points and embedder are read), `probe`, `lock`, `claim`, `recover`,
`purge`, `loop`, the labels of the bodies, `record`, `blame` (a phase has failed,
its source not yet), `refresh`, `gate`, `exit`.
A sweep reads the rows once and works the list off: `listed` and `handed` stand
between the reading of a row and its claim or its hand-over, and anything may
happen to the source in between.
`req[d].pc` does the same for a deletion.

**Data.** A phase's products are the version of the settings they were made
with (0: none). The chunk points and the vectors are the same stored points, as
in the code, so embedding's delete removes the chunks. A phase's tag, in the
code a recursive hash of its settings and its dependencies' tags, is the settings
of its whole upstream cone: the hash is taken to be injective. Time is reduced to
what it decides: whether an entry is older than its lease (`aged`), whether a
row in flight still looks fresh when it is claimed (both outcomes), whether a
lock's TTL has run out. A process's boot is a counter; its pid is alive in the
eyes of its pod when it has not restarted or when `PidReuse`. In these modules
the source is a file; a URL, with its `downloading` and `downloaded` rows, is
the subject of `Downloads`.

**Waits.** A phase that answers `not_ready` (`ExternalWaits`) leaves a hint in the row, the
phase and the time of its first wait, and is asked again under the source lock
until it is ready or the hint is older than the phase's budget
(`ExternalGivesUp`). The row keeps who is waiting (`retry`) and whether that
first wait is a budget ago (`overdue`, set by `BudgetRunsOut`); the lengths of
the budgets are left out.

**Downloads.** Each worker has a process of its own, with one heartbeat for the
source. Time passes in units long enough for anything but a fetch or a body
(`Long`), and no unit passes over a heartbeat that is due: timers are punctual.
A URL is fetched in the middle of the parsing phase; the row is older, the
heartbeat's life shorter by each unit. The four times of the code are an
interval of 1, a row abandoned at 2, or at 3 while it says it downloads, and a
download heartbeat of 4: they are in the order of the defaults (30, 60, 300, 1800
seconds), and each is one apart, so that each
comparison falls either way. What the diary decides (whether a parsing entry of
another pass is abandoned, whether an error row is stale) goes both ways. The
deletion of the agent is the core's: the marker, a wait that may time out, the
destruction, the plugin's wipe, the marker removed.

**Graphs.** The catalogue's order, the deletion's order and the resolution of
tags are one recursive descent each. `PhaseOrder` has that descent once, with
the calls on a stack, and keeps apart what they do differently: a dependency
that is being visited is cut, counts as depth 0, or raises; an undeclared one is
filtered, or raises. In what order a phase names its dependencies is left open.

**What stands for what outside the code.** The core's route that deletes a file
removes the file, fires the plugin's hook, deletes the file's points and fires
the second hook (`DeleteStart`, `DeletePoints`, `ForgetRow`), as the docstrings
of the two hooks in `plugin.py` say. The lock service, the settings and the
store are modelled by how `src/` uses them.

## Runs

Bounds are the constants of each `.cfg`. Of the runs on `Ingestion`: one or two workers, at most one
deletion, two or three phases (`parse`, `embed`, and `graph` which depends on
`embed`), up to two versions of each setting, one restart per process. Two
versions are enough to be stale, one restart to be abandoned, three phases to
have something downstream of an embedding that fails; each property of these runs
relates at most two tasks. Two workers, a deletion and crashes together do not fit in
minutes: Deleting has the three tasks, Reindexing the deletion with crashes,
ExpiredLocks the two workers with crashes and locks that run out, Machine everything that
can happen to one worker. In ExpiredLocks the two workers, each in a process of
its own, are alike, and states that differ by their names are one
(`ChangePlaces`). More is needed where a table below says so: six phases for two
plugins whose phases meet, a third process for a download (`LiveDownloadIsKept`). Entries of another pod, abandoned by their lease alone,
occur in no run: that mutual exclusion holds with them is left to the theorems
(`Procs <- TwoProcs`, `Pod <- TwoPods`, `ProcOf <- Apart` and `LeasesMayAge` give
an instance to look at).

| Run | Checks | Shows |
|---|---|---|
| Machine | `TypeOK`, `CompletedIsSettled`, `CompletedHasTaggedProducts`, `BodyBehindDependencies`, `FollowsLifecycle` | one worker, three phases, every failure, waits, crashes anywhere, settings that change between passes: a completed source is finished, has the products of its tags, and was built in order; and the source lives as `SourceLifecycle` has it |
| ExpiredLocks | `LiveOwnerIsNoOrphan`, `LeavesOwnLock` | uploads in two processes of one pod whose locks expire under them and which may restart: the phase of a living worker is taken for abandoned by none, and a task that comes back late to release its lock does not free that of another |
| Deleting | `LockHeld`, `NoInterleaving`, `DroppedMeansClean`, `NothingBuiltUnderWipe` | two workers and a deletion or re-ingest: one at a time, and nothing is left behind |
| Settling | `PassEnds`, `RowSettles` | liveness with every failure and wait but crashes |
| Reindexing | `ReindexEnds`, `NothingBuiltUnderWipe` | a re-ingest with crashes, a store that loses points, and its recovery: it ends, and nothing is built meanwhile |
| Heartbeats | `BeatTypeOK`, `WorkIsKeptFresh` | one worker and its heartbeat, with crashes, settings that move, a store that loses points |
| Reconciling | `RemovalTypeOK`, `RemovalWaitsForWork`, `VanishedIsCollected` | rows removed beside a pass and a deletion that may fail, and the liveness of the purge |
| Splitting | `SplitTypeOK`, `LargestPrefixInReach`, `ChunksWithinBudget`, `WordsKept`, `Terminates` | all documents of up to five words of 1, 4 or 13 characters, budget 3 |
| Downloads | `DownloadTypeOK`, `LiveDownloadIsKept`, `GhostIsNotResumed`, `HungDownloadAges`, `DeadDownloadIsTakenUp`, `CanceledWorkEnds` | one process that downloads, one that sweeps, a crash, locks that expire under long work, the deletion of the agent at any point |
| Ordering | `OrderTypeOK`, `DependenciesFirst`, `EachOnce`, `TagsWhenResolvable`, `DownstreamIsTransitive`, `WalkEnds` | every graph of four phases with at most four dependencies: each cycle of up to four, with a branch into it or out of it, fits |

Deadlock is checked in every run but Ordering, where a walk that is done stops.
The splitter's documents are counted by its
fallback heuristic (three characters a token); in the theorems the count is any
monotone one, and the guess any positive number.

**Fairness.** A started pass or request goes on (weak fairness: the event loop
runs every task); a dead task's lock runs out (its TTL); the sweep comes round
again while a row is resumable, and a claim that is allowed again and again is
made (strong fairness: the sweep repeats each interval, and a row without a
living heartbeat ages); a wait for a lock that is free again and again succeeds
(strong fairness, as acquisition blocks as long as the lock's TTL); a reconcile pass runs
with each sweep; a budget that is waited on runs out. In `Downloads` the steps
of a pass and of its heartbeat go on and time passes, but nothing says that a
fetch ever returns; a deletion of the agent that has begun goes on. A walk of
`PhaseOrder` is a call and goes on. Nothing is assumed of users, of settings, of
failures or of crashes.

**Where the code and its documents disagree.** Two runs are expected to be
violated: each checks one statement of the repository, which the finding in
`PROJECT.json` quotes.

| Run | Property | What the run shows |
|---|---|---|
| Livelock | `PassEnds` | embedding is stale, its points are lost, parsing is dispatched in its place and skipped by the guard as fresh, for ever |
| ResumedDeletion | `DroppedMeansClean` | the `deleted_phases` of an interrupted deletion survive a new upload, and the next deletion skips phases built since |

What distinguishes the passing runs that check `PassEnds` and
`DroppedMeansClean` is that there no points are lost under a pass (by a crash or
by settings that change while it runs) and no deletion is interrupted.

More disagreements were met while modelling. They have no run in this project;
each is what TLC reports when the property is put into the `.cfg` named, with
the constants given, by themselves as the only property.

| Statement | Property | Base, and what to change | In short |
|---|---|---|---|
| `docs/phase-contract.md:204` no state points at missing data | `NoDanglingComplete` | Machine | embedding deletes the points of complete parsing before it adds them again (`reembed.py:886`) |
| `registry.py:100` a crash in embedding leaves the chunks | `ChunksSurviveEmbeddingCrash` | Machine | a crash between that delete and the add |
| `docs/phase-contract.md:165` a previous boot's entry is abandoned | `PreviousBootIsAbandoned` | Machine, `PidReuse = TRUE` | a restarted container whose server has the same pid |
| `docs/phase-contract.md:104` a tag is of what made the data | `CompletedHasTaggedProducts` | Machine, `SettingsMayMove = TRUE` | the tag is computed when the body is over |
| `docs/phase-contract.md:149` no dependent runs before its upstream | `BodyBehindDependencies` | Machine, `FourPhases`, `GraphFirst`, `GraphOnCards` | phases run in registration order |
| the same | `BodyBehindDependencies` | Machine, `PidReuse = TRUE` | the entry of an earlier boot that looks alive is neither recovered nor stale, and its phase is passed over |
| the same | `BodyBehindDependencies` | Machine, `Deleters <- OneDeleter`, `MaxBoot = 0`, entrances with `"reindex"` | the points and the list of stale phases are read before the wait for the source lock (`reembed.py:2145`, `2222`) and not again under it: a re-ingest in between goes unnoticed, and a phase is dispatched while the ones before it are pending again |
| the same | `BodyBehindDependencies` | Machine, `Workers <- TwoWorkers`, `Procs <- TwoProcs`, `ProcOf <- Apart`, `MaxBoot = 2`, `MaxVersion = 1`, nothing that may fail, wait or not apply, entrances `"upload"`, `"resume"` | the same list is outlived by two crashes of the pass that holds the lock, with a recovery in between |
| `reembed.py:2227` trust the store, force a re-parse | `ForcedPassRefillsStore` | Machine, `StoreMayBeWiped = TRUE` | the guard skips it as complete |
| `reembed.py:2243` never terminalize a source mid-phase | `CompletedIsSettled` | ExpiredLocks, `LockMayExpire = FALSE`, `MaxVersion = 2`, `MaxBoot = 0`, entrances `"upload"`, `"resume"` | a fresh pass completes the row, without the lock, while another is at work |
| `docs/phase-contract.md:190` sequences and deletions never interleave | `NoInterleaving` | ExpiredLocks | the lock's TTL runs out under a long body; two passes at once then break `CompletedIsSettled`, `CompletedHasTaggedProducts` and `BodyBehindDependencies` too |
| `docs/phase-contract.md:167` an entry owned by a live owner is never touched | `LiveOwnerUntouched` | ExpiredLocks | recovery purges every later phase that has an entry, whoever runs it, and by what it read before its lock ran out (`reembed.py:1208`) |
| `reembed.py:1720` a derived status never overwrites `deleting` | `ExplicitStateOwned` | Deleting | completed is written over it without the lock |
| `docs/phase-contract.md:226` the next pass retries a failed deletion | `DeletionIsRetried` | Reindexing, `WipeMayFail = {embed}`, entrances with `"delete"`, `MaxBoot = 0` | no sweep takes up a deleting row |
| `README.md:67` only when its budget is exceeded does a waiting phase fail | `StartsWithinBudget` | Settling, `Spec`, `BodyMayFail = {}`, `GateMayVeto = FALSE`, `MayNotApply = {}` | nothing clears the hint of a wait that is over, and the next wait of the phase counts from there (`reembed.py:242`) |
| `docs/phase-contract.md:226` a failed deletion stays `deleting` until the next pass | `DeletionOutlivesReconcile` | Reconciling, `ReconcileSpec` | reconcile takes the row, and its progress, for that of a vanished source (`reconcile.py:66`) |
| `reembed.py:2254` a row left in flight over a finished diary is terminalized | `QuietRowIsTakenUp` | Heartbeats, `BeatFairSpec`, `MaxBoot = 0`, `MaxVersion = 1`, `StoreMayBeWiped = FALSE`, `BodyMayFail = {}`, entrances `"upload"`, `"resume"` | a tick stores back the diary it read before its pass wrote to it; the row stays in flight, and each sweep hands it to a pass that leaves it alone |
| `registry.py:614` a write without a diary never wipes one | `HeartbeatKeepsDiary` | Heartbeats | the torn tick |
| `reembed.py:2340` a claimed row is kept fresh | `WorkIsKeptFresh` | Heartbeats, `TwoWorkers` | two passes of a process share a heartbeat; the end of one stops it |
| the same | `WorkIsKeptFresh` | Heartbeats, the six phases below, `StoreMayBeWiped = FALSE` | a skip inherited after an error puts the row back to processing when its heartbeat has ended at the error |
| `reembed.py:910` the machine never advances an error row | `ErrorIsAbsorbing` | Machine, the six phases below, `MayWait = {}`, `PurgeMayFail = {}`, `GateMayVeto = FALSE` | the same |
| `resume.py:141` a missing file is marked on its row | `MarksOnlyEntries` | Deleting | a sweep's old list: the source is deleted, and `mark_file_missing` makes it a row anew |
| `resume.py:257` a live download is never re-claimed before it looks genuinely stale | `LiveDownloadIsKept` | Downloads, `Spec`, `Sweepers = {w2, w3}` | a pass that was overtaken fails and writes its error; the heartbeat of the pass that overtook it ends at the error, an older tick puts the row back to downloading, and nothing keeps it fresh |
| `reconcile.py:41` only vanished sources are purged | `PurgesOnlyVanished` | Reconciling | the row is judged before the wait for the lock |
| `endpoints.py:123` only terminal rows are dismissed | `DismissesOnlyTerminal` | Reconciling | the same |
| `registry.py:559` the status of a canceled agent is not written | `NoRowOutlivesAgent` | Downloads | the heartbeat looks at the marker, the agent is wiped, the heartbeat stores |
| `phases.py:957` phases without a declared relationship keep their registration order | `RegistrationOrderKept` | Ordering | a dependency registered late is pulled ahead of unrelated phases |
| `split.py:118` every chunk is at or under the limit | `EveryChunkWithinLimit` | Splitting | a single word over it |

The six phases: `Phases <- TwoBranches`, `MergedOrder <- CardsBetween`,
`DependsOn <- TwoBranchDeps`, `MayNotApply = {graph}`, `BodyMayFail = {embed}`,
`MaxVersion = 1`, entrances `"upload"`, `"resume"`.

Read in the code, and not shown by any run: `README.md:244` has an embedding
pass without a usable vector wait as `not_ready`, and the body raises, which is an
error; `README.md:126` has the wipe of an agent include the deletion marker,
which `clear_agent` puts back; `resume.py:305` has a failed phase leave its entry missing, so that it
is probed as stale, and the code records it as an `error` entry, which is never
stale by itself; a download that hangs in a living process ages as
`README.md:22` says, but a sweep that takes the row up finds the parsing entry
owned by a living process and leaves it; and the upload of a second worker that waits for the
source lock starts an unbounded heartbeat of its own, which keeps the row of a
hung download fresh all the while.

## Proofs

`IngestionProofs` proves, for any phases, dependencies, tasks, processes and
failures:

- `TypeCorrect`: `Spec => []TypeOK`. The type invariant is inductive by itself;
  the proof has a lemma for each operator of `Diary` and `SourceState` that makes
  a row, an entry or a store, and one step per action.
- `LockHolderAlone`: `Spec => []LockHeld` when `LockMayExpire = FALSE`. A task at
  work (in its part under the lock) holds the source lock. `LockHeld` with
  `TypeOK` is inductive: a lock is taken when it is free, left by its holder, or
  given up with the holder's death, which also ends its work.
- `MutualExclusion`: `Spec => []NoInterleaving`, at once from `LockHeld`. Without
  `LockHeld`, `NoInterleaving` is not inductive: nothing in it says that the
  lock of a task at work is not free.
- `NothingBuilt`: `Spec => NothingBuiltUnderWipe`. Only the bodies make products,
  they are under the lock, so by `LockHeld` no wipe is under way.

- `LockLeftByItsHolder` and `RecoverySparesTheLiving`, the two properties of
  ExpiredLocks, which need no such assumption: `Spec => LeavesOwnLock` from what
  every step does to the lock, and `Spec => LiveOwnerIsNoOrphan` in one pod, as
  the phase that sets recovery off is the first of those it purges, and a living
  owner's process has not restarted.

For the three in between, `LockMayExpire = FALSE` is needed: with the constants of ExpiredLocks
`NoInterleaving` is violated. It says that a phase body and a deletion last less than
`CAT_INGESTION_LOCK_TIMEOUT_SECONDS`.

`LifecycleProofs` assumes `Alone`, at most one worker and no deletion, and
nothing of locks: failures, crashes, expiring locks, leases and settings are as
free as in `Spec`.

- `CompletedSettled`: `Spec => []CompletedIsSettled`. Alone it is not inductive:
  that a pass writes completed over a settled diary depends on what it has seen
  since it claimed the row. The invariant `RowIsKnown` says what the pass knows at each
  label: past the claim the row is not completed, the phase of a running body
  is processing, and at the gate the row is in flight over a settled diary. It is
  what two workers break (with the constants of the table above).
- `ImplementsLifecycle`: `Spec => FollowsLifecycle`, that is
  `Spec => Lifecycle!Spec` under the mapping of `row` to `status` and `outcome`.
  Each step of a pass is a step of the abstract source or leaves it as it was,
  by `RowIsKnown`; a crash, a lock, a lease and a setting leave it as it was.

`ProductProofs` is about what is made of a source and what is left of it.

- `DroppedClean`: `Spec /\ NoWipeCutShort => DroppedMeansClean` when
  `LockMayExpire = FALSE`, for any number of workers and requests.
  `NoWipeCutShort` is an assumption on behaviours: no wipe fails, and no process
  dies in one or between the wipe of a reset and the write that takes the row back to
  processing. Each that does leaves its `deleted_phases` in the row, which run
  ResumedDeletion shows to be enough to break the property. The inductive
  invariant, `WipeLeavesNothing`, needs `LockHeld`: there is no progress in the
  row but from a wipe to the end of its reset, and what a wipe has passed is gone.
- `DependenciesFirst`: `Spec => BodyBehindDependencies` under `OneAtATime`, which
  is `Alone`, no reused pid, and dependencies that are registered before their
  dependents (`DependenciesRegisteredFirst`, what `DependenciesComeFirst` gives
  for the catalogue's order when there is no cycle). The two last assumptions
  cannot be dropped, as the table above says of each; nor can `Alone`, as a pass
  that has waited for the lock works off what it read before. What is hard is the entry that an
  earlier pass left in the middle: the invariant `DispatchIsKnown` says that every
  entry still processing at a claim belongs to a process that is gone, that recovery
  therefore purges it with everything after it, and that at the loop nothing before the phase
  dispatched is pending or processing. It covers crashes in the middle of a
  recovery, and recoveries that fail.
- `CompletedProductsTagged`: `Spec => []CompletedHasTaggedProducts` under
  `Undisturbed`, which adds that settings stand still under a pass and that the
  store keeps what it is given. (The first is needed, by the table; the second
  is a matter of course, as a completed row does not notice what its store loses.) The
  property is about completed rows, but a phase may lack its product while its entry reads
  complete: the invariant `ProductsAreKnown` says that this is so only below a
  phase that is still processing, which the next recovery purges, and what
  each label of the bodies of parsing and embedding has in the store, the two sharing
  the stored points.

`DownloadsProofs` proves, for every interval, age and life of a heartbeat that
`DownloadsAssumption` admits,

- `DownloadTypeCorrect`: `Spec => []DownloadTypeOK`, for any workers.
- `GhostStaysDead`: `Spec => GhostIsNotResumed`, for any workers. It rests on what
  each step does to a pass that is idle: of an agent that is gone, there is no
  step that moves it.
- `EntitledDownloadKept`: `Spec => LiveDownloadIsKept` for one worker that
  uploads and one that sweeps (for a second that sweeps it fails, as the table
  above has it). The property is not inductive, as nothing in it says why a row is
  young. `DownloadEntitled` does: while the uploader's claim stands, the row's age
  and what is left until the next tick add up to no more than `Interval`, and what is left of the
  heartbeat's life is at least what is left of the download's. A sweep claims a
  row of age `BootStale`, which is more than `Interval`: that, and nothing else
  about the four times, is what keeps the download.

`HeartbeatProofs` proves `BeatTypeCorrect` without assumptions, and under `Alone`

- `WorkKeptFresh`: `BeatSpec => []WorkIsKeptFresh`, if no phase is ever skipped
  (`MayNotApply = {}`). The invariant `KeptFreshInv` adds that the diary holds no
  skip, and that a row that is claimed is in flight, with its heartbeat, or has
  ended for good: only an inherited skip writes processing over an error, which
  has stopped the heartbeat. That is what the six phases above do, so the
  assumption cannot be dropped.

`ReconcileProofs` proves `RemovalTypeCorrect`, for any tasks, and when
`LockMayExpire = FALSE` that mutual exclusion holds beside removals
(`LockHolderAloneBesideRemovals`) and so `RemovalsWait`:
`ReconcileSpec => RemovalWaitsForWork`. The invariant is `LockHeld` again: a row is
removed only when the lock is free, so by `LockHeld` nobody is at work.

`PhaseOrderProofs` proves five properties of `PhaseOrder` for any phases and
any graph: `OrderTypeCorrect`, `EachPhaseOnce`, `DependenciesComeFirst`,
`TagsAreResolved` and `DownstreamFound`. The invariant says that the stack is a
path (each phase on it needs those above it), that no phase is on it and
visited at once, and that what has been visited came after its dependencies,
except those that need it in turn. So a dependency found on the stack closes a
cycle; one that is not has been visited. "Needs" is the least closed set, so the
two directions are a closed set each: the phases visited up to one of them show
that it does not need itself, and the phases never found below the origin that
they do not need it. That depths are numbers rests on the maximum of a bounded
set, which is had from the well-founded order of the naturals.

`TokenSplitProofs` proves `SplitTypeCorrect`, `SearchIsSound`, `ChunksFit` and
`NoWordLost` (`Spec => []WordsKept`: each chunk begins where the last one ended)
for any documents, any positive guess and any monotone count of tokens
(`TokensAssumption`). The inductive invariant adds to the three that a search is
under way only before the end of the document; monotonicity is what carries
"does not fit" from the middle of the search to everything above it.

**Only model-checked**: all liveness (`PassEnds`, `RowSettles`, `ReindexEnds`,
`VanishedIsCollected`, `Terminates`, `WalkEnds`, and of `Downloads` `HungDownloadAges`,
`DeadDownloadIsTakenUp` and `CanceledWorkEnds`: liveness and `ENABLED` are out of the
prover's reach), and the safety properties beyond the assumptions of their
theorems: `WorkIsKeptFresh` where phases are skipped, `FollowsLifecycle`,
`CompletedIsSettled`, `CompletedHasTaggedProducts` and `BodyBehindDependencies` with more than one task,
in so far as they hold there at all.
Induction over data is out of reach too: `Depth` is a recursive function, of
which the proofs use only that it orders phases.

## Not modelled

- *Hook dispatch* (`hooks.py`): which registrant is called and with which
  keyword is decided by the shape of a Python signature and by the host's plugin
  managers; the phases that result are the constants here.
- *Legacy diaries*: entries without a tag, their comparison by marker and their
  back-fill. Every entry here has a tag.
- *The content of a file*: a file uploaded again with another content has the
  same name, and its diary stays fresh.
- *Conversations*: the wipe of one (`clear_chat`), its orphans. A source in a
  conversation has a row, a lock and a diary of its own, like any other.
- *URLs that resolve to another name*, and what the downloaded bytes say.
- *The standard deletion*, which applies when the phase path is not active and
  does not touch the diary.
- Warnings, empty output, vectors and images (`Embedding arithmetic`): data that
  no property here tells apart. The maintenance CLI, the executor, the
  configuration and the catalogues keep no state of a source.

## Plan

1. (done) `Diary`, `SourceState`, `PhaseMachine`, `Deletion`, `Ingestion`, their
   runs and the first proofs; `Heartbeat`, `Reconcile`, `TokenSplit`.
2. (done) Waits for phases that are not ready; `Downloads` with the teardown of
   an agent; `PhaseOrder`; the abstract `SourceLifecycle` and the refinement;
   sweeps that work off an old list. Left: hook dispatch, legacy entries, the
   content of a file, a lock service as the abstraction of `sourceLock`.
3. (begun) More proofs: every safety property of the runs, and every action
   property, now has a theorem. Left: the same with several workers and no
   expiring locks, where a property holds (`BodyBehindDependencies` and
   `CompletedHasTaggedProducts` did in every instance tried of two workers in
   two processes that crash once each, and the first fails with two, or with a re-ingest); `WorkIsKeptFresh` for linear phases that are skipped; a lock
   service of which `sourceLock` is the refinement.
