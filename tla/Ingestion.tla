----------------------------- MODULE Ingestion -----------------------------
(***************************************************************************)
(* One source of one agent under the whole of the plugin: the workers that *)
(* run the phase machine, the requests that delete or re-ingest it, and    *)
(* what happens around them (crashes, lock TTLs, leases, settings).        *)
(***************************************************************************)
EXTENDS PhaseMachine, Deletion

CONSTANTS
    StoreMayBeWiped, \* the vector store may lose the source's points
    LeasesMayAge,    \* a phase may be processing for longer than its lease
    SettingsMayMove, \* settings may change while a pass is under way
    Entrances        \* which of the starts the instance explores

Starts == {"upload", "resume", "revalidate", "reembed",
           "delete", "reindex", "recover"}

ASSUME EnvironmentAssumption ==
    /\ StoreMayBeWiped \in BOOLEAN /\ LeasesMayAge \in BOOLEAN
    /\ SettingsMayMove \in BOOLEAN
    /\ Entrances \subseteq Starts

vars == << row, store, file, settings, boot, sourceLock, phaseLock,
           pass, req >>

TypeOK == SharedTypeOK /\ PassTypeOK /\ ReqTypeOK

Init == SharedInit /\ PassInit /\ ReqInit

----------------------------------------------------------------------------
(* What happens around the tasks.                                          *)

(* A process dies with all its tasks; the locks they held stay taken until *)
(* their TTL runs out.                                                     *)
Orphan(holder, tasks) == IF holder \in tasks THEN DeadTask ELSE holder

Crash(proc) ==
    LET tasks == {t \in Tasks : ProcOf[t] = proc}
    IN  /\ boot[proc] < MaxBoot
        /\ boot' = [boot EXCEPT ![proc] = @ + 1]
        /\ pass' = [w \in Workers |->
                       IF w \in tasks THEN IdlePass ELSE pass[w]]
        /\ req' = [d \in Deleters |-> IF d \in tasks THEN IdleReq ELSE req[d]]
        /\ sourceLock' = Orphan(sourceLock, tasks)
        /\ phaseLock' = [p \in Phases |-> Orphan(phaseLock[p], tasks)]
        /\ UNCHANGED << row, store, file, settings >>

Expirable(holder) ==
    holder = DeadTask \/ (LockMayExpire /\ holder \in Tasks)

SourceLockExpires ==
    /\ Expirable(sourceLock)
    /\ sourceLock' = NoTask
    /\ UNCHANGED << row, store, file, settings, boot, phaseLock, pass, req >>

PhaseLockExpires(p) ==
    /\ Expirable(phaseLock[p])
    /\ phaseLock' = [phaseLock EXCEPT ![p] = NoTask]
    /\ UNCHANGED << row, store, file, settings, boot, sourceLock, pass, req >>

(* A phase has been processing for longer than the phase lease.            *)
LeaseAges(p) ==
    /\ LeasesMayAge
    /\ row.diary[p].state = "processing" /\ ~row.diary[p].aged
    /\ row' = [row EXCEPT !.diary[p].aged = TRUE]
    /\ UNCHANGED << store, file, settings, boot, sourceLock, phaseLock,
                    pass, req >>

(* The first wait of the phase named by the hint is a budget ago: whether  *)
(* or not that phase is still waiting, for nothing clears the hint.        *)
BudgetRunsOut ==
    /\ row.retry # {} /\ ~row.overdue
    /\ row' = [row EXCEPT !.overdue = TRUE]
    /\ UNCHANGED << store, file, settings, boot, sourceLock, phaseLock,
                    pass, req >>

SettingsChange(p) ==
    /\ settings[p] < MaxVersion
    /\ SettingsMayMove \/ \A w \in Workers : At(w, "idle")
    /\ settings' = [settings EXCEPT ![p] = @ + 1]
    /\ UNCHANGED << row, store, file, boot, sourceLock, phaseLock, pass, req >>

(* The points are lost, between two passes, while the diary stays.         *)
StoreWiped ==
    /\ StoreMayBeWiped /\ HasStoredPoints
    /\ \A w \in Workers : At(w, "idle")
    /\ store' = Without(store, Chunks)
    /\ UNCHANGED << row, file, settings, boot, sourceLock, phaseLock,
                    pass, req >>

Environment ==
    \/ \E proc \in Procs : Crash(proc)
    \/ SourceLockExpires \/ BudgetRunsOut
    \/ \E p \in Phases :
          PhaseLockExpires(p) \/ LeaseAges(p) \/ SettingsChange(p)
    \/ StoreWiped

----------------------------------------------------------------------------
(* The sweep recovers, revalidates and re-embeds; a user uploads, deletes. *)
Enter(w) ==
    \/ "upload" \in Entrances /\ UploadStart(w)
    \/ "resume" \in Entrances /\ ResumeList(w)
    \/ "revalidate" \in Entrances /\ RevalidateList(w)
    \/ "reembed" \in Entrances /\ ReembedStart(w)

Request(d) ==
    \/ "delete" \in Entrances /\ DeleteStart(d)
    \/ "reindex" \in Entrances /\ ReindexStart(d)
    \/ "recover" \in Entrances /\ RecoverReindexStart(d)

(* A pass may wait for an entrance for ever: stuttering stands for that.   *)
Next ==
    \/ \E w \in Workers :
          (Enter(w) /\ UNCHANGED req)
          \/ ((BeforeLock(w) \/ UnderLock(w)) /\ UNCHANGED req)
    \/ \E d \in Deleters :
          (Request(d) \/ ServeRequest(d)) /\ UNCHANGED pass
    \/ Environment

Spec == Init /\ [][Next]_vars

----------------------------------------------------------------------------
(* Fairness.  A pass and a request that were started go on (the event loop *)
(* runs every task), a dead task's lock runs out, and the periodic sweep   *)
(* comes round again.  A row in flight is refused to the sweep while its   *)
(* heartbeat is fresh; strong fairness of the claim says that it ages      *)
(* before the sweep gives up, and of the lock that a wait for it succeeds  *)
(* when it is free again and again.  Nothing is assumed of users, of       *)
(* settings or of failures.                                                *)

Sweep(w) == "resume" \in Entrances /\ ResumeList(w) /\ UNCHANGED req

SweepReindexing(d) ==
    "recover" \in Entrances /\ RecoverReindexStart(d) /\ UNCHANGED pass

PassFairness(w) ==
    /\ WF_vars((BeforeLock(w) \/ UnderLock(w)) /\ UNCHANGED req)
    /\ SF_vars(LockSource(w) /\ UNCHANGED req)
    /\ SF_vars(Claim(w) /\ UNCHANGED req)
    /\ SF_vars(Sweep(w))

RequestFairness(d) ==
    /\ WF_vars(ServeRequest(d) /\ UNCHANGED pass)
    /\ SF_vars(ReqLock(d) /\ UNCHANGED pass)
    /\ SF_vars(SweepReindexing(d))

Fairness ==
    /\ \A w \in Workers : PassFairness(w)
    /\ \A d \in Deleters : RequestFairness(d)
    /\ WF_vars(SourceLockExpires) /\ WF_vars(BudgetRunsOut)
    /\ \A p \in Phases : WF_vars(PhaseLockExpires(p))

FairSpec == Spec /\ Fairness

----------------------------------------------------------------------------
(* Properties.  Who is at work on the source's artifacts and diary:        *)

AtWork(t) == \/ t \in Workers  /\ pass[t].pc \in Locked
             \/ t \in Deleters /\ req[t].pc \in ReqLocked

InBody(w, p) == pass[w].pc \in BodyLabels /\ pass[w].cur = p

(* A task is at work only while the source lock is its own: so a task that *)
(* is at work keeps out every other.                                       *)
LockHeld == \A t \in Tasks : AtWork(t) => sourceLock = t

(* docs/phase-contract.md section 5: a per-source phase sequence and a     *)
(* deletion or re-ingest, or two phase sequences, never interleave.  True  *)
(* as long as no lock's TTL runs out under a task that still works.        *)
NoInterleaving ==
    \A t, u \in Tasks : AtWork(t) /\ AtWork(u) => t = u

(* Section 3: a phase body is started only when every dependency of its    *)
(* phase is complete in the diary, whatever failed, was skipped, was       *)
(* recovered or went stale before.                                         *)
BodyBehindDependencies ==
    [][\A w \in Workers :
          pass[w].pc = "loop" /\ pass'[w].pc \in BodyLabels =>
             \A p \in Deps(pass'[w].cur) :
                row.diary[p].state = "complete"]_vars

(* Section 4 and should_abandon: ownership is the primary signal, the       *)
(* lease a fallback.  So recovery is never set off by a phase that a living *)
(* worker of the same pod is running under an entry of its own, however    *)
(* long it runs and whatever has become of its locks.                      *)
LiveOwnerIsNoOrphan ==
    [][\A w, v \in Workers, p \in Phases :
          At(w, "recover") /\ pass'[w].pc = "purge" /\ IsEarliest(p, pass'[w].todo)
          => ~(InBody(v, p) /\ row.diary[p].owner = Owner(v))]_vars

(* source_lock: a task that leaves the lock after its TTL ran out does not *)
(* free the lock of the task that has it now: but for its TTL, a task      *)
(* loses the lock only as it comes to its own end.                         *)
LeavesOwnLock ==
    [][\A t \in Tasks :
          sourceLock = t /\ sourceLock' # t /\ << pass, req >>' # << pass, req >>
          => ~AtWork(t)']_vars

(* Section 1 and _refresh_source_status: a source reads completed only     *)
(* while every phase of its diary is complete or skipped, so an error is   *)
(* never resurrected and no pass is declared over while it is under way.   *)
(* (The claim of a completed row puts it back to processing first.)        *)
CompletedIsSettled ==
    row.status = "completed" =>
       \A p \in Phases : row.diary[p].state \in {"complete", "skipped"}

(* Section 2: of a completed source, the stored products of every complete *)
(* phase were made with the settings its diary entry is tagged with; so no *)
(* product is missing, and none is older than its tag says.                *)
CompletedHasTaggedProducts ==
    row.status = "completed" =>
       \A p \in Phases :
          row.diary[p].state = "complete" => store[p] = row.diary[p].tag[p]

(* Section 5: while a deletion or a re-ingest wipes the source, no phase   *)
(* body makes a product that the wipe would then leave behind.             *)
NothingBuiltUnderWipe ==
    [][\A p \in Phases : store[p] = Nothing /\ store'[p] # Nothing =>
          \A d \in Deleters : req[d].pc # "wipe"]_vars

(* Section 7: the record of a source is removed only after every phase's   *)
(* products were, those of phases that never completed included.           *)
DroppedMeansClean ==
    [][\A d \in Deleters :
          req[d].pc = "wipe" /\ req'[d].pc = "points" =>
             store = EmptyStore]_vars

----------------------------------------------------------------------------
(* What a client sees of the source.                                       *)

OutcomeSeen(state) ==
    CASE state = "complete" -> "done"
      [] state = "error" -> "failed"
      [] state = "skipped" -> "skipped"
      [] OTHER -> "open"

Lifecycle == INSTANCE SourceLifecycle WITH
    Needs   <- [p \in Phases |-> Deps(p)],
    status  <- row.status,
    outcome <- [p \in Phases |-> OutcomeSeen(row.diary[p].state)]

(* Section 1 and _phase_guard: passes, their recovery and their crashes,   *)
(* seen through the row, are the life of a source as SourceLifecycle has   *)
(* it: a failure is neither forgotten nor run over by a later pass, and    *)
(* no phase of a completed source moves before it is taken up again.       *)
FollowsLifecycle == Lifecycle!Spec

----------------------------------------------------------------------------
(* Liveness.                                                               *)

(* _phase_guard: probe and guard never contradict each other, so no pass   *)
(* dispatches for ever: every pass over the source comes to an end.        *)
PassEnds == \A w \in Workers : pass[w].pc # "idle" ~> pass[w].pc = "idle"

(* resume.py: a row that is in flight does not stay so for ever; the sweep *)
(* brings it to completed or to error (or a request takes it over).        *)
RowSettles == row.status \in InFlight ~> row.status \notin InFlight

(* Section 7: a reindexing row left by a crash is reset once its owner is  *)
(* provably gone.                                                          *)
ReindexEnds == row.status = "reindexing" ~> row.status # "reindexing"

----------------------------------------------------------------------------
(* What the documents say of the source and the code does not keep: see   *)
(* the README, which gives the constants that show each.                   *)

(* Section 6: at no time does a complete entry describe products that are  *)
(* not in the store.                                                       *)
NoDanglingComplete ==
    \A p \in Phases : row.diary[p].state = "complete" => store[p] # Nothing

(* Section 4: recovery (_recover_abandoned_phases) never touches a phase   *)
(* whose owner is alive; it purges no product that one is just making.     *)
LiveOwnerUntouched ==
    [][\A w \in Workers, p \in Phases :
          (At(w, "purge") /\ pass'[w].pc # "idle"
             /\ p \in pass[w].todo \ pass'[w].todo)
          => \A v \in Workers \ {w} : ~InBody(v, p)]_vars

(* registry.py on the phase constants: when a crash interrupts embedding,  *)
(* the chunks are intact and only the vectors must be recomputed.          *)
ChunksSurviveEmbeddingCrash ==
    (row.diary[Embedding].state = "processing"
       /\ row.diary[Parsing].state = "complete"
       /\ \A w \in Workers : ~InBody(w, Embedding))
    => HasStoredPoints

(* should_abandon and section 4: an entry left processing by a previous    *)
(* boot of the process that judges it is abandoned.                        *)
PreviousBootIsAbandoned ==
    \A t \in Tasks, p \in Phases :
       LET owner == row.diary[p].owner
       IN  row.diary[p].state = "processing" /\ owner.proc = ProcOf[t]
              /\ owner.boot # boot[ProcOf[t]]
           => ShouldAbandon(row.diary[p], ProcOf[t], boot)

(* reembed_sources: a pass that finds a fresh diary over an empty store     *)
(* trusts the store: it does not get as far as completing the source       *)
(* without having parsed it again.                                         *)
ForcedPassRefillsStore ==
    \A w \in Workers : pass[w].forced /\ At(w, "gate") => HasStoredPoints

(* README.md, ingestion_phase_run: a phase that is not ready is retried,    *)
(* bounded by its budget, and only then the row becomes error.  So a body  *)
(* that is started (and resumes no crashed one) has its budget before it.  *)
StartsWithinBudget ==
    [][\A w \in Workers :
          pass[w].pc = "loop" /\ pass'[w].pc = "run"
          => ~(row'.overdue /\ pass'[w].cur \in row'.retry)]_vars

(* _should_stop_for_error: the phase machine never advances an error row;   *)
(* what a pass made an error stays one until the pass is over.             *)
ErrorIsAbsorbing ==
    [][\A w \in Workers :
          At(w, "loop") /\ row.status = "error" /\ pass'[w].pc # "idle"
             /\ pass'[w] # pass[w]
          => row'.status = "error"]_vars

(* mark_file_missing: what it marks as an error is an entry whose file is  *)
(* gone, and not a source that was deleted since the sweep listed it.      *)
MarksOnlyEntries ==
    [][\A w \in Workers :
          At(w, "handed") /\ pass'[w].pc = "idle" /\ row' # row
          => Present]_vars

(* _refresh_source_status: deleting and reindexing are explicit states,    *)
(* their driver owns the next transition; no pass overwrites one.          *)
ExplicitStateOwned ==
    [][\A w \in Workers :
          row.status \in Explicit /\ pass[w].pc \notin {"idle", "persist"}
             /\ pass'[w] # pass[w]
          => row'.status = row.status]_vars

(* Section 7: a row left deleting by a phase whose delete failed is taken  *)
(* up by a later pass, which retries the remaining phases.                 *)
DeletionIsRetried ==
    \A d \in Deleters :
       (row.status = "deleting" /\ req[d].pc = "idle")
          ~> (row.status # "deleting" \/ req[d].pc # "idle")
=============================================================================
