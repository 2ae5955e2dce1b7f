---------------------------- MODULE PhaseMachine ----------------------------
(***************************************************************************)
(* The phase machine, reembed.reembed_sources, as each worker runs it on   *)
(* the source, and what hands it the source: an upload (ingest_file), the  *)
(* recovery and revalidation sweeps (resume.py) and the full re-embed      *)
(* (EfficientIngestionEngine.run).  One action per stretch of a pass that  *)
(* another worker, or a crash, cannot get into.                            *)
(***************************************************************************)
EXTENDS SourceState

CONSTANTS
    MayNotApply,  \* phases that may report that they do not apply
    BodyMayFail,  \* phases whose body may raise or report an error
    MayWait,      \* phases that may report that they are not ready yet
    PurgeMayFail, \* phases whose purge may raise
    GateMayVeto   \* before_ingestion_status_completed may refuse

ASSUME FaultsAssumption ==
    /\ MayNotApply \subseteq Phases \ Chunks
    /\ MayWait \subseteq Phases \ Chunks
    /\ BodyMayFail \subseteq Phases /\ PurgeMayFail \subseteq Phases
    /\ GateMayVeto \in BOOLEAN

VARIABLE pass \* per worker, the local state of its pass over the source

----------------------------------------------------------------------------
Kinds == {"none", "upload", "resume", "revalidate", "reembed"}

(* Where a pass stands.  It holds the source lock in Locked, unless the    *)
(* lock expired; "refresh", "gate" and "exit" are also reached without it. *)
BodyLabels == {"sweep", "reset", "build", "replace", "restore", "run", "wait"}
Locked     == BodyLabels \cup {"claim", "recover", "purge", "loop", "record",
                              "blame"}
Labels     == Locked \cup {"idle", "listed", "handed", "persist", "begin",
                           "probe", "lock", "refresh", "gate", "exit"}

Passes ==
    [pc       : Labels,
     kind     : Kinds,
     seen     : Statuses,        \* the status the first probe read
     pending  : SUBSET Phases,   \* stale phases, picked in merged order
     cur      : Phases,          \* the phase whose body is running
     snapshot : 0 .. MaxVersion, \* existing_points, read as the pass starts
     embedder : 0 .. MaxVersion, \* the embedder, resolved as the pass starts
     stored   : 0 .. MaxVersion, \* stored_points, left by the parsing body
     forced   : BOOLEAN,         \* store_empty_forced
     todo     : SUBSET Phases,   \* abandoned products still to be purged
     purged   : SUBSET Phases,
     failed   : SUBSET Phases]

IdlePass ==
    [pc |-> "idle", kind |-> "none", seen |-> "absent", pending |-> {},
     cur |-> Parsing, snapshot |-> 0, embedder |-> 0, stored |-> 0,
     forced |-> FALSE, todo |-> {}, purged |-> {}, failed |-> {}]

PassTypeOK == pass \in [Workers -> Passes]
PassInit   == pass = [w \in Workers |-> IdlePass]

At(w, label) == pass[w].pc = label
Goto(w, label) == pass' = [pass EXCEPT ![w].pc = label]
Stop(w) == pass' = [pass EXCEPT ![w] = IdlePass]
Start(w, kind, label) ==
    pass' = [pass EXCEPT ![w] = [IdlePass EXCEPT !.kind = kind, !.pc = label]]

----------------------------------------------------------------------------
(* What hands the source to the machine.                                   *)

(* rabbithole_ingestion_start writes the row whatever state it was in.     *)
UploadStart(w) ==
    /\ At(w, "idle")
    /\ row' = SetStatus(row, "uploaded")
    /\ Start(w, "upload", "persist")
    /\ UNCHANGED << store, file, settings, boot, sourceLock, phaseLock >>

(* save_file, then rabbithole_ingestion_processing.                        *)
UploadPersist(w) ==
    /\ At(w, "persist")
    /\ file' = TRUE
    /\ row' = SetStatus(row, "processing")
    /\ Goto(w, "begin")
    /\ UNCHANGED << store, settings, boot, sourceLock, phaseLock >>

(* An error row is handed over only while its diary shows a stale phase.   *)
Resumable(w) ==
    \/ row.status \in InFlight
    \/ row.status = "error" /\ Stale(w, row.diary) # {}

(* A sweep lists the rows once and works its list off, so it comes to the  *)
(* source with what the list said of it; of a completed row it claims, the *)
(* machine sees the claim.                                                 *)
ResumeList(w) ==
    /\ At(w, "idle") /\ Resumable(w)
    /\ Start(w, "resume", "handed")
    /\ UNCHANGED shared

RevalidateList(w) ==
    /\ At(w, "idle") /\ row.status = "completed" /\ Stale(w, row.diary) # {}
    /\ Start(w, "revalidate", "listed")
    /\ UNCHANGED shared

(* This claim has no bound on the row's age (stale_after is 0): it refuses *)
(* no row in flight, but one a pass has just created.                      *)
RevalidateClaim(w) ==
    /\ At(w, "listed") /\ row.status \in InFlight \cup Terminal
    /\ row' = [row EXCEPT !.status = "processing"]
    /\ Goto(w, "handed")
    /\ UNCHANGED << store, file, settings, boot, sourceLock, phaseLock >>

RevalidateRefused(w) ==
    /\ At(w, "listed")
    /\ \/ row.status \notin InFlight \cup Terminal
       \/ row.created /\ row.status \in InFlight
    /\ Stop(w)
    /\ UNCHANGED shared

HandOver(w) ==
    /\ At(w, "handed") /\ file
    /\ Goto(w, "begin")
    /\ UNCHANGED shared

MarkFileMissing(w) ==
    /\ At(w, "handed") /\ ~file
    /\ row' = SetStatus(row, "error")
    /\ Stop(w)
    /\ UNCHANGED << store, file, settings, boot, sourceLock, phaseLock >>

ReembedStart(w) ==
    /\ At(w, "idle") /\ HasStoredPoints
    /\ Start(w, "reembed", "begin")
    /\ UNCHANGED shared

----------------------------------------------------------------------------
(* Before the source lock: the snapshot and the first probe.               *)

Begin(w) ==
    /\ At(w, "begin")
    /\ pass' = [pass EXCEPT ![w] =
                   [@ EXCEPT !.pc = "probe", !.snapshot = store[Parsing],
                             !.embedder = settings[Embedding]]]
    /\ UNCHANGED shared

QueueFor(w, S, forced) ==
    pass' = [pass EXCEPT ![w] =
                [@ EXCEPT !.pc = "lock", !.seen = row.status,
                          !.pending = S, !.forced = forced]]

ProbeExplicit(w) ==
    /\ At(w, "probe") /\ row.status \in Explicit
    /\ Stop(w)
    /\ UNCHANGED shared

ProbeNoRow(w) ==
    /\ At(w, "probe") /\ ~Present
    /\ QueueFor(w, {IF pass[w].snapshot # Nothing THEN Embedding ELSE Parsing},
                FALSE)
    /\ UNCHANGED shared

ProbeStale(w) ==
    /\ At(w, "probe") /\ Present /\ row.status \notin Explicit
    /\ Stale(w, row.diary) # {}
    /\ QueueFor(w, Stale(w, row.diary), FALSE)
    /\ UNCHANGED shared

(* The diary is fresh but the store holds no chunk.                        *)
ProbeStoreEmpty(w) ==
    /\ At(w, "probe") /\ Present /\ row.status \notin Explicit
    /\ Stale(w, row.diary) = {} /\ ~HasStoredPoints
    /\ QueueFor(w, Chunks, TRUE)
    /\ UNCHANGED shared

(* Mutant of ProbeFresh: a row left in flight is left as it is.            *)
ProbeFreshSkips(w) ==
    /\ At(w, "probe") /\ Present /\ row.status \notin Explicit
    /\ Stale(w, row.diary) = {} /\ HasStoredPoints
    /\ Stop(w)
    /\ UNCHANGED shared

(* Up to date: a row left in flight is settled, without any lock.          *)
ProbeFresh(w) ==
    /\ At(w, "probe") /\ Present /\ row.status \notin Explicit
    /\ Stale(w, row.diary) = {} /\ HasStoredPoints
    /\ IF Running(w, row.diary) \/ row.status \in Terminal
       THEN Stop(w)
       ELSE Goto(w, "refresh")
    /\ UNCHANGED shared

(* Mutant of LockSource: the lock is not waited for.                       *)
LockSourceAnyway(w) ==
    /\ At(w, "lock")
    /\ sourceLock' = w
    /\ Goto(w, "claim")
    /\ UNCHANGED << row, store, file, settings, boot, phaseLock >>

LockSource(w) ==
    /\ At(w, "lock") /\ sourceLock = NoTask
    /\ sourceLock' = w
    /\ Goto(w, "claim")
    /\ UNCHANGED << row, store, file, settings, boot, phaseLock >>

(* A lock's TTL and the time its acquisition blocks are the same, so only   *)
(* a lock that living tasks keep taking is waited for in vain.             *)
LockSourceTimeout(w) ==
    /\ At(w, "lock") /\ sourceLock \in Tasks
    /\ Stop(w)
    /\ UNCHANGED shared

----------------------------------------------------------------------------
(* claim_source_for_resume.  Whether a row in flight is fresh depends on   *)
(* its heartbeat, hence on time: both outcomes are possible.               *)

Claimable(w) ==
    \/ ~Present /\ pass[w].seen = "absent"
    \/ row.status \in InFlight \cup {"error"}
    \/ row.status = "completed" /\ pass[w].seen = "completed"

MayBeFresh(w) ==
    /\ row.status \in InFlight \cup {"error"}
    /\ \/ pass[w].kind \in {"resume", "reembed"} \* stale_after > 0
       \/ row.created /\ row.status \in InFlight

Claim(w) ==
    /\ At(w, "claim") /\ Claimable(w)
    /\ row' = [row EXCEPT !.status = "processing", !.created = @ \/ ~Present]
    /\ Goto(w, "recover")
    /\ UNCHANGED << store, file, settings, boot, sourceLock, phaseLock >>

ClaimRefused(w) ==
    /\ At(w, "claim") /\ (~Claimable(w) \/ MayBeFresh(w))
    /\ Goto(w, "exit")
    /\ UNCHANGED shared

----------------------------------------------------------------------------
(* _recover_abandoned_phases: purge the earliest abandoned phase and every *)
(* later phase that has an entry, later phases first; then, once the data  *)
(* is gone, drop the entries.                                              *)

Orphaned(w) == Abandoned(row.diary, ProcOf[w], boot)

(* `first` and the later phases that have an entry.                        *)
FromOnward(first) ==
    {p \in Phases : /\ p = first \/ Before(first, p)
                    /\ row.diary[p].state # "pending"}

RecoverNothing(w) ==
    /\ At(w, "recover") /\ Orphaned(w) = {}
    /\ Goto(w, "loop")
    /\ UNCHANGED shared

RecoverStart(w) ==
    /\ At(w, "recover")
    /\ \E first \in Orphaned(w) :
          /\ IsEarliest(first, Orphaned(w))
          /\ pass' = [pass EXCEPT ![w] =
                         [@ EXCEPT !.pc = "purge", !.todo = FromOnward(first)]]
    /\ UNCHANGED shared

Purge(w) ==
    /\ At(w, "purge")
    /\ \E p \in pass[w].todo :
          /\ IsLatest(p, pass[w].todo)
          /\ store' = PurgedBy(store, p)
          /\ pass' = [pass EXCEPT ![w] =
                 [pass[w] EXCEPT !.todo = @ \ {p}, !.purged = @ \cup {p}]]
    /\ UNCHANGED << row, file, settings, boot, sourceLock, phaseLock >>

PurgeFails(w) ==
    /\ At(w, "purge")
    /\ \E p \in pass[w].todo \cap PurgeMayFail :
          /\ IsLatest(p, pass[w].todo)
          /\ pass' = [pass EXCEPT ![w] =
                 [pass[w] EXCEPT !.todo = @ \ {p}, !.failed = @ \cup {p}]]
    /\ UNCHANGED shared

(* A phase that could not be purged stays processing, with no owner and an *)
(* expired lease, and this pass dispatches nothing.                        *)
AfterPurge(w) ==
    LET reset == ResetPhaseEntries(row, pass[w].purged)
    IN  IF pass[w].failed = {} THEN reset
        ELSE [SetStatus(reset, "processing") EXCEPT
                 !.diary = [p \in Phases |->
                     IF p \in pass[w].failed THEN PurgeFailed ELSE @[p]]]

PurgeDone(w) ==
    /\ At(w, "purge") /\ pass[w].todo = {}
    /\ row' = AfterPurge(w)
    /\ pass' = [pass EXCEPT ![w] =
                   [@ EXCEPT
                      !.pc = IF pass[w].failed = {} THEN "loop" ELSE "exit",
                      !.pending = Stale(w, AfterPurge(w).diary),
                      !.purged = {}, !.failed = {}]]
    /\ UNCHANGED << store, file, settings, boot, sourceLock, phaseLock >>

----------------------------------------------------------------------------
(* The serial dispatch loop.                                               *)

Blocked(w) == {p \in pass[w].pending : DependencyFailed(p, row.diary)}

LoopEnds(w) ==
    /\ At(w, "loop")
    /\ \/ pass[w].pending = {}
       \/ row.status \in Explicit
       \/ row.status = "error" /\ Blocked(w) = {}
    /\ Goto(w, "exit")
    /\ UNCHANGED shared

(* A phase below a failed one inherits its outcome; one link a round.      *)
Propagate(w) ==
    /\ At(w, "loop") /\ row.status \notin Explicit
    /\ \E p \in Blocked(w), state \in Failed :
          /\ IsEarliest(p, Blocked(w))
          /\ InheritsOutcome(p, row.diary, state)
          /\ LET r == WritePhaseEntry(row, p, Outcome(state))
                 pending == Stale(w, r.diary)
             IN  /\ row' = IF state = "error" THEN SetStatus(r, "error") ELSE r
                 /\ pass' = [pass EXCEPT ![w] = [@ EXCEPT
                                !.pending = pending,
                                !.pc = IF pending = {}
                                       THEN "refresh" ELSE "loop"]]
    /\ UNCHANGED << store, file, settings, boot, sourceLock, phaseLock >>

(* The points the embedding body would embed.                              *)
Reusable(w) ==
    IF pass[w].stored # Nothing THEN pass[w].stored ELSE pass[w].snapshot

(* Mutant of Dispatches: the last of the pending list, not its head.       *)
DispatchesLast(w, p) ==
    /\ At(w, "loop")
    /\ row.status \notin Explicit \cup {"error"} /\ Blocked(w) = {}
    /\ IsLatest(p, pass[w].pending)

(* The head of the pending list; with no points to embed, embedding means  *)
(* a full re-ingest and parsing is dispatched in its place.                *)
Dispatches(w, p) ==
    /\ At(w, "loop")
    /\ row.status \notin Explicit \cup {"error"} /\ Blocked(w) = {}
    /\ \E head \in pass[w].pending :
          /\ IsEarliest(head, pass[w].pending)
          /\ p = IF head = Embedding /\ Reusable(w) = Nothing
                 THEN Parsing ELSE head

(* Mutant of GuardPasses, the guard as it once was: settled is not run.    *)
GuardPassesUnsettled(w, p) == row.diary[p].state \notin Settled

(* _phase_guard, under the phase lock: settled and not stale is not run.   *)
GuardPasses(w, p) ==
    \/ row.diary[p].state \notin Settled
    \/ IsPhaseStale(p, row.diary, settings, Orphaned(w))

(* Re-probe row r after phase p.  The phase lock is left on the way back   *)
(* to the loop, and kept while the source's final status is written.       *)
Reprobe(w, r, p, more) ==
    LET pending == Stale(w, r.diary) \cup more
        label == IF pending # {} THEN "loop"
                 ELSE IF r.status = "error" \/ Running(w, r.diary) THEN "exit"
                 ELSE "refresh"
    IN  /\ pass' = [pass EXCEPT ![w] =
                       [@ EXCEPT !.pending = pending, !.pc = label]]
        /\ phaseLock' = IF label = "refresh" THEN [phaseLock EXCEPT ![p] = w]
                        ELSE PhaseLocksLeftBy(w)

BodyOf(p) ==
    CASE p = Parsing -> "sweep"
      [] p = Embedding -> "replace"
      [] OTHER -> "run"

(* set_phase and _mark_phase_running, then the body.                       *)
RunPhase(w) ==
    /\ \E p \in Phases :
          /\ Dispatches(w, p) /\ phaseLock[p] = NoTask /\ GuardPasses(w, p)
          /\ row' = WritePhaseEntry(row, p, RunBy(Owner(w)))
          /\ phaseLock' = [phaseLock EXCEPT ![p] = w]
          /\ pass' = [pass EXCEPT ![w] =
                         [@ EXCEPT !.pc = BodyOf(p), !.cur = p]]
    /\ UNCHANGED << store, file, settings, boot, sourceLock >>

SkipSettledPhase(w) ==
    /\ \E p \in Phases :
          /\ Dispatches(w, p) /\ phaseLock[p] = NoTask /\ ~GuardPasses(w, p)
          /\ Reprobe(w, row, p, {})
    /\ UNCHANGED << row, store, file, settings, boot, sourceLock >>

SkipInapplicablePhase(w) ==
    /\ \E p \in MayNotApply :
          /\ Dispatches(w, p) /\ phaseLock[p] = NoTask /\ GuardPasses(w, p)
          /\ row' = WritePhaseEntry(row, p, Outcome("skipped"))
          /\ Reprobe(w, row', p, {})
    /\ UNCHANGED << store, file, settings, boot, sourceLock >>

(* The phase lock was not free in time: a settled phase is taken for one   *)
(* another worker finished; any other is dropped from this pass.           *)
PhaseLockTimeout(w) ==
    /\ \E p \in Phases :
          /\ Dispatches(w, p) /\ phaseLock[p] \in Tasks
          /\ IF row.diary[p].state \in Settled
             THEN LET pending == Stale(w, row.diary)
                      over == row.status = "error" \/ Running(w, row.diary)
                  IN  pass' = [pass EXCEPT ![w] = [@ EXCEPT
                         !.pending = pending,
                         !.pc = IF pending # {} THEN "loop"
                                ELSE IF over THEN "exit" ELSE "refresh"]]
             ELSE pass' = [pass EXCEPT ![w].pending = @ \ {p}]
    /\ UNCHANGED shared

----------------------------------------------------------------------------
(* The phase bodies.                                                       *)

(* parsing_chunking: the clean sweep, the diary reset, then the chunks.    *)
ParseSweep(w) ==
    /\ At(w, "sweep")
    /\ store' = Without(store, Chunks)
    /\ Goto(w, "reset")
    /\ UNCHANGED << row, file, settings, boot, sourceLock, phaseLock >>

ParseReset(w) ==
    /\ At(w, "reset")
    /\ row' = ResetPhaseEntries(row, Downstream(Parsing))
    /\ Goto(w, "build")
    /\ UNCHANGED << store, file, settings, boot, sourceLock, phaseLock >>

ParseStore(w) ==
    /\ At(w, "build")
    /\ store' = [store EXCEPT ![Parsing] = settings[Parsing]]
    /\ pass' = [pass EXCEPT ![w] =
                   [@ EXCEPT !.pc = "record", !.stored = settings[Parsing]]]
    /\ UNCHANGED << row, file, settings, boot, sourceLock, phaseLock >>

(* Mutant of EmbedAdd: the chunks deleted with the old vectors stay away.  *)
EmbedAddVectors(w) ==
    /\ At(w, "restore")
    /\ store' = [store EXCEPT ![Embedding] = pass[w].embedder]
    /\ pass' = [pass EXCEPT ![w] =
                   [@ EXCEPT !.pc = "record", !.stored = Nothing]]
    /\ UNCHANGED << row, file, settings, boot, sourceLock, phaseLock >>

(* embedding: the vectors are computed, the points deleted, then the new   *)
(* points added and after_rabbithole_stored_documents called, which only   *)
(* advances the row, for this phase is still in flight.                    *)
EmbedDelete(w) ==
    /\ At(w, "replace")
    /\ store' = Without(store, Chunks)
    /\ Goto(w, "restore")
    /\ UNCHANGED << row, file, settings, boot, sourceLock, phaseLock >>

EmbedAdd(w) ==
    /\ At(w, "restore")
    /\ store' = [store EXCEPT ![Parsing] = Reusable(w),
                              ![Embedding] = pass[w].embedder]
    /\ row' = IF row.status # "error" /\ Stale(w, row.diary) # {}
              THEN SetStatus(row, "processing") ELSE row
    /\ pass' = [pass EXCEPT ![w] =
                   [@ EXCEPT !.pc = "record", !.stored = Nothing]]
    /\ UNCHANGED << file, settings, boot, sourceLock, phaseLock >>

(* An external phase, through ingestion_phase_run.                         *)
RunExternal(w) ==
    /\ At(w, "run")
    /\ store' = [store EXCEPT ![pass[w].cur] = settings[pass[w].cur]]
    /\ Goto(w, "record")
    /\ UNCHANGED << row, file, settings, boot, sourceLock, phaseLock >>

ExternalSkips(w) ==
    /\ At(w, "run") /\ pass[w].cur \in MayNotApply
    /\ row' = WritePhaseEntry(row, pass[w].cur, Outcome("skipped"))
    /\ Reprobe(w, row', pass[w].cur, {})
    /\ UNCHANGED << store, file, settings, boot, sourceLock >>

(* _wait_not_ready: the phase is asked again after a while.  The hint it   *)
(* leaves in the row starts the clock of the phase's budget, unless it is  *)
(* this phase's already.  (Budgets are positive.)                          *)
OutOfBudget(w) == pass[w].cur \in row.retry /\ row.overdue

(* Mutant of ExternalWaits: the budget is not looked at.                   *)
ExternalWaitsOn(w) ==
    /\ At(w, "run") /\ pass[w].cur \in MayWait
    /\ row.status \notin Terminal
    /\ row' = [SetStatus(row, "processing") EXCEPT
                  !.retry = {pass[w].cur}, !.overdue = FALSE]
    /\ Goto(w, "wait")
    /\ UNCHANGED << store, file, settings, boot, sourceLock, phaseLock >>

ExternalWaits(w) ==
    /\ At(w, "run") /\ pass[w].cur \in MayWait
    /\ row.status \notin Terminal /\ ~OutOfBudget(w)
    /\ row' = [SetStatus(row, "processing") EXCEPT
                  !.retry = {pass[w].cur}, !.overdue = FALSE]
    /\ Goto(w, "wait")
    /\ UNCHANGED << store, file, settings, boot, sourceLock, phaseLock >>

AskAgain(w) ==
    /\ At(w, "wait")
    /\ Goto(w, "run")
    /\ UNCHANGED shared

(* _mark_phase_error: the failure is the phase's, then the source's.  An    *)
(* exception has left the phase lock by then; a phase that gives up has not.*)
FailsPhase(w) ==
    /\ row' = WritePhaseEntry(row, pass[w].cur, Outcome("error"))
    /\ Goto(w, "blame")
    /\ UNCHANGED << store, file, settings, boot, sourceLock >>

ExternalGivesUp(w) ==
    /\ At(w, "run") /\ pass[w].cur \in MayWait
    /\ row.status \in Terminal \/ OutOfBudget(w)
    /\ FailsPhase(w)
    /\ UNCHANGED phaseLock

BodyFails(w) ==
    /\ pass[w].pc \in BodyLabels \ {"wait"} /\ pass[w].cur \in BodyMayFail
    /\ FailsPhase(w)
    /\ phaseLock' = PhaseLocksLeftBy(w)

FailsSource(w) ==
    /\ At(w, "blame")
    /\ row' = SetStatus(row, "error")
    /\ phaseLock' = PhaseLocksLeftBy(w)
    /\ Goto(w, "exit")
    /\ UNCHANGED << store, file, settings, boot, sourceLock >>

(* _record_phase resolves the tag from the settings as they are now.       *)
Finish(w) ==
    /\ At(w, "record")
    /\ LET p == pass[w].cur
       IN  /\ row' = WritePhaseEntry(row, p, Complete(CurrentTag(settings, p)))
           /\ Reprobe(w, row', p, IF pass[w].forced /\ p = Parsing
                                  THEN {Embedding} ELSE {})
    /\ UNCHANGED << store, file, settings, boot, sourceLock >>

----------------------------------------------------------------------------
(* Mutant of Refresh: the end of the loop is taken for completion.         *)
RefreshUnderived(w) ==
    /\ At(w, "refresh")
    /\ row' = row /\ Goto(w, "gate")
    /\ UNCHANGED << store, file, settings, boot, sourceLock, phaseLock >>

(* _refresh_source_status, then the completion gate and _complete_source.  *)

Refresh(w) ==
    /\ At(w, "refresh")
    /\ IF ~Present \/ row.status \in Explicit
       THEN row' = row /\ Goto(w, "exit")
       ELSE IF DeriveSourceStatus(row.diary) = "completed"
       THEN row' = row /\ Goto(w, "gate")
       ELSE /\ row' = SetStatus(row, DeriveSourceStatus(row.diary))
            /\ Goto(w, "exit")
    /\ UNCHANGED << store, file, settings, boot, sourceLock, phaseLock >>

(* The gate may take long; its verdict is written to whatever row it finds.*)
GatePasses(w) ==
    /\ At(w, "gate")
    /\ row' = SetStatus(row, "completed")
    /\ Goto(w, "exit")
    /\ UNCHANGED << store, file, settings, boot, sourceLock, phaseLock >>

GateVetoes(w) ==
    /\ At(w, "gate") /\ GateMayVeto
    /\ row' = SetStatus(row, "error")
    /\ Goto(w, "exit")
    /\ UNCHANGED << store, file, settings, boot, sourceLock, phaseLock >>

Exit(w) ==
    /\ At(w, "exit")
    /\ sourceLock' = SourceLockLeftBy(w)
    /\ phaseLock' = PhaseLocksLeftBy(w)
    /\ Stop(w)
    /\ UNCHANGED << row, store, file, settings, boot >>

----------------------------------------------------------------------------
BeforeLock(w) ==
    \/ RevalidateClaim(w) \/ RevalidateRefused(w)
    \/ HandOver(w) \/ MarkFileMissing(w)
    \/ UploadPersist(w) \/ Begin(w)
    \/ ProbeExplicit(w) \/ ProbeNoRow(w) \/ ProbeStale(w)
    \/ ProbeStoreEmpty(w) \/ ProbeFresh(w)
    \/ LockSource(w) \/ LockSourceTimeout(w)

UnderLock(w) ==
    \/ Claim(w) \/ ClaimRefused(w)
    \/ RecoverNothing(w) \/ RecoverStart(w)
    \/ Purge(w) \/ PurgeFails(w) \/ PurgeDone(w)
    \/ LoopEnds(w) \/ Propagate(w) \/ RunPhase(w) \/ SkipSettledPhase(w)
    \/ SkipInapplicablePhase(w) \/ PhaseLockTimeout(w)
    \/ ParseSweep(w) \/ ParseReset(w) \/ ParseStore(w)
    \/ EmbedDelete(w) \/ EmbedAdd(w)
    \/ RunExternal(w) \/ ExternalSkips(w)
    \/ ExternalWaits(w) \/ AskAgain(w) \/ ExternalGivesUp(w)
    \/ BodyFails(w) \/ FailsSource(w) \/ Finish(w)
    \/ Refresh(w) \/ GatePasses(w) \/ GateVetoes(w) \/ Exit(w)
=============================================================================
