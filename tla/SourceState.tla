---------------------------- MODULE SourceState ----------------------------
(***************************************************************************)
(* What the workers share about ONE ingested source: its status row in the *)
(* registry (registry.py), the artifacts of its phases, the file on disk,  *)
(* the settings, and the distributed locks.  A registry write reads the    *)
(* row and stores it whole; here it is one step (module Heartbeat takes    *)
(* apart those of the one writer that holds no lock).                      *)
(***************************************************************************)
EXTENDS Diary

CONSTANTS
    Workers,  \* tasks that run the phase machine on this source
    Deleters, \* requests that delete or re-ingest this source
    NoTask,   \* holder of a free lock
    DeadTask, \* holder of a lock whose task died before it released it
    ProcOf,   \* the process each task runs in
    LockMayExpire \* a lock's TTL may run out while its holder still works

Tasks   == Workers \cup Deleters
Holders == Tasks \cup {NoTask, DeadTask}

ASSUME TasksAssumption ==
    /\ NoTask \notin Tasks /\ DeadTask \notin Tasks /\ NoTask # DeadTask
    /\ Workers \cap Deleters = {}
    /\ ProcOf \in [Tasks -> Procs]
    /\ LockMayExpire \in BOOLEAN

VARIABLES
    row,       \* the status document of the source
    store,     \* per phase, the settings version its artifacts are made with
    file,      \* is the uploaded file on disk?
    settings,  \* per phase, the present version of its settings
    boot,      \* per process, how often it restarted (BOOT_EPOCH)
    sourceLock, phaseLock \* holder of each distributed lock

shared == << row, store, file, settings, boot, sourceLock, phaseLock >>

----------------------------------------------------------------------------
Statuses == {"absent", "uploaded", "processing", "completed", "error",
             "deleting", "reindexing"}

InFlight  == {"uploaded", "processing"}
Terminal  == {"completed", "error"}
Explicit  == {"deleting", "reindexing"} \* owned by a deletion or a re-ingest

(* retry: the phase, if any, that the hint phase_retry names; overdue: its  *)
(* first wait is further back than the phase's budget.                     *)
Rows == [status : Statuses, diary : Diaries, created : BOOLEAN,
         deleted : SUBSET Phases, reindexer : Owners,
         retry : SUBSET Phases, overdue : BOOLEAN]

NoRow == [status |-> "absent", diary |-> EmptyDiary, created |-> FALSE,
          deleted |-> {}, reindexer |-> NoOwner,
          retry |-> {}, overdue |-> FALSE]

Present == row.status # "absent"

(* set_status keeps every field it is not given; a terminal write drops    *)
(* the resume_created marker.  Writing to an absent row creates it.        *)
SetStatus(r, status) ==
    [r EXCEPT !.status = status, !.created = @ /\ status \notin Terminal]

(* A phase entry is written with status "processing".                      *)
WritePhaseEntry(r, p, entry) ==
    [SetStatus(r, "processing") EXCEPT !.diary[p] = entry]

(* reset_phase_entries: a row that is gone stays gone.                     *)
ResetPhaseEntries(r, S) ==
    [r EXCEPT !.diary = [p \in Phases |-> IF p \in S THEN NoEntry ELSE @[p]]]

----------------------------------------------------------------------------
(* Artifacts.  Chunk points and vectors are the same stored points: until  *)
(* the embedding phase replaces them the points have empty vectors.        *)

Nothing == 0
EmptyStore == [p \in Phases |-> Nothing]

Chunks == {Parsing, Embedding}
HasStoredPoints == store[Parsing] # Nothing

Without(st, S) == [p \in Phases |-> IF p \in S THEN Nothing ELSE st[p]]

(* _purge_phase: embedding's purge removes the points with a real vector,  *)
(* which are the chunks too; parsing's removes every point.                *)
PurgedBy(st, p) ==
    CASE p = Parsing -> Without(st, Chunks)
      [] p = Embedding /\ st[Embedding] # Nothing -> Without(st, Chunks)
      [] p = Embedding /\ st[Embedding] = Nothing -> st
      [] OTHER -> Without(st, {p})

Owner(t) == [proc |-> ProcOf[t], boot |-> boot[ProcOf[t]]]

Stale(t, diary) == StalePhases(diary, settings, ProcOf[t], boot)

(* Mutant of SourceLockLeftBy: the lock is released whoever holds it.      *)
SourceLockDroppedBy(t) == NoTask

(* Leaving a lock releases it only while it is still this task's.          *)
SourceLockLeftBy(t) == IF sourceLock = t THEN NoTask ELSE sourceLock
PhaseLocksLeftBy(t) ==
    [p \in Phases |-> IF phaseLock[p] = t THEN NoTask ELSE phaseLock[p]]

Running(t, diary) == HasLiveRunningPhase(diary, ProcOf[t], boot)

----------------------------------------------------------------------------
SharedTypeOK ==
    /\ row \in Rows
    /\ store \in [Phases -> 0 .. MaxVersion]
    /\ file \in BOOLEAN
    /\ settings \in [Phases -> Versions]
    /\ boot \in [Procs -> 0 .. MaxBoot]
    /\ sourceLock \in Holders
    /\ phaseLock \in [Phases -> Holders]

SharedInit ==
    /\ row = NoRow
    /\ store = EmptyStore
    /\ file = FALSE
    /\ settings = [p \in Phases |-> 1]
    /\ boot = [p \in Procs |-> 0]
    /\ sourceLock = NoTask
    /\ phaseLock = [p \in Phases |-> NoTask]
=============================================================================
