---------------------------- MODULE ProductProofs ----------------------------
(***************************************************************************)
(* Proofs about the products of a source: what a deletion leaves of them,  *)
(* for any number of workers and requests; and, with one worker at a time, *)
(* from what they are made and with which settings.                        *)
(***************************************************************************)
EXTENDS LifecycleProofs

----------------------------------------------------------------------------
(* Deletion.  A wipe that is cut short leaves its progress in the row, and *)
(* the next deletion starts from there, whatever was built in between.  So *)
(* the assumption: no wipe fails, and no process dies in one, or after the *)
(* wipe of a reset, before the row has forgotten it.                       *)

Wiping(d) == req[d].pc \in {"wipe", "restart"}

CutShort(d) == \/ WipeFails(d)
               \/ Wiping(d) /\ ReqAt(d, "idle")'

NoWipeCutShort == [][\A d \in Deleters : ~CutShort(d)]_vars

(* Progress is recorded only while a wipe is under way, and what a wipe    *)
(* has passed is gone.                                                     *)
WipeLeavesNothing ==
    /\ (\A d \in Deleters : ~Wiping(d)) => row.deleted = {}
    /\ \A d \in Deleters : ReqAt(d, "wipe") =>
          \A p \in Phases \ req[d].todo : store[p] = Nothing

(* No step but those of a wipe, and of a source forgotten, writes progress.*)
LEMMA WritesKeepProgress ==
    ASSUME NEW r \in Rows
    PROVE  /\ \A s : SetStatus(r, s).deleted = r.deleted
           /\ \A p, e : WritePhaseEntry(r, p, e).deleted = r.deleted
           /\ \A S : ResetPhaseEntries(r, S).deleted = r.deleted
BY DEF SetStatus, WritePhaseEntry, ResetPhaseEntries, Rows

LEMMA WorkerKeepsProgress ==
    ASSUME TypeOK, NEW w \in Workers,
           Enter(w) \/ BeforeLock(w) \/ UnderLock(w)
    PROVE  row'.deleted = row.deleted
<1>1. row \in Rows
  BY DEF TypeOK, SharedTypeOK
<1>2. CASE Enter(w)
  BY <1>1, <1>2, WritesKeepProgress
     DEF Enter, UploadStart, ResumeList, RevalidateList, ReembedStart, shared
<1>3. CASE BeforeLock(w)
  <2>1. CASE UploadPersist(w) \/ MarkFileMissing(w)
    BY <1>1, <2>1, WritesKeepProgress DEF UploadPersist, MarkFileMissing
  <2>2. CASE RevalidateClaim(w)
    BY <1>1, <2>2 DEF RevalidateClaim, Rows
  <2> QED BY <1>3, <2>1, <2>2
          DEF BeforeLock, Begin, ProbeExplicit, ProbeNoRow, ProbeStale,
              ProbeStoreEmpty, ProbeFresh, LockSource, LockSourceTimeout,
              RevalidateRefused, HandOver, shared
<1>4. CASE Claim(w) \/ ExternalWaits(w)
  BY <1>1, <1>4 DEF Claim, ExternalWaits, SetStatus, Rows
<1>5. CASE PurgeDone(w)
  <2> DEFINE reset == ResetPhaseEntries(row, pass[w].purged)
  <2>1. reset \in Rows /\ reset.deleted = row.deleted
    BY <1>1, ResetType, WritesKeepProgress
  <2> HIDE DEF reset
  <2>2. row' = reset \/ row' = [SetStatus(reset, "processing") EXCEPT
                 !.diary = [p \in Phases |->
                     IF p \in pass[w].failed THEN PurgeFailed ELSE @[p]]]
    BY <1>5 DEF PurgeDone, AfterPurge, reset
  <2> QED BY <2>1, <2>2 DEF SetStatus, Rows
<1>6. CASE Propagate(w)
  <2>1. PICK p \in Blocked(w), state \in Failed :
           row' = LET r == WritePhaseEntry(row, p, Outcome(state))
                  IN  IF state = "error" THEN SetStatus(r, "error") ELSE r
    BY <1>6 DEF Propagate
  <2>2. p \in Phases
    BY PassUpdates DEF Blocked, Passes, TypeOK
  <2>3. /\ WritePhaseEntry(row, p, Outcome(state)) \in Rows
        /\ WritePhaseEntry(row, p, Outcome(state)).deleted = row.deleted
    BY <1>1, <2>2, WritesKeepProgress, WritePhaseEntryType, OutcomeType
       DEF Failed, EntryStates
  <2> QED BY <2>1, <2>3, WritesKeepProgress
<1>7. CASE \/ RunPhase(w) \/ SkipInapplicablePhase(w) \/ ParseReset(w)
           \/ EmbedAdd(w) \/ ExternalSkips(w) \/ Finish(w)
  <2>1. \/ \E p, e : row' = WritePhaseEntry(row, p, e)
        \/ \E S : row' = ResetPhaseEntries(row, S)
        \/ \E s : row' = SetStatus(row, s)
        \/ row' = row
    BY <1>7 DEF RunPhase, SkipInapplicablePhase, ParseReset, EmbedAdd,
                ExternalSkips, Finish
  <2> QED BY <1>1, <2>1, WritesKeepProgress
<1>8. CASE ExternalGivesUp(w) \/ BodyFails(w)
  BY <1>1, <1>8, WritesKeepProgress DEF ExternalGivesUp, BodyFails, FailsPhase
<1>9. CASE FailsSource(w) \/ Refresh(w) \/ GatePasses(w) \/ GateVetoes(w)
  BY <1>1, <1>9, WritesKeepProgress
     DEF FailsSource, Refresh, GatePasses, GateVetoes
<1>10. CASE \/ ClaimRefused(w) \/ RecoverNothing(w) \/ RecoverStart(w)
            \/ Purge(w) \/ PurgeFails(w) \/ LoopEnds(w) \/ SkipSettledPhase(w)
            \/ PhaseLockTimeout(w) \/ ParseSweep(w) \/ ParseStore(w)
            \/ EmbedDelete(w) \/ RunExternal(w) \/ AskAgain(w) \/ Exit(w)
  BY <1>10 DEF ClaimRefused, RecoverNothing, RecoverStart, Purge, PurgeFails,
               LoopEnds, SkipSettledPhase, PhaseLockTimeout, ParseSweep,
               ParseStore, EmbedDelete, RunExternal, AskAgain, Exit, shared
<1> QED BY <1>2, <1>3, <1>4, <1>5, <1>6, <1>7, <1>8, <1>9, <1>10 DEF UnderLock

LEMMA EnvironmentKeepsProgress ==
    ASSUME TypeOK, Environment
    PROVE  row'.deleted = row.deleted
<1>1. row \in Rows
  BY DEF TypeOK, SharedTypeOK
<1>2. CASE BudgetRunsOut \/ \E p \in Phases : LeaseAges(p)
  BY <1>1, <1>2 DEF BudgetRunsOut, LeaseAges, Rows
<1> QED BY <1>2 DEF Environment, Crash, SourceLockExpires, StoreWiped,
                    PhaseLockExpires, SettingsChange

(* A request starts its wipe under the lock: no other wipe is under way.   *)
LEMMA WipesAlone ==
    ASSUME LockHeld, NEW d \in Deleters, req[d].pc \in ReqLocked
    PROVE  \A c \in Deleters \ {d} : ~Wiping(c)
BY DEF LockHeld, AtWork, Tasks, Wiping, ReqLocked

LEMMA WipePurges ==
    ASSUME TypeOK, NEW p \in Phases
    PROVE  PurgedBy(store, p)[p] = Nothing
BY DEF PurgedBy, Without, Chunks

LEMMA DeleterWipes ==
    ASSUME TypeOK, LockHeld, WipeLeavesNothing, NEW d \in Deleters,
           Request(d) \/ ServeRequest(d), ~CutShort(d)
    PROVE  WipeLeavesNothing'
<1> USE DEF TypeOK, ReqTypeOK, ReqAt, Wiping
<1>1. row \in Rows /\ store \in [Phases -> 0 .. MaxVersion]
  BY DEF SharedTypeOK
<1>2. \A c \in Deleters \ {d} : req'[c] = req[c]
  BY DeleterRespectsLock DEF RequestRespectsLock
<1>3. CASE Request(d)
  <2>1. /\ req[d].pc = "idle" /\ row' = row /\ store' = store
        /\ \E kind : ReqStart(d, kind)
    BY <1>3 DEF Request, DeleteStart, ReindexStart, RecoverReindexStart, shared
  <2>2. req'[d].pc = "lock"
    BY <2>1 DEF ReqStart, Reqs
  <2> QED BY <1>2, <2>1, <2>2 DEF WipeLeavesNothing
<1>4. CASE ReqLock(d) \/ ReqLockTimeout(d) \/ DeletePoints(d) \/ Leave(d)
  <2>1. /\ req[d].pc \in {"lock", "forget", "points", "leave"} /\ row' = row
        /\ ReqStop(d) \/ ReqGoto(d, "mark") \/ ReqGoto(d, "forget")
    BY <1>4 DEF ReqLock, ReqLockTimeout, DeletePoints, Leave, shared
  <2>2. req'[d].pc \in {"idle", "mark", "forget"}
    BY <2>1 DEF ReqStop, ReqGoto, IdleReq, Reqs
  <2>3. OnlyClears(store')
    BY DeleterOnlyClears
  <2> QED BY <1>2, <2>1, <2>2, <2>3 DEF WipeLeavesNothing, OnlyClears
<1>5. CASE MarkDeleting(d) \/ MarkReindexing(d) \/ RecoverReindex(d)
  <2>1. req[d].pc = "mark"
    BY <1>5 DEF MarkDeleting, MarkReindexing, RecoverReindex
  <2>2. \A c \in Deleters : ~Wiping(c)
    BY <2>1, WipesAlone DEF ReqLocked
  <2>3. row.deleted = {}
    BY <2>2 DEF WipeLeavesNothing
  <2>4. row'.deleted = {} /\ store' = store
    BY <1>1, <1>5, <2>3
       DEF MarkDeleting, MarkReindexing, RecoverReindex, SetStatus, Rows, shared
  <2>5. ReqWipes(d, Phases) \/ ReqGoto(d, "leave")
    BY <1>5, <2>3 DEF MarkDeleting, MarkReindexing, RecoverReindex
  <2>6. \/ req'[d].pc = "wipe" /\ req'[d].todo = Phases
        \/ req'[d].pc = "leave"
    BY <2>5 DEF ReqWipes, ReqGoto, Reqs
  <2> QED BY <1>2, <2>2, <2>4, <2>6 DEF WipeLeavesNothing
<1>6. CASE WipePhase(d)
  <2>1. PICK p \in req[d].todo :
           /\ store' = PurgedBy(store, p)
           /\ req' = [req EXCEPT ![d].todo = @ \ {p}]
    BY <1>6 DEF WipePhase
  <2>2. req[d].pc = "wipe" /\ p \in Phases
    BY <1>6, <2>1 DEF WipePhase, Reqs
  <2>3. req'[d].pc = "wipe" /\ req'[d].todo = req[d].todo \ {p}
    BY <2>1, <2>2 DEF Reqs
  <2>4. \A c \in Deleters \ {d} : ~Wiping(c)
    BY <2>2, WipesAlone DEF ReqLocked
  <2>5. \A q \in Phases \ req'[d].todo : store'[q] = Nothing
    <3>1. store'[p] = Nothing
      BY <2>1, <2>2, WipePurges
    <3>2. \A q \in Phases \ req[d].todo : store[q] = Nothing
      BY <2>2 DEF WipeLeavesNothing
    <3>3. OnlyClears(store')
      BY DeleterOnlyClears
    <3> QED BY <2>3, <3>1, <3>2, <3>3 DEF OnlyClears
  <2> QED BY <1>2, <2>3, <2>4, <2>5 DEF WipeLeavesNothing
<1>7. CASE ClearDiary(d)
  <2>1. /\ row'.deleted = row.deleted /\ store' = store
        /\ req[d].pc = "wipe" /\ ReqGoto(d, "restart")
    BY <1>1, <1>7 DEF ClearDiary, Rows
  <2>2. req'[d].pc = "restart"
    BY <2>1 DEF ReqGoto, Reqs
  <2> QED BY <1>2, <2>1, <2>2 DEF WipeLeavesNothing
<1>8. CASE DropSource(d) \/ ForgetRow(d) \/ RestartSource(d)
  <2>1. row'.deleted = {} /\ store' = store
    <3>1. row' = NoRow \/ RestartSource(d)
      BY <1>8 DEF DropSource, ForgetRow
    <3>2. RestartSource(d) => row'.deleted = {}
      BY <1>1, SetStatusType DEF RestartSource, Statuses, Rows
    <3> QED BY <1>8, <3>1, <3>2 DEF DropSource, ForgetRow, RestartSource, NoRow
  <2>2. ~Wiping(d)'
    BY <1>8 DEF DropSource, ForgetRow, RestartSource, ReqGoto, ReqStop,
                IdleReq, Reqs
  <2> QED BY <1>2, <2>1, <2>2 DEF WipeLeavesNothing
<1>9. ~WipeFails(d)
  BY DEF CutShort, WipeFails
<1> QED BY <1>3, <1>4, <1>5, <1>6, <1>7, <1>8, <1>9 DEF ServeRequest

LEMMA NextWipes ==
    ASSUME LockMayExpire = FALSE, TypeOK, LockHeld, WipeLeavesNothing,
           [Next]_vars, [\A d \in Deleters : ~CutShort(d)]_vars
    PROVE  WipeLeavesNothing'
<1>1. CASE UNCHANGED vars
  BY <1>1 DEF vars, WipeLeavesNothing, ReqAt, Wiping
<1>2. ASSUME NEW w \in Workers, Enter(w) \/ BeforeLock(w) \/ UnderLock(w),
             UNCHANGED req
      PROVE  WipeLeavesNothing'
  <2>1. row'.deleted = row.deleted
    BY <1>2, WorkerKeepsProgress
  <2>2. CASE store' = store
    BY <1>2, <2>1, <2>2 DEF WipeLeavesNothing, ReqAt, Wiping
  <2>3. CASE AtWork(w)
    <3>1. \A d \in Deleters : ~Wiping(d)
      BY <2>3, TasksAssumption DEF LockHeld, AtWork, Tasks, ReqLocked, Wiping
    <3> QED BY <1>2, <2>1, <3>1 DEF WipeLeavesNothing, ReqAt, Wiping
  <2> QED BY <1>2, <2>2, <2>3, WorkerBuildsAtWork
<1>3. ASSUME NEW d \in Deleters, Request(d) \/ ServeRequest(d), ~CutShort(d)
      PROVE  WipeLeavesNothing'
  BY <1>3, DeleterWipes
<1>4. ASSUME Environment, \A d \in Deleters : ~CutShort(d)
      PROVE  WipeLeavesNothing'
  <2>1. row'.deleted = row.deleted /\ OnlyClears(store')
    BY <1>4, EnvironmentKeepsProgress, EnvironmentOnlyClears
  <2>2. CASE req' = req
    BY <2>1, <2>2 DEF WipeLeavesNothing, OnlyClears, ReqAt, Wiping
  <2>3. CASE \E proc \in Procs : Crash(proc)
    <3>1. \A d \in Deleters : req'[d] = req[d] \/ req'[d] = IdleReq
      BY <2>3 DEF Crash
    <3>2. \A d \in Deleters : Wiping(d) => req'[d].pc # "idle"
      BY <1>4 DEF CutShort, ReqAt
    <3>3. \A d \in Deleters :
             req'[d] = req[d] \/ (~Wiping(d) /\ ~Wiping(d)')
      BY <3>1, <3>2 DEF IdleReq, Wiping
    <3> QED BY <2>1, <3>3 DEF WipeLeavesNothing, OnlyClears, ReqAt, Wiping
  <2> QED BY <1>4, <2>2, <2>3
          DEF Environment, SourceLockExpires, BudgetRunsOut, PhaseLockExpires,
              LeaseAges, SettingsChange, StoreWiped
<1> QED BY <1>1, <1>2, <1>3, <1>4 DEF Next

(* Section 7: whatever fails before, a deletion that no failure and no     *)
(* crash cuts short, nor a wipe before it, drops the record of a source    *)
(* only when all its products are gone, those of phases that never         *)
(* completed included; for any number of workers that race with it.        *)
THEOREM DroppedClean ==
    ASSUME LockMayExpire = FALSE
    PROVE  Spec /\ NoWipeCutShort => DroppedMeansClean
<1> DEFINE Clean == \A d \in Deleters :
                       req[d].pc = "wipe" /\ req'[d].pc = "points" =>
                          store = EmptyStore
<1>1. Init => WipeLeavesNothing
  BY DEF Init, SharedInit, NoRow, ReqInit, IdleReq, ReqAt, Wiping,
         WipeLeavesNothing
<1>2. TypeOK /\ LockHeld /\ WipeLeavesNothing /\ [Next]_vars
        /\ [\A d \in Deleters : ~CutShort(d)]_vars => WipeLeavesNothing'
  BY NextWipes
<1>3. TypeOK /\ WipeLeavesNothing /\ [Next]_vars => [Clean]_vars
  <2> SUFFICES ASSUME TypeOK, WipeLeavesNothing, Next, NEW d \in Deleters,
                      req[d].pc = "wipe", req'[d].pc = "points"
               PROVE  store = EmptyStore
    OBVIOUS
  <2> USE DEF TypeOK, ReqTypeOK, ReqAt, Wiping
  <2>1. req' # req
    OBVIOUS
  <2>2. \A proc \in Procs : ~Crash(proc)
    BY DEF Crash, IdleReq
  <2>3. PICK c \in Deleters : Request(c) \/ ServeRequest(c)
    BY <2>1, <2>2
       DEF Next, Environment, SourceLockExpires, BudgetRunsOut,
           PhaseLockExpires, LeaseAges, SettingsChange, StoreWiped
  <2>4. c = d
    BY <2>3, DeleterRespectsLock DEF RequestRespectsLock
  <2>5. req[d].todo = {}
    BY <2>3, <2>4 DEF Request, DeleteStart, ReindexStart, RecoverReindexStart,
         ServeRequest, ReqLock, ReqLockTimeout, MarkDeleting, MarkReindexing,
         RecoverReindex, WipePhase, WipeFails, DropSource, DeletePoints,
         ForgetRow, ClearDiary, RestartSource, Leave, ReqGoto, Reqs
  <2>6. \A p \in Phases : store[p] = Nothing
    BY <2>5 DEF WipeLeavesNothing
  <2> QED BY <2>6 DEF SharedTypeOK, EmptyStore
<1> QED BY <1>1, <1>2, <1>3, TypeCorrect, LockHolderAlone, PTL
        DEF Spec, NoWipeCutShort, DroppedMeansClean

----------------------------------------------------------------------------
(* What a body is built from.  With one worker at a time, and as long as a *)
(* process that restarts does not get the pid of the one it replaces.  (An *)
(* entry of an earlier boot whose pid is taken looks alive, is neither     *)
(* recovered nor stale, and is a dependency that never completes: then a   *)
(* body may start without it.)  The third assumption is on the order in    *)
(* which plugins register: run Ordering is what happens without it.        *)

DependenciesRegisteredFirst ==
    \A p \in Phases : \A d \in Deps(p) : Before(d, p)

OneAtATime == Alone /\ PidReuse = FALSE /\ DependenciesRegisteredFirst

InHand  == BodyLabels \cup {"record"}
Claimed == InHand \cup {"recover", "purge", "loop"}

StateOf(p) == row.diary[p].state

(* The owner of the entry is gone for the worker that judges it: it is an  *)
(* earlier boot of its own process, or nobody, for longer than the lease.  *)
OwnerGone(w, entry) ==
    \/ entry.owner.proc = NoProc /\ entry.aged
    \/ /\ entry.owner.proc = ProcOf[w]
       /\ entry.owner.boot < boot[ProcOf[w]]

(* The only entry that is processing and not abandoned is that of the      *)
(* phase in hand; the dispatch loop finds none that is processing.         *)
OrphansKnown(w) ==
    /\ pass[w].pc \in InHand =>
          /\ row.diary[pass[w].cur].owner = Owner(w)
          /\ \A p \in Phases \ {pass[w].cur} : StateOf(p) # "processing"
    /\ pass[w].pc = "loop" => \A p \in Phases : StateOf(p) # "processing"
    /\ pass[w].pc \notin InHand =>
          \A p \in Phases :
             StateOf(p) = "processing" => OwnerGone(w, row.diary[p])

(* A recovery gets to every entry that is processing.                      *)
Recovering(w) == pass[w].todo \cup pass[w].purged \cup pass[w].failed

PurgeKnown(w) ==
    pass[w].pc = "purge" =>
       \A p \in Phases : StateOf(p) = "processing" => p \in Recovering(w)

(* No phase without an entry is missing from the pending list, but in a    *)
(* pass that found no row; and no phase lock is this worker's own when it  *)
(* comes to take one.                                                      *)
PendingKnown(w) ==
    /\ pass[w].pc \in {"lock", "claim", "recover", "loop"} =>
          \/ pass[w].pending = {Parsing}
          \/ \A p \in Phases : StateOf(p) = "pending" => p \in pass[w].pending
    /\ pass[w].pc \notin InHand \cup {"blame", "refresh", "gate", "exit"} =>
          \A p \in Phases : phaseLock[p] # w

(* There are points only where there is a row.                             *)
RowPrecedesStore(w) ==
    /\ ~Present => store[Parsing] = Nothing
    /\ pass[w].pc \in Claimed => Present
    /\ pass[w].pc = "probe" /\ ~Present => pass[w].snapshot = Nothing

DispatchKnown(w) ==
    /\ OrphansKnown(w) /\ PurgeKnown(w)
    /\ PendingKnown(w) /\ RowPrecedesStore(w)

----------------------------------------------------------------------------
(* What a step leaves of a pass.                                           *)

(* What a pass has in hand, but for its label and its pending list.        *)
HandKept(w) ==
    /\ pass'[w].cur = pass[w].cur
    /\ pass'[w].snapshot = pass[w].snapshot
    /\ pass'[w].embedder = pass[w].embedder
    /\ pass'[w].stored = pass[w].stored

RecoveryKept(w) ==
    /\ pass'[w].todo = pass[w].todo
    /\ pass'[w].purged = pass[w].purged
    /\ pass'[w].failed = pass[w].failed

LEMMA GotoKeeps ==
    ASSUME TypeOK, NEW w \in Workers, NEW l, Goto(w, l)
    PROVE  /\ pass'[w].pc = l /\ pass'[w].pending = pass[w].pending
           /\ HandKept(w) /\ RecoveryKept(w)
BY DEF TypeOK, PassTypeOK, Passes, Goto, HandKept, RecoveryKept

LEMMA RoundKeeps ==
    ASSUME TypeOK, NEW w \in Workers, NEW l, NEW S,
           pass' = [pass EXCEPT ![w] = [@ EXCEPT !.pending = S, !.pc = l]]
    PROVE  /\ pass'[w].pc = l /\ pass'[w].pending = S
           /\ HandKept(w) /\ RecoveryKept(w)
BY DEF TypeOK, PassTypeOK, Passes, HandKept, RecoveryKept

LEMMA RecordKeeps ==
    ASSUME TypeOK, NEW w \in Workers, NEW n,
           pass' = [pass EXCEPT ![w] = [@ EXCEPT !.pc = "record", !.stored = n]]
    PROVE  /\ pass'[w].pc = "record" /\ pass'[w].stored = n
           /\ pass'[w].cur = pass[w].cur
           /\ pass'[w].embedder = pass[w].embedder
           /\ pass'[w].snapshot = pass[w].snapshot
BY DEF TypeOK, PassTypeOK, Passes

LEMMA ReprobeKeeps ==
    ASSUME TypeOK, NEW w \in Workers, NEW r, NEW p \in Phases, NEW more,
           Reprobe(w, r, p, more)
    PROVE  /\ pass'[w].pending = Stale(w, r.diary) \cup more
           /\ pass'[w].pc \in {"loop", "exit", "refresh"}
           /\ HandKept(w)
           /\ pass'[w].pc # "refresh" => \A q \in Phases : phaseLock'[q] # w
<1> DEFINE S == Stale(w, r.diary) \cup more
           label == IF S # {} THEN "loop"
                    ELSE IF r.status = "error" \/ Running(w, r.diary)
                         THEN "exit" ELSE "refresh"
<1>1. /\ pass' = [pass EXCEPT ![w] = [@ EXCEPT !.pending = S, !.pc = label]]
      /\ phaseLock' = IF label = "refresh" THEN [phaseLock EXCEPT ![p] = w]
                      ELSE PhaseLocksLeftBy(w)
  BY DEF Reprobe
<1>2. label \in {"loop", "exit", "refresh"}
  BY Zenon
<1> HIDE DEF label
<1>3. pass'[w].pc = label /\ pass'[w].pending = S /\ HandKept(w)
  BY <1>1, RoundKeeps
<1>4. \A q \in Phases : PhaseLocksLeftBy(w)[q] # w
  BY TasksAssumption DEF PhaseLocksLeftBy, Tasks
<1> QED BY <1>1, <1>2, <1>3, <1>4

(* A phase without an entry is stale.                                      *)
LEMMA PendingIsStale ==
    ASSUME NEW w, NEW diary, NEW p \in Phases, diary[p].state = "pending"
    PROVE  p \in Stale(w, diary)
BY DEF Stale, StalePhases, IsPhaseStale

(* An entry whose owner is gone is abandoned.                              *)
LEMMA GoneIsAbandoned ==
    ASSUME TypeOK, PidReuse = FALSE, NEW w \in Workers, NEW p \in Phases,
           StateOf(p) = "processing", OwnerGone(w, row.diary[p])
    PROVE  p \in Orphaned(w)
<1>1. ProcOf[w] \in Procs /\ boot[ProcOf[w]] \in Nat
  BY TasksAssumption DEF TypeOK, SharedTypeOK, Tasks
<1>2. CASE row.diary[p].owner.proc = NoProc /\ row.diary[p].aged
  BY <1>2 DEF Orphaned, Abandoned, ShouldAbandon, StateOf
<1>3. CASE /\ row.diary[p].owner.proc = ProcOf[w]
           /\ row.diary[p].owner.boot < boot[ProcOf[w]]
  <2>1. row.diary[p].owner.boot # boot[ProcOf[w]]
    <3>1. row.diary[p].owner.boot \in Nat
      BY ProcsAssumption DEF TypeOK, SharedTypeOK, Rows, Diaries, Entries, Owners
    <3> QED BY <1>1, <1>3, <3>1
  <2>2. /\ row.diary[p].owner.proc # NoProc
        /\ row.diary[p].owner # [proc |-> ProcOf[w], boot |-> boot[ProcOf[w]]]
    BY <1>1, <1>3, <2>1, ProcsAssumption
  <2>3. /\ Pod[row.diary[p].owner.proc] = Pod[ProcOf[w]]
        /\ ~(row.diary[p].owner.boot = boot[row.diary[p].owner.proc] \/ PidReuse)
    BY <1>3, <2>1
  <2>4. ShouldAbandon(row.diary[p], ProcOf[w], boot)
    BY <2>2, <2>3 DEF ShouldAbandon, StateOf
  <2> QED BY <2>4 DEF Orphaned, Abandoned
<1> QED BY <1>2, <1>3 DEF OwnerGone

LEMMA OrphanIsProcessing ==
    ASSUME NEW w, NEW p \in Orphaned(w)
    PROVE  p \in Phases /\ StateOf(p) = "processing"
BY DEF Orphaned, Abandoned, ShouldAbandon, StateOf

----------------------------------------------------------------------------
(* Before is a strict order.                                               *)
LEMMA BeforeIsOrder ==
    /\ \A p, q \in Phases : Before(p, q) => ~Before(q, p)
    /\ \A p, q, r \in Phases : Before(p, q) /\ Before(q, r) => Before(p, r)
    /\ \A p, q \in Phases : p = q \/ Before(p, q) \/ Before(q, p)
<1>1. DOMAIN MergedOrder \in SUBSET Nat
  BY PhasesAssumption
<1>2. \A p, q \in Phases : Before(p, q) => ~Before(q, p)
  BY <1>1, PhasesAssumption DEF Before
<1>3. \A p, q, r \in Phases : Before(p, q) /\ Before(q, r) => Before(p, r)
  BY <1>1, PhasesAssumption DEF Before
<1>4. \A p, q \in Phases : p = q \/ Before(p, q) \/ Before(q, p)
  BY <1>1, PhasesAssumption DEF Before
<1> QED BY <1>2, <1>3, <1>4

----------------------------------------------------------------------------
(* The invariant of the dispatch, step by step: first the steps that keep  *)
(* the diary and have no phase in hand, ...                                *)

LEMMA DiaryKeptDispatch ==
    ASSUME TypeOK, NEW w \in Workers, DispatchKnown(w),
           row'.diary = row.diary, boot' = boot,
           pass[w].pc \notin InHand,
           pass'[w].pc \notin InHand \cup {"purge"},
           pass'[w].pc = "loop" => pass[w].pc = "loop"
    PROVE  OrphansKnown(w)' /\ PurgeKnown(w)'
BY DEF DispatchKnown, OrphansKnown, PurgeKnown, StateOf, OwnerGone

LEMMA EnterDispatch ==
    ASSUME TypeOK, NEW w \in Workers, DispatchKnown(w), Enter(w)
    PROVE  DispatchKnown(w)'
<1> USE DEF TypeOK, SharedTypeOK, PassTypeOK
<1>1. /\ pass[w].pc = "idle" /\ boot' = boot /\ phaseLock' = phaseLock
      /\ store' = store
      /\ \E k, label : label \in {"persist", "handed", "listed", "begin"}
                       /\ Start(w, k, label)
  BY DEF Enter, UploadStart, ResumeList, RevalidateList, ReembedStart, shared,
         At
<1>2. pass'[w].pc \in {"persist", "handed", "listed", "begin"}
  BY <1>1, NextLabel
<1>3. /\ row'.diary = row.diary
      /\ Present => Present'
  BY EnterKeepsDiary DEF Present
<1>4. OrphansKnown(w)' /\ PurgeKnown(w)'
  BY <1>1, <1>2, <1>3, DiaryKeptDispatch DEF InHand, BodyLabels
<1>5. PendingKnown(w)' /\ RowPrecedesStore(w)'
  BY <1>1, <1>2, <1>3
     DEF DispatchKnown, PendingKnown, RowPrecedesStore, InHand, Claimed,
         BodyLabels
<1> QED BY <1>4, <1>5 DEF DispatchKnown

LEMMA QueueKeeps ==
    ASSUME TypeOK, NEW w \in Workers, NEW S, NEW forced,
           QueueFor(w, S, forced)
    PROVE  pass'[w].pc = "lock" /\ pass'[w].pending = S /\ HandKept(w)
BY DEF TypeOK, PassTypeOK, Passes, QueueFor, HandKept

LEMMA ProbeDispatch ==
    ASSUME TypeOK, NEW w \in Workers, DispatchKnown(w),
           ProbeNoRow(w) \/ ProbeStale(w) \/ ProbeStoreEmpty(w)
    PROVE  DispatchKnown(w)'
<1>1. pass[w].pc = "probe" /\ UNCHANGED shared
  BY DEF ProbeNoRow, ProbeStale, ProbeStoreEmpty, At
<1>2. PICK S, forced : /\ QueueFor(w, S, forced)
                       /\ \/ S = {Parsing}
                          \/ Stale(w, row.diary) \subseteq S
  <2>1. CASE ProbeNoRow(w)
    BY <1>1, <2>1 DEF ProbeNoRow, DispatchKnown, RowPrecedesStore
  <2>2. CASE ProbeStale(w) \/ ProbeStoreEmpty(w)
    BY <2>2 DEF ProbeStale, ProbeStoreEmpty
  <2> QED BY <2>1, <2>2
<1>3. pass'[w].pc = "lock" /\ pass'[w].pending = S
  BY <1>2, QueueKeeps
<1>4. OrphansKnown(w)' /\ PurgeKnown(w)'
  BY <1>1, <1>3, DiaryKeptDispatch DEF InHand, BodyLabels, shared
<1>5. PendingKnown(w)'
  <2>1. S = {Parsing} \/ \A p \in Phases : row.diary[p].state = "pending"
                                           => p \in S
    BY <1>2, PendingIsStale
  <2>2. /\ \A p \in Phases : phaseLock[p] # w
        /\ row' = row /\ phaseLock' = phaseLock
    BY <1>1 DEF DispatchKnown, PendingKnown, InHand, BodyLabels, shared
  <2> QED BY <1>3, <2>1, <2>2 DEF PendingKnown, StateOf
<1>6. RowPrecedesStore(w)'
  BY <1>1, <1>3 DEF DispatchKnown, RowPrecedesStore, Claimed, InHand,
                    BodyLabels, Present, shared
<1> QED BY <1>4, <1>5, <1>6 DEF DispatchKnown

LEMMA BeforeLockDispatch ==
    ASSUME TypeOK, NEW w \in Workers, DispatchKnown(w), BeforeLock(w)
    PROVE  DispatchKnown(w)'
<1> USE DEF TypeOK, SharedTypeOK, PassTypeOK
<1>1. /\ row'.diary = row.diary
      /\ Present => Present'
  BY BeforeLockKeepsDiary DEF Present
<1>2. ASSUME store' = store, boot' = boot, phaseLock' = phaseLock,
             pass[w].pc \in {"persist", "listed", "handed", "probe", "lock"},
             \/ pass'[w].pc \in {"idle", "handed", "begin", "refresh"}
             \/ /\ pass[w].pc = "lock" /\ pass'[w].pc = "claim"
                /\ pass'[w].pending = pass[w].pending
      PROVE  DispatchKnown(w)'
  <2>1. OrphansKnown(w)' /\ PurgeKnown(w)'
    BY <1>1, <1>2, DiaryKeptDispatch DEF InHand, BodyLabels
  <2>2. PendingKnown(w)'
    BY <1>1, <1>2 DEF DispatchKnown, PendingKnown, StateOf, InHand, BodyLabels
  <2>3. RowPrecedesStore(w)'
    BY <1>1, <1>2 DEF DispatchKnown, RowPrecedesStore, Claimed, InHand,
                      BodyLabels
  <2> QED BY <2>1, <2>2, <2>3 DEF DispatchKnown
<1>3. CASE Begin(w)
  <2>1. /\ pass[w].pc = "begin" /\ pass'[w].pc = "probe"
        /\ pass'[w].snapshot = store[Parsing] /\ UNCHANGED shared
    BY <1>3 DEF Begin, At, Passes
  <2>2. OrphansKnown(w)' /\ PurgeKnown(w)'
    BY <2>1, DiaryKeptDispatch DEF InHand, BodyLabels, shared
  <2>3. PendingKnown(w)' /\ RowPrecedesStore(w)'
    BY <2>1 DEF DispatchKnown, PendingKnown, RowPrecedesStore, Claimed, InHand,
                BodyLabels, Present, shared
  <2> QED BY <2>2, <2>3 DEF DispatchKnown
<1>4. CASE LockSource(w)
  <2>1. Goto(w, "claim") /\ pass[w].pc = "lock"
    BY <1>4 DEF LockSource, At
  <2> QED BY <1>2, <1>4, <2>1, GotoKeeps DEF LockSource
<1>5. CASE \/ ProbeExplicit(w) \/ LockSourceTimeout(w) \/ RevalidateRefused(w)
           \/ MarkFileMissing(w)
  <2>1. /\ pass[w].pc \in {"probe", "lock", "listed", "handed"} /\ Stop(w)
        /\ store' = store /\ boot' = boot /\ phaseLock' = phaseLock
    BY <1>5 DEF ProbeExplicit, LockSourceTimeout, RevalidateRefused,
                MarkFileMissing, At, shared
  <2> QED BY <1>2, <2>1, NextLabel
<1>6. CASE UploadPersist(w) \/ RevalidateClaim(w) \/ HandOver(w)
  <2>1. /\ pass[w].pc \in {"persist", "listed", "handed"}
        /\ Goto(w, "begin") \/ Goto(w, "handed")
        /\ store' = store /\ boot' = boot /\ phaseLock' = phaseLock
    BY <1>6 DEF UploadPersist, RevalidateClaim, HandOver, At, shared
  <2> QED BY <1>2, <2>1, NextLabel
<1>7. CASE ProbeFresh(w)
  <2>1. /\ pass[w].pc = "probe"
        /\ Stop(w) \/ Goto(w, "refresh")
        /\ store' = store /\ boot' = boot /\ phaseLock' = phaseLock
    BY <1>7 DEF ProbeFresh, At, shared
  <2> QED BY <1>2, <1>7, <2>1, NextLabel DEF ProbeFresh, At
<1> QED BY <1>3, <1>4, <1>5, <1>6, <1>7, ProbeDispatch DEF BeforeLock

(* ... then the claim and the recovery, ...                                *)
LEMMA ClaimDispatch ==
    ASSUME TypeOK, NEW w \in Workers, DispatchKnown(w),
           Claim(w) \/ ClaimRefused(w) \/ LoopEnds(w)
    PROVE  DispatchKnown(w)'
<1>1. /\ pass[w].pc \in {"claim", "loop"}
      /\ UNCHANGED << store, boot, phaseLock >>
      /\ \/ pass[w].pc = "claim" /\ Goto(w, "recover") /\ Present'
         \/ Goto(w, "exit")
  BY DEF Claim, ClaimRefused, LoopEnds, At, Present, TypeOK, SharedTypeOK, Rows,
         shared
<1>2. row'.diary = row.diary /\ (Present => Present')
  BY DEF Claim, ClaimRefused, LoopEnds, Present, TypeOK, SharedTypeOK, Rows,
         shared
<1>3. /\ pass'[w].pending = pass[w].pending
      /\ \/ pass[w].pc = "claim" /\ pass'[w].pc = "recover" /\ Present'
         \/ pass'[w].pc = "exit"
  BY <1>1, GotoKeeps
<1>4. OrphansKnown(w)' /\ PurgeKnown(w)'
  BY <1>1, <1>2, <1>3, DiaryKeptDispatch DEF InHand, BodyLabels
<1>5. PendingKnown(w)'
  BY <1>1, <1>2, <1>3 DEF DispatchKnown, PendingKnown, StateOf, InHand, BodyLabels
<1>6. RowPrecedesStore(w)'
  BY <1>1, <1>2, <1>3 DEF DispatchKnown, RowPrecedesStore, Claimed, InHand,
                          BodyLabels
<1> QED BY <1>4, <1>5, <1>6 DEF DispatchKnown

(* What the start of a recovery has before it.                             *)
LEMMA RecoverStartFacts ==
    ASSUME TypeOK, NEW w \in Workers, RecoverStart(w)
    PROVE  \E first \in Orphaned(w) :
              /\ IsEarliest(first, Orphaned(w))
              /\ pass[w].pc = "recover" /\ pass'[w].pc = "purge"
              /\ pass'[w].todo = FromOnward(first)
              /\ HandKept(w) /\ UNCHANGED shared
BY DEF TypeOK, PassTypeOK, Passes, RecoverStart, At, HandKept

LEMMA PurgeFacts ==
    ASSUME TypeOK, NEW w \in Workers, Purge(w) \/ PurgeFails(w)
    PROVE  /\ pass[w].pc = "purge" /\ pass'[w].pc = "purge"
           /\ Recovering(w)' = Recovering(w) /\ HandKept(w)
           /\ pass'[w].todo \subseteq pass[w].todo
           /\ store' = store \/ \E p \in pass[w].todo : store' = PurgedBy(store, p)
           /\ UNCHANGED << row, settings, boot, phaseLock >>
<1> USE DEF TypeOK, PassTypeOK
<1>1. CASE Purge(w)
  <2>1. PICK p \in pass[w].todo :
           /\ store' = PurgedBy(store, p)
           /\ pass' = [pass EXCEPT ![w] =
                 [pass[w] EXCEPT !.todo = @ \ {p}, !.purged = @ \cup {p}]]
    BY <1>1 DEF Purge
  <2>2. /\ pass'[w].pc = pass[w].pc /\ pass'[w].todo = pass[w].todo \ {p}
        /\ pass'[w].purged = pass[w].purged \cup {p}
        /\ pass'[w].failed = pass[w].failed /\ HandKept(w)
    BY <2>1 DEF Passes, HandKept
  <2> QED BY <1>1, <2>1, <2>2 DEF Purge, At, Recovering
<1>2. CASE PurgeFails(w)
  <2>1. PICK p \in pass[w].todo :
           pass' = [pass EXCEPT ![w] =
              [pass[w] EXCEPT !.todo = @ \ {p}, !.failed = @ \cup {p}]]
    BY <1>2 DEF PurgeFails
  <2>2. /\ pass'[w].pc = pass[w].pc /\ pass'[w].todo = pass[w].todo \ {p}
        /\ pass'[w].failed = pass[w].failed \cup {p}
        /\ pass'[w].purged = pass[w].purged /\ HandKept(w)
    BY <2>1 DEF Passes, HandKept
  <2> QED BY <1>2, <2>1, <2>2 DEF PurgeFails, At, Recovering, shared
<1> QED BY <1>1, <1>2

LEMMA PurgeDoneFacts ==
    ASSUME TypeOK, NEW w \in Workers, PurgeDone(w)
    PROVE  /\ pass[w].pc = "purge"
           /\ pass'[w].pc = IF pass[w].failed = {} THEN "loop" ELSE "exit"
           /\ pass'[w].pending = Stale(w, row'.diary) /\ HandKept(w)
           /\ Recovering(w) = pass[w].purged \cup pass[w].failed
           /\ \A p \in Phases :
                 row'.diary[p] = IF p \in pass[w].failed THEN PurgeFailed
                                 ELSE IF p \in pass[w].purged THEN NoEntry
                                 ELSE row.diary[p]
           /\ Present => Present'
           /\ UNCHANGED << store, settings, boot, phaseLock >>
<1> USE DEF TypeOK, SharedTypeOK, PassTypeOK
<1> DEFINE purged == pass[w].purged
           failed == pass[w].failed
           reset  == ResetPhaseEntries(row, purged)
<1>1. /\ reset \in Rows /\ reset.status = row.status
      /\ \A p \in Phases :
            reset.diary[p] = IF p \in purged THEN NoEntry ELSE row.diary[p]
  BY ResetType, RowFacts DEF ResetPhaseEntries, Rows
<1>2. row' = AfterPurge(w)
  BY DEF PurgeDone
<1>3. /\ \A p \in Phases :
            row'.diary[p] = IF p \in failed THEN PurgeFailed ELSE reset.diary[p]
      /\ row'.status \in {row.status, "processing"}
  <2>1. CASE failed = {}
    BY <1>1, <1>2, <2>1 DEF AfterPurge
  <2>2. CASE failed # {}
    <3>1. row' = [SetStatus(reset, "processing") EXCEPT
                    !.diary = [p \in Phases |->
                       IF p \in failed THEN PurgeFailed ELSE @[p]]]
      BY <1>2, <2>2 DEF AfterPurge
    <3> HIDE DEF reset
    <3> QED BY <1>1, <3>1 DEF SetStatus, Rows
  <2> QED BY <2>1, <2>2
<1>4. /\ pass'[w].pc = IF failed = {} THEN "loop" ELSE "exit"
      /\ pass'[w].pending = Stale(w, row'.diary) /\ HandKept(w)
  <2> HIDE DEF reset
  <2>1. pass' = [pass EXCEPT ![w] =
                   [@ EXCEPT !.pc = IF failed = {} THEN "loop" ELSE "exit",
                             !.pending = Stale(w, AfterPurge(w).diary),
                             !.purged = {}, !.failed = {}]]
    BY DEF PurgeDone
  <2>2. ASSUME NEW l, NEW S,
               pass' = [pass EXCEPT ![w] =
                  [@ EXCEPT !.pc = l, !.pending = S,
                            !.purged = {}, !.failed = {}]]
        PROVE  HandKept(w) /\ pass'[w].pc = l /\ pass'[w].pending = S
    BY <2>2 DEF HandKept, Passes
  <2> QED BY <1>2, <2>1, <2>2
<1>5. pass[w].todo = {} /\ pass[w].pc = "purge"
      /\ UNCHANGED << store, settings, boot, phaseLock >>
  BY DEF PurgeDone, At
<1> QED BY <1>1, <1>3, <1>4, <1>5 DEF Recovering, Present

LEMMA RecoverDispatch ==
    ASSUME TypeOK, PidReuse = FALSE, NEW w \in Workers, DispatchKnown(w),
           RecoverNothing(w) \/ RecoverStart(w)
    PROVE  DispatchKnown(w)'
<1>1. /\ pass[w].pc = "recover" /\ UNCHANGED shared
      /\ Present /\ \A p \in Phases : phaseLock[p] # w
      /\ \A p \in Phases : StateOf(p) = "processing" => p \in Orphaned(w)
  <2>1. pass[w].pc = "recover" /\ UNCHANGED shared
    BY DEF RecoverNothing, RecoverStart, At
  <2>2. Present /\ \A p \in Phases : phaseLock[p] # w
    BY <2>1 DEF DispatchKnown, RowPrecedesStore, Claimed, PendingKnown, InHand,
                BodyLabels
  <2>3. \A p \in Phases :
           StateOf(p) = "processing" => OwnerGone(w, row.diary[p])
    BY <2>1 DEF DispatchKnown, OrphansKnown, InHand, BodyLabels
  <2> QED BY <2>1, <2>2, <2>3, GoneIsAbandoned
<1>2. CASE RecoverNothing(w)
  <2>1. /\ pass'[w].pc = "loop" /\ pass'[w].pending = pass[w].pending
        /\ Orphaned(w) = {}
    BY <1>2, GotoKeeps DEF RecoverNothing
  <2>2. OrphansKnown(w)' /\ PurgeKnown(w)'
    BY <1>1, <2>1 DEF OrphansKnown, PurgeKnown, StateOf, InHand, BodyLabels,
                      shared
  <2>3. PendingKnown(w)'
    BY <1>1, <2>1 DEF DispatchKnown, PendingKnown, StateOf, InHand, BodyLabels,
                      shared
  <2>4. RowPrecedesStore(w)'
    BY <1>1, <2>1 DEF RowPrecedesStore, Present, shared
  <2> QED BY <2>2, <2>3, <2>4 DEF DispatchKnown
<1>3. CASE RecoverStart(w)
  <2>1. PICK first \in Orphaned(w) :
           /\ IsEarliest(first, Orphaned(w))
           /\ pass'[w].pc = "purge" /\ pass'[w].todo = FromOnward(first)
    BY <1>3, RecoverStartFacts
  <2>2. \A p \in Phases : StateOf(p) = "processing" => p \in pass'[w].todo
    <3> SUFFICES ASSUME NEW p \in Phases, StateOf(p) = "processing"
                 PROVE  p \in FromOnward(first)
      BY <2>1
    <3>1. p = first \/ Before(first, p)
      BY <1>1, <2>1 DEF IsEarliest
    <3> QED BY <3>1 DEF FromOnward, StateOf
  <2>3. OrphansKnown(w)' /\ PurgeKnown(w)'
    <3>1. OrphansKnown(w)'
      BY <1>1, <2>1 DEF DispatchKnown, OrphansKnown, StateOf, OwnerGone, InHand,
                        BodyLabels, shared
    <3>2. PurgeKnown(w)'
      BY <1>1, <2>2 DEF PurgeKnown, Recovering, StateOf, shared
    <3> QED BY <3>1, <3>2
  <2>4. PendingKnown(w)' /\ RowPrecedesStore(w)'
    BY <1>1, <2>1 DEF PendingKnown, RowPrecedesStore, Present, InHand,
                      BodyLabels, shared
  <2> QED BY <2>3, <2>4 DEF DispatchKnown
<1> QED BY <1>2, <1>3

LEMMA PurgeDispatch ==
    ASSUME TypeOK, NEW w \in Workers, DispatchKnown(w),
           Purge(w) \/ PurgeFails(w)
    PROVE  DispatchKnown(w)'
<1>1. /\ pass[w].pc = "purge" /\ pass'[w].pc = "purge"
      /\ Recovering(w)' = Recovering(w)
      /\ UNCHANGED << row, settings, boot, phaseLock >>
  BY PurgeFacts
<1>2. OrphansKnown(w)'
  BY <1>1 DEF DispatchKnown, OrphansKnown, StateOf, OwnerGone, InHand, BodyLabels
<1>3. PurgeKnown(w)'
  BY <1>1 DEF DispatchKnown, PurgeKnown, StateOf
<1>4. PendingKnown(w)' /\ RowPrecedesStore(w)'
  BY <1>1 DEF DispatchKnown, PendingKnown, RowPrecedesStore, Claimed, Present,
              InHand, BodyLabels
<1> QED BY <1>2, <1>3, <1>4 DEF DispatchKnown

LEMMA PurgeDoneDispatch ==
    ASSUME TypeOK, NEW w \in Workers, DispatchKnown(w), PurgeDone(w)
    PROVE  DispatchKnown(w)'
<1>1. /\ pass[w].pc = "purge"
      /\ pass'[w].pc = IF pass[w].failed = {} THEN "loop" ELSE "exit"
      /\ pass'[w].pending = Stale(w, row'.diary)
      /\ Recovering(w) = pass[w].purged \cup pass[w].failed
      /\ \A p \in Phases :
            row'.diary[p] = IF p \in pass[w].failed THEN PurgeFailed
                            ELSE IF p \in pass[w].purged THEN NoEntry
                            ELSE row.diary[p]
      /\ Present => Present'
      /\ UNCHANGED << store, settings, boot, phaseLock >>
  BY PurgeDoneFacts
<1>2. Present /\ \A p \in Phases : phaseLock[p] # w
  BY <1>1 DEF DispatchKnown, RowPrecedesStore, Claimed, PendingKnown, InHand,
              BodyLabels
<1>3. \A p \in Phases \ pass[w].failed : row'.diary[p].state # "processing"
  BY <1>1, EntryFacts DEF DispatchKnown, PurgeKnown, StateOf
<1>4. \A p \in Phases : row'.diary[p].state = "processing" =>
         OwnerGone(w, row.diary[p])'
  BY <1>1, <1>3 DEF PurgeFailed, Outcome, NoOwner, OwnerGone
<1>5. OrphansKnown(w)' /\ PurgeKnown(w)'
  BY <1>1, <1>3, <1>4 DEF OrphansKnown, PurgeKnown, StateOf, InHand, BodyLabels
<1>6. PendingKnown(w)' /\ RowPrecedesStore(w)'
  <2>1. \A p \in Phases :
           row'.diary[p].state = "pending" => p \in pass'[w].pending
    BY <1>1, PendingIsStale
  <2> QED BY <1>1, <1>2, <2>1
          DEF PendingKnown, RowPrecedesStore, StateOf, InHand, BodyLabels
<1> QED BY <1>5, <1>6 DEF DispatchKnown

(* ... then the rounds of the dispatch loop: no phase is processing        *)
(* between two of them, ...                                                *)
LEMMA RoundDispatch ==
    ASSUME NEW w \in Workers, Present',
           \A p \in Phases : row'.diary[p].state # "processing",
           Stale(w, row'.diary) \subseteq pass'[w].pending,
           \/ pass'[w].pc \in {"exit", "refresh"}
           \/ pass'[w].pc = "loop" /\ \A p \in Phases : phaseLock'[p] # w
    PROVE  DispatchKnown(w)'
<1>1. \A p \in Phases :
         row'.diary[p].state = "pending" => p \in pass'[w].pending
  BY PendingIsStale
<1> QED BY <1>1 DEF DispatchKnown, OrphansKnown, PurgeKnown, PendingKnown,
                    RowPrecedesStore, StateOf, InHand, BodyLabels

LEMMA LoopFacts ==
    ASSUME TypeOK, NEW w \in Workers, DispatchKnown(w), pass[w].pc = "loop"
    PROVE  /\ Present
           /\ \A p \in Phases : StateOf(p) # "processing" /\ phaseLock[p] # w
BY DEF DispatchKnown, RowPrecedesStore, OrphansKnown, PendingKnown, Claimed,
       InHand, BodyLabels

LEMMA WrittenEntry ==
    ASSUME NEW r \in Rows, NEW p \in Phases, NEW e
    PROVE  /\ WritePhaseEntry(r, p, e).status = "processing"
           /\ WritePhaseEntry(r, p, e).diary[p] = e
           /\ \A q \in Phases \ {p} :
                 WritePhaseEntry(r, p, e).diary[q] = r.diary[q]
BY RowFacts DEF WritePhaseEntry, SetStatus, Rows

LEMMA EntryEnds ==
    ASSUME TypeOK, NEW p \in Phases, NEW e, e.state # "processing",
           row' = WritePhaseEntry(row, p, e),
           \A q \in Phases \ {p} : StateOf(q) # "processing"
    PROVE  /\ Present'
           /\ \A q \in Phases : row'.diary[q].state # "processing"
BY RowWritten DEF TypeOK, SharedTypeOK, Present, StateOf

LEMMA SkipDispatch ==
    ASSUME TypeOK, NEW w \in Workers, DispatchKnown(w),
           SkipSettledPhase(w) \/ SkipInapplicablePhase(w)
    PROVE  DispatchKnown(w)'
<1>1. pass[w].pc = "loop"
  BY DEF SkipSettledPhase, SkipInapplicablePhase, Dispatches, At
<1>2. PICK p \in Phases :
         /\ Reprobe(w, row', p, {})
         /\ \/ row' = row
            \/ row' = WritePhaseEntry(row, p, Outcome("skipped"))
  <2>1. CASE SkipSettledPhase(w)
    BY <2>1 DEF SkipSettledPhase
  <2>2. CASE SkipInapplicablePhase(w)
    BY <2>2, FaultsAssumption DEF SkipInapplicablePhase
  <2> QED BY <2>1, <2>2
<1>3. Present' /\ \A q \in Phases : row'.diary[q].state # "processing"
  BY <1>1, <1>2, LoopFacts, EntryEnds, EntryFacts DEF Present, StateOf
<1> QED BY <1>2, <1>3, ReprobeKeeps, RoundDispatch

LEMMA PropagateDispatch ==
    ASSUME TypeOK, NEW w \in Workers, DispatchKnown(w), Propagate(w)
    PROVE  DispatchKnown(w)'
<1>1. PICK p \in Blocked(w), state \in Failed :
         LET r == WritePhaseEntry(row, p, Outcome(state))
             pending == Stale(w, r.diary)
         IN  /\ row' = IF state = "error" THEN SetStatus(r, "error") ELSE r
             /\ pass' = [pass EXCEPT ![w] = [@ EXCEPT
                            !.pending = pending,
                            !.pc = IF pending = {} THEN "refresh" ELSE "loop"]]
             /\ phaseLock' = phaseLock /\ pass[w].pc = "loop"
  BY DEF Propagate, At
<1>2. p \in Phases
  BY PassUpdates DEF Blocked, Passes, TypeOK
<1> DEFINE r == WritePhaseEntry(row, p, Outcome(state))
           S == Stale(w, r.diary)
           label == IF S = {} THEN "refresh" ELSE "loop"
<1>3. /\ r \in Rows /\ r.status = "processing"
      /\ \A q \in Phases : r.diary[q].state # "processing"
  <2>1. r \in Rows
    BY <1>2, WritePhaseEntryType, OutcomeType
       DEF TypeOK, SharedTypeOK, Failed, EntryStates
  <2>2. /\ r.status = "processing" /\ r.diary[p] = Outcome(state)
        /\ \A q \in Phases \ {p} : r.diary[q] = row.diary[q]
    BY <1>2, WrittenEntry DEF TypeOK, SharedTypeOK
  <2>3. \A q \in Phases : row.diary[q].state # "processing"
    BY <1>1, LoopFacts DEF StateOf
  <2>4. Outcome(state).state # "processing"
    BY EntryFacts DEF Failed
  <2> QED BY <2>1, <2>2, <2>3, <2>4
<1>4. /\ row'.diary = r.diary /\ Present'
      /\ pass' = [pass EXCEPT ![w] = [@ EXCEPT !.pending = S, !.pc = label]]
  <2>1. row' = IF state = "error" THEN SetStatus(r, "error") ELSE r
    BY <1>1
  <2>2. pass' = [pass EXCEPT ![w] = [@ EXCEPT !.pending = S, !.pc = label]]
    BY <1>1
  <2> HIDE DEF r
  <2> QED BY <1>3, <2>1, <2>2, StatusFacts DEF Present
<1>5. label \in {"refresh", "loop"}
  OBVIOUS
<1> HIDE DEF label, r
<1>6. pass'[w].pc = label /\ pass'[w].pending = S
  BY <1>4, RoundKeeps
<1> QED BY <1>1, <1>3, <1>4, <1>5, <1>6, LoopFacts, RoundDispatch

LEMMA PhaseLockIsFree ==
    ASSUME Alone, TypeOK, NEW w \in Workers, DispatchKnown(w)
    PROVE  ~PhaseLockTimeout(w)
BY LoopFacts DEF PhaseLockTimeout, Dispatches, At, Alone, Tasks

(* ... and one is while its body runs.                                     *)
LEMMA RunPhaseDispatch ==
    ASSUME TypeOK, NEW w \in Workers, DispatchKnown(w), RunPhase(w)
    PROVE  DispatchKnown(w)'
<1>1. PICK p \in Phases :
         /\ row' = WritePhaseEntry(row, p, RunBy(Owner(w)))
         /\ pass' = [pass EXCEPT ![w] = [@ EXCEPT !.pc = BodyOf(p), !.cur = p]]
         /\ pass[w].pc = "loop" /\ boot' = boot
  BY DEF RunPhase, Dispatches, At
<1>2. pass'[w].pc = BodyOf(p) /\ pass'[w].cur = p
  BY <1>1 DEF TypeOK, PassTypeOK, Passes
<1>3. BodyOf(p) \in {"sweep", "replace", "run"}
  BY DEF BodyOf
<1>4. /\ Present' /\ row'.diary[p] = RunBy(Owner(w))
      /\ \A q \in Phases \ {p} : row'.diary[q] = row.diary[q]
  BY <1>1, RowWritten DEF TypeOK, SharedTypeOK, Present
<1>5. row'.diary[p].owner = Owner(w)' /\ Owner(w)' = Owner(w)
  BY <1>1, <1>4 DEF RunBy, Outcome, Owner
<1>6. \A q \in Phases \ {p} : row'.diary[q].state # "processing"
  BY <1>1, <1>4, LoopFacts DEF StateOf
<1> QED BY <1>2, <1>3, <1>4, <1>5, <1>6
        DEF DispatchKnown, OrphansKnown, PurgeKnown, PendingKnown,
            RowPrecedesStore, StateOf, InHand, BodyLabels

(* The steps of a body, ...                                                *)
LEMMA InHandDispatch ==
    ASSUME TypeOK, NEW w \in Workers, DispatchKnown(w),
           pass[w].pc \in InHand, pass'[w].pc \in InHand,
           pass'[w].cur = pass[w].cur, boot' = boot, Present => Present',
           \A p \in Phases : \/ row'.diary[p] = row.diary[p]
                             \/ p # pass[w].cur /\ row'.diary[p] = NoEntry
    PROVE  DispatchKnown(w)'
<1>1. Present' /\ Owner(w)' = Owner(w)
  BY DEF DispatchKnown, RowPrecedesStore, Claimed, Owner
<1>2. pass[w].cur \in Phases
  BY DEF TypeOK, PassTypeOK, Passes
<1>3. OrphansKnown(w)'
  BY <1>1, <1>2, EntryFacts DEF DispatchKnown, OrphansKnown, StateOf, InHand,
                                BodyLabels
<1> QED BY <1>1, <1>3 DEF DispatchKnown, PurgeKnown, PendingKnown,
                          RowPrecedesStore, InHand, BodyLabels

LEMMA BodyDispatch ==
    ASSUME TypeOK, RowIsKnown, NEW w \in Workers, DispatchKnown(w),
           \/ ParseSweep(w) \/ ParseReset(w) \/ ParseStore(w)
           \/ EmbedDelete(w) \/ EmbedAdd(w) \/ RunExternal(w)
           \/ ExternalWaits(w) \/ AskAgain(w)
    PROVE  DispatchKnown(w)'
<1> USE DEF TypeOK, SharedTypeOK, PassTypeOK
<1>1. CASE ParseSweep(w) \/ EmbedDelete(w) \/ RunExternal(w) \/ AskAgain(w)
  <2>1. /\ row' = row /\ boot' = boot /\ pass[w].pc \in InHand
        /\ \E l \in InHand : Goto(w, l)
    BY <1>1 DEF ParseSweep, EmbedDelete, RunExternal, AskAgain, At, InHand,
                BodyLabels, shared
  <2> QED BY <2>1, GotoKeeps, InHandDispatch DEF HandKept, Present
<1>2. CASE ParseStore(w) \/ EmbedAdd(w)
  <2>1. /\ boot' = boot /\ pass[w].pc \in InHand /\ pass'[w].pc \in InHand
        /\ pass'[w].cur = pass[w].cur
    BY <1>2, RecordKeeps DEF ParseStore, EmbedAdd, At, InHand, BodyLabels
  <2>2. row'.diary = row.diary /\ (Present => Present')
    BY <1>2, StatusFacts DEF ParseStore, EmbedAdd, Present
  <2> QED BY <2>1, <2>2, InHandDispatch
<1>3. CASE ExternalWaits(w)
  <2>1. /\ boot' = boot /\ pass[w].pc = "run" /\ Goto(w, "wait")
        /\ row' = [SetStatus(row, "processing") EXCEPT
                      !.retry = {pass[w].cur}, !.overdue = FALSE]
    BY <1>3 DEF ExternalWaits, At
  <2>2. row'.diary = row.diary /\ (Present => Present')
    BY <2>1 DEF SetStatus, Present, Rows
  <2> QED BY <2>1, <2>2, GotoKeeps, InHandDispatch
          DEF HandKept, InHand, BodyLabels
<1>4. CASE ParseReset(w)
  <2>1. /\ boot' = boot /\ pass[w].pc = "reset" /\ Goto(w, "build")
        /\ row' = ResetPhaseEntries(row, Downstream(Parsing))
        /\ pass[w].cur = Parsing
    BY <1>4 DEF ParseReset, At, RowIsKnown, PassKnowsRow
  <2>2. Parsing \notin Downstream(Parsing)
    BY DEF Downstream
  <2>3. /\ Present => Present'
        /\ \A p \in Phases : \/ row'.diary[p] = row.diary[p]
                             \/ p # Parsing /\ row'.diary[p] = NoEntry
    BY <2>1, <2>2, RowReset DEF Present
  <2> QED BY <2>1, <2>3, GotoKeeps, InHandDispatch
          DEF HandKept, InHand, BodyLabels
<1> QED BY <1>1, <1>2, <1>3, <1>4

(* ... and its end.                                                        *)
LEMMA BodyEndDispatch ==
    ASSUME TypeOK, NEW w \in Workers, DispatchKnown(w),
           \/ ExternalSkips(w) \/ ExternalGivesUp(w) \/ BodyFails(w)
           \/ Finish(w)
    PROVE  DispatchKnown(w)'
<1> DEFINE p == pass[w].cur
<1>1. p \in Phases /\ pass[w].pc \in InHand
  BY DEF TypeOK, PassTypeOK, Passes, ExternalSkips, ExternalGivesUp, BodyFails,
         Finish, At, InHand, BodyLabels
<1>2. \A q \in Phases \ {p} : StateOf(q) # "processing"
  BY <1>1 DEF DispatchKnown, OrphansKnown
<1>3. CASE ExternalSkips(w) \/ Finish(w)
  <2>1. PICK e, more : /\ row' = WritePhaseEntry(row, p, e)
                       /\ e.state # "processing"
                       /\ Reprobe(w, row', p, more)
    BY <1>3, EntryFacts DEF ExternalSkips, Finish
  <2>2. Present' /\ \A q \in Phases : row'.diary[q].state # "processing"
    BY <1>1, <1>2, <2>1, EntryEnds
  <2> QED BY <1>1, <2>1, <2>2, ReprobeKeeps, RoundDispatch
<1>4. CASE ExternalGivesUp(w) \/ BodyFails(w)
  <2>1. /\ row' = WritePhaseEntry(row, p, Outcome("error"))
        /\ Goto(w, "blame")
    BY <1>4 DEF ExternalGivesUp, BodyFails, FailsPhase
  <2>2. Present' /\ \A q \in Phases : row'.diary[q].state # "processing"
    BY <1>1, <1>2, <2>1, EntryEnds, EntryFacts
  <2>3. pass'[w].pc = "blame"
    BY <2>1, GotoKeeps
  <2> QED BY <2>2, <2>3
          DEF DispatchKnown, OrphansKnown, PurgeKnown, PendingKnown,
              RowPrecedesStore, StateOf, InHand, BodyLabels
<1> QED BY <1>3, <1>4

LEMMA EndDispatch ==
    ASSUME TypeOK, NEW w \in Workers, DispatchKnown(w),
           \/ FailsSource(w) \/ Refresh(w) \/ GatePasses(w) \/ GateVetoes(w)
           \/ Exit(w)
    PROVE  DispatchKnown(w)'
<1> USE DEF TypeOK, SharedTypeOK, PassTypeOK
<1>1. /\ pass[w].pc \in {"blame", "refresh", "gate", "exit"}
      /\ boot' = boot /\ store' = store
  BY DEF FailsSource, Refresh, GatePasses, GateVetoes, Exit, At
<1>2. \/ pass'[w].pc \in {"gate", "exit"}
      \/ pass'[w].pc = "idle" /\ \A p \in Phases : phaseLock'[p] # w
  <2>1. CASE FailsSource(w) \/ Refresh(w) \/ GatePasses(w) \/ GateVetoes(w)
    <3>1. Goto(w, "gate") \/ Goto(w, "exit")
      BY <2>1 DEF FailsSource, Refresh, GatePasses, GateVetoes
    <3> QED BY <3>1, NextLabel
  <2>2. CASE Exit(w)
    BY <2>2, NextLabel, TasksAssumption DEF Exit, PhaseLocksLeftBy, Tasks
  <2> QED BY <2>1, <2>2
<1>3. row'.diary = row.diary /\ (Present => Present')
  <2>1. row' = row \/ \E s \in {"error", "processing", "completed"} :
                         row' = SetStatus(row, s)
    BY DerivedFacts DEF FailsSource, Refresh, GatePasses, GateVetoes, Exit
  <2> QED BY <2>1, StatusFacts DEF Present
<1>4. OrphansKnown(w)' /\ PurgeKnown(w)'
  BY <1>1, <1>2, <1>3, DiaryKeptDispatch DEF InHand, BodyLabels
<1>5. PendingKnown(w)' /\ RowPrecedesStore(w)'
  BY <1>1, <1>2, <1>3
     DEF DispatchKnown, PendingKnown, RowPrecedesStore, Claimed, InHand,
         BodyLabels
<1> QED BY <1>4, <1>5 DEF DispatchKnown

(* A process that dies takes its boot with it, so what it left processing  *)
(* is the entry of an earlier boot.                                        *)
LEMMA CrashDispatch ==
    ASSUME TypeOK, NEW w \in Workers, DispatchKnown(w),
           NEW proc \in Procs, Crash(proc)
    PROVE  DispatchKnown(w)'
<1> USE DEF TypeOK, SharedTypeOK, PassTypeOK
<1>1. /\ boot' = [boot EXCEPT ![proc] = @ + 1]
      /\ row' = row /\ store' = store
      /\ w \in Tasks /\ ProcOf[w] \in Procs /\ boot[ProcOf[w]] \in Nat
  BY TasksAssumption, ProcsAssumption DEF Crash, Tasks
<1>2. CASE ProcOf[w] = proc
  <2>1. pass'[w].pc = "idle"
    BY <1>1, <1>2 DEF Crash, IdlePass
  <2>2. \A p \in Phases : phaseLock'[p] # w
    BY <1>1, <1>2, TasksAssumption DEF Crash, Orphan
  <2>4. \A p \in Phases : StateOf(p) = "processing" =>
           OwnerGone(w, row.diary[p]) \/ row.diary[p].owner = Owner(w)
    BY DEF DispatchKnown, OrphansKnown, InHand
  <2>5. boot'[ProcOf[w]] = boot[ProcOf[w]] + 1
    BY <1>1, <1>2
  <2>6. \A p \in Phases : StateOf(p) = "processing" =>
           OwnerGone(w, row.diary[p])'
    <3> SUFFICES ASSUME NEW p \in Phases, StateOf(p) = "processing"
                 PROVE  OwnerGone(w, row.diary[p])'
      OBVIOUS
    <3>1. row.diary[p].owner.boot \in Nat
      BY RowFacts, ProcsAssumption DEF Entries, Owners
    <3>2. CASE OwnerGone(w, row.diary[p])
      BY <1>1, <2>5, <3>1, <3>2 DEF OwnerGone
    <3>3. CASE row.diary[p].owner = Owner(w)
      BY <1>1, <2>5, <3>3 DEF OwnerGone, Owner
    <3> QED BY <2>4, <3>2, <3>3
  <2>7. OrphansKnown(w)' /\ PurgeKnown(w)'
    BY <1>1, <2>1, <2>6 DEF OrphansKnown, PurgeKnown, StateOf, InHand,
                            BodyLabels
  <2>8. PendingKnown(w)' /\ RowPrecedesStore(w)'
    BY <1>1, <2>1, <2>2
       DEF DispatchKnown, PendingKnown, RowPrecedesStore, Present, Claimed,
           InHand, BodyLabels
  <2> QED BY <2>7, <2>8 DEF DispatchKnown
<1>3. CASE ProcOf[w] # proc
  <2>1. pass'[w] = pass[w] /\ boot'[ProcOf[w]] = boot[ProcOf[w]]
    BY <1>1, <1>3 DEF Crash
  <2>2. \A p \in Phases : phaseLock[p] # w => phaseLock'[p] # w
    BY <1>1, TasksAssumption DEF Crash, Orphan
  <2>3. OrphansKnown(w)' /\ PurgeKnown(w)'
    BY <1>1, <2>1 DEF DispatchKnown, OrphansKnown, PurgeKnown, OwnerGone,
                      Owner, StateOf, Recovering
  <2>4. PendingKnown(w)' /\ RowPrecedesStore(w)'
    BY <1>1, <2>1, <2>2
       DEF DispatchKnown, PendingKnown, RowPrecedesStore, StateOf, Present
  <2> QED BY <2>3, <2>4 DEF DispatchKnown
<1> QED BY <1>2, <1>3

LEMMA EnvironmentDispatch ==
    ASSUME TypeOK, NEW w \in Workers, DispatchKnown(w), Environment
    PROVE  DispatchKnown(w)'
<1> USE DEF TypeOK, SharedTypeOK, PassTypeOK
<1>1. CASE \E proc \in Procs : Crash(proc)
  BY <1>1, CrashDispatch
<1>2. ASSUME pass' = pass, boot' = boot,
             store'[Parsing] \in {store[Parsing], Nothing},
             row'.status = row.status,
             \A p \in Phases : /\ row'.diary[p].state = row.diary[p].state
                               /\ row'.diary[p].owner = row.diary[p].owner
                               /\ row.diary[p].aged => row'.diary[p].aged
                               /\ phaseLock'[p] \in {phaseLock[p], NoTask}
      PROVE  DispatchKnown(w)'
  <2>1. \A p \in Phases : phaseLock[p] # w => phaseLock'[p] # w
    BY <1>2, TasksAssumption DEF Tasks
  <2>2. pass[w].cur \in Phases /\ Owner(w)' = Owner(w)
    BY <1>2 DEF Passes, Owner
  <2>3. OrphansKnown(w)' /\ PurgeKnown(w)'
    BY <1>2, <2>2 DEF DispatchKnown, OrphansKnown, PurgeKnown, OwnerGone,
                      StateOf, Recovering
  <2>4. PendingKnown(w)' /\ RowPrecedesStore(w)'
    BY <1>2, <2>1
       DEF DispatchKnown, PendingKnown, RowPrecedesStore, StateOf, Present
  <2> QED BY <2>3, <2>4 DEF DispatchKnown
<1>3. CASE SourceLockExpires \/ StoreWiped
           \/ \E p \in Phases : PhaseLockExpires(p) \/ SettingsChange(p)
  BY <1>2, <1>3, PhasesAssumption
     DEF SourceLockExpires, StoreWiped, PhaseLockExpires, SettingsChange,
         Without, Chunks
<1>4. CASE BudgetRunsOut
  BY <1>2, <1>4, PhasesAssumption DEF BudgetRunsOut, Rows
<1>5. CASE \E p \in Phases : LeaseAges(p)
  <2>1. PICK q \in Phases : row' = [row EXCEPT !.diary[q].aged = TRUE]
    BY <1>5 DEF LeaseAges
  <2>2. /\ row'.status = row.status
        /\ \A p \in Phases : /\ row'.diary[p].state = row.diary[p].state
                             /\ row'.diary[p].owner = row.diary[p].owner
                             /\ row.diary[p].aged => row'.diary[p].aged
    BY <2>1, RowFacts DEF Rows, Entries
  <2> QED BY <1>2, <1>5, <2>2, PhasesAssumption DEF LeaseAges
<1> QED BY <1>1, <1>3, <1>4, <1>5 DEF Environment

----------------------------------------------------------------------------
DispatchIsKnown == \A w \in Workers : DispatchKnown(w)

LEMMA InitDispatch == Init => DispatchIsKnown
<1> SUFFICES ASSUME Init, NEW w \in Workers
             PROVE  DispatchKnown(w)
  BY DEF DispatchIsKnown
<1>1. pass[w].pc = "idle" /\ store[Parsing] = Nothing
  BY PhasesAssumption DEF Init, SharedInit, PassInit, IdlePass, EmptyStore
<1>2. \A p \in Phases : StateOf(p) = "pending" /\ phaseLock[p] # w
  BY TasksAssumption, EntryFacts
     DEF Init, SharedInit, NoRow, EmptyDiary, StateOf, Tasks
<1> QED BY <1>1, <1>2
        DEF DispatchKnown, OrphansKnown, PurgeKnown, PendingKnown,
            RowPrecedesStore, Claimed, InHand, BodyLabels

LEMMA NextDispatch ==
    ASSUME OneAtATime
    PROVE  TypeOK /\ RowIsKnown /\ DispatchIsKnown /\ [Next]_vars
             => DispatchIsKnown'
<1> SUFFICES ASSUME TypeOK, RowIsKnown, DispatchIsKnown, [Next]_vars
             PROVE  DispatchIsKnown'
  OBVIOUS
<1>1. ASSUME NEW w \in Workers, DispatchKnown(w)'
      PROVE  DispatchIsKnown'
  BY <1>1 DEF DispatchIsKnown, OneAtATime, Alone
<1>2. ASSUME NEW w \in Workers, Enter(w) \/ BeforeLock(w)
      PROVE  DispatchKnown(w)'
  BY <1>2, EnterDispatch, BeforeLockDispatch DEF DispatchIsKnown
<1>3. ASSUME NEW w \in Workers, UnderLock(w)
      PROVE  DispatchKnown(w)'
  BY <1>3, ClaimDispatch, RecoverDispatch, PurgeDispatch, PurgeDoneDispatch,
     SkipDispatch, PropagateDispatch, PhaseLockIsFree, RunPhaseDispatch,
     BodyDispatch, BodyEndDispatch, EndDispatch
     DEF UnderLock, DispatchIsKnown, OneAtATime
<1>4. CASE Environment
  BY <1>4, EnvironmentDispatch DEF DispatchIsKnown
<1>5. CASE UNCHANGED vars
  BY <1>5 DEF vars, DispatchIsKnown, DispatchKnown, OrphansKnown, PurgeKnown,
              PendingKnown, RowPrecedesStore, Recovering, OwnerGone, Owner,
              StateOf, Present
<1> QED BY <1>1, <1>2, <1>3, <1>4, <1>5 DEF Next, OneAtATime, Alone

LEMMA DispatchIsAlwaysKnown ==
    ASSUME OneAtATime
    PROVE  Spec => []DispatchIsKnown
<1>1. TypeOK /\ RowIsKnown /\ DispatchIsKnown /\ [Next]_vars => DispatchIsKnown'
  BY NextDispatch
<1>2. Spec => []RowIsKnown
  BY RowKnown DEF OneAtATime
<1> QED BY <1>1, <1>2, InitDispatch, TypeCorrect, PTL DEF Spec

(* The head of the pending list has its dependencies behind it.            *)
LEMMA RunsBehindDependencies ==
    ASSUME OneAtATime, TypeOK, NEW w \in Workers, DispatchKnown(w),
           NEW p \in Phases, Dispatches(w, p), NEW d \in Deps(p)
    PROVE  StateOf(d) = "complete"
<1>1. PICK head \in pass[w].pending :
         /\ pass[w].pc = "loop" /\ Blocked(w) = {}
         /\ IsEarliest(head, pass[w].pending)
         /\ p \in {head, Parsing}
  BY DEF Dispatches, At
<1>2. p # Parsing /\ p = head
  <2>1. Deps(Parsing) = {}
    BY PhasesAssumption DEF Deps
  <2> QED BY <1>1, <2>1
<1>3. d \in Phases /\ Before(d, p)
  BY PhasesAssumption DEF OneAtATime, DependenciesRegisteredFirst, Deps
<1>4. d \notin pass[w].pending
  BY <1>1, <1>2, <1>3, BeforeIsOrder DEF IsEarliest
<1>5. StateOf(d) # "pending"
  BY <1>1, <1>2, <1>3, <1>4 DEF DispatchKnown, PendingKnown
<1>6. StateOf(d) # "processing"
  BY <1>1, <1>3, LoopFacts
<1>7. StateOf(d) \notin Failed
  BY <1>1, <1>2 DEF Blocked, DependencyFailed, StateOf
<1> QED BY <1>3, <1>5, <1>6, <1>7, RowFacts
        DEF TypeOK, SharedTypeOK, StateOf, Failed, EntryStates

(* What else leaves the loop starts no body.                               *)
LEMMA OnlyRunPhaseRuns ==
    ASSUME TypeOK, NEW w \in Workers, pass[w].pc = "loop",
           Enter(w) \/ BeforeLock(w) \/ UnderLock(w), ~PhaseLockTimeout(w)
    PROVE  pass'[w].pc \in BodyLabels => RunPhase(w)
<1>1. ~Enter(w) /\ ~BeforeLock(w)
  BY DEF Enter, UploadStart, ResumeList, RevalidateList, ReembedStart,
         BeforeLock, RevalidateClaim, RevalidateRefused, HandOver,
         MarkFileMissing, UploadPersist, Begin, ProbeExplicit, ProbeNoRow,
         ProbeStale, ProbeStoreEmpty, ProbeFresh, LockSource,
         LockSourceTimeout, At
<1>2. \/ LoopEnds(w) \/ Propagate(w) \/ RunPhase(w) \/ SkipSettledPhase(w)
      \/ SkipInapplicablePhase(w)
  BY <1>1 DEF UnderLock, Claim, ClaimRefused, RecoverNothing, RecoverStart,
     Purge, PurgeFails, PurgeDone, ParseSweep, ParseReset, ParseStore,
     EmbedDelete, EmbedAdd, RunExternal, ExternalSkips, ExternalWaits, AskAgain,
     ExternalGivesUp, BodyFails, FailsSource, Finish, Refresh, GatePasses,
     GateVetoes, Exit, At, BodyLabels
<1>3. CASE LoopEnds(w)
  BY <1>3, GotoKeeps DEF LoopEnds, BodyLabels
<1>4. CASE Propagate(w)
  <2>1. \E S : \E l \in {"refresh", "loop"} :
           pass' = [pass EXCEPT ![w] = [@ EXCEPT !.pending = S, !.pc = l]]
    BY <1>4 DEF Propagate
  <2> QED BY <2>1, RoundKeeps DEF BodyLabels
<1>5. CASE SkipSettledPhase(w) \/ SkipInapplicablePhase(w)
  <2>1. \E p \in Phases : \E r : Reprobe(w, r, p, {})
    BY <1>5, FaultsAssumption DEF SkipSettledPhase, SkipInapplicablePhase
  <2> QED BY <2>1, ReprobeKeeps DEF BodyLabels
<1> QED BY <1>2, <1>3, <1>4, <1>5

(* Section 3: with one worker at a time, and whatever fails, is skipped,   *)
(* waits, crashes, is recovered or goes stale, no phase body starts before *)
(* every dependency of its phase is complete in the diary.                 *)
THEOREM DependenciesFirst ==
    ASSUME OneAtATime
    PROVE  Spec => BodyBehindDependencies
<1> DEFINE Behind ==
       \A w \in Workers :
          pass[w].pc = "loop" /\ pass'[w].pc \in BodyLabels =>
             \A p \in Deps(pass'[w].cur) : row.diary[p].state = "complete"
<1>1. TypeOK /\ DispatchIsKnown /\ [Next]_vars => [Behind]_vars
  <2> SUFFICES ASSUME TypeOK, DispatchIsKnown, Next, NEW w \in Workers,
                      pass[w].pc = "loop", pass'[w].pc \in BodyLabels,
                      NEW d \in Deps(pass'[w].cur)
               PROVE  row.diary[d].state = "complete"
    OBVIOUS
  <2>1. DispatchKnown(w)
    BY DEF DispatchIsKnown
  <2>2. Enter(w) \/ BeforeLock(w) \/ UnderLock(w)
    <3>1. pass'[w] # pass[w] /\ pass'[w] # IdlePass
      BY DEF BodyLabels, IdlePass
    <3>2. ~Environment
      BY <3>1 DEF Environment, Crash, SourceLockExpires, BudgetRunsOut,
                  PhaseLockExpires, LeaseAges, SettingsChange, StoreWiped
    <3> QED BY <3>2 DEF Next, OneAtATime, Alone
  <2>3. RunPhase(w)
    BY <2>1, <2>2, OnlyRunPhaseRuns, PhaseLockIsFree DEF OneAtATime
  <2>4. PICK p \in Phases :
           /\ Dispatches(w, p)
           /\ pass' = [pass EXCEPT ![w] =
                         [@ EXCEPT !.pc = BodyOf(p), !.cur = p]]
    BY <2>3 DEF RunPhase
  <2>5. pass'[w].cur = p
    BY <2>4 DEF TypeOK, PassTypeOK, Passes
  <2> QED BY <2>1, <2>4, <2>5, RunsBehindDependencies DEF StateOf
<1> QED BY <1>1, TypeCorrect, DispatchIsAlwaysKnown, PTL
        DEF Spec, BodyBehindDependencies

----------------------------------------------------------------------------
(* The products of a completed source.  What makes one wrong is settings   *)
(* that move under a pass, a store that is wiped under a diary, or points  *)
(* embedded under a tag that is not theirs.  The first two are assumed     *)
(* away; the third is what the invariant keeps track of.                   *)

Undisturbed == OneAtATime /\ SettingsMayMove = FALSE /\ StoreMayBeWiped = FALSE

Overtaken(p) == \E q \in Phases : StateOf(q) = "processing" /\ Before(q, p)

Has(p)   == StateOf(p) = "complete"
TagOf(p) == row.diary[p].tag[p]
Made(p)  == store[p] = TagOf(p)

(* A product may be gone under its entry while a recovery has yet to get   *)
(* to an earlier phase: no row reads completed before that is over.        *)
Excused(w, p) == pass[w].pc \notin InHand /\ Overtaken(p)

ProductsKnown(w) ==
    /\ \A p \in Phases \ Chunks : Has(p) => Made(p) \/ Excused(w, p)
    /\ Has(Parsing) /\ Has(Embedding) =>
          \/ Made(Parsing) /\ Made(Embedding)
          \/ Excused(w, Embedding)

(* A recovery purges what a phase it found processing overtakes, and that  *)
(* only.                                                                   *)
PurgeCovers(w) ==
    pass[w].pc = "purge" =>
       /\ \A p \in Phases :
             StateOf(p) # "pending" /\ Overtaken(p) => p \in Recovering(w)
       /\ \A p \in pass[w].todo : StateOf(p) = "processing" \/ Overtaken(p)

(* The points a pass would embed are those the entry of parsing tells of,  *)
(* unless this pass has embedded them already.                             *)
BeforeProbe == {"persist", "handed", "listed", "begin"}
Probed      == {"probe", "lock", "claim", "recover", "purge"}
Rounds      == InHand \cup {"loop"}

Embedded == /\ Has(Embedding)
            /\ row.diary[Embedding].tag = CurrentTag(settings, Embedding)

RightPoints(w) == Reusable(w) \in {Nothing, TagOf(Parsing)}

PointsKnown(w) ==
    /\ pass[w].pc \in BeforeProbe => pass[w].stored = Nothing
    /\ pass[w].pc \in Probed \cup Rounds =>
          pass[w].embedder = settings[Embedding]
    /\ pass[w].pc \in Probed /\ Has(Parsing) => RightPoints(w)
    /\ /\ pass[w].pc \in Rounds /\ Has(Parsing)
       /\ ~(pass[w].pc = "record" /\ pass[w].cur = Embedding)
       => RightPoints(w) \/ Embedded

(* What a body has made of them.                                           *)
BodyKnown(w) ==
    /\ pass[w].pc \in {"replace", "restore"} =>
          /\ pass[w].cur = Embedding /\ Reusable(w) # Nothing
          /\ Has(Parsing) => Reusable(w) = TagOf(Parsing)
    /\ pass[w].pc \in {"run", "wait"} => pass[w].cur \notin Chunks
    /\ pass[w].pc = "build" => StateOf(Embedding) = "pending"
    /\ pass[w].pc = "record" =>
          /\ store[pass[w].cur] = settings[pass[w].cur]
          /\ pass[w].cur = Embedding /\ Has(Parsing) => Made(Parsing)
          /\ pass[w].cur = Parsing =>
                /\ StateOf(Embedding) = "pending"
                /\ pass[w].stored = settings[Parsing]

ChunksKnown ==
    /\ Has(Parsing) => store[Parsing] \in {Nothing, TagOf(Parsing)}
    /\ StateOf(Parsing) # "skipped" /\ StateOf(Embedding) # "skipped"

ProductKnown(w) ==
    /\ ProductsKnown(w) /\ PurgeCovers(w)
    /\ PointsKnown(w) /\ BodyKnown(w) /\ ChunksKnown

----------------------------------------------------------------------------
(* The invariant of the products, step by step: first the steps that touch *)
(* neither the diary nor the store, ...                                    *)

SameDiary ==
    \A p \in Phases : /\ row'.diary[p].state = row.diary[p].state
                      /\ row'.diary[p].tag = row.diary[p].tag

LEMMA SameDiarySame ==
    ASSUME SameDiary
    PROVE  /\ \A p \in Phases : /\ StateOf(p)' = StateOf(p)
                                /\ Has(p)' = Has(p) /\ TagOf(p)' = TagOf(p)
                                /\ Overtaken(p)' = Overtaken(p)
           /\ settings' = settings => Embedded' = Embedded
BY PhasesAssumption
   DEF SameDiary, StateOf, Has, TagOf, Overtaken, Embedded, CurrentTag

LEMMA ReusableKept ==
    ASSUME NEW w \in Workers, HandKept(w)
    PROVE  Reusable(w)' = Reusable(w)
BY DEF HandKept, Reusable

LEMMA QuietProducts ==
    ASSUME NEW w \in Workers, ProductKnown(w), SameDiary,
           store' = store, settings' = settings,
           pass[w].pc \notin InHand \cup {"purge"},
           \/ pass'[w].pc \in {"idle", "refresh", "gate", "exit"}
           \/ pass'[w].pc \in BeforeProbe /\ pass'[w].stored = Nothing
           \/ /\ pass'[w].pc \in Probed \ {"purge"} /\ pass[w].pc \in Probed
              /\ HandKept(w)
           \/ /\ pass'[w].pc = "loop" /\ pass[w].pc \in Probed \cup {"loop"}
              /\ HandKept(w)
    PROVE  ProductKnown(w)'
<1>1. pass'[w].pc \notin InHand \cup {"purge"}
  BY DEF InHand, BodyLabels, BeforeProbe, Probed
<1>2. Parsing \in Phases /\ Embedding \in Phases
  BY PhasesAssumption
<1>3. ProductsKnown(w)'
  BY <1>1, <1>2, SameDiarySame
     DEF ProductKnown, ProductsKnown, Excused, Made, TagOf
<1>4. PurgeCovers(w)' /\ BodyKnown(w)' /\ ChunksKnown'
  BY <1>1, <1>2, SameDiarySame
     DEF ProductKnown, PurgeCovers, BodyKnown, ChunksKnown, InHand, BodyLabels
<1>5. PointsKnown(w)'
  <2>1. CASE HandKept(w)
    BY <1>1, <1>2, <2>1, SameDiarySame, ReusableKept
       DEF ProductKnown, PointsKnown, RightPoints, BeforeProbe, Probed, Rounds,
           InHand, BodyLabels, HandKept
  <2>2. CASE pass'[w].pc \notin Probed \cup Rounds
    BY <2>2 DEF PointsKnown, BeforeProbe
  <2> QED BY <2>1, <2>2
          DEF BeforeProbe, Probed, Rounds, InHand, BodyLabels
<1> QED BY <1>3, <1>4, <1>5 DEF ProductKnown

LEMMA EnterProducts ==
    ASSUME TypeOK, NEW w \in Workers, ProductKnown(w), Enter(w)
    PROVE  ProductKnown(w)'
<1> USE DEF TypeOK, SharedTypeOK, PassTypeOK
<1>1. /\ pass[w].pc = "idle" /\ settings' = settings /\ store' = store
      /\ \E k, label : label \in BeforeProbe /\ Start(w, k, label)
  BY DEF Enter, UploadStart, ResumeList, RevalidateList, ReembedStart, shared,
         At, BeforeProbe
<1>2. pass'[w].pc \in BeforeProbe /\ pass'[w].stored = Nothing
  BY <1>1 DEF Start, IdlePass, Nothing
<1>3. SameDiary
  BY EnterKeepsDiary DEF SameDiary
<1> QED BY <1>1, <1>2, <1>3, QuietProducts DEF InHand, BodyLabels

LEMMA BeginProducts ==
    ASSUME TypeOK, NEW w \in Workers, ProductKnown(w), Begin(w)
    PROVE  ProductKnown(w)'
<1>1. /\ pass[w].pc = "begin" /\ pass'[w].pc = "probe"
      /\ pass'[w].snapshot = store[Parsing]
      /\ pass'[w].embedder = settings[Embedding]
      /\ pass'[w].stored = pass[w].stored
      /\ row' = row /\ store' = store /\ settings' = settings
  BY DEF TypeOK, PassTypeOK, Passes, Begin, At, shared
<1>2. pass[w].stored = Nothing
  BY <1>1 DEF ProductKnown, PointsKnown, BeforeProbe
<1>3. SameDiary /\ Parsing \in Phases /\ Embedding \in Phases
  BY <1>1, PhasesAssumption DEF SameDiary
<1>4. ProductsKnown(w)'
  BY <1>1, <1>3, SameDiarySame
     DEF ProductKnown, ProductsKnown, Excused, Made, TagOf, InHand, BodyLabels
<1>5. PurgeCovers(w)' /\ BodyKnown(w)' /\ ChunksKnown'
  BY <1>1, <1>3, SameDiarySame
     DEF ProductKnown, PurgeCovers, BodyKnown, ChunksKnown
<1>6. Reusable(w)' = store[Parsing]
  BY <1>1, <1>2 DEF Reusable
<1>7. PointsKnown(w)'
  BY <1>1, <1>3, <1>6, SameDiarySame
     DEF ProductKnown, ChunksKnown, PointsKnown, RightPoints, BeforeProbe,
         Probed, Rounds, InHand, BodyLabels
<1> QED BY <1>4, <1>5, <1>7 DEF ProductKnown

LEMMA BeforeLockProducts ==
    ASSUME TypeOK, NEW w \in Workers, ProductKnown(w), BeforeLock(w)
    PROVE  ProductKnown(w)'
<1> USE DEF TypeOK, SharedTypeOK, PassTypeOK
<1>1. SameDiary
  BY BeforeLockKeepsDiary DEF SameDiary
<1>2. CASE \/ ProbeExplicit(w) \/ LockSourceTimeout(w) \/ RevalidateRefused(w)
           \/ MarkFileMissing(w) \/ ProbeFresh(w)
  <2>1. /\ pass[w].pc \in {"probe", "lock", "listed", "handed"}
        /\ Stop(w) \/ Goto(w, "refresh")
        /\ store' = store /\ settings' = settings
    BY <1>2 DEF ProbeExplicit, LockSourceTimeout, RevalidateRefused,
                MarkFileMissing, ProbeFresh, At, shared
  <2> QED BY <1>1, <2>1, NextLabel, QuietProducts DEF InHand, BodyLabels
<1>3. CASE UploadPersist(w) \/ RevalidateClaim(w) \/ HandOver(w)
  <2>1. /\ pass[w].pc \in {"persist", "listed", "handed"}
        /\ Goto(w, "begin") \/ Goto(w, "handed")
        /\ store' = store /\ settings' = settings
    BY <1>3 DEF UploadPersist, RevalidateClaim, HandOver, At, shared
  <2>2. pass'[w].pc \in BeforeProbe /\ pass'[w].stored = Nothing
    BY <2>1, GotoKeeps
       DEF ProductKnown, PointsKnown, BeforeProbe, HandKept
  <2> QED BY <1>1, <2>1, <2>2, QuietProducts DEF InHand, BodyLabels
<1>4. CASE ProbeNoRow(w) \/ ProbeStale(w) \/ ProbeStoreEmpty(w)
  <2>1. /\ pass[w].pc = "probe" /\ store' = store /\ settings' = settings
        /\ \E S, forced : QueueFor(w, S, forced)
    BY <1>4 DEF ProbeNoRow, ProbeStale, ProbeStoreEmpty, At, shared
  <2> QED BY <1>1, <2>1, QueueKeeps, QuietProducts
          DEF Probed, InHand, BodyLabels
<1>5. CASE LockSource(w)
  BY <1>1, <1>5, GotoKeeps, QuietProducts
     DEF LockSource, At, Probed, InHand, BodyLabels
<1> QED BY <1>2, <1>3, <1>4, <1>5, BeginProducts DEF BeforeLock

LEMMA QuietUnderLockProducts ==
    ASSUME TypeOK, NEW w \in Workers, ProductKnown(w),
           \/ Claim(w) \/ ClaimRefused(w) \/ RecoverNothing(w) \/ LoopEnds(w)
           \/ FailsSource(w) \/ Refresh(w) \/ GatePasses(w) \/ GateVetoes(w)
           \/ Exit(w)
    PROVE  ProductKnown(w)'
<1> USE DEF TypeOK, SharedTypeOK, PassTypeOK
<1>1. /\ pass[w].pc \in {"claim", "recover", "loop", "blame", "refresh",
                         "gate", "exit"}
      /\ store' = store /\ settings' = settings
  BY DEF Claim, ClaimRefused, RecoverNothing, LoopEnds, FailsSource, Refresh,
         GatePasses, GateVetoes, Exit, At, shared
<1>2. \/ pass[w].pc = "claim" /\ Goto(w, "recover")
      \/ pass[w].pc = "recover" /\ Goto(w, "loop")
      \/ Goto(w, "gate") \/ Goto(w, "exit") \/ Stop(w)
  BY DEF Claim, ClaimRefused, RecoverNothing, LoopEnds, FailsSource, Refresh,
         GatePasses, GateVetoes, Exit, At
<1>3. SameDiary
  <2>1. \/ row' = row \/ \E s : row' = SetStatus(row, s) \/ Claim(w)
    BY DEF ClaimRefused, RecoverNothing, LoopEnds, FailsSource, Refresh,
           GatePasses, GateVetoes, Exit, shared
  <2>2. Claim(w) => row'.diary = row.diary
    BY DEF Claim, Rows
  <2> QED BY <2>1, <2>2, StatusFacts DEF SameDiary
<1> QED BY <1>1, <1>2, <1>3, GotoKeeps, NextLabel, QuietProducts
        DEF Probed, InHand, BodyLabels

(* ... then the recovery: what it takes away is overtaken, ...             *)
LEMMA RecoverStartProducts ==
    ASSUME TypeOK, PidReuse = FALSE, NEW w \in Workers, DispatchKnown(w),
           ProductKnown(w), RecoverStart(w)
    PROVE  ProductKnown(w)'
<1>1. PICK first \in Orphaned(w) :
         /\ IsEarliest(first, Orphaned(w))
         /\ pass[w].pc = "recover" /\ pass'[w].pc = "purge"
         /\ pass'[w].todo = FromOnward(first)
         /\ HandKept(w) /\ UNCHANGED shared
  BY RecoverStartFacts
<1>2. first \in Phases /\ StateOf(first) = "processing"
  BY OrphanIsProcessing
<1>3. \A p \in Phases : StateOf(p) = "processing" =>
         p = first \/ Before(first, p)
  <2>1. \A p \in Phases : StateOf(p) = "processing" => p \in Orphaned(w)
    BY <1>1, GoneIsAbandoned
       DEF DispatchKnown, OrphansKnown, InHand, BodyLabels
  <2> QED BY <1>1, <2>1 DEF IsEarliest
<1>4. SameDiary /\ Parsing \in Phases /\ Embedding \in Phases
  BY <1>1, PhasesAssumption DEF SameDiary, shared
<1>5. \A p \in Phases :
         StateOf(p) # "pending" /\ Overtaken(p) => p \in FromOnward(first)
  <2> SUFFICES ASSUME NEW p \in Phases, StateOf(p) # "pending",
                      NEW q \in Phases, StateOf(q) = "processing", Before(q, p)
               PROVE  p \in FromOnward(first)
    BY DEF Overtaken
  <2>1. Before(first, p)
    BY <1>2, <1>3, BeforeIsOrder
  <2> QED BY <2>1 DEF FromOnward, StateOf
<1>6. \A p \in FromOnward(first) :
         p \in Phases /\ (StateOf(p) = "processing" \/ Overtaken(p))
  BY <1>2 DEF FromOnward, Overtaken
<1>7. PurgeCovers(w)'
  BY <1>1, <1>4, <1>5, <1>6, SameDiarySame DEF PurgeCovers, Recovering
<1>8. ProductsKnown(w)'
  BY <1>1, <1>4, SameDiarySame
     DEF ProductKnown, ProductsKnown, Excused, Made, TagOf, InHand, BodyLabels,
         shared
<1>9. BodyKnown(w)' /\ ChunksKnown'
  BY <1>1, <1>4, SameDiarySame DEF ProductKnown, BodyKnown, ChunksKnown, shared
<1>10. PointsKnown(w)'
  BY <1>1, <1>4, SameDiarySame, ReusableKept
     DEF ProductKnown, PointsKnown, RightPoints, BeforeProbe, Probed, Rounds,
         InHand, BodyLabels, HandKept, shared
<1> QED BY <1>7, <1>8, <1>9, <1>10 DEF ProductKnown

(* Purging a phase takes no product but its own, and the chunks with the   *)
(* vectors.                                                                *)
LEMMA PurgedByFacts ==
    ASSUME TypeOK, NEW p \in Phases
    PROVE  /\ PurgedBy(store, p)[Parsing] \in {store[Parsing], Nothing}
           /\ \A q \in Phases \ {p} :
                 \/ q \in Chunks /\ p \in Chunks
                 \/ PurgedBy(store, p)[q] = store[q]
BY PhasesAssumption
   DEF TypeOK, SharedTypeOK, PurgedBy, Without, Chunks

LEMMA EmbeddingAfterParsing ==
    ASSUME DependenciesRegisteredFirst
    PROVE  Before(Parsing, Embedding)
<1>1. Parsing \in Deps(Embedding)
  BY PhasesAssumption DEF Deps
<1> QED BY <1>1, PhasesAssumption DEF DependenciesRegisteredFirst

LEMMA PurgeProducts ==
    ASSUME TypeOK, DependenciesRegisteredFirst, NEW w \in Workers,
           ProductKnown(w), Purge(w) \/ PurgeFails(w)
    PROVE  ProductKnown(w)'
<1>1. /\ pass[w].pc = "purge" /\ pass'[w].pc = "purge"
      /\ Recovering(w)' = Recovering(w) /\ HandKept(w)
      /\ pass'[w].todo \subseteq pass[w].todo
      /\ store' = store \/ \E p \in pass[w].todo : store' = PurgedBy(store, p)
      /\ UNCHANGED << row, settings, boot, phaseLock >>
  BY PurgeFacts
<1>2. SameDiary /\ Parsing \in Phases /\ Embedding \in Phases
  BY <1>1, PhasesAssumption DEF SameDiary
<1>3. pass[w].todo \subseteq Phases
  BY DEF TypeOK, PassTypeOK, Passes
<1>4. PurgeCovers(w)'
  BY <1>1, <1>2, <1>3, SameDiarySame DEF ProductKnown, PurgeCovers
<1>5. ProductsKnown(w)'
  <2>1. CASE store' = store
    BY <1>1, <1>2, <2>1, SameDiarySame
       DEF ProductKnown, ProductsKnown, Excused, Made, TagOf, InHand, BodyLabels
  <2>2. ASSUME NEW p \in pass[w].todo, store' = PurgedBy(store, p)
        PROVE  ProductsKnown(w)'
    <3>1. StateOf(p) = "processing" \/ Overtaken(p)
      BY <1>1 DEF ProductKnown, PurgeCovers
    <3>2. \A q \in Phases \ {p} :
             (q \in Chunks /\ p \in Chunks) \/ store'[q] = store[q]
      BY <1>3, <2>2, PurgedByFacts
    <3>3. \A q \in Phases : Has(q) =>
             \/ Overtaken(q)
             \/ store'[q] = store[q]
             \/ q \in Chunks /\ p \in Chunks
      BY <3>1, <3>2 DEF Has
    <3>4. p \in Chunks /\ Has(Parsing) /\ Has(Embedding) =>
             Overtaken(Embedding)
      <4>1. CASE p = Embedding
        BY <3>1, <4>1 DEF Has
      <4>2. ASSUME p = Parsing, Has(Parsing)
            PROVE  Overtaken(Embedding)
        <5>1. PICK q \in Phases : StateOf(q) = "processing"
                                  /\ Before(q, Parsing)
          BY <3>1, <4>2 DEF Has, Overtaken
        <5>2. Before(q, Embedding)
          BY <1>2, <5>1, EmbeddingAfterParsing, BeforeIsOrder
        <5> QED BY <5>1, <5>2 DEF Overtaken
      <4> QED BY <4>1, <4>2 DEF Chunks
    <3>5. \A q \in Phases : Overtaken(q) => Excused(w, q)'
      BY <1>1, <1>2, SameDiarySame DEF Excused, InHand, BodyLabels
    <3>6. ASSUME NEW q \in Phases \ Chunks, Has(q)
          PROVE  Made(q)' \/ Excused(w, q)'
      BY <1>2, <3>3, <3>5, <3>6, SameDiarySame
         DEF ProductKnown, ProductsKnown, Excused, Made
    <3>7. ASSUME Has(Parsing), Has(Embedding)
          PROVE  \/ Made(Parsing)' /\ Made(Embedding)'
                 \/ Excused(w, Embedding)'
      <4>1. CASE p \in Chunks
        BY <1>2, <3>4, <3>5, <3>7, <4>1
      <4>2. CASE p \notin Chunks
        <5>1. store'[Parsing] = store[Parsing]
              /\ store'[Embedding] = store[Embedding]
          BY <1>2, <3>2, <4>2 DEF Chunks
        <5> QED BY <1>2, <3>5, <3>7, <5>1, SameDiarySame
                DEF ProductKnown, ProductsKnown, Excused, Made
      <4> QED BY <4>1, <4>2
    <3> QED BY <1>2, <3>6, <3>7, SameDiarySame DEF ProductsKnown
  <2> QED BY <1>1, <2>1, <2>2
<1>6. BodyKnown(w)' /\ ChunksKnown'
  <2>1. store'[Parsing] \in {store[Parsing], Nothing}
    BY <1>1, <1>2, <1>3, PurgedByFacts
  <2> QED BY <1>1, <1>2, <2>1, SameDiarySame
          DEF ProductKnown, BodyKnown, ChunksKnown
<1>7. PointsKnown(w)'
  BY <1>1, <1>2, SameDiarySame, ReusableKept
     DEF ProductKnown, PointsKnown, RightPoints, BeforeProbe, Probed, Rounds,
         InHand, BodyLabels, HandKept
<1> QED BY <1>4, <1>5, <1>6, <1>7 DEF ProductKnown

LEMMA PurgeDoneProducts ==
    ASSUME TypeOK, NEW w \in Workers, ProductKnown(w), PurgeDone(w)
    PROVE  ProductKnown(w)'
<1>1. /\ pass[w].pc = "purge" /\ pass'[w].pc \in {"loop", "exit"}
      /\ HandKept(w)
      /\ \A p \in Phases : \/ /\ p \in Recovering(w)
                              /\ row'.diary[p] \in {PurgeFailed, NoEntry}
                           \/ /\ p \notin Recovering(w)
                              /\ row'.diary[p] = row.diary[p]
      /\ UNCHANGED << store, settings, boot, phaseLock >>
  BY PurgeDoneFacts
<1>2. Parsing \in Phases /\ Embedding \in Phases
  BY PhasesAssumption
<1>3. \A p \in Phases : Has(p)' =>
         /\ Has(p) /\ TagOf(p)' = TagOf(p) /\ ~Overtaken(p)
         /\ row'.diary[p] = row.diary[p]
  BY <1>1, EntryFacts DEF ProductKnown, PurgeCovers, Has, TagOf, StateOf
<1>4. ProductsKnown(w)'
  BY <1>1, <1>2, <1>3 DEF ProductKnown, ProductsKnown, Excused, Made
<1>5. PurgeCovers(w)' /\ BodyKnown(w)' /\ ChunksKnown'
  <2>1. /\ StateOf(Parsing)' # "skipped" /\ StateOf(Embedding)' # "skipped"
    BY <1>1, <1>2, EntryFacts DEF ProductKnown, ChunksKnown, StateOf
  <2> QED BY <1>1, <1>2, <1>3, <2>1
          DEF ProductKnown, PurgeCovers, BodyKnown, ChunksKnown
<1>6. PointsKnown(w)'
  BY <1>1, <1>2, <1>3, ReusableKept
     DEF ProductKnown, PointsKnown, RightPoints, BeforeProbe, Probed, Rounds,
         InHand, BodyLabels, HandKept
<1> QED BY <1>4, <1>5, <1>6 DEF ProductKnown

(* ... the rounds of the dispatch loop, ...                                *)
LEMMA NoExcuse ==
    ASSUME NEW w \in Workers, DispatchKnown(w), pass[w].pc \in Rounds
    PROVE  \A p : ~Excused(w, p)
BY DEF DispatchKnown, OrphansKnown, Excused, Overtaken, Rounds, InHand,
       BodyLabels

(* Entries that are lost or opened take no product from the others.        *)
LEMMA EntriesLost ==
    ASSUME NEW w \in Workers, DispatchKnown(w), ProductKnown(w),
           pass[w].pc \in Rounds, store' = store,
           \A p \in Phases : \/ row'.diary[p] = row.diary[p]
                             \/ row'.diary[p].state # "complete"
    PROVE  /\ ProductsKnown(w)'
           /\ \A p \in Phases : Has(p)' =>
                 /\ Has(p) /\ TagOf(p)' = TagOf(p)
                 /\ row'.diary[p] = row.diary[p]
           /\ Has(Parsing)' => store'[Parsing] \in {Nothing, TagOf(Parsing)'}
<1>1. Parsing \in Phases /\ Embedding \in Phases
  BY PhasesAssumption
<1>2. \A p \in Phases : Has(p)' =>
         /\ Has(p) /\ TagOf(p)' = TagOf(p) /\ row'.diary[p] = row.diary[p]
  BY DEF Has, TagOf, StateOf
<1>3. ProductsKnown(w)'
  BY <1>1, <1>2, NoExcuse DEF ProductKnown, ProductsKnown, Made
<1> QED BY <1>1, <1>2, <1>3 DEF ProductKnown, ChunksKnown

LEMMA EntryEndsProducts ==
    ASSUME NEW w \in Workers, DispatchKnown(w), ProductKnown(w),
           pass[w].pc \in Rounds \ {"record"},
           store' = store, settings' = settings, NEW p \in Phases,
           row'.diary[p].state \in {"skipped", "error"},
           \A q \in Phases \ {p} : row'.diary[q] = row.diary[q],
           p \in Chunks => row'.diary[p].state = "error",
           \/ pass'[w].pc \in {"blame", "exit", "refresh"}
           \/ /\ pass'[w].pc = "loop" /\ HandKept(w)
              /\ p \in Chunks => ~Has(Parsing)
    PROVE  ProductKnown(w)'
<1>1. Parsing \in Phases /\ Embedding \in Phases
  BY PhasesAssumption
<1>2. /\ ProductsKnown(w)'
      /\ \A q \in Phases : Has(q)' =>
            /\ Has(q) /\ TagOf(q)' = TagOf(q) /\ row'.diary[q] = row.diary[q]
      /\ Has(Parsing)' => store'[Parsing] \in {Nothing, TagOf(Parsing)'}
  BY EntriesLost
<1>3. StateOf(Parsing)' # "skipped" /\ StateOf(Embedding)' # "skipped"
  BY <1>1 DEF ProductKnown, ChunksKnown, StateOf, Chunks
<1>4. PurgeCovers(w)' /\ BodyKnown(w)' /\ ChunksKnown'
  BY <1>2, <1>3 DEF PurgeCovers, BodyKnown, ChunksKnown
<1>5. PointsKnown(w)'
  <2>1. CASE pass'[w].pc = "loop"
    <3>1. Has(Parsing)' => RightPoints(w) \/ Embedded
      BY <1>1, <1>2
         DEF ProductKnown, PointsKnown, Rounds, InHand, BodyLabels
    <3>2. Has(Parsing)' => row'.diary[Embedding] = row.diary[Embedding]
      BY <1>1, <1>2, <2>1 DEF Chunks
    <3>3. Embedded /\ Has(Parsing)' => Embedded'
      BY <3>2 DEF Embedded, Has, StateOf
    <3>4. RightPoints(w) /\ Has(Parsing)' => RightPoints(w)'
      BY <1>1, <1>2, <2>1, ReusableKept DEF RightPoints
    <3>5. pass'[w].embedder = settings'[Embedding]
      BY <2>1 DEF ProductKnown, PointsKnown, Rounds, HandKept
    <3> QED BY <2>1, <3>1, <3>3, <3>4, <3>5
            DEF PointsKnown, BeforeProbe, Probed
  <2>2. CASE pass'[w].pc \in {"blame", "exit", "refresh"}
    BY <2>2 DEF PointsKnown, BeforeProbe, Probed, Rounds, InHand, BodyLabels
  <2> QED BY <2>1, <2>2
<1> QED BY <1>2, <1>4, <1>5 DEF ProductKnown

LEMMA SkipProducts ==
    ASSUME TypeOK, NEW w \in Workers, DispatchKnown(w), ProductKnown(w),
           \/ SkipSettledPhase(w) \/ SkipInapplicablePhase(w)
           \/ ExternalSkips(w)
    PROVE  ProductKnown(w)'
<1>1. store' = store /\ settings' = settings
  BY DEF SkipSettledPhase, SkipInapplicablePhase, ExternalSkips
<1>2. CASE SkipSettledPhase(w)
  <2>1. /\ pass[w].pc = "loop" /\ row' = row
        /\ \E p \in Phases : Reprobe(w, row, p, {})
    BY <1>2 DEF SkipSettledPhase, Dispatches, At
  <2>2. pass'[w].pc \in {"loop", "exit", "refresh"} /\ HandKept(w)
    BY <2>1, ReprobeKeeps
  <2> QED BY <1>1, <2>1, <2>2, QuietProducts
          DEF SameDiary, InHand, BodyLabels
<1>3. CASE SkipInapplicablePhase(w) \/ ExternalSkips(w)
  <2>1. PICK p \in MayNotApply :
           /\ pass[w].pc \in {"loop", "run"}
           /\ row' = WritePhaseEntry(row, p, Outcome("skipped"))
           /\ Reprobe(w, row', p, {})
    BY <1>3 DEF SkipInapplicablePhase, ExternalSkips, Dispatches, At
  <2>2. p \in Phases \ Chunks
    BY FaultsAssumption
  <2>3. pass'[w].pc \in {"loop", "exit", "refresh"} /\ HandKept(w)
    BY <2>1, <2>2, ReprobeKeeps
  <2>4. /\ row'.diary[p].state = "skipped"
        /\ \A q \in Phases \ {p} : row'.diary[q] = row.diary[q]
    BY <2>1, <2>2, RowWritten, EntryFacts DEF TypeOK, SharedTypeOK
  <2> QED BY <1>1, <2>1, <2>2, <2>3, <2>4, EntryEndsProducts
          DEF Rounds, InHand, BodyLabels
<1> QED BY <1>2, <1>3

(* Parsing depends on nothing, and embedding on parsing alone: neither is  *)
(* ever skipped below a phase that was.                                    *)
LEMMA PropagateProducts ==
    ASSUME TypeOK, NEW w \in Workers, DispatchKnown(w), ProductKnown(w),
           Propagate(w)
    PROVE  ProductKnown(w)'
<1>1. PICK p \in Blocked(w), state \in Failed :
         /\ InheritsOutcome(p, row.diary, state)
         /\ LET r == WritePhaseEntry(row, p, Outcome(state))
                pending == Stale(w, r.diary)
            IN  /\ row' = IF state = "error" THEN SetStatus(r, "error") ELSE r
                /\ pass' = [pass EXCEPT ![w] = [@ EXCEPT
                      !.pending = pending,
                      !.pc = IF pending = {} THEN "refresh" ELSE "loop"]]
         /\ store' = store /\ settings' = settings /\ pass[w].pc = "loop"
  BY DEF Propagate, At
<1>2. p \in Phases
  BY PassUpdates DEF Blocked, Passes, TypeOK
<1> DEFINE r == WritePhaseEntry(row, p, Outcome(state))
           S == Stale(w, r.diary)
           label == IF S = {} THEN "refresh" ELSE "loop"
<1>3. /\ r.diary[p] = Outcome(state)
      /\ \A q \in Phases \ {p} : r.diary[q] = row.diary[q]
  BY <1>2, WrittenEntry DEF TypeOK, SharedTypeOK
<1>4. row' = (IF state = "error" THEN SetStatus(r, "error") ELSE r) /\ r \in Rows
  BY <1>1, <1>2, WritePhaseEntryType, OutcomeType
     DEF TypeOK, SharedTypeOK, Failed, EntryStates
<1>5. pass' = [pass EXCEPT ![w] = [@ EXCEPT !.pending = S, !.pc = label]]
  BY <1>1
<1>6. label \in {"refresh", "loop"}
  OBVIOUS
<1> HIDE DEF r, label
<1>7. row'.diary = r.diary
  BY <1>4, StatusFacts
<1>8. pass'[w].pc \in {"refresh", "loop"} /\ HandKept(w)
  BY <1>5, <1>6, RoundKeeps
<1>9. row'.diary[p].state = state /\ state \in {"skipped", "error"}
  BY <1>3, <1>7, EntryFacts DEF Failed
<1>10. p \in Chunks => ~Has(Parsing) /\ state = "error"
  <2>1. PICK i \in DOMAIN DependsOn[p] :
           row.diary[DependsOn[p][i]].state = state
    BY <1>1 DEF InheritsOutcome
  <2>2. p # Parsing
    BY <2>1, PhasesAssumption
  <2>3. p = Embedding => StateOf(Parsing) = state
    BY <2>1, PhasesAssumption DEF StateOf
  <2> QED BY <1>9, <2>2, <2>3 DEF Chunks, Has, ProductKnown, ChunksKnown
<1> QED BY <1>1, <1>2, <1>3, <1>7, <1>8, <1>9, <1>10, EntryEndsProducts
        DEF Rounds

(* An embedding that is done, behind a parsing that is, is not run again.  *)
LEMMA EmbeddedIsNotRun ==
    ASSUME NEW w, Embedded, Has(Parsing)
    PROVE  ~GuardPasses(w, Embedding)
<1>1. Deps(Embedding) = {Parsing}
  BY PhasesAssumption DEF Deps
<1> QED BY <1>1 DEF GuardPasses, Settled, IsPhaseStale, Embedded, Has, StateOf

LEMMA RunPhaseProducts ==
    ASSUME TypeOK, NEW w \in Workers, DispatchKnown(w), ProductKnown(w),
           RunPhase(w)
    PROVE  ProductKnown(w)'
<1>1. PICK p \in Phases :
         /\ Dispatches(w, p) /\ GuardPasses(w, p) /\ pass[w].pc = "loop"
         /\ row' = WritePhaseEntry(row, p, RunBy(Owner(w)))
         /\ pass' = [pass EXCEPT ![w] = [@ EXCEPT !.pc = BodyOf(p), !.cur = p]]
         /\ store' = store /\ settings' = settings
  BY DEF RunPhase, Dispatches, At
<1>2. /\ pass'[w].pc = BodyOf(p) /\ pass'[w].cur = p
      /\ pass'[w].snapshot = pass[w].snapshot
      /\ pass'[w].embedder = pass[w].embedder
      /\ pass'[w].stored = pass[w].stored
  BY <1>1 DEF TypeOK, PassTypeOK, Passes
<1>3. /\ BodyOf(p) \in {"sweep", "replace", "run"}
      /\ BodyOf(p) = "replace" => p = Embedding
      /\ BodyOf(p) = "run" => p \notin Chunks
  BY DEF BodyOf, Chunks
<1>4. /\ row'.diary[p].state = "processing"
      /\ \A q \in Phases \ {p} : row'.diary[q] = row.diary[q]
  BY <1>1, RowWritten, EntryFacts DEF TypeOK, SharedTypeOK
<1>5. Parsing \in Phases /\ Embedding \in Phases
  BY PhasesAssumption
<1>6. /\ ProductsKnown(w)'
      /\ \A q \in Phases : Has(q)' =>
            /\ Has(q) /\ TagOf(q)' = TagOf(q) /\ row'.diary[q] = row.diary[q]
      /\ Has(Parsing)' => store'[Parsing] \in {Nothing, TagOf(Parsing)'}
  BY <1>1, <1>4, EntriesLost DEF Rounds
<1>7. PurgeCovers(w)' /\ ChunksKnown'
  BY <1>2, <1>3, <1>4, <1>5, <1>6
     DEF ProductKnown, PurgeCovers, ChunksKnown, StateOf
<1>8. Reusable(w)' = Reusable(w)
  BY <1>2 DEF Reusable
<1>9. Has(Parsing)' /\ p = Embedding => RightPoints(w)'
  BY <1>1, <1>5, <1>6, <1>8, EmbeddedIsNotRun
     DEF ProductKnown, PointsKnown, RightPoints, Rounds
<1>10. PointsKnown(w)'
  <2>1. Has(Parsing)' /\ p # Embedding => RightPoints(w)' \/ Embedded'
    <3>1. p # Embedding => Embedded' = Embedded
      BY <1>1, <1>4, <1>5 DEF Embedded, Has, StateOf
    <3> QED BY <1>1, <1>5, <1>6, <1>8, <3>1
            DEF ProductKnown, PointsKnown, RightPoints, Rounds
  <2>2. pass'[w].embedder = settings'[Embedding]
    BY <1>1, <1>2 DEF ProductKnown, PointsKnown, Rounds
  <2> QED BY <1>2, <1>3, <1>9, <2>1, <2>2 DEF PointsKnown, BeforeProbe, Probed
<1>11. BodyKnown(w)'
  <2>1. p = Embedding => Reusable(w) # Nothing
    BY <1>1, PhasesAssumption DEF Dispatches
  <2> QED BY <1>2, <1>3, <1>8, <1>9, <2>1 DEF BodyKnown, RightPoints
<1> QED BY <1>6, <1>7, <1>10, <1>11 DEF ProductKnown

(* ... the bodies, ...                                                     *)

(* The phase in hand has its product in the making.                        *)
LEMMA InTheMaking ==
    ASSUME TypeOK, RowIsKnown, NEW w \in Workers, pass[w].pc \in InHand
    PROVE  pass[w].cur \in Phases /\ ~Has(pass[w].cur)
BY DEF TypeOK, PassTypeOK, Passes, RowIsKnown, PassKnowsRow, InHand, Has,
       StateOf

LEMMA BodyKeepsPoints ==
    ASSUME NEW w \in Workers, ProductKnown(w), SameDiary, HandKept(w),
           settings' = settings, pass[w].pc \in BodyLabels,
           pass'[w].pc \in InHand
    PROVE  PointsKnown(w)'
<1>1. Parsing \in Phases /\ pass[w].pc \in Rounds /\ pass[w].pc # "record"
  BY PhasesAssumption DEF Rounds, InHand, BodyLabels
<1>2. Has(Parsing)' => RightPoints(w)' \/ Embedded'
  BY <1>1, SameDiarySame, ReusableKept
     DEF ProductKnown, PointsKnown, RightPoints
<1> QED BY <1>1, <1>2
        DEF ProductKnown, PointsKnown, BeforeProbe, Probed, Rounds, InHand,
            BodyLabels, HandKept

LEMMA ParseSweepProducts ==
    ASSUME TypeOK, RowIsKnown, NEW w \in Workers, DispatchKnown(w),
           ProductKnown(w), ParseSweep(w)
    PROVE  ProductKnown(w)'
<1>1. /\ pass[w].pc = "sweep" /\ pass'[w].pc = "reset" /\ HandKept(w)
      /\ store' = Without(store, Chunks)
      /\ row' = row /\ settings' = settings
  BY GotoKeeps DEF ParseSweep, At
<1>2. pass[w].cur = Parsing /\ ~Has(Parsing)
  BY <1>1, InTheMaking DEF RowIsKnown, PassKnowsRow, InHand, BodyLabels
<1>3. SameDiary /\ Parsing \in Phases /\ Embedding \in Phases
  BY <1>1, PhasesAssumption DEF SameDiary
<1>4. \A q \in Phases \ Chunks : store'[q] = store[q]
  BY <1>1 DEF Without
<1>5. ProductsKnown(w)'
  BY <1>1, <1>2, <1>3, <1>4, NoExcuse, SameDiarySame
     DEF ProductKnown, ProductsKnown, Made, Rounds, InHand, BodyLabels
<1>6. PurgeCovers(w)' /\ BodyKnown(w)' /\ ChunksKnown'
  BY <1>1, <1>2, <1>3, SameDiarySame
     DEF ProductKnown, PurgeCovers, BodyKnown, ChunksKnown
<1> QED BY <1>1, <1>3, <1>5, <1>6, BodyKeepsPoints
        DEF ProductKnown, InHand, BodyLabels

LEMMA ParseResetProducts ==
    ASSUME TypeOK, RowIsKnown, NEW w \in Workers, DispatchKnown(w),
           ProductKnown(w), ParseReset(w)
    PROVE  ProductKnown(w)'
<1>1. /\ pass[w].pc = "reset" /\ pass'[w].pc = "build" /\ HandKept(w)
      /\ row' = ResetPhaseEntries(row, Downstream(Parsing))
      /\ store' = store /\ settings' = settings
  BY GotoKeeps DEF ParseReset, At
<1>2. ~Has(Parsing)
  BY <1>1, InTheMaking DEF RowIsKnown, PassKnowsRow, InHand, BodyLabels
<1>3. Parsing \in Phases /\ Embedding \in Phases
  BY PhasesAssumption
<1>4. \A q \in Phases : row'.diary[q] = IF q \in Downstream(Parsing)
                                        THEN NoEntry ELSE row.diary[q]
  BY <1>1, RowReset DEF TypeOK, SharedTypeOK
<1>5. Embedding \in Downstream(Parsing)
  <2>1. Deps(Embedding) = {Parsing}
    BY PhasesAssumption DEF Deps
  <2> QED BY <2>1, PhasesAssumption DEF Downstream, Cone
<1>6. /\ ProductsKnown(w)'
      /\ \A q \in Phases : Has(q)' =>
            /\ Has(q) /\ TagOf(q)' = TagOf(q) /\ row'.diary[q] = row.diary[q]
  BY <1>1, <1>4, EntriesLost, EntryFacts DEF Rounds, InHand, BodyLabels
<1>7. StateOf(Embedding)' = "pending" /\ StateOf(Parsing)' # "skipped"
  BY <1>3, <1>4, <1>5, EntryFacts DEF ProductKnown, ChunksKnown, StateOf
<1>8. PurgeCovers(w)' /\ BodyKnown(w)' /\ ChunksKnown'
  BY <1>1, <1>2, <1>3, <1>6, <1>7 DEF PurgeCovers, BodyKnown, ChunksKnown
<1>9. PointsKnown(w)'
  BY <1>1, <1>2, <1>3, <1>6
     DEF ProductKnown, PointsKnown, BeforeProbe, Probed, Rounds, InHand,
         BodyLabels, HandKept
<1> QED BY <1>6, <1>8, <1>9 DEF ProductKnown

LEMMA ParseStoreProducts ==
    ASSUME TypeOK, RowIsKnown, NEW w \in Workers, DispatchKnown(w),
           ProductKnown(w), ParseStore(w)
    PROVE  ProductKnown(w)'
<1>1. /\ pass[w].pc = "build" /\ pass'[w].pc = "record"
      /\ pass'[w].stored = settings[Parsing]
      /\ pass'[w].cur = pass[w].cur /\ pass'[w].embedder = pass[w].embedder
      /\ store' = [store EXCEPT ![Parsing] = settings[Parsing]]
      /\ row' = row /\ settings' = settings
  BY RecordKeeps DEF ParseStore, At
<1>2. pass[w].cur = Parsing /\ ~Has(Parsing)
  BY <1>1, InTheMaking DEF RowIsKnown, PassKnowsRow, InHand, BodyLabels
<1>3. SameDiary /\ Parsing \in Phases /\ Embedding \in Phases
      /\ Parsing # Embedding
  BY <1>1, PhasesAssumption DEF SameDiary
<1>4. /\ store'[Parsing] = settings[Parsing]
      /\ \A q \in Phases \ {Parsing} : store'[q] = store[q]
  BY <1>1, <1>3 DEF TypeOK, SharedTypeOK
<1>5. ProductsKnown(w)'
  BY <1>1, <1>2, <1>3, <1>4, NoExcuse, SameDiarySame
     DEF ProductKnown, ProductsKnown, Made, Chunks, Rounds, InHand, BodyLabels
<1>6. PurgeCovers(w)' /\ BodyKnown(w)' /\ ChunksKnown'
  BY <1>1, <1>2, <1>3, <1>4, SameDiarySame
     DEF ProductKnown, PurgeCovers, BodyKnown, ChunksKnown
<1>7. PointsKnown(w)'
  BY <1>1, <1>2, <1>3, SameDiarySame
     DEF ProductKnown, PointsKnown, BeforeProbe, Probed, Rounds, InHand,
         BodyLabels
<1> QED BY <1>5, <1>6, <1>7 DEF ProductKnown

LEMMA EmbedDeleteProducts ==
    ASSUME TypeOK, RowIsKnown, NEW w \in Workers, DispatchKnown(w),
           ProductKnown(w), EmbedDelete(w)
    PROVE  ProductKnown(w)'
<1>1. /\ pass[w].pc = "replace" /\ pass'[w].pc = "restore" /\ HandKept(w)
      /\ store' = Without(store, Chunks)
      /\ row' = row /\ settings' = settings
  BY GotoKeeps DEF EmbedDelete, At
<1>2. pass[w].cur = Embedding /\ ~Has(Embedding)
  BY <1>1, InTheMaking DEF ProductKnown, BodyKnown, InHand, BodyLabels
<1>3. SameDiary /\ Parsing \in Phases /\ Embedding \in Phases
  BY <1>1, PhasesAssumption DEF SameDiary
<1>4. /\ \A q \in Phases \ Chunks : store'[q] = store[q]
      /\ store'[Parsing] = Nothing
  BY <1>1, <1>3 DEF Without, Chunks
<1>5. ProductsKnown(w)'
  BY <1>1, <1>2, <1>3, <1>4, NoExcuse, SameDiarySame
     DEF ProductKnown, ProductsKnown, Made, Rounds, InHand, BodyLabels
<1>6. PurgeCovers(w)' /\ BodyKnown(w)' /\ ChunksKnown'
  BY <1>1, <1>2, <1>3, <1>4, SameDiarySame, ReusableKept
     DEF ProductKnown, PurgeCovers, BodyKnown, ChunksKnown, HandKept
<1> QED BY <1>1, <1>3, <1>5, <1>6, BodyKeepsPoints
        DEF ProductKnown, InHand, BodyLabels

LEMMA EmbedAddProducts ==
    ASSUME TypeOK, RowIsKnown, NEW w \in Workers, DispatchKnown(w),
           ProductKnown(w), EmbedAdd(w)
    PROVE  ProductKnown(w)'
<1>1. /\ pass[w].pc = "restore" /\ pass'[w].pc = "record"
      /\ pass'[w].cur = pass[w].cur /\ pass'[w].embedder = pass[w].embedder
      /\ store' = [store EXCEPT ![Parsing] = Reusable(w),
                                ![Embedding] = pass[w].embedder]
      /\ settings' = settings
  BY RecordKeeps DEF EmbedAdd, At
<1>2. /\ pass[w].cur = Embedding /\ ~Has(Embedding)
      /\ Has(Parsing) => Reusable(w) = TagOf(Parsing)
      /\ pass[w].embedder = settings[Embedding]
  BY <1>1, InTheMaking
     DEF ProductKnown, BodyKnown, PointsKnown, Rounds, InHand, BodyLabels
<1>3. SameDiary /\ Parsing \in Phases /\ Embedding \in Phases
      /\ Parsing # Embedding
  BY StatusFacts, PhasesAssumption
     DEF EmbedAdd, SameDiary, TypeOK, SharedTypeOK
<1>4. /\ store'[Parsing] = Reusable(w)
      /\ store'[Embedding] = settings[Embedding]
      /\ \A q \in Phases \ Chunks : store'[q] = store[q]
  BY <1>1, <1>2, <1>3 DEF TypeOK, SharedTypeOK, Chunks
<1>5. ProductsKnown(w)'
  BY <1>1, <1>2, <1>3, <1>4, NoExcuse, SameDiarySame
     DEF ProductKnown, ProductsKnown, Made, Rounds, InHand, BodyLabels
<1>6. PurgeCovers(w)' /\ BodyKnown(w)' /\ ChunksKnown'
  BY <1>1, <1>2, <1>3, <1>4, SameDiarySame
     DEF ProductKnown, PurgeCovers, BodyKnown, ChunksKnown, Made
<1>7. PointsKnown(w)'
  BY <1>1, <1>2
     DEF PointsKnown, BeforeProbe, Probed, Rounds, InHand, BodyLabels
<1> QED BY <1>5, <1>6, <1>7 DEF ProductKnown

LEMMA ExternalProducts ==
    ASSUME TypeOK, RowIsKnown, NEW w \in Workers, DispatchKnown(w),
           ProductKnown(w), RunExternal(w) \/ ExternalWaits(w) \/ AskAgain(w)
    PROVE  ProductKnown(w)'
<1>1. /\ pass[w].pc \in {"run", "wait"} /\ settings' = settings
      /\ \/ /\ Goto(w, "record") /\ row' = row
            /\ store' = [store EXCEPT ![pass[w].cur] = settings[pass[w].cur]]
         \/ (Goto(w, "wait") \/ Goto(w, "run")) /\ store' = store
  BY DEF RunExternal, ExternalWaits, AskAgain, At, shared
<1>2. /\ pass'[w].pc \in {"record", "wait", "run"} /\ HandKept(w)
      /\ pass'[w].pc \in {"wait", "run"} => store' = store
      /\ pass'[w].pc = "record" =>
            store' = [store EXCEPT ![pass[w].cur] = settings[pass[w].cur]]
  BY <1>1, GotoKeeps
<1>3. pass[w].cur \in Phases \ Chunks /\ ~Has(pass[w].cur)
  BY <1>1, InTheMaking DEF ProductKnown, BodyKnown, InHand, BodyLabels
<1>4. SameDiary /\ Parsing \in Phases /\ Embedding \in Phases
  <2>1. row'.diary = row.diary
    <3>1. CASE ExternalWaits(w)
      BY <3>1 DEF ExternalWaits, SetStatus, TypeOK, SharedTypeOK, Rows
    <3>2. CASE RunExternal(w) \/ AskAgain(w)
      BY <3>2 DEF RunExternal, AskAgain, shared
    <3> QED BY <3>1, <3>2
  <2> QED BY <2>1, PhasesAssumption DEF SameDiary
<1>5. /\ \A q \in Phases \ {pass[w].cur} : store'[q] = store[q]
      /\ pass'[w].pc = "record" =>
            store'[pass[w].cur] = settings[pass[w].cur]
  BY <1>2, <1>3 DEF TypeOK, SharedTypeOK
<1>6. store'[Parsing] = store[Parsing] /\ store'[Embedding] = store[Embedding]
  BY <1>3, <1>4, <1>5 DEF Chunks
<1>7. ProductsKnown(w)'
  BY <1>1, <1>3, <1>4, <1>5, <1>6, NoExcuse, SameDiarySame
     DEF ProductKnown, ProductsKnown, Made, Rounds, InHand, BodyLabels
<1>8. PurgeCovers(w)' /\ BodyKnown(w)' /\ ChunksKnown'
  BY <1>1, <1>2, <1>3, <1>4, <1>5, <1>6, SameDiarySame
     DEF ProductKnown, PurgeCovers, BodyKnown, ChunksKnown, HandKept, Chunks
<1> QED BY <1>1, <1>2, <1>4, <1>7, <1>8, BodyKeepsPoints
        DEF ProductKnown, InHand, BodyLabels

(* ... the end of a phase, where the tag is written, ...                   *)
LEMMA TagOfOwnSettings ==
    ASSUME NEW p \in Phases
    PROVE  CurrentTag(settings, p)[p] = settings[p]
<1>1. p \in Cone(p)
  BY DEF Cone
<1> QED BY <1>1 DEF CurrentTag

LEMMA FinishProducts ==
    ASSUME TypeOK, NEW w \in Workers, DispatchKnown(w), ProductKnown(w),
           Finish(w)
    PROVE  ProductKnown(w)'
<1>1. PICK p \in Phases :
         /\ p = pass[w].cur /\ pass[w].pc = "record"
         /\ row' = WritePhaseEntry(row, p, Complete(CurrentTag(settings, p)))
         /\ \E more : Reprobe(w, row', p, more)
         /\ store' = store /\ settings' = settings
  BY DEF Finish, At, TypeOK, PassTypeOK, Passes
<1>2. row \in Rows /\ Parsing # Embedding
      /\ Parsing \in Phases /\ Embedding \in Phases
  BY PhasesAssumption DEF TypeOK, SharedTypeOK
<1>3. pass'[w].pc \in {"loop", "exit", "refresh"} /\ HandKept(w)
  BY <1>1, <1>2, ReprobeKeeps
<1>4. /\ row'.diary[p].state = "complete"
      /\ row'.diary[p].tag = CurrentTag(settings, p)
      /\ \A q \in Phases \ {p} : row'.diary[q] = row.diary[q]
  <2>1. \A tag : Complete(tag).state = "complete" /\ Complete(tag).tag = tag
    BY DEF Complete, Outcome
  <2>2. /\ row'.diary[p] = Complete(CurrentTag(settings, p))
        /\ \A q \in Phases \ {p} : row'.diary[q] = row.diary[q]
    BY <1>1, <1>2, RowWritten
  <2> QED BY <2>1, <2>2
<1>5. /\ Has(p)' /\ TagOf(p)' = settings[p]
      /\ \A q \in Phases \ {p} : /\ StateOf(q)' = StateOf(q)
                                 /\ Has(q)' = Has(q) /\ TagOf(q)' = TagOf(q)
  BY <1>2, <1>4, TagOfOwnSettings DEF Has, TagOf, StateOf
<1>6. /\ store[p] = settings[p]
      /\ p = Embedding /\ Has(Parsing) => Made(Parsing)
      /\ p = Parsing => StateOf(Embedding) = "pending"
                        /\ pass[w].stored = settings[Parsing]
  BY <1>1 DEF ProductKnown, BodyKnown
<1>7. Made(p)' /\ \A q \in Phases \ {p} : Made(q)' = Made(q)
  BY <1>1, <1>2, <1>5, <1>6 DEF Made
<1>8. ProductsKnown(w)'
  <2>1. \A q : ~Excused(w, q)
    BY <1>1, NoExcuse DEF Rounds, InHand
  <2>2. \A q \in Phases \ Chunks : Has(q)' => Made(q)'
    BY <1>7, <1>5, <2>1 DEF ProductKnown, ProductsKnown
  <2>3. Has(Parsing)' /\ Has(Embedding)' => Made(Parsing)' /\ Made(Embedding)'
    <3>1. CASE p = Parsing
      BY <1>2, <1>5, <1>6, <3>1 DEF Has
    <3>2. CASE p = Embedding
      BY <1>2, <1>5, <1>6, <1>7, <3>2
    <3>3. CASE p \notin Chunks
      BY <1>2, <1>5, <1>7, <2>1, <3>3 DEF ProductKnown, ProductsKnown, Chunks
    <3> QED BY <3>1, <3>2, <3>3 DEF Chunks
  <2> QED BY <2>2, <2>3 DEF ProductsKnown
<1>9. PurgeCovers(w)' /\ BodyKnown(w)' /\ ChunksKnown'
  <2>1. StateOf(Parsing)' # "skipped" /\ StateOf(Embedding)' # "skipped"
    BY <1>2, <1>5 DEF ProductKnown, ChunksKnown, Has
  <2>2. Has(Parsing)' => store'[Parsing] \in {Nothing, TagOf(Parsing)'}
    BY <1>1, <1>2, <1>5, <1>6 DEF ProductKnown, ChunksKnown
  <2> QED BY <1>3, <2>1, <2>2 DEF PurgeCovers, BodyKnown, ChunksKnown
<1>10. PointsKnown(w)'
  <2>1. Has(Parsing)' => RightPoints(w)' \/ Embedded'
    <3>1. Reusable(w)' = Reusable(w)
      BY <1>3, ReusableKept
    <3>2. CASE p = Parsing
      <4>1. settings[Parsing] # Nothing
        BY PhasesAssumption, ProcsAssumption
           DEF TypeOK, SharedTypeOK, Versions, Nothing
      <4>2. Reusable(w) = settings[Parsing]
        BY <1>6, <3>2, <4>1 DEF Reusable
      <4> QED BY <1>5, <3>1, <3>2, <4>2 DEF RightPoints
    <3>3. CASE p = Embedding
      BY <1>1, <1>4, <3>3 DEF Embedded, Has, StateOf, CurrentTag
    <3>4. CASE p \notin Chunks
      <4>1. Has(Parsing) => RightPoints(w) \/ Embedded
        BY <1>1, <3>4
           DEF ProductKnown, PointsKnown, Rounds, InHand, Chunks
      <4>2. Embedded' = Embedded
        BY <1>1, <1>2, <1>4, <3>4 DEF Embedded, Has, StateOf, Chunks
      <4> QED BY <1>2, <1>5, <3>1, <3>4, <4>1, <4>2 DEF RightPoints, Chunks
    <3> QED BY <3>2, <3>3, <3>4 DEF Chunks
  <2> QED BY <1>1, <1>3, <2>1
          DEF ProductKnown, PointsKnown, BeforeProbe, Probed, Rounds, InHand,
              BodyLabels, HandKept
<1> QED BY <1>8, <1>9, <1>10 DEF ProductKnown

LEMMA FailsProducts ==
    ASSUME TypeOK, NEW w \in Workers, DispatchKnown(w), ProductKnown(w),
           ExternalGivesUp(w) \/ BodyFails(w)
    PROVE  ProductKnown(w)'
<1> DEFINE p == pass[w].cur
<1>1. /\ pass[w].pc \in BodyLabels /\ Goto(w, "blame")
      /\ row' = WritePhaseEntry(row, p, Outcome("error"))
      /\ store' = store /\ settings' = settings
  BY DEF ExternalGivesUp, BodyFails, FailsPhase, At, BodyLabels
<1>2. p \in Phases
  BY DEF TypeOK, PassTypeOK, Passes
<1>3. /\ row'.diary[p] = Outcome("error")
      /\ \A q \in Phases \ {p} : row'.diary[q] = row.diary[q]
  BY <1>1, <1>2, RowWritten DEF TypeOK, SharedTypeOK
<1> HIDE DEF p
<1>4. pass'[w].pc = "blame" /\ pass[w].pc \in Rounds \ {"record"}
  BY <1>1, GotoKeeps DEF Rounds, InHand, BodyLabels
<1> QED BY <1>1, <1>2, <1>3, <1>4, EntryFacts, EntryEndsProducts

(* ... and what happens around them.                                       *)
LEMMA EnvironmentProducts ==
    ASSUME TypeOK, SettingsMayMove = FALSE, StoreMayBeWiped = FALSE,
           NEW w \in Workers, DispatchKnown(w), ProductKnown(w), Environment
    PROVE  ProductKnown(w)'
<1>1. Parsing \in Phases /\ Embedding \in Phases
  BY PhasesAssumption
<1>2. ASSUME SameDiary, store' = store, settings' = settings,
             pass'[w] = pass[w]
      PROVE  ProductKnown(w)'
  <2>1. ProductsKnown(w)'
    BY <1>1, <1>2, SameDiarySame
       DEF ProductKnown, ProductsKnown, Excused, Made
  <2>2. PurgeCovers(w)'
    <3>1. pass[w].todo \subseteq Phases
      BY DEF TypeOK, PassTypeOK, Passes
    <3> QED BY <1>2, <3>1, SameDiarySame
            DEF ProductKnown, PurgeCovers, Recovering
  <2>3. Reusable(w)' = Reusable(w)
    BY <1>2 DEF Reusable
  <2>4. PointsKnown(w)'
    BY <1>1, <1>2, <2>3, SameDiarySame
       DEF ProductKnown, PointsKnown, RightPoints
  <2>5. BodyKnown(w)' /\ ChunksKnown'
    BY <1>1, <1>2, <2>3, SameDiarySame
       DEF ProductKnown, BodyKnown, ChunksKnown, Made
  <2> QED BY <2>1, <2>2, <2>4, <2>5 DEF ProductKnown
<1>3. ASSUME SameDiary, store' = store, pass'[w].pc = "idle"
      PROVE  ProductKnown(w)'
  <2>1. ProductsKnown(w)'
    <3>1. \A p \in Phases : Excused(w, p) => Excused(w, p)'
      BY <1>3, SameDiarySame DEF Excused, InHand, BodyLabels
    <3> QED BY <1>1, <1>3, <3>1, SameDiarySame
            DEF ProductKnown, ProductsKnown, Made
  <2> QED BY <1>1, <1>3, <2>1, SameDiarySame
          DEF ProductKnown, PurgeCovers, PointsKnown, BodyKnown, ChunksKnown,
              BeforeProbe, Probed, Rounds, InHand, BodyLabels
<1>4. CASE \E proc \in Procs : Crash(proc)
  <2>1. SameDiary /\ store' = store /\ settings' = settings
    BY <1>4 DEF Crash, SameDiary
  <2>2. pass'[w] = pass[w] \/ pass'[w].pc = "idle"
    BY <1>4 DEF Crash, IdlePass
  <2> QED BY <1>2, <1>3, <2>1, <2>2
<1>5. CASE SourceLockExpires \/ \E p \in Phases : PhaseLockExpires(p)
  BY <1>2, <1>5 DEF SourceLockExpires, PhaseLockExpires, SameDiary
<1>6. CASE \E p \in Phases : SettingsChange(p)
  BY <1>3, <1>6 DEF SettingsChange, SameDiary, At
<1>7. CASE BudgetRunsOut
  BY <1>2, <1>7 DEF BudgetRunsOut, SameDiary, TypeOK, SharedTypeOK, Rows
<1>8. CASE \E p \in Phases : LeaseAges(p)
  <2>1. PICK q \in Phases : row' = [row EXCEPT !.diary[q].aged = TRUE]
    BY <1>8 DEF LeaseAges
  <2>2. SameDiary
    BY <2>1, RowFacts DEF SameDiary, TypeOK, SharedTypeOK, Rows, Entries
  <2> QED BY <1>2, <1>8, <2>2 DEF LeaseAges
<1> QED BY <1>4, <1>5, <1>6, <1>7, <1>8 DEF Environment, StoreWiped

----------------------------------------------------------------------------
ProductsAreKnown == \A w \in Workers : ProductKnown(w)

LEMMA InitProducts == Init => ProductsAreKnown
<1> SUFFICES ASSUME Init, NEW w \in Workers
             PROVE  ProductKnown(w)
  BY DEF ProductsAreKnown
<1>1. pass[w].pc = "idle"
  BY DEF Init, PassInit, IdlePass
<1>2. \A p \in Phases : StateOf(p) = "pending"
  BY EntryFacts DEF Init, SharedInit, NoRow, EmptyDiary, StateOf
<1> QED BY <1>1, <1>2, PhasesAssumption
        DEF ProductKnown, ProductsKnown, PurgeCovers, PointsKnown, BodyKnown,
            ChunksKnown, Has, BeforeProbe, Probed, Rounds, InHand, BodyLabels

LEMMA NextProducts ==
    ASSUME Undisturbed
    PROVE  TypeOK /\ RowIsKnown /\ DispatchIsKnown /\ ProductsAreKnown
             /\ [Next]_vars => ProductsAreKnown'
<1> SUFFICES ASSUME TypeOK, RowIsKnown, DispatchIsKnown, ProductsAreKnown,
                    [Next]_vars
             PROVE  ProductsAreKnown'
  OBVIOUS
<1> USE DEF Undisturbed, OneAtATime
<1>1. ASSUME NEW w \in Workers, ProductKnown(w)'
      PROVE  ProductsAreKnown'
  BY <1>1 DEF ProductsAreKnown, Alone
<1>2. ASSUME NEW w \in Workers, Enter(w) \/ BeforeLock(w)
      PROVE  ProductKnown(w)'
  BY <1>2, EnterProducts, BeforeLockProducts DEF ProductsAreKnown
<1>3. ASSUME NEW w \in Workers, UnderLock(w)
      PROVE  ProductKnown(w)'
  <2>1. DispatchKnown(w) /\ ProductKnown(w) /\ ~PhaseLockTimeout(w)
    BY PhaseLockIsFree DEF DispatchIsKnown, ProductsAreKnown
  <2> QED BY <1>3, <2>1, QuietUnderLockProducts, RecoverStartProducts,
             PurgeProducts, PurgeDoneProducts, SkipProducts, PropagateProducts,
             RunPhaseProducts, ParseSweepProducts, ParseResetProducts,
             ParseStoreProducts, EmbedDeleteProducts, EmbedAddProducts,
             ExternalProducts, FinishProducts, FailsProducts
          DEF UnderLock
<1>4. CASE Environment
  BY <1>4, EnvironmentProducts DEF DispatchIsKnown, ProductsAreKnown
<1>5. CASE UNCHANGED vars
  BY <1>5 DEF vars, ProductsAreKnown, ProductKnown, ProductsKnown, PurgeCovers,
              PointsKnown, BodyKnown, ChunksKnown, Excused, Made, Has, TagOf,
              StateOf, Overtaken, Recovering, RightPoints, Reusable, Embedded
<1> QED BY <1>1, <1>2, <1>3, <1>4, <1>5 DEF Next, Alone

(* A completed row leaves no excuse.                                       *)
LEMMA KnownProductsAreTagged ==
    ASSUME TypeOK, CompletedIsSettled, NEW w \in Workers, ProductKnown(w)
    PROVE  CompletedHasTaggedProducts
<1> SUFFICES ASSUME row.status = "completed", NEW p \in Phases, Has(p)
             PROVE  Made(p)
  BY DEF CompletedHasTaggedProducts, Has, Made, StateOf, TagOf
<1>1. /\ \A q \in Phases : StateOf(q) \in {"complete", "skipped"}
      /\ Parsing \in Phases /\ Embedding \in Phases
  BY PhasesAssumption DEF CompletedIsSettled, StateOf
<1>2. \A q : ~Excused(w, q)
  BY <1>1 DEF Excused, Overtaken
<1>3. Has(Parsing) /\ Has(Embedding)
  BY <1>1 DEF ProductKnown, ChunksKnown, Has
<1> QED BY <1>2, <1>3 DEF ProductKnown, ProductsKnown, Chunks

(* Section 2: with one worker at a time, settings that stand still under a *)
(* pass and a store that keeps what it is given, and whatever fails, is    *)
(* skipped, crashes, is recovered or goes stale: of a completed source the *)
(* products of every complete phase are there, and are those of its tag.   *)
THEOREM CompletedProductsTagged ==
    ASSUME Undisturbed, Workers # {}
    PROVE  Spec => []CompletedHasTaggedProducts
<1>1. TypeOK /\ RowIsKnown /\ DispatchIsKnown /\ ProductsAreKnown
        /\ [Next]_vars => ProductsAreKnown'
  BY NextProducts
<1>2. TypeOK /\ RowIsKnown /\ ProductsAreKnown => CompletedHasTaggedProducts
  BY KnownProductsAreTagged DEF RowIsKnown, ProductsAreKnown
<1>3. Spec => []RowIsKnown
  BY RowKnown DEF Undisturbed, OneAtATime
<1>4. Spec => []DispatchIsKnown
  BY DispatchIsAlwaysKnown DEF Undisturbed
<1> QED BY <1>1, <1>2, <1>3, <1>4, InitProducts, TypeCorrect, PTL DEF Spec
=============================================================================
