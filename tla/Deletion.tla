------------------------------ MODULE Deletion ------------------------------
(***************************************************************************)
(* Deleting the source's file (plugin.before_file_manager_file_delete,     *)
(* phases.delete_source) and resetting the source for a full re-ingest     *)
(* (registry.purge_source_for_reingest, phases.recover_reindexing_source). *)
(* All of them wipe the artifacts phase by phase in reverse execution      *)
(* order, holding the source lock and no phase lock.                       *)
(***************************************************************************)
EXTENDS SourceState

CONSTANT WipeMayFail \* phases whose delete() may raise during a wipe

ASSUME WipeAssumption == WipeMayFail \subseteq Phases

VARIABLE req \* per deleter, the local state of its request

----------------------------------------------------------------------------
ReqKinds == {"none", "delete", "reindex", "recover"}

ReqLocked == {"mark", "wipe", "restart", "leave"}
ReqLabels == ReqLocked \cup {"idle", "lock", "points", "forget"}

Reqs == [pc : ReqLabels, kind : ReqKinds, todo : SUBSET Phases]

IdleReq == [pc |-> "idle", kind |-> "none", todo |-> {}]

ReqTypeOK == req \in [Deleters -> Reqs]
ReqInit   == req = [d \in Deleters |-> IdleReq]

ReqAt(d, label) == req[d].pc = label
ReqGoto(d, label) == req' = [req EXCEPT ![d].pc = label]
ReqStart(d, kind) ==
    req' = [req EXCEPT ![d] = [@ EXCEPT !.pc = "lock", !.kind = kind]]
ReqWipes(d, S) ==
    req' = [req EXCEPT ![d] = [@ EXCEPT !.pc = "wipe", !.todo = S]]
ReqStop(d) == req' = [req EXCEPT ![d] = IdleReq]

(* The row a wipe keeps up to date while it goes on.                       *)
WipeStatus(d) == IF req[d].kind = "delete" THEN "deleting" ELSE "reindexing"

----------------------------------------------------------------------------
(* The core's DELETE route removes the file before it calls the hook.      *)
DeleteStart(d) ==
    /\ ReqAt(d, "idle") /\ (file \/ Present)
    /\ file' = FALSE
    /\ ReqStart(d, "delete")
    /\ UNCHANGED << row, store, settings, boot, sourceLock, phaseLock >>

ReindexStart(d) ==
    /\ ReqAt(d, "idle") /\ Present
    /\ ReqStart(d, "reindex")
    /\ UNCHANGED shared

(* The sweep, on a reindexing row.                                         *)
RecoverReindexStart(d) ==
    /\ ReqAt(d, "idle") /\ row.status = "reindexing"
    /\ ReqStart(d, "recover")
    /\ UNCHANGED shared

(* Mutant of ReqLock: the lock is not waited for.                          *)
ReqLockAnyway(d) ==
    /\ ReqAt(d, "lock")
    /\ sourceLock' = d
    /\ ReqGoto(d, "mark")
    /\ UNCHANGED << row, store, file, settings, boot, phaseLock >>

ReqLock(d) ==
    /\ ReqAt(d, "lock") /\ sourceLock = NoTask
    /\ sourceLock' = d
    /\ ReqGoto(d, "mark")
    /\ UNCHANGED << row, store, file, settings, boot, phaseLock >>

ReqLockTimeout(d) ==
    /\ req[d].pc \in {"lock", "forget"} /\ sourceLock \in Tasks
    /\ ReqStop(d)
    /\ UNCHANGED shared

----------------------------------------------------------------------------
(* Mutant of MarkDeleting: only the phases that completed are deleted.     *)
MarkDeletingCompleted(d) ==
    /\ ReqAt(d, "mark") /\ req[d].kind = "delete"
    /\ row' = SetStatus(row, "deleting")
    /\ ReqWipes(d, {p \in Phases : row.diary[p].state = "complete"})
    /\ UNCHANGED << store, file, settings, boot, sourceLock, phaseLock >>

(* A repeated deletion resumes with the phases not yet deleted.            *)
MarkDeleting(d) ==
    /\ ReqAt(d, "mark") /\ req[d].kind = "delete"
    /\ row' = SetStatus(row, "deleting")
    /\ ReqWipes(d, Phases \ row.deleted)
    /\ UNCHANGED << store, file, settings, boot, sourceLock, phaseLock >>

MarkReindexing(d) ==
    /\ ReqAt(d, "mark") /\ req[d].kind = "reindex"
    /\ row' = [SetStatus(row, "reindexing") EXCEPT !.reindexer = Owner(d)]
    /\ ReqWipes(d, Phases)
    /\ UNCHANGED << store, file, settings, boot, sourceLock, phaseLock >>

(* Mutant of RecoverReindex: a reset is taken over from a living owner     *)
(* only, as if should_abandon had been negated.                            *)
RecoverReindexNegated(d) ==
    /\ ReqAt(d, "mark") /\ req[d].kind = "recover"
    /\ IF row.status = "reindexing"
          /\ ~ShouldAbandon(RunBy(row.reindexer), ProcOf[d], boot)
       THEN ReqWipes(d, Phases) ELSE ReqGoto(d, "leave")
    /\ UNCHANGED shared

(* The reindexer is judged as the owner of a processing entry is; the age  *)
(* of its marker is left open.                                             *)
RecoverReindex(d) ==
    /\ ReqAt(d, "mark") /\ req[d].kind = "recover"
    /\ \E aged \in BOOLEAN :
          LET marker == [RunBy(row.reindexer) EXCEPT !.aged = aged]
          IN  IF row.status = "reindexing" /\ row.reindexer # NoOwner
                 /\ ShouldAbandon(marker, ProcOf[d], boot)
              THEN ReqWipes(d, Phases)
              ELSE ReqGoto(d, "leave")
    /\ UNCHANGED shared

(* _delete_artifacts_locked: one phase's delete(), then the progress.      *)
WipePhase(d) ==
    /\ ReqAt(d, "wipe")
    /\ \E p \in req[d].todo :
          /\ IsLastToExecute(p, req[d].todo)
          /\ store' = PurgedBy(store, p)
          /\ row' = [SetStatus(row, WipeStatus(d)) EXCEPT
                        !.deleted = Phases \ (req[d].todo \ {p})]
          /\ req' = [req EXCEPT ![d].todo = @ \ {p}]
    /\ UNCHANGED << file, settings, boot, sourceLock, phaseLock >>

(* A phase's delete() raises: the row stays as it is for the next attempt. *)
WipeFails(d) ==
    /\ ReqAt(d, "wipe")
    /\ \E p \in req[d].todo \cap WipeMayFail : IsLastToExecute(p, req[d].todo)
    /\ ReqGoto(d, "leave")
    /\ UNCHANGED shared

(* State last: the file, then the row, and the lock is left.               *)
DropSource(d) ==
    /\ ReqAt(d, "wipe") /\ req[d].kind = "delete" /\ req[d].todo = {}
    /\ file' = FALSE
    /\ row' = NoRow
    /\ sourceLock' = SourceLockLeftBy(d)
    /\ ReqGoto(d, "points")
    /\ UNCHANGED << store, settings, boot, phaseLock >>

(* Back in the core's route, without the lock: it deletes the file's       *)
(* points, then fires after_file_manager_file_deleted, which takes the     *)
(* lock again, only to delete whatever row it finds (delete_status).       *)
DeletePoints(d) ==
    /\ ReqAt(d, "points")
    /\ store' = Without(store, Chunks)
    /\ ReqGoto(d, "forget")
    /\ UNCHANGED << row, file, settings, boot, sourceLock, phaseLock >>

ForgetRow(d) ==
    /\ ReqAt(d, "forget") /\ sourceLock = NoTask
    /\ row' = NoRow
    /\ ReqStop(d)
    /\ UNCHANGED << store, file, settings, boot, sourceLock, phaseLock >>

(* The reset is over: the diary is cleared, then the row goes back to       *)
(* processing, for the machine to take up.                                 *)
ClearDiary(d) ==
    /\ ReqAt(d, "wipe") /\ req[d].kind # "delete" /\ req[d].todo = {}
    /\ row' = [row EXCEPT !.diary = EmptyDiary]
    /\ ReqGoto(d, "restart")
    /\ UNCHANGED << store, file, settings, boot, sourceLock, phaseLock >>

RestartSource(d) ==
    /\ ReqAt(d, "restart")
    /\ row' = [SetStatus(row, "processing") EXCEPT
                  !.deleted = {}, !.reindexer = NoOwner]
    /\ ReqGoto(d, "leave")
    /\ UNCHANGED << store, file, settings, boot, sourceLock, phaseLock >>

Leave(d) ==
    /\ ReqAt(d, "leave")
    /\ sourceLock' = SourceLockLeftBy(d)
    /\ ReqStop(d)
    /\ UNCHANGED << row, store, file, settings, boot, phaseLock >>

----------------------------------------------------------------------------
ServeRequest(d) ==
    \/ ReqLock(d) \/ ReqLockTimeout(d)
    \/ MarkDeleting(d) \/ MarkReindexing(d) \/ RecoverReindex(d)
    \/ WipePhase(d) \/ WipeFails(d)
    \/ DropSource(d) \/ DeletePoints(d) \/ ForgetRow(d)
    \/ ClearDiary(d) \/ RestartSource(d) \/ Leave(d)
=============================================================================
