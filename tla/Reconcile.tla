----------------------------- MODULE Reconcile -----------------------------
(***************************************************************************)
(* What removes the source's row beside a deletion: the reconcile pass     *)
(* (reconcile.py), run by each sweep and by each read of the status        *)
(* endpoint, and the dismissal of a row (endpoints.py).  Both judge the    *)
(* row by a copy read earlier, and remove it under the source lock.        *)
(***************************************************************************)
EXTENDS Ingestion

VARIABLE removal \* the local state of a removal: where it is, what it read

reconcileVars == << vars, removal >>

----------------------------------------------------------------------------
Removals == [pc : {"idle", "judge", "purge", "dismiss"}, status : Statuses]

NoRemoval == [pc |-> "idle", status |-> "absent"]

RemovalTypeOK == removal \in Removals
RemovalInit   == removal = NoRemoval

Removing(label) == removal.pc = label
RemovalAt(label) ==
    removal' = [pc |-> label, status |-> row.status] /\ UNCHANGED vars
RemovalEnds == removal' = NoRemoval

----------------------------------------------------------------------------
(* Mutant of NeverPurge: every terminal row is spared.                     *)
SparesTerminal == InFlight \cup Terminal

NeverPurge == InFlight \cup {"error"}

List == Removing("idle") /\ Present /\ RemovalAt("judge")

Keep ==
    /\ Removing("judge") /\ (removal.status \in NeverPurge \/ file)
    /\ RemovalEnds /\ UNCHANGED vars

ListFilesFails ==
    /\ Removing("judge") /\ removal.status \notin NeverPurge
    /\ RemovalEnds /\ UNCHANGED vars

Condemn ==
    /\ Removing("judge") /\ removal.status \notin NeverPurge /\ ~file
    /\ removal' = [removal EXCEPT !.pc = "purge"]
    /\ UNCHANGED vars

(* The endpoint refuses the rows in flight.                                *)
Dismiss ==
    /\ Removing("idle") /\ Present /\ row.status \notin InFlight
    /\ RemovalAt("dismiss")

(* Mutant of RemoveRow: the row is removed without the lock.               *)
RemoveRowAnyway ==
    /\ removal.pc \in {"purge", "dismiss"}
    /\ row' = NoRow
    /\ RemovalEnds
    /\ UNCHANGED << store, file, settings, boot, sourceLock, phaseLock,
                    pass, req >>

(* delete_status: whatever row is there once the lock is free.             *)
RemoveRow ==
    /\ removal.pc \in {"purge", "dismiss"} /\ sourceLock = NoTask
    /\ row' = NoRow
    /\ RemovalEnds
    /\ UNCHANGED << store, file, settings, boot, sourceLock, phaseLock,
                    pass, req >>

RemoveTimeout ==
    /\ removal.pc \in {"purge", "dismiss"} /\ sourceLock \in Tasks
    /\ RemovalEnds /\ UNCHANGED vars

Judge  == Keep \/ ListFilesFails \/ Condemn
Remove == RemoveRow \/ RemoveTimeout

----------------------------------------------------------------------------
ReconcileNext ==
    \/ Next /\ UNCHANGED removal
    \/ List \/ Judge \/ Dismiss \/ Remove

ReconcileSpec ==
    Init /\ RemovalInit /\ [][ReconcileNext]_reconcileVars

(* Each sweep runs a reconcile pass, which runs to its end; the directory  *)
(* can be listed, and the lock be had, again and again.                    *)
ReconcileFairSpec ==
    /\ ReconcileSpec
    /\ SF_reconcileVars(List) /\ WF_reconcileVars(Judge)
    /\ SF_reconcileVars(Condemn)
    /\ SF_reconcileVars(RemoveRow) /\ WF_reconcileVars(Remove)
    /\ WF_reconcileVars(SourceLockExpires /\ UNCHANGED removal)
    /\ \A w \in Workers :
          WF_reconcileVars((BeforeLock(w) \/ UnderLock(w))
                              /\ UNCHANGED << req, removal >>)
    /\ \A d \in Deleters :
          WF_reconcileVars(ServeRequest(d) /\ UNCHANGED << pass, removal >>)

----------------------------------------------------------------------------
(* Properties.                                                             *)

Removes(label) == Removing(label) /\ removal'.pc = "idle" /\ row' # row

(* delete_status: it waits for a pass or a deletion under way to finish    *)
(* instead of racing it.                                                   *)
RemovalWaitsForWork ==
    [][Removes("purge") \/ Removes("dismiss") =>
          \A t \in Tasks : ~AtWork(t)]_reconcileVars

(* reconcile_agent: a completed row whose file has vanished is purged, if  *)
(* nothing else changes it and the file does not come back.                *)
VanishedIsCollected ==
    (row.status = "completed" /\ ~file) ~> (row.status # "completed" \/ file)

(* reconcile_agent: only rows whose file has vanished are purged.          *)
PurgesOnlyVanished ==
    [][Removes("purge") => ~file]_reconcileVars

(* docs/phase-contract.md section 7: the record of a deletion that failed  *)
(* stays, for the next pass to retry; reconcile_agent purges only          *)
(* completed rows.                                                         *)
DeletionOutlivesReconcile ==
    [][Removes("purge") => row.status # "deleting"]_reconcileVars

(* The endpoint's docstring: only terminal rows may be deleted here.       *)
DismissesOnlyTerminal ==
    [][Removes("dismiss") => row.status \in Terminal]_reconcileVars
=============================================================================
