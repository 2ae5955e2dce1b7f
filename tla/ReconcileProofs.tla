-------------------------- MODULE ReconcileProofs --------------------------
(***************************************************************************)
(* Theorems about Reconcile.  Its steps beside those of Ingestion change   *)
(* nothing of the source but the row, which they remove; so what holds of  *)
(* Ingestion holds here, and a removal, which waits for the lock, falls on *)
(* no task at work.                                                        *)
(***************************************************************************)
EXTENDS Reconcile, IngestionProofs

(* What a removal does to the source.                                      *)
RowAtMostRemoved ==
    /\ row' \in {row, NoRow}
    /\ UNCHANGED << store, file, settings, boot, sourceLock, phaseLock,
                    pass, req >>

LEMMA RemovalSteps ==
    ASSUME List \/ Judge \/ Dismiss \/ Remove
    PROVE  RowAtMostRemoved
BY DEF List, RemovalAt, Judge, Keep, ListFilesFails, Condemn, Dismiss, Remove,
       RemoveRow, RemoveTimeout, RowAtMostRemoved, vars

(* Beside them the types and the lock are as Ingestion keeps them.         *)
LEMMA RemovalKeepsSource ==
    ASSUME TypeOK, RowAtMostRemoved
    PROVE  TypeOK' /\ (LockHeld => LockHeld')
<1>1. row' \in Rows
  BY NoTypes DEF RowAtMostRemoved, TypeOK, SharedTypeOK
<1>2. TypeOK'
  BY <1>1 DEF RowAtMostRemoved, TypeOK, SharedTypeOK, PassTypeOK, ReqTypeOK
<1>3. LockHeld => LockHeld'
  BY DEF RowAtMostRemoved, LockHeld, AtWork
<1> QED BY <1>2, <1>3

LEMMA StepSplits ==
    ASSUME [ReconcileNext]_reconcileVars
    PROVE  [Next]_vars \/ RowAtMostRemoved
BY RemovalSteps DEF ReconcileNext, reconcileVars

LEMMA StatusTypes ==
    ASSUME TypeOK
    PROVE  row.status \in Statuses
BY DEF TypeOK, SharedTypeOK, Rows

(* The types are kept; what a removal has read is a status.                *)
LEMMA RemovalTyped ==
    ASSUME TypeOK, RemovalTypeOK, [ReconcileNext]_reconcileVars
    PROVE  RemovalTypeOK'
<1> USE DEF RemovalTypeOK, Removals
<1>1. CASE List \/ Dismiss
  BY <1>1, StatusTypes DEF List, Dismiss, RemovalAt
<1>2. NoRemoval \in Removals
  BY DEF NoRemoval, Statuses
<1>3. CASE Keep \/ ListFilesFails \/ Remove
  BY <1>2, <1>3 DEF Keep, ListFilesFails, Remove, RemoveRow, RemoveTimeout,
                    RemovalEnds
<1>4. CASE Condemn
  BY <1>4 DEF Condemn
<1>5. CASE UNCHANGED removal
  BY <1>5
<1> QED BY <1>1, <1>3, <1>4, <1>5 DEF ReconcileNext, reconcileVars, Judge

(* Type correctness of Reconcile, and of Ingestion beside it.              *)
THEOREM RemovalTypeCorrect ==
    ReconcileSpec => [](TypeOK /\ RemovalTypeOK)
<1>1. Init /\ RemovalInit => TypeOK /\ RemovalTypeOK
  BY InitTyped DEF RemovalInit, RemovalTypeOK, NoRemoval, Removals, Statuses
<1>2. TypeOK /\ [ReconcileNext]_reconcileVars => TypeOK'
  BY StepSplits, NextTyped, RemovalKeepsSource
<1>3. TypeOK /\ RemovalTypeOK /\ [ReconcileNext]_reconcileVars => RemovalTypeOK'
  BY RemovalTyped
<1> QED BY <1>1, <1>2, <1>3, PTL DEF ReconcileSpec

(* Mutual exclusion holds beside removals too, ...                         *)
THEOREM LockHolderAloneBesideRemovals ==
    ASSUME LockMayExpire = FALSE
    PROVE  ReconcileSpec => []LockHeld
<1>1. TypeOK /\ LockHeld /\ [ReconcileNext]_reconcileVars => LockHeld'
  BY StepSplits, NextKeepsLockHeld, RemovalKeepsSource
<1> QED BY <1>1, InitLockHeld, RemovalTypeCorrect, PTL DEF ReconcileSpec

(* ... so delete_status, which waits for the source lock, removes a row    *)
(* only while no pass, no deletion and no re-ingest is at work.            *)
THEOREM RemovalsWait ==
    ASSUME LockMayExpire = FALSE
    PROVE  ReconcileSpec => RemovalWaitsForWork
<1> DEFINE Waits == Removes("purge") \/ Removes("dismiss") =>
                       \A t \in Tasks : ~AtWork(t)
<1>1. LockHeld /\ [ReconcileNext]_reconcileVars => [Waits]_reconcileVars
  <2> SUFFICES ASSUME LockHeld, ReconcileNext,
                      Removes("purge") \/ Removes("dismiss")
               PROVE  \A t \in Tasks : ~AtWork(t)
    OBVIOUS
  <2>1. removal.pc \in {"purge", "dismiss"} /\ removal'.pc = "idle" /\ row' # row
    BY DEF Removes, Removing
  <2>2. CASE RemoveRow
    BY <2>2, TasksAssumption DEF RemoveRow, LockHeld
  <2>3. ~(List \/ Judge \/ Dismiss \/ RemoveTimeout)
    BY <2>1 DEF List, Judge, Keep, ListFilesFails, Condemn, Dismiss, Removing,
                RemoveTimeout, vars
  <2>4. removal' # removal
    BY <2>1
  <2> QED BY <2>2, <2>3, <2>4 DEF ReconcileNext, Remove
<1> QED BY <1>1, LockHolderAloneBesideRemovals, PTL
        DEF ReconcileSpec, RemovalWaitsForWork
=============================================================================
