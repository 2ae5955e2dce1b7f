--------------------------- MODULE SourceLifecycle ---------------------------
(***************************************************************************)
(* What the status endpoint promises of one source that nobody deletes or  *)
(* resets: its status, and how far each of its phases has got.  Module     *)
(* Ingestion is shown to implement it when one worker at a time works on   *)
(* the source.                                                             *)
(*                                                                         *)
(* A source is completed only when every phase is done or does not apply,  *)
(* and while it is completed no phase moves.  A phase that failed or was   *)
(* skipped is not taken up again behind anyone's back: its outcome goes    *)
(* away with a reset only, and otherwise spreads to the phases above it.   *)
(***************************************************************************)
CONSTANTS
    Phases,
    Needs    \* the phases each phase depends on

VARIABLES
    status,  \* the status of the source
    outcome  \* per phase: open, done, failed or skipped

seen == << status, outcome >>

Outcomes == {"open", "done", "failed", "skipped"}

Init ==
    /\ status = "absent"
    /\ outcome = [p \in Phases |-> "open"]

----------------------------------------------------------------------------
(* The source is uploaded, or taken up by whoever finds work in it.        *)
Hand ==
    /\ status' \in {"uploaded", "processing"}
    /\ UNCHANGED outcome

Run(p) ==
    /\ status # "completed" /\ outcome[p] \in {"open", "done"}
    /\ status' = "processing"
    /\ outcome' = [outcome EXCEPT ![p] = "open"]

(* A phase ends (one that is done may turn out not to apply any more).     *)
(* A failure is the source's only in the next step (Fail).                 *)
Conclude(p) ==
    /\ status # "completed" /\ outcome[p] \in {"open", "done"}
    /\ \E o \in Outcomes \ {"open"} :
          /\ outcome' = [outcome EXCEPT ![p] = o]
          /\ status' = "processing"

(* The failure of a phase is inherited by those that depend on it.         *)
Inherit(p) ==
    /\ status # "completed"
    /\ \E d \in Needs[p] :
          /\ outcome[d] \in {"failed", "skipped"}
          /\ outcome' = [outcome EXCEPT ![p] = outcome[d]]
          /\ status' = IF outcome[d] = "failed" THEN "error" ELSE "processing"

(* Products are purged, and with them what is known of their phases.       *)
Reset ==
    /\ status # "completed"
    /\ \E S \in SUBSET Phases :
          outcome' = [p \in Phases |-> IF p \in S THEN "open" ELSE outcome[p]]
    /\ status' \in {status, "processing"}

Complete ==
    /\ status \in {"uploaded", "processing"}
    /\ \A p \in Phases : outcome[p] \in {"done", "skipped"}
    /\ status' = "completed"
    /\ UNCHANGED outcome

Fail ==
    /\ status' = "error"
    /\ UNCHANGED outcome

Next ==
    \/ Hand \/ Reset \/ Complete \/ Fail
    \/ \E p \in Phases : Run(p) \/ Conclude(p) \/ Inherit(p)

Spec == Init /\ [][Next]_seen
=============================================================================
