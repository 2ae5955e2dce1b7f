----------------------------- MODULE Heartbeat -----------------------------
(***************************************************************************)
(* The heartbeat that keeps a row in flight fresh (plugin._heartbeat_status)*)
(* beside the tasks of Ingestion.  Its tick is three calls: it looks at    *)
(* the status, set_status reads the whole document, and stores it back; so *)
(* the writers of Ingestion, which are one step each here, fall between    *)
(* them.  (A writer's own read and store may fall around a tick as well:   *)
(* the tick is then overwritten, as if it had not been.)                   *)
(***************************************************************************)
EXTENDS Ingestion

VARIABLES
    beat,   \* per process, its heartbeat of the source (_heartbeat_tasks)
    claimed \* workers past their claim, whose pass ends in _stop_heartbeat

beatVars == << vars, beat, claimed >>

----------------------------------------------------------------------------
Beats == [pc : {"off", "sleep", "read", "store"}, status : Statuses, doc : Rows]

NoBeat   == [pc |-> "off", status |-> "absent", doc |-> NoRow]
Sleeping == [NoBeat EXCEPT !.pc = "sleep"]

BeatTypeOK == beat \in [Procs -> Beats] /\ claimed \subseteq Workers
BeatInit   == beat = [proc \in Procs |-> NoBeat] /\ claimed = {}

----------------------------------------------------------------------------
(* One tick.                                                               *)

BeatLook(proc) ==
    /\ beat[proc].pc = "sleep"
    /\ beat' = [beat EXCEPT ![proc] =
                   IF row.status \in InFlight
                   THEN [@ EXCEPT !.pc = "read", !.status = row.status]
                   ELSE NoBeat]
    /\ UNCHANGED << vars, claimed >>

BeatRead(proc) ==
    /\ beat[proc].pc = "read"
    /\ beat' = [beat EXCEPT ![proc] = [@ EXCEPT !.pc = "store", !.doc = row]]
    /\ UNCHANGED << vars, claimed >>

BeatStore(proc) ==
    /\ beat[proc].pc = "store"
    /\ row' = SetStatus(beat[proc].doc, beat[proc].status)
    /\ beat' = [beat EXCEPT ![proc] = Sleeping]
    /\ UNCHANGED << store, file, settings, boot, sourceLock, phaseLock,
                    pass, req, claimed >>

----------------------------------------------------------------------------
(* Which steps of a pass start and stop the heartbeat.  It is kept under   *)
(* the source's name, not the task's: of the passes of one process, each   *)
(* start replaces the one heartbeat and each stop cancels it.              *)

Claims(w) == At(w, "claim") /\ pass'[w].pc = "recover"

(* Mutant of StartsBeat: only an upload has a heartbeat.                   *)
UploadStartsBeat(w) == At(w, "persist") /\ pass'[w].pc = "begin"

StartsBeat(w) == Claims(w) \/ (At(w, "persist") /\ pass'[w].pc = "begin")

StopsBeat(w) ==
    /\ ~At(w, "idle") /\ pass'[w].pc = "idle"
    /\ pass[w].kind = "upload" \/ w \in claimed

(* A heartbeat dies with its process; a cancelled one is awaited, so it    *)
(* stores nothing once its pass goes on.                                   *)
BeatsFollow ==
    /\ beat' = [proc \in Procs |->
          LET tasks == {w \in Workers : ProcOf[w] = proc}
          IN  CASE boot'[proc] # boot[proc] -> NoBeat
                [] /\ boot'[proc] = boot[proc]
                   /\ \E w \in tasks : StartsBeat(w) -> Sleeping
                [] /\ boot'[proc] = boot[proc]
                   /\ ~\E w \in tasks : StartsBeat(w)
                   /\ \E w \in tasks : StopsBeat(w) -> NoBeat
                [] OTHER -> beat[proc]]
    /\ claimed' = {w \in Workers :
          pass'[w].pc # "idle" /\ (w \in claimed \/ Claims(w))}

----------------------------------------------------------------------------
Tick == \E proc \in Procs : BeatLook(proc) \/ BeatRead(proc) \/ BeatStore(proc)

BeatNext == (Next /\ BeatsFollow) \/ Tick

BeatSpec == Init /\ BeatInit /\ [][BeatNext]_beatVars

(* The fairness of Ingestion, of each pass while heartbeats tick.          *)
BeatFairness ==
    /\ \A w \in Workers :
          /\ WF_beatVars((BeforeLock(w) \/ UnderLock(w))
                            /\ UNCHANGED req /\ BeatsFollow)
          /\ SF_beatVars(Claim(w) /\ UNCHANGED req /\ BeatsFollow)
          /\ SF_beatVars(Sweep(w) /\ BeatsFollow)
    /\ WF_beatVars(SourceLockExpires /\ BeatsFollow)
    /\ \A p \in Phases : WF_beatVars(PhaseLockExpires(p) /\ BeatsFollow)
    /\ WF_beatVars(Tick)

BeatFairSpec == BeatSpec /\ BeatFairness

----------------------------------------------------------------------------
(* reembed_sources: from its claim to its end a pass keeps the row fresh,  *)
(* for without a heartbeat the next sweep would claim it again.            *)
WorkIsKeptFresh ==
    \A w \in claimed :
       row.status \in InFlight => beat[ProcOf[w]].pc # "off"

(* The fresh-skip branch of reembed_sources: a row left in flight that no  *)
(* pass is working on is terminalized, or claimed, by a later sweep; it is *)
(* not handed to the sweep for ever without ever being advanced.           *)
QuietRowIsTakenUp ==
    (row.status \in InFlight /\ \A w \in Workers : At(w, "idle"))
       ~> (row.status \notin InFlight \/ \E w \in Workers : pass[w].pc \in Locked)

(* set_status: a write without a diary, such as the heartbeat's, never     *)
(* takes back what another writer put in the diary.                        *)
HeartbeatKeepsDiary ==
    [][\A proc \in Procs :
          beat[proc].pc = "store" /\ beat'[proc].pc = "sleep"
             /\ UNCHANGED pass
          => row'.diary = row.diary]_beatVars
=============================================================================
