--------------------------- MODULE DownloadsProofs ---------------------------
(***************************************************************************)
(* Proofs about the download of a source, for every length of a heartbeat, *)
(* of its life and of what counts as abandoned: the types; that nothing of *)
(* a deleted agent is taken up again; and, for one worker that uploads and *)
(* one that sweeps, that no sweep takes a source from a download that is   *)
(* still entitled to its heartbeat.                                        *)
(***************************************************************************)
EXTENDS Downloads, TLAPS

Rows   == [status : Statuses, owner : Workers \cup {NoWorker},
           age : 0 .. DownloadStale]
Passes == [pc : Places, gate : {0, BootStale, DownloadStale},
           elapsed : 0 .. MaxBeat]
Beats  == [pc : {"off", "sleep", "store"}, due : 0 .. Interval,
           left : 0 .. Unbounded, status : Statuses]

----------------------------------------------------------------------------
(* Types.                                                                  *)

LEMMA BoundTypes ==
    /\ 0 \in 0 .. DownloadStale /\ 0 \in 0 .. MaxBeat
    /\ 0 \in 0 .. Interval /\ Interval \in 0 .. Interval
    /\ 0 \in 0 .. Unbounded /\ Unbounded \in 0 .. Unbounded
    /\ DownloadLife \in 0 .. Unbounded
<1>1. DownloadStale \in Nat /\ MaxBeat \in Nat /\ Interval \in Nat
  BY DownloadsAssumption
<1> QED BY <1>1 DEF Unbounded, DownloadLife

LEMMA ConstantTypes ==
    /\ NoRow \in Rows /\ IdlePass \in Passes /\ NoBeat \in Beats
    /\ \A life \in 0 .. Unbounded : Beating(life) \in Beats
BY DownloadsAssumption
   DEF NoRow, IdlePass, NoBeat, Beating, Rows, Passes, Beats, Statuses,
       InFlight, Downloading, Places, Unbounded

LEMMA WrittenType ==
    ASSUME row \in Rows, NEW status \in Statuses, Written(status)
    PROVE  row' \in Rows
BY BoundTypes DEF Written, Rows

LEMMA GotoType ==
    ASSUME pass \in [Workers -> Passes], NEW w, NEW place \in Places,
           Goto(w, place)
    PROVE  pass' \in [Workers -> Passes]
BY DEF Goto, Passes

LEMMA PassUpdated ==
    ASSUME pass \in [Workers -> Passes], NEW w, NEW q \in Passes,
           pass' = [pass EXCEPT ![w] = q]
    PROVE  pass' \in [Workers -> Passes]
OBVIOUS

LEMMA BeatUpdated ==
    ASSUME beat \in [Workers -> Beats], NEW w, NEW b \in Beats,
           beat' = [beat EXCEPT ![w] = b]
    PROVE  beat' \in [Workers -> Beats]
OBVIOUS

LEMMA TypeOKIs ==
    DownloadTypeOK <=>
       /\ row \in Rows
       /\ agent \in {"alive", "marked", "destroyed", "wiped", "gone"}
       /\ pass \in [Workers -> Passes] /\ beat \in [Workers -> Beats]
       /\ lock \in Workers \cup {NoWorker, DeadWorker}
       /\ kept \in BOOLEAN /\ crashes \in 0 .. MaxCrashes
BY DEF DownloadTypeOK, Rows, Passes, Beats

LEMMA TypeOKNext ==
    ASSUME row' \in Rows,
           agent' \in {"alive", "marked", "destroyed", "wiped", "gone"},
           pass' \in [Workers -> Passes], beat' \in [Workers -> Beats],
           lock' \in Workers \cup {NoWorker, DeadWorker},
           kept' \in BOOLEAN, crashes' \in 0 .. MaxCrashes
    PROVE  DownloadTypeOK'
BY DEF DownloadTypeOK, Rows, Passes, Beats

LEMMA OlderType ==
    ASSUME NEW bound \in Nat, NEW n \in 0 .. bound
    PROVE  Older(n, bound) \in 0 .. bound
BY DEF Older

LEMMA StartsTyped ==
    ASSUME DownloadTypeOK, NEW w \in Workers,
           Upload(w) \/ Sweep(w) \/ SweepError(w)
    PROVE  DownloadTypeOK'
<1>1. PICK gate \in {0, BootStale, DownloadStale}, place \in Places :
         Start(w, gate, place)
  BY DEF Upload, Sweep, SweepError, Gate, Places
<1>2. [IdlePass EXCEPT !.pc = place, !.gate = gate] \in Passes
  BY ConstantTypes DEF Passes
<1> QED BY <1>1, <1>2, TypeOKIs, TypeOKNext, PassUpdated DEF Start

LEMMA TickTyped ==
    ASSUME DownloadTypeOK, NEW w \in Workers, Tick(w)
    PROVE  DownloadTypeOK'
<1>1. row \in Rows /\ beat \in [Workers -> Beats] /\ beat[w] \in Beats
  BY TypeOKIs
<1>2. CASE BeatLook(w)
  <2>1. \/ beat' = [beat EXCEPT ![w] = NoBeat]
        \/ \E s \in Statuses :
              beat' = [beat EXCEPT ![w] = [@ EXCEPT !.pc = "store", !.status = s]]
    BY <1>1, <1>2 DEF BeatLook, Rows, Statuses
  <2>2. \A s \in Statuses : [beat[w] EXCEPT !.pc = "store", !.status = s] \in Beats
    BY <1>1 DEF Beats
  <2>3. beat' \in [Workers -> Beats]
    BY <1>1, <2>1, <2>2, ConstantTypes
  <2> QED BY <1>2, <2>3, TypeOKIs, TypeOKNext DEF BeatLook
<1>3. CASE BeatStore(w)
  <2>1. row' \in Rows
    BY <1>1, <1>3, BoundTypes DEF BeatStore, Rows, Beats
  <2>2. [beat[w] EXCEPT !.pc = "sleep", !.due = Interval, !.status = "absent"]
          \in Beats
    BY <1>1, BoundTypes DEF Beats, Statuses
  <2>3. beat' \in [Workers -> Beats]
    BY <1>1, <1>3, <2>2, ConstantTypes DEF BeatStore
  <2> QED BY <1>3, <2>1, <2>3, TypeOKIs, TypeOKNext DEF BeatStore
<1> QED BY <1>2, <1>3 DEF Tick

LEMMA StepTyped ==
    ASSUME DownloadTypeOK, NEW w \in Workers, Step(w)
    PROVE  DownloadTypeOK'
<1> USE TypeOKIs, TypeOKNext
<1>1. CASE IngestionStart(w) \/ Recover(w) \/ Chunk(w) \/ LaterPhases(w)
           \/ Parse(w)
  <2>1. \/ row' = row
        \/ \E s \in Statuses : Written(s)
    BY <1>1 DEF IngestionStart, Recover, Chunk, LaterPhases, Parse, Completed,
                Statuses, InFlight
  <2>2. \E place \in Places : Goto(w, place)
    BY <1>1 DEF IngestionStart, Recover, Chunk, LaterPhases, Parse, Places
  <2>3. row' \in Rows /\ pass' \in [Workers -> Passes]
    BY <2>1, <2>2, WrittenType, GotoType
  <2> QED BY <1>1, <2>3
          DEF IngestionStart, Recover, Chunk, LaterPhases, Parse
<1>2. CASE IngestionProcessing(w) \/ UrlDownloading(w)
  <2>1. /\ \E s \in Statuses : Written(s)
        /\ \E place \in Places : Goto(w, place)
        /\ beat' = beat \/ \E life \in 0 .. Unbounded : HeartbeatStarts(w, life)
    BY <1>2, BoundTypes
       DEF IngestionProcessing, UrlDownloading, Statuses, InFlight, Downloading,
           Places
  <2>2. row' \in Rows /\ pass' \in [Workers -> Passes]
    BY <2>1, WrittenType, GotoType
  <2>3. beat' \in [Workers -> Beats]
    BY <2>1, ConstantTypes DEF HeartbeatStarts
  <2> QED BY <1>2, <2>2, <2>3 DEF IngestionProcessing, UrlDownloading
<1>3. CASE Exit(w)
  BY <1>3, ConstantTypes DEF Exit
<1>4. ASSUME NEW place, PhaseFails(w, place)
      PROVE  DownloadTypeOK'
  <2>1. row' \in Rows
    BY <1>4, WrittenType DEF PhaseFails, Statuses
  <2>2. pass' \in [Workers -> Passes]
    BY <1>4, BoundTypes DEF PhaseFails, Passes, Places
  <2> QED BY <1>4, <2>1, <2>2 DEF PhaseFails
<1> QED BY <1>1, <1>2, <1>3, <1>4 DEF Step

LEMMA WaitsTyped ==
    ASSUME DownloadTypeOK, NEW w \in Workers, Waits(w)
    PROVE  DownloadTypeOK'
<1> USE TypeOKIs, TypeOKNext
<1>1. CASE LockTimeout(w)
  BY <1>1, GotoType DEF LockTimeout, Places
<1>2. CASE Claim(w) /\ Claimable(w)
  <2>1. [status |-> "processing", owner |-> w, age |-> 0] \in Rows
    BY DownloadsAssumption DEF Rows, Statuses, InFlight
  <2>2. [IdlePass EXCEPT !.pc = "recover"] \in Passes
    BY ConstantTypes DEF Passes, Places
  <2>3. pass' \in [Workers -> Passes] /\ beat' \in [Workers -> Beats]
    BY <1>2, <2>2, ConstantTypes, BoundTypes DEF Claim, HeartbeatStarts
  <2> QED BY <1>2, <2>1, <2>3 DEF Claim
<1>3. CASE Claim(w) /\ ~Claimable(w)
  BY <1>3, GotoType DEF Claim, Places
<1> QED BY <1>1, <1>2, <1>3 DEF Waits

LEMMA FetchTyped ==
    ASSUME DownloadTypeOK, NEW w \in Workers, Fetch(w)
    PROVE  DownloadTypeOK'
<1> USE TypeOKIs, TypeOKNext
<1>1. CASE UrlDownloadCompleted(w)
  <2>1. row' \in Rows
    BY <1>1, WrittenType
       DEF UrlDownloadCompleted, Statuses, InFlight, Downloading
  <2>2. pass' \in [Workers -> Passes]
    BY <1>1, BoundTypes DEF UrlDownloadCompleted, Passes, Places
  <2>3. beat' \in [Workers -> Beats]
    BY <1>1, ConstantTypes, BoundTypes DEF UrlDownloadCompleted, HeartbeatStarts
  <2> QED BY <1>1, <2>1, <2>2, <2>3 DEF UrlDownloadCompleted
<1>2. CASE FetchFails(w)
  <2>1. row' \in Rows
    BY <1>2, WrittenType DEF FetchFails, PhaseFails, Statuses
  <2>2. pass' \in [Workers -> Passes]
    BY <1>2, BoundTypes DEF FetchFails, PhaseFails, Passes, Places
  <2> QED BY <1>2, <2>1, <2>2 DEF FetchFails, PhaseFails
<1> QED BY <1>1, <1>2 DEF Fetch

LEMMA AroundTyped ==
    ASSUME DownloadTypeOK,
           \/ \E w \in Workers : Crash(w)
           \/ Deletion \/ LockExpires \/ TimePasses
    PROVE  DownloadTypeOK'
<1> USE TypeOKIs, TypeOKNext
<1>1. ASSUME NEW w \in Workers, Crash(w)
      PROVE  DownloadTypeOK'
  BY <1>1, ConstantTypes, DownloadsAssumption DEF Crash
<1>2. CASE Deletion
  BY <1>2, ConstantTypes
     DEF Deletion, SetDeleteMarker, DestroyAgent, ClearAgent, ClearDeleteMarker,
         Teardown
<1>3. CASE LockExpires
  BY <1>3 DEF LockExpires
<1>4. CASE TimePasses
  <2>1. row' \in Rows
    <3>1. row.age \in 0 .. DownloadStale /\ DownloadStale \in Nat
      BY DownloadsAssumption DEF Rows
    <3>2. Older(row.age, DownloadStale) \in 0 .. DownloadStale
      BY <3>1, OlderType
    <3> QED BY <1>4, <3>2 DEF TimePasses, Rows
  <2>2. ASSUME NEW w \in Workers
        PROVE  pass'[w] \in Passes
    <3>1. pass[w].elapsed \in 0 .. MaxBeat /\ MaxBeat \in Nat
      BY DownloadsAssumption DEF Passes
    <3>2. Older(pass[w].elapsed, MaxBeat) \in 0 .. MaxBeat
      BY <3>1, OlderType
    <3> QED BY <1>4, <3>2 DEF TimePasses, Passes
  <2>3. ASSUME NEW w \in Workers
        PROVE  beat'[w] \in Beats
    <3>1. /\ beat[w].due \in 0 .. Interval /\ Interval \in Nat
          /\ beat[w].left \in 0 .. Unbounded /\ Unbounded \in Nat
      BY DownloadsAssumption DEF Beats, Unbounded
    <3>2. beat[w].pc # "off" => beat[w].due - 1 \in 0 .. Interval
      <4>1. beat[w].pc # "off" => beat[w].due > 0
        BY <1>4 DEF TimePasses
      <4> QED BY <4>1, <3>1
    <3>3. beat[w].left # 0 => beat[w].left - 1 \in 0 .. Unbounded
      BY <3>1
    <3> QED BY <1>4, <3>2, <3>3 DEF TimePasses, Beats
  <2>4. pass' \in [Workers -> Passes] /\ beat' \in [Workers -> Beats]
    BY <1>4, <2>2, <2>3 DEF TimePasses
  <2> QED BY <1>4, <2>1, <2>4 DEF TimePasses
<1> QED BY <1>1, <1>2, <1>3, <1>4

(* The row, the pass and the heartbeat of every worker stay within their   *)
(* types: no age, no life of a heartbeat leaves its bounds, and the        *)
(* heartbeat writes no status that is not one.                             *)
THEOREM DownloadTypeCorrect == Spec => []DownloadTypeOK
<1>1. Init => DownloadTypeOK
  <2>1. 0 \in 0 .. MaxCrashes
    BY DownloadsAssumption
  <2> QED BY <2>1, TypeOKIs, ConstantTypes DEF Init
<1>2. DownloadTypeOK /\ [Next]_vars => DownloadTypeOK'
  <2>1. DownloadTypeOK /\ UNCHANGED vars => DownloadTypeOK'
    BY DEF DownloadTypeOK, vars
  <2> QED BY <2>1, StartsTyped, TickTyped, StepTyped, WaitsTyped, FetchTyped,
             AroundTyped DEF Next
<1> QED BY <1>1, <1>2, PTL DEF Spec

----------------------------------------------------------------------------
(* A worker disturbs the pass and the heartbeat of no other.               *)

Acts(w) ==
    \/ Upload(w) \/ Sweep(w) \/ SweepError(w)
    \/ Step(w) \/ Waits(w) \/ Fetch(w) \/ Tick(w) \/ Crash(w)

LEMMA OthersUntouched ==
    ASSUME DownloadTypeOK, NEW w \in Workers, NEW v \in Workers \ {w}, Acts(w)
    PROVE  pass'[v] = pass[v] /\ beat'[v] = beat[v]
<1>1. pass \in [Workers -> Passes] /\ beat \in [Workers -> Beats]
  BY TypeOKIs
<1>2. pass' = pass \/ \E q : pass' = [pass EXCEPT ![w] = q]
  <2>1. CASE Upload(w) \/ Sweep(w) \/ SweepError(w)
    BY <2>1 DEF Upload, Sweep, SweepError, Start
  <2>2. CASE Step(w)
    BY <2>2 DEF Step, IngestionStart, IngestionProcessing, Recover, Parse,
            UrlDownloading, Chunk, LaterPhases, Exit, PhaseFails, Goto
  <2>3. CASE Waits(w) \/ Fetch(w)
    BY <2>3 DEF Waits, Claim, LockTimeout, Fetch, UrlDownloadCompleted,
            FetchFails, PhaseFails, Goto
  <2>4. CASE Tick(w) \/ Crash(w)
    BY <2>4 DEF Tick, BeatLook, BeatStore, Crash
  <2> QED BY <2>1, <2>2, <2>3, <2>4 DEF Acts
<1>3. beat' = beat \/ \E b : beat' = [beat EXCEPT ![w] = b]
  <2>1. CASE Upload(w) \/ Sweep(w) \/ SweepError(w)
    BY <2>1 DEF Upload, Sweep, SweepError, Start
  <2>2. CASE Step(w)
    BY <2>2 DEF Step, IngestionStart, IngestionProcessing, Recover, Parse,
            UrlDownloading, Chunk, LaterPhases, Exit, PhaseFails,
            HeartbeatStarts
  <2>3. CASE Waits(w) \/ Fetch(w)
    BY <2>3 DEF Waits, Claim, LockTimeout, Fetch, UrlDownloadCompleted,
            FetchFails, PhaseFails, HeartbeatStarts
  <2>4. CASE Tick(w) \/ Crash(w)
    BY <2>4 DEF Tick, BeatLook, BeatStore, Crash
  <2> QED BY <2>1, <2>2, <2>3, <2>4 DEF Acts
<1> QED BY <1>1, <1>2, <1>3

(* ingestion_canceled: of an agent that is gone, marker and all, no worker  *)
(* takes up a row again, whatever status a late write has left in it.      *)
THEOREM GhostStaysDead == Spec => GhostIsNotResumed
<1>1. ASSUME DownloadTypeOK, [Next]_vars, agent = "gone",
             NEW v \in Workers, At(v, "idle")
      PROVE  pass'[v].pc = "idle"
  <2>1. pass \in [Workers -> Passes] /\ pass[v].pc = "idle"
    BY <1>1, TypeOKIs DEF At
  <2>2. ~HasMasterKey /\ Canceled
    BY <1>1 DEF Canceled, HasMasterKey, HasDeleteMarker
  <2>3. ASSUME NEW w \in Workers, Acts(w)
        PROVE  pass'[v].pc = "idle"
    <3>1. CASE v # w
      BY <1>1, <2>1, <2>3, <3>1, OthersUntouched
    <3>2. CASE v = w
      <4>1. Tick(w)
        BY <1>1, <2>1, <2>2, <2>3, <3>2
           DEF Acts, Upload, Sweep, SweepError, Step, Waits, Fetch, Crash,
               IngestionStart, IngestionProcessing, Recover, Parse,
               UrlDownloading, Chunk, LaterPhases, Exit, PhaseFails, Claim,
               LockTimeout, UrlDownloadCompleted, FetchFails, At
      <4> QED BY <2>1, <4>1 DEF Tick, BeatLook, BeatStore
    <3> QED BY <3>1, <3>2
  <2>4. CASE Deletion
    BY <2>1, <2>4 DEF Deletion, SetDeleteMarker, DestroyAgent, ClearAgent,
                      ClearDeleteMarker, Teardown
  <2>5. CASE LockExpires
    BY <2>1, <2>5 DEF LockExpires
  <2>6. CASE TimePasses
    BY <2>1, <2>6 DEF TimePasses, Fetching, At
  <2>7. CASE UNCHANGED vars
    BY <2>1, <2>7 DEF vars
  <2> QED BY <1>1, <2>3, <2>4, <2>5, <2>6, <2>7 DEF Next, Acts
<1>2. DownloadTypeOK /\ [Next]_vars =>
         [agent = "gone" =>
             \A w \in Workers : At(w, "idle") => pass'[w].pc = "idle"]_vars
  BY <1>1
<1> QED BY <1>2, DownloadTypeCorrect, PTL DEF Spec, GhostIsNotResumed

----------------------------------------------------------------------------
(* A download that is entitled to its heartbeat, of one worker u that      *)
(* uploads against one s that sweeps.  While the agent is alive:           *)

Out(s) == pass[s].pc \in {"idle", "lock", "exit"} /\ beat[s].pc = "off"

FreshBeat(u) ==
    \/ beat[u].pc = "sleep" /\ row.age + beat[u].due <= Interval
    \/ beat[u].pc = "store" /\ row.age <= Interval

(* a heartbeat runs from the claim on (or the row's "processing"), and     *)
(* never writes but a status in flight,                                    *)
BeatsInFlight ==
    \A w \in Workers :
       /\ beat[w].pc = "store" => beat[w].status \in InFlight
       /\ pass[w].pc \in {"idle", "start", "process"} => beat[w].pc = "off"

(* until the uploader has claimed the row, no sweep is past its claim: the *)
(* row is too young for one,                                               *)
NotYetClaimed(u, s) ==
    /\ At(u, "start") => row.status = "absent"
    /\ At(u, "process") => row.status = "uploaded" /\ row.age = 0
    /\ At(u, "lock") =>
          row.status \in InFlight /\ FreshBeat(u) /\ beat[u].left = Unbounded
    /\ row.status = "absent" \/ At(u, "process") \/ At(u, "lock") => Out(s)

SweepWaitsItsTurn(s) ==
    /\ ~At(s, "start") /\ ~At(s, "process")
    /\ At(s, "lock") => pass[s].gate >= BootStale /\ beat[s].pc = "off"

(* and as long as the claim is the uploader's, no sweep is past one, and   *)
(* while its download is entitled to a heartbeat the row has one.          *)
EntitledIsFresh(u, s) ==
    row.owner = u =>
       /\ Out(s)
       /\ At(u, "fetch") => row.status \in InFlight
       /\ At(u, "fetch") /\ pass[u].elapsed < MaxBeat =>
             FreshBeat(u) /\ beat[u].left >= MaxBeat - pass[u].elapsed

DownloadEntitled(u, s) ==
    agent = "alive" =>
       /\ BeatsInFlight
       /\ NotYetClaimed(u, s)
       /\ SweepWaitsItsTurn(s)
       /\ EntitledIsFresh(u, s)

LEMMA AliveWrites ==
    ASSUME DownloadTypeOK, agent = "alive", NEW status, Written(status)
    PROVE  row'.status = status /\ row'.owner = row.owner /\ row'.age = 0
<1>1. ~Canceled /\ row \in Rows
  BY TypeOKIs DEF Canceled, HasMasterKey, HasDeleteMarker
<1> QED BY <1>1 DEF Written, Rows

LEMMA StaysAlive ==
    ASSUME DownloadTypeOK, [Next]_vars, agent' = "alive"
    PROVE  agent = "alive"
<1>1. ASSUME NEW w \in Workers, Acts(w)
      PROVE  agent' = agent
  BY <1>1
     DEF Acts, Upload, Sweep, SweepError, Start, Step, Waits, Fetch, Tick, Crash,
         BeatLook, BeatStore, IngestionStart, IngestionProcessing, Recover,
         Parse, UrlDownloading, Chunk, LaterPhases, Exit, PhaseFails, Claim,
         LockTimeout, UrlDownloadCompleted, FetchFails
<1>2. CASE Deletion
  BY <1>2 DEF Deletion, SetDeleteMarker, DestroyAgent, ClearAgent,
              ClearDeleteMarker, Teardown
<1>3. CASE LockExpires \/ TimePasses \/ UNCHANGED vars
  BY <1>3 DEF LockExpires, TimePasses, vars
<1> QED BY <1>1, <1>2, <1>3 DEF Next, Acts

(* A sweep that is past its claim leaves the row to itself; one that is    *)
(* not may claim only a row that has aged, which no entitled one has.      *)
LEMMA EntitledSweeps ==
    ASSUME DownloadTypeOK, NEW u, NEW s, Uploaders = {u}, Sweepers = {s},
           DownloadEntitled(u, s), agent = "alive", Acts(s)
    PROVE  DownloadEntitled(u, s)'
<1>1. /\ u # s /\ Workers = {u, s} /\ s \notin Uploaders
      /\ Interval \in Nat /\ BootStale \in Nat /\ Interval < BootStale
      /\ DownloadStale \in Nat /\ BootStale <= DownloadStale
  BY DownloadsAssumption DEF Workers
<1>2. /\ row \in Rows /\ pass \in [Workers -> Passes]
      /\ beat \in [Workers -> Beats]
  BY TypeOKIs
<1>3. pass'[u] = pass[u] /\ beat'[u] = beat[u]
  BY <1>1, OthersUntouched
<1>4. /\ BeatsInFlight /\ NotYetClaimed(u, s) /\ SweepWaitsItsTurn(s)
      /\ EntitledIsFresh(u, s)
  BY DEF DownloadEntitled
<1> USE DEF DownloadEntitled, BeatsInFlight, NotYetClaimed, SweepWaitsItsTurn,
            EntitledIsFresh, Out, FreshBeat, At
<1>5. CASE Sweep(s) \/ SweepError(s)
  <2>1. PICK gate : /\ gate \in {BootStale, DownloadStale}
                    /\ pass'[s].pc = "lock" /\ pass'[s].gate = gate
    BY <1>1, <1>2, <1>5 DEF Sweep, SweepError, Start, Gate, IdlePass
  <2>2. row' = row /\ beat' = beat /\ pass[s].pc = "idle"
    BY <1>5 DEF Sweep, SweepError, Start
  <2> QED BY <1>1, <1>2, <1>3, <1>4, <2>1, <2>2
<1>6. ASSUME ~Out(s), row'.status # "absent", row'.owner = row.owner,
             agent' = agent,
             pass'[s].pc \notin {"start", "process", "lock"},
             pass'[s].pc = "idle" => beat'[s].pc = "off",
             beat'[s].pc = "store" => beat'[s].status \in InFlight
      PROVE  DownloadEntitled(u, s)'
  BY <1>1, <1>2, <1>3, <1>4, <1>6
<1>7. ASSUME Out(s)', UNCHANGED << row, agent >>,
             pass'[s].pc = "lock" => pass'[s] = pass[s]
      PROVE  DownloadEntitled(u, s)'
  BY <1>1, <1>2, <1>3, <1>4, <1>7
<1>8. CASE Tick(s)
  <2>1. /\ pass' = pass /\ agent' = agent
        /\ beat[s].pc # "off" /\ pass[s].pc \notin {"idle", "lock"}
    BY <1>1, <1>4, <1>8 DEF Tick, BeatLook, BeatStore
  <2>2. CASE BeatLook(s)
    <3>1. /\ row' = row
          /\ beat'[s].pc = "store" => beat'[s].status \in InFlight
      BY <1>1, <1>2, <2>2
         DEF BeatLook, KeptFresh, NoBeat, Canceled, HasMasterKey, HasDeleteMarker
    <3> QED BY <1>1, <1>4, <1>6, <2>1, <3>1
  <2>3. CASE BeatStore(s)
    <3>1. /\ row'.owner = row.owner
          /\ row'.status \in InFlight /\ row'.status # "absent"
      BY <1>1, <1>2, <1>4, <2>3 DEF BeatStore, Rows, InFlight, Downloading
    <3>2. beat'[s].pc \in {"off", "sleep"}
      BY <1>1, <1>2, <2>3 DEF BeatStore, NoBeat, Beats
    <3> QED BY <1>1, <1>4, <1>6, <2>1, <3>1, <3>2
  <2> QED BY <1>8, <2>2, <2>3 DEF Tick
<1>9. CASE Waits(s)
  <2>1. CASE LockTimeout(s) \/ (Claim(s) /\ ~Claimable(s))
    <3>1. /\ pass[s].pc = "lock" /\ pass'[s].pc = "exit"
          /\ beat' = beat /\ row' = row /\ agent' = agent
      <4>1. /\ pass[s].pc = "lock" /\ Goto(s, "exit")
            /\ UNCHANGED << beat, row, agent >>
        BY <2>1 DEF LockTimeout, Claim
      <4> QED BY <1>1, <1>2, <4>1 DEF Goto
    <3> QED BY <1>1, <1>4, <1>7, <3>1
  <2>2. CASE Claim(s) /\ Claimable(s)
    <3>1. /\ pass[s].pc = "lock" /\ pass'[s].pc = "recover"
          /\ beat'[s].pc = "sleep" /\ agent' = agent
          /\ row'.status = "processing" /\ row'.owner = s
          /\ row.status # "absent" /\ row.age >= pass[s].gate
      BY <1>1, <1>2, <2>2
         DEF Claim, Claimable, HeartbeatStarts, Beating, IdlePass, InFlight,
             Downloading
    <3>2. /\ pass[s].gate \in Nat /\ row.age \in Nat
          /\ beat[u].pc = "sleep" => beat[u].due \in Nat
      BY <1>1, <1>2 DEF Passes, Rows, Beats
    <3>3. pass[u].pc \notin {"start", "process", "lock"}
      BY <1>1, <1>4, <3>1, <3>2
    <3> QED BY <1>1, <1>2, <1>3, <1>4, <3>1, <3>3
  <2> QED BY <1>9, <2>1, <2>2 DEF Waits
<1>10. CASE Crash(s) \/ Exit(s)
  <2>1. /\ pass'[s].pc = "idle" /\ beat'[s].pc = "off"
        /\ row' = row /\ agent' = agent
    BY <1>1, <1>2, <1>10 DEF Crash, Exit, IdlePass, NoBeat
  <2> QED BY <1>7, <2>1
<1>11. CASE (Step(s) /\ ~Exit(s)) \/ Fetch(s)
  <2>1. /\ agent' = agent
        /\ pass'[s].pc \notin {"start", "process", "lock", "idle"}
        /\ ~Out(s)
    <3>1. CASE Step(s) /\ ~Exit(s)
      <4>1. /\ agent' = agent /\ pass[s].pc \notin {"idle", "lock", "exit"}
            /\ \/ \E place \in Places \ {"start", "process", "lock", "idle"} :
                     Goto(s, place)
               \/ pass' = [pass EXCEPT ![s].pc = "exit", ![s].elapsed = 0]
        BY <1>1, <1>4, <3>1
           DEF Step, IngestionStart, IngestionProcessing, Recover, Parse,
               UrlDownloading, Chunk, LaterPhases, PhaseFails, Places
      <4> QED BY <1>1, <1>2, <4>1 DEF Goto, Passes
    <3>2. CASE Fetch(s)
      BY <1>1, <1>2, <3>2
         DEF Fetch, FetchFails, UrlDownloadCompleted, PhaseFails, Passes
    <3> QED BY <1>11, <3>1, <3>2
  <2>2. \/ row' = row
        \/ \E status \in Statuses \ {"absent"} : Written(status)
    BY <1>1, <1>11
       DEF Step, Fetch, IngestionStart, IngestionProcessing, Recover, Parse,
           UrlDownloading, Chunk, LaterPhases, PhaseFails, FetchFails,
           UrlDownloadCompleted, Completed, Statuses, InFlight, Downloading
  <2>3. row'.owner = row.owner /\ row'.status # "absent"
    BY <1>4, <2>1, <2>2, AliveWrites
  <2>4. beat' = beat \/ \E life : HeartbeatStarts(s, life)
    BY <1>1, <1>4, <1>11
       DEF Step, Fetch, IngestionStart, IngestionProcessing, Recover, Parse,
           UrlDownloading, Chunk, LaterPhases, PhaseFails, FetchFails,
           UrlDownloadCompleted
  <2>5. beat'[s].pc = "store" => beat'[s].status \in InFlight
    BY <1>1, <1>2, <1>4, <2>4 DEF HeartbeatStarts, Beating
  <2> QED BY <1>6, <2>1, <2>3, <2>5
<1> QED BY <1>1, <1>5, <1>8, <1>9, <1>10, <1>11 DEF Acts, Upload

(* The uploader's steps: it writes the row young whenever it writes it, a  *)
(* heartbeat starts with its whole interval ahead, and the one tick that   *)
(* may end it does not come before its life is used up.                    *)
LEMMA EntitledUploads ==
    ASSUME DownloadTypeOK, NEW u, NEW s, Uploaders = {u}, Sweepers = {s},
           DownloadEntitled(u, s), agent = "alive", Acts(u)
    PROVE  DownloadEntitled(u, s)'
<1>1. /\ u # s /\ Workers = {u, s} /\ u \notin Sweepers
      /\ Interval \in Nat /\ MaxBeat \in Nat \ {0}
  BY DownloadsAssumption DEF Workers
<1>2. /\ row \in Rows /\ pass \in [Workers -> Passes]
      /\ beat \in [Workers -> Beats]
  BY TypeOKIs
<1>3. pass'[s] = pass[s] /\ beat'[s] = beat[s]
  BY <1>1, OthersUntouched
<1>4. /\ BeatsInFlight /\ NotYetClaimed(u, s) /\ SweepWaitsItsTurn(s)
      /\ EntitledIsFresh(u, s)
  BY DEF DownloadEntitled
<1> USE DEF DownloadEntitled, BeatsInFlight, NotYetClaimed, SweepWaitsItsTurn,
            EntitledIsFresh, Out, FreshBeat, At
<1>5. ASSUME row'.status = "absent" => row.status = "absent",
             row'.owner = row.owner, agent' = agent,
             pass'[u].pc \notin {"start", "process", "lock", "fetch"},
             pass'[u].pc = "idle" => beat'[u].pc = "off",
             beat'[u].pc = "store" => beat'[u].status \in InFlight
      PROVE  DownloadEntitled(u, s)'
  BY <1>1, <1>2, <1>3, <1>4, <1>5
<1>6. CASE Upload(u)
  <2>1. /\ pass[u].pc = "idle" /\ pass'[u].pc = "start"
        /\ row.status = "absent" /\ UNCHANGED << row, beat, agent >>
    BY <1>1, <1>2, <1>6 DEF Upload, Start, IdlePass
  <2> QED BY <1>1, <1>2, <1>3, <1>4, <2>1
<1>7. CASE BeatLook(u)
  <2>1. /\ UNCHANGED << row, pass, agent >>
        /\ beat[u].pc = "sleep" /\ beat[u].due = 0
    BY <1>7 DEF BeatLook
  <2>2. CASE beat[u].left # 0 /\ row.status \in InFlight
    <3>1. /\ beat'[u].pc = "store" /\ beat'[u].status = row.status
          /\ beat'[u].left = beat[u].left
      BY <1>1, <1>2, <1>7, <2>2
         DEF BeatLook, KeptFresh, Canceled, HasMasterKey, HasDeleteMarker, Beats
    <3>2. row.age \in Nat
      BY <1>2 DEF Rows
    <3> QED BY <1>1, <1>2, <1>3, <1>4, <2>1, <2>2, <3>1, <3>2
  <2>3. CASE beat[u].left = 0 \/ row.status \notin InFlight
    <3>1. beat'[u].pc = "off"
      BY <1>1, <1>2, <1>7, <2>3 DEF BeatLook, KeptFresh, NoBeat
    <3>2. pass[u].pc # "lock"
      BY <1>1, <1>4, <2>3 DEF Unbounded
    <3>3. ~(row.owner = u /\ pass[u].pc = "fetch" /\ pass[u].elapsed < MaxBeat)
      <4>1. pass[u].elapsed \in Nat
        BY <1>1, <1>2 DEF Passes
      <4> QED BY <1>1, <1>4, <2>3, <4>1
    <3> QED BY <1>1, <1>2, <1>3, <1>4, <2>1, <3>1, <3>2, <3>3
  <2> QED BY <2>2, <2>3
<1>8. CASE BeatStore(u)
  <2>1. /\ UNCHANGED << pass, agent >> /\ beat[u].pc = "store"
        /\ row'.status = beat[u].status /\ row'.owner = row.owner
        /\ row'.age = 0
        /\ row'.status \in InFlight /\ row'.status \notin {"absent", "error"}
    BY <1>1, <1>2, <1>4, <1>8 DEF BeatStore, Rows, InFlight, Downloading
  <2>2. /\ beat'[u].pc = "sleep" /\ beat'[u].due = Interval
        /\ beat'[u].left = beat[u].left
    BY <1>1, <1>2, <1>8, <2>1 DEF BeatStore, Beats
  <2>3. pass[u].pc \notin {"idle", "start", "process"}
    BY <1>1, <1>4, <2>1
  <2> QED BY <1>1, <1>2, <1>3, <1>4, <2>1, <2>2, <2>3
<1>9. CASE IngestionStart(u) \/ IngestionProcessing(u)
  <2>1. CASE IngestionStart(u)
    <3>1. /\ pass[u].pc = "start" /\ pass'[u].pc = "process"
          /\ row'.status = "uploaded" /\ row'.age = 0 /\ row'.owner = row.owner
          /\ UNCHANGED << beat, agent >>
      BY <1>1, <1>2, <2>1, AliveWrites DEF IngestionStart, Goto, Passes
    <3> QED BY <1>1, <1>2, <1>3, <1>4, <3>1
  <2>2. CASE IngestionProcessing(u)
    <3>1. /\ pass[u].pc = "process" /\ pass'[u].pc = "lock"
          /\ row'.status = "processing" /\ row'.age = 0
          /\ row'.owner = row.owner /\ agent' = agent
          /\ beat'[u] = Beating(Unbounded)
      BY <1>1, <1>2, <2>2, AliveWrites
         DEF IngestionProcessing, HeartbeatStarts, Goto, Passes
    <3> QED BY <1>1, <1>2, <1>3, <1>4, <3>1 DEF Beating, InFlight, Downloading
  <2> QED BY <1>9, <2>1, <2>2
<1>10. CASE Waits(u)
  <2>1. CASE LockTimeout(u) \/ (Claim(u) /\ ~Claimable(u))
    <3>1. /\ pass[u].pc = "lock" /\ Goto(u, "exit")
          /\ UNCHANGED << beat, row, agent >>
      BY <2>1 DEF LockTimeout, Claim
    <3>2. pass'[u].pc = "exit"
      BY <1>1, <1>2, <3>1 DEF Goto, Passes
    <3> QED BY <1>1, <1>4, <1>5, <3>1, <3>2
  <2>2. CASE Claim(u) /\ Claimable(u)
    <3>1. /\ pass[u].pc = "lock" /\ pass'[u].pc = "recover"
          /\ beat'[u].pc = "sleep" /\ agent' = agent
          /\ row'.status = "processing" /\ row'.owner = u
      BY <1>1, <1>2, <2>2 DEF Claim, HeartbeatStarts, Beating, IdlePass
    <3> QED BY <1>1, <1>2, <1>3, <1>4, <3>1
  <2> QED BY <1>10, <2>1, <2>2 DEF Waits
<1>11. CASE Crash(u) \/ Exit(u)
  <2>1. /\ pass'[u].pc = "idle" /\ beat'[u].pc = "off"
        /\ row' = row /\ agent' = agent
    BY <1>1, <1>2, <1>11 DEF Crash, Exit, IdlePass, NoBeat
  <2> QED BY <1>5, <2>1
<1>12. CASE UrlDownloading(u)
  <2>1. /\ pass'[u].pc = "fetch" /\ pass'[u].elapsed = pass[u].elapsed
        /\ row'.status = "downloading" /\ row'.age = 0
        /\ row'.owner = row.owner /\ agent' = agent
    BY <1>1, <1>2, <1>12, AliveWrites DEF UrlDownloading, Goto, Passes
  <2>2. beat'[u] = Beating(MaxBeat)
    BY <1>1, <1>2, <1>12
       DEF UrlDownloading, HeartbeatStarts, DownloadLife, Canceled,
           HasMasterKey, HasDeleteMarker
  <2>3. pass[u].elapsed \in 0 .. MaxBeat
    BY <1>1, <1>2 DEF Passes
  <2> QED BY <1>1, <1>2, <1>3, <1>4, <2>1, <2>2, <2>3
          DEF Beating, InFlight, Downloading
<1>13. CASE \/ Recover(u) \/ Parse(u) \/ Chunk(u) \/ LaterPhases(u)
            \/ PhaseFails(u, "chunk") \/ PhaseFails(u, "later") \/ Fetch(u)
  <2>1. /\ agent' = agent
        /\ pass[u].pc \notin {"idle", "start", "process"}
        /\ \/ \E place \in {"parse", "exit", "chunk", "downloading", "later"} :
                 Goto(u, place)
           \/ \E place \in {"exit", "chunk"} :
                 pass' = [pass EXCEPT ![u].pc = place, ![u].elapsed = 0]
    BY <1>13
       DEF Recover, Parse, Chunk, LaterPhases, PhaseFails, Fetch, FetchFails,
           UrlDownloadCompleted
  <2>2. pass'[u].pc \notin {"start", "process", "lock", "fetch", "idle"}
    BY <1>1, <1>2, <2>1 DEF Goto, Passes
  <2>3. \/ row' = row
        \/ \E status \in Statuses \ {"absent"} : Written(status)
    BY <1>13
       DEF Recover, Parse, Chunk, LaterPhases, PhaseFails, Fetch, FetchFails,
           UrlDownloadCompleted, Completed, Statuses, InFlight, Downloading
  <2>4. /\ row'.owner = row.owner
        /\ row'.status = "absent" => row.status = "absent"
    BY <2>3, AliveWrites
  <2>5. beat' = beat \/ HeartbeatStarts(u, Unbounded)
    BY <1>13
       DEF Recover, Parse, Chunk, LaterPhases, PhaseFails, Fetch, FetchFails,
           UrlDownloadCompleted
  <2>6. beat'[u].pc = "store" => beat'[u].status \in InFlight
    BY <1>1, <1>2, <1>4, <2>5 DEF HeartbeatStarts, Beating
  <2> QED BY <1>5, <2>1, <2>2, <2>4, <2>6
<1> QED BY <1>1, <1>6, <1>7, <1>8, <1>9, <1>10, <1>11, <1>12, <1>13
        DEF Acts, Sweep, SweepError, Step, Tick

LEMMA EntitledAges ==
    ASSUME DownloadTypeOK, NEW u, NEW s, Uploaders = {u}, Sweepers = {s},
           DownloadEntitled(u, s), agent = "alive", TimePasses
    PROVE  DownloadEntitled(u, s)'
<1>1. /\ u # s /\ Workers = {u, s}
      /\ Interval \in Nat /\ MaxBeat \in Nat \ {0} /\ DownloadStale \in Nat
  BY DownloadsAssumption DEF Workers
<1>2. /\ row \in Rows /\ pass \in [Workers -> Passes]
      /\ beat \in [Workers -> Beats]
  BY TypeOKIs
<1> USE DEF DownloadEntitled, BeatsInFlight, NotYetClaimed, SweepWaitsItsTurn,
            EntitledIsFresh, Out, FreshBeat, At
<1>3. /\ agent' = agent /\ pass[u].pc # "process"
      /\ beat[u].pc # "store" /\ beat[s].pc # "store"
      /\ beat[u].pc = "sleep" => beat[u].due > 0
  BY <1>1 DEF TimePasses, Long
<1>4. ASSUME NEW w \in Workers
      PROVE  /\ pass'[w].pc = pass[w].pc /\ pass'[w].gate = pass[w].gate
             /\ beat'[w].pc = beat[w].pc /\ beat'[w].status = beat[w].status
  <2>1. pass'[w].pc = pass[w].pc /\ pass'[w].gate = pass[w].gate
    BY <1>2, <1>4 DEF TimePasses, Passes
  <2>2. beat'[w].pc = beat[w].pc /\ beat'[w].status = beat[w].status
    <3>1. beat'[w] = IF beat[w].pc = "off" THEN beat[w]
                     ELSE [beat[w] EXCEPT !.due = @ - 1,
                              !.left = IF @ \in {0, Unbounded} THEN @ ELSE @ - 1]
      BY <1>4 DEF TimePasses
    <3> QED BY <1>2, <1>4, <3>1 DEF Beats
  <2> QED BY <2>1, <2>2
<1>5. row'.status = row.status /\ row'.owner = row.owner
  BY <1>2 DEF TimePasses, Rows
<1>6. row'.age \in Nat /\ row'.age <= row.age + 1
  <2>1. Older(row.age, DownloadStale) \in {row.age, row.age + 1}
    BY DEF Older
  <2> QED BY <1>1, <1>2, <2>1 DEF TimePasses, Rows
<1>7. FreshBeat(u) => FreshBeat(u)'
  <2>1. row.age \in Nat /\ beat[u].due \in Nat
    BY <1>1, <1>2 DEF Rows, Beats
  <2>2. beat[u].pc = "sleep" => beat'[u].due = beat[u].due - 1
    BY <1>1, <1>2 DEF TimePasses, Beats
  <2> QED BY <1>1, <1>3, <1>4, <1>6, <2>1, <2>2
<1>8. beat[u].pc = "sleep" /\ beat[u].left = Unbounded
         => beat'[u].left = Unbounded
  BY <1>1, <1>2 DEF TimePasses, Beats
<1>9. ASSUME pass[u].pc = "fetch", pass'[u].elapsed < MaxBeat,
             beat[u].pc = "sleep",
             pass[u].elapsed < MaxBeat
                => beat[u].left >= MaxBeat - pass[u].elapsed
      PROVE  /\ pass[u].elapsed < MaxBeat
             /\ beat'[u].left >= MaxBeat - pass'[u].elapsed
  <2>1. pass[u].elapsed \in 0 .. MaxBeat /\ beat[u].left \in 0 .. Unbounded
    BY <1>1, <1>2 DEF Passes, Beats
  <2>2. pass'[u].elapsed = Older(pass[u].elapsed, MaxBeat)
    BY <1>1, <1>2, <1>9 DEF TimePasses, Fetching, Passes
  <2>3. /\ pass[u].elapsed < MaxBeat
        /\ pass'[u].elapsed = pass[u].elapsed + 1
    BY <1>1, <1>9, <2>1, <2>2 DEF Older
  <2>4. beat'[u].left \in {beat[u].left, beat[u].left - 1}
    BY <1>1, <1>2, <1>9 DEF TimePasses, Beats
  <2> QED BY <1>1, <1>9, <2>1, <2>3, <2>4
<1>10. pass[u].pc = "fetch" /\ ~(pass[u].elapsed < MaxBeat)
         => ~(pass'[u].elapsed < MaxBeat)
  <2>1. pass[u].elapsed \in 0 .. MaxBeat
    BY <1>1, <1>2 DEF Passes
  <2>2. pass[u].pc = "fetch"
           => pass'[u].elapsed = Older(pass[u].elapsed, MaxBeat)
    BY <1>1, <1>2 DEF TimePasses, Fetching, Passes
  <2> QED BY <1>1, <2>1, <2>2 DEF Older
<1>11. BeatsInFlight' /\ SweepWaitsItsTurn(s)'
  BY <1>1, <1>3, <1>4
<1>12. NotYetClaimed(u, s)'
  BY <1>1, <1>3, <1>4, <1>5, <1>7, <1>8
<1>13. EntitledIsFresh(u, s)'
  BY <1>1, <1>3, <1>4, <1>5, <1>7, <1>9, <1>10
<1> QED BY <1>11, <1>12, <1>13

LEMMA EntitledPreserved ==
    ASSUME DownloadTypeOK, NEW u, NEW s, Uploaders = {u}, Sweepers = {s},
           DownloadEntitled(u, s), [Next]_vars
    PROVE  DownloadEntitled(u, s)'
<1>1. SUFFICES ASSUME agent' = "alive" PROVE DownloadEntitled(u, s)'
  BY DEF DownloadEntitled
<1>2. agent = "alive" /\ Workers = {u, s}
  BY <1>1, StaysAlive DEF Workers
<1>3. ASSUME NEW w \in Workers, Acts(w)
      PROVE  DownloadEntitled(u, s)'
  BY <1>2, <1>3, EntitledUploads, EntitledSweeps
<1>4. CASE Deletion
  BY <1>1, <1>2, <1>4
     DEF Deletion, SetDeleteMarker, DestroyAgent, ClearAgent, ClearDeleteMarker,
         Teardown
<1>5. CASE LockExpires \/ UNCHANGED vars
  BY <1>5 DEF LockExpires, vars, DownloadEntitled, BeatsInFlight, NotYetClaimed,
              SweepWaitsItsTurn, EntitledIsFresh, Out, FreshBeat, At
<1>6. CASE TimePasses
  BY <1>2, <1>6, EntitledAges
<1> QED BY <1>3, <1>4, <1>5, <1>6 DEF Next, Acts

(* Only a claim makes a worker the owner of the row.                       *)
LEMMA OnlyClaimTakes ==
    ASSUME DownloadTypeOK, [Next]_vars, NEW s \in Workers,
           row'.owner = s, row.owner # s
    PROVE  Claim(s) /\ Claimable(s)
<1>1. row \in Rows /\ NoWorker # s
  BY TypeOKIs, DownloadsAssumption
<1>2. ASSUME NEW status, Written(status)
      PROVE  row'.owner = row.owner
  BY <1>1, <1>2 DEF Written, Rows
<1>3. ASSUME NEW w \in Workers, Acts(w), ~(Claim(w) /\ Claimable(w))
      PROVE  row'.owner = row.owner
  <2>1. CASE Claim(w)
    BY <1>3, <2>1 DEF Claim
  <2>2. CASE BeatStore(w)
    BY <1>1, <2>2 DEF BeatStore, Rows
  <2>3. CASE ~Claim(w) /\ ~BeatStore(w)
    <3>1. row' = row \/ \E status : Written(status)
      BY <1>3, <2>3
         DEF Acts, Upload, Sweep, SweepError, Start, Step, Waits, Fetch, Tick,
             Crash, BeatLook, IngestionStart, IngestionProcessing, Recover,
             Parse, UrlDownloading, Chunk, LaterPhases, Exit, PhaseFails,
             LockTimeout, UrlDownloadCompleted, FetchFails
    <3> QED BY <1>2, <3>1
  <2> QED BY <2>1, <2>2, <2>3
<1>4. CASE Deletion
  BY <1>1, <1>4 DEF Deletion, SetDeleteMarker, DestroyAgent, ClearAgent,
                    ClearDeleteMarker, Teardown, NoRow
<1>5. CASE LockExpires \/ UNCHANGED vars
  BY <1>5 DEF LockExpires, vars
<1>6. CASE TimePasses
  BY <1>1, <1>6 DEF TimePasses, Rows
<1>7. PICK w \in Workers : Claim(w) /\ Claimable(w)
  BY <1>3, <1>4, <1>5, <1>6 DEF Next, Acts
<1> QED BY <1>7 DEF Claim

(* _download_heartbeat_max_seconds: of one worker that uploads and one     *)
(* that sweeps, however long intervals, lives and ages are chosen (a       *)
(* heartbeat being due before a row is abandoned), the sweep never claims  *)
(* the source from a download that has not outlasted its heartbeat.        *)
THEOREM EntitledDownloadKept ==
    ASSUME NEW u, NEW s, Uploaders = {u}, Sweepers = {s}
    PROVE  Spec => LiveDownloadIsKept
<1>1. Init => DownloadEntitled(u, s)
  BY DEF Init, Workers, IdlePass, NoBeat, NoRow, DownloadEntitled,
         BeatsInFlight, NotYetClaimed, SweepWaitsItsTurn, EntitledIsFresh, Out,
         FreshBeat, At
<1>2. DownloadTypeOK /\ DownloadEntitled(u, s) /\ [Next]_vars
         => DownloadEntitled(u, s)'
  BY EntitledPreserved
<1>3. ASSUME DownloadTypeOK, DownloadEntitled(u, s), [Next]_vars,
             NEW w \in Workers, NEW v \in Workers, w # v, v \in Sweepers,
             row'.owner = v, row.owner = w, row.status \in InFlight,
             Fetching(w), pass[w].elapsed < MaxBeat
      PROVE  FALSE
  <2>1. /\ v = s /\ w = u /\ u # s /\ Workers = {u, s}
        /\ s \notin Uploaders /\ NoWorker \notin Workers
        /\ Interval \in Nat /\ BootStale \in Nat /\ Interval < BootStale
        /\ row.owner = u /\ row'.owner # u
    BY <1>3, DownloadsAssumption DEF Workers
  <2>2. row \in Rows /\ beat \in [Workers -> Beats]
    BY <1>3, TypeOKIs
  <2>3. Claim(s) /\ Claimable(s)
    BY <1>3, <2>1, <2>2, OnlyClaimTakes
  <2>4. agent = "alive" /\ pass[s].pc = "lock" /\ row.age >= pass[s].gate
    BY <1>3, <2>3, TypeOKIs
       DEF Claim, Claimable, Canceled, HasMasterKey, HasDeleteMarker, At
  <2>5. pass[s].gate >= BootStale /\ FreshBeat(u)
    BY <1>3, <2>1, <2>4
       DEF DownloadEntitled, SweepWaitsItsTurn, EntitledIsFresh, At, Fetching
  <2>6. row.age \in Nat /\ beat[u].due \in Nat /\ pass[s].gate \in Nat
    BY <1>3, <2>1, <2>2, TypeOKIs, DownloadsAssumption DEF Rows, Beats, Passes
  <2> QED BY <2>1, <2>4, <2>5, <2>6 DEF FreshBeat
<1>4. DownloadTypeOK /\ DownloadEntitled(u, s) /\ [Next]_vars =>
         [\A w, v \in Workers :
             w # v /\ v \in Sweepers /\ row'.owner = v
                /\ row.owner = w /\ row.status \in InFlight
             => ~(Fetching(w) /\ pass[w].elapsed < MaxBeat)]_vars
  BY <1>3
<1> QED BY <1>1, <1>2, <1>4, DownloadTypeCorrect, PTL
        DEF Spec, LiveDownloadIsKept
=============================================================================
