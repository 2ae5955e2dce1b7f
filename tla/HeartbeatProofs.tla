-------------------------- MODULE HeartbeatProofs --------------------------
(***************************************************************************)
(* Theorems about Heartbeat: its types, and that the row of a lone pass is *)
(* kept fresh as long as no phase is skipped.                              *)
(***************************************************************************)
EXTENDS Heartbeat, LifecycleProofs

----------------------------------------------------------------------------
(* Types.  A tick writes a document it has read with a status it has read. *)

LEMMA BeatValues ==
    /\ NoBeat \in Beats /\ Sleeping \in Beats
    /\ NoBeat.pc = "off" /\ Sleeping.pc = "sleep"
<1>1. NoBeat \in Beats /\ NoBeat.pc = "off"
  BY NoTypes DEF NoBeat, Beats, Statuses
<1>2. \A b \in Beats : [b EXCEPT !.pc = "sleep"] \in Beats
                          /\ [b EXCEPT !.pc = "sleep"].pc = "sleep"
  BY DEF Beats
<1> QED BY <1>1, <1>2 DEF Sleeping

LEMMA TickTyped ==
    ASSUME TypeOK, BeatTypeOK, NEW proc \in Procs,
           BeatLook(proc) \/ BeatRead(proc) \/ BeatStore(proc)
    PROVE  TypeOK' /\ BeatTypeOK'
<1>0. row \in Rows /\ row.status \in Statuses /\ beat[proc] \in Beats
  BY DEF TypeOK, SharedTypeOK, Rows, BeatTypeOK
<1>1. CASE BeatLook(proc)
  <2>1. [beat[proc] EXCEPT !.pc = "read", !.status = row.status] \in Beats
    BY <1>0 DEF Beats
  <2>2. BeatTypeOK'
    BY <1>1, <2>1, BeatValues DEF BeatLook, BeatTypeOK
  <2> QED BY <1>1, <2>2
          DEF BeatLook, vars, TypeOK, SharedTypeOK, PassTypeOK, ReqTypeOK
<1>2. CASE BeatRead(proc)
  <2>1. [beat[proc] EXCEPT !.pc = "store", !.doc = row] \in Beats
    BY <1>0 DEF Beats
  <2>2. BeatTypeOK'
    BY <1>2, <2>1 DEF BeatRead, BeatTypeOK
  <2> QED BY <1>2, <2>2
          DEF BeatRead, vars, TypeOK, SharedTypeOK, PassTypeOK, ReqTypeOK
<1>3. CASE BeatStore(proc)
  <2>1. beat[proc].doc \in Rows /\ beat[proc].status \in Statuses
    BY <1>0 DEF Beats
  <2>2. row' \in Rows
    BY <1>3, <2>1, SetStatusType DEF BeatStore
  <2>3. BeatTypeOK'
    BY <1>3, BeatValues DEF BeatStore, BeatTypeOK
  <2> QED BY <1>3, <2>2, <2>3
          DEF BeatStore, TypeOK, SharedTypeOK, PassTypeOK, ReqTypeOK
<1> QED BY <1>1, <1>2, <1>3

(* What becomes of the heartbeat of a process in a step of Ingestion.      *)
LEMMA BeatsFollowed ==
    ASSUME BeatTypeOK, BeatsFollow, NEW proc \in Procs
    PROVE  /\ beat'[proc] \in {NoBeat, Sleeping, beat[proc]}
           /\ beat'[proc] = NoBeat /\ beat'[proc] # beat[proc] =>
                 \/ boot'[proc] # boot[proc]
                 \/ \E w \in Workers : ProcOf[w] = proc /\ StopsBeat(w)
           /\ beat'[proc].pc # "off" /\ beat'[proc] # beat[proc] =>
                 \E w \in Workers : ProcOf[w] = proc
           /\ boot'[proc] = boot[proc]
                 /\ (\E w \in Workers : ProcOf[w] = proc /\ StartsBeat(w))
              => beat'[proc] = Sleeping
<1> DEFINE tasks == {w \in Workers : ProcOf[w] = proc}
           starts == \E w \in tasks : StartsBeat(w)
           stops == \E w \in tasks : StopsBeat(w)
<1>1. beat'[proc] =
        CASE boot'[proc] # boot[proc] -> NoBeat
          [] boot'[proc] = boot[proc] /\ starts -> Sleeping
          [] boot'[proc] = boot[proc] /\ ~starts /\ stops -> NoBeat
          [] OTHER -> beat[proc]
  BY DEF BeatsFollow
<1>2. /\ starts <=> \E w \in Workers : ProcOf[w] = proc /\ StartsBeat(w)
      /\ stops <=> \E w \in Workers : ProcOf[w] = proc /\ StopsBeat(w)
  OBVIOUS
<1> HIDE DEF starts, stops
<1>3. CASE boot'[proc] # boot[proc]
  <2>1. beat'[proc] = NoBeat
    BY <1>1, <1>3
  <2> QED BY <1>3, <2>1, BeatValues
<1>4. CASE boot'[proc] = boot[proc] /\ starts
  <2>1. beat'[proc] = Sleeping
    BY <1>1, <1>4
  <2>2. Sleeping # NoBeat
    BY BeatValues
  <2> QED BY <1>2, <1>4, <2>1, <2>2
<1>5. CASE boot'[proc] = boot[proc] /\ ~starts /\ stops
  <2>1. beat'[proc] = NoBeat
    BY <1>1, <1>5
  <2> QED BY <1>2, <1>5, <2>1, BeatValues
<1>6. CASE boot'[proc] = boot[proc] /\ ~starts /\ ~stops
  <2>1. beat'[proc] = beat[proc]
    BY <1>1, <1>6
  <2> QED BY <1>2, <1>6, <2>1
<1> QED BY <1>3, <1>4, <1>5, <1>6

LEMMA BeatTyped ==
    ASSUME TypeOK, BeatTypeOK, [BeatNext]_beatVars
    PROVE  TypeOK' /\ BeatTypeOK'
<1>1. CASE Next /\ BeatsFollow
  <2>1. TypeOK'
    BY <1>1, NextTyped
  <2>2. \A proc \in Procs : beat'[proc] \in Beats
    BY <1>1, BeatsFollowed, BeatValues DEF BeatTypeOK
  <2>3. BeatTypeOK'
    BY <1>1, <2>2 DEF BeatsFollow, BeatTypeOK
  <2> QED BY <2>1, <2>3
<1>2. CASE Tick
  BY <1>2, TickTyped DEF Tick
<1>3. CASE UNCHANGED beatVars
  <2>1. TypeOK'
    BY <1>3, NextTyped DEF beatVars
  <2> QED BY <1>3, <2>1 DEF beatVars, BeatTypeOK
<1> QED BY <1>1, <1>2, <1>3 DEF BeatNext

(* Type correctness of Heartbeat, and of Ingestion under its writes.       *)
THEOREM BeatTypeCorrect == BeatSpec => [](TypeOK /\ BeatTypeOK)
<1>1. Init /\ BeatInit => TypeOK /\ BeatTypeOK
  BY InitTyped, BeatValues DEF BeatInit, BeatTypeOK
<1> QED BY <1>1, BeatTyped, PTL DEF BeatSpec

----------------------------------------------------------------------------
(* Freshness.  A heartbeat ends when its tick finds the row terminal, so   *)
(* no later step of the pass may put the row back in flight.  None does,   *)
(* as long as nothing is ever skipped: what ends a row is a failure, after *)
(* which a pass only spreads the failure further.                          *)

NoSkips(diary) == \A p \in Phases : diary[p].state # "skipped"

(* A pass past its claim, and how it finds the row.                        *)
PastClaim == (Locked \ {"claim"}) \cup {"refresh", "gate", "exit"}

FailedForGood(w) ==
    /\ row.status = "error"
    /\ \/ pass[w].pc = "exit"
       \/ /\ pass[w].pc \in {"loop", "refresh"}
          /\ \E p \in Phases : row.diary[p].state = "error"

RowInHand(w) ==
    /\ pass[w].pc \in PastClaim
    /\ \/ row.status \in InFlight
       \/ FailedForGood(w)
       \/ row.status = "completed" /\ pass[w].pc = "exit"

KeptFreshInv ==
    /\ NoSkips(row.diary)
    /\ \A proc \in Procs :
          /\ beat[proc].pc \in {"read", "store"} =>
                beat[proc].status \in InFlight
          /\ beat[proc].pc = "store" => NoSkips(beat[proc].doc.diary)
          /\ beat[proc].pc # "off" => \E w \in Workers : ProcOf[w] = proc
    /\ \A w \in claimed : RowInHand(w)
    /\ WorkIsKeptFresh

(* The assumption: nothing is skipped, since every phase applies.          *)
AllApply == MayNotApply = {}

LEMMA ResetNotSkipped ==
    ASSUME NEW r \in Rows, NoSkips(r.diary), NEW S
    PROVE  NoSkips(ResetPhaseEntries(r, S).diary)
BY EntryFacts DEF NoSkips, ResetPhaseEntries, Rows

LEMMA WriteNotSkipped ==
    ASSUME row \in Rows, NoSkips(row.diary), NEW p \in Phases, NEW e,
           e.state # "skipped"
    PROVE  NoSkips(WritePhaseEntry(row, p, e).diary)
BY RowFacts DEF NoSkips, WritePhaseEntry, SetStatus, Rows

(* A failure that is inherited is an error, for there is no other.         *)
LEMMA PropagatesError ==
    ASSUME TypeOK, NoSkips(row.diary), NEW w \in Workers, Propagate(w)
    PROVE  \E p \in Phases :
              /\ row' = SetStatus(WritePhaseEntry(row, p, Outcome("error")),
                                  "error")
              /\ row'.status = "error" /\ row'.diary[p].state = "error"
              /\ NoSkips(row'.diary)
              /\ pass'[w].pc \in {"loop", "refresh"}
<1> USE DEF TypeOK, SharedTypeOK
<1>1. PICK p \in Blocked(w), state \in Failed, S \in SUBSET Phases,
           label \in {"loop", "refresh"} :
         /\ InheritsOutcome(p, row.diary, state)
         /\ row' = LET r == WritePhaseEntry(row, p, Outcome(state))
                   IN  IF state = "error" THEN SetStatus(r, "error") ELSE r
         /\ pass' = [pass EXCEPT ![w] = [@ EXCEPT !.pending = S, !.pc = label]]
  BY StaleType DEF Propagate
<1>2. p \in Phases
  BY <1>1, PassUpdates DEF Blocked, Passes
<1>3. state = "error"
  <2>1. PICK i \in DOMAIN DependsOn[p] :
           row.diary[DependsOn[p][i]].state = state
    BY <1>1 DEF InheritsOutcome
  <2>2. DependsOn[p][i] \in Phases
    BY <1>2, <2>1, PhasesAssumption
  <2> QED BY <2>1, <2>2 DEF NoSkips, Failed
<1>4. pass'[w].pc \in {"loop", "refresh"}
  BY <1>1, PassUpdates DEF PassTypeOK, Passes
<1> DEFINE r == WritePhaseEntry(row, p, Outcome("error"))
<1>5. row' = SetStatus(r, "error")
  BY <1>1, <1>3
<1>6. r \in Rows /\ NoSkips(r.diary) /\ r.diary[p].state = "error"
  <2>1. r \in Rows
    BY <1>2, WritePhaseEntryType, OutcomeType DEF EntryStates
  <2>2. NoSkips(r.diary)
    BY <1>2, WriteNotSkipped, EntryFacts
  <2>3. r.diary[p].state = "error"
    BY <1>2, RowFacts, EntryFacts DEF WritePhaseEntry, SetStatus, Rows
  <2> QED BY <2>1, <2>2, <2>3
<1> HIDE DEF r
<1>7. row'.status = "error" /\ row'.diary = r.diary
  BY <1>5, <1>6, StatusFacts
<1> QED BY <1>2, <1>4, <1>5, <1>6, <1>7 DEF r

(* No step of a pass brings a skip into the diary.                         *)
LEMMA PassSkipsNothing ==
    ASSUME AllApply, TypeOK, NoSkips(row.diary), NEW w \in Workers,
           Enter(w) \/ BeforeLock(w) \/ UnderLock(w)
    PROVE  NoSkips(row'.diary)
<1>0. row \in Rows /\ pass[w].cur \in Phases
  BY PassUpdates DEF TypeOK, SharedTypeOK, Passes
<1>1. CASE \/ Enter(w) \/ BeforeLock(w) \/ Claim(w) \/ ClaimRefused(w)
           \/ RecoverNothing(w) \/ RecoverStart(w) \/ Purge(w) \/ PurgeFails(w)
           \/ LoopEnds(w) \/ SkipSettledPhase(w) \/ PhaseLockTimeout(w)
           \/ ParseSweep(w) \/ ParseStore(w) \/ EmbedDelete(w) \/ EmbedAdd(w)
           \/ RunExternal(w) \/ ExternalWaits(w) \/ AskAgain(w)
           \/ FailsSource(w) \/ Refresh(w) \/ GatePasses(w) \/ GateVetoes(w)
           \/ Exit(w)
  <2>1. row'.diary = row.diary
    <3>1. CASE Enter(w) \/ BeforeLock(w)
      BY <1>0, <3>1, EnterKeepsDiary, BeforeLockKeepsDiary
    <3>2. CASE \/ ClaimRefused(w) \/ RecoverNothing(w) \/ RecoverStart(w)
               \/ Purge(w) \/ PurgeFails(w) \/ LoopEnds(w)
               \/ SkipSettledPhase(w) \/ PhaseLockTimeout(w) \/ ParseSweep(w)
               \/ ParseStore(w) \/ EmbedDelete(w) \/ RunExternal(w)
               \/ AskAgain(w) \/ Exit(w)
      BY <3>2 DEF ClaimRefused, RecoverNothing, RecoverStart, Purge,
                  PurgeFails, LoopEnds, SkipSettledPhase, PhaseLockTimeout,
                  ParseSweep, ParseStore, EmbedDelete, RunExternal, AskAgain,
                  Exit, shared
    <3>3. CASE Claim(w)
      BY <1>0, <3>3 DEF Claim, Rows
    <3>4. CASE \/ EmbedAdd(w) \/ FailsSource(w) \/ GatePasses(w)
               \/ GateVetoes(w) \/ Refresh(w)
      BY <1>0, <3>4, StatusFacts
         DEF EmbedAdd, FailsSource, GatePasses, GateVetoes, Refresh
    <3>5. CASE ExternalWaits(w)
      <4>1. SetStatus(row, "processing") \in Rows
        BY <1>0, SetStatusType DEF Statuses
      <4> QED BY <1>0, <3>5, <4>1, StatusFacts DEF ExternalWaits, Rows
    <3> QED BY <1>1, <3>1, <3>2, <3>3, <3>4, <3>5
  <2> QED BY <2>1
<1>2. CASE ParseReset(w)
  BY <1>0, <1>2, ResetNotSkipped DEF ParseReset
<1>3. CASE PurgeDone(w)
  <2> DEFINE reset == ResetPhaseEntries(row, pass[w].purged)
             kept  == SetStatus(reset, "processing")
  <2>1. reset \in Rows /\ NoSkips(reset.diary)
    BY <1>0, ResetNotSkipped, ResetType
  <2>2. kept \in Rows /\ kept.diary = reset.diary
    BY <2>1, SetStatusType, StatusFacts DEF Statuses
  <2>3. \/ row' = reset
        \/ row' = [kept EXCEPT !.diary = [q \in Phases |->
                      IF q \in pass[w].failed THEN PurgeFailed ELSE @[q]]]
    BY <1>3 DEF PurgeDone, AfterPurge
  <2> HIDE DEF reset, kept
  <2> QED BY <2>1, <2>2, <2>3, EntryFacts DEF NoSkips, Rows
<1>4. CASE Propagate(w)
  BY <1>4, PropagatesError
<1>5. CASE RunPhase(w) \/ Finish(w)
  <2>1. \E q \in Phases : \E e : /\ row' = WritePhaseEntry(row, q, e)
                                 /\ e.state # "skipped"
    BY <1>0, <1>5, EntryFacts DEF RunPhase, Finish
  <2> QED BY <1>0, <2>1, WriteNotSkipped
<1>6. CASE ExternalGivesUp(w) \/ BodyFails(w)
  <2>1. row' = WritePhaseEntry(row, pass[w].cur, Outcome("error"))
    BY <1>6 DEF ExternalGivesUp, BodyFails, FailsPhase
  <2> QED BY <1>0, <2>1, WriteNotSkipped, EntryFacts
<1>7. ~SkipInapplicablePhase(w) /\ ~ExternalSkips(w)
  BY DEF SkipInapplicablePhase, ExternalSkips, AllApply
<1> QED BY <1>1, <1>2, <1>3, <1>4, <1>5, <1>6, <1>7 DEF UnderLock

(* A claimed pass keeps the row in hand until it is over, and never brings *)
(* a row back that it has ended.                                           *)
LEMMA StepInHand ==
    ASSUME AllApply, TypeOK, NoSkips(row.diary), NEW w \in Workers,
           RowInHand(w), UnderLock(w)
    PROVE  \/ pass'[w].pc = "idle"
           \/ /\ RowInHand(w)'
              /\ row'.status \in InFlight => row.status \in InFlight
<1>0. row \in Rows /\ pass[w].cur \in Phases
  BY PassUpdates DEF TypeOK, SharedTypeOK, Passes
<1>1. ASSUME pass[w].pc \notin {"loop", "refresh", "exit"}
      PROVE  row.status \in InFlight
  BY <1>1 DEF RowInHand, FailedForGood
<1>2. CASE \/ RecoverNothing(w) \/ RecoverStart(w) \/ Purge(w)
           \/ PurgeFails(w) \/ SkipSettledPhase(w) \/ PhaseLockTimeout(w)
           \/ ParseSweep(w) \/ ParseStore(w) \/ EmbedDelete(w)
           \/ RunExternal(w) \/ AskAgain(w)
  <2>1. row' = row
    BY <1>2 DEF RecoverNothing, RecoverStart, Purge, PurgeFails,
                SkipSettledPhase, PhaseLockTimeout, ParseSweep, ParseStore,
                EmbedDelete, RunExternal, AskAgain, shared
  <2>2. row.status \in InFlight
    <3>1. CASE SkipSettledPhase(w) \/ PhaseLockTimeout(w)
      BY <3>1 DEF SkipSettledPhase, PhaseLockTimeout, Dispatches, At,
                  RowInHand, FailedForGood
    <3>2. CASE ~SkipSettledPhase(w) /\ ~PhaseLockTimeout(w)
      BY <1>1, <1>2, <3>2
         DEF RecoverNothing, RecoverStart, Purge, PurgeFails, ParseSweep,
             ParseStore, EmbedDelete, RunExternal, AskAgain, At
    <3> QED BY <3>1, <3>2
  <2>3. pass'[w].pc \in PastClaim
    <3>1. CASE SkipSettledPhase(w)
      BY <3>1, NextLabel DEF SkipSettledPhase, PastClaim, Locked, BodyLabels
    <3>2. CASE PhaseLockTimeout(w)
      <4>1. PICK p \in Phases :
              \/ \E S \in SUBSET Phases, label \in {"loop", "exit", "refresh"} :
                    pass' = [pass EXCEPT ![w] =
                               [@ EXCEPT !.pending = S, !.pc = label]]
              \/ pass' = [pass EXCEPT ![w].pending = @ \ {p}]
        BY <3>2, StaleType DEF PhaseLockTimeout, TypeOK, SharedTypeOK
      <4>2. pass'[w].pc \in {"loop", "exit", "refresh"}
        BY <3>2, <4>1 DEF PhaseLockTimeout, Dispatches, At, TypeOK,
                          PassTypeOK, Passes
      <4> QED BY <4>2 DEF PastClaim, Locked, BodyLabels
    <3>3. CASE RecoverStart(w) \/ Purge(w) \/ PurgeFails(w) \/ ParseStore(w)
      <4>1. /\ RecoverStart(w) \/ Purge(w) \/ PurgeFails(w) =>
                  pass'[w].pc = "purge"
            /\ ParseStore(w) => pass'[w].pc = "record"
        BY DEF RecoverStart, Purge, PurgeFails, ParseStore, At, TypeOK,
               PassTypeOK, Passes
      <4> QED BY <3>3, <4>1 DEF PastClaim, Locked, BodyLabels
    <3>4. CASE \/ RecoverNothing(w) \/ ParseSweep(w) \/ EmbedDelete(w)
               \/ RunExternal(w) \/ AskAgain(w)
      BY <3>4, NextLabel
         DEF RecoverNothing, ParseSweep, EmbedDelete, RunExternal, AskAgain,
             PastClaim, Locked, BodyLabels
    <3> QED BY <1>2, <3>1, <3>2, <3>3, <3>4
  <2> QED BY <2>1, <2>2, <2>3 DEF RowInHand
<1>3. CASE LoopEnds(w)
  BY <1>3, NextLabel
     DEF LoopEnds, shared, At, RowInHand, FailedForGood, PastClaim
<1>4. CASE RunPhase(w) \/ Finish(w)
  <2>1. row.status \in InFlight
    BY <1>1, <1>4 DEF RunPhase, Finish, Dispatches, At, RowInHand,
                      FailedForGood
  <2>2. row'.status \in InFlight
    <3>1. \E q \in Phases : \E e : row' = WritePhaseEntry(row, q, e)
      BY <1>0, <1>4 DEF RunPhase, Finish
    <3> QED BY <1>0, <3>1, RowWritten DEF InFlight
  <2>3. pass'[w].pc \in PastClaim
    <3>1. CASE RunPhase(w)
      BY <3>1 DEF RunPhase, BodyOf, TypeOK, PassTypeOK, Passes, PastClaim,
                  Locked, BodyLabels
    <3>2. CASE Finish(w)
      BY <3>2, NextLabel DEF Finish, PastClaim, Locked, BodyLabels
    <3> QED BY <1>4, <3>1, <3>2
  <2> QED BY <2>1, <2>2, <2>3 DEF RowInHand
<1>5. CASE \/ ParseReset(w) \/ PurgeDone(w) \/ EmbedAdd(w) \/ ExternalWaits(w)
  <2>1. row.status \in InFlight
    BY <1>1, <1>5 DEF ParseReset, PurgeDone, EmbedAdd, ExternalWaits, At
  <2>2. row'.status \in InFlight
    <3>1. CASE ParseReset(w)
      BY <1>0, <2>1, <3>1, RowReset DEF ParseReset
    <3>2. CASE PurgeDone(w)
      <4> DEFINE reset == ResetPhaseEntries(row, pass[w].purged)
                 kept  == SetStatus(reset, "processing")
      <4>1. reset \in Rows /\ reset.status = row.status
        BY <1>0, ResetType DEF ResetPhaseEntries, Rows
      <4>2. kept \in Rows /\ kept.status = "processing"
        BY <4>1, SetStatusType, StatusFacts DEF Statuses
      <4>3. \/ row' = reset
            \/ row' = [kept EXCEPT !.diary = [q \in Phases |->
                          IF q \in pass[w].failed THEN PurgeFailed ELSE @[q]]]
        BY <3>2 DEF PurgeDone, AfterPurge
      <4> HIDE DEF reset, kept
      <4> QED BY <2>1, <4>1, <4>2, <4>3 DEF Rows, InFlight
    <3>3. CASE EmbedAdd(w)
      BY <1>0, <2>1, <3>3, StatusFacts DEF EmbedAdd, InFlight
    <3>4. CASE ExternalWaits(w)
      <4>1. SetStatus(row, "processing") \in Rows
        BY <1>0, SetStatusType DEF Statuses
      <4> QED BY <1>0, <3>4, <4>1, StatusFacts DEF ExternalWaits, Rows, InFlight
    <3> QED BY <1>5, <3>1, <3>2, <3>3, <3>4
  <2>3. pass'[w].pc \in PastClaim
    <3>1. /\ ParseReset(w) => pass'[w].pc = "build"
          /\ ExternalWaits(w) => pass'[w].pc = "wait"
      BY NextLabel DEF ParseReset, ExternalWaits
    <3>2. EmbedAdd(w) => pass'[w].pc = "record"
      BY DEF EmbedAdd, TypeOK, PassTypeOK, Passes
    <3>3. PurgeDone(w) => pass'[w].pc \in {"loop", "exit"}
      BY DEF PurgeDone, TypeOK, PassTypeOK, Passes
    <3> QED BY <1>5, <3>1, <3>2, <3>3 DEF PastClaim, Locked, BodyLabels
  <2> QED BY <2>1, <2>2, <2>3 DEF RowInHand
<1>6. CASE ExternalGivesUp(w) \/ BodyFails(w)
  <2>1. row' = WritePhaseEntry(row, pass[w].cur, Outcome("error"))
        /\ pass'[w].pc = "blame"
    BY <1>6, NextLabel DEF ExternalGivesUp, BodyFails, FailsPhase
  <2>2. row'.status \in InFlight
    BY <1>0, <2>1, RowWritten DEF InFlight
  <2>3. row.status \in InFlight
    BY <1>1, <1>6 DEF ExternalGivesUp, BodyFails, At, BodyLabels
  <2> QED BY <2>1, <2>2, <2>3 DEF RowInHand, PastClaim, Locked
<1>13. CASE FailsSource(w)
  <2>1. row'.status = "error" /\ pass'[w].pc = "exit"
    BY <1>0, <1>13, StatusFacts, NextLabel DEF FailsSource
  <2> QED BY <2>1 DEF RowInHand, FailedForGood, PastClaim, InFlight
<1>7. CASE GatePasses(w) \/ GateVetoes(w)
  <2>1. /\ pass'[w].pc = "exit" /\ row'.status \in {"completed", "error"}
        /\ row.status \in InFlight
    BY <1>0, <1>1, <1>7, StatusFacts, NextLabel
       DEF GatePasses, GateVetoes, At
  <2> QED BY <2>1 DEF RowInHand, FailedForGood, PastClaim
<1>8. CASE Propagate(w)
  BY <1>8, PropagatesError
     DEF RowInHand, FailedForGood, PastClaim, Locked, InFlight
<1>9. CASE Refresh(w)
  <2>1. DeriveSourceStatus(row.diary) \in {"error", "processing", "completed"}
    BY DerivedFacts
  <2>2. row.status = "error" => DeriveSourceStatus(row.diary) = "error"
    BY <1>9 DEF Refresh, At, RowInHand, FailedForGood, InFlight,
                DeriveSourceStatus
  <2>3. row.status \in InFlight \cup {"error"}
    BY <1>9 DEF Refresh, At, RowInHand, FailedForGood
  <2>4. \/ row' = row /\ pass'[w].pc = "gate" /\ row.status \in InFlight
        \/ row' = row /\ pass'[w].pc = "exit"
        \/ /\ row'.status = DeriveSourceStatus(row.diary)
           /\ row'.status # "completed" /\ pass'[w].pc = "exit"
    BY <1>0, <1>9, <2>2, <2>3, StatusFacts, NextLabel DEF Refresh
  <2> QED BY <2>1, <2>2, <2>3, <2>4
          DEF RowInHand, FailedForGood, PastClaim, InFlight
<1>10. CASE Exit(w)
  BY <1>10, NextLabel DEF Exit
<1>11. CASE Claim(w) \/ ClaimRefused(w)
  BY <1>11 DEF Claim, ClaimRefused, At, RowInHand, PastClaim, Locked, BodyLabels
<1>12. ~SkipInapplicablePhase(w) /\ ~ExternalSkips(w)
  BY DEF SkipInapplicablePhase, ExternalSkips, AllApply
<1> QED BY <1>2, <1>3, <1>4, <1>5, <1>6, <1>7, <1>8, <1>9, <1>10, <1>11,
           <1>12, <1>13 DEF UnderLock

(* A step of the only worker.                                              *)
LEMMA PassKeepsFresh ==
    ASSUME Alone, AllApply, TypeOK, BeatTypeOK, KeptFreshInv, BeatsFollow,
           NEW w \in Workers, Enter(w) \/ BeforeLock(w) \/ UnderLock(w)
    PROVE  KeptFreshInv'
<1>1. NoSkips(row'.diary)
  BY PassSkipsNothing DEF KeptFreshInv
<1>2. boot' = boot
  BY DEF Enter, UploadStart, ResumeList, RevalidateList, ReembedStart,
         BeforeLock, RevalidateClaim, RevalidateRefused, HandOver,
         MarkFileMissing, UploadPersist, Begin, ProbeExplicit, ProbeNoRow,
         ProbeStale, ProbeStoreEmpty, ProbeFresh, LockSource,
         LockSourceTimeout, UnderLock, Claim, ClaimRefused, RecoverNothing,
         RecoverStart, Purge, PurgeFails, PurgeDone, LoopEnds, Propagate,
         RunPhase, SkipSettledPhase, SkipInapplicablePhase, PhaseLockTimeout,
         ParseSweep, ParseReset, ParseStore, EmbedDelete, EmbedAdd,
         RunExternal, ExternalSkips, ExternalWaits, AskAgain,
         ExternalGivesUp, BodyFails, FailsPhase, FailsSource, Finish, Refresh,
         GatePasses, GateVetoes, Exit, shared
<1>3. ASSUME NEW proc \in Procs
      PROVE  /\ beat'[proc].pc \in {"read", "store"} =>
                   beat'[proc].status \in InFlight
             /\ beat'[proc].pc = "store" => NoSkips(beat'[proc].doc.diary)
             /\ beat'[proc].pc # "off" => \E v \in Workers : ProcOf[v] = proc
  <2>1. beat'[proc] \in {NoBeat, Sleeping, beat[proc]}
    BY BeatsFollowed
  <2>2. beat'[proc].pc # "off" /\ beat'[proc] # beat[proc] =>
           \E v \in Workers : ProcOf[v] = proc
    BY BeatsFollowed
  <2> QED BY <2>1, <2>2, BeatValues DEF KeptFreshInv
<1>4. claimed' \subseteq {w}
  BY DEF BeatsFollow, Alone
<1>5. ASSUME w \in claimed'
      PROVE  RowInHand(w)' /\ (row'.status \in InFlight =>
                                  beat'[ProcOf[w]].pc # "off")
  <2>0. ProcOf[w] \in Procs /\ row \in Rows
    BY TasksAssumption DEF Tasks, TypeOK, SharedTypeOK
  <2>1. pass'[w].pc # "idle" /\ (w \in claimed \/ Claims(w))
    BY <1>5 DEF BeatsFollow
  <2>2. CASE Claims(w)
    <3>1. pass'[w].pc = "recover" /\ At(w, "claim")
      BY <2>2 DEF Claims
    <3>2. Claim(w) \/ ClaimRefused(w)
      BY <3>1
         DEF At, Enter, UploadStart, ResumeList, RevalidateList, ReembedStart,
             BeforeLock, RevalidateClaim, RevalidateRefused, HandOver,
             MarkFileMissing, UploadPersist, Begin, ProbeExplicit, ProbeNoRow,
             ProbeStale, ProbeStoreEmpty, ProbeFresh, LockSource,
             LockSourceTimeout, UnderLock, RecoverNothing, RecoverStart, Purge,
             PurgeFails, PurgeDone, LoopEnds, Propagate, RunPhase,
             SkipSettledPhase, Dispatches, SkipInapplicablePhase,
             PhaseLockTimeout, ParseSweep, ParseReset, ParseStore,
             EmbedDelete, EmbedAdd, RunExternal, ExternalSkips,
             ExternalWaits, AskAgain, ExternalGivesUp, BodyFails, BodyLabels,
             FailsSource, Finish, Refresh, GatePasses, GateVetoes, Exit
    <3>4. Claim(w)
      BY <3>1, <3>2, NextLabel DEF ClaimRefused
    <3>5. row'.status = "processing"
      BY <2>0, <3>4 DEF Claim, Rows
    <3>3. beat'[ProcOf[w]] = Sleeping
      BY <1>2, <2>0, <2>2, BeatsFollowed DEF StartsBeat
    <3> QED BY <3>1, <3>3, <3>5, BeatValues
            DEF RowInHand, PastClaim, Locked, InFlight
  <2>3. CASE ~Claims(w)
    <3>1. w \in claimed /\ RowInHand(w)
      BY <2>1, <2>3 DEF KeptFreshInv
    <3>2. UnderLock(w)
      BY <3>1 DEF RowInHand, PastClaim, Locked, BodyLabels, At, Enter,
                  UploadStart, ResumeList, RevalidateList, ReembedStart,
                  BeforeLock, RevalidateClaim, RevalidateRefused, HandOver,
                  MarkFileMissing, UploadPersist, Begin, ProbeExplicit,
                  ProbeNoRow, ProbeStale, ProbeStoreEmpty, ProbeFresh,
                  LockSource, LockSourceTimeout
    <3>3. RowInHand(w)' /\ (row'.status \in InFlight =>
                               row.status \in InFlight)
      BY <2>1, <3>1, <3>2, StepInHand DEF KeptFreshInv
    <3>4. row.status \in InFlight => beat[ProcOf[w]].pc # "off"
      BY <3>1 DEF KeptFreshInv, WorkIsKeptFresh
    <3>5. beat'[ProcOf[w]] = beat[ProcOf[w]] \/ beat'[ProcOf[w]] = Sleeping
      <4>1. ~StopsBeat(w)
        BY <2>1 DEF StopsBeat
      <4> QED BY <1>2, <2>0, <4>1, BeatsFollowed DEF Alone
    <3> QED BY <3>3, <3>4, <3>5, BeatValues
  <2> QED BY <2>2, <2>3
<1> QED BY <1>1, <1>3, <1>4, <1>5 DEF KeptFreshInv, WorkIsKeptFresh

(* A step around the tasks.                                                *)
LEMMA EnvironmentKeepsFresh ==
    ASSUME Alone, TypeOK, BeatTypeOK, KeptFreshInv, BeatsFollow, Environment
    PROVE  KeptFreshInv'
<1>1. /\ row'.status = row.status
      /\ \A p \in Phases : row'.diary[p].state = row.diary[p].state
  BY EnvironmentKeepsRow
<1>2. ASSUME NEW w \in Workers
      PROVE  pass'[w] = pass[w] \/ pass'[w].pc = "idle"
  <2>1. ASSUME NEW proc \in Procs, Crash(proc)
        PROVE  pass'[w] = pass[w] \/ pass'[w].pc = "idle"
    BY <2>1 DEF Crash, IdlePass
  <2>2. CASE ~\E proc \in Procs : Crash(proc)
    BY <2>2 DEF Environment, SourceLockExpires, BudgetRunsOut,
                PhaseLockExpires, LeaseAges, SettingsChange, StoreWiped
  <2> QED BY <2>1, <2>2
<1>3. ASSUME NEW w \in Workers
      PROVE  ~StartsBeat(w)
  BY <1>2 DEF StartsBeat, Claims, At
<1>4. ASSUME NEW w \in Workers, pass'[w].pc # "idle"
      PROVE  boot'[ProcOf[w]] = boot[ProcOf[w]]
  <2>1. w \in Tasks /\ ProcOf[w] \in Procs
    BY TasksAssumption DEF Tasks
  <2>2. ASSUME NEW proc \in Procs, Crash(proc), ProcOf[w] = proc
        PROVE  pass'[w].pc = "idle"
    BY <2>1, <2>2 DEF Crash, IdlePass
  <2>3. ASSUME NEW proc \in Procs, Crash(proc), ProcOf[w] # proc
        PROVE  boot'[ProcOf[w]] = boot[ProcOf[w]]
    BY <2>1, <2>3 DEF Crash, TypeOK, SharedTypeOK
  <2>4. CASE ~\E proc \in Procs : Crash(proc)
    BY <2>4 DEF Environment, SourceLockExpires, BudgetRunsOut,
                PhaseLockExpires, LeaseAges, SettingsChange, StoreWiped
  <2> QED BY <1>4, <2>2, <2>3, <2>4
<1>5. NoSkips(row'.diary)
  BY <1>1 DEF NoSkips, KeptFreshInv
<1>6. ASSUME NEW proc \in Procs
      PROVE  /\ beat'[proc].pc \in {"read", "store"} =>
                   beat'[proc].status \in InFlight
             /\ beat'[proc].pc = "store" => NoSkips(beat'[proc].doc.diary)
             /\ beat'[proc].pc # "off" => \E v \in Workers : ProcOf[v] = proc
  <2>1. beat'[proc] \in {NoBeat, Sleeping, beat[proc]}
    BY BeatsFollowed
  <2>2. beat'[proc].pc # "off" /\ beat'[proc] # beat[proc] =>
           \E v \in Workers : ProcOf[v] = proc
    BY BeatsFollowed
  <2> QED BY <2>1, <2>2, BeatValues DEF KeptFreshInv
<1>7. ASSUME NEW w \in claimed'
      PROVE  RowInHand(w)' /\ (row'.status \in InFlight =>
                                  beat'[ProcOf[w]].pc # "off")
  <2>1. w \in Workers /\ pass'[w].pc # "idle" /\ w \in claimed
    BY <1>3, <1>7 DEF BeatsFollow, StartsBeat
  <2>2. pass'[w] = pass[w] /\ RowInHand(w)
    BY <1>2, <2>1 DEF KeptFreshInv
  <2>3. RowInHand(w)'
    BY <1>1, <2>2 DEF RowInHand, FailedForGood
  <2>4. ProcOf[w] \in Procs
    BY <2>1, TasksAssumption DEF Tasks
  <2>5. \A v \in Workers : ProcOf[v] = ProcOf[w] => ~StopsBeat(v)
    BY <2>1 DEF StopsBeat, Alone
  <2> QED BY <1>1, <1>4, <2>1, <2>3, <2>4, <2>5, BeatsFollowed, BeatValues
          DEF KeptFreshInv, WorkIsKeptFresh
<1> QED BY <1>5, <1>6, <1>7 DEF KeptFreshInv, WorkIsKeptFresh

(* A step of the heartbeat.                                                *)
LEMMA TickKeepsFresh ==
    ASSUME Alone, TypeOK, BeatTypeOK, KeptFreshInv, Tick
    PROVE  KeptFreshInv'
<1>1. PICK proc \in Procs :
         BeatLook(proc) \/ BeatRead(proc) \/ BeatStore(proc)
  BY DEF Tick
<1>2. /\ row \in Rows /\ beat[proc] \in Beats /\ beat \in [Procs -> Beats]
      /\ claimed \subseteq Workers
      /\ \A w \in Workers : ProcOf[w] \in Procs
  BY TasksAssumption DEF TypeOK, SharedTypeOK, BeatTypeOK, Tasks
<1>3. CASE BeatLook(proc) /\ row.status \in InFlight
  <2> DEFINE b == [beat[proc] EXCEPT !.pc = "read", !.status = row.status]
  <2>1. b.pc = "read" /\ b.status = row.status
    BY <1>2 DEF Beats
  <2>2. beat' = [beat EXCEPT ![proc] = b]
        /\ UNCHANGED << row, pass, claimed >>
    BY <1>3 DEF BeatLook, vars
  <2>3. beat[proc].pc # "off"
    BY <1>3 DEF BeatLook
  <2> HIDE DEF b
  <2> QED BY <1>2, <1>3, <2>1, <2>2, <2>3
          DEF KeptFreshInv, WorkIsKeptFresh, RowInHand, FailedForGood
<1>4. CASE BeatLook(proc) /\ row.status \notin InFlight
  <2>1. beat' = [beat EXCEPT ![proc] = NoBeat]
        /\ UNCHANGED << row, pass, claimed >>
    BY <1>4 DEF BeatLook, vars
  <2> QED BY <1>2, <1>4, <2>1, BeatValues
          DEF KeptFreshInv, WorkIsKeptFresh, RowInHand, FailedForGood
<1>5. CASE BeatRead(proc)
  <2> DEFINE b == [beat[proc] EXCEPT !.pc = "store", !.doc = row]
  <2>1. b.pc = "store" /\ b.status = beat[proc].status /\ b.doc = row
    BY <1>2 DEF Beats
  <2>2. beat' = [beat EXCEPT ![proc] = b]
        /\ UNCHANGED << row, pass, claimed >> /\ beat[proc].pc = "read"
    BY <1>5 DEF BeatRead, vars
  <2> HIDE DEF b
  <2> QED BY <1>2, <2>1, <2>2
          DEF KeptFreshInv, WorkIsKeptFresh, RowInHand, FailedForGood
<1>6. CASE BeatStore(proc)
  <2>1. /\ row' = SetStatus(beat[proc].doc, beat[proc].status)
        /\ beat' = [beat EXCEPT ![proc] = Sleeping]
        /\ beat[proc].pc = "store" /\ UNCHANGED << pass, claimed >>
    BY <1>6 DEF BeatStore
  <2>2. beat[proc].doc \in Rows
    BY <1>2 DEF Beats
  <2>3. row'.status \in InFlight /\ NoSkips(row'.diary)
    BY <2>1, <2>2, StatusFacts DEF KeptFreshInv
  <2>4. \A w \in claimed : RowInHand(w)'
    BY <2>1, <2>3 DEF KeptFreshInv, RowInHand
  <2>5. \A w \in claimed : ProcOf[w] = proc
    BY <1>2, <2>1 DEF KeptFreshInv, Alone
  <2> QED BY <1>2, <2>1, <2>3, <2>4, <2>5, BeatValues
          DEF KeptFreshInv, WorkIsKeptFresh
<1> QED BY <1>1, <1>3, <1>4, <1>5, <1>6

LEMMA StepKeepsFresh ==
    ASSUME Alone, AllApply, TypeOK, BeatTypeOK, KeptFreshInv,
           [BeatNext]_beatVars
    PROVE  KeptFreshInv'
<1>1. CASE Next /\ BeatsFollow
  BY <1>1, PassKeepsFresh, EnvironmentKeepsFresh DEF Next, Alone
<1>2. CASE Tick
  BY <1>2, TickKeepsFresh
<1>3. CASE UNCHANGED beatVars
  BY <1>3 DEF beatVars, vars, KeptFreshInv, WorkIsKeptFresh, RowInHand,
              FailedForGood
<1> QED BY <1>1, <1>2, <1>3 DEF BeatNext

LEMMA FreshAtFirst == Init /\ BeatInit => KeptFreshInv
BY BeatValues, EntryFacts
   DEF Init, SharedInit, BeatInit, KeptFreshInv, NoSkips, NoRow, EmptyDiary,
       WorkIsKeptFresh

(* The heartbeat keeps a claimed row fresh from the claim to the end of the *)
(* pass, for every phases, failures, waits, crashes and expiring locks,    *)
(* when one worker is alone on the source and every phase applies.         *)
THEOREM WorkKeptFresh ==
    ASSUME Alone, AllApply
    PROVE  BeatSpec => []WorkIsKeptFresh
<1>1. KeptFreshInv => WorkIsKeptFresh
  BY DEF KeptFreshInv
<1>2. TypeOK /\ BeatTypeOK /\ KeptFreshInv /\ [BeatNext]_beatVars
         => KeptFreshInv'
  BY StepKeepsFresh
<1> QED BY <1>1, <1>2, FreshAtFirst, BeatTypeCorrect, PTL DEF BeatSpec
=============================================================================
