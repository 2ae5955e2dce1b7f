--------------------------- MODULE LifecycleProofs ---------------------------
(***************************************************************************)
(* Proofs that, as long as one worker at a time and no deletion works on   *)
(* the source, Ingestion implements SourceLifecycle, for every phases,     *)
(* dependencies, failures, crashes, settings and expiring locks; and that  *)
(* then a source is completed only when its diary is settled.              *)
(***************************************************************************)
EXTENDS IngestionProofs

(* The assumption: at most one worker, and no request.                     *)
Alone == Deleters = {} /\ \A v, w \in Workers : v = w

----------------------------------------------------------------------------
(* The inductive invariant.  The status alone does not say that completed  *)
(* is written over a settled diary: what the pass knows of the row at each *)
(* of its labels does.                                                     *)

AllDone(diary) == \A p \in Phases : diary[p].state \in {"complete", "skipped"}

CarriesOn == BodyLabels \cup {"recover", "purge", "loop", "record", "refresh"}

(* A pass that carries on has claimed the row, so it is not completed; the *)
(* phase whose body runs is processing; a pass gets to the gate only with  *)
(* a row in flight over a settled diary.                                   *)
PassKnowsRow(w) ==
    /\ pass[w].pc \in CarriesOn => row.status # "completed"
    /\ pass[w].pc \in BodyLabels \cup {"record"} =>
          row.diary[pass[w].cur].state = "processing"
    /\ pass[w].pc \in {"sweep", "reset", "build"} => pass[w].cur = Parsing
    /\ pass[w].pc = "refresh" /\ row.status = "error" =>
          \E p \in Phases : row.diary[p].state = "error"
    /\ pass[w].pc = "gate" => row.status \in InFlight /\ AllDone(row.diary)

RowIsKnown ==
    /\ CompletedIsSettled
    /\ \A w \in Workers : PassKnowsRow(w)

----------------------------------------------------------------------------
(* What the registry writes do to the row.                                 *)

LEMMA RowFacts ==
    ASSUME NEW r \in Rows
    PROVE  /\ r.diary \in [Phases -> Entries]
           /\ \A p \in Phases : r.diary[p].state \in EntryStates
BY DEF Rows, Diaries, Entries

LEMMA StatusFacts ==
    ASSUME NEW r \in Rows, NEW s
    PROVE  SetStatus(r, s).status = s /\ SetStatus(r, s).diary = r.diary
BY DEF SetStatus, Rows

LEMMA RowWritten ==
    ASSUME row \in Rows, NEW p \in Phases, NEW e,
           row' = WritePhaseEntry(row, p, e)
    PROVE  /\ row'.status = "processing"
           /\ row'.diary[p] = e
           /\ \A q \in Phases \ {p} : row'.diary[q] = row.diary[q]
BY RowFacts DEF WritePhaseEntry, SetStatus, Rows

LEMMA RowReset ==
    ASSUME row \in Rows, NEW S, row' = ResetPhaseEntries(row, S)
    PROVE  /\ row'.status = row.status
           /\ \A q \in Phases :
                row'.diary[q] = IF q \in S THEN NoEntry ELSE row.diary[q]
BY RowFacts DEF ResetPhaseEntries, Rows

LEMMA EntryFacts ==
    /\ \A s : Outcome(s).state = s
    /\ \A tag : Complete(tag).state = "complete"
    /\ \A o : RunBy(o).state = "processing"
    /\ NoEntry.state = "pending" /\ PurgeFailed.state = "processing"
BY DEF Outcome, Complete, RunBy, NoEntry, PurgeFailed

LEMMA DerivedFacts ==
    ASSUME TypeOK
    PROVE  /\ DeriveSourceStatus(row.diary) \in
                 {"error", "processing", "completed"}
           /\ DeriveSourceStatus(row.diary) = "completed" => AllDone(row.diary)
           /\ DeriveSourceStatus(row.diary) = "completed" =>
                 \A p \in Phases : row.diary[p].state # "error"
<1>1. \A p \in Phases : row.diary[p].state \in EntryStates
  BY RowFacts DEF TypeOK, SharedTypeOK
<1> QED BY <1>1 DEF DeriveSourceStatus, AllDone, EntryStates

(* Where a step of a pass leads.                                           *)
LEMMA NextLabel ==
    ASSUME TypeOK, NEW w \in Workers
    PROVE  /\ \A l : Goto(w, l) =>
                 pass'[w].pc = l /\ pass'[w].cur = pass[w].cur
           /\ Stop(w) => pass'[w].pc = "idle"
           /\ \A k, l : Start(w, k, l) => pass'[w].pc = l
           /\ \A S, forced : QueueFor(w, S, forced) => pass'[w].pc = "lock"
           /\ \A r, p, more : Reprobe(w, r, p, more) =>
                 \/ pass'[w].pc \in {"loop", "exit"}
                 \/ pass'[w].pc = "refresh" /\ r.status # "error"
<1> USE DEF TypeOK, PassTypeOK, Passes
<1>1. /\ \A l : Goto(w, l) =>
            pass'[w].pc = l /\ pass'[w].cur = pass[w].cur
      /\ Stop(w) => pass'[w].pc = "idle"
  BY DEF Goto, Stop, IdlePass
<1>2. \A k, l : Start(w, k, l) => pass'[w].pc = l
  BY DEF Start, IdlePass
<1>3. \A S, forced : QueueFor(w, S, forced) => pass'[w].pc = "lock"
  BY DEF QueueFor
<1>4. ASSUME NEW r, NEW p, NEW more, Reprobe(w, r, p, more)
      PROVE  \/ pass'[w].pc \in {"loop", "exit"}
             \/ pass'[w].pc = "refresh" /\ r.status # "error"
  <2> DEFINE pending == Stale(w, r.diary) \cup more
             label == IF pending # {} THEN "loop"
                      ELSE IF r.status = "error" \/ Running(w, r.diary)
                           THEN "exit" ELSE "refresh"
  <2>1. pass' = [pass EXCEPT ![w] =
                   [@ EXCEPT !.pending = pending, !.pc = label]]
    BY <1>4 DEF Reprobe
  <2>2. \/ label \in {"loop", "exit"}
        \/ label = "refresh" /\ r.status # "error"
    BY Zenon
  <2> HIDE DEF pending, label
  <2> QED BY <2>1, <2>2
<1> QED BY <1>1, <1>2, <1>3, <1>4

----------------------------------------------------------------------------
(* The invariant, step by step.                                            *)

(* With one worker, a step of it has only its own knowledge to keep.       *)
LEMMA OneWorker ==
    ASSUME Alone, NEW w \in Workers, PassKnowsRow(w)', CompletedIsSettled'
    PROVE  RowIsKnown'
BY DEF Alone, RowIsKnown

(* A pass that leaves the row alone and goes on below the lock.            *)
LEMMA CarriesOnKeeps ==
    ASSUME Alone, RowIsKnown, NEW w \in Workers, row' = row,
           pass[w].pc \in CarriesOn,
           \/ pass'[w].pc \in {"recover", "purge", "loop", "exit", "idle"}
           \/ pass'[w].pc = "refresh" /\ row.status # "error"
           \/ /\ pass[w].pc \in BodyLabels /\ pass'[w].cur = pass[w].cur
              /\ pass'[w].pc \in BodyLabels \cup {"record"}
              /\ pass'[w].pc \in {"sweep", "reset", "build"} =>
                    pass[w].pc \in {"sweep", "reset", "build"}
    PROVE  RowIsKnown'
<1>1. PassKnowsRow(w)'
  BY DEF RowIsKnown, PassKnowsRow, CarriesOn, BodyLabels
<1> QED BY <1>1, OneWorker DEF RowIsKnown, CompletedIsSettled

LEMMA EnterKnows ==
    ASSUME TypeOK, RowIsKnown, Alone, NEW w \in Workers, Enter(w)
    PROVE  RowIsKnown'
<1> USE DEF TypeOK, SharedTypeOK, PassTypeOK
<1>1. pass[w].pc = "idle"
  BY DEF Enter, UploadStart, ResumeList, RevalidateList, ReembedStart, At
<1>2. PassKnowsRow(w)'
  <2>1. \E k, label : label \in {"persist", "handed", "listed", "begin"}
                        /\ Start(w, k, label)
    BY DEF Enter, UploadStart, ResumeList, RevalidateList, ReembedStart
  <2>2. pass'[w].pc \in {"persist", "handed", "listed", "begin"}
    BY <1>1, <2>1, PassUpdates DEF Start, IdlePass
  <2> QED BY <2>2 DEF PassKnowsRow, CarriesOn, BodyLabels
<1>3. row' = row \/ row'.status # "completed"
  BY StatusFacts
     DEF Enter, UploadStart, ResumeList, RevalidateList, ReembedStart, shared
<1>4. CompletedIsSettled'
  BY <1>3 DEF RowIsKnown, CompletedIsSettled
<1> QED BY <1>2, <1>4, OneWorker

LEMMA BeforeLockKnows ==
    ASSUME TypeOK, RowIsKnown, Alone, NEW w \in Workers, BeforeLock(w)
    PROVE  RowIsKnown'
<1> USE DEF TypeOK, SharedTypeOK, PassTypeOK
<1>1. CASE UploadPersist(w)
  <2>1. row'.status = "processing" /\ pass'[w].pc = "begin"
    BY <1>1, PassUpdates, StatusFacts DEF UploadPersist, Goto, Passes
  <2> QED BY <2>1, OneWorker
          DEF PassKnowsRow, CompletedIsSettled, CarriesOn, BodyLabels
<1>2. CASE ProbeFresh(w)
  <2>1. /\ row' = row
        /\ \/ pass'[w].pc = "idle"
           \/ pass'[w].pc = "refresh" /\ row.status \notin Terminal
    <3>1. \/ Stop(w)
          \/ Goto(w, "refresh") /\ row.status \notin Terminal
      BY <1>2 DEF ProbeFresh
    <3> QED BY <1>2, <3>1, PassUpdates
            DEF ProbeFresh, Stop, Goto, IdlePass, Passes, shared
  <2>2. PassKnowsRow(w)'
    BY <2>1 DEF PassKnowsRow, CarriesOn, BodyLabels, Terminal
  <2> QED BY <2>1, <2>2, OneWorker DEF RowIsKnown, CompletedIsSettled
<1>3. ASSUME row' = row,
             pass'[w].pc \in {"begin", "probe", "lock", "claim", "idle"}
      PROVE  RowIsKnown'
  <2>1. PassKnowsRow(w)'
    BY <1>3 DEF PassKnowsRow, CarriesOn, BodyLabels
  <2> QED BY <1>3, <2>1, OneWorker DEF RowIsKnown, CompletedIsSettled
<1>4. CASE \/ Begin(w) \/ ProbeExplicit(w) \/ ProbeNoRow(w) \/ ProbeStale(w)
           \/ ProbeStoreEmpty(w) \/ LockSource(w) \/ LockSourceTimeout(w)
  <2>1. row' = row
    BY <1>4 DEF Begin, ProbeExplicit, ProbeNoRow, ProbeStale,
                ProbeStoreEmpty, LockSource, LockSourceTimeout, shared
  <2>2. CASE Begin(w)
    BY <1>3, <2>1, <2>2 DEF Begin, Passes
  <2>3. CASE ProbeExplicit(w) \/ LockSource(w) \/ LockSourceTimeout(w)
    BY <1>3, <2>1, <2>3, NextLabel
       DEF ProbeExplicit, LockSource, LockSourceTimeout
  <2>4. CASE ProbeNoRow(w) \/ ProbeStale(w) \/ ProbeStoreEmpty(w)
    <3>1. \E S, forced : QueueFor(w, S, forced)
      BY <2>4 DEF ProbeNoRow, ProbeStale, ProbeStoreEmpty
    <3>2. pass'[w].pc = "lock"
      BY <3>1, NextLabel
    <3> QED BY <1>3, <2>1, <3>2
  <2> QED BY <1>4, <2>2, <2>3, <2>4
<1>5. CASE RevalidateRefused(w) \/ HandOver(w)
  <2>1. row' = row
    BY <1>5 DEF RevalidateRefused, HandOver, shared
  <2> QED BY <1>3, <1>5, <2>1, NextLabel DEF RevalidateRefused, HandOver
<1>6. CASE RevalidateClaim(w) \/ MarkFileMissing(w)
  <2>1. row'.status \in {"processing", "error"}
    BY <1>6, StatusFacts DEF RevalidateClaim, MarkFileMissing, Rows
  <2>2. pass'[w].pc \in {"handed", "idle"}
    BY <1>6, NextLabel DEF RevalidateClaim, MarkFileMissing
  <2> QED BY <2>1, <2>2, OneWorker
          DEF PassKnowsRow, CompletedIsSettled, CarriesOn, BodyLabels
<1> QED BY <1>1, <1>2, <1>4, <1>5, <1>6 DEF BeforeLock

LEMMA ClaimKnows ==
    ASSUME TypeOK, RowIsKnown, Alone, NEW w \in Workers,
           Claim(w) \/ ClaimRefused(w)
    PROVE  RowIsKnown'
<1> USE DEF TypeOK, SharedTypeOK
<1>1. CASE Claim(w)
  <2>1. row'.status = "processing" /\ pass'[w].pc = "recover"
    BY <1>1, NextLabel DEF Claim, Rows
  <2> QED BY <2>1, OneWorker
          DEF PassKnowsRow, CompletedIsSettled, CarriesOn, BodyLabels
<1>2. CASE ClaimRefused(w)
  <2>1. row' = row /\ pass'[w].pc = "exit"
    BY <1>2, NextLabel DEF ClaimRefused, shared
  <2>2. PassKnowsRow(w)'
    BY <2>1 DEF PassKnowsRow, CarriesOn, BodyLabels
  <2> QED BY <2>1, <2>2, OneWorker DEF RowIsKnown, CompletedIsSettled
<1> QED BY <1>1, <1>2

(* The steps under the lock that do not write the row, ...                 *)
LEMMA QuietStepsKnow ==
    ASSUME TypeOK, RowIsKnown, Alone, NEW w \in Workers,
           \/ RecoverNothing(w) \/ RecoverStart(w) \/ Purge(w) \/ PurgeFails(w)
           \/ LoopEnds(w) \/ SkipSettledPhase(w) \/ PhaseLockTimeout(w)
           \/ ParseSweep(w) \/ ParseStore(w) \/ EmbedDelete(w)
           \/ RunExternal(w) \/ AskAgain(w)
    PROVE  RowIsKnown'
<1> USE DEF TypeOK, PassTypeOK
<1>1. CASE RecoverNothing(w) \/ LoopEnds(w)
  BY <1>1, CarriesOnKeeps, NextLabel
     DEF RecoverNothing, LoopEnds, At, CarriesOn, shared
<1>2. CASE RecoverStart(w)
  <2>1. row' = row /\ pass[w].pc = "recover"
    BY <1>2 DEF RecoverStart, At, shared
  <2>2. PICK S : pass' = [pass EXCEPT ![w] =
                            [@ EXCEPT !.pc = "purge", !.todo = S]]
    BY <1>2 DEF RecoverStart
  <2>3. pass'[w].pc = "purge"
    BY <2>2, PassUpdates DEF Passes
  <2> QED BY <2>1, <2>3, CarriesOnKeeps DEF CarriesOn
<1>3. CASE Purge(w) \/ PurgeFails(w)
  <2>1. row' = row /\ pass[w].pc = "purge"
    BY <1>3 DEF Purge, PurgeFails, At, shared
  <2>2. pass'[w].pc = "purge"
    <3>1. CASE Purge(w)
      BY <2>1, <3>1 DEF Purge, Passes
    <3>2. CASE PurgeFails(w)
      BY <2>1, <3>2 DEF PurgeFails, Passes
    <3> QED BY <1>3, <3>1, <3>2
  <2> QED BY <2>1, <2>2, CarriesOnKeeps DEF CarriesOn
<1>4. CASE SkipSettledPhase(w)
  <2>1. /\ row' = row /\ pass[w].pc = "loop" /\ row.status # "error"
        /\ \E p : Reprobe(w, row, p, {})
    BY <1>4 DEF SkipSettledPhase, Dispatches, At
  <2>2. \/ pass'[w].pc \in {"loop", "exit"}
        \/ pass'[w].pc = "refresh" /\ row.status # "error"
    BY <2>1, NextLabel
  <2> QED BY <2>1, <2>2, CarriesOnKeeps DEF CarriesOn
<1>5. CASE PhaseLockTimeout(w)
  <2>1. row' = row /\ pass[w].pc = "loop" /\ row.status # "error"
    BY <1>5 DEF PhaseLockTimeout, Dispatches, At, shared
  <2>2. PICK p : \/ \E S, label : /\ label \in {"loop", "exit", "refresh"}
                                  /\ pass' = [pass EXCEPT ![w] =
                                       [@ EXCEPT !.pending = S, !.pc = label]]
                 \/ pass' = [pass EXCEPT ![w].pending = @ \ {p}]
    BY <1>5 DEF PhaseLockTimeout
  <2>3. pass'[w].pc \in {"loop", "exit", "refresh"}
    BY <2>1, <2>2, PassUpdates DEF Passes
  <2> QED BY <2>1, <2>3, CarriesOnKeeps DEF CarriesOn
<1>6. CASE ParseSweep(w) \/ EmbedDelete(w) \/ RunExternal(w) \/ AskAgain(w)
  <2>1. /\ row' = row /\ pass[w].pc \in {"sweep", "replace", "run", "wait"}
        /\ pass'[w].pc \in {"reset", "restore", "record", "run"}
        /\ pass'[w].cur = pass[w].cur
        /\ pass'[w].pc = "reset" => pass[w].pc = "sweep"
    BY <1>6, NextLabel
       DEF ParseSweep, EmbedDelete, RunExternal, AskAgain, At, shared
  <2> QED BY <2>1, CarriesOnKeeps DEF CarriesOn, BodyLabels
<1>7. CASE ParseStore(w)
  <2>1. /\ row' = row /\ pass[w].pc = "build"
        /\ pass'[w].pc = "record" /\ pass'[w].cur = pass[w].cur
    BY <1>7, PassUpdates DEF ParseStore, At, Passes
  <2> QED BY <2>1, CarriesOnKeeps DEF CarriesOn, BodyLabels
<1> QED BY <1>1, <1>2, <1>3, <1>4, <1>5, <1>6, <1>7

(* ... and those that do.  After a write the row is not completed.         *)
LEMMA WrittenKnows ==
    ASSUME Alone, NEW w \in Workers, row'.status # "completed",
           \/ pass'[w].pc \in {"recover", "loop", "exit"}
           \/ /\ pass'[w].pc = "refresh"
              /\ row'.status = "error" =>
                    \E p \in Phases : row'.diary[p].state = "error"
    PROVE  RowIsKnown'
BY OneWorker DEF PassKnowsRow, CompletedIsSettled, CarriesOn, BodyLabels

LEMMA RoundsKnow ==
    ASSUME TypeOK, RowIsKnown, Alone, NEW w \in Workers,
           PurgeDone(w) \/ Propagate(w) \/ SkipInapplicablePhase(w)
           \/ ExternalSkips(w) \/ Finish(w)
    PROVE  RowIsKnown'
<1> USE DEF TypeOK, SharedTypeOK, PassTypeOK
<1>1. CASE PurgeDone(w)
  <2>1. row.status # "completed"
    BY <1>1 DEF PurgeDone, At, RowIsKnown, PassKnowsRow, CarriesOn
  <2>2. /\ ResetPhaseEntries(row, pass[w].purged) \in Rows
        /\ ResetPhaseEntries(row, pass[w].purged).status = row.status
    BY ResetType DEF ResetPhaseEntries, Rows
  <2>3. AfterPurge(w).status # "completed"
    BY <2>1, <2>2, StatusFacts DEF AfterPurge, SetStatus, Rows
  <2>4. PICK S, label : /\ label \in {"loop", "exit"}
                        /\ pass' = [pass EXCEPT ![w] =
                             [@ EXCEPT !.pc = label, !.pending = S,
                                       !.purged = {}, !.failed = {}]]
    BY <1>1 DEF PurgeDone
  <2>5. pass'[w].pc \in {"loop", "exit"}
    BY <2>4, PassUpdates DEF Passes
  <2> QED BY <1>1, <2>3, <2>5, WrittenKnows DEF PurgeDone
<1>2. CASE Propagate(w)
  <2>1. PICK p \in Blocked(w), state \in Failed, S \in SUBSET Phases,
             label \in {"loop", "refresh"} :
          /\ row' = LET r == WritePhaseEntry(row, p, Outcome(state))
                    IN  IF state = "error" THEN SetStatus(r, "error") ELSE r
          /\ pass' = [pass EXCEPT ![w] =
                         [@ EXCEPT !.pending = S, !.pc = label]]
    BY <1>2, StaleType DEF Propagate
  <2>2. p \in Phases
    BY PassUpdates DEF Blocked, Passes
  <2>3. pass'[w].pc \in {"loop", "refresh"}
    BY <2>1, PassUpdates DEF Passes
  <2>4. WritePhaseEntry(row, p, Outcome(state)) \in Rows
    BY <2>2, WritePhaseEntryType, OutcomeType DEF Failed, EntryStates
  <2>5. /\ row'.status = IF state = "error" THEN "error" ELSE "processing"
        /\ row'.diary[p].state = state
    <3> DEFINE r == WritePhaseEntry(row, p, Outcome(state))
    <3>1. r.status = "processing" /\ r.diary[p].state = state
      BY <2>2, RowFacts, EntryFacts DEF WritePhaseEntry, SetStatus, Rows
    <3>2. row' = IF state = "error" THEN SetStatus(r, "error") ELSE r
      BY <2>1
    <3> HIDE DEF r
    <3>3. r \in Rows
      BY <2>4 DEF r
    <3> QED BY <3>1, <3>2, <3>3, StatusFacts
  <2> QED BY <2>2, <2>3, <2>5, WrittenKnows
<1>3. ASSUME NEW p \in Phases, NEW e,
             row' = WritePhaseEntry(row, p, e), NEW more,
             Reprobe(w, row', p, more)
      PROVE  RowIsKnown'
  <2>1. row'.status = "processing"
    BY <1>3, RowWritten
  <2> QED BY <1>3, <2>1, NextLabel, WrittenKnows
<1>4. pass[w].cur \in Phases
  BY PassUpdates DEF Passes
<1>5. CASE SkipInapplicablePhase(w)
  BY <1>3, <1>5, FaultsAssumption DEF SkipInapplicablePhase
<1>6. CASE ExternalSkips(w)
  BY <1>3, <1>4, <1>6 DEF ExternalSkips
<1>7. CASE Finish(w)
  BY <1>3, <1>4, <1>7 DEF Finish
<1> QED BY <1>1, <1>2, <1>5, <1>6, <1>7

LEMMA BodiesKnow ==
    ASSUME TypeOK, RowIsKnown, Alone, NEW w \in Workers,
           RunPhase(w) \/ ParseReset(w) \/ EmbedAdd(w) \/ ExternalWaits(w)
           \/ ExternalGivesUp(w) \/ BodyFails(w) \/ FailsSource(w)
    PROVE  RowIsKnown'
<1> USE DEF TypeOK, SharedTypeOK, PassTypeOK
<1>1. CASE RunPhase(w)
  <2>1. PICK p \in Phases :
          /\ row' = WritePhaseEntry(row, p, RunBy(Owner(w)))
          /\ pass' = [pass EXCEPT ![w] =
                        [@ EXCEPT !.pc = BodyOf(p), !.cur = p]]
    BY <1>1 DEF RunPhase
  <2>2. pass'[w].pc = BodyOf(p) /\ pass'[w].cur = p
    BY <2>1, PassUpdates DEF Passes
  <2>3. row'.status = "processing" /\ row'.diary[p].state = "processing"
    BY <2>1, RowWritten, EntryFacts
  <2>4. /\ BodyOf(p) \in {"sweep", "replace", "run"}
        /\ BodyOf(p) = "sweep" => p = Parsing
    BY DEF BodyOf
  <2> HIDE DEF BodyOf
  <2>5. PassKnowsRow(w)'
    BY <2>2, <2>3, <2>4 DEF PassKnowsRow
  <2> QED BY <2>3, <2>5, OneWorker DEF CompletedIsSettled
<1>2. CASE ParseReset(w)
  <2>1. /\ pass[w].pc = "reset" /\ pass'[w].pc = "build"
        /\ pass'[w].cur = pass[w].cur
        /\ row' = ResetPhaseEntries(row, Downstream(Parsing))
    BY <1>2, NextLabel DEF ParseReset, At
  <2>2. /\ pass[w].cur = Parsing /\ row.status # "completed"
        /\ row.diary[Parsing].state = "processing"
    BY <2>1 DEF RowIsKnown, PassKnowsRow, CarriesOn, BodyLabels
  <2>3. Parsing \in Phases /\ Parsing \notin Downstream(Parsing)
    BY PhasesAssumption DEF Downstream
  <2>4. /\ row'.status # "completed"
        /\ row'.diary[Parsing].state = "processing"
    BY <2>1, <2>2, <2>3, RowReset
  <2>5. PassKnowsRow(w)'
    BY <2>1, <2>2, <2>4 DEF PassKnowsRow
  <2> QED BY <2>4, <2>5, OneWorker DEF CompletedIsSettled
<1>3. CASE EmbedAdd(w)
  <2>1. /\ pass[w].pc = "restore"
        /\ row' = row \/ row' = SetStatus(row, "processing")
    BY <1>3 DEF EmbedAdd, At
  <2>2. pass'[w].pc = "record" /\ pass'[w].cur = pass[w].cur
    BY <1>3, PassUpdates DEF EmbedAdd, Passes
  <2>3. row.status # "completed"
        /\ row.diary[pass[w].cur].state = "processing"
    BY <2>1 DEF RowIsKnown, PassKnowsRow, CarriesOn, BodyLabels
  <2>4. row'.status # "completed" /\ row'.diary = row.diary
    BY <2>1, <2>3, StatusFacts
  <2>5. PassKnowsRow(w)'
    BY <2>2, <2>3, <2>4 DEF PassKnowsRow
  <2> QED BY <2>4, <2>5, OneWorker DEF CompletedIsSettled
<1>4. CASE ExternalWaits(w)
  <2>1. /\ pass[w].pc = "run" /\ pass'[w].pc = "wait"
        /\ pass'[w].cur = pass[w].cur
    BY <1>4, NextLabel DEF ExternalWaits, At
  <2>2. row'.status = "processing" /\ row'.diary = row.diary
    BY <1>4, SetStatusType, StatusFacts
       DEF ExternalWaits, Statuses, Rows
  <2>3. row.diary[pass[w].cur].state = "processing"
    BY <2>1 DEF RowIsKnown, PassKnowsRow, BodyLabels
  <2>4. PassKnowsRow(w)'
    BY <2>1, <2>2, <2>3 DEF PassKnowsRow
  <2> QED BY <2>2, <2>4, OneWorker DEF CompletedIsSettled
<1>5. CASE ExternalGivesUp(w) \/ BodyFails(w)
  <2>1. pass'[w].pc = "blame"
    BY <1>5, NextLabel DEF ExternalGivesUp, BodyFails, FailsPhase
  <2>2. row'.status = "processing"
    BY <1>5, PassUpdates, RowWritten
       DEF ExternalGivesUp, BodyFails, FailsPhase, Passes
  <2>3. PassKnowsRow(w)'
    BY <2>1 DEF PassKnowsRow, CarriesOn, BodyLabels
  <2> QED BY <2>2, <2>3, OneWorker DEF CompletedIsSettled
<1>6. CASE FailsSource(w)
  BY <1>6, NextLabel, StatusFacts, WrittenKnows DEF FailsSource
<1> QED BY <1>1, <1>2, <1>3, <1>4, <1>5, <1>6

LEMMA EndKnows ==
    ASSUME TypeOK, RowIsKnown, Alone, NEW w \in Workers,
           Refresh(w) \/ GatePasses(w) \/ GateVetoes(w) \/ Exit(w)
    PROVE  RowIsKnown'
<1> USE DEF TypeOK, SharedTypeOK
<1>1. CASE Refresh(w)
  <2>1. /\ row.status # "completed"
        /\ row.status = "error" =>
              \E p \in Phases : row.diary[p].state = "error"
    BY <1>1 DEF Refresh, At, RowIsKnown, PassKnowsRow, CarriesOn
  <2>2. CASE DeriveSourceStatus(row.diary) = "completed" /\ Goto(w, "gate")
    <3>1. row' = row /\ pass'[w].pc = "gate" /\ Present
          /\ row.status \notin Explicit
      BY <1>1, <2>2, NextLabel DEF Refresh, Goto, TypeOK, PassTypeOK, Passes
    <3>2. row.status \in InFlight /\ AllDone(row.diary)
      BY <2>1, <2>2, <3>1, DerivedFacts
         DEF Present, Explicit, InFlight, Rows, Statuses
    <3>3. PassKnowsRow(w)'
      BY <3>1, <3>2 DEF PassKnowsRow, CarriesOn, BodyLabels
    <3> QED BY <2>1, <3>1, <3>3, OneWorker DEF CompletedIsSettled
  <2>3. CASE Goto(w, "exit") /\ row' = row
    BY <2>1, <2>3, NextLabel, WrittenKnows
  <2>4. CASE Goto(w, "exit")
             /\ row' = SetStatus(row, DeriveSourceStatus(row.diary))
             /\ DeriveSourceStatus(row.diary) # "completed"
    BY <2>4, NextLabel, StatusFacts, WrittenKnows
  <2> QED BY <1>1, <2>2, <2>3, <2>4 DEF Refresh
<1>2. CASE GatePasses(w)
  <2>1. row' = SetStatus(row, "completed") /\ pass'[w].pc = "exit"
        /\ AllDone(row.diary)
    BY <1>2, NextLabel DEF GatePasses, At, RowIsKnown, PassKnowsRow
  <2>2. row'.diary = row.diary
    BY <2>1, StatusFacts
  <2>3. PassKnowsRow(w)'
    BY <2>1 DEF PassKnowsRow, CarriesOn, BodyLabels
  <2> QED BY <2>1, <2>2, <2>3, OneWorker DEF CompletedIsSettled, AllDone
<1>3. CASE GateVetoes(w)
  BY <1>3, NextLabel, StatusFacts, WrittenKnows DEF GateVetoes
<1>4. CASE Exit(w)
  <2>1. row' = row /\ pass'[w].pc = "idle"
    BY <1>4, NextLabel DEF Exit
  <2>2. PassKnowsRow(w)'
    BY <2>1 DEF PassKnowsRow, CarriesOn, BodyLabels
  <2> QED BY <2>1, <2>2, OneWorker DEF RowIsKnown, CompletedIsSettled
<1> QED BY <1>1, <1>2, <1>3, <1>4

LEMMA EnvironmentKnows ==
    ASSUME TypeOK, RowIsKnown, Environment
    PROVE  RowIsKnown'
<1> USE DEF TypeOK, SharedTypeOK
<1>1. ASSUME row' = row,
             \A w \in Workers : pass'[w] = pass[w] \/ pass'[w] = IdlePass
      PROVE  RowIsKnown'
  BY <1>1 DEF RowIsKnown, CompletedIsSettled, PassKnowsRow, IdlePass,
              CarriesOn, BodyLabels
<1>2. ASSUME pass' = pass, row'.status = row.status,
             \A p \in Phases : row'.diary[p].state = row.diary[p].state
      PROVE  RowIsKnown'
  <2>1. \A w \in Workers : pass[w].cur \in Phases
    BY PassUpdates DEF Passes
  <2> QED BY <1>2, <2>1
          DEF RowIsKnown, CompletedIsSettled, PassKnowsRow, AllDone
<1>3. CASE \E proc \in Procs : Crash(proc)
  BY <1>1, <1>3 DEF Crash
<1>4. CASE SourceLockExpires
  BY <1>1, <1>4 DEF SourceLockExpires
<1>5. CASE \E p \in Phases : PhaseLockExpires(p) \/ SettingsChange(p)
  BY <1>1, <1>5 DEF PhaseLockExpires, SettingsChange
<1>6. CASE \E p \in Phases : LeaseAges(p)
  <2>1. PICK q \in Phases : row' = [row EXCEPT !.diary[q].aged = TRUE]
                            /\ pass' = pass
    BY <1>6 DEF LeaseAges
  <2>2. /\ row'.status = row.status
        /\ \A p \in Phases : row'.diary[p].state = row.diary[p].state
    BY <2>1, RowFacts DEF Rows, Entries
  <2> QED BY <1>2, <2>1, <2>2
<1>7. CASE BudgetRunsOut
  BY <1>2, <1>7 DEF BudgetRunsOut, Rows
<1>8. CASE StoreWiped
  BY <1>1, <1>8 DEF StoreWiped
<1> QED BY <1>3, <1>4, <1>5, <1>6, <1>7, <1>8 DEF Environment

LEMMA NextKnows ==
    ASSUME Alone
    PROVE  TypeOK /\ RowIsKnown /\ [Next]_vars => RowIsKnown'
<1> SUFFICES ASSUME TypeOK, RowIsKnown, [Next]_vars
             PROVE  RowIsKnown'
  OBVIOUS
<1>1. ASSUME NEW w \in Workers, Enter(w) \/ BeforeLock(w)
      PROVE  RowIsKnown'
  BY <1>1, EnterKnows, BeforeLockKnows
<1>2. ASSUME NEW w \in Workers, UnderLock(w)
      PROVE  RowIsKnown'
  BY <1>2, ClaimKnows, QuietStepsKnow, RoundsKnow, BodiesKnow, EndKnows
     DEF UnderLock
<1>3. CASE Environment
  BY <1>3, EnvironmentKnows
<1>4. CASE UNCHANGED vars
  BY <1>4 DEF vars, RowIsKnown, CompletedIsSettled, PassKnowsRow
<1> QED BY <1>1, <1>2, <1>3, <1>4 DEF Next, Alone

LEMMA InitKnows == Init => RowIsKnown
BY DEF Init, SharedInit, PassInit, IdlePass, NoRow, RowIsKnown,
       CompletedIsSettled, PassKnowsRow, CarriesOn, BodyLabels

LEMMA RowKnown ==
    ASSUME Alone
    PROVE  Spec => []RowIsKnown
<1>1. TypeOK /\ RowIsKnown /\ [Next]_vars => RowIsKnown'
  BY NextKnows
<1> QED BY <1>1, InitKnows, TypeCorrect, PTL DEF Spec

(* Section 1: while only one worker is at a time, and whatever fails or    *)
(* crashes, a source reads completed only over a settled diary.            *)
THEOREM CompletedSettled ==
    ASSUME Alone
    PROVE  Spec => []CompletedIsSettled
<1>1. RowIsKnown => CompletedIsSettled
  BY DEF RowIsKnown
<1> QED BY <1>1, RowKnown, PTL

----------------------------------------------------------------------------
(* The refinement: what each step shows of the row.                        *)

Shown == [p \in Phases |-> OutcomeSeen(row.diary[p].state)]

LEMMA ShownFacts ==
    ASSUME TypeOK
    PROVE  /\ \A p \in Phases :
                row.diary[p].state \in {"pending", "processing"}
                => Shown[p] = "open"
           /\ \A p \in Phases : row.diary[p].state = "complete"
                => Shown[p] = "done"
           /\ \A p \in Phases : row.diary[p].state = "skipped"
                => Shown[p] = "skipped"
           /\ \A p \in Phases : row.diary[p].state = "error"
                => Shown[p] = "failed"
BY DEF Shown, OutcomeSeen

(* A write that leaves the diary alone.                                    *)
LEMMA StatusShown ==
    ASSUME \A p \in Phases : row'.diary[p].state = row.diary[p].state
    PROVE  /\ Shown' = Shown
           /\ row'.status \in {"uploaded", "processing"} => Lifecycle!Hand
           /\ row'.status = "error" => Lifecycle!Fail
           /\ row'.status = row.status => UNCHANGED Lifecycle!seen
<1>1. Shown' = Shown
  BY DEF Shown
<1> QED BY <1>1 DEF Shown, Lifecycle!Hand, Lifecycle!Fail, Lifecycle!seen

(* A write of one entry.                                                   *)
LEMMA EntryShown ==
    ASSUME NEW p \in Phases, NEW state, row'.diary[p].state = state,
           \A q \in Phases \ {p} : row'.diary[q] = row.diary[q]
    PROVE  Shown' = [Shown EXCEPT ![p] = OutcomeSeen(state)]
BY DEF Shown

(* Before the lock a pass writes nothing but the status.                   *)
LEMMA EnterKeepsDiary ==
    ASSUME row \in Rows, NEW w \in Workers, Enter(w)
    PROVE  /\ row'.diary = row.diary
           /\ row' = row \/ row'.status = "uploaded"
BY StatusFacts DEF Enter, UploadStart, ResumeList, RevalidateList,
   ReembedStart, shared

LEMMA BeforeLockKeepsDiary ==
    ASSUME row \in Rows, NEW w \in Workers, BeforeLock(w)
    PROVE  /\ row'.diary = row.diary
           /\ row' = row \/ row'.status \in {"processing", "error"}
<1>1. CASE \/ Begin(w) \/ ProbeExplicit(w) \/ ProbeNoRow(w) \/ ProbeStale(w)
           \/ ProbeStoreEmpty(w) \/ ProbeFresh(w) \/ LockSource(w)
           \/ LockSourceTimeout(w) \/ RevalidateRefused(w) \/ HandOver(w)
  BY <1>1 DEF Begin, ProbeExplicit, ProbeNoRow, ProbeStale, ProbeStoreEmpty,
              ProbeFresh, LockSource, LockSourceTimeout, RevalidateRefused,
              HandOver, shared
<1>2. CASE UploadPersist(w) \/ MarkFileMissing(w)
  BY <1>2, StatusFacts DEF UploadPersist, MarkFileMissing
<1>3. CASE RevalidateClaim(w)
  BY <1>3 DEF RevalidateClaim, Rows
<1> QED BY <1>1, <1>2, <1>3 DEF BeforeLock

LEMMA EnterShown ==
    ASSUME TypeOK, NEW w \in Workers, Enter(w) \/ BeforeLock(w)
    PROVE  [Lifecycle!Next]_(Lifecycle!seen)
<1>1. row \in Rows
  BY DEF TypeOK, SharedTypeOK
<1>2. /\ row'.diary = row.diary
      /\ row' = row \/ row'.status \in {"uploaded", "processing", "error"}
  BY <1>1, EnterKeepsDiary, BeforeLockKeepsDiary
<1> QED BY <1>2, StatusShown DEF Lifecycle!Next

(* The steps under the lock that keep the diary.                           *)
LEMMA DiaryKeptShown ==
    ASSUME TypeOK, NEW w \in Workers,
           \/ Claim(w) \/ ClaimRefused(w)
           \/ RecoverNothing(w) \/ RecoverStart(w) \/ Purge(w) \/ PurgeFails(w)
           \/ LoopEnds(w) \/ SkipSettledPhase(w) \/ PhaseLockTimeout(w)
           \/ ParseSweep(w) \/ ParseStore(w) \/ EmbedDelete(w) \/ EmbedAdd(w)
           \/ RunExternal(w) \/ ExternalWaits(w) \/ AskAgain(w)
           \/ FailsSource(w) \/ GateVetoes(w) \/ Exit(w)
    PROVE  [Lifecycle!Next]_(Lifecycle!seen)
<1>1. row \in Rows
  BY DEF TypeOK, SharedTypeOK
<1>2. CASE row' = row
  BY <1>2, StatusShown
<1>3. CASE Claim(w)
  <2>1. row'.diary = row.diary /\ row'.status = "processing"
    BY <1>1, <1>3 DEF Claim, Rows
  <2> QED BY <2>1, StatusShown DEF Lifecycle!Next
<1>4. CASE EmbedAdd(w) /\ row' # row
  <2>1. row'.diary = row.diary /\ row'.status = "processing"
    BY <1>1, <1>4, StatusFacts DEF EmbedAdd
  <2> QED BY <2>1, StatusShown DEF Lifecycle!Next
<1>5. CASE ExternalWaits(w)
  <2>1. row'.diary = row.diary /\ row'.status = "processing"
    BY <1>1, <1>5 DEF ExternalWaits, SetStatus, Rows
  <2> QED BY <2>1, StatusShown DEF Lifecycle!Next
<1>6. CASE FailsSource(w) \/ GateVetoes(w)
  <2>1. row'.diary = row.diary /\ row'.status = "error"
    BY <1>1, <1>6, StatusFacts DEF FailsSource, GateVetoes
  <2> QED BY <2>1, StatusShown DEF Lifecycle!Next
<1> QED BY <1>2, <1>3, <1>4, <1>5, <1>6
        DEF ClaimRefused, RecoverNothing, RecoverStart, Purge, PurgeFails,
            LoopEnds, SkipSettledPhase, PhaseLockTimeout, ParseSweep,
            ParseStore, EmbedDelete, RunExternal, AskAgain, Exit, shared

(* The purge of abandoned phases and the reset below a parsing.            *)
LEMMA ResetShown ==
    ASSUME TypeOK, RowIsKnown, NEW w \in Workers,
           PurgeDone(w) \/ ParseReset(w)
    PROVE  Lifecycle!Reset
<1>1. row \in Rows /\ row.status # "completed"
  BY DEF TypeOK, SharedTypeOK, RowIsKnown, PassKnowsRow, CarriesOn, BodyLabels,
         PurgeDone, ParseReset, At
<1>2. ASSUME NEW S \in SUBSET Phases,
             row'.status \in {row.status, "processing"},
             \A p \in Phases : IF p \in S
                               THEN row'.diary[p].state
                                       \in {"pending", "processing"}
                               ELSE row'.diary[p] = row.diary[p]
      PROVE  Lifecycle!Reset
  <2>1. Shown' = [p \in Phases |-> IF p \in S THEN "open" ELSE Shown[p]]
    BY <1>2 DEF Shown, OutcomeSeen
  <2> QED BY <1>1, <1>2, <2>1 DEF Lifecycle!Reset, Shown
<1>3. CASE ParseReset(w)
  <2>1. row' = ResetPhaseEntries(row, Downstream(Parsing))
        /\ Downstream(Parsing) \in SUBSET Phases
    BY <1>3 DEF ParseReset, Downstream
  <2> QED BY <1>1, <1>2, <2>1, RowReset, EntryFacts
<1>4. CASE PurgeDone(w)
  <2> DEFINE purged == pass[w].purged
             failed == pass[w].failed
             reset  == ResetPhaseEntries(row, purged)
  <2>1. purged \in SUBSET Phases /\ failed \in SUBSET Phases
    BY PassUpdates DEF TypeOK, Passes
  <2>2. /\ reset \in Rows /\ reset.status = row.status
        /\ \A p \in Phases :
              reset.diary[p] = IF p \in purged THEN NoEntry ELSE row.diary[p]
    BY <1>1, ResetType DEF ResetPhaseEntries, Rows
  <2>3. row' = AfterPurge(w)
    BY <1>4 DEF PurgeDone
  <2>4. CASE failed = {}
    <3>1. row' = reset
      BY <2>3, <2>4 DEF AfterPurge
    <3> HIDE DEF reset
    <3> QED BY <1>2, <2>1, <2>2, <3>1, EntryFacts
  <2>5. CASE failed # {}
    <3>1. row' = [SetStatus(reset, "processing") EXCEPT
                    !.diary = [p \in Phases |->
                       IF p \in failed THEN PurgeFailed ELSE @[p]]]
      BY <2>3, <2>5 DEF AfterPurge
    <3> HIDE DEF reset
    <3>2. /\ row'.status = "processing"
          /\ \A p \in Phases : row'.diary[p] =
                IF p \in failed THEN PurgeFailed ELSE reset.diary[p]
      BY <2>2, <3>1 DEF SetStatus, Rows
    <3>3. \A p \in Phases : IF p \in purged \cup failed
                            THEN row'.diary[p].state
                                    \in {"pending", "processing"}
                            ELSE row'.diary[p] = row.diary[p]
      BY <2>2, <3>2, EntryFacts
    <3> QED BY <1>2, <2>1, <3>2, <3>3
  <2> QED BY <2>4, <2>5
<1> QED BY <1>3, <1>4

LEMMA PropagateShown ==
    ASSUME TypeOK, RowIsKnown, NEW w \in Workers, Propagate(w)
    PROVE  \E p \in Phases : Lifecycle!Inherit(p)
<1>1. row \in Rows /\ row.status # "completed"
  BY DEF TypeOK, SharedTypeOK, RowIsKnown, PassKnowsRow, CarriesOn, Propagate,
         At
<1>2. PICK p \in Blocked(w), state \in Failed :
        /\ InheritsOutcome(p, row.diary, state)
        /\ row' = LET r == WritePhaseEntry(row, p, Outcome(state))
                  IN  IF state = "error" THEN SetStatus(r, "error") ELSE r
  BY DEF Propagate
<1>3. p \in Phases
  BY PassUpdates DEF Blocked, Passes, TypeOK
<1>4. PICK d \in Deps(p) : row.diary[d].state = state
  BY <1>2 DEF InheritsOutcome, Deps
<1>5. d \in Phases
  <2>1. DependsOn[p] \in Seq(Phases)
    BY <1>3, PhasesAssumption
  <2> QED BY <2>1 DEF Deps
<1>6. /\ row'.status = IF state = "error" THEN "error" ELSE "processing"
      /\ row'.diary[p].state = state
      /\ \A q \in Phases \ {p} : row'.diary[q] = row.diary[q]
  BY <1>1, <1>2, <1>3, RowFacts, EntryFacts
     DEF WritePhaseEntry, SetStatus, Rows
<1>7. Shown' = [Shown EXCEPT ![p] = OutcomeSeen(state)]
  BY <1>3, <1>6, EntryShown
<1>8. /\ Shown[d] = OutcomeSeen(state)
      /\ OutcomeSeen(state) = IF state = "error" THEN "failed" ELSE "skipped"
  BY <1>2, <1>4, <1>5 DEF Shown, OutcomeSeen, Failed
<1>9. Lifecycle!Inherit(p)
  BY <1>1, <1>3, <1>4, <1>6, <1>7, <1>8 DEF Lifecycle!Inherit, Shown
<1> QED BY <1>3, <1>9

(* A body begins: the guard lets no failed and no skipped phase through.   *)
LEMMA RunShown ==
    ASSUME TypeOK, RowIsKnown, NEW w \in Workers, RunPhase(w)
    PROVE  \E p \in Phases : Lifecycle!Run(p)
<1>1. row \in Rows /\ row.status # "completed"
  BY DEF TypeOK, SharedTypeOK, RowIsKnown, PassKnowsRow, CarriesOn, RunPhase,
         Dispatches, At
<1>2. PICK p \in Phases : /\ GuardPasses(w, p)
                          /\ row' = WritePhaseEntry(row, p, RunBy(Owner(w)))
  BY DEF RunPhase
<1>3. row.diary[p].state \in {"pending", "processing", "complete"}
  BY <1>1, <1>2, RowFacts DEF GuardPasses, IsPhaseStale, Settled, EntryStates
<1>4. Shown[p] \in {"open", "done"}
  BY <1>3, ShownFacts
<1>5. /\ row'.status = "processing"
      /\ Shown' = [Shown EXCEPT ![p] = "open"]
  BY <1>1, <1>2, RowWritten, EntryFacts, EntryShown DEF OutcomeSeen
<1>6. Lifecycle!Run(p)
  BY <1>1, <1>2, <1>4, <1>5 DEF Lifecycle!Run, Shown
<1> QED BY <1>6

(* A phase ends, in whichever way.                                         *)
LEMMA EndShown ==
    ASSUME TypeOK, row.status # "completed", NEW p \in Phases,
           NEW state \in {"complete", "skipped", "error"},
           row.diary[p].state \in {"pending", "processing", "complete"},
           row'.diary[p].state = state,
           \A q \in Phases \ {p} : row'.diary[q] = row.diary[q],
           row'.status = "processing"
    PROVE  Lifecycle!Conclude(p)
<1>1. Shown[p] \in {"open", "done"}
  BY ShownFacts
<1>2. Shown' = [Shown EXCEPT ![p] = OutcomeSeen(state)]
  BY EntryShown
<1>3. OutcomeSeen(state) \in {"done", "failed", "skipped"}
  BY DEF OutcomeSeen
<1> QED BY <1>1, <1>2, <1>3 DEF Lifecycle!Conclude, Lifecycle!Outcomes, Shown

LEMMA ConcludeShown ==
    ASSUME TypeOK, RowIsKnown, NEW w \in Workers,
           SkipInapplicablePhase(w) \/ ExternalSkips(w) \/ Finish(w)
           \/ ExternalGivesUp(w) \/ BodyFails(w)
    PROVE  \E p \in Phases : Lifecycle!Conclude(p)
<1>1. row \in Rows /\ row.status # "completed"
  BY DEF TypeOK, SharedTypeOK, RowIsKnown, PassKnowsRow, CarriesOn, BodyLabels,
         SkipInapplicablePhase, ExternalSkips, Finish, ExternalGivesUp,
         BodyFails, Dispatches, At
<1>2. pass[w].cur \in Phases
  BY PassUpdates DEF Passes, TypeOK
<1>3. CASE SkipInapplicablePhase(w)
  <2>1. PICK p \in Phases :
           /\ GuardPasses(w, p)
           /\ row' = WritePhaseEntry(row, p, Outcome("skipped"))
    BY <1>3, FaultsAssumption DEF SkipInapplicablePhase
  <2>2. row.diary[p].state \in {"pending", "processing", "complete"}
    BY <1>1, <2>1, RowFacts
       DEF GuardPasses, IsPhaseStale, Settled, EntryStates
  <2>3. Lifecycle!Conclude(p)
    BY <1>1, <2>1, <2>2, RowWritten, EntryFacts, EndShown
  <2> QED BY <2>3
<1>4. CASE ExternalSkips(w) \/ Finish(w)
  <2>1. row.diary[pass[w].cur].state = "processing"
    BY <1>4 DEF RowIsKnown, PassKnowsRow, BodyLabels, ExternalSkips, Finish, At
  <2>2. PICK e : /\ row' = WritePhaseEntry(row, pass[w].cur, e)
                 /\ e.state \in {"complete", "skipped"}
    BY <1>4, EntryFacts DEF ExternalSkips, Finish
  <2>3. Lifecycle!Conclude(pass[w].cur)
    BY <1>1, <1>2, <2>1, <2>2, RowWritten, EndShown
  <2> QED BY <1>2, <2>3
<1>5. CASE ExternalGivesUp(w) \/ BodyFails(w)
  <2>1. row.diary[pass[w].cur].state = "processing"
    BY <1>5 DEF RowIsKnown, PassKnowsRow, BodyLabels, ExternalGivesUp,
                BodyFails, At
  <2>2. row' = WritePhaseEntry(row, pass[w].cur, Outcome("error"))
    BY <1>5 DEF ExternalGivesUp, BodyFails, FailsPhase
  <2>3. Lifecycle!Conclude(pass[w].cur)
    BY <1>1, <1>2, <2>1, <2>2, RowWritten, EntryFacts, EndShown
  <2> QED BY <1>2, <2>3
<1> QED BY <1>3, <1>4, <1>5

LEMMA VerdictShown ==
    ASSUME TypeOK, RowIsKnown, NEW w \in Workers, Refresh(w) \/ GatePasses(w)
    PROVE  [Lifecycle!Next]_(Lifecycle!seen)
<1>1. row \in Rows
  BY DEF TypeOK, SharedTypeOK
<1>2. CASE Refresh(w)
  <2>1. \/ row' = row
        \/ /\ row' = SetStatus(row, DeriveSourceStatus(row.diary))
           /\ DeriveSourceStatus(row.diary) # "completed"
    BY <1>2 DEF Refresh
  <2>2. \/ row' = row
        \/ /\ row'.diary = row.diary
           /\ row'.status \in {"processing", "error"}
    BY <1>1, <2>1, StatusFacts, DerivedFacts
  <2> QED BY <2>2, StatusShown DEF Lifecycle!Next
<1>3. CASE GatePasses(w)
  <2>1. row.status \in InFlight /\ AllDone(row.diary)
    BY <1>3 DEF GatePasses, At, RowIsKnown, PassKnowsRow
  <2>2. row'.status = "completed" /\ row'.diary = row.diary
    BY <1>1, <1>3, StatusFacts DEF GatePasses
  <2>3. \A p \in Phases : Shown[p] \in {"done", "skipped"}
    BY <2>1, ShownFacts DEF AllDone
  <2>4. Shown' = Shown
    BY <2>2, StatusShown
  <2>5. Lifecycle!Complete
    BY <2>1, <2>2, <2>3, <2>4 DEF Lifecycle!Complete, Shown, InFlight
  <2> QED BY <2>5 DEF Lifecycle!Next
<1> QED BY <1>2, <1>3

(* Around the tasks, no status and no outcome changes.                     *)
LEMMA EnvironmentKeepsRow ==
    ASSUME TypeOK, Environment
    PROVE  /\ row'.status = row.status
           /\ \A p \in Phases : row'.diary[p].state = row.diary[p].state
<1>1. row \in Rows
  BY DEF TypeOK, SharedTypeOK
<1>2. CASE \E p \in Phases : LeaseAges(p)
  <2>1. PICK q \in Phases : row' = [row EXCEPT !.diary[q].aged = TRUE]
    BY <1>2 DEF LeaseAges
  <2> QED BY <1>1, <2>1, RowFacts DEF Rows, Entries
<1>3. CASE BudgetRunsOut
  BY <1>1, <1>3 DEF BudgetRunsOut, Rows
<1>4. CASE \/ \E proc \in Procs : Crash(proc)
           \/ SourceLockExpires \/ StoreWiped
           \/ \E p \in Phases : PhaseLockExpires(p) \/ SettingsChange(p)
  BY <1>4 DEF Crash, SourceLockExpires, StoreWiped, PhaseLockExpires,
              SettingsChange
<1> QED BY <1>2, <1>3, <1>4 DEF Environment

LEMMA EnvironmentShown ==
    ASSUME TypeOK, Environment
    PROVE  UNCHANGED Lifecycle!seen
BY EnvironmentKeepsRow, StatusShown

LEMMA NextShown ==
    ASSUME Alone, TypeOK, RowIsKnown, [Next]_vars
    PROVE  [Lifecycle!Next]_(Lifecycle!seen)
<1>1. ASSUME NEW w \in Workers, Enter(w) \/ BeforeLock(w)
      PROVE  [Lifecycle!Next]_(Lifecycle!seen)
  BY <1>1, EnterShown
<1>2. ASSUME NEW w \in Workers, UnderLock(w)
      PROVE  [Lifecycle!Next]_(Lifecycle!seen)
  <2>1. CASE PurgeDone(w) \/ ParseReset(w)
    BY <2>1, ResetShown DEF Lifecycle!Next
  <2>2. CASE Propagate(w)
    BY <2>2, PropagateShown DEF Lifecycle!Next
  <2>3. CASE RunPhase(w)
    BY <2>3, RunShown DEF Lifecycle!Next
  <2>4. CASE SkipInapplicablePhase(w) \/ ExternalSkips(w) \/ Finish(w)
             \/ ExternalGivesUp(w) \/ BodyFails(w)
    BY <2>4, ConcludeShown DEF Lifecycle!Next
  <2>5. CASE Refresh(w) \/ GatePasses(w)
    BY <2>5, VerdictShown
  <2> QED BY <1>2, <2>1, <2>2, <2>3, <2>4, <2>5, DiaryKeptShown DEF UnderLock
<1>3. CASE Environment
  BY <1>3, EnvironmentShown
<1>4. CASE UNCHANGED vars
  BY <1>4, StatusShown DEF vars
<1> QED BY <1>1, <1>2, <1>3, <1>4 DEF Next, Alone

LEMMA InitShown == Init => Lifecycle!Init
BY DEF Init, SharedInit, NoRow, EmptyDiary, NoEntry, Outcome, OutcomeSeen,
       Lifecycle!Init

(* The passes of one worker at a time implement the life of a source.      *)
THEOREM ImplementsLifecycle ==
    ASSUME Alone
    PROVE  Spec => FollowsLifecycle
<1>1. TypeOK /\ RowIsKnown /\ [Next]_vars => [Lifecycle!Next]_(Lifecycle!seen)
  BY NextShown
<1> QED BY <1>1, InitShown, TypeCorrect, RowKnown, PTL
        DEF Spec, FollowsLifecycle, Lifecycle!Spec
=============================================================================
