--------------------------- MODULE IngestionProofs ---------------------------
(***************************************************************************)
(* Proofs about Ingestion, for every value of its constants: the type      *)
(* invariant and, as long as no lock's TTL runs out under a working task,  *)
(* the mutual exclusion that docs/phase-contract.md section 5 promises.    *)
(***************************************************************************)
EXTENDS Ingestion, TLAPS

----------------------------------------------------------------------------
(* Types of the entries and of the rows.                                   *)

LEMMA NoTypes ==
    /\ NoTag \in Tags /\ NoOwner \in Owners
    /\ NoEntry \in Entries /\ PurgeFailed \in Entries
    /\ EmptyDiary \in Diaries /\ NoRow \in Rows
<1>1. NoTag \in Tags
  <2>1. NoTag \in [{} -> Versions]
    BY DEF NoTag
  <2>2. {} \in SUBSET Phases
    OBVIOUS
  <2> QED BY <2>1, <2>2 DEF Tags
<1>2. NoOwner \in Owners
  BY ProcsAssumption DEF NoOwner, Owners
<1>3. NoEntry \in Entries
  BY <1>1, <1>2 DEF NoEntry, Outcome, Entries, EntryStates
<1>4. PurgeFailed \in Entries
  BY <1>1, <1>2 DEF PurgeFailed, Outcome, Entries, EntryStates
<1>5. EmptyDiary \in Diaries
  BY <1>3 DEF EmptyDiary, Diaries
<1>6. NoRow \in Rows
  BY <1>2, <1>5 DEF NoRow, Rows, Statuses
<1> QED BY <1>1, <1>2, <1>3, <1>4, <1>5, <1>6

LEMMA OutcomeType ==
    ASSUME NEW s \in EntryStates
    PROVE  Outcome(s) \in Entries
BY NoTypes DEF Outcome, Entries

LEMMA CompleteType ==
    ASSUME NEW tag \in Tags
    PROVE  Complete(tag) \in Entries
BY NoTypes DEF Complete, Outcome, Entries, EntryStates

LEMMA RunByType ==
    ASSUME NEW o \in Owners
    PROVE  RunBy(o) \in Entries
BY NoTypes DEF RunBy, Outcome, Entries, EntryStates

(* A tag names settings of phases of the cone, and they are all phases.    *)
LEMMA CurrentTagType ==
    ASSUME settings \in [Phases -> Versions], NEW p \in Phases
    PROVE  CurrentTag(settings, p) \in Tags
<1>1. Cone(p) \in SUBSET Phases
  BY DEF Cone
<1>2. CurrentTag(settings, p) \in [Cone(p) -> Versions]
  BY <1>1 DEF CurrentTag
<1> QED BY <1>1, <1>2 DEF Tags

LEMMA StaleType ==
    ASSUME NEW t, NEW diary
    PROVE  Stale(t, diary) \in SUBSET Phases
BY DEF Stale, StalePhases

LEMMA DerivedStatusType ==
    ASSUME NEW diary
    PROVE  DeriveSourceStatus(diary) \in Statuses
BY DEF DeriveSourceStatus, Statuses

LEMMA SetStatusType ==
    ASSUME NEW r \in Rows, NEW s \in Statuses
    PROVE  SetStatus(r, s) \in Rows
BY DEF SetStatus, Rows

LEMMA WritePhaseEntryType ==
    ASSUME NEW r \in Rows, NEW p \in Phases, NEW e \in Entries
    PROVE  WritePhaseEntry(r, p, e) \in Rows
<1>1. SetStatus(r, "processing") \in Rows
  BY SetStatusType DEF Statuses
<1> DEFINE s == SetStatus(r, "processing")
<1>2. s.diary \in [Phases -> Entries]
  BY <1>1 DEF Rows, Diaries
<1>3. [s.diary EXCEPT ![p] = e] \in Diaries
  BY <1>2 DEF Diaries
<1>4. WritePhaseEntry(r, p, e) = [s EXCEPT !.diary = [s.diary EXCEPT ![p] = e]]
  BY <1>1 DEF WritePhaseEntry, Rows
<1>5. \A x \in Rows, d \in Diaries : [x EXCEPT !.diary = d] \in Rows
  BY DEF Rows
<1> HIDE DEF s
<1> QED BY <1>1, <1>3, <1>4, <1>5 DEF s

LEMMA ResetType ==
    ASSUME NEW r \in Rows, NEW S
    PROVE  ResetPhaseEntries(r, S) \in Rows
<1>1. r.diary \in [Phases -> Entries]
  BY DEF Rows, Diaries
<1>2. [p \in Phases |-> IF p \in S THEN NoEntry ELSE r.diary[p]] \in Diaries
  BY <1>1, NoTypes DEF Diaries
<1> QED BY <1>2 DEF ResetPhaseEntries, Rows

LEMMA OwnerType ==
    ASSUME TypeOK, NEW t \in Tasks
    PROVE  Owner(t) \in Owners
BY TasksAssumption DEF Owner, Owners, TypeOK, SharedTypeOK

LEMMA StoreTypes ==
    ASSUME TypeOK
    PROVE  /\ \A S : Without(store, S) \in [Phases -> 0 .. MaxVersion]
           /\ \A p : PurgedBy(store, p) \in [Phases -> 0 .. MaxVersion]
<1>1. 0 \in 0 .. MaxVersion
  BY ProcsAssumption
<1>2. \A S : Without(store, S) \in [Phases -> 0 .. MaxVersion]
  BY <1>1 DEF Without, TypeOK, SharedTypeOK, Nothing
<1>3. ASSUME NEW p
      PROVE  PurgedBy(store, p) \in [Phases -> 0 .. MaxVersion]
  <2>1. PurgedBy(store, p) \in {store, Without(store, Chunks),
                                Without(store, {p})}
    BY DEF PurgedBy
  <2> QED BY <1>2, <2>1 DEF TypeOK, SharedTypeOK
<1> QED BY <1>2, <1>3

LEMMA LockTypes ==
    ASSUME TypeOK, NEW t \in Tasks
    PROVE  /\ SourceLockLeftBy(t) \in Holders
           /\ PhaseLocksLeftBy(t) \in [Phases -> Holders]
           /\ t \in Holders /\ NoTask \in Holders /\ DeadTask \in Holders
BY DEF TypeOK, SharedTypeOK, SourceLockLeftBy, PhaseLocksLeftBy, Holders

----------------------------------------------------------------------------
(* Types of the local states.                                              *)

LEMMA PassUpdates ==
    ASSUME PassTypeOK, NEW w \in Workers
    PROVE  /\ IdlePass \in Passes
           /\ pass[w] \in Passes
           /\ \A q \in Passes : [pass EXCEPT ![w] = q] \in [Workers -> Passes]
<1>1. IdlePass \in Passes
  BY PhasesAssumption, ProcsAssumption
     DEF IdlePass, Passes, Labels, Locked, BodyLabels, Kinds, Statuses
<1> QED BY <1>1 DEF PassTypeOK

LEMMA GotoType ==
    ASSUME PassTypeOK, NEW w \in Workers, NEW label \in Labels, Goto(w, label)
    PROVE  PassTypeOK'
BY DEF Goto, PassTypeOK, Passes

LEMMA StopType ==
    ASSUME PassTypeOK, NEW w \in Workers, Stop(w)
    PROVE  PassTypeOK'
BY PassUpdates DEF Stop, PassTypeOK

LEMMA StartType ==
    ASSUME PassTypeOK, NEW w \in Workers, NEW kind \in Kinds,
           NEW label \in Labels, Start(w, kind, label)
    PROVE  PassTypeOK'
<1>1. [IdlePass EXCEPT !.kind = kind, !.pc = label] \in Passes
  BY PassUpdates DEF Passes
<1> QED BY <1>1, PassUpdates DEF Start, PassTypeOK

LEMMA QueueType ==
    ASSUME TypeOK, NEW w \in Workers, NEW S \in SUBSET Phases,
           NEW forced \in BOOLEAN, QueueFor(w, S, forced)
    PROVE  PassTypeOK'
<1>1. [pass[w] EXCEPT !.pc = "lock", !.seen = row.status,
                      !.pending = S, !.forced = forced] \in Passes
  BY PassUpdates DEF TypeOK, SharedTypeOK, Rows, Passes, Labels
<1> QED BY <1>1, PassUpdates DEF QueueFor, TypeOK, PassTypeOK

(* The pending list and the label are all that the end of a round changes. *)
LEMMA RoundType ==
    ASSUME PassTypeOK, NEW w \in Workers, NEW S \in SUBSET Phases,
           NEW label \in Labels,
           pass' = [pass EXCEPT ![w] =
                      [@ EXCEPT !.pending = S, !.pc = label]]
    PROVE  PassTypeOK'
<1>1. [pass[w] EXCEPT !.pending = S, !.pc = label] \in Passes
  BY PassUpdates DEF Passes
<1> QED BY <1>1, PassUpdates DEF PassTypeOK

LEMMA ReprobeType ==
    ASSUME TypeOK, NEW w \in Workers, NEW r, NEW p \in Phases,
           NEW more \in SUBSET Phases, Reprobe(w, r, p, more)
    PROVE  PassTypeOK' /\ phaseLock' \in [Phases -> Holders]
<1> DEFINE pending == Stale(w, r.diary) \cup more
           label == IF pending # {} THEN "loop"
                    ELSE IF r.status = "error" \/ Running(w, r.diary)
                         THEN "exit" ELSE "refresh"
<1>1. pending \in SUBSET Phases
  BY StaleType
<1>2. label \in Labels
  BY DEF Labels, Locked
<1>3. /\ pass' = [pass EXCEPT ![w] =
                     [@ EXCEPT !.pending = pending, !.pc = label]]
      /\ phaseLock' \in {[phaseLock EXCEPT ![p] = w], PhaseLocksLeftBy(w)}
  BY DEF Reprobe
<1> HIDE DEF pending, label
<1>4. PassTypeOK'
  BY <1>1, <1>2, <1>3, RoundType DEF TypeOK
<1>5. phaseLock' \in [Phases -> Holders]
  BY <1>3, LockTypes DEF Tasks, TypeOK, SharedTypeOK
<1> QED BY <1>4, <1>5

----------------------------------------------------------------------------
(* Every step of a pass keeps the types: the starts, ...                   *)

LEMMA EnterTyped ==
    ASSUME TypeOK, NEW w \in Workers, Enter(w)
    PROVE  PassTypeOK' /\ SharedTypeOK'
<1> USE DEF TypeOK, SharedTypeOK
<1>1. CASE UploadStart(w)
  BY <1>1, StartType, SetStatusType
     DEF UploadStart, Kinds, Labels, Locked, Statuses
<1>2. CASE ResumeList(w)
  BY <1>2, StartType DEF ResumeList, Kinds, Labels, Locked, shared
<1>3. CASE RevalidateList(w)
  BY <1>3, StartType DEF RevalidateList, Kinds, Labels, Locked, shared
<1>4. CASE ReembedStart(w)
  BY <1>4, StartType DEF ReembedStart, Kinds, Labels, Locked, shared
<1> QED BY <1>1, <1>2, <1>3, <1>4 DEF Enter

(* ... the steps before the source lock, ...                               *)
LEMMA BeforeLockTyped ==
    ASSUME TypeOK, NEW w \in Workers, BeforeLock(w)
    PROVE  PassTypeOK' /\ SharedTypeOK'
<1> USE DEF TypeOK, SharedTypeOK
<1>0. {"handed", "lock", "probe", "begin", "claim", "refresh"} \subseteq Labels
  BY DEF Labels, Locked
<1>1. CASE UploadPersist(w)
  BY <1>0, <1>1, GotoType, SetStatusType DEF UploadPersist, Statuses
<1>2. CASE Begin(w)
  <2>1. store[Parsing] \in 0 .. MaxVersion
    BY PhasesAssumption
  <2>2. settings[Embedding] \in 0 .. MaxVersion
    BY PhasesAssumption, ProcsAssumption DEF Versions
  <2>3. \A m, n \in 0 .. MaxVersion :
           [pass[w] EXCEPT !.pc = "probe", !.snapshot = m, !.embedder = n]
              \in Passes
    BY <1>0, PassUpdates DEF Passes
  <2> QED BY <1>2, <2>1, <2>2, <2>3, PassUpdates
          DEF Begin, shared, PassTypeOK
<1>3. CASE ProbeExplicit(w)
  BY <1>3, StopType DEF ProbeExplicit, shared
<1>4. CASE ProbeNoRow(w)
  <2>1. {IF pass[w].snapshot # Nothing THEN Embedding ELSE Parsing}
           \in SUBSET Phases
    BY PhasesAssumption
  <2> QED BY <1>4, <2>1, QueueType DEF ProbeNoRow, shared
<1>5. CASE ProbeStale(w)
  BY <1>5, StaleType, QueueType DEF ProbeStale, shared
<1>6. CASE ProbeStoreEmpty(w)
  <2>1. QueueFor(w, Chunks, TRUE) /\ Chunks \in SUBSET Phases
    BY <1>6, PhasesAssumption DEF ProbeStoreEmpty, Chunks
  <2> QED BY <1>6, <2>1, QueueType DEF ProbeStoreEmpty, shared
<1>7. CASE ProbeFresh(w)
  BY <1>0, <1>7, StopType, GotoType DEF ProbeFresh, shared
<1>8. CASE LockSource(w)
  BY <1>0, <1>8, GotoType, LockTypes DEF LockSource, Tasks
<1>9. CASE LockSourceTimeout(w)
  BY <1>9, StopType DEF LockSourceTimeout, shared
<1>10. CASE RevalidateClaim(w)
  <2>1. [row EXCEPT !.status = "processing"] \in Rows
    BY DEF Rows, Statuses
  <2> QED BY <1>0, <1>10, <2>1, GotoType DEF RevalidateClaim
<1>11. CASE RevalidateRefused(w)
  BY <1>11, StopType DEF RevalidateRefused, shared
<1>12. CASE HandOver(w)
  BY <1>0, <1>12, GotoType DEF HandOver, shared
<1>13. CASE MarkFileMissing(w)
  BY <1>13, StopType, SetStatusType DEF MarkFileMissing, Statuses
<1> QED BY <1>1, <1>2, <1>3, <1>4, <1>5, <1>6, <1>7, <1>8, <1>9, <1>10,
           <1>11, <1>12, <1>13
        DEF BeforeLock

(* ... the claim and the recovery, ...                                     *)
LEMMA ClaimTyped ==
    ASSUME TypeOK, NEW w \in Workers, Claim(w) \/ ClaimRefused(w)
    PROVE  PassTypeOK' /\ SharedTypeOK'
<1> USE DEF TypeOK, SharedTypeOK
<1>1. CASE Claim(w)
  <2>1. row' \in Rows
    BY <1>1 DEF Claim, Rows, Statuses
  <2> QED BY <1>1, <2>1, GotoType DEF Claim, Labels, Locked
<1>2. CASE ClaimRefused(w)
  BY <1>2, GotoType DEF ClaimRefused, Labels, shared
<1> QED BY <1>1, <1>2

LEMMA RecoverTyped ==
    ASSUME TypeOK, NEW w \in Workers,
           RecoverNothing(w) \/ RecoverStart(w) \/ Purge(w) \/ PurgeFails(w)
    PROVE  PassTypeOK' /\ SharedTypeOK'
<1> USE DEF TypeOK, SharedTypeOK
<1>1. CASE RecoverNothing(w)
  BY <1>1, GotoType DEF RecoverNothing, Labels, Locked, shared
<1>2. CASE RecoverStart(w)
  <2>1. PICK first : pass' = [pass EXCEPT ![w] =
                     [@ EXCEPT !.pc = "purge", !.todo = FromOnward(first)]]
    BY <1>2 DEF RecoverStart
  <2>2. [pass[w] EXCEPT !.pc = "purge", !.todo = FromOnward(first)] \in Passes
    BY PassUpdates DEF Passes, FromOnward, Labels, Locked
  <2> QED BY <1>2, <2>1, <2>2, PassUpdates DEF RecoverStart, shared, PassTypeOK
<1>3. CASE Purge(w)
  <2>1. PICK p \in pass[w].todo :
           /\ store' = PurgedBy(store, p)
           /\ pass' = [pass EXCEPT ![w] =
                 [pass[w] EXCEPT !.todo = @ \ {p}, !.purged = @ \cup {p}]]
    BY <1>3 DEF Purge
  <2>2. [pass[w] EXCEPT !.todo = @ \ {p}, !.purged = @ \cup {p}] \in Passes
    BY PassUpdates DEF Passes
  <2>3. PassTypeOK'
    BY <2>1, <2>2, PassUpdates DEF PassTypeOK
  <2> QED BY <1>3, <2>1, <2>3, StoreTypes DEF Purge
<1>4. CASE PurgeFails(w)
  <2>1. PICK p \in pass[w].todo :
           pass' = [pass EXCEPT ![w] =
              [pass[w] EXCEPT !.todo = @ \ {p}, !.failed = @ \cup {p}]]
    BY <1>4 DEF PurgeFails
  <2>2. [pass[w] EXCEPT !.todo = @ \ {p}, !.failed = @ \cup {p}] \in Passes
    BY PassUpdates DEF Passes
  <2> QED BY <1>4, <2>1, <2>2, PassUpdates DEF PurgeFails, shared, PassTypeOK
<1> QED BY <1>1, <1>2, <1>3, <1>4

LEMMA PurgeDoneTyped ==
    ASSUME TypeOK, NEW w \in Workers, PurgeDone(w)
    PROVE  PassTypeOK' /\ SharedTypeOK'
<1> USE DEF TypeOK, SharedTypeOK
<1> DEFINE reset == ResetPhaseEntries(row, pass[w].purged)
           label == IF pass[w].failed = {} THEN "loop" ELSE "exit"
<1>1. reset \in Rows
  BY ResetType
<1>2. AfterPurge(w) \in Rows
  <2>1. SetStatus(reset, "processing") \in Rows
    BY <1>1, SetStatusType DEF Statuses
  <2>2. \A r \in Rows :
           [r EXCEPT !.diary = [p \in Phases |->
               IF p \in pass[w].failed THEN PurgeFailed ELSE @[p]]] \in Rows
    BY NoTypes DEF Rows, Diaries
  <2> HIDE DEF reset
  <2>3. AfterPurge(w) \in
           {reset, [SetStatus(reset, "processing") EXCEPT
                      !.diary = [p \in Phases |->
                         IF p \in pass[w].failed THEN PurgeFailed ELSE @[p]]]}
    BY DEF AfterPurge, reset
  <2> QED BY <1>1, <2>1, <2>2, <2>3
<1>3. \A S \in SUBSET Phases, l \in Labels :
         [pass[w] EXCEPT !.pc = l, !.pending = S,
                         !.purged = {}, !.failed = {}] \in Passes
  BY PassUpdates DEF Passes
<1>4. PassTypeOK'
  <2>1. label \in Labels
    BY DEF Labels, Locked
  <2>2. Stale(w, AfterPurge(w).diary) \in SUBSET Phases
    BY StaleType
  <2>3. pass' = [pass EXCEPT ![w] =
                   [@ EXCEPT !.pc = label,
                             !.pending = Stale(w, AfterPurge(w).diary),
                             !.purged = {}, !.failed = {}]]
    BY DEF PurgeDone
  <2> HIDE DEF label
  <2> QED BY <1>3, <2>1, <2>2, <2>3, PassUpdates DEF PassTypeOK
<1> QED BY <1>2, <1>4 DEF PurgeDone

(* ... the rounds of the dispatch loop, ...                                *)
LEMMA LoopTyped ==
    ASSUME TypeOK, NEW w \in Workers,
           LoopEnds(w) \/ Propagate(w) \/ RunPhase(w) \/ SkipSettledPhase(w)
    PROVE  PassTypeOK' /\ SharedTypeOK'
<1> USE DEF TypeOK, SharedTypeOK
<1>1. CASE LoopEnds(w)
  BY <1>1, GotoType DEF LoopEnds, Labels, shared
<1>2. CASE Propagate(w)
  <2>1. PICK p \in Phases, state \in Failed, S \in SUBSET Phases,
             label \in {"refresh", "loop"} :
          LET r == WritePhaseEntry(row, p, Outcome(state))
          IN  /\ row' = IF state = "error" THEN SetStatus(r, "error") ELSE r
              /\ pass' = [pass EXCEPT ![w] =
                            [@ EXCEPT !.pending = S, !.pc = label]]
    <3>1. PICK p \in Blocked(w), state \in Failed :
            LET r == WritePhaseEntry(row, p, Outcome(state))
                S == Stale(w, r.diary)
            IN  /\ row' = IF state = "error" THEN SetStatus(r, "error") ELSE r
                /\ pass' = [pass EXCEPT ![w] =
                     [@ EXCEPT !.pending = S,
                               !.pc = IF S = {} THEN "refresh" ELSE "loop"]]
      BY <1>2 DEF Propagate
    <3>2. p \in Phases
      BY PassUpdates DEF Passes, Blocked
    <3> QED BY <3>1, <3>2, StaleType
  <2>2. PassTypeOK'
    BY <2>1, RoundType DEF Labels, Locked
  <2>3. WritePhaseEntry(row, p, Outcome(state)) \in Rows
    BY OutcomeType, WritePhaseEntryType DEF Failed, EntryStates
  <2>4. row' \in Rows
    BY <2>1, <2>3, SetStatusType DEF Statuses
  <2> QED BY <1>2, <2>2, <2>4 DEF Propagate
<1>3. CASE RunPhase(w)
  <2>1. PICK p \in Phases :
          /\ row' = WritePhaseEntry(row, p, RunBy(Owner(w)))
          /\ phaseLock' = [phaseLock EXCEPT ![p] = w]
          /\ pass' = [pass EXCEPT ![w] =
                        [@ EXCEPT !.pc = BodyOf(p), !.cur = p]]
    BY <1>3 DEF RunPhase
  <2>2. row' \in Rows
    BY <2>1, OwnerType, RunByType, WritePhaseEntryType DEF Tasks
  <2>3. BodyOf(p) \in Labels
    BY DEF BodyOf, Labels, Locked, BodyLabels
  <2>4. \A l \in Labels : [pass[w] EXCEPT !.pc = l, !.cur = p] \in Passes
    BY PassUpdates DEF Passes
  <2>5. PassTypeOK'
    BY <2>1, <2>3, <2>4, PassUpdates DEF PassTypeOK
  <2> QED BY <1>3, <2>1, <2>2, <2>5 DEF RunPhase, Holders, Tasks
<1>4. CASE SkipSettledPhase(w)
  BY <1>4, ReprobeType DEF SkipSettledPhase
<1> QED BY <1>1, <1>2, <1>3, <1>4

LEMMA SkippedTyped ==
    ASSUME TypeOK, NEW w \in Workers,
           SkipInapplicablePhase(w) \/ PhaseLockTimeout(w) \/ ExternalSkips(w)
    PROVE  PassTypeOK' /\ SharedTypeOK'
<1> USE DEF TypeOK, SharedTypeOK
<1>0. \A p \in Phases : WritePhaseEntry(row, p, Outcome("skipped")) \in Rows
  BY OutcomeType, WritePhaseEntryType DEF EntryStates
<1>1. CASE SkipInapplicablePhase(w)
  <2>1. PICK p \in Phases :
           /\ row' = WritePhaseEntry(row, p, Outcome("skipped"))
           /\ \E more \in SUBSET Phases : Reprobe(w, row', p, more)
    BY <1>1, FaultsAssumption DEF SkipInapplicablePhase
  <2>2. PassTypeOK' /\ phaseLock' \in [Phases -> Holders]
    BY <2>1, ReprobeType
  <2> QED BY <1>0, <1>1, <2>1, <2>2 DEF SkipInapplicablePhase
<1>2. CASE PhaseLockTimeout(w)
  <2>1. PICK p \in Phases :
          \/ \E S \in SUBSET Phases, label \in {"loop", "exit", "refresh"} :
                pass' = [pass EXCEPT ![w] =
                           [@ EXCEPT !.pending = S, !.pc = label]]
          \/ pass' = [pass EXCEPT ![w].pending = @ \ {p}]
    BY <1>2, StaleType DEF PhaseLockTimeout
  <2>2. PassTypeOK'
    <3>1. {"loop", "exit", "refresh"} \subseteq Labels
      BY DEF Labels, Locked
    <3>2. CASE \E S \in SUBSET Phases, label \in {"loop", "exit", "refresh"} :
                  pass' = [pass EXCEPT ![w] =
                             [@ EXCEPT !.pending = S, !.pc = label]]
      BY <3>1, <3>2, RoundType
    <3>3. CASE pass' = [pass EXCEPT ![w].pending = @ \ {p}]
      BY <3>3 DEF PassTypeOK, Passes
    <3> QED BY <2>1, <3>2, <3>3
  <2> QED BY <1>2, <2>2 DEF PhaseLockTimeout, shared
<1>3. CASE ExternalSkips(w)
  <2>1. pass[w].cur \in Phases
    BY PassUpdates DEF Passes
  <2>2. PassTypeOK' /\ phaseLock' \in [Phases -> Holders]
    BY <1>3, <2>1, ReprobeType DEF ExternalSkips
  <2> QED BY <1>0, <1>3, <2>1, <2>2 DEF ExternalSkips
<1> QED BY <1>1, <1>2, <1>3

(* ... the phase bodies, ...                                               *)
LEMMA BodyTyped ==
    ASSUME TypeOK, NEW w \in Workers,
           \/ ParseSweep(w) \/ ParseReset(w) \/ ParseStore(w)
           \/ EmbedDelete(w) \/ EmbedAdd(w) \/ RunExternal(w)
    PROVE  PassTypeOK' /\ SharedTypeOK'
<1> USE DEF TypeOK, SharedTypeOK
<1>1. Parsing \in Phases /\ pass[w].cur \in Phases
  BY PassUpdates, PhasesAssumption DEF Passes
<1>2. \A p \in Phases : settings[p] \in 0 .. MaxVersion
  BY ProcsAssumption DEF Versions
<1>3. \A n \in 0 .. MaxVersion :
         [pass[w] EXCEPT !.pc = "record", !.stored = n] \in Passes
  BY PassUpdates DEF Passes, Labels, Locked
<1>4. CASE ParseSweep(w)
  BY <1>4, GotoType, StoreTypes
     DEF ParseSweep, Labels, Locked, BodyLabels
<1>5. CASE ParseReset(w)
  BY <1>5, GotoType, ResetType
     DEF ParseReset, Labels, Locked, BodyLabels
<1>6. CASE ParseStore(w)
  BY <1>1, <1>2, <1>3, <1>6, PassUpdates DEF ParseStore, PassTypeOK
<1>7. CASE EmbedDelete(w)
  BY <1>7, GotoType, StoreTypes
     DEF EmbedDelete, Labels, Locked, BodyLabels
<1>8. CASE EmbedAdd(w)
  <2>1. Reusable(w) \in 0 .. MaxVersion /\ pass[w].embedder \in 0 .. MaxVersion
    BY PassUpdates DEF Reusable, Passes
  <2>2. SetStatus(row, "processing") \in Rows
    BY SetStatusType DEF Statuses
  <2>3. Nothing \in 0 .. MaxVersion
    BY ProcsAssumption DEF Nothing
  <2>4. PassTypeOK'
    BY <1>3, <1>8, <2>3, PassUpdates DEF EmbedAdd, PassTypeOK
  <2> QED BY <1>8, <2>1, <2>2, <2>4 DEF EmbedAdd
<1>9. CASE RunExternal(w)
  BY <1>1, <1>2, <1>9, GotoType DEF RunExternal, Labels, Locked
<1> QED BY <1>4, <1>5, <1>6, <1>7, <1>8, <1>9

LEMMA FinishTyped ==
    ASSUME TypeOK, NEW w \in Workers,
           \/ BodyFails(w) \/ ExternalGivesUp(w) \/ FailsSource(w)
           \/ Finish(w)
    PROVE  PassTypeOK' /\ SharedTypeOK'
<1> USE DEF TypeOK, SharedTypeOK
<1> DEFINE p == pass[w].cur
<1>0. p \in Phases
  BY PassUpdates DEF Passes
<1>1. CASE BodyFails(w) \/ ExternalGivesUp(w)
  <2>1. WritePhaseEntry(row, p, Outcome("error")) \in Rows
    BY <1>0, OutcomeType, WritePhaseEntryType DEF EntryStates
  <2>2. phaseLock' \in [Phases -> Holders]
    BY <1>1, LockTypes DEF BodyFails, ExternalGivesUp, Tasks
  <2>3. FailsPhase(w)
    BY <1>1 DEF BodyFails, ExternalGivesUp
  <2> QED BY <2>1, <2>2, <2>3, GotoType DEF FailsPhase, Labels, Locked
<1>2. CASE Finish(w)
  <2>1. WritePhaseEntry(row, p, Complete(CurrentTag(settings, p))) \in Rows
    BY <1>0, CurrentTagType, CompleteType, WritePhaseEntryType
  <2>2. PICK more \in SUBSET Phases : Reprobe(w, row', p, more)
    BY <1>2, PhasesAssumption DEF Finish
  <2>3. PassTypeOK' /\ phaseLock' \in [Phases -> Holders]
    BY <1>0, <2>2, ReprobeType
  <2> QED BY <1>2, <2>1, <2>3 DEF Finish
<1>3. CASE FailsSource(w)
  BY <1>3, GotoType, SetStatusType, LockTypes
     DEF FailsSource, Labels, Statuses, Tasks
<1> QED BY <1>1, <1>2, <1>3

(* ... the waits for a phase that is not ready, ...                        *)
LEMMA WaitTyped ==
    ASSUME TypeOK, NEW w \in Workers, ExternalWaits(w) \/ AskAgain(w)
    PROVE  PassTypeOK' /\ SharedTypeOK'
<1> USE DEF TypeOK, SharedTypeOK
<1>0. {"run", "wait"} \subseteq Labels
  BY DEF Labels, Locked, BodyLabels
<1>1. CASE ExternalWaits(w)
  <2>1. SetStatus(row, "processing") \in Rows
    BY SetStatusType DEF Statuses
  <2>2. \A r \in Rows, S \in SUBSET Phases :
           [r EXCEPT !.retry = S, !.overdue = FALSE] \in Rows
    BY DEF Rows
  <2>3. {pass[w].cur} \in SUBSET Phases
    BY PassUpdates DEF Passes
  <2>4. row' \in Rows
    BY <1>1, <2>1, <2>2, <2>3 DEF ExternalWaits
  <2> QED BY <1>0, <1>1, <2>4, GotoType DEF ExternalWaits
<1>2. CASE AskAgain(w)
  BY <1>0, <1>2, GotoType DEF AskAgain, shared
<1> QED BY <1>1, <1>2

(* ... and the end of the pass.                                            *)
LEMMA EndTyped ==
    ASSUME TypeOK, NEW w \in Workers,
           Refresh(w) \/ GatePasses(w) \/ GateVetoes(w) \/ Exit(w)
    PROVE  PassTypeOK' /\ SharedTypeOK'
<1> USE DEF TypeOK, SharedTypeOK
<1>0. {"exit", "gate"} \subseteq Labels
  BY DEF Labels
<1>1. CASE Refresh(w)
  <2>1. SetStatus(row, DeriveSourceStatus(row.diary)) \in Rows
    BY DerivedStatusType, SetStatusType
  <2>2. row' \in Rows /\ \E l \in Labels : Goto(w, l)
    BY <1>0, <1>1, <2>1 DEF Refresh
  <2> QED BY <1>1, <2>2, GotoType DEF Refresh
<1>2. CASE GatePasses(w)
  BY <1>0, <1>2, GotoType, SetStatusType DEF GatePasses, Statuses
<1>3. CASE GateVetoes(w)
  BY <1>0, <1>3, GotoType, SetStatusType DEF GateVetoes, Statuses
<1>4. CASE Exit(w)
  BY <1>4, StopType, LockTypes DEF Exit, Tasks
<1> QED BY <1>1, <1>2, <1>3, <1>4

LEMMA UnderLockTyped ==
    ASSUME TypeOK, NEW w \in Workers, UnderLock(w)
    PROVE  PassTypeOK' /\ SharedTypeOK'
BY ClaimTyped, RecoverTyped, PurgeDoneTyped, LoopTyped, SkippedTyped,
   BodyTyped, FinishTyped, WaitTyped, EndTyped DEF UnderLock

----------------------------------------------------------------------------
(* Every step of a request keeps the types.                                *)

LEMMA ReqUpdates ==
    ASSUME ReqTypeOK, NEW d \in Deleters
    PROVE  /\ req[d] \in Reqs
           /\ \A label \in ReqLabels : ReqGoto(d, label) => ReqTypeOK'
           /\ \A kind \in ReqKinds : ReqStart(d, kind) => ReqTypeOK'
           /\ \A S \in SUBSET Phases : ReqWipes(d, S) => ReqTypeOK'
           /\ ReqStop(d) => ReqTypeOK'
<1>1. req[d] \in Reqs
  BY DEF ReqTypeOK
<1>2. \A q \in Reqs : [req EXCEPT ![d] = q] \in [Deleters -> Reqs]
  BY DEF ReqTypeOK
<1>3. ASSUME NEW label \in ReqLabels, ReqGoto(d, label) PROVE ReqTypeOK'
  BY <1>3 DEF ReqGoto, ReqTypeOK, Reqs
<1>4. ASSUME NEW kind \in ReqKinds, ReqStart(d, kind) PROVE ReqTypeOK'
  <2>1. [req[d] EXCEPT !.pc = "lock", !.kind = kind] \in Reqs
    BY <1>1 DEF Reqs, ReqLabels
  <2> QED BY <1>2, <1>4, <2>1 DEF ReqStart, ReqTypeOK
<1>5. ASSUME NEW S \in SUBSET Phases, ReqWipes(d, S) PROVE ReqTypeOK'
  <2>1. [req[d] EXCEPT !.pc = "wipe", !.todo = S] \in Reqs
    BY <1>1 DEF Reqs, ReqLabels, ReqLocked
  <2> QED BY <1>2, <1>5, <2>1 DEF ReqWipes, ReqTypeOK
<1>6. ASSUME ReqStop(d) PROVE ReqTypeOK'
  <2>1. IdleReq \in Reqs
    BY DEF IdleReq, Reqs, ReqLabels, ReqKinds
  <2> QED BY <1>2, <1>6, <2>1 DEF ReqStop, ReqTypeOK
<1> QED BY <1>1, <1>3, <1>4, <1>5, <1>6

LEMMA RequestTyped ==
    ASSUME TypeOK, NEW d \in Deleters, Request(d)
    PROVE  ReqTypeOK' /\ SharedTypeOK'
<1> USE DEF TypeOK, SharedTypeOK
<1>1. CASE DeleteStart(d)
  BY <1>1, ReqUpdates DEF DeleteStart, ReqKinds
<1>2. CASE ReindexStart(d)
  BY <1>2, ReqUpdates DEF ReindexStart, ReqKinds, shared
<1>3. CASE RecoverReindexStart(d)
  BY <1>3, ReqUpdates DEF RecoverReindexStart, ReqKinds, shared
<1> QED BY <1>1, <1>2, <1>3 DEF Request

LEMMA LockAndMarkTyped ==
    ASSUME TypeOK, NEW d \in Deleters,
           \/ ReqLock(d) \/ ReqLockTimeout(d) \/ MarkDeleting(d)
           \/ MarkReindexing(d) \/ RecoverReindex(d)
    PROVE  ReqTypeOK' /\ SharedTypeOK'
<1> USE DEF TypeOK, SharedTypeOK
<1>1. CASE ReqLock(d)
  BY <1>1, ReqUpdates, LockTypes DEF ReqLock, ReqLabels, ReqLocked, Tasks
<1>2. CASE ReqLockTimeout(d)
  BY <1>2, ReqUpdates DEF ReqLockTimeout, shared
<1>3. CASE MarkDeleting(d)
  <2>1. ReqWipes(d, Phases \ row.deleted)
    BY <1>3 DEF MarkDeleting
  <2>2. ReqTypeOK'
    BY <2>1, ReqUpdates
  <2> QED BY <1>3, <2>2, SetStatusType DEF MarkDeleting, Statuses
<1>4. CASE MarkReindexing(d)
  <2>1. SetStatus(row, "reindexing") \in Rows
    BY SetStatusType DEF Statuses
  <2>2. \A r \in Rows, o \in Owners : [r EXCEPT !.reindexer = o] \in Rows
    BY DEF Rows
  <2>3. row' \in Rows
    BY <1>4, <2>1, <2>2, OwnerType DEF MarkReindexing, Tasks
  <2>4. ReqTypeOK'
    BY <1>4, ReqUpdates DEF MarkReindexing
  <2> QED BY <1>4, <2>3, <2>4 DEF MarkReindexing
<1>5. CASE RecoverReindex(d)
  <2>1. ReqWipes(d, Phases) \/ ReqGoto(d, "leave")
    BY <1>5 DEF RecoverReindex
  <2>2. ReqTypeOK'
    BY <2>1, ReqUpdates DEF ReqLabels, ReqLocked
  <2> QED BY <1>5, <2>2 DEF RecoverReindex, shared
<1> QED BY <1>1, <1>2, <1>3, <1>4, <1>5

LEMMA WipeTyped ==
    ASSUME TypeOK, NEW d \in Deleters,
           \/ WipePhase(d) \/ WipeFails(d) \/ DropSource(d)
           \/ DeletePoints(d) \/ ForgetRow(d) \/ ClearDiary(d)
           \/ RestartSource(d) \/ Leave(d)
    PROVE  ReqTypeOK' /\ SharedTypeOK'
<1> USE DEF TypeOK, SharedTypeOK
<1>0. {"points", "forget", "restart", "leave"} \subseteq ReqLabels
  BY DEF ReqLabels, ReqLocked
<1>1. CASE WipePhase(d)
  <2>1. PICK p \in req[d].todo :
          /\ store' = PurgedBy(store, p)
          /\ row' = [SetStatus(row, WipeStatus(d)) EXCEPT
                       !.deleted = Phases \ (req[d].todo \ {p})]
          /\ req' = [req EXCEPT ![d].todo = @ \ {p}]
    BY <1>1 DEF WipePhase
  <2>2. SetStatus(row, WipeStatus(d)) \in Rows
    BY SetStatusType DEF WipeStatus, Statuses
  <2>3. row' \in Rows
    BY <2>1, <2>2 DEF Rows
  <2>4. ReqTypeOK'
    BY <2>1 DEF ReqTypeOK, Reqs
  <2> QED BY <1>1, <2>1, <2>3, <2>4, StoreTypes DEF WipePhase
<1>2. CASE WipeFails(d)
  BY <1>0, <1>2, ReqUpdates DEF WipeFails, shared
<1>3. CASE DropSource(d)
  BY <1>0, <1>3, ReqUpdates, NoTypes, LockTypes DEF DropSource, Tasks
<1>4. CASE DeletePoints(d)
  BY <1>0, <1>4, ReqUpdates, StoreTypes DEF DeletePoints
<1>5. CASE ForgetRow(d)
  BY <1>5, ReqUpdates, NoTypes DEF ForgetRow
<1>6. CASE RestartSource(d)
  <2>1. SetStatus(row, "processing") \in Rows
    BY SetStatusType DEF Statuses
  <2>2. \A r \in Rows :
           [r EXCEPT !.deleted = {}, !.reindexer = NoOwner] \in Rows
    BY NoTypes DEF Rows
  <2>3. row' \in Rows
    BY <1>6, <2>1, <2>2 DEF RestartSource
  <2> QED BY <1>0, <1>6, <2>3, ReqUpdates DEF RestartSource
<1>7. CASE Leave(d)
  BY <1>7, ReqUpdates, LockTypes DEF Leave, Tasks
<1>8. CASE ClearDiary(d)
  <2>1. [row EXCEPT !.diary = EmptyDiary] \in Rows
    BY NoTypes DEF Rows
  <2> QED BY <1>0, <1>8, <2>1, ReqUpdates DEF ClearDiary
<1> QED BY <1>1, <1>2, <1>3, <1>4, <1>5, <1>6, <1>7, <1>8

LEMMA ServeRequestTyped ==
    ASSUME TypeOK, NEW d \in Deleters, ServeRequest(d)
    PROVE  ReqTypeOK' /\ SharedTypeOK'
BY LockAndMarkTyped, WipeTyped DEF ServeRequest

----------------------------------------------------------------------------
(* What happens around the tasks keeps the types.                          *)

LEMMA EnvironmentTyped ==
    ASSUME TypeOK, Environment
    PROVE  TypeOK'
<1> USE DEF TypeOK, SharedTypeOK
<1>0. NoTask \in Holders /\ DeadTask \in Holders
  BY DEF Holders
<1>1. CASE \E proc \in Procs : Crash(proc)
  <2>1. PICK proc \in Procs : Crash(proc)
    BY <1>1
  <2>2. boot' \in [Procs -> 0 .. MaxBoot]
    <3>1. boot[proc] + 1 \in 0 .. MaxBoot
      BY <2>1, ProcsAssumption DEF Crash
    <3> QED BY <2>1, <3>1 DEF Crash
  <2>3. PassTypeOK'
    <3>1. IdlePass \in Passes
      BY PhasesAssumption, ProcsAssumption
         DEF IdlePass, Passes, Labels, Locked, BodyLabels, Kinds, Statuses
    <3> QED BY <2>1, <3>1 DEF Crash, PassTypeOK
  <2>4. ReqTypeOK'
    <3>1. IdleReq \in Reqs
      BY DEF IdleReq, Reqs, ReqLabels, ReqKinds
    <3> QED BY <2>1, <3>1 DEF Crash, ReqTypeOK
  <2>5. sourceLock' \in Holders /\ phaseLock' \in [Phases -> Holders]
    BY <1>0, <2>1 DEF Crash, Orphan
  <2> QED BY <2>1, <2>2, <2>3, <2>4, <2>5 DEF Crash
<1>2. CASE SourceLockExpires
  BY <1>0, <1>2 DEF SourceLockExpires, PassTypeOK, ReqTypeOK
<1>3. CASE \E p \in Phases : PhaseLockExpires(p)
  BY <1>0, <1>3 DEF PhaseLockExpires, PassTypeOK, ReqTypeOK
<1>4. CASE \E p \in Phases : LeaseAges(p)
  <2>1. PICK p \in Phases : LeaseAges(p)
    BY <1>4
  <2>2. row.diary \in [Phases -> Entries]
    BY DEF Rows, Diaries
  <2>3. [row.diary[p] EXCEPT !.aged = TRUE] \in Entries
    BY <2>2 DEF Entries
  <2>4. [row.diary EXCEPT ![p] = [row.diary[p] EXCEPT !.aged = TRUE]]
           \in Diaries
    BY <2>2, <2>3 DEF Diaries
  <2>5. row' = [row EXCEPT !.diary =
                  [row.diary EXCEPT ![p] =
                     [row.diary[p] EXCEPT !.aged = TRUE]]]
    BY <2>1, <2>2 DEF LeaseAges, Rows, Entries
  <2>6. \A r \in Rows, e \in Diaries : [r EXCEPT !.diary = e] \in Rows
    BY DEF Rows
  <2>7. row' \in Rows
    BY <2>4, <2>5, <2>6
  <2> QED BY <2>1, <2>7 DEF LeaseAges, PassTypeOK, ReqTypeOK
<1>5. CASE \E p \in Phases : SettingsChange(p)
  <2>1. PICK p \in Phases : SettingsChange(p)
    BY <1>5
  <2>2. settings[p] + 1 \in Versions
    BY <2>1, ProcsAssumption DEF SettingsChange, Versions
  <2> QED BY <2>1, <2>2 DEF SettingsChange, PassTypeOK, ReqTypeOK
<1>6. CASE StoreWiped
  BY <1>6, StoreTypes DEF StoreWiped, PassTypeOK, ReqTypeOK
<1>7. CASE BudgetRunsOut
  <2>1. row' \in Rows
    BY <1>7 DEF BudgetRunsOut, Rows
  <2> QED BY <1>7, <2>1 DEF BudgetRunsOut, PassTypeOK, ReqTypeOK
<1> QED BY <1>1, <1>2, <1>3, <1>4, <1>5, <1>6, <1>7 DEF Environment

----------------------------------------------------------------------------
LEMMA InitTyped == Init => TypeOK
<1>1. ASSUME Init PROVE SharedTypeOK
  <2>1. 0 \in 0 .. MaxVersion /\ 1 \in Versions /\ 0 \in 0 .. MaxBoot
    BY ProcsAssumption DEF Versions
  <2>2. EmptyStore \in [Phases -> 0 .. MaxVersion]
    BY <2>1 DEF EmptyStore, Nothing
  <2> QED BY <1>1, <2>1, <2>2, NoTypes
          DEF Init, SharedInit, SharedTypeOK, Holders
<1>2. ASSUME Init PROVE PassTypeOK
  BY <1>2, PhasesAssumption, ProcsAssumption
     DEF Init, PassInit, PassTypeOK, IdlePass, Passes, Labels, Locked,
         BodyLabels, Kinds, Statuses
<1>3. ASSUME Init PROVE ReqTypeOK
  BY <1>3 DEF Init, ReqInit, ReqTypeOK, IdleReq, Reqs, ReqLabels, ReqKinds
<1> QED BY <1>1, <1>2, <1>3 DEF TypeOK

LEMMA NextTyped == TypeOK /\ [Next]_vars => TypeOK'
<1> SUFFICES ASSUME TypeOK, [Next]_vars
             PROVE  TypeOK'
  OBVIOUS
<1>1. ASSUME NEW w \in Workers, Enter(w), UNCHANGED req
      PROVE  TypeOK'
  BY <1>1, EnterTyped DEF TypeOK, ReqTypeOK
<1>2. ASSUME NEW w \in Workers, BeforeLock(w) \/ UnderLock(w), UNCHANGED req
      PROVE  TypeOK'
  BY <1>2, BeforeLockTyped, UnderLockTyped DEF TypeOK, ReqTypeOK
<1>3. ASSUME NEW d \in Deleters, Request(d) \/ ServeRequest(d), UNCHANGED pass
      PROVE  TypeOK'
  BY <1>3, RequestTyped, ServeRequestTyped DEF TypeOK, PassTypeOK
<1>4. ASSUME Environment
      PROVE  TypeOK'
  BY <1>4, EnvironmentTyped
<1>5. CASE UNCHANGED vars
  BY <1>5 DEF vars, TypeOK, SharedTypeOK, PassTypeOK, ReqTypeOK
<1> QED BY <1>1, <1>2, <1>3, <1>4, <1>5 DEF Next

(* The type invariant, whatever fails, expires or crashes.                 *)
THEOREM TypeCorrect == Spec => []TypeOK
BY InitTyped, NextTyped, PTL DEF Spec

----------------------------------------------------------------------------
(* Mutual exclusion.  A task at work holds the source lock: the invariant  *)
(* is inductive because a task enters a locked stretch only by taking the  *)
(* lock while it is free, leaves the stretch before it gives the lock up,  *)
(* and gives up no lock but its own; and because only the lock of a dead   *)
(* task runs out.                                                          *)

(* What a step of worker w does to the lock and to who is at work.         *)
WorkerRespectsLock(w) ==
    /\ \A v \in Workers \ {w} : pass'[v] = pass[v]
    /\ \/ /\ sourceLock' = sourceLock
          /\ pass'[w].pc \in Locked => pass[w].pc \in Locked
       \/ sourceLock = NoTask /\ sourceLock' = w
       \/ sourceLock' = SourceLockLeftBy(w) /\ pass'[w].pc \notin Locked

LEMMA EnterRespectsLock ==
    ASSUME TypeOK, NEW w \in Workers, Enter(w)
    PROVE  WorkerRespectsLock(w)
<1>1. /\ sourceLock' = sourceLock
      /\ \/ Start(w, "upload", "persist") \/ Start(w, "resume", "handed")
         \/ Start(w, "revalidate", "listed") \/ Start(w, "reembed", "begin")
  BY DEF Enter, UploadStart, ResumeList, RevalidateList, ReembedStart, shared
<1>2. pass'[w].pc \in {"persist", "handed", "listed", "begin"}
  BY <1>1, PassUpdates DEF Start, IdlePass, TypeOK, PassTypeOK
<1>3. \A v \in Workers \ {w} : pass'[v] = pass[v]
  BY <1>1 DEF Start, TypeOK, PassTypeOK
<1> QED BY <1>1, <1>2, <1>3 DEF WorkerRespectsLock, Locked, BodyLabels

LEMMA BeforeLockRespectsLock ==
    ASSUME TypeOK, NEW w \in Workers, BeforeLock(w)
    PROVE  WorkerRespectsLock(w)
<1> USE DEF TypeOK, PassTypeOK, WorkerRespectsLock, Locked, BodyLabels
<1>1. CASE LockSource(w)
  BY <1>1 DEF LockSource, Goto
<1>2. CASE UploadPersist(w)
  BY <1>2 DEF UploadPersist, Goto, Passes
<1>3. CASE Begin(w)
  BY <1>3 DEF Begin, shared, Passes
<1>4. ASSUME NEW S, NEW forced, QueueFor(w, S, forced), UNCHANGED shared
      PROVE  WorkerRespectsLock(w)
  BY <1>4 DEF QueueFor, shared, Passes
<1>5. ASSUME Stop(w), UNCHANGED sourceLock
      PROVE  WorkerRespectsLock(w)
  BY <1>5 DEF Stop, IdlePass
<1>6. CASE ProbeFresh(w)
  <2>1. Stop(w) \/ Goto(w, "refresh")
    BY <1>6 DEF ProbeFresh
  <2> QED BY <1>6, <2>1 DEF ProbeFresh, Stop, IdlePass, Goto, Passes, shared
<1>7. CASE RevalidateClaim(w) \/ HandOver(w)
  BY <1>7 DEF RevalidateClaim, HandOver, Goto, Passes, shared
<1>8. CASE RevalidateRefused(w) \/ MarkFileMissing(w)
  BY <1>5, <1>8 DEF RevalidateRefused, MarkFileMissing, shared
<1>9. CASE ProbeExplicit(w) \/ LockSourceTimeout(w)
  BY <1>5, <1>9 DEF ProbeExplicit, LockSourceTimeout, shared
<1> QED BY <1>1, <1>2, <1>3, <1>4, <1>6, <1>7, <1>8, <1>9
        DEF BeforeLock, ProbeNoRow, ProbeStale, ProbeStoreEmpty

LEMMA UnderLockRespectsLock ==
    ASSUME TypeOK, NEW w \in Workers, UnderLock(w)
    PROVE  WorkerRespectsLock(w)
<1> USE DEF TypeOK, PassTypeOK
<1>1. ASSUME pass[w].pc \in Locked, sourceLock' = sourceLock,
             \A v \in Workers \ {w} : pass'[v] = pass[v]
      PROVE  WorkerRespectsLock(w)
  BY <1>1 DEF WorkerRespectsLock
<1>2. CASE Claim(w) \/ ClaimRefused(w)
  BY <1>1, <1>2 DEF Claim, ClaimRefused, Goto, At, Locked, shared
<1>3. CASE RecoverNothing(w) \/ RecoverStart(w)
  BY <1>1, <1>3 DEF RecoverNothing, RecoverStart, Goto, At, Locked, shared
<1>4. CASE Purge(w) \/ PurgeFails(w) \/ PurgeDone(w)
  BY <1>1, <1>4 DEF Purge, PurgeFails, PurgeDone, At, Locked, shared
<1>5. CASE LoopEnds(w) \/ Propagate(w)
  BY <1>1, <1>5 DEF LoopEnds, Propagate, Goto, At, Locked, shared
<1>6. CASE RunPhase(w) \/ SkipSettledPhase(w) \/ SkipInapplicablePhase(w)
  BY <1>1, <1>6 DEF RunPhase, SkipSettledPhase, SkipInapplicablePhase,
                    Dispatches, Reprobe, At, Locked
<1>7. CASE PhaseLockTimeout(w)
  BY <1>1, <1>7 DEF PhaseLockTimeout, Dispatches, At, Locked, shared
<1>8. CASE ParseSweep(w) \/ ParseReset(w) \/ ParseStore(w)
  BY <1>1, <1>8 DEF ParseSweep, ParseReset, ParseStore, Goto, At, Locked,
                    BodyLabels
<1>9. CASE EmbedDelete(w) \/ EmbedAdd(w)
  BY <1>1, <1>9 DEF EmbedDelete, EmbedAdd, Goto, At, Locked, BodyLabels
<1>10. CASE RunExternal(w) \/ ExternalSkips(w)
  BY <1>1, <1>10 DEF RunExternal, ExternalSkips, Reprobe, Goto, At, Locked,
                     BodyLabels
<1>11. CASE \/ BodyFails(w) \/ ExternalGivesUp(w) \/ FailsSource(w)
            \/ Finish(w)
  BY <1>1, <1>11 DEF BodyFails, ExternalGivesUp, FailsPhase, FailsSource,
                     Finish, Reprobe, Goto, At, Locked, BodyLabels
<1>15. CASE ExternalWaits(w) \/ AskAgain(w)
  BY <1>1, <1>15 DEF ExternalWaits, AskAgain, Goto, At, Locked, BodyLabels,
                     shared
<1>12. CASE Refresh(w)
  <2>1. sourceLock' = sourceLock /\ (Goto(w, "gate") \/ Goto(w, "exit"))
    BY <1>12 DEF Refresh
  <2> QED BY <2>1 DEF WorkerRespectsLock, Goto, Passes, Locked, BodyLabels
<1>13. CASE GatePasses(w) \/ GateVetoes(w)
  BY <1>13 DEF GatePasses, GateVetoes, WorkerRespectsLock, Goto, Passes,
               Locked, BodyLabels
<1>14. CASE Exit(w)
  BY <1>14 DEF Exit, Stop, IdlePass, WorkerRespectsLock, Locked, BodyLabels
<1> QED BY <1>2, <1>3, <1>4, <1>5, <1>6, <1>7, <1>8, <1>9, <1>10, <1>11,
           <1>12, <1>13, <1>14, <1>15 DEF UnderLock

(* The same of a request.                                                  *)
RequestRespectsLock(d) ==
    /\ \A c \in Deleters \ {d} : req'[c] = req[c]
    /\ \/ /\ sourceLock' = sourceLock
          /\ req'[d].pc \in ReqLocked => req[d].pc \in ReqLocked
       \/ sourceLock = NoTask /\ sourceLock' = d
       \/ sourceLock' = SourceLockLeftBy(d) /\ req'[d].pc \notin ReqLocked

LEMMA DeleterRespectsLock ==
    ASSUME TypeOK, NEW d \in Deleters, Request(d) \/ ServeRequest(d)
    PROVE  RequestRespectsLock(d)
<1> USE DEF TypeOK, ReqTypeOK, ReqLocked
<1>1. CASE Request(d)
  <2>1. sourceLock' = sourceLock /\ \E kind : ReqStart(d, kind)
    BY <1>1 DEF Request, DeleteStart, ReindexStart, RecoverReindexStart, shared
  <2> QED BY <2>1 DEF RequestRespectsLock, ReqStart, Reqs
<1>2. CASE ReqLock(d)
  BY <1>2 DEF ReqLock, ReqGoto, RequestRespectsLock
<1>3. CASE ReqLockTimeout(d)
  BY <1>3 DEF ReqLockTimeout, ReqStop, IdleReq, RequestRespectsLock, shared
<1>4. ASSUME req[d].pc \in ReqLocked, sourceLock' = sourceLock,
             \A c \in Deleters \ {d} : req'[c] = req[c]
      PROVE  RequestRespectsLock(d)
  BY <1>4 DEF RequestRespectsLock
<1>5. CASE MarkDeleting(d) \/ MarkReindexing(d) \/ RecoverReindex(d)
  BY <1>4, <1>5 DEF MarkDeleting, MarkReindexing, RecoverReindex, ReqWipes,
                    ReqGoto, ReqAt, shared
<1>6. CASE \/ WipePhase(d) \/ WipeFails(d) \/ ClearDiary(d)
           \/ RestartSource(d)
  BY <1>4, <1>6 DEF WipePhase, WipeFails, ClearDiary, RestartSource, ReqGoto,
                    ReqAt, shared
<1>7. CASE DropSource(d)
  BY <1>7 DEF DropSource, ReqGoto, Reqs, RequestRespectsLock
<1>8. CASE DeletePoints(d)
  BY <1>8 DEF DeletePoints, ReqGoto, Reqs, RequestRespectsLock
<1>9. CASE ForgetRow(d)
  BY <1>9 DEF ForgetRow, ReqStop, IdleReq, RequestRespectsLock
<1>10. CASE Leave(d)
  BY <1>10 DEF Leave, ReqStop, IdleReq, RequestRespectsLock
<1> QED BY <1>1, <1>2, <1>3, <1>5, <1>6, <1>7, <1>8, <1>9, <1>10
        DEF ServeRequest

LEMMA WorkerKeepsLockHeld ==
    ASSUME TypeOK, LockHeld, NEW w \in Workers, WorkerRespectsLock(w),
           UNCHANGED req
    PROVE  LockHeld'
<1> SUFFICES ASSUME NEW t \in Tasks, AtWork(t)'
             PROVE  sourceLock' = t
  BY DEF LockHeld
<1>1. CASE t = w
  BY <1>1, TasksAssumption
     DEF LockHeld, AtWork, WorkerRespectsLock, Tasks, SourceLockLeftBy
<1>2. CASE t # w
  <2>1. AtWork(t)
    BY <1>2 DEF AtWork, WorkerRespectsLock
  <2>2. sourceLock = t
    BY <2>1 DEF LockHeld
  <2> QED BY <1>2, <2>2, TasksAssumption
          DEF WorkerRespectsLock, SourceLockLeftBy
<1> QED BY <1>1, <1>2

LEMMA RequestKeepsLockHeld ==
    ASSUME TypeOK, LockHeld, NEW d \in Deleters, RequestRespectsLock(d),
           UNCHANGED pass
    PROVE  LockHeld'
<1> SUFFICES ASSUME NEW t \in Tasks, AtWork(t)'
             PROVE  sourceLock' = t
  BY DEF LockHeld
<1>1. CASE t = d
  BY <1>1, TasksAssumption
     DEF LockHeld, AtWork, RequestRespectsLock, Tasks, SourceLockLeftBy
<1>2. CASE t # d
  <2>1. AtWork(t)
    BY <1>2 DEF AtWork, RequestRespectsLock
  <2>2. sourceLock = t
    BY <2>1 DEF LockHeld
  <2> QED BY <1>2, <2>2, TasksAssumption
          DEF RequestRespectsLock, SourceLockLeftBy
<1> QED BY <1>1, <1>2

LEMMA EnvironmentKeepsLockHeld ==
    ASSUME TypeOK, LockHeld, LockMayExpire = FALSE, Environment
    PROVE  LockHeld'
<1> SUFFICES ASSUME NEW t \in Tasks, AtWork(t)'
             PROVE  sourceLock' = t
  BY DEF LockHeld
<1>1. CASE \E proc \in Procs : Crash(proc)
  <2>1. PICK proc \in Procs : Crash(proc)
    BY <1>1
  <2>2. ProcOf[t] # proc /\ AtWork(t)
    BY <2>1 DEF Crash, AtWork, IdlePass, IdleReq, Locked, BodyLabels,
                ReqLocked, Tasks
  <2>3. sourceLock = t
    BY <2>2 DEF LockHeld
  <2> QED BY <2>1, <2>2, <2>3 DEF Crash, Orphan
<1>2. CASE SourceLockExpires
  <2>1. sourceLock = DeadTask
    BY <1>2 DEF SourceLockExpires, Expirable
  <2>2. AtWork(t)
    BY <1>2 DEF SourceLockExpires, AtWork
  <2> QED BY <2>1, <2>2, TasksAssumption DEF LockHeld
<1>3. CASE \E p \in Phases :
              PhaseLockExpires(p) \/ LeaseAges(p) \/ SettingsChange(p)
  BY <1>3 DEF PhaseLockExpires, LeaseAges, SettingsChange, AtWork, LockHeld
<1>4. CASE StoreWiped
  BY <1>4 DEF StoreWiped, AtWork, LockHeld
<1>5. CASE BudgetRunsOut
  BY <1>5 DEF BudgetRunsOut, AtWork, LockHeld
<1> QED BY <1>1, <1>2, <1>3, <1>4, <1>5 DEF Environment

LEMMA NextKeepsLockHeld ==
    ASSUME LockMayExpire = FALSE
    PROVE  TypeOK /\ LockHeld /\ [Next]_vars => LockHeld'
<1> SUFFICES ASSUME TypeOK, LockHeld, [Next]_vars
             PROVE  LockHeld'
  OBVIOUS
<1>1. ASSUME NEW w \in Workers, Enter(w), UNCHANGED req
      PROVE  LockHeld'
  BY <1>1, EnterRespectsLock, WorkerKeepsLockHeld
<1>2. ASSUME NEW w \in Workers, BeforeLock(w) \/ UnderLock(w), UNCHANGED req
      PROVE  LockHeld'
  BY <1>2, BeforeLockRespectsLock, UnderLockRespectsLock, WorkerKeepsLockHeld
<1>3. ASSUME NEW d \in Deleters, Request(d) \/ ServeRequest(d), UNCHANGED pass
      PROVE  LockHeld'
  BY <1>3, DeleterRespectsLock, RequestKeepsLockHeld
<1>4. CASE Environment
  BY <1>4, EnvironmentKeepsLockHeld
<1>5. CASE UNCHANGED vars
  BY <1>5 DEF vars, LockHeld, AtWork
<1> QED BY <1>1, <1>2, <1>3, <1>4, <1>5 DEF Next

LEMMA InitLockHeld == Init => LockHeld
BY DEF Init, PassInit, ReqInit, IdlePass, IdleReq, LockHeld, AtWork, Locked,
       BodyLabels, ReqLocked

(* A task at work holds the source lock, ...                               *)
THEOREM LockHolderAlone ==
    ASSUME LockMayExpire = FALSE
    PROVE  Spec => []LockHeld
<1>1. Init => LockHeld
  BY InitLockHeld
<1>2. TypeOK /\ LockHeld /\ [Next]_vars => LockHeld'
  BY NextKeepsLockHeld
<1> QED BY <1>1, <1>2, TypeCorrect, PTL DEF Spec

(* ... so two phase sequences, or one and a deletion or a re-ingest, never *)
(* interleave on a source: docs/phase-contract.md section 5.               *)
THEOREM MutualExclusion ==
    ASSUME LockMayExpire = FALSE
    PROVE  Spec => []NoInterleaving
<1>1. LockHeld => NoInterleaving
  BY DEF LockHeld, NoInterleaving
<1> QED BY <1>1, LockHolderAlone, PTL

----------------------------------------------------------------------------
(* Nothing is built under a wipe.  A step of a worker that changes the     *)
(* store is one of a task at work, and a request that wipes is at work too *)
(* (so one of them would not hold the lock); every other step only clears. *)

OnlyClears(st) == \A p \in Phases : st[p] = Nothing \/ st[p] = store[p]

LEMMA ClearingClears ==
    ASSUME TypeOK
    PROVE  /\ \A S : OnlyClears(Without(store, S))
           /\ \A p : OnlyClears(PurgedBy(store, p))
<1>1. \A S : OnlyClears(Without(store, S))
  BY DEF OnlyClears, Without
<1>2. ASSUME NEW p PROVE OnlyClears(PurgedBy(store, p))
  <2>1. PurgedBy(store, p) \in {store, Without(store, Chunks),
                                Without(store, {p})}
    BY DEF PurgedBy
  <2> QED BY <1>1, <2>1 DEF OnlyClears
<1> QED BY <1>1, <1>2

LEMMA WorkerBuildsAtWork ==
    ASSUME TypeOK, NEW w \in Workers,
           Enter(w) \/ BeforeLock(w) \/ UnderLock(w)
    PROVE  store' = store \/ AtWork(w)
<1>1. CASE Enter(w)
  BY <1>1 DEF Enter, UploadStart, ResumeList, RevalidateList, ReembedStart,
              shared
<1>2. CASE BeforeLock(w)
  BY <1>2 DEF BeforeLock, RevalidateClaim, RevalidateRefused, HandOver,
              MarkFileMissing, UploadPersist, Begin, ProbeExplicit, ProbeNoRow,
              ProbeStale, ProbeStoreEmpty, ProbeFresh, LockSource,
              LockSourceTimeout, shared
<1>3. CASE Purge(w) \/ ParseSweep(w) \/ ParseStore(w)
           \/ EmbedDelete(w) \/ EmbedAdd(w) \/ RunExternal(w)
  BY <1>3 DEF Purge, ParseSweep, ParseStore, EmbedDelete, EmbedAdd,
              RunExternal, At, AtWork, Locked, BodyLabels
<1>4. CASE \/ Claim(w) \/ ClaimRefused(w) \/ RecoverNothing(w)
           \/ RecoverStart(w) \/ PurgeFails(w) \/ PurgeDone(w) \/ LoopEnds(w)
           \/ Propagate(w) \/ RunPhase(w) \/ SkipSettledPhase(w)
           \/ SkipInapplicablePhase(w) \/ PhaseLockTimeout(w)
  BY <1>4 DEF Claim, ClaimRefused, RecoverNothing, RecoverStart, PurgeFails,
              PurgeDone, LoopEnds, Propagate, RunPhase, SkipSettledPhase,
              SkipInapplicablePhase, PhaseLockTimeout, shared
<1>5. CASE \/ ParseReset(w) \/ ExternalSkips(w) \/ ExternalWaits(w)
           \/ AskAgain(w) \/ ExternalGivesUp(w) \/ BodyFails(w)
           \/ FailsSource(w) \/ Finish(w) \/ Refresh(w)
           \/ GatePasses(w) \/ GateVetoes(w) \/ Exit(w)
  BY <1>5 DEF ParseReset, ExternalSkips, ExternalWaits, AskAgain,
              ExternalGivesUp, BodyFails, FailsPhase, FailsSource, Finish,
              Refresh, GatePasses, GateVetoes, Exit, shared
<1> QED BY <1>1, <1>2, <1>3, <1>4, <1>5 DEF UnderLock

LEMMA DeleterOnlyClears ==
    ASSUME TypeOK, NEW d \in Deleters, Request(d) \/ ServeRequest(d)
    PROVE  OnlyClears(store')
<1>1. CASE WipePhase(d) \/ DeletePoints(d)
  BY <1>1, ClearingClears DEF WipePhase, DeletePoints
<1>2. CASE Request(d)
  BY <1>2 DEF Request, DeleteStart, ReindexStart, RecoverReindexStart, shared,
              OnlyClears
<1>3. CASE \/ ReqLock(d) \/ ReqLockTimeout(d) \/ MarkDeleting(d)
           \/ MarkReindexing(d) \/ RecoverReindex(d) \/ WipeFails(d)
           \/ DropSource(d) \/ ForgetRow(d) \/ ClearDiary(d)
           \/ RestartSource(d) \/ Leave(d)
  BY <1>3 DEF ReqLock, ReqLockTimeout, MarkDeleting, MarkReindexing,
              RecoverReindex, WipeFails, DropSource, ForgetRow, ClearDiary,
              RestartSource, Leave, shared, OnlyClears
<1> QED BY <1>1, <1>2, <1>3 DEF ServeRequest

LEMMA EnvironmentOnlyClears ==
    ASSUME TypeOK, Environment
    PROVE  OnlyClears(store')
<1>1. CASE StoreWiped
  BY <1>1, ClearingClears DEF StoreWiped
<1>2. CASE \E proc \in Procs : Crash(proc)
  BY <1>2 DEF Crash, OnlyClears
<1>3. CASE SourceLockExpires
  BY <1>3 DEF SourceLockExpires, OnlyClears
<1>4. CASE \E p \in Phases :
              PhaseLockExpires(p) \/ LeaseAges(p) \/ SettingsChange(p)
  BY <1>4 DEF PhaseLockExpires, LeaseAges, SettingsChange, OnlyClears
<1>5. CASE BudgetRunsOut
  BY <1>5 DEF BudgetRunsOut, OnlyClears
<1> QED BY <1>1, <1>2, <1>3, <1>4, <1>5 DEF Environment

(* No product appears while a deletion or a re-ingest wipes the source, so *)
(* the wipe leaves nothing behind that it had already passed.              *)
THEOREM NothingBuilt ==
    ASSUME LockMayExpire = FALSE
    PROVE  Spec => NothingBuiltUnderWipe
<1> DEFINE Quiet ==
       \A p \in Phases : store[p] = Nothing /\ store'[p] # Nothing =>
          \A d \in Deleters : req[d].pc # "wipe"
<1>1. TypeOK /\ LockHeld /\ [Next]_vars => [Quiet]_vars
  <2> SUFFICES ASSUME TypeOK, LockHeld, Next
               PROVE  Quiet
    OBVIOUS
  <2>1. OnlyClears(store') => Quiet
    BY DEF OnlyClears
  <2>2. ASSUME NEW w \in Workers, Enter(w) \/ BeforeLock(w) \/ UnderLock(w)
        PROVE  Quiet
    <3>1. CASE store' = store
      BY <3>1
    <3>2. CASE AtWork(w)
      <4>1. sourceLock = w
        BY <3>2 DEF LockHeld, Tasks
      <4>2. \A d \in Deleters : req[d].pc # "wipe"
        BY <4>1, TasksAssumption DEF LockHeld, AtWork, Tasks, ReqLocked
      <4> QED BY <4>2
    <3> QED BY <2>2, <3>1, <3>2, WorkerBuildsAtWork
  <2>3. ASSUME NEW d \in Deleters, Request(d) \/ ServeRequest(d)
        PROVE  Quiet
    BY <2>1, <2>3, DeleterOnlyClears
  <2>4. CASE Environment
    BY <2>1, <2>4, EnvironmentOnlyClears
  <2> QED BY <2>2, <2>3, <2>4 DEF Next
<1> QED BY <1>1, TypeCorrect, LockHolderAlone, PTL
        DEF Spec, NothingBuiltUnderWipe

----------------------------------------------------------------------------
(* When the TTL of a lock may run out under its holder.                    *)

(* Every step of a task either leaves the lock alone, takes it while it is *)
(* free, or gives up its own as it ends; a crash ends its holder.  So the  *)
(* lock of a task that goes on is lost to its TTL alone, never to another  *)
(* task that comes back late to release it.                                *)
THEOREM LockLeftByItsHolder == Spec => LeavesOwnLock
<1> DEFINE Left ==
       \A t \in Tasks :
          sourceLock = t /\ sourceLock' # t /\ << pass, req >>' # << pass, req >>
          => ~AtWork(t)'
<1>1. TypeOK /\ [Next]_vars => [Left]_vars
  <2> SUFFICES ASSUME TypeOK, Next,
                      NEW t \in Tasks, sourceLock = t, sourceLock' # t,
                      << pass, req >>' # << pass, req >>
               PROVE  ~AtWork(t)'
    OBVIOUS
  <2>1. t # NoTask
    BY TasksAssumption
  <2>2. ASSUME NEW w \in Workers, WorkerRespectsLock(w)
        PROVE  ~AtWork(t)'
    BY <2>1, <2>2, TasksAssumption
       DEF WorkerRespectsLock, SourceLockLeftBy, AtWork, Tasks
  <2>3. ASSUME NEW w \in Workers, Enter(w) \/ BeforeLock(w) \/ UnderLock(w)
        PROVE  ~AtWork(t)'
    BY <2>2, <2>3, EnterRespectsLock, BeforeLockRespectsLock,
       UnderLockRespectsLock
  <2>4. ASSUME NEW d \in Deleters, Request(d) \/ ServeRequest(d)
        PROVE  ~AtWork(t)'
    <3>1. RequestRespectsLock(d)
      BY <2>4, DeleterRespectsLock
    <3> QED BY <2>1, <3>1, TasksAssumption
            DEF RequestRespectsLock, SourceLockLeftBy, AtWork, Tasks
  <2>5. ASSUME NEW proc \in Procs, Crash(proc)
        PROVE  ~AtWork(t)'
    BY <2>5 DEF Crash, Orphan, AtWork, IdlePass, IdleReq, Locked, BodyLabels,
                ReqLocked, Tasks
  <2>6. CASE \/ SourceLockExpires \/ BudgetRunsOut \/ StoreWiped
             \/ \E p \in Phases :
                   PhaseLockExpires(p) \/ LeaseAges(p) \/ SettingsChange(p)
    BY <2>6 DEF SourceLockExpires, BudgetRunsOut, StoreWiped,
                PhaseLockExpires, LeaseAges, SettingsChange
  <2> QED BY <2>3, <2>4, <2>5, <2>6 DEF Next, Environment
<1> QED BY <1>1, TypeCorrect, PTL DEF Spec, LeavesOwnLock

(* From "recover" a worker goes on by its recovery alone.                  *)
LEMMA LeavesRecovery ==
    ASSUME NEW w \in Workers, At(w, "recover"),
           Enter(w) \/ BeforeLock(w) \/ UnderLock(w)
    PROVE  RecoverNothing(w) \/ RecoverStart(w)
<1>1. ~Enter(w)
  BY DEF Enter, UploadStart, ResumeList, RevalidateList, ReembedStart, At
<1>2. ~BeforeLock(w)
  BY DEF BeforeLock, RevalidateClaim, RevalidateRefused, HandOver,
         MarkFileMissing, UploadPersist, Begin, ProbeExplicit, ProbeNoRow,
         ProbeStale, ProbeStoreEmpty, ProbeFresh, LockSource,
         LockSourceTimeout, At
<1>3. ~(\/ Claim(w) \/ ClaimRefused(w) \/ Purge(w) \/ PurgeFails(w)
        \/ PurgeDone(w) \/ LoopEnds(w) \/ Propagate(w) \/ RunPhase(w)
        \/ SkipSettledPhase(w) \/ SkipInapplicablePhase(w)
        \/ PhaseLockTimeout(w))
  BY DEF Claim, ClaimRefused, Purge, PurgeFails, PurgeDone, LoopEnds,
         Propagate, RunPhase, SkipSettledPhase, SkipInapplicablePhase,
         PhaseLockTimeout, Dispatches, At
<1>4. ~(\/ ParseReset(w) \/ ParseSweep(w) \/ ParseStore(w) \/ EmbedDelete(w)
        \/ EmbedAdd(w) \/ RunExternal(w) \/ ExternalSkips(w)
        \/ ExternalWaits(w) \/ AskAgain(w) \/ ExternalGivesUp(w)
        \/ BodyFails(w) \/ FailsSource(w) \/ Finish(w) \/ Refresh(w)
        \/ GatePasses(w) \/ GateVetoes(w) \/ Exit(w))
  BY DEF ParseReset, ParseSweep, ParseStore, EmbedDelete, EmbedAdd,
         RunExternal, ExternalSkips, ExternalWaits, AskAgain,
         ExternalGivesUp, BodyFails, FailsSource, Finish, Refresh, GatePasses,
         GateVetoes, Exit, At, BodyLabels
<1> QED BY <1>1, <1>2, <1>3, <1>4 DEF UnderLock

LEMMA EarliestIsFirst ==
    ASSUME NEW first \in Phases, NEW p \in Phases,
           row.diary[first].state # "pending",
           IsEarliest(p, FromOnward(first))
    PROVE  p = first
<1> SUFFICES ASSUME p # first PROVE FALSE
  OBVIOUS
<1>1. first \in FromOnward(first) /\ p \in FromOnward(first)
  BY DEF FromOnward, IsEarliest
<1>2. Before(p, first) /\ Before(first, p)
  BY <1>1 DEF IsEarliest, FromOnward
<1>3. PICK i, j \in DOMAIN MergedOrder :
         MergedOrder[i] = p /\ MergedOrder[j] = first /\ i < j
  BY <1>2 DEF Before
<1>4. PICK k, l \in DOMAIN MergedOrder :
         MergedOrder[k] = first /\ MergedOrder[l] = p /\ k < l
  BY <1>2 DEF Before
<1>5. i = l /\ j = k
  BY <1>3, <1>4, PhasesAssumption
<1>6. \A m \in DOMAIN MergedOrder : m \in Nat
  <2>1. MergedOrder \in Seq(Phases)
    BY PhasesAssumption
  <2> QED BY <2>1
<1> QED BY <1>3, <1>4, <1>5, <1>6

(* In one pod a living owner is never taken for a dead one, whatever the    *)
(* age of its entry and whatever has become of its locks.                  *)
THEOREM RecoverySparesTheLiving ==
    ASSUME \A proc, other \in Procs : Pod[proc] = Pod[other]
    PROVE  Spec => LiveOwnerIsNoOrphan
<1> DEFINE Spared ==
       \A w, v \in Workers, p \in Phases :
          At(w, "recover") /\ pass'[w].pc = "purge"
             /\ IsEarliest(p, pass'[w].todo)
          => ~(InBody(v, p) /\ row.diary[p].owner = Owner(v))
<1>1. TypeOK /\ [Next]_vars => [Spared]_vars
  <2> SUFFICES ASSUME TypeOK, Next,
                      NEW w \in Workers, NEW v \in Workers, NEW p \in Phases,
                      At(w, "recover"), pass'[w].pc = "purge",
                      IsEarliest(p, pass'[w].todo),
                      row.diary[p].owner = Owner(v)
               PROVE  FALSE
    OBVIOUS
  <2>1. RecoverStart(w)
    <3>1. pass'[w] # pass[w] /\ pass'[w] # IdlePass
      BY DEF At, IdlePass
    <3>2. ~Environment
      BY <3>1 DEF Environment, Crash, SourceLockExpires, BudgetRunsOut,
                  PhaseLockExpires, LeaseAges, SettingsChange, StoreWiped
    <3>3. PICK u \in Workers : Enter(u) \/ BeforeLock(u) \/ UnderLock(u)
      BY <3>1, <3>2 DEF Next
    <3>4. u = w
      BY <3>1, <3>3, EnterRespectsLock, BeforeLockRespectsLock,
         UnderLockRespectsLock DEF WorkerRespectsLock
    <3>5. RecoverNothing(w) \/ RecoverStart(w)
      BY <3>3, <3>4, LeavesRecovery
    <3>6. ~RecoverNothing(w)
      BY DEF RecoverNothing, Goto, TypeOK, PassTypeOK, Passes
    <3> QED BY <3>5, <3>6
  <2>2. PICK first \in Orphaned(w) : pass'[w].todo = FromOnward(first)
    BY <2>1 DEF RecoverStart, TypeOK, PassTypeOK, Passes
  <2>3. p = first
    BY <2>2, EarliestIsFirst DEF Orphaned, Abandoned, ShouldAbandon
  <2>4. ShouldAbandon(row.diary[p], ProcOf[w], boot)
    BY <2>2, <2>3 DEF Orphaned, Abandoned
  <2>5. ProcOf[v] \in Procs /\ ProcOf[w] \in Procs
    BY TasksAssumption DEF Tasks
  <2> QED BY <2>4, <2>5, ProcsAssumption DEF ShouldAbandon, Owner
<1> QED BY <1>1, TypeCorrect, PTL DEF Spec, LiveOwnerIsNoOrphan
=============================================================================
