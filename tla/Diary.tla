------------------------------- MODULE Diary -------------------------------
(***************************************************************************)
(* The phase diary: one entry per ingestion phase of one source, and the   *)
(* pure decisions the phase machine takes from it (registry.py, phases.py, *)
(* phase_tag_resolver.py).  Every operator is total and has no state.      *)
(*                                                                         *)
(* A phase's settings are a version number and its tag, a recursive hash   *)
(* of its own settings and of its dependencies' tags, is the settings of   *)
(* its whole upstream cone: the hash is taken to be injective.             *)
(***************************************************************************)
EXTENDS Naturals, Sequences, FiniteSetsExt

CONSTANTS
    Phases,      \* ids of the merged phases: the built-ins and the plugins'
    Parsing,     \* the built-in phase "parsing_chunking"
    Embedding,   \* the built-in phase "embedding"
    MergedOrder, \* the order of merged_phases: built-ins, then registration
    DependsOn,   \* the declared dependencies of each phase, in their order
    Procs,       \* the server processes that share the registry
    NoProc,      \* the owner of an entry written without one
    Pod,         \* the pod each process runs in
    PidReuse,    \* a restarted process may get the pid of the one it replaces
    MaxBoot,     \* bound: how often one process may restart
    MaxVersion   \* bound: how many settings versions a phase may have

ASSUME PhasesAssumption ==
    /\ Parsing \in Phases /\ Embedding \in Phases /\ Parsing # Embedding
    /\ MergedOrder \in Seq(Phases)
    /\ \A p \in Phases : \E i \in DOMAIN MergedOrder : MergedOrder[i] = p
    /\ \A i, j \in DOMAIN MergedOrder :
          MergedOrder[i] = MergedOrder[j] => i = j
    /\ DependsOn \in [Phases -> Seq(Phases)]
    /\ DependsOn[Parsing] = << >> /\ DependsOn[Embedding] = << Parsing >>

ASSUME ProcsAssumption ==
    /\ NoProc \notin Procs
    /\ PidReuse \in BOOLEAN
    /\ MaxBoot \in Nat /\ MaxVersion \in Nat \ {0}

----------------------------------------------------------------------------
(* Phases, dependencies and orders.                                        *)

Deps(p) == {DependsOn[p][i] : i \in DOMAIN DependsOn[p]}

Before(p, q) ==
    \E i, j \in DOMAIN MergedOrder :
       MergedOrder[i] = p /\ MergedOrder[j] = q /\ i < j

IsEarliest(p, S) == p \in S /\ \A q \in S \ {p} : Before(p, q)
IsLatest(p, S)   == p \in S /\ \A q \in S \ {p} : Before(q, p)

(* The phase and everything it depends on, transitively.                   *)
Cone(p) ==
    {q \in Phases :
        \A S \in SUBSET Phases :
           (p \in S /\ \A r \in S : Deps(r) \subseteq S) => q \in S}

Downstream(p) == {q \in Phases \ {p} : p \in Cone(q)}

(* phase_execution_order sorts by depth, then by registration.             *)
Depth[p \in Phases] ==
    IF Deps(p) = {} THEN 0 ELSE 1 + Max({Depth[d] : d \in Deps(p)})

ExecutesBefore(p, q) ==
    \/ Depth[p] < Depth[q]
    \/ Depth[p] = Depth[q] /\ Before(p, q)

IsLastToExecute(p, S) == p \in S /\ \A q \in S \ {p} : ExecutesBefore(q, p)

----------------------------------------------------------------------------
(* Entries.                                                                *)

Versions == 1 .. MaxVersion
Tags     == UNION {[S -> Versions] : S \in SUBSET Phases}
NoTag    == [q \in {} |-> 0]
NoOwner  == [proc |-> NoProc, boot |-> 0]
Owners   == [proc : Procs \cup {NoProc}, boot : 0 .. MaxBoot]

EntryStates == {"pending", "processing", "complete", "error", "skipped"}

(* `aged`: the entry's started_at is older than the phase lease.           *)
Entries == [state : EntryStates, tag : Tags, owner : Owners, aged : BOOLEAN]
Diaries == [Phases -> Entries]

(* An absent entry reads as pending.  Only a processing entry has an owner *)
(* and an age, and only a complete one has a tag that is ever read.        *)
Outcome(state)  == [state |-> state, tag |-> NoTag,
                    owner |-> NoOwner, aged |-> FALSE]
NoEntry         == Outcome("pending")
Complete(tag)   == [Outcome("complete") EXCEPT !.tag = tag]
RunBy(owner)    == [Outcome("processing") EXCEPT !.owner = owner]
PurgeFailed     == [Outcome("processing") EXCEPT !.aged = TRUE]
EmptyDiary      == [p \in Phases |-> NoEntry]

Settled == {"complete", "error", "skipped"}
Failed  == {"error", "skipped"}

CurrentTag(settings, p) == [q \in Cone(p) |-> settings[q]]

----------------------------------------------------------------------------
(* Ownership: whose processing entry is it, and is that process gone?      *)

(* Mutant of ShouldAbandon: the lease alone decides, not the owner.        *)
AbandonedByLease(entry, me, boot) == entry.state = "processing" /\ entry.aged

(* The entry as process `me` judges it, when `boot` gives every process'   *)
(* present boot.  The probe of a pid of the same pod finds it alive when   *)
(* its process was not restarted, or when the pid was handed out again.    *)
ShouldAbandon(entry, me, boot) ==
    LET owner    == entry.owner
        mine     == owner = [proc |-> me, boot |-> boot[me]]
        samePod  == Pod[owner.proc] = Pod[me]
        pidAlive == owner.boot = boot[owner.proc] \/ PidReuse
    IN  /\ entry.state = "processing"
        /\ \/ owner.proc = NoProc /\ entry.aged
           \/ /\ owner.proc # NoProc /\ ~mine
              /\ IF samePod THEN ~pidAlive ELSE entry.aged

Abandoned(diary, me, boot) ==
    {p \in Phases : ShouldAbandon(diary[p], me, boot)}

HasLiveRunningPhase(diary, me, boot) ==
    \E p \in Phases :
       diary[p].state = "processing" /\ ~ShouldAbandon(diary[p], me, boot)

----------------------------------------------------------------------------
(* Staleness, propagation and the derived status.                          *)

IsPhaseStale(p, diary, settings, abandoned) ==
    \/ diary[p].state = "pending"
    \/ diary[p].state = "processing" /\ p \in abandoned
    \/ /\ diary[p].state = "complete"
       /\ \/ \E d \in Deps(p) : diary[d].state # "complete"
          \/ diary[p].tag # CurrentTag(settings, p)

StalePhases(diary, settings, me, boot) ==
    {p \in Phases :
        IsPhaseStale(p, diary, settings, Abandoned(diary, me, boot))}

(* Mutant of InheritsOutcome: below a failed phase all is skipped.         *)
InheritsSkipped(p, diary, state) ==
    /\ state = "skipped"
    /\ \E i \in DOMAIN DependsOn[p] :
          diary[DependsOn[p][i]].state \in Failed

(* The first failed dependency, in declared order, decides the outcome.    *)
InheritsOutcome(p, diary, state) ==
    \E i \in DOMAIN DependsOn[p] :
       /\ diary[DependsOn[p][i]].state = state
       /\ \A j \in 1 .. i - 1 : diary[DependsOn[p][j]].state \notin Failed

DependencyFailed(p, diary) ==
    \E d \in Deps(p) : diary[d].state \in Failed

(* Mutant of DeriveSourceStatus: the state of a phase for that of a source. *)
DerivePhaseState(diary) ==
    IF \A p \in Phases : diary[p].state \in {"complete", "skipped"}
    THEN "complete" ELSE "processing"

DeriveSourceStatus(diary) ==
    CASE \E p \in Phases : diary[p].state = "error" -> "error"
      [] /\ \A p \in Phases : diary[p].state # "error"
         /\ \E p \in Phases : diary[p].state \in {"pending", "processing"}
            -> "processing"
      [] OTHER -> "completed"
=============================================================================
