----------------------------- MODULE PhaseOrder -----------------------------
(***************************************************************************)
(* The walks over the graph of the registered phases: the order in which   *)
(* the catalogue lists them (phases._dependency_ordered), the one in which *)
(* a deletion runs backwards (phase_execution_order), the resolution of    *)
(* their tags (phase_tag_resolver.resolve_tags), and what is downstream of *)
(* a phase whose products go (downstream_phase_ids).                       *)
(*                                                                         *)
(* Plugins declare phases, so the graph is any: with cycles, and with      *)
(* dependencies nobody declares.  The first three walks are the same       *)
(* descent, a call of the recursive function being pushed on a stack; they *)
(* differ in what they make of a phase and of what they cannot resolve.    *)
(* The order in which a phase names its dependencies is left open.         *)
(***************************************************************************)
EXTENDS Integers, Sequences, FiniteSetsExt, Functions

CONSTANTS
    Registered,  \* the phases, in the order of get_phases
    Undeclared,  \* a dependency that no one declares
    Graphs,      \* the graphs to walk over: per phase, what it depends on
    Origin       \* the phase whose downstream is asked for

Phases == Range(Registered)

ASSUME RegisteredAssumption ==
    /\ Registered \in Seq(Phases)
    /\ \A i, j \in DOMAIN Registered :
          Registered[i] = Registered[j] => i = j
    /\ Undeclared \notin Phases /\ Origin \in Phases
    /\ Graphs \subseteq [Phases -> SUBSET (Phases \cup {Undeclared})]

VARIABLES
    walk,     \* which walk it is
    deps,     \* the graph
    stack,    \* the phases being visited, the innermost call last
    ordered,  \* the phases visited, in the order their calls returned
    depth,    \* the depth found for each of them
    below,    \* what is known to be downstream of Origin
    outcome

vars == << walk, deps, stack, ordered, depth, below, outcome >>

Descents == {"catalog", "deletion", "tags"}

OrderTypeOK ==
    /\ walk \in Descents \cup {"downstream"}
    /\ deps \in [Phases -> SUBSET (Phases \cup {Undeclared})]
    /\ stack \in Seq(Phases) /\ ordered \in Seq(Phases)
    /\ depth \in [Phases -> Nat]
    /\ below \in SUBSET Phases
    /\ outcome \in {"running", "done", "raised"}

Init ==
    /\ walk \in Descents \cup {"downstream"}
    /\ deps \in Graphs
    /\ stack = << >> /\ ordered = << >>
    /\ depth = [p \in Phases |-> 0]
    /\ below = {}
    /\ outcome = "running"

----------------------------------------------------------------------------
(* Mutant of Declared: an undeclared dependency is not filtered.           *)
AsDeclared(p) == deps[p]
Declared(p) == deps[p] \cap Phases

Visiting == Range(stack)
Visited  == Range(ordered)
Top      == stack[Len(stack)]

Descending == walk \in Descents /\ outcome = "running"

(* Each phase is visited in turn, unless an earlier visit came past it.    *)
Begin ==
    /\ Descending /\ stack = << >>
    /\ \E i \in DOMAIN Registered :
          /\ Registered[i] \notin Visited
          /\ \A j \in 1 .. i - 1 : Registered[j] \in Visited
          /\ stack' = << Registered[i] >>
    /\ UNCHANGED << walk, deps, ordered, depth, below, outcome >>

(* Mutant of Descend: a phase visited already is visited again.            *)
DescendAgain ==
    /\ Descending /\ stack # << >>
    /\ \E d \in Declared(Top) \ Visiting : stack' = Append(stack, d)
    /\ UNCHANGED << walk, deps, ordered, depth, below, outcome >>

Descend ==
    /\ Descending /\ stack # << >>
    /\ \E d \in Declared(Top) \ (Visiting \cup Visited) :
          stack' = Append(stack, d)
    /\ UNCHANGED << walk, deps, ordered, depth, below, outcome >>

(* One more than the deepest dependency, where one that is being visited,  *)
(* as on a cycle, counts as not having any.                                *)
DepthSeen(d) == IF d \in Visited THEN depth[d] ELSE 0

(* Mutant of Level: a phase is put as deep as what it depends on.          *)
LevelOfDeps(p) == Max({0} \cup {DepthSeen(d) : d \in Declared(p)})

Level(p) ==
    IF Declared(p) = {} THEN 0
    ELSE 1 + Max({DepthSeen(d) : d \in Declared(p)})

(* Mutant of Return: the tag of a phase is resolved over what is missing.  *)
ReturnAnyway ==
    /\ Descending /\ stack # << >>
    /\ Declared(Top) \subseteq Visiting \cup Visited
    /\ stack' = SubSeq(stack, 1, Len(stack) - 1)
    /\ ordered' = Append(ordered, Top)
    /\ depth' = [depth EXCEPT ![Top] = Level(Top)]
    /\ UNCHANGED << walk, deps, below, outcome >>

(* A cycle is cut where it comes back; a tag needs all its dependencies'.  *)
Return ==
    /\ Descending /\ stack # << >>
    /\ Declared(Top) \subseteq Visiting \cup Visited
    /\ walk = "tags" => deps[Top] \subseteq Visited
    /\ stack' = SubSeq(stack, 1, Len(stack) - 1)
    /\ ordered' = Append(ordered, Top)
    /\ depth' = [depth EXCEPT ![Top] = Level(Top)]
    /\ UNCHANGED << walk, deps, below, outcome >>

(* Mutant of Raise: a cycle is not noticed.                                *)
RaiseUndeclared ==
    /\ Descending /\ walk = "tags" /\ stack # << >>
    /\ Undeclared \in deps[Top]
    /\ outcome' = "raised"
    /\ UNCHANGED << walk, deps, stack, ordered, depth, below >>

(* PhaseTagCycleError, PhaseTagError.                                      *)
Raise ==
    /\ Descending /\ walk = "tags" /\ stack # << >>
    /\ \E d \in deps[Top] \ Visited : d \in Visiting \/ d = Undeclared
    /\ outcome' = "raised"
    /\ UNCHANGED << walk, deps, stack, ordered, depth, below >>

DescentEnds ==
    /\ Descending /\ stack = << >> /\ Phases \subseteq Visited
    /\ outcome' = "done"
    /\ UNCHANGED << walk, deps, stack, ordered, depth, below >>

----------------------------------------------------------------------------
(* downstream_phase_ids looks until a round finds no one more.             *)
Spreads == walk = "downstream" /\ outcome = "running"

(* Mutant of IsBelow: only who depends on the phase itself.                *)
DependsOnOrigin(p) == p \notin below \cup {Origin} /\ Origin \in deps[p]

IsBelow(p) ==
    /\ p \notin below \cup {Origin}
    /\ Origin \in deps[p] \/ deps[p] \cap below # {}

Spread(p) ==
    /\ Spreads /\ IsBelow(p)
    /\ below' = below \cup {p}
    /\ UNCHANGED << walk, deps, stack, ordered, depth, outcome >>

SpreadEnds ==
    /\ Spreads /\ \A p \in Phases : ~IsBelow(p)
    /\ outcome' = "done"
    /\ UNCHANGED << walk, deps, stack, ordered, depth, below >>

----------------------------------------------------------------------------
Next ==
    \/ Begin \/ Descend \/ Return \/ Raise \/ DescentEnds
    \/ SpreadEnds \/ \E p \in Phases : Spread(p)

Spec == Init /\ [][Next]_vars /\ WF_vars(Next)

----------------------------------------------------------------------------
(* q is needed, directly or not, by p; and so a member of a cycle needs    *)
(* itself.                                                                 *)
IsClosed(S) == \A p \in S : Declared(p) \subseteq S
Needs(p, q) ==
    \A S \in SUBSET Phases :
       Declared(p) \subseteq S /\ IsClosed(S) => q \in S

Position(p) == CHOOSE i \in DOMAIN ordered : ordered[i] = p
Rank(p)     == CHOOSE i \in DOMAIN Registered : Registered[i] = p

(* The order that a walk returns.  That of phase_execution_order is by     *)
(* depth, then by registration.                                            *)
Precedes(p, q) ==
    IF walk = "deletion"
    THEN depth[p] < depth[q] \/ (depth[p] = depth[q] /\ Rank(p) < Rank(q))
    ELSE Position(p) < Position(q)

(* phase_execution_order, _dependency_ordered: whatever plugins declare, a *)
(* dependency comes before its dependents, unless they are on one cycle;   *)
(* so a deletion, which runs backwards, never deletes what the products    *)
(* of a phase not yet deleted were made from.                              *)
DependenciesFirst ==
    outcome = "done" /\ walk \in Descents =>
       \A p \in Phases : \A d \in Declared(p) : Precedes(d, p) \/ Needs(d, p)

(* _dependency_ordered: every phase is listed, and once.                   *)
EachOnce ==
    /\ \A i, j \in DOMAIN ordered : ordered[i] = ordered[j] => i = j
    /\ outcome = "done" /\ walk \in Descents => Visited = Phases

(* resolve_tags: tags are resolved when the graph has no cycle and no      *)
(* undeclared dependency, and only then (otherwise it raises, and every    *)
(* phase falls back to the tag it declares).                               *)
Resolvable ==
    \A p \in Phases : deps[p] \subseteq Phases /\ ~Needs(p, p)

TagsWhenResolvable ==
    walk = "tags" /\ outcome # "running" => (outcome = "done" <=> Resolvable)

(* downstream_phase_ids: the fixpoint is the transitive closure.           *)
DownstreamIsTransitive ==
    walk = "downstream" /\ outcome = "done" =>
       below = {p \in Phases \ {Origin} : Needs(p, Origin)}

(* _dependency_ordered, phase_execution_order: a cycle is broken instead   *)
(* of being followed for ever, and something always comes out.             *)
WalkEnds == <>(outcome # "running")

(* _dependency_ordered: phases with no declared relationship keep their    *)
(* registration order.  (This fails: see README.)                          *)
RegistrationOrderKept ==
    outcome = "done" /\ walk = "catalog" =>
       \A p, q \in Phases :
          Rank(p) < Rank(q) /\ ~Needs(p, q) /\ ~Needs(q, p) => Precedes(p, q)
=============================================================================
