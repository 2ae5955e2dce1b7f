-------------------------- MODULE PhaseOrderProofs --------------------------
(***************************************************************************)
(* What PhaseOrder's walks find, for any phases and any graph over them.   *)
(* The stack of a descent is a path: each phase on it needs those above.   *)
(* So a dependency that is found on the stack closes a cycle, and one that *)
(* is not has been visited before; that is all the theorems rest on.       *)
(***************************************************************************)
EXTENDS PhaseOrder, WellFoundedInduction, TLAPS

----------------------------------------------------------------------------
(* Numbers.                                                                *)

LEMMA LeastIsThere ==
    ASSUME NEW T \in SUBSET Nat, T # {}
    PROVE  \E n \in T : \A m \in T : n <= m
<1> DEFINE Less == OpToRel(<, Nat)
<1>1. PICK n \in T : \A m \in T : <<m, n>> \notin Less
  BY NatLessThanWellFounded, WFMin
<1>2. \A m \in T : <<m, n>> \in Less <=> m < n
  BY DEF OpToRel
<1>3. \A m \in T : ~(m < n)
  <2> HIDE DEF Less
  <2> QED BY <1>1, <1>2
<1> QED BY <1>3

LEMMA MaxIsThere ==
    ASSUME NEW S \in SUBSET Nat, S # {},
           NEW B \in Nat, \A n \in S : n <= B
    PROVE  Max(S) \in S /\ \A n \in S : n <= Max(S)
<1> DEFINE Bounds == {b \in Nat : \A n \in S : n <= b}
<1>1. PICK b \in Bounds : \A c \in Bounds : b <= c
  <2>1. B \in Bounds
    OBVIOUS
  <2> HIDE DEF Bounds
  <2>2. Bounds \in SUBSET Nat
    BY DEF Bounds
  <2> QED BY <2>1, <2>2, LeastIsThere
<1>2. b \in S
  <2>1. SUFFICES ASSUME b \notin S
                 PROVE  FALSE
    OBVIOUS
  <2>2. b \in Nat /\ \A n \in S : n < b
    BY <2>1
  <2>3. PICK n \in S : TRUE
    OBVIOUS
  <2>4. b - 1 \in Nat
    BY <2>2, <2>3
  <2>5. \A m \in S : m <= b - 1
    BY <2>2
  <2>6. b - 1 \in Bounds
    BY <2>4, <2>5
  <2> QED BY <1>1, <2>2, <2>6
<1>3. \E x \in S : \A y \in S : x >= y
  BY <1>2
<1> QED BY <1>3 DEF Max

----------------------------------------------------------------------------
(* Sequences.                                                              *)

LEMMA RangeOfAppend ==
    ASSUME NEW S, NEW s \in Seq(S), NEW e \in S
    PROVE  Range(Append(s, e)) = Range(s) \cup {e}
<1>1. /\ DOMAIN Append(s, e) = 1 .. Len(s) + 1
      /\ DOMAIN s = 1 .. Len(s) /\ Len(s) \in Nat
      /\ \A i \in 1 .. Len(s) : Append(s, e)[i] = s[i]
      /\ Append(s, e)[Len(s) + 1] = e
  OBVIOUS
<1>2. 1 .. Len(s) + 1 = (1 .. Len(s)) \cup {Len(s) + 1}
  BY <1>1
<1> QED BY <1>1, <1>2, Zenon DEF Range

LEMMA RangeOfFront ==
    ASSUME NEW S, NEW s \in Seq(S), s # << >>,
           \A i, j \in DOMAIN s : s[i] = s[j] => i = j
    PROVE  Range(SubSeq(s, 1, Len(s) - 1)) = Range(s) \ {s[Len(s)]}
<1> DEFINE t == SubSeq(s, 1, Len(s) - 1)
<1>1. /\ DOMAIN t = 1 .. Len(s) - 1 /\ DOMAIN s = 1 .. Len(s)
      /\ Len(s) \in Nat \ {0} /\ Len(s) \in 1 .. Len(s)
      /\ \A i \in 1 .. Len(s) - 1 : t[i] = s[i]
  OBVIOUS
<1>2. 1 .. Len(s) - 1 = (1 .. Len(s)) \ {Len(s)}
  BY <1>1
<1> HIDE DEF t
<1>3. \A e : e \in Range(t) <=> \E i \in 1 .. Len(s) - 1 : s[i] = e
  BY <1>1, Zenon DEF Range
<1>4. \A e : e \in Range(s) <=> \E i \in 1 .. Len(s) : s[i] = e
  BY <1>1, Zenon DEF Range
<1>5. ASSUME NEW e
      PROVE  e \in Range(t) <=> e \in Range(s) /\ e # s[Len(s)]
  BY <1>1, <1>2, <1>3, <1>4, Zenon
<1> QED BY <1>5 DEF t

----------------------------------------------------------------------------
(* Need.                                                                   *)

LEMMA NeedsItsOwn ==
    ASSUME NEW p \in Phases, NEW d \in Declared(p)
    PROVE  Needs(p, d)
BY DEF Needs

LEMMA NeedsNext ==
    ASSUME NEW p \in Phases, NEW q \in Phases, Needs(p, q),
           NEW d \in Declared(q)
    PROVE  Needs(p, d)
BY DEF Needs, IsClosed

(* A phase that needs one of those that need it is on a cycle.             *)
LEMMA NeedsItself ==
    ASSUME NEW p \in Phases, NEW d \in Declared(p), Needs(d, p)
    PROVE  Needs(p, p)
BY DEF Needs, IsClosed

LEMMA NeedsUnchanged ==
    ASSUME deps' = deps, NEW p, NEW q
    PROVE  Needs(p, q)' <=> Needs(p, q)
BY DEF Needs, IsClosed, Declared

----------------------------------------------------------------------------
(* Type correctness.                                                       *)

LEMMA TopIsPhase ==
    ASSUME OrderTypeOK, stack # << >>
    PROVE  /\ Len(stack) \in DOMAIN stack /\ Top \in Phases
           /\ Declared(Top) \subseteq Phases
BY DEF OrderTypeOK, Top, Declared

LEMMA LevelIsNat ==
    ASSUME OrderTypeOK, NEW p \in Phases,
           \A q \in Visited : depth[q] <= Len(ordered)
    PROVE  /\ Level(p) \in Nat
           /\ Level(p) <= Len(ordered) + 1
           /\ \A d \in Declared(p) \cap Visited : depth[d] < Level(p)
<1> DEFINE S == {DepthSeen(d) : d \in Declared(p)}
<1>1. \A d \in Declared(p) : DepthSeen(d) \in Nat /\ DepthSeen(d) <= Len(ordered)
  BY DEF OrderTypeOK, DepthSeen, Declared
<1>2. CASE Declared(p) = {}
  BY <1>2 DEF Level, OrderTypeOK
<1>3. CASE Declared(p) # {}
  <2>1. S \in SUBSET Nat /\ S # {} /\ \A n \in S : n <= Len(ordered)
    BY <1>1, <1>3
  <2>2. Max(S) \in S /\ \A n \in S : n <= Max(S)
    <3>1. Len(ordered) \in Nat
      BY DEF OrderTypeOK
    <3> HIDE DEF S
    <3> QED BY <2>1, <3>1, MaxIsThere
  <2>3. Level(p) = 1 + Max(S)
    BY <1>3 DEF Level
  <2>4. Max(S) \in Nat /\ Max(S) <= Len(ordered)
    BY <2>1, <2>2
  <2>5. \A d \in Declared(p) \cap Visited : depth[d] <= Max(S)
    <3>1. \A d \in Declared(p) \cap Visited : depth[d] \in S
      BY DEF DepthSeen
    <3> HIDE DEF S
    <3> QED BY <3>1, <2>2
  <2> HIDE DEF S
  <2>6. \A d \in Declared(p) \cap Visited : depth[d] \in Nat
    BY DEF OrderTypeOK, Declared
  <2> QED BY <2>3, <2>4, <2>5, <2>6 DEF OrderTypeOK
<1> QED BY <1>2, <1>3

(* The inductive invariant, by parts.                                      *)

StackIsPath ==
    \A i, j \in DOMAIN stack : i < j => Needs(stack[i], stack[j])

NoneTwice ==
    /\ \A i, j \in DOMAIN stack : stack[i] = stack[j] => i = j
    /\ \A i, j \in DOMAIN ordered : ordered[i] = ordered[j] => i = j
    /\ Visiting \cap Visited = {}

DepthBounded == \A q \in Visited : depth[q] <= Len(ordered)

ComesAfter(j, d) ==
    \E i \in 1 .. j - 1 : ordered[i] = d /\ depth[d] < depth[ordered[j]]

VisitedAfter ==
    \A j \in DOMAIN ordered :
       /\ \A d \in Declared(ordered[j]) :
             ComesAfter(j, d) \/ Needs(d, ordered[j])
       /\ walk = "tags" =>
             \A d \in deps[ordered[j]] : \E i \in 1 .. j - 1 : ordered[i] = d

OutcomeKnown ==
    /\ outcome = "done" /\ walk \in Descents => Phases \subseteq Visited
    /\ outcome = "done" /\ walk = "downstream" => \A p \in Phases : ~IsBelow(p)
    /\ outcome = "raised" => walk = "tags" /\ ~Resolvable

BelowNeeds == \A p \in below : p # Origin /\ Needs(p, Origin)

WalkInv ==
    /\ OrderTypeOK
    /\ StackIsPath /\ NoneTwice /\ DepthBounded /\ VisitedAfter
    /\ OutcomeKnown /\ BelowNeeds

LEMMA InitWalk == Init => WalkInv
BY RegisteredAssumption
   DEF Init, WalkInv, OrderTypeOK, StackIsPath, NoneTwice, DepthBounded,
       VisitedAfter, OutcomeKnown, BelowNeeds, Visited, Visiting, Range

LEMMA BeginWalk == WalkInv /\ Begin => WalkInv'
<1> SUFFICES ASSUME WalkInv, Begin
             PROVE  WalkInv'
  OBVIOUS
<1> USE DEF WalkInv
<1>1. PICK i \in DOMAIN Registered :
         Registered[i] \notin Visited /\ stack' = << Registered[i] >>
  BY DEF Begin
<1>2. Registered[i] \in Phases
  BY DEF Phases, Range
<1>3. UNCHANGED << walk, deps, ordered, depth, below, outcome >>
  BY DEF Begin
<1>4. OrderTypeOK'
  BY <1>1, <1>2, <1>3 DEF OrderTypeOK
<1>5. StackIsPath' /\ NoneTwice' /\ DepthBounded'
  BY <1>1, <1>3 DEF StackIsPath, NoneTwice, DepthBounded, Visited, Visiting, Range
<1>6. VisitedAfter'
  BY <1>3, NeedsUnchanged DEF VisitedAfter, ComesAfter, Declared
<1>7. OutcomeKnown' /\ BelowNeeds'
  BY <1>3, NeedsUnchanged DEF Begin, Descending, OutcomeKnown, BelowNeeds
<1> QED BY <1>4, <1>5, <1>6, <1>7

LEMMA DescendWalk == WalkInv /\ Descend => WalkInv'
<1> SUFFICES ASSUME WalkInv, Descend
             PROVE  WalkInv'
  OBVIOUS
<1> USE DEF WalkInv
<1>1. PICK d \in Declared(Top) \ (Visiting \cup Visited) :
         stack' = Append(stack, d)
  BY DEF Descend
<1>2. stack # << >> /\ UNCHANGED << walk, deps, ordered, depth, below, outcome >>
  BY DEF Descend
<1>3. Top \in Phases /\ d \in Phases /\ Len(stack) \in DOMAIN stack
  BY <1>1, <1>2, TopIsPhase
<1>4. OrderTypeOK'
  BY <1>1, <1>2, <1>3 DEF OrderTypeOK
<1>5. StackIsPath'
  <2>1. SUFFICES ASSUME NEW i \in DOMAIN stack', NEW j \in DOMAIN stack', i < j
                 PROVE  Needs(stack'[i], stack'[j])
    BY <1>2, NeedsUnchanged DEF StackIsPath
  <2>2. i \in DOMAIN stack /\ stack'[i] = stack[i] /\ stack[i] \in Phases
    BY <1>1, <2>1 DEF OrderTypeOK
  <2>3. CASE j \in DOMAIN stack
    BY <1>1, <2>1, <2>2, <2>3 DEF StackIsPath, OrderTypeOK
  <2>4. CASE j = Len(stack) + 1
    <3>1. stack'[j] = d
      BY <1>1, <2>4 DEF OrderTypeOK
    <3>2. CASE i = Len(stack)
      BY <1>1, <1>3, <2>2, <3>1, <3>2, NeedsItsOwn DEF Top
    <3>3. CASE i < Len(stack)
      <4>1. Needs(stack[i], Top)
        BY <1>3, <2>2, <3>3 DEF StackIsPath, Top
      <4> QED BY <1>1, <1>3, <2>2, <3>1, <4>1, NeedsNext
    <3> QED BY <2>2, <3>2, <3>3 DEF OrderTypeOK
  <2> QED BY <1>1, <2>3, <2>4 DEF OrderTypeOK
<1>6. NoneTwice' /\ DepthBounded'
  <2>1. Visiting' = Visiting \cup {d} /\ Visited' = Visited
    BY <1>1, <1>2, <1>3, RangeOfAppend DEF Visiting, Visited, OrderTypeOK
  <2>2. \A i \in DOMAIN stack : stack[i] # d
    BY <1>1 DEF Visiting, Range
  <2>3. \A i, j \in DOMAIN stack' : stack'[i] = stack'[j] => i = j
    BY <1>1, <2>2 DEF NoneTwice, OrderTypeOK
  <2> QED BY <1>1, <1>2, <2>1, <2>3 DEF NoneTwice, DepthBounded
<1>7. VisitedAfter'
  BY <1>2, NeedsUnchanged DEF VisitedAfter, ComesAfter, Declared
<1>8. OutcomeKnown' /\ BelowNeeds'
  BY <1>2, NeedsUnchanged DEF Descend, Descending, OutcomeKnown, BelowNeeds
<1> QED BY <1>4, <1>5, <1>6, <1>7, <1>8

(* What a phase on the stack depends on, and is being visited, needs it.   *)
LEMMA VisitingNeedsTop ==
    ASSUME OrderTypeOK, StackIsPath, stack # << >>,
           NEW d \in Declared(Top) \cap Visiting
    PROVE  Needs(d, Top)
<1>1. PICK i \in DOMAIN stack : stack[i] = d
  BY DEF Visiting, Range
<1>2. Len(stack) \in DOMAIN stack /\ Top \in Phases
  BY TopIsPhase
<1>3. CASE i = Len(stack)
  BY <1>1, <1>2, <1>3, NeedsItsOwn DEF Top
<1>4. CASE i < Len(stack)
  BY <1>1, <1>2, <1>4 DEF StackIsPath, Top
<1> QED BY <1>1, <1>3, <1>4 DEF OrderTypeOK

LEMMA ReturnWalk == WalkInv /\ Return => WalkInv'
<1> SUFFICES ASSUME WalkInv, Return
             PROVE  WalkInv'
  OBVIOUS
<1> USE DEF WalkInv
<1>0. PICK n \in Nat : n = Len(ordered) + 1
  BY DEF OrderTypeOK
<1>1. /\ stack # << >> /\ stack' = SubSeq(stack, 1, Len(stack) - 1)
      /\ ordered' = Append(ordered, Top)
      /\ depth' = [depth EXCEPT ![Top] = Level(Top)]
      /\ Declared(Top) \subseteq Visiting \cup Visited
      /\ walk = "tags" => deps[Top] \subseteq Visited
      /\ UNCHANGED << walk, deps, below, outcome >>
  BY DEF Return
<1>2. Top \in Phases /\ Declared(Top) \subseteq Phases /\ Len(stack) \in DOMAIN stack
  BY <1>1, TopIsPhase
<1>3. /\ Level(Top) \in Nat /\ Level(Top) <= Len(ordered) + 1
      /\ \A d \in Declared(Top) \cap Visited : depth[d] < Level(Top)
  BY <1>2, LevelIsNat DEF DepthBounded
<1>4. /\ Visiting' = Visiting \ {Top} /\ Visited' = Visited \cup {Top}
      /\ Top \in Visiting /\ Top \notin Visited
  <2>1. Top \in Visiting
    BY <1>2 DEF Visiting, Range, Top
  <2>2. Top \notin Visited
    BY <2>1 DEF NoneTwice
  <2>3. Visited' = Visited \cup {Top}
    BY <1>1, <1>2, RangeOfAppend DEF Visited, OrderTypeOK
  <2>4. Range(SubSeq(stack, 1, Len(stack) - 1)) = Range(stack) \ {stack[Len(stack)]}
    BY <1>1, RangeOfFront DEF NoneTwice, OrderTypeOK
  <2>5. Visiting' = Visiting \ {Top}
    BY <1>1, <2>4 DEF Visiting, Top
  <2> QED BY <2>1, <2>2, <2>3, <2>5
<1>5. /\ DOMAIN ordered' = (DOMAIN ordered) \cup {n}
      /\ \A i \in DOMAIN ordered : i < n /\ ordered'[i] = ordered[i]
      /\ ordered'[n] = Top /\ DOMAIN ordered = 1 .. Len(ordered) /\ n \in Nat
      /\ Len(ordered') = n
  BY <1>0, <1>1, <1>2 DEF OrderTypeOK
<1>6. /\ DOMAIN stack' = 1 .. Len(stack) - 1 /\ DOMAIN stack = 1 .. Len(stack)
      /\ Len(stack) \in Nat \ {0}
      /\ \A i \in DOMAIN stack' : i \in DOMAIN stack /\ stack'[i] = stack[i]
  BY <1>1 DEF OrderTypeOK
<1>7. /\ depth'[Top] = Level(Top)
      /\ \A q \in Visited : q \in Phases /\ depth'[q] = depth[q]
  <2>1. \A q \in Visited : q \in Phases /\ q # Top
    BY <1>4 DEF Visited, Range, OrderTypeOK
  <2> QED BY <1>1, <1>2, <2>1 DEF OrderTypeOK
<1>8. OrderTypeOK'
  BY <1>1, <1>2, <1>3 DEF OrderTypeOK
<1>9. StackIsPath'
  BY <1>1, <1>6, NeedsUnchanged DEF StackIsPath
<1>10. NoneTwice'
  <2>1. \A i \in DOMAIN ordered : ordered[i] # Top
    BY <1>4 DEF Visited, Range
  <2>2. \A i, j \in DOMAIN ordered' : ordered'[i] = ordered'[j] => i = j
    BY <1>5, <2>1 DEF NoneTwice
  <2>3. \A i, j \in DOMAIN stack' : stack'[i] = stack'[j] => i = j
    BY <1>6 DEF NoneTwice
  <2> QED BY <1>4, <2>2, <2>3 DEF NoneTwice
<1>11. DepthBounded'
  <2>1. \A q \in Visited : depth[q] \in Nat /\ depth[q] <= Len(ordered)
    BY <1>7 DEF DepthBounded, OrderTypeOK
  <2> QED BY <1>0, <1>3, <1>4, <1>5, <1>7, <2>1 DEF DepthBounded, OrderTypeOK
<1>12. VisitedAfter'
  <2>1. SUFFICES ASSUME NEW j \in DOMAIN ordered'
                 PROVE  /\ \A d \in Declared(ordered'[j]) :
                              ComesAfter(j, d)' \/ Needs(d, ordered'[j])
                        /\ walk = "tags" =>
                              \A d \in deps[ordered'[j]] :
                                 \E i \in 1 .. j - 1 : ordered'[i] = d
    BY <1>1, NeedsUnchanged DEF VisitedAfter, Declared
  <2>2. CASE j \in DOMAIN ordered
    <3>1. \A i \in 1 .. j - 1 : i \in DOMAIN ordered
      BY <1>5, <2>2
    <3>2. \A i \in DOMAIN ordered : depth'[ordered[i]] = depth[ordered[i]]
      BY <1>7 DEF Visited, Range
    <3>3. \A d : ComesAfter(j, d) => ComesAfter(j, d)'
      BY <1>5, <2>2, <3>1, <3>2 DEF ComesAfter
    <3> QED BY <1>5, <2>2, <3>1, <3>3 DEF VisitedAfter
  <2>3. CASE j = n
    <3>1. \A d \in Visited : \E i \in 1 .. n - 1 : ordered'[i] = d
      BY <1>0, <1>5 DEF Visited, Range
    <3>2. ASSUME NEW d \in Declared(Top)
          PROVE  ComesAfter(n, d)' \/ Needs(d, Top)
      <4>1. CASE d \in Visited
        <5>1. PICK i \in 1 .. n - 1 : ordered'[i] = d
          BY <3>1, <4>1
        <5>2. depth'[d] < depth'[ordered'[n]]
          BY <1>3, <1>5, <1>7, <4>1
        <5> QED BY <5>1, <5>2 DEF ComesAfter
      <4>2. CASE d \in Visiting
        BY <1>1, <4>2, VisitingNeedsTop
      <4> QED BY <1>1, <4>1, <4>2
    <3>3. ordered'[j] = Top
      BY <1>5, <2>3
    <3>4. ASSUME NEW d \in Declared(ordered'[j])
          PROVE  ComesAfter(j, d)' \/ Needs(d, ordered'[j])
      BY <2>3, <3>2, <3>3
    <3>5. ASSUME walk = "tags", NEW d \in deps[ordered'[j]]
          PROVE  \E i \in 1 .. j - 1 : ordered'[i] = d
      BY <1>1, <2>3, <3>1, <3>3, <3>5
    <3> QED BY <3>4, <3>5
  <2> QED BY <1>5, <2>2, <2>3
<1>13. OutcomeKnown' /\ BelowNeeds'
  BY <1>1, NeedsUnchanged DEF Return, Descending, OutcomeKnown, BelowNeeds
<1> QED BY <1>8, <1>9, <1>10, <1>11, <1>12, <1>13

(* What is raised is a cycle, or a dependency that no one declares.        *)
LEMMA RaiseWalk == WalkInv /\ Raise => WalkInv'
<1> SUFFICES ASSUME WalkInv, Raise
             PROVE  WalkInv'
  OBVIOUS
<1> USE DEF WalkInv
<1>1. PICK d \in deps[Top] \ Visited : d \in Visiting \/ d = Undeclared
  BY DEF Raise
<1>2. /\ stack # << >> /\ walk = "tags" /\ outcome' = "raised"
      /\ UNCHANGED << walk, deps, stack, ordered, depth, below >>
  BY DEF Raise
<1>3. Top \in Phases
  BY <1>2, TopIsPhase
<1>4. ~Resolvable
  <2>1. CASE d = Undeclared
    BY <1>1, <1>3, <2>1, RegisteredAssumption DEF Resolvable
  <2>2. CASE d \in Visiting
    <3>1. d \in Declared(Top)
      BY <1>1, <2>2 DEF Visiting, Range, Declared, OrderTypeOK
    <3>2. Needs(Top, Top)
      BY <1>2, <1>3, <2>2, <3>1, VisitingNeedsTop, NeedsItself
    <3> QED BY <1>3, <3>2 DEF Resolvable
  <2> QED BY <1>1, <2>1, <2>2
<1>5. ~Resolvable'
  BY <1>2, <1>4, NeedsUnchanged DEF Resolvable
<1>6. OrderTypeOK' /\ StackIsPath' /\ NoneTwice' /\ DepthBounded'
  BY <1>2, NeedsUnchanged
     DEF OrderTypeOK, StackIsPath, NoneTwice, DepthBounded, Visiting, Visited
<1>7. VisitedAfter' /\ BelowNeeds'
  BY <1>2, NeedsUnchanged DEF VisitedAfter, ComesAfter, Declared, BelowNeeds
<1>8. OutcomeKnown'
  BY <1>2, <1>5 DEF OutcomeKnown
<1> QED BY <1>6, <1>7, <1>8

LEMMA DescentEndsWalk == WalkInv /\ DescentEnds => WalkInv'
<1> SUFFICES ASSUME WalkInv, DescentEnds
             PROVE  WalkInv'
  OBVIOUS
<1> USE DEF WalkInv
<1>1. /\ Phases \subseteq Visited /\ outcome' = "done" /\ walk \in Descents
      /\ UNCHANGED << walk, deps, stack, ordered, depth, below >>
  BY DEF DescentEnds, Descending
<1>2. OrderTypeOK' /\ StackIsPath' /\ NoneTwice' /\ DepthBounded'
  BY <1>1, NeedsUnchanged
     DEF OrderTypeOK, StackIsPath, NoneTwice, DepthBounded, Visiting, Visited
<1>3. VisitedAfter' /\ BelowNeeds'
  BY <1>1, NeedsUnchanged DEF VisitedAfter, ComesAfter, Declared, BelowNeeds
<1>4. OutcomeKnown'
  BY <1>1 DEF OutcomeKnown, Visited, Descents
<1> QED BY <1>2, <1>3, <1>4

(* Who depends on what needs Origin needs it too.                          *)
LEMMA SpreadWalk ==
    ASSUME WalkInv, NEW p \in Phases, Spread(p)
    PROVE  WalkInv'
<1> USE DEF WalkInv
<1>1. /\ IsBelow(p) /\ below' = below \cup {p} /\ outcome = "running"
      /\ UNCHANGED << walk, deps, stack, ordered, depth, outcome >>
  BY DEF Spread, Spreads
<1>2. OrderTypeOK' /\ StackIsPath' /\ NoneTwice' /\ DepthBounded'
  BY <1>1, NeedsUnchanged
     DEF OrderTypeOK, StackIsPath, NoneTwice, DepthBounded, Visiting, Visited
<1>3. VisitedAfter' /\ OutcomeKnown'
  BY <1>1, NeedsUnchanged DEF VisitedAfter, ComesAfter, Declared, OutcomeKnown
<1>4. Needs(p, Origin)
  <2>1. CASE Origin \in deps[p]
    <3>1. Origin \in Declared(p)
      BY <2>1, RegisteredAssumption DEF Declared
    <3> QED BY <3>1, NeedsItsOwn
  <2>2. CASE deps[p] \cap below # {}
    <3>1. PICK d \in Declared(p) : d \in below
      BY <2>2 DEF Declared, OrderTypeOK
    <3>2. Needs(d, Origin)
      BY <3>1 DEF BelowNeeds
    <3> QED BY <3>1, <3>2 DEF Needs, IsClosed
  <2> QED BY <1>1, <2>1, <2>2 DEF IsBelow
<1>5. BelowNeeds'
  BY <1>1, <1>4, NeedsUnchanged DEF BelowNeeds, IsBelow
<1> QED BY <1>2, <1>3, <1>5

LEMMA SpreadEndsWalk == WalkInv /\ SpreadEnds => WalkInv'
<1> SUFFICES ASSUME WalkInv, SpreadEnds
             PROVE  WalkInv'
  OBVIOUS
<1> USE DEF WalkInv
<1>1. /\ walk = "downstream" /\ outcome' = "done"
      /\ \A p \in Phases : ~IsBelow(p)
      /\ UNCHANGED << walk, deps, stack, ordered, depth, below >>
  BY DEF SpreadEnds, Spreads
<1>2. OrderTypeOK' /\ StackIsPath' /\ NoneTwice' /\ DepthBounded'
  BY <1>1, NeedsUnchanged
     DEF OrderTypeOK, StackIsPath, NoneTwice, DepthBounded, Visiting, Visited
<1>3. VisitedAfter' /\ BelowNeeds'
  BY <1>1, NeedsUnchanged DEF VisitedAfter, ComesAfter, Declared, BelowNeeds
<1>4. OutcomeKnown'
  BY <1>1 DEF OutcomeKnown, Descents, IsBelow
<1> QED BY <1>2, <1>3, <1>4

LEMMA StutterWalk == WalkInv /\ UNCHANGED vars => WalkInv'
<1> SUFFICES ASSUME WalkInv, UNCHANGED vars
             PROVE  WalkInv'
  OBVIOUS
<1> USE DEF WalkInv, vars
<1>1. OrderTypeOK' /\ StackIsPath' /\ NoneTwice' /\ DepthBounded'
  BY NeedsUnchanged
     DEF OrderTypeOK, StackIsPath, NoneTwice, DepthBounded, Visiting, Visited
<1>2. VisitedAfter' /\ BelowNeeds'
  BY NeedsUnchanged DEF VisitedAfter, ComesAfter, Declared, BelowNeeds
<1>3. OutcomeKnown'
  <2>1. Resolvable' <=> Resolvable
    BY NeedsUnchanged DEF Resolvable
  <2> QED BY <2>1 DEF OutcomeKnown, IsBelow, Visited
<1> QED BY <1>1, <1>2, <1>3

(* The invariant that the theorems below are read off: the stack is a path *)
(* of needs, and what has been visited was visited after what it needs.    *)
THEOREM WalkInvariant == Spec => []WalkInv
<1>1. WalkInv /\ [Next]_vars => WalkInv'
  BY BeginWalk, DescendWalk, ReturnWalk, RaiseWalk, DescentEndsWalk,
     SpreadWalk, SpreadEndsWalk, StutterWalk DEF Next
<1> QED BY InitWalk, <1>1, PTL DEF Spec

(* The walks keep phases on their stack and in their order, and a depth    *)
(* that is a number whatever the cycles.                                   *)
THEOREM OrderTypeCorrect == Spec => []OrderTypeOK
<1>1. WalkInv => OrderTypeOK
  BY DEF WalkInv
<1> QED BY <1>1, WalkInvariant, PTL

(* _dependency_ordered lists every phase, and none of them twice.          *)
THEOREM EachPhaseOnce == Spec => []EachOnce
<1>1. WalkInv => EachOnce
  <2>1. WalkInv => Visited \subseteq Phases
    BY DEF WalkInv, OrderTypeOK, Visited, Range
  <2> QED BY <2>1 DEF WalkInv, NoneTwice, OutcomeKnown, EachOnce
<1> QED BY <1>1, WalkInvariant, PTL

(* A dependency is before its dependents in the catalogue, and in the      *)
(* order that a deletion runs backwards, unless a cycle holds them both.   *)
THEOREM DependenciesComeFirst == Spec => []DependenciesFirst
<1>1. ASSUME WalkInv, outcome = "done", walk \in Descents,
             NEW p \in Phases, NEW d \in Declared(p), ~Needs(d, p)
      PROVE  Precedes(d, p)
  <2>1. p \in Visited
    BY <1>1 DEF WalkInv, OutcomeKnown
  <2>2. PICK j \in DOMAIN ordered : ordered[j] = p
    BY <2>1 DEF Visited, Range
  <2>3. PICK i \in 1 .. j - 1 : ordered[i] = d /\ depth[d] < depth[p]
    BY <1>1, <2>2 DEF WalkInv, VisitedAfter, ComesAfter
  <2>4. i \in DOMAIN ordered /\ i < j
    BY <1>1, <2>2, <2>3 DEF WalkInv, OrderTypeOK
  <2>5. Position(p) = j /\ Position(d) = i
    BY <1>1, <2>2, <2>3, <2>4 DEF WalkInv, NoneTwice, Position
  <2> QED BY <2>3, <2>4, <2>5 DEF Precedes
<1>2. WalkInv => DependenciesFirst
  BY <1>1 DEF DependenciesFirst
<1> QED BY <1>2, WalkInvariant, PTL

(* resolve_tags gives every phase a tag over those of its dependencies     *)
(* exactly when no cycle and no undeclared dependency is among them.       *)
THEOREM TagsAreResolved == Spec => []TagsWhenResolvable
<1>1. ASSUME WalkInv, outcome = "done", walk = "tags"
      PROVE  Resolvable
  <2>1. SUFFICES ASSUME NEW p \in Phases
                 PROVE  deps[p] \subseteq Phases /\ ~Needs(p, p)
    BY DEF Resolvable
  <2>2. /\ p \in Visited /\ Visited \subseteq Phases
        /\ DOMAIN ordered = 1 .. Len(ordered) /\ Len(ordered) \in Nat
    BY <1>1 DEF WalkInv, OutcomeKnown, OrderTypeOK, Visited, Range, Descents
  <2>3. PICK j \in DOMAIN ordered : ordered[j] = p
    BY <2>2 DEF Visited, Range
  <2> DEFINE Before == {ordered[i] : i \in 1 .. j - 1}
  <2>4. ASSUME NEW k \in 1 .. j, NEW d \in deps[ordered[k]]
        PROVE  d \in Before
    <3>1. k \in DOMAIN ordered
      BY <2>2, <2>3
    <3>2. PICK i \in 1 .. k - 1 : ordered[i] = d
      BY <1>1, <2>4, <3>1 DEF WalkInv, VisitedAfter
    <3>3. i \in 1 .. j - 1
      BY <2>2, <2>3, <3>2
    <3> QED BY <3>2, <3>3
  <2>5. Before \subseteq Phases
    BY <2>2, <2>3 DEF Visited, Range
  <2>6. p \notin Before
    BY <1>1, <2>2, <2>3 DEF WalkInv, NoneTwice
  <2>7. deps[p] \subseteq Before
    BY <2>2, <2>3, <2>4
  <2>8. IsClosed(Before)
    <3>1. SUFFICES ASSUME NEW i \in 1 .. j - 1
                   PROVE  deps[ordered[i]] \subseteq Before
      BY DEF IsClosed, Declared
    <3>2. i \in 1 .. j
      BY <2>2, <2>3
    <3> QED BY <2>4, <3>2
  <2> HIDE DEF Before
  <2> QED BY <2>5, <2>6, <2>7, <2>8 DEF Needs, Declared
<1>2. WalkInv => TagsWhenResolvable
  BY <1>1 DEF WalkInv, OrderTypeOK, OutcomeKnown, TagsWhenResolvable
<1> QED BY <1>2, WalkInvariant, PTL

(* downstream_phase_ids finds those, and only those, that need the phase,  *)
(* however far from it they are.                                           *)
THEOREM DownstreamFound == Spec => []DownstreamIsTransitive
<1>1. ASSUME WalkInv, outcome = "done", walk = "downstream",
             NEW p \in Phases \ {Origin}, p \notin below
      PROVE  ~Needs(p, Origin)
  <2> DEFINE Rest == Phases \ (below \cup {Origin})
  <2>1. \A q \in Rest : Declared(q) \subseteq Rest
    BY <1>1 DEF WalkInv, OutcomeKnown, IsBelow, Declared
  <2> QED BY <1>1, <2>1 DEF Needs, IsClosed
<1>2. WalkInv => DownstreamIsTransitive
  BY <1>1 DEF WalkInv, OrderTypeOK, BelowNeeds, DownstreamIsTransitive
<1> QED BY <1>2, WalkInvariant, PTL
=============================================================================
