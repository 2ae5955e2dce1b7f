---------------------------- MODULE MCIngestion ----------------------------
(* Instances of Ingestion: the values of its constants.                    *)
EXTENDS Ingestion, TLC

CONSTANTS parse, embed, graph, cards, \* phases
          pA, pB,              \* processes
          w1, w2, d1           \* tasks

TwoPhases   == {parse, embed}
ThreePhases == {parse, embed, graph}

BuiltinsOnly  == << parse, embed >>
GraphAfter    == << parse, embed, graph >>

BuiltinDeps == [p \in TwoPhases |-> IF p = embed THEN << parse >> ELSE << >>]
GraphOnEmbedding ==
    [p \in ThreePhases |-> CASE p = parse -> << >>
                             [] p = embed -> << parse >>
                             [] p = graph -> << embed >>]

(* A plugin registered graph before cards, on which it depends.            *)
FourPhases   == {parse, embed, graph, cards}
GraphFirst   == << parse, embed, graph, cards >>
GraphOnCards ==
    [p \in FourPhases |-> CASE p = parse -> << >>
                            [] p = embed -> << parse >>
                            [] p = cards -> << embed >>
                            [] p = graph -> << cards >>]

(* Phases of two plugins: quotes depends on embed, links on graph, and     *)
(* cards, which depends on nothing, comes before both.                     *)
TwoBranches == FourPhases \cup {"quotes", "links"}
CardsBetween == << parse, embed, graph, cards, "quotes", "links" >>
TwoBranchDeps ==
    [p \in TwoBranches |-> CASE p = embed -> << parse >>
                             [] p = "quotes" -> << embed >>
                             [] p = "links" -> << graph >>
                             [] OTHER -> << >>]

OneProc  == {pA}
TwoProcs == {pA, pB}
OnePod   == [p \in Procs |-> 1]
TwoPods  == [p \in Procs |-> IF p = pA THEN 1 ELSE 2]

OneWorker  == {w1}
TwoWorkers == {w1, w2}
NoDeleter  == {}
OneDeleter == {d1}

(* Every task in one process; or w1 in pA and the others in pB.            *)
Together == [t \in Tasks |-> pA]
Apart    == [t \in Tasks |-> IF t = w1 THEN pA ELSE pB]

(* Two workers in two processes of one pod may change places.              *)
ChangePlaces ==
    {f \in Permutations({w1, w2, pA, pB}) :
        \A w \in {w1, w2} : f[w] \in {w1, w2} /\ f[ProcOf[w]] = ProcOf[f[w]]}
=============================================================================
