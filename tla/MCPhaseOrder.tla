--------------------------- MODULE MCPhaseOrder ---------------------------
(* Instances of PhaseOrder: all graphs of four phases with few edges.      *)
EXTENDS PhaseOrder

CONSTANTS p1, p2, p3, p4, MaxEdges

FourPhases == << p1, p2, p3, p4 >>

Edges == {p1, p2, p3, p4} \X {p1, p2, p3, p4, Undeclared}

GraphOf(E) == [p \in {p1, p2, p3, p4} |-> {e[2] : e \in {f \in E : f[1] = p}}]

SparseGraphs ==
    {GraphOf({})} \cup {GraphOf(Range(f)) : f \in [1 .. MaxEdges -> Edges]}
=============================================================================
