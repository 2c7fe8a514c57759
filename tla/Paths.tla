------------------------------- MODULE Paths -------------------------------
(* The runs of a function body that enter no block twice: the paths in its *)
(* flow graph, given as the sequence of the successors of each block, that *)
(* start at the first block.                                               *)
EXTENDS SequencesExt

PathsOf(graph) ==
    {p \in BoundedSeq(DOMAIN graph, Len(graph)) :
        /\ p # <<>> /\ p[1] = 1 /\ IsInjective(p)
        /\ \A n \in 2 .. Len(p) : p[n] \in Range(graph[p[n - 1]])}
=============================================================================
