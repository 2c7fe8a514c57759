----------------------------- MODULE MCTaxonomy -----------------------------
(* Small instances of Taxonomy: every set of declarations within the       *)
(* bounds, in every acyclic import graph over the packages, which are      *)
(* numbered so that a package imports lower numbers only.                  *)
EXTENDS Taxonomy, FiniteSetsExt, TLC

CONSTANTS MaxDeclared, \* bounds on the edges and marks, and on the marks, that
          MaxMarks     \* all packages declare together

UpTo(S, n) == UNION {kSubset(k, Package \X S) : k \in 0 .. n}
At(p, items) == {i[2] : i \in {j \in items : j[1] = p}}

\* One of each set of declarations that differ only in the names of the classes:
\* what TLC's symmetry would do, which is not sound for liveness.
Declarations ==
    UNION {{[p \in Package |-> [edges |-> At(p, edges), marks |-> At(p, marks)]] :
              edges \in UpTo(Edge, MaxDeclared - Cardinality(marks))} : marks \in UpTo(Mark, MaxMarks)}
Renamed(f, d) ==
    [p \in Package |-> [edges |-> {<<f[e[1]], f[e[2]]>> : e \in d[p].edges},
                        marks |-> {[m EXCEPT !.class = f[@]] : m \in d[p].marks}]]
UpToNames == {CHOOSE d \in {Renamed(f, e) : f \in Permutations(Class)} : TRUE : e \in Declarations}

BoundedInit ==
    /\ declared \in UpToNames
    /\ imports \in [Package -> SUBSET Package]
    /\ \A p \in Package : imports[p] \subseteq 1 .. p - 1
    /\ Unstarted

BoundedSpec == BoundedInit /\ [][Next]_vars /\ Fairness
=============================================================================
