------------------------------ MODULE Taxonomy ------------------------------
(***************************************************************************)
(* The lock order taxonomy: one analysis per package (runLockOrder),       *)
(* started when the packages it imports are done.  It gathers the          *)
(* declarations of the package and the facts of its direct imports, closes *)
(* the order transitively one class at a time (order.close), and exports   *)
(* what it gathered unless the order has a cycle.                          *)
(*                                                                         *)
(* close goes through the classes in the order of their names; a class has *)
(* no name here, so the model takes every order.  The list of edges is a   *)
(* set: an edge that two imports pass on is in the list twice.             *)
(***************************************************************************)
EXTENDS Naturals, FiniteSets

CONSTANTS Class,       \* lock classes
          Package

Edge == {e \in Class \X Class : e[1] # e[2]}        \* parseOrderEdge rejects A < A
Mark == [class : Class, kind : {"hierarchical", "withheld"}]
Order == [edges : SUBSET Edge, marks : SUBSET Mark]
NoOrder == [edges |-> {}, marks |-> {}]

VARIABLES declared,    \* [Package -> Order] the doc comments of the package
          imports,     \* [Package -> SUBSET Package] its direct imports
          stage,       \* [Package -> Stage]
          order,       \* [Package -> Order] what the pass gathered
          precedes,    \* [Package -> [Class -> SUBSET Class]]
          todo,        \* [Package -> SUBSET Class] the classes close has left
          fact         \* [Package -> Order] what dependents import

vars == <<declared, imports, stage, order, precedes, todo, fact>>

Stage == {"waiting", "closing", "cyclic", "settled"}

Finished(p) == stage[p] \in {"cyclic", "settled"}

\* The types; a package that has not passed the test for a cycle exports nothing.
TypeOK == /\ declared \in [Package -> Order]
          /\ imports \in [Package -> SUBSET Package]
          /\ stage \in [Package -> Stage]
          /\ order \in [Package -> Order]
          /\ precedes \in [Package -> [Class -> SUBSET Class]]
          /\ todo \in [Package -> SUBSET Class]
          /\ fact \in [Package -> Order]
          /\ \A p \in Package : stage[p] # "settled" => fact[p] = NoOrder

\* p, and what it imports directly or indirectly.
Deps(p) == {q \in Package : \A S \in SUBSET Package :
               p \in S /\ (\A r \in S : imports[r] \subseteq S) => q \in S}

\* The packages a build hands to the analyzer import each other without a cycle.
Acyclic == \A p \in Package : \A q \in imports[p] : p \notin Deps(q)

Unstarted == /\ stage = [p \in Package |-> "waiting"]
             /\ order = [p \in Package |-> NoOrder]
             /\ precedes = [p \in Package |-> [c \in Class |-> {}]]
             /\ todo = [p \in Package |-> {}]
             /\ fact = [p \in Package |-> NoOrder]

Init == /\ declared \in [Package -> Order]
        /\ imports \in [Package -> SUBSET Package] /\ Acyclic
        /\ Unstarted

-----------------------------------------------------------------------------
\* order.classes: the classes an edge or a mark names.
Classes(o) == {e[1] : e \in o.edges} \cup {e[2] : e \in o.edges} \cup {m.class : m \in o.marks}

\* addEdge, for every edge.
Rows(edges) == [a \in Class |-> {b \in Class : <<a, b>> \in edges}]

\* Mutant: the marks of the imports are dropped.
GatherOwnMarks(p) ==
    /\ stage[p] = "waiting"
    /\ \A q \in imports[p] : Finished(q)
    /\ LET from == {declared[p]} \cup {fact[q] : q \in imports[p]}
           o == [edges |-> UNION {f.edges : f \in from}, marks |-> declared[p].marks]
       IN  /\ order' = [order EXCEPT ![p] = o]
           /\ precedes' = [precedes EXCEPT ![p] = Rows(o.edges)]
           /\ todo' = [todo EXCEPT ![p] = Classes(o)]
    /\ stage' = [stage EXCEPT ![p] = "closing"]
    /\ UNCHANGED <<declared, imports, fact>>

\* loadDeclaredOrder and importOrderFacts: the facts of the direct imports only.
Gather(p) ==
    /\ stage[p] = "waiting"
    /\ \A q \in imports[p] : Finished(q)
    /\ LET from == {declared[p]} \cup {fact[q] : q \in imports[p]}
           o == [edges |-> UNION {f.edges : f \in from}, marks |-> UNION {f.marks : f \in from}]
       IN  /\ order' = [order EXCEPT ![p] = o]
           /\ precedes' = [precedes EXCEPT ![p] = Rows(o.edges)]
           /\ todo' = [todo EXCEPT ![p] = Classes(o)]
    /\ stage' = [stage EXCEPT ![p] = "closing"]
    /\ UNCHANGED <<declared, imports, fact>>

\* Mutant: the classes after k get the row of k, instead of those before it.
ThroughReversed(rows, k) ==
    [i \in Class |-> IF i \in rows[k] THEN rows[i] \cup rows[k] ELSE rows[i]]

\* One round of the outer loop of close.  The row of k does not change in it,
\* so it does not matter that the code reads rows it has just written.
Through(rows, k) ==
    [i \in Class |-> IF k \in rows[i] THEN rows[i] \cup rows[k] ELSE rows[i]]

CloseClass(p, k) ==
    /\ stage[p] = "closing" /\ k \in todo[p]
    /\ precedes' = [precedes EXCEPT ![p] = Through(precedes[p], k)]
    /\ todo' = [todo EXCEPT ![p] = @ \ {k}]
    /\ UNCHANGED <<declared, imports, stage, order, fact>>

\* Mutants: only the package's own declarations are exported; no test for a
\* cycle; the facts exported before it.
FinishExportsOwn(p) ==
    /\ stage[p] = "closing" /\ todo[p] = {}
    /\ IF \E c \in Class : c \in precedes[p][c]
       THEN stage' = [stage EXCEPT ![p] = "cyclic"] /\ UNCHANGED fact
       ELSE stage' = [stage EXCEPT ![p] = "settled"] /\ fact' = [fact EXCEPT ![p] = declared[p]]
    /\ UNCHANGED <<declared, imports, order, precedes, todo>>
FinishUntested(p) ==
    /\ stage[p] = "closing" /\ todo[p] = {}
    /\ stage' = [stage EXCEPT ![p] = "settled"] /\ fact' = [fact EXCEPT ![p] = order[p]]
    /\ UNCHANGED <<declared, imports, order, precedes, todo>>

FinishExportsFirst(p) ==
    /\ stage[p] = "closing" /\ todo[p] = {}
    /\ stage' = [stage EXCEPT ![p] =
                   IF \E c \in Class : c \in precedes[p][c] THEN "cyclic" ELSE "settled"]
    /\ fact' = [fact EXCEPT ![p] = order[p]]
    /\ UNCHANGED <<declared, imports, order, precedes, todo>>

\* Mutant: the pass does not return when it has reported a cycle.
FinishStays(p) ==
    /\ stage[p] = "closing" /\ todo[p] = {}
    /\ IF \E c \in Class : c \in precedes[p][c]
       THEN UNCHANGED <<stage, fact>>
       ELSE stage' = [stage EXCEPT ![p] = "settled"] /\ fact' = [fact EXCEPT ![p] = order[p]]
    /\ UNCHANGED <<declared, imports, order, precedes, todo>>

\* The test for a cycle.  With one, the pass reports it and returns: it exports
\* nothing, and dependents see nothing of what it declares or imports.
Finish(p) ==
    /\ stage[p] = "closing" /\ todo[p] = {}
    /\ IF \E c \in Class : c \in precedes[p][c]
       THEN stage' = [stage EXCEPT ![p] = "cyclic"] /\ UNCHANGED fact
       ELSE stage' = [stage EXCEPT ![p] = "settled"] /\ fact' = [fact EXCEPT ![p] = order[p]]
    /\ UNCHANGED <<declared, imports, order, precedes, todo>>

AllDone == (\A p \in Package : Finished(p)) /\ UNCHANGED vars

Next == \/ \E p \in Package : Gather(p) \/ Finish(p) \/ \E k \in Class : CloseClass(p, k)
        \/ AllDone

Spec == Init /\ [][Next]_vars

\* The driver starts every pass whose imports are done, and a pass is one
\* goroutine that blocks on nothing.
Pass(p) == Gather(p) \/ Finish(p) \/ \E k \in Class : CloseClass(p, k)
Fairness == \A p \in Package : WF_vars(Pass(p))

-----------------------------------------------------------------------------
\* The classes that must come after a: those that a path of edges leads to,
\* going on only through classes of "via".
ClosedVia(edges, via, S) == \A e \in edges : e[1] \in S \cap via => e[2] \in S
After(edges, via, a) ==
    {b \in Class : \A S \in SUBSET Class :
        Rows(edges)[a] \subseteq S /\ ClosedVia(edges, via, S) => b \in S}

HasCycle(edges) == \E c \in Class : c \in After(edges, Class, c)

\* violates: whether taking "acquired" with "held" held is reported in p.
Violates(p, held, acquired) ==
    IF held = acquired
    THEN \A m \in order[p].marks : m.class # held
    ELSE held \in precedes[p][acquired]

-----------------------------------------------------------------------------
\* Whatever the order of the classes, close ends with the transitive closure of
\* the edges the pass gathered.
ClosureIsReachability ==
    \A p \in Package : Finished(p) =>
        \A a \in Class : precedes[p][a] = After(order[p].edges, Class, a)

\* "A cycle introduced by two packages declaring halves of it is still caught"
\* (lockorder.go:209-211), in whichever package first sees both halves; and a
\* cycle is reported only if the declarations have one.
AllEdges(p) == UNION {declared[q].edges : q \in Deps(p)}
CycleIsReported ==
    \A p \in Package : Finished(p) =>
        (HasCycle(AllEdges(p)) <=> \E q \in Deps(p) : stage[q] = "cyclic")

\* Without a cycle below it, a package checks the whole taxonomy of its
\* dependencies: what one of them rejects it rejects, and it never asks for the
\* opposite order.
NoCycleBelow(p) == \A q \in Deps(p) : stage[q] = "settled"
VerdictsAgree ==
    \A p \in Package : NoCycleBelow(p) =>
        \A q \in Deps(p), held, acquired \in Class :
            held # acquired /\ Violates(q, held, acquired) =>
                Violates(p, held, acquired) /\ ~Violates(p, acquired, held)

\* An exemption of the same-class rule reaches every dependent, and only a
\* declaration makes one.
ExemptionsTravel ==
    \A p \in Package, c \in Class : NoCycleBelow(p) =>
        (~Violates(p, c, c) <=>
            \E q \in Deps(p) : \E m \in declared[q].marks : m.class = c)

\* "A cycle is a declaration bug ... so it is reported once against the package",
\* and the pass returns without an error (lockorder.go:126-131): a cycle, or the
\* packages that have reported one, never keep a package from being analysed, and
\* in the end every package stands on a cycle that was reported or on none.
EveryPackageIsAnalysed ==
    \A p \in Package : <>(Finished(p) /\ (HasCycle(AllEdges(p)) =>
                                             \E q \in Deps(p) : stage[q] = "cyclic"))
=============================================================================
