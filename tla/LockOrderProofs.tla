-------------------------- MODULE LockOrderProofs --------------------------
(***************************************************************************)
(* Proofs about the lock order.                                            *)
(*                                                                         *)
(* First about Taxonomy, for every set of classes, packages, declarations  *)
(* and every acyclic import graph.  Reachability is a least closed set, so *)
(* nothing there is an induction over paths: a class is after another iff  *)
(* no closed set separates them.                                           *)
(*                                                                         *)
(* Then about Hierarchy, for every flow graph, type and graph of           *)
(* instances.  The order of the blocks is that of a depth-first search:    *)
(* where loops are entered at their heads, each block of a run comes       *)
(* before the next.  So the state that reaches a block follows every run   *)
(* to it: it has the value of each lock that the run holds.                *)
(***************************************************************************)
EXTENDS Taxonomy, Hierarchy, FiniteSetTheorems, SequenceTheorems, WellFoundedInduction, TLAPS

-----------------------------------------------------------------------------
\* After is itself the least set it speaks of.
LEMMA AfterIsLeast ==
    ASSUME NEW edges \in SUBSET Edge, NEW via \in SUBSET Class, NEW a \in Class
    PROVE  /\ After(edges, via, a) \subseteq Class
           /\ Rows(edges)[a] \subseteq After(edges, via, a)
           /\ ClosedVia(edges, via, After(edges, via, a))
           /\ \A S \in SUBSET Class :
                Rows(edges)[a] \subseteq S /\ ClosedVia(edges, via, S)
                    => After(edges, via, a) \subseteq S
<1>1. Rows(edges)[a] \subseteq Class
  BY DEF Rows
<1>2. \A e \in edges : e[1] \in Class /\ e[2] \in Class
  BY DEF Edge
<1>3. ClosedVia(edges, via, After(edges, via, a))
  BY <1>2 DEF ClosedVia, After
<1>4. QED BY <1>1, <1>3 DEF After

\* One round of the closure adds k to the classes a path may go on through.
LEMMA ThroughOneMore ==
    ASSUME NEW edges \in SUBSET Edge, NEW via \in SUBSET Class, NEW k \in Class, NEW i \in Class
    PROVE  After(edges, via \cup {k}, i) =
             IF k \in After(edges, via, i)
             THEN After(edges, via, i) \cup After(edges, via, k)
             ELSE After(edges, via, i)
<1> DEFINE more == via \cup {k}
           A(c) == After(edges, via, c)
           B(c) == After(edges, more, c)
           both == IF k \in A(i) THEN A(i) \cup A(k) ELSE A(i)
<1>1. ASSUME NEW c \in Class
      PROVE  /\ A(c) \subseteq Class /\ Rows(edges)[c] \subseteq A(c) /\ ClosedVia(edges, via, A(c))
             /\ \A S \in SUBSET Class :
                  Rows(edges)[c] \subseteq S /\ ClosedVia(edges, via, S) => A(c) \subseteq S
  BY AfterIsLeast
<1>2. ASSUME NEW c \in Class
      PROVE  /\ B(c) \subseteq Class /\ Rows(edges)[c] \subseteq B(c) /\ ClosedVia(edges, more, B(c))
             /\ \A S \in SUBSET Class :
                  Rows(edges)[c] \subseteq S /\ ClosedVia(edges, more, S) => B(c) \subseteq S
  BY AfterIsLeast
<1>3. \A e \in edges : e = <<e[1], e[2]>> /\ e[1] \in Class /\ e[2] \in Class
  BY DEF Edge
<1>4. \A e \in edges : e[2] \in Rows(edges)[e[1]]
  BY <1>3 DEF Rows
<1> HIDE DEF A, B
<1>5. both \subseteq B(i)
  <2>1. ClosedVia(edges, via, B(i))
    BY <1>2 DEF ClosedVia
  <2>2. A(i) \subseteq B(i)
    BY <1>1, <1>2, <2>1
  <2>3. ASSUME k \in A(i) PROVE A(k) \subseteq B(i)
    <3>1. Rows(edges)[k] \subseteq B(i)
      <4>1. k \in B(i) \cap more
        BY <2>2, <2>3
      <4>2. ASSUME NEW b \in Rows(edges)[k] PROVE b \in B(i)
        <5>1. <<k, b>> \in edges /\ <<k, b>>[1] = k /\ <<k, b>>[2] = b
          BY DEF Rows
        <5>2. QED BY <1>2, <4>1, <5>1 DEF ClosedVia
      <4>3. QED BY <4>2
    <3>2. QED BY <1>1, <1>2, <2>1, <3>1
  <2>4. QED BY <2>2, <2>3
<1>6. B(i) \subseteq both
  <2>1. both \subseteq Class /\ Rows(edges)[i] \subseteq both
    BY <1>1
  <2>2. ClosedVia(edges, more, both)
    <3> SUFFICES ASSUME NEW e \in edges, e[1] \in both, e[1] \in more PROVE e[2] \in both
      BY DEF ClosedVia
    <3>1. CASE e[1] = k
      <4>1. k \in A(i)
        BY <3>1
      <4>2. e[2] \in A(k)
        BY <1>1, <1>4, <3>1
      <4>3. QED BY <4>1, <4>2
    <3>2. CASE e[1] # k
      BY <1>1, <3>2 DEF ClosedVia
    <3>3. QED BY <3>1, <3>2
  <2>3. QED BY <1>2, <2>1, <2>2
<1>7. QED BY <1>5, <1>6 DEF A, B

\* The first row: no path goes on through a class that no edge names.
LEMMA AfterNothing ==
    ASSUME NEW edges \in SUBSET Edge, NEW via \in SUBSET Class, NEW a \in Class,
           \A e \in edges : e[1] \notin via
    PROVE  After(edges, via, a) = Rows(edges)[a]
<1>1. Rows(edges)[a] \in SUBSET Class /\ ClosedVia(edges, via, Rows(edges)[a])
  BY DEF Rows, ClosedVia
<1>2. After(edges, via, a) \subseteq Rows(edges)[a]
  BY <1>1, AfterIsLeast
<1>3. Rows(edges)[a] \subseteq After(edges, via, a)
  BY AfterIsLeast
<1>4. QED BY <1>2, <1>3

LEMMA AfterIsMonotone ==
    ASSUME NEW few \in SUBSET Edge, NEW many \in SUBSET Edge, few \subseteq many, NEW a \in Class
    PROVE  After(few, Class, a) \subseteq After(many, Class, a)
<1>1. Rows(few)[a] \subseteq Rows(many)[a]
  BY DEF Rows
<1>2. \A S : ClosedVia(many, Class, S) => ClosedVia(few, Class, S)
  BY DEF ClosedVia
<1>3. QED BY <1>1, <1>2, AfterIsLeast

LEMMA AfterIsTransitive ==
    ASSUME NEW edges \in SUBSET Edge, NEW a \in Class, NEW b \in After(edges, Class, a)
    PROVE  b \in Class /\ After(edges, Class, b) \subseteq After(edges, Class, a)
<1>1. b \in Class
  BY AfterIsLeast
<1>2. Rows(edges)[b] \subseteq After(edges, Class, a)
  <2>1. ClosedVia(edges, Class, After(edges, Class, a))
    BY AfterIsLeast
  <2>2. ASSUME NEW c \in Rows(edges)[b] PROVE c \in After(edges, Class, a)
    <3>1. <<b, c>> \in edges /\ <<b, c>>[1] = b /\ <<b, c>>[2] = c
      BY <1>1 DEF Rows
    <3>2. QED BY <1>1, <2>1, <3>1 DEF ClosedVia
  <2>3. QED BY <2>2
<1>3. QED BY <1>1, <1>2, AfterIsLeast

-----------------------------------------------------------------------------
(***************************************************************************)
(* The inductive invariant.  While p closes its order, its rows are the    *)
(* classes reached through those close is done with; what p gathered is    *)
(* its declarations and the facts of its imports, all of them finished,    *)
(* and comes from the packages below it.                                   *)
(***************************************************************************)
Started(p) == stage[p] # "waiting"

Within(o, p) == /\ o.edges \subseteq UNION {declared[q].edges : q \in Deps(p)}
                /\ o.marks \subseteq UNION {declared[q].marks : q \in Deps(p)}

Includes(o, f) == f.edges \subseteq o.edges /\ f.marks \subseteq o.marks

RowsInv(p) == Started(p) =>
    \A a \in Class : precedes[p][a] = After(order[p].edges, Class \ todo[p], a)

StageInv(p) == /\ Finished(p) => todo[p] = {}
               /\ Finished(p) => (stage[p] = "cyclic" <=> HasCycle(order[p].edges))
               /\ stage[p] = "settled" => fact[p] = order[p]
               /\ stage[p] # "settled" => fact[p] = NoOrder

GatherInv(p) == Started(p) =>
    /\ \A q \in imports[p] : Finished(q)
    /\ Within(order[p], p)
    /\ Includes(order[p], declared[p])
    /\ \A q \in imports[p] : Includes(order[p], fact[q])

IInv == TypeOK /\ \A p \in Package : RowsInv(p) /\ StageInv(p) /\ GatherInv(p)

-----------------------------------------------------------------------------
LEMMA DepsAreClosed ==
    ASSUME TypeOK, NEW p \in Package
    PROVE  /\ p \in Deps(p) /\ Deps(p) \subseteq Package
           /\ \A q \in Deps(p) : imports[q] \subseteq Deps(p)
           /\ \A S \in SUBSET Package :
                p \in S /\ (\A r \in S : imports[r] \subseteq S) => Deps(p) \subseteq S
<1>1. p \in Deps(p) /\ Deps(p) \subseteq Package
  BY DEF Deps
<1>2. ASSUME NEW q \in Deps(p), NEW r \in imports[q] PROVE r \in Deps(p)
  <2>1. q \in Package /\ r \in Package
    BY <1>1, <1>2 DEF TypeOK
  <2>2. QED BY <2>1, <1>2 DEF Deps
<1>3. QED BY <1>1, <1>2 DEF Deps

LEMMA DepsOfImport ==
    ASSUME TypeOK, NEW p \in Package, NEW q \in imports[p]
    PROVE  q \in Package /\ Deps(q) \subseteq Deps(p)
<1>1. q \in Package /\ q \in Deps(p)
  BY DepsAreClosed DEF TypeOK
<1>2. QED BY <1>1, DepsAreClosed

LEMMA WithinGrows ==
    ASSUME TypeOK, NEW p \in Package, NEW q \in Package, Deps(q) \subseteq Deps(p), NEW o, Within(o, q)
    PROVE  Within(o, p)
BY DEF Within

LEMMA InitIInv == Init => IInv
<1> SUFFICES ASSUME Init PROVE IInv
  OBVIOUS
<1>1. NoOrder \in Order
  BY DEF NoOrder, Order
<1>2. TypeOK
  BY <1>1 DEF Init, Unstarted, TypeOK, Stage
<1>3. QED BY <1>2 DEF Init, Unstarted, IInv, RowsInv, StageInv, GatherInv, Started, Finished

\* What a step leaves alone for a package it is not about.
LEMMA OtherPackage ==
    ASSUME IInv, TypeOK', NEW q \in Package, UNCHANGED <<declared, imports>>,
           stage'[q] = stage[q], order'[q] = order[q], precedes'[q] = precedes[q],
           todo'[q] = todo[q], fact'[q] = fact[q],
           \A r \in Package : Finished(r) => Finished(r)' /\ fact'[r] = fact[r]
    PROVE  RowsInv(q)' /\ StageInv(q)' /\ GatherInv(q)'
<1>1. RowsInv(q) /\ StageInv(q) /\ GatherInv(q)
  BY DEF IInv
<1>2. RowsInv(q)'
  BY <1>1 DEF RowsInv, Started
<1>3. StageInv(q)'
  BY <1>1 DEF StageInv, Finished
<1>4. \A r \in Package : Deps(r)' = Deps(r)
  BY DEF Deps
<1>5. imports[q] \subseteq Package
  BY DEF IInv, TypeOK
<1>6. GatherInv(q)'
  BY <1>1, <1>4, <1>5 DEF GatherInv, Started, Within, Includes
<1>7. QED BY <1>2, <1>3, <1>6

LEMMA GatherStep ==
    ASSUME IInv, NEW p \in Package, Gather(p)
    PROVE  IInv'
<1> DEFINE from == {declared[p]} \cup {fact[q] : q \in imports[p]}
           o == [edges |-> UNION {f.edges : f \in from}, marks |-> UNION {f.marks : f \in from}]
<1>1. /\ stage[p] = "waiting" /\ \A q \in imports[p] : Finished(q)
      /\ order' = [order EXCEPT ![p] = o]
      /\ precedes' = [precedes EXCEPT ![p] = Rows(o.edges)]
      /\ todo' = [todo EXCEPT ![p] = Classes(o)]
      /\ stage' = [stage EXCEPT ![p] = "closing"]
      /\ UNCHANGED <<declared, imports, fact>>
  BY DEF Gather
<1>2. TypeOK /\ \A q \in Package : RowsInv(q) /\ StageInv(q) /\ GatherInv(q)
  BY DEF IInv
<1>3. \A f \in from : f \in Order /\ f.edges \subseteq Edge /\ f.marks \subseteq Mark
  BY <1>2 DEF TypeOK, Order
<1>4. o \in Order /\ o.edges \in SUBSET Edge
  BY <1>3 DEF Order
<1>5. Rows(o.edges) \in [Class -> SUBSET Class] /\ Classes(o) \subseteq Class
  BY <1>4 DEF Rows, Classes, Order, Edge, Mark
<1>6. /\ stage'[p] = "closing" /\ order'[p] = o
      /\ precedes'[p] = Rows(o.edges) /\ todo'[p] = Classes(o)
  BY <1>1, <1>2 DEF TypeOK
<1>7. TypeOK'
  BY <1>1, <1>2, <1>4, <1>5 DEF TypeOK, Stage
<1>8. \A q \in Package : Finished(q) => Finished(q)' /\ fact'[q] = fact[q]
  BY <1>1, <1>2 DEF Finished, TypeOK
<1>9. RowsInv(p)'
  <2>1. \A e \in o.edges : e[1] \notin Class \ Classes(o)
    BY DEF Classes
  <2>2. \A a \in Class : After(o.edges, Class \ Classes(o), a) = Rows(o.edges)[a]
    BY <1>4, <2>1, AfterNothing
  <2> HIDE DEF o
  <2>3. QED BY <1>6, <2>2 DEF RowsInv
<1>10. StageInv(p)'
  BY <1>1, <1>2, <1>6 DEF StageInv, Finished
<1>11. GatherInv(p)'
  <2>1. Includes(o, declared[p]) /\ \A q \in imports[p] : Includes(o, fact[q])
    BY DEF Includes
  <2>2. Within(declared[p], p)
    BY <1>2, DepsAreClosed DEF Within
  <2>3. ASSUME NEW q \in imports[p] PROVE Within(fact[q], p)
    <3>1. q \in Package /\ Deps(q) \subseteq Deps(p) /\ Finished(q)
      BY <1>1, <1>2, DepsOfImport
    <3>2. Started(q)
      BY <3>1 DEF Started, Finished
    <3>3. Within(order[q], q)
      BY <1>2, <3>1, <3>2 DEF GatherInv
    <3>4. fact[q] = order[q] \/ fact[q] = NoOrder
      BY <1>2, <3>1 DEF StageInv
    <3>5. Within(NoOrder, p)
      BY DEF Within, NoOrder
    <3>6. QED BY <1>2, <3>1, <3>3, <3>4, <3>5, WithinGrows
  <2>4. Within(o, p)
    <3>1. \A f \in from : Within(f, p)
      BY <2>2, <2>3
    <3>2. QED BY <3>1 DEF Within
  <2>5. \A r \in Package : Deps(r)' = Deps(r)
    BY <1>1 DEF Deps
  <2>6. \A q \in imports[p] : Finished(q)'
    BY <1>1, <1>2, <1>8 DEF TypeOK
  <2> HIDE DEF o
  <2>7. Within(order[p], p)' /\ Includes(order[p], declared[p])'
        /\ \A q \in imports'[p] : Includes(order[p], fact[q])'
    BY <1>1, <1>6, <2>1, <2>4, <2>5 DEF Within, Includes
  <2>8. QED BY <1>1, <2>6, <2>7 DEF GatherInv
<1>12. ASSUME NEW q \in Package, q # p PROVE RowsInv(q)' /\ StageInv(q)' /\ GatherInv(q)'
  <2>1. /\ stage'[q] = stage[q] /\ order'[q] = order[q] /\ precedes'[q] = precedes[q]
        /\ todo'[q] = todo[q] /\ fact'[q] = fact[q]
    BY <1>1, <1>2, <1>12 DEF TypeOK
  <2>2. QED BY <1>1, <1>7, <1>8, <2>1, OtherPackage
<1>13. QED BY <1>7, <1>9, <1>10, <1>11, <1>12 DEF IInv

LEMMA CloseStep ==
    ASSUME IInv, NEW p \in Package, NEW k \in Class, CloseClass(p, k)
    PROVE  IInv'
<1>1. /\ stage[p] = "closing" /\ k \in todo[p]
      /\ precedes' = [precedes EXCEPT ![p] = Through(precedes[p], k)]
      /\ todo' = [todo EXCEPT ![p] = todo[p] \ {k}]
      /\ UNCHANGED <<declared, imports, stage, order, fact>>
  BY DEF CloseClass
<1>2. TypeOK /\ \A q \in Package : RowsInv(q) /\ StageInv(q) /\ GatherInv(q)
  BY DEF IInv
<1>3. /\ precedes[p] \in [Class -> SUBSET Class] /\ todo[p] \subseteq Class
      /\ order[p].edges \in SUBSET Edge
  BY <1>2 DEF TypeOK, Order
<1>4. precedes'[p] = Through(precedes[p], k) /\ todo'[p] = todo[p] \ {k}
  BY <1>1, <1>2 DEF TypeOK
<1>5. TypeOK'
  <2>1. Through(precedes[p], k) \in [Class -> SUBSET Class]
    BY <1>3 DEF Through
  <2>2. QED BY <1>1, <1>2, <2>1 DEF TypeOK
<1>6. \A q \in Package : Finished(q) => Finished(q)' /\ fact'[q] = fact[q]
  BY <1>1 DEF Finished
<1>7. RowsInv(p)'
  <2> DEFINE via == Class \ todo[p]
             edges == order[p].edges
  <2>1. \A a \in Class : precedes[p][a] = After(edges, via, a)
    BY <1>1, <1>2 DEF RowsInv, Started
  <2>2. Class \ todo'[p] = via \cup {k}
    BY <1>1, <1>3, <1>4
  <2>3. \A a \in Class : After(edges, via \cup {k}, a) = Through(precedes[p], k)[a]
    <3> HIDE DEF via, edges
    <3>1. edges \in SUBSET Edge /\ via \in SUBSET Class
      BY <1>3 DEF via, edges
    <3>2. ASSUME NEW a \in Class
          PROVE  After(edges, via \cup {k}, a) = Through(precedes[p], k)[a]
      <4>1. After(edges, via \cup {k}, a) =
              IF k \in After(edges, via, a)
              THEN After(edges, via, a) \cup After(edges, via, k)
              ELSE After(edges, via, a)
        <5> DEFINE one(vv, ii) == After(edges, vv \cup {k}, ii) =
                IF k \in After(edges, vv, ii)
                THEN After(edges, vv, ii) \cup After(edges, vv, k)
                ELSE After(edges, vv, ii)
        <5>1. \A vv \in SUBSET Class, ii \in Class : one(vv, ii)
          BY <3>1, ThroughOneMore
        <5> HIDE DEF one
        <5>2. one(via, a)
          BY <3>1, <5>1
        <5>3. QED BY <5>2 DEF one
      <4>2. Through(precedes[p], k)[a] =
              IF k \in precedes[p][a] THEN precedes[p][a] \cup precedes[p][k] ELSE precedes[p][a]
        BY DEF Through
      <4>3. QED BY <2>1, <4>1, <4>2
    <3>3. QED BY <3>2
  <2>4. order'[p].edges = edges
    BY <1>1
  <2> HIDE DEF via, edges
  <2>5. QED BY <1>4, <2>2, <2>3, <2>4 DEF RowsInv
<1>8. StageInv(p)' /\ GatherInv(p)'
  <2>1. StageInv(p)'
    BY <1>1, <1>2 DEF StageInv, Finished
  <2>2. Deps(p)' = Deps(p)
    BY <1>1 DEF Deps
  <2>3. QED BY <1>1, <1>2, <2>1, <2>2 DEF GatherInv, Started, Within, Includes, Finished
<1>9. ASSUME NEW q \in Package, q # p PROVE RowsInv(q)' /\ StageInv(q)' /\ GatherInv(q)'
  <2>1. precedes'[q] = precedes[q] /\ todo'[q] = todo[q]
    BY <1>1, <1>2, <1>9 DEF TypeOK
  <2>2. QED BY <1>1, <1>5, <1>6, <2>1, OtherPackage
<1>10. QED BY <1>5, <1>7, <1>8, <1>9 DEF IInv

LEMMA FinishStep ==
    ASSUME IInv, NEW p \in Package, Finish(p)
    PROVE  IInv'
<1> DEFINE cyclic == \E c \in Class : c \in precedes[p][c]
<1>1. /\ stage[p] = "closing" /\ todo[p] = {}
      /\ UNCHANGED <<declared, imports, order, precedes, todo>>
      /\ cyclic => stage' = [stage EXCEPT ![p] = "cyclic"] /\ fact' = fact
      /\ ~cyclic => stage' = [stage EXCEPT ![p] = "settled"]
                    /\ fact' = [fact EXCEPT ![p] = order[p]]
  BY DEF Finish
<1>2. TypeOK /\ \A q \in Package : RowsInv(q) /\ StageInv(q) /\ GatherInv(q)
  BY DEF IInv
<1>3. cyclic <=> HasCycle(order[p].edges)
  <2>1. Class \ todo[p] = Class
    BY <1>1
  <2>2. \A a \in Class : precedes[p][a] = After(order[p].edges, Class, a)
    BY <1>1, <1>2, <2>1 DEF RowsInv, Started
  <2>3. QED BY <2>2 DEF HasCycle
<1> HIDE DEF cyclic
<1>4. TypeOK'
  <2>1. CASE cyclic
    BY <1>1, <1>2, <2>1 DEF TypeOK, Stage
  <2>2. CASE ~cyclic
    BY <1>1, <1>2, <2>2 DEF TypeOK, Stage
  <2>3. QED BY <2>1, <2>2
<1>5. \A q \in Package : q # p => stage'[q] = stage[q] /\ fact'[q] = fact[q]
  BY <1>1, <1>2 DEF TypeOK
<1>6. \A q \in Package : Finished(q) => Finished(q)' /\ fact'[q] = fact[q]
  BY <1>1, <1>5 DEF Finished
<1>7. RowsInv(p)'
  BY <1>1, <1>2 DEF RowsInv, Started
<1>8. StageInv(p)'
  <2>1. fact[p] = NoOrder
    BY <1>1, <1>2 DEF StageInv
  <2>2. CASE cyclic
    <3>1. stage'[p] = "cyclic" /\ fact'[p] = NoOrder
      BY <1>1, <1>2, <2>1, <2>2 DEF TypeOK
    <3>2. QED BY <1>1, <1>3, <2>2, <3>1 DEF StageInv, Finished
  <2>3. CASE ~cyclic
    <3>1. stage'[p] = "settled" /\ fact'[p] = order[p]
      BY <1>1, <1>2, <2>3 DEF TypeOK
    <3>2. QED BY <1>1, <1>3, <2>3, <3>1 DEF StageInv, Finished
  <2>4. QED BY <2>2, <2>3
<1>9. GatherInv(p)'
  <2>1. /\ \A q \in imports[p] : Finished(q)
        /\ Within(order[p], p) /\ Includes(order[p], declared[p])
        /\ \A q \in imports[p] : Includes(order[p], fact[q])
    BY <1>1, <1>2 DEF GatherInv, Started
  <2>2. Deps(p)' = Deps(p)
    BY <1>1 DEF Deps
  <2>3. \A q \in imports[p] : Finished(q)' /\ fact'[q] = fact[q]
    BY <1>2, <1>6, <2>1 DEF TypeOK
  <2>4. QED BY <1>1, <2>1, <2>2, <2>3 DEF GatherInv, Within, Includes
<1>10. ASSUME NEW q \in Package, q # p PROVE RowsInv(q)' /\ StageInv(q)' /\ GatherInv(q)'
  BY <1>1, <1>4, <1>5, <1>6, <1>10, OtherPackage
<1>11. QED BY <1>4, <1>7, <1>8, <1>9, <1>10 DEF IInv

LEMMA NextStep == IInv /\ [Next]_vars => IInv'
<1> SUFFICES ASSUME IInv, [Next]_vars PROVE IInv'
  OBVIOUS
<1>1. CASE UNCHANGED vars
  <2>1. UNCHANGED <<declared, imports, stage, order, precedes, todo, fact>>
    BY <1>1 DEF vars
  <2>2. TypeOK'
    BY <2>1 DEF IInv, TypeOK
  <2>3. \A r \in Package : Finished(r) => Finished(r)' /\ fact'[r] = fact[r]
    BY <2>1 DEF Finished
  <2>4. \A q \in Package : RowsInv(q)' /\ StageInv(q)' /\ GatherInv(q)'
    BY <2>1, <2>2, <2>3, OtherPackage
  <2>5. QED BY <2>2, <2>4 DEF IInv
<1>2. CASE Next
  BY <1>1, <1>2, GatherStep, CloseStep, FinishStep DEF Next, AllDone
<1>3. QED BY <1>1, <1>2

LEMMA Invariant == Spec => []IInv
BY InitIInv, NextStep, PTL DEF Spec

-----------------------------------------------------------------------------
\* What the packages gather, close and export stays an order, and a package
\* exports nothing before it has passed the test for a cycle.
THEOREM TypesHold == Spec => []TypeOK
<1>1. IInv => TypeOK  BY DEF IInv
<1>2. QED BY <1>1, Invariant, PTL

\* close computes the transitive closure, in whatever order it takes the
\* classes, and it is what the order of every finished package is.
THEOREM ClosureIsCorrect == Spec => []ClosureIsReachability
<1>1. IInv => ClosureIsReachability
  <2> SUFFICES ASSUME IInv, NEW p \in Package, Finished(p), NEW a \in Class
               PROVE  precedes[p][a] = After(order[p].edges, Class, a)
    BY DEF ClosureIsReachability
  <2>1. Started(p) /\ Class \ todo[p] = Class
    BY DEF IInv, StageInv, Started, Finished
  <2>2. QED BY <2>1 DEF IInv, RowsInv
<1>2. QED BY <1>1, Invariant, PTL

\* A finished package with no cycle below it gathered everything below it.
LEMMA GathersAll ==
    ASSUME IInv, NEW p \in Package, Finished(p), \A q \in Deps(p) : stage[q] # "cyclic"
    PROVE  \A q \in Deps(p) : /\ q \in Package /\ stage[q] = "settled"
                              /\ Includes(order[p], order[q]) /\ Includes(order[p], declared[q])
<1> DEFINE S == {q \in Deps(p) : Finished(q) /\ Includes(order[p], order[q])}
<1>1. TypeOK /\ \A q \in Package : StageInv(q) /\ GatherInv(q)
  BY DEF IInv
<1>2. p \in S
  BY <1>1, DepsAreClosed DEF Includes
<1>3. ASSUME NEW q \in S, NEW r \in imports[q] PROVE r \in S
  <2>1. q \in Package /\ r \in Deps(p) /\ Started(q) /\ r \in Package
    BY <1>1, <1>3, DepsAreClosed DEF Started, Finished, TypeOK
  <2>2. Finished(r) /\ Includes(order[q], fact[r])
    BY <1>1, <2>1 DEF GatherInv
  <2>3. stage[r] = "settled"
    BY <2>1, <2>2 DEF Finished
  <2>4. fact[r] = order[r]
    BY <1>1, <2>1, <2>3 DEF StageInv
  <2>5. QED BY <2>1, <2>2, <2>4 DEF Includes
<1>4. S \in SUBSET Package
  BY <1>1, DepsAreClosed
<1>5. Deps(p) \subseteq S
  <2> HIDE DEF S
  <2>1. \A q \in S : imports[q] \subseteq S
    BY <1>3
  <2>2. QED BY <1>1, <1>2, <1>4, <2>1, DepsAreClosed
<1>6. ASSUME NEW q \in Deps(p)
      PROVE  /\ q \in Package /\ stage[q] = "settled"
             /\ Includes(order[p], order[q]) /\ Includes(order[p], declared[q])
  <2>1. q \in Package /\ Finished(q) /\ Includes(order[p], order[q])
    BY <1>4, <1>5
  <2>2. Includes(order[q], declared[q])
    BY <1>1, <2>1 DEF GatherInv, Started, Finished
  <2>3. QED BY <2>1, <2>2 DEF Includes, Finished
<1>7. QED BY <1>6

\* The taxonomy of every package is free of cycles or a package says so, at or
\* below the first one that sees the whole cycle.
THEOREM CyclesAreCaught == Spec => []CycleIsReported
<1>1. IInv => CycleIsReported
  <2> SUFFICES ASSUME IInv, NEW p \in Package, Finished(p)
               PROVE  HasCycle(AllEdges(p)) <=> \E q \in Deps(p) : stage[q] = "cyclic"
    BY DEF CycleIsReported
  <2>1. TypeOK /\ \A q \in Package : StageInv(q) /\ GatherInv(q) /\ order[q].edges \in SUBSET Edge
    BY DEF IInv, TypeOK, Order
  <2>2. AllEdges(p) \in SUBSET Edge
    BY <2>1, DepsAreClosed DEF AllEdges, TypeOK, Order
  <2>3. ASSUME NEW few \in SUBSET Edge, NEW many \in SUBSET Edge, few \subseteq many, HasCycle(few)
        PROVE  HasCycle(many)
    BY <2>3, AfterIsMonotone DEF HasCycle
  <2>4. ASSUME NEW q \in Deps(p), stage[q] = "cyclic" PROVE HasCycle(AllEdges(p))
    <3>1. q \in Package /\ HasCycle(order[q].edges) /\ Within(order[q], q)
      BY <2>1, <2>4, DepsAreClosed DEF StageInv, GatherInv, Started, Finished
    <3>2. Deps(q) \subseteq Deps(p)
      BY <2>1, <3>1, DepsAreClosed
    <3>3. order[q].edges \subseteq AllEdges(p)
      BY <3>1, <3>2 DEF Within, AllEdges
    <3>4. QED BY <2>1, <2>2, <2>3, <3>1, <3>3
  <2>5. ASSUME \A q \in Deps(p) : stage[q] # "cyclic" PROVE ~HasCycle(AllEdges(p))
    <3>1. AllEdges(p) \subseteq order[p].edges
      BY <2>5, GathersAll DEF AllEdges, Includes
    <3>2. ~HasCycle(order[p].edges)
      BY <2>1, <2>5, DepsAreClosed DEF StageInv
    <3>3. QED BY <2>1, <2>2, <2>3, <3>1, <3>2
  <2>6. QED BY <2>4, <2>5
<1>2. QED BY <1>1, Invariant, PTL

\* A package and what it depends on agree on every pair of classes.
THEOREM DependentsAgree == Spec => []VerdictsAgree
<1>1. IInv => VerdictsAgree
  <2> SUFFICES ASSUME IInv, NEW p \in Package, NoCycleBelow(p), NEW q \in Deps(p),
                      NEW held \in Class, NEW acquired \in Class,
                      held # acquired, Violates(q, held, acquired)
               PROVE  Violates(p, held, acquired) /\ ~Violates(p, acquired, held)
    BY DEF VerdictsAgree
  <2>1. TypeOK /\ \A r \in Package : RowsInv(r) /\ StageInv(r) /\ order[r].edges \in SUBSET Edge
    BY DEF IInv, TypeOK, Order
  <2>2. /\ p \in Deps(p) /\ stage[p] = "settled" /\ Finished(p)
        /\ q \in Package /\ stage[q] = "settled"
        /\ order[q].edges \subseteq order[p].edges
    <3>1. p \in Deps(p) /\ stage[p] = "settled" /\ Finished(p)
      BY <2>1, DepsAreClosed DEF NoCycleBelow, Finished
    <3>2. QED BY <3>1, GathersAll DEF NoCycleBelow, Includes
  <2>3. ASSUME NEW r \in Package, stage[r] = "settled", NEW a \in Class
        PROVE  precedes[r][a] = After(order[r].edges, Class, a)
    <3>1. Started(r) /\ Class \ todo[r] = Class
      BY <2>1, <2>3 DEF StageInv, Started, Finished
    <3>2. QED BY <2>1, <3>1 DEF RowsInv
  <2>4. held \in After(order[p].edges, Class, acquired)
    <3>1. held \in After(order[q].edges, Class, acquired)
      BY <2>2, <2>3 DEF Violates
    <3>2. QED BY <2>1, <2>2, <3>1, AfterIsMonotone
  <2>5. Violates(p, held, acquired)
    BY <2>2, <2>3, <2>4 DEF Violates
  <2>6. ASSUME Violates(p, acquired, held) PROVE FALSE
    <3>1. acquired \in After(order[p].edges, Class, held)
      BY <2>2, <2>3, <2>6 DEF Violates
    <3>2. acquired \in After(order[p].edges, Class, acquired)
      BY <2>1, <2>4, <3>1, AfterIsTransitive
    <3>3. stage[p] = "cyclic"
      BY <2>1, <2>2, <3>2 DEF StageInv, HasCycle
    <3>4. QED BY <2>2, <3>3
  <2>7. QED BY <2>5, <2>6
<1>2. QED BY <1>1, Invariant, PTL

\* The exemptions a package applies are those declared at or below it.
THEOREM ExemptionsAreDeclared == Spec => []ExemptionsTravel
<1>1. IInv => ExemptionsTravel
  <2> SUFFICES ASSUME IInv, NEW p \in Package, NEW c \in Class, NoCycleBelow(p)
               PROVE  ~Violates(p, c, c) <=>
                        \E q \in Deps(p) : \E m \in declared[q].marks : m.class = c
    BY DEF ExemptionsTravel
  <2>1. p \in Deps(p) /\ Finished(p) /\ Started(p)
    BY DepsAreClosed DEF IInv, NoCycleBelow, Finished, Started
  <2>2. order[p].marks \subseteq UNION {declared[q].marks : q \in Deps(p)}
    BY <2>1 DEF IInv, GatherInv, Within
  <2>3. \A q \in Deps(p) : declared[q].marks \subseteq order[p].marks
    BY <2>1, GathersAll DEF NoCycleBelow, Includes
  <2>4. QED BY <2>2, <2>3 DEF Violates
<1>2. QED BY <1>1, Invariant, PTL

-----------------------------------------------------------------------------
(***************************************************************************)
(* Induction over the naturals, in the form that speaks of a set.          *)
(***************************************************************************)
\* A set of naturals that is not empty has a least one: the intervals 1 .. n are
\* ordered by inclusion, which is well-founded on finite sets.
LEMMA LeastNat ==
    ASSUME NEW S \in SUBSET Nat, S # {}
    PROVE  \E m \in S : \A k \in S : m <= k
<1> DEFINE T == {1 .. n : n \in S}
<1>1. T \subseteq FiniteSubsetsOf(Nat) /\ T # {}
  <2> SUFFICES ASSUME NEW n \in S  PROVE 1 .. n \in SUBSET Nat /\ IsFiniteSet(1 .. n)
    BY DEF FiniteSubsetsOf
  <2> QED  BY FS_Interval
<1>2. IsWellFoundedOn(StrictSubsetOrdering(Nat), FiniteSubsetsOf(Nat))
  BY FS_StrictSubsetOrderingWellFounded
<1> HIDE DEF T
<1>3. PICK x \in T : \A y \in T : <<y, x>> \notin StrictSubsetOrdering(Nat)
  BY <1>1, <1>2, WFMin
<1>4. PICK m \in S : x = 1 .. m  BY DEF T
<1>5. ASSUME NEW k \in S, k < m  PROVE FALSE
  <2>1. 1 .. k \in T  BY DEF T
  <2>2. m \in 1 .. m /\ m \notin 1 .. k /\ 1 .. k \subseteq 1 .. m  BY <1>5
  <2>3. <<1 .. k, 1 .. m>> \in StrictSubsetOrdering(Nat)
    BY <2>2 DEF StrictSubsetOrdering
  <2> QED  BY <1>3, <1>4, <2>1, <2>3
<1> QED  BY <1>5

LEMMA NatSetInduction ==
    ASSUME NEW S, 0 \in S, \A n \in Nat : n \in S => n + 1 \in S
    PROVE  \A n \in Nat : n \in S
<1> SUFFICES ASSUME Nat \ S # {}  PROVE FALSE  OBVIOUS
<1>1. PICK x \in Nat \ S : \A y \in Nat \ S : x <= y
  <2>1. Nat \ S \in SUBSET Nat  OBVIOUS
  <2> QED  BY <2>1, LeastNat
<1>2. x # 0 /\ x - 1 \in Nat  BY <1>1
<1>3. x - 1 \in S  BY <1>1, <1>2
<1> QED  BY <1>1, <1>2, <1>3

\* A function that gives each element of X an element of X can be applied again and
\* again: the steps of a walk, which depend on the place n.
HasRun(X, base, N, step) ==
    \E g \in [0 .. N -> X] : g[0] = base /\ \A n \in 1 .. N : g[n] = step[n][g[n - 1]]
LEMMA Iterated ==
    ASSUME NEW X, NEW base \in X, NEW N \in Nat, NEW step \in [1 .. N -> [X -> X]]
    PROVE  HasRun(X, base, N, step)
<1> DEFINE Upto(n, g) == /\ g \in [0 .. n -> X] /\ g[0] = base
                         /\ \A k \in 1 .. n : g[k] = step[k][g[k - 1]]
           S == {n \in Nat : n <= N => \E g : Upto(n, g)}
<1>1. 0 \in S
  <2>1. Upto(0, [n \in 0 .. 0 |-> base])  OBVIOUS
  <2> QED  BY <2>1
<1>2. ASSUME NEW n \in Nat, n \in S  PROVE n + 1 \in S
  <2> SUFFICES ASSUME n + 1 <= N  PROVE \E g : Upto(n + 1, g)  OBVIOUS
  <2>1. PICK g : Upto(n, g)  BY <1>2
  <2> DEFINE h == [k \in 0 .. n + 1 |-> IF k = n + 1 THEN step[n + 1][g[n]] ELSE g[k]]
  <2>2. step[n + 1][g[n]] \in X  BY <2>1
  <2>3. h \in [0 .. n + 1 -> X] /\ h[0] = base  BY <2>1, <2>2
  <2>4. \A k \in 1 .. n + 1 : h[k] = step[k][h[k - 1]]
    <3> SUFFICES ASSUME NEW k \in 1 .. n + 1  PROVE h[k] = step[k][h[k - 1]]  OBVIOUS
    <3>1. k - 1 \in 0 .. n /\ h[k - 1] = g[k - 1]  OBVIOUS
    <3>2. CASE k = n + 1  BY <3>1, <3>2
    <3>3. CASE k # n + 1  BY <2>1, <3>1, <3>3
    <3> QED  BY <3>2, <3>3
  <2> HIDE DEF h
  <2>5. Upto(n + 1, h)  BY <2>3, <2>4
  <2> QED  BY <2>5
<1> HIDE DEF S
<1>3. N \in S  BY <1>1, <1>2, NatSetInduction
<1>4. PICK g : Upto(N, g)  BY <1>3 DEF S
<1> QED  BY <1>4 DEF HasRun


\* A function all of whose steps stay in X.
LEMMA StepsStay ==
    ASSUME NEW X, NEW N \in Nat, NEW f, f = [n \in 0 .. N |-> f[n]], f[0] \in X,
           \A n \in 1 .. N : f[n - 1] \in X => f[n] \in X
    PROVE  f \in [0 .. N -> X]
<1> DEFINE S == {n \in Nat : n <= N => f[n] \in X}
<1>1. 0 \in S  OBVIOUS
<1>2. \A n \in Nat : n \in S => n + 1 \in S
  <2> SUFFICES ASSUME NEW n \in Nat, n \in S, n + 1 <= N  PROVE f[n + 1] \in X  OBVIOUS
  <2>1. n + 1 \in 1 .. N /\ (n + 1) - 1 = n /\ f[n] \in X  OBVIOUS
  <2> QED  BY <2>1
<1> HIDE DEF S
<1>3. \A n \in Nat : n \in S  BY <1>1, <1>2, NatSetInduction
<1>4. \A n \in 0 .. N : f[n] \in X  BY <1>3 DEF S
<1> QED  BY <1>4

-----------------------------------------------------------------------------
IsPath(graph, p) ==
    /\ p \in Seq(DOMAIN graph) /\ Len(p) > 0 /\ p[1] = 1
    /\ \A m, n \in 1 .. Len(p) : p[m] = p[n] => m = n
    /\ \A n \in 1 .. Len(p) - 1 : \E k \in 1 .. Len(graph[p[n]]) : p[n + 1] = graph[p[n]][k]

\* A path that enters no block twice is no longer than there are blocks.
LEMMA PathIs ==
    ASSUME NEW graph \in Seq(Seq(Nat)), NEW p
    PROVE  p \in PathsOf(graph) <=> IsPath(graph, p)
<1>1. DOMAIN graph = 1 .. Len(graph) /\ Len(graph) \in Nat
      /\ \A b \in DOMAIN graph : graph[b] \in Seq(Nat)
  OBVIOUS
<1> DEFINE B == DOMAIN graph
<1>2. ASSUME p \in PathsOf(graph)  PROVE IsPath(graph, p)
  <2>1. /\ p \in BoundedSeq(B, Len(graph)) /\ p # <<>> /\ p[1] = 1 /\ IsInjective(p)
        /\ \A n \in 2 .. Len(p) : p[n] \in Range(graph[p[n - 1]])
    BY <1>2 DEF PathsOf
  <2>2. p \in Seq(B)
    <3>1. PICK m \in 0 .. Len(graph) : p \in [1 .. m -> B]  BY <2>1 DEF BoundedSeq, SeqOf
    <3> HIDE DEF B
    <3> QED  BY <1>1, <3>1
  <2>3. Len(p) > 0 /\ DOMAIN p = 1 .. Len(p)  BY <2>1, <2>2
  <2>4. ASSUME NEW n \in 1 .. Len(p) - 1
        PROVE  \E k \in 1 .. Len(graph[p[n]]) : p[n + 1] = graph[p[n]][k]
    <3>1. n + 1 \in 2 .. Len(p) /\ (n + 1) - 1 = n /\ n \in 1 .. Len(p)  BY <2>2, <2>3
    <3>2. p[n + 1] \in Range(graph[p[n]])  BY <2>1, <3>1
    <3>3. graph[p[n]] \in Seq(Nat)  BY <1>1, <2>2, <3>1, SMTT(40)
    <3>4. DOMAIN graph[p[n]] = 1 .. Len(graph[p[n]])  BY <3>3
    <3> QED  BY <3>2, <3>4 DEF Range
  <2>5. \A m, n \in 1 .. Len(p) : p[m] = p[n] => m = n  BY <2>1, <2>3 DEF IsInjective
  <2> QED  BY <2>1, <2>2, <2>3, <2>4, <2>5 DEF IsPath
<1>3. ASSUME IsPath(graph, p)  PROVE p \in PathsOf(graph)
  <2>1. p \in Seq(B) /\ p # <<>> /\ p[1] = 1 /\ DOMAIN p = 1 .. Len(p) /\ Len(p) \in Nat
    BY <1>3 DEF IsPath
  <2>2. IsInjective(p)  BY <1>3, <2>1 DEF IsPath, IsInjective
  <2>3. \A n \in 2 .. Len(p) : p[n] \in Range(graph[p[n - 1]])
    <3> SUFFICES ASSUME NEW n \in 2 .. Len(p)  PROVE p[n] \in Range(graph[p[n - 1]])  OBVIOUS
    <3>1. n - 1 \in 1 .. Len(p) - 1 /\ (n - 1) + 1 = n /\ n - 1 \in 1 .. Len(p)  BY <2>1
    <3>2. PICK k \in 1 .. Len(graph[p[n - 1]]) : p[n] = graph[p[n - 1]][k]
      BY <1>3, <3>1 DEF IsPath
    <3>3. graph[p[n - 1]] \in Seq(Nat)  BY <1>1, <2>1, <3>1, SMTT(40)
    <3>4. DOMAIN graph[p[n - 1]] = 1 .. Len(graph[p[n - 1]])  BY <3>3
    <3> QED  BY <3>2, <3>4 DEF Range
  <2>4. Len(p) <= Len(graph)
    <3> SUFFICES ASSUME Len(p) > Len(graph)  PROVE FALSE  BY <1>1, <2>1
    <3>1. /\ IsFiniteSet(1 .. Len(p)) /\ IsFiniteSet(1 .. Len(graph))
          /\ Cardinality(1 .. Len(p)) = Len(p) /\ Cardinality(1 .. Len(graph)) = Len(graph)
      <4>1. Len(p) \in Int /\ Len(graph) \in Int /\ 1 \in Int  BY <1>1, <2>1
      <4>2. /\ IsFiniteSet(1 .. Len(p)) /\ IsFiniteSet(1 .. Len(graph))
            /\ Cardinality(1 .. Len(p)) = IF 1 > Len(p) THEN 0 ELSE Len(p) - 1 + 1
            /\ Cardinality(1 .. Len(graph)) = IF 1 > Len(graph) THEN 0 ELSE Len(graph) - 1 + 1
        BY <4>1, FS_Interval
      <4> QED  BY <1>1, <2>1, <4>2
    <3>2. p \in [1 .. Len(p) -> 1 .. Len(graph)]  BY <1>1, <2>1, SMTT(40)
    <3>3. \E x, y \in 1 .. Len(p) : x # y /\ p[x] = p[y]
      BY <3>1, <3>2, FS_PigeonHole
    <3> QED  BY <2>1, <2>2, <3>3 DEF IsInjective
  <2>5. p \in BoundedSeq(B, Len(graph))
    <3>1. Len(p) \in 0 .. Len(graph) /\ p \in [1 .. Len(p) -> B]  BY <1>1, <2>1, <2>4
    <3> HIDE DEF B
    <3> QED  BY <3>1 DEF BoundedSeq, SeqOf
  <2> QED  BY <2>1, <2>2, <2>3, <2>5 DEF PathsOf
<1> QED  BY <1>2, <1>3

LEMMA PrefixIsPath ==
    ASSUME NEW graph \in Seq(Seq(Nat)), NEW p, IsPath(graph, p), NEW n \in 1 .. Len(p)
    PROVE  LET q == SubSeq(p, 1, n)
           IN  /\ IsPath(graph, q) /\ Len(q) = n /\ \A i \in 1 .. n : q[i] = p[i]
               /\ Last(q) = p[n] /\ Front(q) = SubSeq(p, 1, n - 1)
<1> DEFINE q == SubSeq(p, 1, n)
<1>1. p \in Seq(DOMAIN graph)  BY DEF IsPath
<1>2. q \in Seq(DOMAIN graph) /\ Len(q) = n /\ \A i \in 1 .. n : q[i] = p[i]  BY <1>1
<1>3. SubSeq(q, 1, n - 1) = SubSeq(p, 1, n - 1)  BY <1>1
<1>4. Front(q) = SubSeq(p, 1, n - 1)  BY <1>2, <1>3 DEF Front
<1>5. n \in Nat /\ n \in 1 .. n  BY <1>1
<1> HIDE DEF q
<1>6. IsPath(graph, q)
  <2>1. n \in Nat /\ n > 0 /\ Len(p) \in Nat /\ n <= Len(p)  BY <1>1
  <2>2. q[1] = 1  BY <1>2, <2>1 DEF IsPath
  <2>3. \A i, j \in 1 .. Len(q) : q[i] = q[j] => i = j
    <3>1. \A i \in 1 .. n : i \in 1 .. Len(p)  BY <2>1
    <3>2. \A i, j \in 1 .. Len(p) : p[i] = p[j] => i = j  BY Zenon DEF IsPath
    <3> QED  BY <1>2, <3>1, <3>2, Zenon
  <2>4. ASSUME NEW i \in 1 .. Len(q) - 1
        PROVE  \E k \in 1 .. Len(graph[q[i]]) : q[i + 1] = graph[q[i]][k]
    <3>1. i \in 1 .. n /\ i + 1 \in 1 .. n /\ i \in 1 .. Len(p) - 1  BY <1>2, <2>1, SMTT(40)
    <3>2. q[i] = p[i] /\ q[i + 1] = p[i + 1]  BY <1>2, <3>1
    <3> QED  BY <3>1, <3>2 DEF IsPath
  <2> QED  BY <1>2, <2>1, <2>2, <2>3, <2>4 DEF IsPath
<1>7. q[n] = p[n] /\ Len(q) = n  BY <1>5, <1>2
<1>8. Last(q) = p[n]  BY <1>7, Zenon DEF Last
<1> QED  BY <1>2, <1>4, <1>6, <1>8 DEF q

LEMMA NotLast ==
    ASSUME NEW m \in Nat, NEW n \in 1 .. m, n # m
    PROVE  n \in 1 .. m - 1 /\ n + 1 \in 1 .. m
OBVIOUS

LEMMA LongerPath ==
    ASSUME NEW graph, graph \in Seq(Seq(DOMAIN graph)), NEW p, IsPath(graph, p),
           NEW k \in 1 .. Len(graph[p[Len(p)]]),
           \A n \in 1 .. Len(p) : p[n] # graph[p[Len(p)]][k]
    PROVE  LET q == Append(p, graph[p[Len(p)]][k])
           IN  IsPath(graph, q) /\ Last(q) = graph[p[Len(p)]][k] /\ Front(q) = p
<1> DEFINE b == graph[p[Len(p)]][k]
           q == Append(p, b)
<1>1. p \in Seq(DOMAIN graph) /\ Len(p) \in 1 .. Len(p) /\ Len(p) \in Nat /\ Len(p) > 0
  BY DEF IsPath
<1>2. p[Len(p)] \in DOMAIN graph /\ graph[p[Len(p)]] \in Seq(DOMAIN graph)  BY <1>1
<1>3. b \in DOMAIN graph  BY <1>2
<1>4. \E i \in 1 .. Len(graph[p[Len(p)]]) : b = graph[p[Len(p)]][i]  OBVIOUS
<1>5. \A n \in 1 .. Len(p) : p[n] # b  OBVIOUS
<1> HIDE DEF b
<1>6. /\ q \in Seq(DOMAIN graph) /\ Len(q) = Len(p) + 1 /\ q[Len(p) + 1] = b
      /\ \A i \in 1 .. Len(p) : q[i] = p[i]
  BY <1>1, <1>3
<1>7. SubSeq(q, 1, Len(p)) = p  BY <1>1, <1>3
<1>8. Len(q) = Len(p) + 1 /\ Len(q) - 1 = Len(p) /\ q[Len(p) + 1] = b  BY <1>1, <1>6
<1> HIDE DEF q
<1>9. Front(q) = p /\ Last(q) = b  BY <1>7, <1>8, Zenon DEF Front, Last
<1>10. \A n \in 1 .. Len(q) - 1 : \E i \in 1 .. Len(graph[q[n]]) : q[n + 1] = graph[q[n]][i]
  <2> SUFFICES ASSUME NEW n \in 1 .. Len(q) - 1
               PROVE  \E i \in 1 .. Len(graph[q[n]]) : q[n + 1] = graph[q[n]][i]
    OBVIOUS
  <2>1. n \in 1 .. Len(p) /\ q[n] = p[n]  BY <1>1, <1>6
  <2>2. CASE n = Len(p)  BY <1>4, <1>6, <2>1, <2>2
  <2>3. CASE n # Len(p)
    <3>1. Len(p) \in Nat /\ n \in 1 .. Len(p) /\ n # Len(p)  BY <1>1, <2>1, <2>3, Zenon
    <3>2. n \in 1 .. Len(p) - 1 /\ n + 1 \in 1 .. Len(p)  BY <3>1, NotLast, Zenon
    <3>3. q[n + 1] = p[n + 1]  BY <1>6, <3>2
    <3>4. \E i \in 1 .. Len(graph[p[n]]) : p[n + 1] = graph[p[n]][i]  BY <3>2 DEF IsPath
    <3> QED  BY <2>1, <3>3, <3>4
  <2> QED  BY <2>2, <2>3
<1>11. q[1] = 1 /\ Len(q) > 0  BY <1>1, <1>6, SMTT(40) DEF IsPath
<1>12. \A m, n \in 1 .. Len(q) : q[m] = q[n] => m = n
  <2> SUFFICES ASSUME NEW m \in 1 .. Len(q), NEW n \in 1 .. Len(q), q[m] = q[n]  PROVE m = n
    OBVIOUS
  <2>3. Len(q) = Len(p) + 1 /\ Len(p) \in Nat  BY <1>1, <1>6
  <2>1. (m = Len(p) + 1 \/ m \in 1 .. Len(p)) /\ (n = Len(p) + 1 \/ n \in 1 .. Len(p))
    BY <2>3
  <2>2. \A i, j \in 1 .. Len(p) : p[i] = p[j] => i = j  BY DEF IsPath
  <2> QED  BY <1>5, <1>6, <2>1, <2>2
<1>13. IsPath(graph, q)  BY <1>6, <1>10, <1>11, <1>12 DEF IsPath
<1> QED  BY <1>9, <1>13 DEF q, b

LEMMA FrontIs ==
    ASSUME NEW S, NEW s \in Seq(S), Len(s) > 0
    PROVE  /\ Front(s) \in Seq(S) /\ Len(Front(s)) = Len(s) - 1
           /\ \A n \in 1 .. Len(s) - 1 : Front(s)[n] = s[n]
<1>1. Len(s) \in Nat /\ Len(s) - 1 \in Nat  OBVIOUS
<1>2. SubSeq(s, 1, Len(s) - 1) \in Seq(S) /\ Len(SubSeq(s, 1, Len(s) - 1)) = Len(s) - 1
  <2> DEFINE N == Len(s) - 1
  <2>1. \A i \in 1 .. N : s[i] \in S  BY <1>1
  <2>2. 1 \in Int /\ N \in Int /\ N \in Nat  BY <1>1
  <2> HIDE DEF N
  <2>3. /\ SubSeq(s, 1, N) \in Seq(S)
        /\ Len(SubSeq(s, 1, N)) = IF 1 <= N THEN N - 1 + 1 ELSE 0
    BY <2>1, <2>2, SubSeqProperties
  <2>4. Len(SubSeq(s, 1, N)) = N  BY <2>2, <2>3
  <2> QED  BY <2>3, <2>4 DEF N
<1>3. \A n \in 1 .. Len(s) - 1 : SubSeq(s, 1, Len(s) - 1)[n] = s[n]  BY <1>1
<1> QED  BY <1>2, <1>3 DEF Front

-----------------------------------------------------------------------------
(***************************************************************************)
(* The order of the blocks: in a function whose loops have heads, each     *)
(* block of a run comes before the next.                                   *)
(***************************************************************************)
Runs == RunsOf[succs]
InputOK == /\ succs \in Shape /\ code \in [Block -> Seq(Instr)]
           /\ lockedBy \in {"method", "field", "declared"}
Below == [Search -> [Block -> Search]]

LEMMA GraphIs ==
    ASSUME succs \in Shape
    PROVE  /\ succs \in Seq(Seq(Block)) /\ succs \in Seq(Seq(DOMAIN succs)) /\ succs \in Seq(Seq(Nat))
           /\ Len(succs) \in Nat /\ Len(succs) > 0
           /\ Block = 1 .. Len(succs) /\ Entry \in Block
           /\ \A p : p \in Runs <=> IsPath(succs, p)
<1>1. succs \in Seq(Seq(DOMAIN succs)) /\ succs # <<>>  BY HierarchyAssumption
<1>2. Len(succs) \in Nat /\ Len(succs) > 0 /\ DOMAIN succs = 1 .. Len(succs) /\ DOMAIN succs \subseteq Nat
  BY <1>1
<1>3. \A b \in 1 .. Len(succs) : succs[b] \in Seq(Nat)  BY <1>1, <1>2
<1>4. succs \in Seq(Seq(Nat))  BY <1>1, <1>2, <1>3
<1>5. \A p : p \in PathsOf(succs) <=> IsPath(succs, p)  BY <1>4, PathIs
<1>6. Runs = PathsOf(succs)  BY DEF Runs, RunsOf
<1>7. Block = 1 .. Len(succs) /\ Entry \in Block  BY <1>2 DEF Block, Entry
<1> QED  BY <1>1, <1>2, <1>4, <1>5, <1>6, <1>7 DEF Block

LEMMA SuccsIs ==
    ASSUME succs \in Shape, NEW b \in Block
    PROVE  /\ succs[b] \in Seq(Block) /\ Len(succs[b]) \in Nat
           /\ \A k \in 1 .. Len(succs[b]) : succs[b][k] \in Block
           /\ \A c : c \in Range(succs[b]) <=> \E k \in 1 .. Len(succs[b]) : c = succs[b][k]
<1>1. succs \in Seq(Seq(Block)) /\ b \in DOMAIN succs  BY GraphIs DEF Block
<1>2. succs[b] \in Seq(Block)  BY <1>1
<1>3. DOMAIN succs[b] = 1 .. Len(succs[b])  BY <1>2
<1> QED  BY <1>2, <1>3 DEF Range

LEMMA RunIs ==
    ASSUME succs \in Shape, NEW p \in Runs
    PROVE  /\ IsPath(succs, p) /\ p \in Seq(Block) /\ Len(p) \in Nat /\ Len(p) > 0
           /\ p[1] = Entry /\ Last(p) = p[Len(p)] /\ Last(p) \in Block /\ Len(p) <= Len(succs)
           /\ \A n \in 1 .. Len(p) : p[n] \in Block
           /\ \A m, n \in 1 .. Len(p) : p[m] = p[n] => m = n
           /\ \A n \in 1 .. Len(p) - 1 : p[n + 1] \in Range(succs[p[n]])
<1>1. IsPath(succs, p)  BY GraphIs
<1>2. p \in Seq(Block) /\ Len(p) \in Nat /\ Len(p) > 0 /\ Len(p) \in 1 .. Len(p)  BY <1>1 DEF IsPath, Block
<1>3. p[1] = Entry  BY <1>1 DEF IsPath, Entry
<1>4. \A n \in 1 .. Len(p) : p[n] \in Block  BY <1>2
<1>5. ASSUME NEW n \in 1 .. Len(p) - 1  PROVE p[n + 1] \in Range(succs[p[n]])
  <2>1. n \in 1 .. Len(p)  BY <1>2
  <2>2. p[n] \in Block  BY <1>4, <2>1
  <2>3. \E k \in 1 .. Len(succs[p[n]]) : p[n + 1] = succs[p[n]][k]  BY <1>1 DEF IsPath
  <2> QED  BY <2>2, <2>3, SuccsIs
<1>6. \A m, n \in 1 .. Len(p) : p[m] = p[n] => m = n  BY <1>1 DEF IsPath
<1>7. Len(p) <= Len(succs)
  <2>1. p \in BoundedSeq(DOMAIN succs, Len(succs))  BY DEF Runs, RunsOf, PathsOf
  <2>2. PICK m \in 0 .. Len(succs) : p \in [1 .. m -> DOMAIN succs]  BY <2>1 DEF BoundedSeq, SeqOf
  <2>3. DOMAIN p = 1 .. m /\ DOMAIN p = 1 .. Len(p) /\ Len(succs) \in Nat  BY <1>2, <2>2, GraphIs
  <2>4. Len(p) = m  BY <1>2, <2>3
  <2> QED  BY <2>3, <2>4
<1>8. Last(p) = p[Len(p)]  BY DEF Last
<1>9. Last(p) \in Block  BY <1>2, <1>4, <1>8
<1> QED  BY <1>1, <1>2, <1>3, <1>4, <1>5, <1>6, <1>7, <1>8, <1>9

\* A run stops anywhere on its way, and goes on to a block that it has not entered.
LEMMA PrefixIsRun ==
    ASSUME succs \in Shape, NEW p \in Runs, NEW n \in 1 .. Len(p)
    PROVE  LET q == SubSeq(p, 1, n)
           IN  /\ q \in Runs /\ Last(q) = p[n] /\ Len(q) = n /\ \A i \in 1 .. n : q[i] = p[i]
               /\ Front(q) = SubSeq(p, 1, n - 1)
<1>1. IsPath(succs, p) /\ succs \in Seq(Seq(Nat))  BY RunIs, GraphIs
<1> QED  BY <1>1, PrefixIsPath, GraphIs

LEMMA LongerRun ==
    ASSUME succs \in Shape, NEW p \in Runs, NEW b \in Range(succs[Last(p)]),
           \A n \in 1 .. Len(p) : p[n] # b
    PROVE  /\ Append(p, b) \in Runs /\ Last(Append(p, b)) = b /\ Front(Append(p, b)) = p
           /\ Len(Append(p, b)) = Len(p) + 1
<1>1. IsPath(succs, p) /\ succs \in Seq(Seq(DOMAIN succs)) /\ Last(p) = p[Len(p)] /\ Last(p) \in Block
      /\ p \in Seq(Block)
  BY RunIs, GraphIs
<1>2. PICK k \in 1 .. Len(succs[Last(p)]) : b = succs[Last(p)][k]  BY <1>1, SuccsIs
<1>3. k \in 1 .. Len(succs[p[Len(p)]]) /\ b = succs[p[Len(p)]][k]  BY <1>1, <1>2
<1>4. IsPath(succs, Append(p, b)) /\ Last(Append(p, b)) = b /\ Front(Append(p, b)) = p
  BY <1>1, <1>3, LongerPath
<1>5. Len(Append(p, b)) = Len(p) + 1  BY <1>1
<1> QED  BY <1>4, <1>5, GraphIs

LEMMA ShortestRun ==
    ASSUME succs \in Shape
    PROVE  <<Entry>> \in Runs /\ Last(<<Entry>>) = Entry
<1>1. <<Entry>> \in Seq(DOMAIN succs) /\ Len(<<Entry>>) = 1 /\ <<Entry>>[1] = 1
  BY GraphIs DEF Block, Entry
<1>2. IsPath(succs, <<Entry>>)  BY <1>1 DEF IsPath
<1> QED  BY <1>1, <1>2, GraphIs DEF Last, Entry

\* Every block is the last of a run.
LEMMA AllReached ==
    ASSUME succs \in Shape, NEW b \in Block
    PROVE  \E p \in Runs : Last(p) = b
<1>1. b \in DOMAIN succs  BY DEF Block
<1>2. \E p \in PathsOf(succs) : Last(p) = b  BY <1>1, HierarchyAssumption
<1> QED  BY <1>2 DEF Runs, RunsOf

\* The visit of a block: that of each of its successors in turn.
LEMMA VisitIs ==
    ASSUME InputOK, NEW s \in Search, NEW b \in Block, NEW below \in Below
    PROVE  \E f \in [0 .. Len(succs[b]) -> Search] :
               /\ f[0] = [s EXCEPT !.seen = @ \cup {b}]
               /\ \A n \in 1 .. Len(succs[b]) : f[n] = below[f[n - 1]][succs[b][n]]
               /\ VisitBlock(s, b, below) = IF b \in s.seen THEN s ELSE [f[Len(succs[b])] EXCEPT !.order = Append(@, b)]
<1> DEFINE N == Len(succs[b])
           X == Search
           Is(f) == f = [n \in 0 .. Len(succs[b]) |-> IF n = 0 THEN [s EXCEPT !.seen = @ \cup {b}] ELSE below[f[n - 1]][succs[b][n]]]
           f == CHOOSE g : Is(g)
<1>1. N \in Nat /\ 0 \in 0 .. N /\ N \in 0 .. N
      /\ \A n \in 1 .. N : n \in 0 .. N /\ n - 1 \in 0 .. N /\ n # 0
  BY SuccsIs DEF InputOK
<1>2. VisitBlock(s, b, below) = IF b \in s.seen THEN s ELSE [f[N] EXCEPT !.order = Append(@, b)]
  BY DEF VisitBlock
<1>3. [s EXCEPT !.seen = @ \cup {b}] \in X
  BY DEF Search
<1>4. ASSUME NEW n \in 1 .. N, NEW x \in X  PROVE below[x][succs[b][n]] \in X
  BY <1>1, SuccsIs DEF InputOK, Below
<1> HIDE DEF X
<1>5. \E g \in [0 .. N -> X] : Is(g)
  <2> DEFINE step == [n \in 1 .. N |-> [x \in X |-> below[x][succs[b][n]]]]
  <2>1. step \in [1 .. N -> [X -> X]]  BY <1>4
  <2>2. \A n \in 1 .. N, x \in X : step[n][x] = below[x][succs[b][n]]  OBVIOUS
  <2> HIDE DEF step, N
  <2>3. HasRun(X, [s EXCEPT !.seen = @ \cup {b}], N, step)  BY <1>1, <1>3, <2>1, Iterated
  <2>4. PICK g \in [0 .. N -> X] : g[0] = [s EXCEPT !.seen = @ \cup {b}] /\ \A n \in 1 .. N : g[n] = step[n][g[n - 1]]
    BY <2>3 DEF HasRun
  <2>5. \A n \in 1 .. N : g[n] = below[g[n - 1]][succs[b][n]]  BY <1>1, <2>2, <2>4
  <2>6. Is(g)
    <3>1. g = [n \in 0 .. N |-> g[n]]  BY <2>4
    <3>2. ASSUME NEW n \in 0 .. N
          PROVE  g[n] = IF n = 0 THEN [s EXCEPT !.seen = @ \cup {b}] ELSE below[g[n - 1]][succs[b][n]]
      <4>1. CASE n = 0  BY <2>4, <4>1
      <4>2. CASE n # 0
        <5>1. n \in 1 .. N  BY <1>1, <4>2
        <5> QED  BY <2>5, <4>2, <5>1
      <4> QED  BY <4>1, <4>2
    <3> QED  BY <3>1, <3>2 DEF N
  <2> QED  BY <2>4, <2>6
<1>6. Is(f)  BY <1>5
<1> HIDE DEF f
<1>7. f = [n \in 0 .. N |-> f[n]]  BY <1>6
<1>8. ASSUME NEW n \in 0 .. N
      PROVE  f[n] = IF n = 0 THEN [s EXCEPT !.seen = @ \cup {b}] ELSE below[f[n - 1]][succs[b][n]]
  BY <1>6
<1> HIDE DEF Is
<1>9. f[0] = [s EXCEPT !.seen = @ \cup {b}]  BY <1>1, <1>8
<1>10. \A n \in 1 .. N : f[n] = below[f[n - 1]][succs[b][n]]  BY <1>1, <1>8
<1>11. f \in [0 .. N -> X]
  <2>1. \A n \in 1 .. N : f[n - 1] \in X => f[n] \in X
    <3> HIDE DEF N
    <3> QED  BY <1>4, <1>10
  <2> HIDE DEF N
  <2>2. f[0] \in X  BY <1>3, <1>9
  <2> QED  BY <1>1, <1>7, <2>1, <2>2, StepsStay
<1> QED  BY <1>2, <1>9, <1>10, <1>11 DEF N, X

LEMMA Appended ==
    ASSUME NEW t \in Search, NEW b \in Block
    PROVE  LET u == [t EXCEPT !.order = Append(@, b)]
           IN  u \in Search /\ u.order = Append(t.order, b) /\ u.seen = t.seen
<1> DEFINE u == [t EXCEPT !.order = Append(@, b)]
           o == Append(t.order, b)
<1>1. o \in Seq(Block)
  <2>1. t.order \in Seq(Block)  BY DEF Search
  <2> QED  BY <2>1, AppendProperties
<1>2. u = [order |-> o, seen |-> t.seen]
  <2>1. t = [order |-> t.order, seen |-> t.seen]  BY DEF Search
  <2> HIDE DEF o
  <2> QED  BY <2>1, SMTT(30) DEF o
<1>4. t.seen \in SUBSET Block  BY DEF Search
<1> HIDE DEF o, u
<1>3. u \in Search /\ u.order = o /\ u.seen = t.seen  BY <1>1, <1>2, <1>4 DEF Search
<1> QED  BY <1>3 DEF o, u

LEMMA VisitIsTyped ==
    ASSUME InputOK, NEW s \in Search, NEW b \in Block, NEW below \in Below
    PROVE  VisitBlock(s, b, below) \in Search
<1> DEFINE V == VisitBlock(s, b, below)
<1>1. PICK f \in [0 .. Len(succs[b]) -> Search] :
          /\ f[0] = [s EXCEPT !.seen = @ \cup {b}]
          /\ \A n \in 1 .. Len(succs[b]) : f[n] = below[f[n - 1]][succs[b][n]]
          /\ V = IF b \in s.seen THEN s ELSE [f[Len(succs[b])] EXCEPT !.order = Append(@, b)]
  BY VisitIs
<1>2. Len(succs[b]) \in 0 .. Len(succs[b])  BY SuccsIs DEF InputOK
<1>3. f[Len(succs[b])] \in Search  BY <1>1, <1>2
<1>4. V = s \/ V = [f[Len(succs[b])] EXCEPT !.order = Append(@, b)]  BY <1>1
<1> HIDE DEF V
<1>5. V \in Search  BY <1>3, <1>4, Appended
<1> QED  BY <1>5 DEF V

Nothing == [order |-> <<>>, seen |-> {}]
Idle == [s \in Search |-> [b \in Block |-> s]]

\* The visits, by the number of visits that may be nested in them.
LEMMA OrderIs ==
    ASSUME InputOK
    PROVE  \E f \in [0 .. Len(succs) -> Below] :
               /\ f[0] = Idle
               /\ \A n \in 1 .. Len(succs) : f[n] = [s \in Search |-> [b \in Block |-> VisitBlock(s, b, f[n - 1])]]
               /\ BlockOrder = Reverse(f[Len(succs)][Nothing][Entry].order)
<1> DEFINE N == Len(succs)
           X == Below
           Is(f) == f = [n \in 0 .. Len(succs) |-> IF n = 0 THEN Idle ELSE [s \in Search |-> [b \in Block |-> VisitBlock(s, b, f[n - 1])]]]
           f == CHOOSE g : Is(g)
<1>1. N \in Nat /\ 0 \in 0 .. N /\ N \in 0 .. N
      /\ \A n \in 1 .. N : n \in 0 .. N /\ n - 1 \in 0 .. N /\ n # 0
  BY GraphIs DEF InputOK
<1>2. BlockOrder = Reverse(f[N][Nothing][Entry].order)
  <2> DEFINE Was(g) == g = [n \in 0 .. Len(succs) |-> [s \in Search |-> [b \in Block |->
                           IF n = 0 THEN s ELSE VisitBlock(s, b, g[n - 1])]]]
  <2>1. BlockOrder = Reverse((CHOOSE g : Was(g))[Len(succs)][Nothing][Entry].order)
    BY DEF BlockOrder, Nothing
  <2>2. ASSUME NEW g  PROVE Was(g) <=> Is(g)
    <3>1. ASSUME NEW n \in 0 .. Len(succs)
          PROVE  [s \in Search |-> [b \in Block |-> IF n = 0 THEN s ELSE VisitBlock(s, b, g[n - 1])]]
                   = IF n = 0 THEN Idle ELSE [s \in Search |-> [b \in Block |-> VisitBlock(s, b, g[n - 1])]]
      <4>1. CASE n = 0  BY <4>1 DEF Idle
      <4>2. CASE n # 0  BY <4>2
      <4> QED  BY <4>1, <4>2
    <3> QED  BY <3>1
  <2>3. (CHOOSE g : Was(g)) = (CHOOSE g : Is(g))
    <3> HIDE DEF Was, Is
    <3> QED  BY <2>2
  <2> QED  BY <2>1, <2>3
<1>3. Idle \in X
  BY DEF Below, Idle
<1>4. ASSUME NEW n \in 1 .. N, NEW x \in X  PROVE [s \in Search |-> [b \in Block |-> VisitBlock(s, b, x)]] \in X
  BY VisitIsTyped DEF Below
<1> HIDE DEF X
<1>5. \E g \in [0 .. N -> X] : Is(g)
  <2> DEFINE step == [n \in 1 .. N |-> [x \in X |-> [s \in Search |-> [b \in Block |-> VisitBlock(s, b, x)]]]]
  <2>1. step \in [1 .. N -> [X -> X]]  BY <1>4
  <2>2. \A n \in 1 .. N, x \in X : step[n][x] = [s \in Search |-> [b \in Block |-> VisitBlock(s, b, x)]]  OBVIOUS
  <2> HIDE DEF step, N
  <2>3. HasRun(X, Idle, N, step)  BY <1>1, <1>3, <2>1, Iterated
  <2>4. PICK g \in [0 .. N -> X] : g[0] = Idle /\ \A n \in 1 .. N : g[n] = step[n][g[n - 1]]
    BY <2>3 DEF HasRun
  <2>5. \A n \in 1 .. N : g[n] = [s \in Search |-> [b \in Block |-> VisitBlock(s, b, g[n - 1])]]  BY <1>1, <2>2, <2>4
  <2>6. Is(g)
    <3>1. g = [n \in 0 .. N |-> g[n]]  BY <2>4
    <3>2. ASSUME NEW n \in 0 .. N
          PROVE  g[n] = IF n = 0 THEN Idle ELSE [s \in Search |-> [b \in Block |-> VisitBlock(s, b, g[n - 1])]]
      <4>1. CASE n = 0  BY <2>4, <4>1
      <4>2. CASE n # 0
        <5>1. n \in 1 .. N  BY <1>1, <4>2
        <5> QED  BY <2>5, <4>2, <5>1
      <4> QED  BY <4>1, <4>2
    <3> QED  BY <3>1, <3>2 DEF N
  <2> QED  BY <2>4, <2>6
<1>6. Is(f)  BY <1>5
<1> HIDE DEF f
<1>7. f = [n \in 0 .. N |-> f[n]]  BY <1>6
<1>8. ASSUME NEW n \in 0 .. N
      PROVE  f[n] = IF n = 0 THEN Idle ELSE [s \in Search |-> [b \in Block |-> VisitBlock(s, b, f[n - 1])]]
  BY <1>6
<1> HIDE DEF Is
<1>9. f[0] = Idle  BY <1>1, <1>8
<1>10. \A n \in 1 .. N : f[n] = [s \in Search |-> [b \in Block |-> VisitBlock(s, b, f[n - 1])]]  BY <1>1, <1>8
<1>11. f \in [0 .. N -> X]
  <2>1. \A n \in 1 .. N : f[n - 1] \in X => f[n] \in X
    <3> HIDE DEF N
    <3> QED  BY <1>4, <1>10
  <2> HIDE DEF N
  <2>2. f[0] \in X  BY <1>3, <1>9
  <2> QED  BY <1>1, <1>7, <2>1, <2>2, StepsStay
<1> QED  BY <1>2, <1>9, <1>10, <1>11 DEF N, X

-----------------------------------------------------------------------------
\* What a visit keeps, with the blocks q on the way to it: those visited are in order,
\* and a successor of one comes before it, or is on a run to it.
Lies(b, s) == \E i \in 1 .. Len(s) : s[i] = b
Comes(done, i, b) == \/ \E j \in 1 .. i - 1 : done[j] = b
                     \/ \E p \in Runs : Last(p) = done[i] /\ Lies(b, p)
Good(s, q) ==
    /\ s \in Search /\ q \in Seq(Block)
    /\ \A b \in Block : b \in s.seen <=> Lies(b, s.order) \/ Lies(b, q)
    /\ \A i, j \in 1 .. Len(s.order) : s.order[i] = s.order[j] => i = j
    /\ \A i \in 1 .. Len(s.order) : ~Lies(s.order[i], q)
    /\ \A i \in 1 .. Len(s.order) : \A b \in Range(succs[s.order[i]]) :
          b \in s.seen /\ Comes(s.order, i, b)

LEMMA AppendIs ==
    ASSUME NEW S, NEW s \in Seq(S), NEW e \in S
    PROVE  /\ Append(s, e) \in Seq(S) /\ Len(Append(s, e)) = Len(s) + 1 /\ Len(s) \in Nat
           /\ Append(s, e)[Len(s) + 1] = e /\ \A i \in 1 .. Len(s) : Append(s, e)[i] = s[i]
           /\ \A i \in 1 .. Len(Append(s, e)) : i \in 1 .. Len(s) \/ i = Len(s) + 1
           /\ \A x : Lies(x, Append(s, e)) <=> Lies(x, s) \/ x = e
<1> DEFINE t == Append(s, e)
<1>1. /\ t \in Seq(S) /\ Len(t) = Len(s) + 1 /\ Len(s) \in Nat
      /\ t[Len(s) + 1] = e /\ \A i \in 1 .. Len(s) : t[i] = s[i]
  BY AppendProperties
<1> HIDE DEF t
<1>2. \A i \in 1 .. Len(t) : i \in 1 .. Len(s) \/ i = Len(s) + 1  BY <1>1
<1>3. \A i \in 1 .. Len(s) : i \in 1 .. Len(t)  BY <1>1
<1>4. Len(s) + 1 \in 1 .. Len(t)  BY <1>1
<1>5. \A x : Lies(x, t) <=> Lies(x, s) \/ x = e  BY <1>1, <1>2, <1>3, <1>4, Zenon DEF Lies
<1> QED  BY <1>1, <1>2, <1>5 DEF t

LEMMA GoodEnter ==
    ASSUME InputOK, NEW s, NEW q, Good(s, q), NEW b \in Block, b \notin s.seen
    PROVE  Good([s EXCEPT !.seen = @ \cup {b}], Append(q, b))
<1> DEFINE t == [s EXCEPT !.seen = @ \cup {b}]
           r == Append(q, b)
<1>1. s \in Search /\ q \in Seq(Block) /\ s.order \in Seq(Block)  BY DEF Good, Search
<1>2. t \in Search /\ t.order = s.order /\ t.seen = s.seen \cup {b}  BY <1>1 DEF Search
<1>3. r \in Seq(Block) /\ \A x : Lies(x, r) <=> Lies(x, q) \/ x = b  BY <1>1, AppendIs
<1> HIDE DEF t, r
<1>4. \A x \in Block : x \in s.seen <=> Lies(x, s.order) \/ Lies(x, q)  BY DEF Good
<1>5. ~Lies(b, s.order)  BY <1>4
<1>6. \A x \in Block : x \in t.seen <=> Lies(x, t.order) \/ Lies(x, r)  BY <1>2, <1>3, <1>4
<1>7. \A i \in 1 .. Len(s.order) : s.order[i] # b  BY <1>5 DEF Lies
<1>8. \A i \in 1 .. Len(s.order) : ~Lies(s.order[i], q)  BY DEF Good
<1>9. \A i \in 1 .. Len(t.order) : ~Lies(t.order[i], r)  BY <1>2, <1>3, <1>7, <1>8
<1>10. \A i \in 1 .. Len(t.order) : \A c \in Range(succs[t.order[i]]) :
          c \in t.seen /\ Comes(t.order, i, c)
  BY <1>2 DEF Good
<1>11. \A i, j \in 1 .. Len(t.order) : t.order[i] = t.order[j] => i = j  BY <1>2 DEF Good
<1> QED  BY <1>2, <1>3, <1>6, <1>9, <1>10, <1>11 DEF Good, t, r

LEMMA GoodLeave ==
    ASSUME InputOK, NEW t, NEW q \in Seq(Block), NEW b \in Block, Good(t, Append(q, b)),
           Append(q, b) \in Runs, \A c \in Range(succs[b]) : c \in t.seen
    PROVE  Good([t EXCEPT !.order = Append(@, b)], q)
<1> DEFINE u == [t EXCEPT !.order = Append(@, b)]
           r == Append(q, b)
           o == Append(t.order, b)
           L == Len(t.order)
<1>1. t \in Search /\ t.order \in Seq(Block)  BY DEF Good, Search
<1>2. /\ o \in Seq(Block) /\ Len(o) = L + 1 /\ L \in Nat /\ o[L + 1] = b
      /\ (\A i \in 1 .. L : o[i] = t.order[i])
      /\ (\A i \in 1 .. Len(o) : i \in 1 .. L \/ i = L + 1)
      /\ \A x : Lies(x, o) <=> Lies(x, t.order) \/ x = b
  BY <1>1, AppendIs
<1>3. u \in Search /\ u.order = o /\ u.seen = t.seen  BY <1>1, Appended
<1>4. /\ \A x : Lies(x, r) <=> Lies(x, q) \/ x = b
      /\ Len(r) = Len(q) + 1 /\ Len(q) \in Nat /\ r[Len(q) + 1] = b
      /\ \A i \in 1 .. Len(q) : r[i] = q[i]
  BY AppendIs
<1>5. r \in Runs /\ Last(r) = b /\ \A i, j \in 1 .. Len(r) : r[i] = r[j] => i = j
  <2>1. r \in Runs /\ succs \in Shape  BY DEF InputOK
  <2> HIDE DEF r
  <2>2. Last(r) = r[Len(r)] /\ \A i, j \in 1 .. Len(r) : r[i] = r[j] => i = j  BY <2>1, RunIs
  <2> QED  BY <1>4, <2>1, <2>2
<1>6. Good(t, r)  OBVIOUS
<1> HIDE DEF u, r, o
<1>7. ~Lies(b, q)
  <2> SUFFICES ASSUME NEW i \in 1 .. Len(q), q[i] = b  PROVE FALSE  BY DEF Lies
  <2>1. i \in 1 .. Len(r) /\ Len(q) + 1 \in 1 .. Len(r) /\ i # Len(q) + 1  BY <1>4
  <2> QED  BY <1>4, <1>5, <2>1
<1>8. ~Lies(b, t.order)
  <2>1. \A i \in 1 .. L : ~Lies(t.order[i], r)  BY <1>6 DEF Good
  <2> QED  BY <1>4, <2>1 DEF Lies
<1>9. \A x \in Block : x \in u.seen <=> Lies(x, u.order) \/ Lies(x, q)
  BY <1>2, <1>3, <1>4, <1>6 DEF Good
<1>10. \A i, j \in 1 .. Len(u.order) : u.order[i] = u.order[j] => i = j
  <2> SUFFICES ASSUME NEW i \in 1 .. Len(o), NEW j \in 1 .. Len(o), o[i] = o[j]  PROVE i = j
    BY <1>3
  <2>1. (i \in 1 .. L \/ i = L + 1) /\ (j \in 1 .. L \/ j = L + 1)  BY <1>2
  <2>2. \A m, n \in 1 .. L : t.order[m] = t.order[n] => m = n  BY <1>6 DEF Good
  <2>3. \A m \in 1 .. L : t.order[m] # b  BY <1>8 DEF Lies
  <2> HIDE DEF L
  <2> QED  BY <1>2, <2>1, <2>2, <2>3
<1>11. \A i \in 1 .. Len(u.order) : ~Lies(u.order[i], q)
  <2> SUFFICES ASSUME NEW i \in 1 .. Len(o)  PROVE ~Lies(o[i], q)  BY <1>3
  <2>1. i \in 1 .. L \/ i = L + 1  BY <1>2
  <2>2. \A n \in 1 .. L : ~Lies(t.order[n], r)  BY <1>6 DEF Good
  <2> HIDE DEF L
  <2> QED  BY <1>2, <1>4, <1>7, <2>1, <2>2
<1>12. \A i \in 1 .. Len(u.order) : \A c \in Range(succs[u.order[i]]) :
          c \in u.seen /\ Comes(u.order, i, c)
  <2> SUFFICES ASSUME NEW i \in 1 .. Len(o), NEW c \in Range(succs[o[i]])
               PROVE  c \in t.seen /\ Comes(o, i, c)
    BY <1>3
  <2>1. CASE i = L + 1
    <3>5. o[i] = b /\ c \in Range(succs[b])  BY <1>2, <2>1
    <3>1. c \in t.seen /\ c \in Block
      <4>1. t.seen \subseteq Block  BY <1>1 DEF Search
      <4> QED  BY <3>5, <4>1
    <3>2. Lies(c, t.order) \/ Lies(c, r)  BY <1>6, <3>1 DEF Good
    <3>3. CASE Lies(c, t.order)
      <4>1. PICK j \in 1 .. L : t.order[j] = c  BY <3>3 DEF Lies
      <4>2. j \in 1 .. i - 1 /\ o[j] = c  BY <1>2, <2>1, <4>1
      <4> QED  BY <3>1, <4>2 DEF Comes
    <3>4. CASE Lies(c, r)
      <4>1. Last(r) = o[i]  BY <1>2, <1>5, <2>1
      <4> QED  BY <1>5, <3>1, <3>4, <4>1 DEF Comes
    <3> QED  BY <3>2, <3>3, <3>4
  <2>2. CASE i \in 1 .. L
    <3>1. o[i] = t.order[i]  BY <1>2, <2>2
    <3>2. c \in t.seen /\ Comes(t.order, i, c)  BY <1>6, <2>2, <3>1 DEF Good
    <3>3. \A j \in 1 .. i - 1 : o[j] = t.order[j]
      <4> HIDE DEF L
      <4>1. \A j \in 1 .. i - 1 : j \in 1 .. L  BY <1>2, <2>2
      <4> QED  BY <1>2, <4>1
    <3> QED  BY <3>1, <3>2, <3>3 DEF Comes
  <2> QED  BY <1>2, <2>1, <2>2
<1> QED  BY <1>3, <1>9, <1>10, <1>11, <1>12 DEF Good, u

\* A visit of the entry, or of a successor of the last block on the way, leaves what was
\* visited in order, the block among them: there are as many visits left as blocks
\* that are not on the way.
Visits(visit) ==
    /\ visit \in [0 .. Len(succs) -> Below] /\ visit[0] = Idle
    /\ \A n \in 1 .. Len(succs) :
          visit[n] = [s \in Search |-> [b \in Block |-> VisitBlock(s, b, visit[n - 1])]]
NextOn(q, b) == \/ q = <<>> /\ b = Entry
                \/ q \in Runs /\ b \in Range(succs[Last(q)])
Visited(s, q, b, t) == Good(t, q) /\ b \in t.seen /\ s.seen \subseteq t.seen
DoneWith(visit) == {n \in Nat : \A s \in Search, q \in Seq(Block), b \in Block :
    n + Len(q) = Len(succs) /\ NextOn(q, b) /\ Good(s, q) => Visited(s, q, b, visit[n][s][b])}

LEMMA OnwardRun ==
    ASSUME InputOK, NEW q \in Seq(Block), NEW b \in Block, NextOn(q, b), ~Lies(b, q)
    PROVE  Append(q, b) \in Runs /\ Last(Append(q, b)) = b /\ Len(Append(q, b)) = Len(q) + 1
<1>0. succs \in Shape  BY DEF InputOK
<1>1. CASE q = <<>> /\ b = Entry
  <2>1. Append(q, b) = <<Entry>> /\ Len(<<Entry>>) = 1 /\ Len(q) = 0  BY <1>1
  <2> QED  BY <1>0, <1>1, <2>1, ShortestRun
<1>2. CASE q \in Runs /\ b \in Range(succs[Last(q)])
  <2>1. \A n \in 1 .. Len(q) : q[n] # b  BY DEF Lies
  <2> QED  BY <1>0, <1>2, <2>1, LongerRun
<1> QED  BY <1>1, <1>2 DEF NextOn

LEMMA VisitsFromNone ==
    ASSUME InputOK, NEW visit, Visits(visit)
    PROVE  0 \in DoneWith(visit)
<1> SUFFICES ASSUME NEW s \in Search, NEW q \in Seq(Block), NEW b \in Block,
                    0 + Len(q) = Len(succs), NextOn(q, b), Good(s, q)
             PROVE  Visited(s, q, b, visit[0][s][b])
  BY DEF DoneWith
<1>1. Len(q) = Len(succs) /\ Len(q) \in Nat /\ succs \in Shape  BY DEF InputOK
<1>2. Lies(b, q)
  <2> SUFFICES ASSUME ~Lies(b, q)  PROVE FALSE  OBVIOUS
  <2>1. Append(q, b) \in Runs /\ Len(Append(q, b)) = Len(q) + 1  BY OnwardRun
  <2>2. Len(Append(q, b)) <= Len(succs)  BY <1>1, <2>1, RunIs
  <2> QED  BY <1>1, <2>1, <2>2
<1>3. b \in s.seen  BY <1>2 DEF Good
<1>4. visit[0][s][b] = s  BY DEF Visits, Idle
<1> QED  BY <1>3, <1>4 DEF Visited

LEMMA VisitsGoOn ==
    ASSUME InputOK, NEW visit, Visits(visit), NEW m \in Nat, m \in DoneWith(visit)
    PROVE  m + 1 \in DoneWith(visit)
<1> SUFFICES ASSUME NEW s \in Search, NEW q \in Seq(Block), NEW b \in Block,
                    (m + 1) + Len(q) = Len(succs), NextOn(q, b), Good(s, q)
             PROVE  Visited(s, q, b, visit[m + 1][s][b])
  BY DEF DoneWith
<1> DEFINE below == visit[m]
           r == Append(q, b)
           L == Len(succs[b])
           t == VisitBlock(s, b, below)
<1>1. /\ m + 1 \in 1 .. Len(succs) /\ m \in 0 .. Len(succs) /\ (m + 1) - 1 = m /\ Len(q) \in Nat
      /\ succs \in Shape
  <2>1. Len(q) \in Nat /\ Len(succs) \in Nat  BY GraphIs DEF InputOK
  <2> QED  BY <2>1 DEF InputOK
<1>2. below \in Below  BY <1>1 DEF Visits
<1>3. visit[m + 1][s][b] = t
  <2>1. visit[m + 1] = [ss \in Search |-> [bb \in Block |-> VisitBlock(ss, bb, visit[(m + 1) - 1])]]
    BY <1>1 DEF Visits
  <2> QED  BY <1>1, <2>1
<1> HIDE DEF below
<1>4. PICK f \in [0 .. Len(succs[b]) -> Search] :
          /\ f[0] = [s EXCEPT !.seen = @ \cup {b}]
          /\ \A n \in 1 .. Len(succs[b]) : f[n] = below[f[n - 1]][succs[b][n]]
          /\ t = IF b \in s.seen THEN s ELSE [f[Len(succs[b])] EXCEPT !.order = Append(@, b)]
  BY <1>2, VisitIs
<1> HIDE DEF t
<1>5. CASE b \in s.seen  BY <1>3, <1>4, <1>5 DEF Visited
<1>6. CASE b \notin s.seen
  <2>1. ~Lies(b, q)  BY <1>6 DEF Good
  <2>2. r \in Runs /\ Last(r) = b /\ Len(r) = Len(q) + 1 /\ r \in Seq(Block)
    BY <1>1, <2>1, OnwardRun, RunIs
  <2>3. Good(f[0], r)  BY <1>4, <1>6, GoodEnter
  <2>4. L \in Nat /\ \A n \in 1 .. L : succs[b][n] \in Block /\ succs[b][n] \in Range(succs[b])
    BY <1>1, SuccsIs
  <2>5. m + Len(r) = Len(succs)  BY <1>1, <2>2
  <2> HIDE DEF r, L
  <2> DEFINE S == {n \in Nat : n <= L => /\ Good(f[n], r) /\ s.seen \subseteq f[n].seen
                                         /\ \A i \in 1 .. n : succs[b][i] \in f[n].seen}
  <2>6. 0 \in S
    <3>1. s.seen \subseteq f[0].seen  BY <1>4 DEF Search
    <3> QED  BY <2>3, <3>1
  <2>7. ASSUME NEW n \in Nat, n \in S  PROVE n + 1 \in S
    <3> SUFFICES ASSUME n + 1 <= L
                 PROVE  /\ Good(f[n + 1], r) /\ s.seen \subseteq f[n + 1].seen
                        /\ \A i \in 1 .. n + 1 : succs[b][i] \in f[n + 1].seen
      OBVIOUS
    <3>1. n + 1 \in 1 .. L /\ (n + 1) - 1 = n /\ n <= L /\ n \in 0 .. L /\ n + 1 \in 0 .. L
      BY <2>4
    <3>2. f[n] \in Search /\ f[n + 1] = below[f[n]][succs[b][n + 1]]  BY <1>4, <3>1 DEF L
    <3>3. Good(f[n], r) /\ s.seen \subseteq f[n].seen /\ \A i \in 1 .. n : succs[b][i] \in f[n].seen
      BY <2>7, <3>1
    <3>4. NextOn(r, succs[b][n + 1])  BY <2>2, <2>4, <3>1 DEF NextOn
    <3>5. succs[b][n + 1] \in Block  BY <2>4, <3>1
    <3>6. Visited(f[n], r, succs[b][n + 1], f[n + 1])
      BY <2>2, <2>5, <3>2, <3>3, <3>4, <3>5 DEF DoneWith, below
    <3>7. \A i \in 1 .. n + 1 : i \in 1 .. n \/ i = n + 1  OBVIOUS
    <3> QED  BY <3>3, <3>6, <3>7 DEF Visited
  <2> HIDE DEF S
  <2>8. L \in S  BY <2>4, <2>6, <2>7, NatSetInduction
  <2>9. /\ Good(f[L], r) /\ s.seen \subseteq f[L].seen
        /\ \A i \in 1 .. L : succs[b][i] \in f[L].seen
    BY <2>4, <2>8 DEF S
  <2>10. ASSUME NEW c \in Range(succs[b])  PROVE c \in f[L].seen
    <3>1. PICK k \in 1 .. L : c = succs[b][k]  BY <1>1, SuccsIs DEF L
    <3> QED  BY <2>9, <3>1
  <2>11. Good([f[L] EXCEPT !.order = Append(@, b)], q)  BY <2>2, <2>9, <2>10, GoodLeave DEF r
  <2>12. t = [f[L] EXCEPT !.order = Append(@, b)]  BY <1>4, <1>6 DEF L
  <2>13. f[L] \in Search  BY <1>4, <2>4 DEF L
  <2>14. t.seen = f[L].seen  BY <2>12, <2>13, Appended
  <2>15. b \in t.seen
    <3>1. Lies(b, r)  BY AppendIs DEF r
    <3> QED  BY <2>9, <2>14, <3>1 DEF Good
  <2> QED  BY <1>3, <2>9, <2>11, <2>12, <2>14, <2>15 DEF Visited
<1> QED  BY <1>5, <1>6

\* Each block of a run that is still there has the next after it.
InOrder(u) == \A p \in Runs : \A n \in 1 .. Len(p) - 1, i \in 1 .. Len(u) :
    u[i] = p[n] => \E j \in i + 1 .. Len(u) : u[j] = p[n + 1]
Distinct(u) == \A i, j \in 1 .. Len(u) : u[i] = u[j] => i = j

LEMMA SearchIs ==
    ASSUME InputOK
    PROVE  \E s : Good(s, <<>>) /\ Entry \in s.seen /\ BlockOrder = Reverse(s.order)
<1> DEFINE N == Len(succs)
<1>1. PICK visit \in [0 .. N -> Below] :
          /\ visit[0] = Idle
          /\ \A n \in 1 .. N : visit[n] = [s \in Search |-> [b \in Block |-> VisitBlock(s, b, visit[n - 1])]]
          /\ BlockOrder = Reverse(visit[N][Nothing][Entry].order)
  BY OrderIs
<1>2. Visits(visit)  BY <1>1 DEF Visits
<1>3. N \in Nat /\ Entry \in Block  BY GraphIs DEF InputOK
<1> HIDE DEF N
<1>4. N \in DoneWith(visit)
  <2> DEFINE S == DoneWith(visit)
  <2>1. 0 \in S  BY <1>2, VisitsFromNone
  <2>2. \A n \in Nat : n \in S => n + 1 \in S  BY <1>2, VisitsGoOn
  <2> HIDE DEF S
  <2>3. N \in S  BY <1>3, <2>1, <2>2, NatSetInduction
  <2> QED  BY <2>3 DEF S
<1>5. Nothing \in Search /\ Nothing.order = <<>> /\ Nothing.seen = {} /\ <<>> \in Seq(Block) /\ Len(<<>>) = 0
  BY DEF Nothing, Search
<1>6. \A b : ~Lies(b, <<>>)  BY DEF Lies
<1>7. Good(Nothing, <<>>)  BY <1>5, <1>6 DEF Good
<1>8. NextOn(<<>>, Entry) /\ N + Len(<<>>) = Len(succs)  BY <1>3, <1>5 DEF NextOn, N
<1>9. Visited(Nothing, <<>>, Entry, visit[N][Nothing][Entry])
  BY <1>3, <1>4, <1>5, <1>7, <1>8 DEF DoneWith
<1> QED  BY <1>1, <1>9 DEF Visited

LEMMA AllSeen ==
    ASSUME InputOK, NEW s, Good(s, <<>>), Entry \in s.seen, NEW b \in Block
    PROVE  Lies(b, s.order)
<1>1. succs \in Shape  BY DEF InputOK
<1>2. \A x : ~Lies(x, <<>>)  BY DEF Lies
<1>3. \A x \in Block : x \in s.seen <=> Lies(x, s.order)  BY <1>2 DEF Good
<1>4. PICK p \in Runs : Last(p) = b  BY <1>1, AllReached
<1>5. /\ Len(p) \in Nat /\ Len(p) > 0 /\ p[1] = Entry /\ p[Len(p)] = b
      /\ (\A n \in 1 .. Len(p) : p[n] \in Block)
      /\ \A n \in 1 .. Len(p) - 1 : p[n + 1] \in Range(succs[p[n]])
  BY <1>1, <1>4, RunIs
<1> DEFINE S == {n \in Nat : n + 1 <= Len(p) => p[n + 1] \in s.seen}
<1>6. 0 \in S  BY <1>5
<1>7. ASSUME NEW n \in Nat, n \in S  PROVE n + 1 \in S
  <2> SUFFICES ASSUME (n + 1) + 1 <= Len(p)  PROVE p[(n + 1) + 1] \in s.seen  OBVIOUS
  <2>1. n + 1 \in 1 .. Len(p) - 1 /\ n + 1 \in 1 .. Len(p) /\ n + 1 <= Len(p)  BY <1>5
  <2>2. p[n + 1] \in s.seen  BY <1>7, <2>1
  <2>3. Lies(p[n + 1], s.order)  BY <1>3, <1>5, <2>1, <2>2
  <2>4. PICK i \in 1 .. Len(s.order) : s.order[i] = p[n + 1]  BY <2>3 DEF Lies
  <2>5. p[(n + 1) + 1] \in Range(succs[s.order[i]])  BY <1>5, <2>1, <2>4
  <2> QED  BY <2>5 DEF Good
<1> HIDE DEF S
<1>8. Len(p) - 1 \in Nat /\ (Len(p) - 1) + 1 = Len(p)  BY <1>5
<1>9. Len(p) - 1 \in S  BY <1>6, <1>7, <1>8, NatSetInduction
<1>10. p[Len(p)] \in s.seen  BY <1>5, <1>8, <1>9 DEF S
<1> QED  BY <1>3, <1>5, <1>10

\* A block that comes later on a run to another comes first in no run.
LEMMA BackIsNotForward ==
    ASSUME InputOK, LoopsHaveHeads, NEW p \in Runs, NEW n \in 1 .. Len(p) - 1,
           NEW q \in Runs, Last(q) = p[n], Lies(p[n + 1], q)
    PROVE  FALSE
<1>1. succs \in Shape  BY DEF InputOK
<1>2. /\ Len(p) \in Nat /\ p[n + 1] \in Range(succs[p[n]])
      /\ \A i, j \in 1 .. Len(p) : p[i] = p[j] => i = j
  BY <1>1, RunIs
<1>3. n \in 1 .. Len(p) /\ n + 1 \in 1 .. Len(p) /\ n \in Nat  BY <1>2
<1> DEFINE r == SubSeq(p, 1, n)
<1>4. r \in Runs /\ Last(r) = p[n] /\ Len(r) = n /\ \A i \in 1 .. n : r[i] = p[i]
  BY <1>1, <1>3, PrefixIsRun
<1> HIDE DEF r
<1>5. Range(succs[Last(q)]) \cap Range(q) \subseteq Range(r)  BY <1>4 DEF LoopsHaveHeads, Runs
<1>6. p[n + 1] \in Range(q)
  <2>1. q \in Seq(Block)  BY <1>1, RunIs
  <2>2. DOMAIN q = 1 .. Len(q)  BY <2>1
  <2> QED  BY <2>2 DEF Lies, Range
<1>7. p[n + 1] \in Range(r)  BY <1>2, <1>5, <1>6
<1>8. r \in Seq(Block)  BY <1>1, <1>4, RunIs
<1>9. DOMAIN r = 1 .. n  BY <1>4, <1>8
<1>10. PICK i \in 1 .. n : r[i] = p[n + 1]  BY <1>7, <1>9 DEF Range
<1>11. i \in 1 .. Len(p) /\ i # n + 1 /\ p[i] = p[n + 1]  BY <1>3, <1>4, <1>10
<1> QED  BY <1>2, <1>3, <1>11

LEMMA BlockOrderIs ==
    ASSUME InputOK
    PROVE  /\ BlockOrder \in Seq(Block) /\ Distinct(BlockOrder)
           /\ \A b \in Block : Lies(b, BlockOrder)
           /\ LoopsHaveHeads => InOrder(BlockOrder)
<1>1. PICK s : Good(s, <<>>) /\ Entry \in s.seen /\ BlockOrder = Reverse(s.order)  BY SearchIs
<1> DEFINE o == s.order
           u == BlockOrder
           L == Len(s.order)
<1>2. o \in Seq(Block) /\ L \in Nat  BY <1>1 DEF Good, Search
<1>3. /\ u \in Seq(Block) /\ Len(u) = L /\ \A i \in 1 .. L : u[i] = o[(L - i) + 1]
  <2>1. u = [i \in 1 .. L |-> o[(L - i) + 1]]  BY <1>1 DEF Reverse
  <2> HIDE DEF u, L
  <2>2. \A i \in 1 .. L : (L - i) + 1 \in 1 .. L  BY <1>2
  <2>3. \A i \in 1 .. L : o[(L - i) + 1] \in Block  BY <1>2, <2>2 DEF L
  <2>4. u \in [1 .. L -> Block]  BY <2>1, <2>3
  <2> HIDE DEF o
  <2>5. u \in Seq(Block) /\ Len(u) = L  BY <1>2, <2>4
  <2> QED  BY <2>1, <2>5
<1>4. \A i, j \in 1 .. L : o[i] = o[j] => i = j  BY <1>1 DEF Good
<1>5. \A b \in Block : Lies(b, o)  BY <1>1, AllSeen
<1>6. \A i \in 1 .. L : \A b \in Range(succs[o[i]]) : Comes(o, i, b)  BY <1>1 DEF Good
<1>7. \A i \in 1 .. L : (L - i) + 1 \in 1 .. L /\ (L - ((L - i) + 1)) + 1 = i  BY <1>2
<1> HIDE DEF u, o, L
<1>8. Distinct(u)
  <2> SUFFICES ASSUME NEW i \in 1 .. L, NEW j \in 1 .. L, u[i] = u[j]  PROVE i = j
    BY <1>3 DEF Distinct
  <2>1. /\ (L - i) + 1 \in 1 .. L /\ (L - j) + 1 \in 1 .. L
        /\ o[(L - i) + 1] = o[(L - j) + 1]
    BY <1>3, <1>7
  <2>2. (L - i) + 1 = (L - j) + 1  BY <1>4, <2>1, Zenon
  <2> QED  BY <1>2, <2>2
<1>9. ASSUME NEW b \in Block  PROVE Lies(b, u)
  <2>1. PICK i \in 1 .. L : o[i] = b  BY <1>5 DEF Lies, L, o
  <2> QED  BY <1>3, <1>7, <2>1 DEF Lies
<1>10. ASSUME LoopsHaveHeads  PROVE InOrder(u)
  <2> SUFFICES ASSUME NEW p \in Runs, NEW n \in 1 .. Len(p) - 1, NEW i \in 1 .. L, u[i] = p[n]
               PROVE  \E j \in i + 1 .. L : u[j] = p[n + 1]
    BY <1>3 DEF InOrder
  <2>1. p[n + 1] \in Range(succs[p[n]])  BY RunIs DEF InputOK
  <2> DEFINE k == (L - i) + 1
  <2>2. k \in 1 .. L /\ o[k] = p[n]  BY <1>3, <1>7
  <2>3. Comes(o, k, p[n + 1])  BY <1>6, <2>1, <2>2
  <2> HIDE DEF k
  <2>4. ~\E q \in Runs : Last(q) = o[k] /\ Lies(p[n + 1], q)
    BY <1>10, <2>2, BackIsNotForward
  <2>5. PICK j \in 1 .. k - 1 : o[j] = p[n + 1]  BY <2>3, <2>4 DEF Comes
  <2>6. j \in 1 .. L /\ (L - j) + 1 \in i + 1 .. L  BY <1>2, <2>2 DEF k
  <2>7. u[(L - j) + 1] = o[j]  BY <1>3, <1>7, <2>6
  <2> QED  BY <2>5, <2>6, <2>7
<1> QED  BY <1>3, <1>8, <1>9, <1>10 DEF u

-----------------------------------------------------------------------------
(***************************************************************************)
(* A value is one place in the heap: what is read from a value that was    *)
(* taken through the same reads is the same instance.                      *)
(***************************************************************************)
Fields(reads) == [i \in 1 .. Len(reads) |-> reads[i].field]
Points(heap, binding, v) ==
    LET via == IF v.root \in DOMAIN Result THEN Result[v.root] ELSE [var |-> v.root, path |-> <<>>]
    IN  Eval(heap, binding[via.var], via.path \o Fields(v.reads))
Spot == DOMAIN Local \cup (Nat \X Nat)
OwnReads(v) == \A i \in 1 .. Len(v.reads) : v.reads[i].field \in Field

LEMMA ConcatIs ==
    ASSUME NEW S, NEW s \in Seq(S), NEW t \in Seq(S)
    PROVE  /\ s \o t \in Seq(S) /\ Len(s \o t) = Len(s) + Len(t) /\ Len(s) \in Nat /\ Len(t) \in Nat
           /\ \A i \in 1 .. Len(s) : (s \o t)[i] = s[i]
           /\ \A i \in 1 .. Len(t) : (s \o t)[Len(s) + i] = t[i]
           /\ \A i \in 1 .. Len(s) + Len(t) :
                 i \in 1 .. Len(s) \/ (i - Len(s) \in 1 .. Len(t) /\ i = Len(s) + (i - Len(s)))
           /\ <<>> \o t = t /\ s \o <<>> = s
<1>1. Len(s) \in Nat /\ Len(t) \in Nat  OBVIOUS
<1>2. s \o t \in Seq(S) /\ Len(s \o t) = Len(s) + Len(t)  BY ConcatProperties
<1>3. \A i \in 1 .. Len(s) + Len(t) : (s \o t)[i] = IF i <= Len(s) THEN s[i] ELSE t[i - Len(s)]
  BY ConcatProperties
<1>4. \A i \in 1 .. Len(s) : (s \o t)[i] = s[i]  BY <1>1, <1>3
<1>5. \A i \in 1 .. Len(t) : (s \o t)[Len(s) + i] = t[i]
  <2> SUFFICES ASSUME NEW i \in 1 .. Len(t)  PROVE (s \o t)[Len(s) + i] = t[i]  OBVIOUS
  <2>1. Len(s) + i \in 1 .. Len(s) + Len(t) /\ ~(Len(s) + i <= Len(s)) /\ (Len(s) + i) - Len(s) = i
    BY <1>1
  <2> QED  BY <1>3, <2>1
<1>6. \A i \in 1 .. Len(s) + Len(t) :
         i \in 1 .. Len(s) \/ (i - Len(s) \in 1 .. Len(t) /\ i = Len(s) + (i - Len(s)))
  BY <1>1
<1>7. <<>> \o t = t /\ s \o <<>> = s  BY ConcatEmptySeq
<1> QED  BY <1>1, <1>2, <1>4, <1>5, <1>6, <1>7

LEMMA SameSeq ==
    ASSUME NEW S, NEW s \in Seq(S), NEW t \in Seq(S), Len(s) = Len(t),
           \A i \in 1 .. Len(s) : s[i] = t[i]
    PROVE  s = t
BY SeqEqual

LEMMA ReadOn ==
    ASSUME NEW a, NEW b, NEW c
    PROVE  [[root |-> a, reads |-> b] EXCEPT !.reads = @ \o c] = [root |-> a, reads |-> b \o c]
<1> DEFINE r == [root |-> a, reads |-> b]
           d == b \o c
<1>1. r.reads \o c = d
  <2>1. r.reads = b  OBVIOUS
  <2> QED  BY <2>1
<1>2. [r EXCEPT !.reads = d] = [root |-> a, reads |-> d]
  <2> HIDE DEF d
  <2> QED  OBVIOUS
<1>3. [r EXCEPT !.reads = @ \o c] = [r EXCEPT !.reads = d]
  <2> HIDE DEF r, d
  <2> QED  BY <1>1, Zenon
<1> HIDE DEF d
<1>4. [r EXCEPT !.reads = @ \o c] = [root |-> a, reads |-> d]
  <2> HIDE DEF r
  <2> QED  BY <1>2, <1>3, Zenon
<1> QED  BY <1>4, Zenon DEF d

LEMMA ReadsIs ==
    ASSUME NEW path \in Seq(Field \cup {"lock"}), NEW at \in Spot
    PROVE  /\ Reads(path, at) \in Seq(Written) /\ Len(Reads(path, at)) = Len(path)
           /\ \A i \in 1 .. Len(path) : Reads(path, at)[i] = [field |-> path[i], at |-> at]
<1> DEFINE r == Reads(path, at)
<1>1. r = [i \in 1 .. Len(path) |-> [field |-> path[i], at |-> at]]  BY DEF Reads
<1>2. Len(path) \in Nat /\ \A i \in 1 .. Len(path) : path[i] \in Field \cup {"lock"}  OBVIOUS
<1>3. \A i \in 1 .. Len(path) : [field |-> path[i], at |-> at] \in Written
  BY <1>2 DEF Written, Spot
<1> HIDE DEF r
<1>4. r \in [1 .. Len(path) -> Written]  BY <1>1, <1>3
<1>5. r \in Seq(Written) /\ Len(r) = Len(path)  BY <1>2, <1>4
<1> QED  BY <1>1, <1>5 DEF r

LEMMA FieldsIs ==
    ASSUME NEW S, NEW reads \in Seq(S), \A i \in 1 .. Len(reads) : reads[i].field \in Field
    PROVE  /\ Fields(reads) \in Seq(Field) /\ Len(Fields(reads)) = Len(reads)
           /\ \A i \in 1 .. Len(reads) : Fields(reads)[i] = reads[i].field
<1> DEFINE f == Fields(reads)
<1>1. f = [i \in 1 .. Len(reads) |-> reads[i].field] /\ Len(reads) \in Nat  BY DEF Fields
<1> HIDE DEF f
<1>2. f \in [1 .. Len(reads) -> Field]  BY <1>1
<1>3. f \in Seq(Field) /\ Len(f) = Len(reads)  BY <1>1, <1>2
<1> QED  BY <1>1, <1>3 DEF f

\* The fields read by a value of two parts.
LEMMA FieldsOfTwo ==
    ASSUME NEW p \in Seq(Field), NEW q \in Seq(Field), NEW a \in Spot, NEW b \in Spot
    PROVE  LET reads == Reads(p, a) \o Reads(q, b)
           IN  /\ reads \in Seq(Written) /\ Fields(reads) = p \o q
               /\ \A i \in 1 .. Len(reads) : reads[i].field \in Field
<1> DEFINE r == Reads(p, a)
           s == Reads(q, b)
           reads == r \o s
           both == p \o q
<1>1. p \in Seq(Field \cup {"lock"}) /\ q \in Seq(Field \cup {"lock"})  OBVIOUS
<1>2. /\ r \in Seq(Written) /\ Len(r) = Len(p) /\ \A i \in 1 .. Len(p) : r[i] = [field |-> p[i], at |-> a]
      /\ s \in Seq(Written) /\ Len(s) = Len(q) /\ \A i \in 1 .. Len(q) : s[i] = [field |-> q[i], at |-> b]
  BY <1>1, ReadsIs
<1> HIDE DEF r, s
<1>3. /\ \A i \in 1 .. Len(p) : r[i].field = p[i] /\ p[i] \in Field
      /\ \A i \in 1 .. Len(q) : s[i].field = q[i] /\ q[i] \in Field
  <2>1. ASSUME NEW i \in 1 .. Len(p)  PROVE r[i].field = p[i] /\ p[i] \in Field
    <3>1. r[i] = [field |-> p[i], at |-> a]  BY <1>2
    <3>2. r[i].field = p[i]  BY <3>1
    <3> QED  BY <3>2
  <2>2. ASSUME NEW i \in 1 .. Len(q)  PROVE s[i].field = q[i] /\ q[i] \in Field
    <3>1. s[i] = [field |-> q[i], at |-> b]  BY <1>2
    <3>2. s[i].field = q[i]  BY <3>1
    <3> QED  BY <3>2
  <2> QED  BY <2>1, <2>2
<1>4. /\ reads \in Seq(Written) /\ Len(reads) = Len(r) + Len(s) /\ Len(r) \in Nat /\ Len(s) \in Nat
      /\ \A i \in 1 .. Len(r) : reads[i] = r[i]
      /\ \A i \in 1 .. Len(s) : reads[Len(r) + i] = s[i]
      /\ \A i \in 1 .. Len(r) + Len(s) :
            i \in 1 .. Len(r) \/ (i - Len(r) \in 1 .. Len(s) /\ i = Len(r) + (i - Len(r)))
  <2>1. r \in Seq(Written) /\ s \in Seq(Written)  BY <1>2
  <2> QED  BY <2>1, ConcatIs
<1>5. /\ both \in Seq(Field) /\ Len(both) = Len(p) + Len(q)
      /\ \A i \in 1 .. Len(p) : both[i] = p[i]
      /\ \A i \in 1 .. Len(q) : both[Len(p) + i] = q[i]
  BY ConcatIs
<1> HIDE DEF reads, both
<1>6. ASSUME NEW i \in 1 .. Len(reads)  PROVE reads[i].field = both[i] /\ both[i] \in Field
  <2>1. i \in 1 .. Len(r) \/ (i - Len(r) \in 1 .. Len(s) /\ i = Len(r) + (i - Len(r)))
    BY <1>4
  <2>2. CASE i \in 1 .. Len(r)
    <3>1. reads[i] = r[i] /\ r[i].field = p[i] /\ both[i] = p[i] /\ p[i] \in Field
      BY <1>2, <1>3, <1>4, <1>5, <2>2
    <3> QED  BY <3>1
  <2>3. CASE i - Len(r) \in 1 .. Len(s) /\ i = Len(r) + (i - Len(r))
    <3> DEFINE k == i - Len(r)
    <3>1. k \in 1 .. Len(q) /\ i = Len(r) + k /\ i = Len(p) + k /\ k \in 1 .. Len(s)  BY <1>2, <2>3
    <3> HIDE DEF k
    <3>2. reads[i] = s[k] /\ s[k].field = q[k] /\ both[i] = q[k] /\ q[k] \in Field
      BY <1>3, <1>4, <1>5, <3>1
    <3> QED  BY <3>2
  <2> QED  BY <2>1, <2>2, <2>3
<1>7. Fields(reads) = both
  <2>1. \A i \in 1 .. Len(reads) : reads[i].field \in Field  BY <1>6
  <2>2. /\ Fields(reads) \in Seq(Field) /\ Len(Fields(reads)) = Len(reads)
        /\ \A i \in 1 .. Len(reads) : Fields(reads)[i] = reads[i].field
    BY <1>4, <2>1, FieldsIs
  <2>3. Len(both) = Len(reads)  BY <1>2, <1>4, <1>5
  <2>4. \A i \in 1 .. Len(Fields(reads)) : Fields(reads)[i] = both[i]  BY <1>6, <2>2
  <2> QED  BY <1>5, <2>2, <2>3, <2>4, SameSeq
<1> QED  BY <1>4, <1>6, <1>7 DEF reads, both, r, s

LEMMA VarIs ==
    ASSUME NEW e \in Expr
    PROVE  /\ e.var \in Var /\ e.path \in Seq(Field)
           /\ e.var \in DOMAIN Local =>
                 /\ Local[e.var] \in Expr /\ Local[e.var].var \in Param /\ Local[e.var].path \in Seq(Field)
                 /\ Local[e.var].var \notin DOMAIN Result /\ Local[e.var].var \in Var
           /\ e.var \in Spot \/ e.var \notin DOMAIN Local
BY HierarchyAssumption DEF Expr, Var, Spot

LEMMA ValueIs ==
    ASSUME NEW e \in Expr, NEW at \in Nat \X Nat
    PROVE  /\ ValueOf(e, at) \in Value /\ OwnReads(ValueOf(e, at))
           /\ \A heap, binding : ObjectOf(heap, binding, e) = Points(heap, binding, ValueOf(e, at))
<1> DEFINE v == ValueOf(e, at)
<1>1. at \in Spot /\ <<>> \in Seq(Field) /\ e.path \in Seq(Field) /\ e.var \in Var  BY VarIs DEF Spot
<1>2. CASE e.var \in DOMAIN Local
  <2> DEFINE l == Local[e.var]
             reads == Reads(l.path, e.var) \o Reads(e.path, at)
  <2>1. l.path \in Seq(Field) /\ l.var \in Var /\ l.var \notin DOMAIN Result /\ e.var \in Spot
    BY <1>2, VarIs DEF Spot
  <2>2. v = [root |-> l.var, reads |-> reads]
    <3>1. Base(e.var) = [root |-> l.var, reads |-> Reads(l.path, e.var)]  BY <1>2 DEF Base
    <3>2. v = [Base(e.var) EXCEPT !.reads = @ \o Reads(e.path, at)]  BY DEF ValueOf
    <3> HIDE DEF v, l
    <3>3. v = [[root |-> l.var, reads |-> Reads(l.path, e.var)] EXCEPT !.reads = @ \o Reads(e.path, at)]
      BY <3>1, <3>2, Zenon
    <3> QED  BY <3>3, ReadOn, Zenon
  <2>3. /\ reads \in Seq(Written) /\ Fields(reads) = l.path \o e.path
        /\ \A i \in 1 .. Len(reads) : reads[i].field \in Field
    BY <1>1, <2>1, FieldsOfTwo
  <2>4. ASSUME NEW heap, NEW binding
        PROVE  ObjectOf(heap, binding, e) = Points(heap, binding, v)
    <3>1. ObjectOf(heap, binding, e) = Eval(heap, binding[l.var], l.path \o e.path)
      BY <1>2 DEF ObjectOf
    <3>2. l.path \o e.path \in Seq(Field)  BY <1>1, <2>1, ConcatIs
    <3>3. <<>> \o Fields(reads) = l.path \o e.path  BY <2>3, <3>2, ConcatIs
    <3> HIDE DEF l, reads, v
    <3>4. v.root = l.var /\ v.reads = reads  BY <2>2
    <3>5. Points(heap, binding, v) = Eval(heap, binding[l.var], <<>> \o Fields(reads))
      BY <2>1, <3>4 DEF Points
    <3> QED  BY <3>1, <3>3, <3>5
  <2> HIDE DEF l, reads, v
  <2>5. v \in Value /\ v.reads = reads  BY <2>1, <2>2, <2>3 DEF Value
  <2> QED  BY <2>3, <2>4, <2>5 DEF OwnReads, v
<1>3. CASE e.var \notin DOMAIN Local
  <2> DEFINE reads == Reads(e.path, at)
             none == Reads(<<>>, at)
  <2>1. reads \in Seq(Written) /\ none \in Seq(Written) /\ Len(none) = 0
    <3>1. e.path \in Seq(Field \cup {"lock"}) /\ <<>> \in Seq(Field \cup {"lock"})  BY <1>1
    <3>2. reads \in Seq(Written) /\ none \in Seq(Written) /\ Len(none) = Len(<<>>)
      BY <1>1, <3>1, ReadsIs
    <3> QED  BY <3>2
  <2>2. none \o reads = reads /\ <<>> \o reads = reads
    <3> HIDE DEF none, reads
    <3>1. none = <<>>  BY <2>1
    <3> QED  BY <2>1, <3>1, ConcatIs
  <2>3. v = [root |-> e.var, reads |-> reads]  BY <1>3, <2>2 DEF ValueOf, Base
  <2>4. <<>> \o e.path = e.path  BY <1>1, ConcatIs
  <2>5. /\ Fields(reads) = e.path
        /\ \A i \in 1 .. Len(reads) : reads[i].field \in Field
    <3>1. /\ Fields(none \o reads) = <<>> \o e.path
          /\ \A i \in 1 .. Len(none \o reads) : (none \o reads)[i].field \in Field
      BY <1>1, FieldsOfTwo
    <3> QED  BY <2>2, <2>4, <3>1
  <2>6. ASSUME NEW heap, NEW binding
        PROVE  ObjectOf(heap, binding, e) = Points(heap, binding, v)
    <3> HIDE DEF v, reads
    <3>1. v.root = e.var /\ v.reads = reads  BY <2>3
    <3>2. CASE e.var \in DOMAIN Result
      <4>1. ObjectOf(heap, binding, e) = Eval(heap, binding[Result[e.var].var], Result[e.var].path \o e.path)
        BY <1>3, <3>2 DEF ObjectOf
      <4>2. Points(heap, binding, v) = Eval(heap, binding[Result[e.var].var], Result[e.var].path \o Fields(reads))
        BY <3>1, <3>2 DEF Points
      <4> QED  BY <2>5, <4>1, <4>2
    <3>3. CASE e.var \notin DOMAIN Result
      <4>1. ObjectOf(heap, binding, e) = Eval(heap, binding[e.var], <<>> \o e.path)
        BY <1>3, <3>3 DEF ObjectOf
      <4>2. Points(heap, binding, v) = Eval(heap, binding[e.var], <<>> \o Fields(reads))
        BY <3>1, <3>3 DEF Points
      <4> QED  BY <2>5, <4>1, <4>2
    <3> QED  BY <3>2, <3>3
  <2> HIDE DEF reads, none, v
  <2>7. v \in Value /\ v.reads = reads  BY <1>1, <2>1, <2>3 DEF Value
  <2> QED  BY <2>5, <2>6, <2>7 DEF OwnReads, v
<1> QED  BY <1>2, <1>3

\* lockOwner takes the lock off the receiver of a promoted method, and off no other.
LEMMA OwnerIs ==
    ASSUME InputOK, NEW e \in Expr, NEW at \in Nat \X Nat
    PROVE  /\ Receiver(e, at) \in Value
           /\ lockedBy # "declared" => LockOwner(Receiver(e, at)) = ValueOf(e, at)
<1> DEFINE v == ValueOf(e, at)
           r == Receiver(e, at)
           one == Reads(<<"lock">>, at)
           reads == v.reads
           more == reads \o one
<1>1. v \in Value /\ OwnReads(v) /\ "lock" \notin Field  BY ValueIs, HierarchyAssumption
<1>2. v = [root |-> v.root, reads |-> reads] /\ reads \in Seq(Written) /\ v.root \in Var
  BY <1>1 DEF Value
<1>3. one \in Seq(Written) /\ Len(one) = 1 /\ one[1] = [field |-> "lock", at |-> at]
  <2>1. <<"lock">> \in Seq(Field \cup {"lock"}) /\ Len(<<"lock">>) = 1 /\ <<"lock">>[1] = "lock"  OBVIOUS
  <2>2. at \in Spot  BY DEF Spot
  <2> QED  BY <2>1, <2>2, ReadsIs
<1>4. CASE lockedBy = "field"
  <2>1. r = [v EXCEPT !.reads = more]  BY <1>4 DEF Receiver
  <2> HIDE DEF r, v, one
  <2>2. r = [root |-> v.root, reads |-> more]  BY <1>2, <2>1
  <2> HIDE DEF reads
  <2>3. /\ more \in Seq(Written) /\ Len(more) = Len(reads) + 1 /\ Len(reads) \in Nat
        /\ more[Len(reads) + 1] = one[1] /\ \A i \in 1 .. Len(reads) : more[i] = reads[i]
    <3>1. reads \in Seq(Written) /\ one \in Seq(Written) /\ Len(one) = 1 /\ 1 \in 1 .. Len(one)
      BY <1>2, <1>3
    <3> HIDE DEF one, reads
    <3>2. /\ reads \o one \in Seq(Written) /\ Len(reads \o one) = Len(reads) + Len(one)
          /\ Len(reads) \in Nat /\ \A i \in 1 .. Len(reads) : (reads \o one)[i] = reads[i]
          /\ \A i \in 1 .. Len(one) : (reads \o one)[Len(reads) + i] = one[i]
      <4>1. reads \in Seq(Written) /\ one \in Seq(Written)  BY <3>1
      <4> HIDE DEF more
      <4> QED  BY <4>1, ConcatIs
    <3>3. (reads \o one)[Len(reads) + 1] = one[1]  BY <3>1, <3>2
    <3> QED  BY <3>1, <3>2, <3>3
  <2> HIDE DEF more
  <2>4. r \in Value /\ r.reads = more  BY <1>2, <2>2, <2>3 DEF Value
  <2>5. more # <<>> /\ Last(more).field = "lock"  BY <1>3, <2>3 DEF Last
  <2>6. Front(more) = reads
    <3>1. /\ Front(more) \in Seq(Written) /\ Len(Front(more)) = Len(reads)
          /\ \A i \in 1 .. Len(reads) : Front(more)[i] = more[i]
      <4>1. Len(more) - 1 = Len(reads) /\ Len(more) > 0  BY <2>3
      <4> QED  BY <2>3, <4>1, FrontIs
    <3> QED  BY <1>2, <2>3, <3>1, SameSeq
  <2>7. LockOwner(r) = [r EXCEPT !.reads = Front(@)]  BY <2>4, <2>5 DEF LockOwner, IsLockField
  <2>8. LockOwner(r) = v
    <3>1. LockOwner(r) = [root |-> v.root, reads |-> Front(more)]  BY <2>2, <2>7
    <3> QED  BY <1>2, <2>6, <3>1
  <2> QED  BY <2>4, <2>8 DEF r, v
<1>5. CASE lockedBy # "field"
  <2>1. r = v  BY <1>5 DEF Receiver
  <2>2. lockedBy # "declared" => LockOwner(v) = v
    <3> HIDE DEF v
    <3> SUFFICES ASSUME lockedBy # "declared"  PROVE LockOwner(v) = v  OBVIOUS
    <3>1. CASE v.reads = <<>>  BY <3>1 DEF LockOwner
    <3>2. CASE v.reads # <<>>
      <4>1. Len(v.reads) \in 1 .. Len(v.reads)  BY <1>2, <3>2
      <4>2. Last(v.reads).field \in Field  BY <1>1, <4>1 DEF Last, OwnReads
      <4>3. ~IsLockField(Last(v.reads).field)  BY <1>1, <4>2 DEF IsLockField
      <4> QED  BY <4>3 DEF LockOwner
    <3> QED  BY <3>1, <3>2
  <2> QED  BY <1>1, <2>1, <2>2
<1> QED  BY <1>4, <1>5

-----------------------------------------------------------------------------
(***************************************************************************)
(* One call, in the walk and in a run: the walk holds the value of each    *)
(* lock that the run holds, and reports the climb that the run makes.      *)
(***************************************************************************)
Placed == {at \in Block \X Nat : at[2] \in 1 .. Len(code[at[1]])}
Walker == [state : State, found : SUBSET (Nat \X Nat)]
Thing == {ObjectOf(heap, binding, e) : heap \in Heaps, binding \in Bindings, e \in Expr}
LockedThing == [object : Thing, value : Value]
ClimbAt == [at : Nat \X Nat, value : Value, below : Value]
RunOf == [held : SUBSET LockedThing, climbs : SUBSET ClimbAt, later : Seq(Placed),
          twice : BOOLEAN, elsewhere : BOOLEAN, crashed : BOOLEAN]

Covers(held, r) == \A x \in r.held : \E w \in held : LockOwner(w) = x.value
Sound(heap, binding, r) == \A x \in r.held : x.object = Points(heap, binding, x.value)
Due(c) == ReadUp(c) /\ (At(c.at).deferred => DefersAgree)
Told(r, found) == \A c \in r.climbs : Due(c) => c.at \in found
Follows(heap, binding, w, r) ==
    /\ w \in Walker /\ r \in RunOf /\ Sound(heap, binding, r)
    /\ ~r.crashed => Covers(w.state.held, r)
    /\ Told(r, w.found)
    /\ \A n \in 1 .. Len(r.later) : At(r.later[n]).deferred
Alike(deferred, later) ==
    /\ Len(deferred) = Len(later)
    /\ \A n \in 1 .. Len(later) : deferred[n] = Call(At(later[n]), later[n])
Kept == InputOK /\ EdgeField(struct) = Parent /\ lockedBy # "declared"

LEMMA InstrIs ==
    ASSUME NEW i \in Instr
    PROVE  /\ i.op \in {"lock", "unlock"} /\ i.of \in Expr /\ i.deferred \in BOOLEAN
BY HierarchyAssumption

LEMMA PlacedIs ==
    ASSUME InputOK
    PROVE  /\ \A at \in Placed : at \in Nat \X Nat /\ At(at) \in Instr
           /\ \A b \in Block : \A n \in 1 .. Len(code[b]) : <<b, n>> \in Placed /\ At(<<b, n>>) = code[b][n]
<1>1. Block \subseteq Nat /\ code \in [Block -> Seq(Instr)]  BY GraphIs DEF InputOK
<1>2. ASSUME NEW at \in Placed  PROVE at \in Nat \X Nat /\ At(at) \in Instr
  <2>1. at \in Block \X Nat /\ at[1] \in Block /\ at[2] \in 1 .. Len(code[at[1]])  BY DEF Placed
  <2>2. code[at[1]] \in Seq(Instr)  BY <1>1, <2>1
  <2>3. code[at[1]][at[2]] \in Instr  BY <2>1, <2>2
  <2> QED  BY <1>1, <2>1, <2>3 DEF At
<1>3. ASSUME NEW b \in Block, NEW n \in 1 .. Len(code[b])
      PROVE  <<b, n>> \in Placed /\ At(<<b, n>>) = code[b][n]
  BY DEF Placed, At
<1> QED  BY <1>2, <1>3

LEMMA CallIs ==
    ASSUME InputOK, NEW i \in Instr, NEW at \in Nat \X Nat
    PROVE  /\ Call(i, at) \in CallOn /\ Call(i, at).op = i.op /\ Call(i, at).at = at
           /\ Call(i, at).receiver = Receiver(i.of, at)
<1>1. i.op \in {"lock", "unlock"} /\ i.of \in Expr  BY InstrIs
<1>2. Receiver(i.of, at) \in Value  BY <1>1, OwnerIs
<1> QED  BY <1>1, <1>2 DEF Call, CallOn

LEMMA WalkerIs ==
    ASSUME NEW w \in Walker
    PROVE  /\ w.state \in State /\ w.state.held \in SUBSET Value /\ w.state.deferred \in Seq(CallOn)
           /\ w.found \in SUBSET (Nat \X Nat)
           /\ w = [state |-> [held |-> w.state.held, deferred |-> w.state.deferred], found |-> w.found]
BY DEF Walker, State

LEMMA MakeWalker ==
    ASSUME NEW held \in SUBSET Value, NEW deferred \in Seq(CallOn), NEW found \in SUBSET (Nat \X Nat)
    PROVE  [state |-> [held |-> held, deferred |-> deferred], found |-> found] \in Walker
BY DEF Walker, State

LEMMA VisitCallIs ==
    ASSUME NEW w \in Walker, NEW c \in CallOn
    PROVE  /\ Visit(w, c) \in Walker /\ Visit(w, c).state.deferred = w.state.deferred
           /\ c.op = "unlock" => /\ Visit(w, c).state.held = w.state.held \ {c.receiver}
                                 /\ Visit(w, c).found = w.found
           /\ c.op = "lock" => /\ Visit(w, c).state.held = w.state.held \cup {c.receiver}
                               /\ Visit(w, c).found = w.found \cup
                                     IF Climbs(c.receiver, w.state.held) THEN {c.at} ELSE {}
           /\ w.found \subseteq Visit(w, c).found
<1>1. c.op \in {"lock", "unlock"} /\ c.receiver \in Value /\ c.at \in Nat \X Nat  BY DEF CallOn
<1> DEFINE h == w.state.held
           d == w.state.deferred
           g == w.found
           more == IF Climbs(c.receiver, w.state.held) THEN {c.at} ELSE {}
           v == Visit(w, c)
<1>2. h \in SUBSET Value /\ d \in Seq(CallOn) /\ g \in SUBSET (Nat \X Nat)
      /\ w = [state |-> [held |-> h, deferred |-> d], found |-> g]
  BY WalkerIs
<1>3. more \in SUBSET (Nat \X Nat)  BY <1>1
<1>4. CASE c.op = "unlock"
  <2>1. v = [w EXCEPT !.state.held = @ \ {c.receiver}]  BY <1>4 DEF Visit
  <2> HIDE DEF v, h, d, g
  <2>2. v = [state |-> [held |-> h \ {c.receiver}, deferred |-> d], found |-> g]
    <3> DEFINE k == h \ {c.receiver}
    <3>1. v = [w EXCEPT !.state.held = k]  BY <2>1 DEF h
    <3> HIDE DEF k
    <3>2. v = [state |-> [held |-> k, deferred |-> d], found |-> g]  BY <1>2, <3>1
    <3> QED  BY <3>2 DEF k
  <2>3. v \in Walker  BY <1>2, <2>2, MakeWalker
  <2> QED  BY <1>4, <2>2, <2>3 DEF v, h, d, g
<1>5. CASE c.op # "unlock"
  <2>1. v = [w EXCEPT !.state.held = @ \cup {c.receiver}, !.found = @ \cup more]
    BY <1>5 DEF Visit
  <2>2. c.op = "lock"  BY <1>1, <1>5
  <2> HIDE DEF v, h, d, g, more
  <2>3. v = [state |-> [held |-> h \cup {c.receiver}, deferred |-> d], found |-> g \cup more]
    <3> DEFINE k == h \cup {c.receiver}
               f == g \cup more
    <3>1. v = [w EXCEPT !.state.held = k, !.found = f]  BY <2>1 DEF h, g
    <3> HIDE DEF k, f
    <3>2. v = [state |-> [held |-> k, deferred |-> d], found |-> f]  BY <1>2, <3>1
    <3> QED  BY <3>2 DEF k, f
  <2>4. h \cup {c.receiver} \in SUBSET Value /\ g \cup more \in SUBSET (Nat \X Nat)  BY <1>1, <1>2, <1>3
  <2>5. v \in Walker  BY <1>2, <2>3, <2>4, MakeWalker
  <2> QED  BY <2>2, <2>3, <2>5 DEF v, h, d, g, more
<1> QED  BY <1>4, <1>5

LEMMA InstructionIs ==
    ASSUME InputOK, NEW w \in Walker, NEW i \in Instr, NEW at \in Nat \X Nat
    PROVE  LET v == Instruction(w, i, at)
           IN  /\ v \in Walker /\ w.found \subseteq v.found
               /\ ~i.deferred => v = Visit(w, Call(i, at)) /\ v.state.deferred = w.state.deferred
               /\ i.deferred => /\ v.state.held = w.state.held /\ v.found = w.found
                                /\ v.state.deferred = Append(w.state.deferred, Call(i, at))
<1>1. Call(i, at) \in CallOn  BY CallIs
<1>2. CASE ~i.deferred
  <2>1. Instruction(w, i, at) = Visit(w, Call(i, at))  BY <1>2 DEF Instruction
  <2> QED  BY <1>1, <1>2, <2>1, VisitCallIs
<1>3. CASE i.deferred
  <2> DEFINE h == w.state.held
             d == w.state.deferred
             g == w.found
             c == Call(i, at)
             v == Instruction(w, i, at)
  <2>1. h \in SUBSET Value /\ d \in Seq(CallOn) /\ g \in SUBSET (Nat \X Nat)
        /\ w = [state |-> [held |-> h, deferred |-> d], found |-> g]
    BY WalkerIs
  <2>2. v = [w EXCEPT !.state.deferred = Append(@, c)]  BY <1>3 DEF Instruction
  <2> HIDE DEF v, h, d, g, c
  <2>3. Append(d, c) \in Seq(CallOn)  BY <1>1, <2>1, AppendProperties DEF c
  <2>4. v = [state |-> [held |-> h, deferred |-> Append(d, c)], found |-> g]
    <3>1. v = [w EXCEPT !.state = [@ EXCEPT !.deferred = Append(d, c)]]  BY <2>2 DEF d
    <3> DEFINE e == Append(d, c)
    <3> HIDE DEF e
    <3>2. v = [w EXCEPT !.state = [@ EXCEPT !.deferred = e]]  BY <3>1 DEF e
    <3>3. v = [state |-> [held |-> h, deferred |-> e], found |-> g]  BY <2>1, <3>2
    <3> QED  BY <3>3 DEF e
  <2>5. v \in Walker  BY <2>1, <2>3, <2>4, MakeWalker
  <2>6. v.state.held = h /\ v.found = g /\ v.state.deferred = Append(d, c)
    <3> DEFINE e == Append(d, c)
    <3> HIDE DEF e
    <3>1. v = [state |-> [held |-> h, deferred |-> e], found |-> g]  BY <2>4 DEF e
    <3>2. v.state.held = h /\ v.found = g /\ v.state.deferred = e  BY <3>1
    <3> QED  BY <3>2 DEF e
  <2> QED  BY <1>3, <2>5, <2>6 DEF v, h, d, g, c
<1> QED  BY <1>2, <1>3

LEMMA RunOfIs ==
    ASSUME NEW r \in RunOf
    PROVE  /\ r.held \in SUBSET LockedThing /\ r.climbs \in SUBSET ClimbAt /\ r.later \in Seq(Placed)
           /\ r.twice \in BOOLEAN /\ r.elsewhere \in BOOLEAN /\ r.crashed \in BOOLEAN
           /\ r = [held |-> r.held, climbs |-> r.climbs, later |-> r.later,
                   twice |-> r.twice, elsewhere |-> r.elsewhere, crashed |-> r.crashed]
BY DEF RunOf

LEMMA MakeRun ==
    ASSUME NEW held \in SUBSET LockedThing, NEW climbs \in SUBSET ClimbAt, NEW later \in Seq(Placed),
           NEW twice \in BOOLEAN, NEW elsewhere \in BOOLEAN, NEW crashed \in BOOLEAN
    PROVE  [held |-> held, climbs |-> climbs, later |-> later,
            twice |-> twice, elsewhere |-> elsewhere, crashed |-> crashed] \in RunOf
BY DEF RunOf

NewClimbs(heap, r, o, v, at) == {[at |-> at, value |-> v, below |-> h.value] :
                                    h \in {x \in r.held : o \in Above(heap, x.object)}}

LEMMA LockedIs ==
    ASSUME NEW r \in RunOf, NEW heap, NEW o \in Thing, NEW v \in Value, NEW at \in Nat \X Nat
    PROVE  LET s == Locked(r, heap, o, v, at)
           IN  /\ s \in RunOf /\ s.later = r.later /\ s.crashed = r.crashed
               /\ s.held = r.held \cup {[object |-> o, value |-> v]}
               /\ s.climbs = r.climbs \cup NewClimbs(heap, r, o, v, at)
<1> DEFINE s == Locked(r, heap, o, v, at)
           held == r.held \cup {[object |-> o, value |-> v]}
           new == NewClimbs(heap, r, o, v, at)
           climbs == r.climbs \cup new
           twice == r.twice \/ \E h \in r.held : h.object = o
<1>1. /\ r.held \in SUBSET LockedThing /\ r.climbs \in SUBSET ClimbAt /\ r.later \in Seq(Placed)
      /\ r.elsewhere \in BOOLEAN /\ r.crashed \in BOOLEAN
  BY RunOfIs
<1>2. held \in SUBSET LockedThing
  <2>1. [object |-> o, value |-> v] \in LockedThing  BY DEF LockedThing
  <2> QED  BY <1>1, <2>1
<1>3. climbs \in SUBSET ClimbAt
  <2>1. ASSUME NEW h \in r.held  PROVE [at |-> at, value |-> v, below |-> h.value] \in ClimbAt
    <3>1. h.value \in Value  BY <1>1 DEF LockedThing
    <3> QED  BY <3>1 DEF ClimbAt
  <2>2. new \subseteq ClimbAt  BY <2>1 DEF NewClimbs
  <2> HIDE DEF new
  <2> QED  BY <1>1, <2>2
<1>4. twice \in BOOLEAN  OBVIOUS
<1>5. s = [r EXCEPT !.held = held, !.twice = twice, !.climbs = climbs]  BY DEF Locked, NewClimbs
<1> HIDE DEF s, held, climbs, new, twice
<1>6. s = [held |-> held, climbs |-> climbs, later |-> r.later,
           twice |-> twice, elsewhere |-> r.elsewhere, crashed |-> r.crashed]
  <2>1. r = [held |-> r.held, climbs |-> r.climbs, later |-> r.later,
             twice |-> r.twice, elsewhere |-> r.elsewhere, crashed |-> r.crashed]
    BY RunOfIs
  <2> QED  BY <1>5, <2>1
<1>7. s \in RunOf  BY <1>1, <1>2, <1>3, <1>4, <1>6, MakeRun
<1>8. s.later = r.later /\ s.crashed = r.crashed /\ s.held = held /\ s.climbs = climbs
  BY <1>6
<1> QED  BY <1>7, <1>8 DEF s, held, climbs, new

LEMMA UnlockedIs ==
    ASSUME NEW r \in RunOf, NEW o, NEW v
    PROVE  LET s == Unlocked(r, o, v)
           IN  /\ s \in RunOf /\ s.later = r.later /\ s.crashed = r.crashed
               /\ s.held = {h \in r.held : h.object # o} /\ s.climbs = r.climbs
<1> DEFINE s == Unlocked(r, o, v)
           held == {h \in r.held : h.object # o}
           elsewhere == r.elsewhere \/ \E h \in r.held : h.object = o /\ h.value # v
<1>1. /\ r.held \in SUBSET LockedThing /\ r.climbs \in SUBSET ClimbAt /\ r.later \in Seq(Placed)
      /\ r.twice \in BOOLEAN /\ r.crashed \in BOOLEAN
  BY RunOfIs
<1>2. held \in SUBSET LockedThing  BY <1>1
<1>3. elsewhere \in BOOLEAN  OBVIOUS
<1>4. s = [r EXCEPT !.held = held, !.elsewhere = elsewhere]  BY DEF Unlocked
<1> HIDE DEF s, held, elsewhere
<1>5. s = [held |-> held, climbs |-> r.climbs, later |-> r.later,
           twice |-> r.twice, elsewhere |-> elsewhere, crashed |-> r.crashed]
  <2>1. r = [held |-> r.held, climbs |-> r.climbs, later |-> r.later,
             twice |-> r.twice, elsewhere |-> r.elsewhere, crashed |-> r.crashed]
    BY RunOfIs
  <2> QED  BY <1>4, <2>1
<1>6. s \in RunOf  BY <1>1, <1>2, <1>3, <1>5, MakeRun
<1>7. s.later = r.later /\ s.crashed = r.crashed /\ s.held = held /\ s.climbs = r.climbs
  BY <1>5
<1> QED  BY <1>6, <1>7 DEF s, held

LEMMA CrashedIs ==
    ASSUME NEW r \in RunOf
    PROVE  LET s == [r EXCEPT !.crashed = TRUE]
           IN  /\ s \in RunOf /\ s.later = r.later /\ s.crashed
               /\ s.held = r.held /\ s.climbs = r.climbs
<1> DEFINE s == [r EXCEPT !.crashed = TRUE]
<1>1. s = [held |-> r.held, climbs |-> r.climbs, later |-> r.later,
           twice |-> r.twice, elsewhere |-> r.elsewhere, crashed |-> TRUE]
  <2>1. r = [held |-> r.held, climbs |-> r.climbs, later |-> r.later,
             twice |-> r.twice, elsewhere |-> r.elsewhere, crashed |-> r.crashed]
    BY RunOfIs
  <2>2. s = [r EXCEPT !.crashed = TRUE]  OBVIOUS
  <2> HIDE DEF s
  <2> QED  BY <2>1, <2>2
<1> HIDE DEF s
<1>2. s \in RunOf  BY <1>1, RunOfIs, MakeRun
<1>3. s.later = r.later /\ s.crashed /\ s.held = r.held /\ s.climbs = r.climbs  BY <1>1
<1> QED  BY <1>2, <1>3 DEF s

LEMMA ExecuteIs ==
    ASSUME InputOK, NEW heap \in Heaps, NEW binding \in Bindings, NEW r \in RunOf, NEW at \in Placed
    PROVE  LET i == At(at)
               o == ObjectOf(heap, binding, i.of)
               v == ValueOf(i.of, at)
               s == Execute(heap, binding, r, at)
           IN  /\ s \in RunOf /\ s.later = r.later /\ o = Points(heap, binding, v)
               /\ s.crashed => s.held = r.held /\ s.climbs = r.climbs
               /\ ~s.crashed => ~r.crashed
               /\ ~s.crashed /\ i.op = "lock" =>
                     /\ s.held = r.held \cup {[object |-> o, value |-> v]}
                     /\ s.climbs = r.climbs \cup NewClimbs(heap, r, o, v, at)
               /\ ~s.crashed /\ i.op = "unlock" =>
                     s.held = {h \in r.held : h.object # o} /\ s.climbs = r.climbs
<1> DEFINE i == At(at)
           o == ObjectOf(heap, binding, i.of)
           v == ValueOf(i.of, at)
           s == Execute(heap, binding, r, at)
<1>1. at \in Nat \X Nat /\ i \in Instr  BY PlacedIs
<1>2. i.op \in {"lock", "unlock"} /\ i.of \in Expr  BY <1>1, InstrIs
<1>3. v \in Value /\ o = Points(heap, binding, v)  BY <1>1, <1>2, ValueIs
<1>4. o \in Thing  BY <1>2 DEF Thing
<1>5. s = IF r.crashed \/ o = None THEN [r EXCEPT !.crashed = TRUE]
          ELSE IF i.op = "lock" THEN Locked(r, heap, o, v, at) ELSE Unlocked(r, o, v)
  BY DEF Execute
<1> HIDE DEF i, o, v, s
<1>6. CASE r.crashed \/ o = None
  <2>1. s = [r EXCEPT !.crashed = TRUE]  BY <1>5, <1>6
  <2>2. s \in RunOf /\ s.later = r.later /\ s.crashed /\ s.held = r.held /\ s.climbs = r.climbs
    BY <2>1, CrashedIs
  <2> QED  BY <1>3, <2>2 DEF i, o, v, s
<1>7. CASE ~(r.crashed \/ o = None) /\ i.op = "lock"
  <2>1. s = Locked(r, heap, o, v, at)  BY <1>5, <1>7
  <2>2. /\ s \in RunOf /\ s.later = r.later /\ s.crashed = r.crashed
        /\ s.held = r.held \cup {[object |-> o, value |-> v]}
        /\ s.climbs = r.climbs \cup NewClimbs(heap, r, o, v, at)
    <3>1. o \in Thing /\ v \in Value /\ at \in Nat \X Nat /\ r \in RunOf  BY <1>1, <1>3, <1>4
    <3> DEFINE t == Locked(r, heap, o, v, at)
    <3>2. /\ t \in RunOf /\ t.later = r.later /\ t.crashed = r.crashed
          /\ t.held = r.held \cup {[object |-> o, value |-> v]}
          /\ t.climbs = r.climbs \cup NewClimbs(heap, r, o, v, at)
      BY <3>1, LockedIs
    <3> HIDE DEF t
    <3>3. s = t  BY <2>1 DEF t
    <3> QED  BY <3>2, <3>3
  <2> QED  BY <1>3, <1>7, <2>2 DEF i, o, v, s
<1>8. CASE ~(r.crashed \/ o = None) /\ i.op # "lock"
  <2>1. s = Unlocked(r, o, v)  BY <1>5, <1>8
  <2>2. /\ s \in RunOf /\ s.later = r.later /\ s.crashed = r.crashed
        /\ s.held = {h \in r.held : h.object # o} /\ s.climbs = r.climbs
    BY <2>1, UnlockedIs
  <2> QED  BY <1>3, <1>8, <2>2 DEF i, o, v, s
<1> QED  BY <1>6, <1>7, <1>8

\* A climb through the parent from a value that the walk holds is one it reports.
LEMMA ClimbIsSeen ==
    ASSUME Kept, NEW held, NEW w \in held, NEW a \in Value, NEW c,
           c.value = LockOwner(a), c.below = LockOwner(w), ReadUp(c)
    PROVE  Climbs(a, held)
<1>1. EdgeField(struct) = Parent /\ Parent # None  BY HierarchyAssumption DEF Kept
<1>2. LockOwner(w) # LockOwner(a)
  <2>1. c.below.reads # c.value.reads  BY DEF ReadUp, IsStrictPrefix
  <2> QED  BY <2>1
<1>3. DerivesFromParent(LockOwner(a), LockOwner(w))
  BY <1>1 DEF ReadUp, DerivesFromParent
<1> QED  BY <1>1, <1>2, <1>3 DEF Climbs

LEMMA ToldStays ==
    ASSUME NEW r, NEW s, NEW found, NEW more, Told(r, found), s.climbs = r.climbs, found \subseteq more
    PROVE  Told(s, more)
BY DEF Told

LEMMA ExecuteFollows ==
    ASSUME Kept, NEW heap \in Heaps, NEW binding \in Bindings, NEW w, NEW r,
           Follows(heap, binding, w, r), NEW at \in Placed
    PROVE  LET v == Visit(w, Call(At(at), at))
               s == Execute(heap, binding, r, at)
           IN  /\ Follows(heap, binding, v, s) /\ s.later = r.later
               /\ v.state.deferred = w.state.deferred /\ w.found \subseteq v.found
<1> DEFINE i == At(at)
           c == Call(i, at)
           a == Receiver(i.of, at)
           x == ValueOf(i.of, at)
           o == ObjectOf(heap, binding, i.of)
           v == Visit(w, c)
           s == Execute(heap, binding, r, at)
           new == NewClimbs(heap, r, o, x, at)
<1>1. InputOK /\ lockedBy # "declared" /\ w \in Walker /\ r \in RunOf  BY DEF Kept, Follows
<1>2. i \in Instr /\ at \in Nat \X Nat  BY <1>1, PlacedIs
<1>3. i.op \in {"lock", "unlock"} /\ i.of \in Expr  BY <1>2, InstrIs
<1>4. c \in CallOn /\ c.op = i.op /\ c.at = at /\ c.receiver = a  BY <1>1, <1>2, CallIs
<1>5. a \in Value /\ LockOwner(a) = x  BY <1>1, <1>2, <1>3, OwnerIs
<1>6. /\ v \in Walker /\ v.state.deferred = w.state.deferred
      /\ c.op = "unlock" => v.state.held = w.state.held \ {c.receiver} /\ v.found = w.found
      /\ c.op = "lock" => /\ v.state.held = w.state.held \cup {c.receiver}
                          /\ v.found = w.found \cup
                                IF Climbs(c.receiver, w.state.held) THEN {c.at} ELSE {}
      /\ w.found \subseteq v.found
  BY <1>1, <1>4, VisitCallIs
<1>7. /\ s \in RunOf /\ s.later = r.later /\ o = Points(heap, binding, x)
      /\ s.crashed => s.held = r.held /\ s.climbs = r.climbs
      /\ ~s.crashed => ~r.crashed
      /\ ~s.crashed /\ i.op = "lock" =>
            s.held = r.held \cup {[object |-> o, value |-> x]} /\ s.climbs = r.climbs \cup new
      /\ ~s.crashed /\ i.op = "unlock" =>
            s.held = {h \in r.held : h.object # o} /\ s.climbs = r.climbs
  BY <1>1, ExecuteIs
<1>8. /\ Sound(heap, binding, r) /\ (~r.crashed => Covers(w.state.held, r)) /\ Told(r, w.found)
      /\ \A n \in 1 .. Len(r.later) : At(r.later[n]).deferred
  BY DEF Follows
<1> HIDE DEF v, s, c, a, x, o, new
<1>9. Sound(heap, binding, s)
  <2>1. CASE s.crashed  BY <1>7, <1>8, <2>1 DEF Sound
  <2>2. CASE ~s.crashed /\ i.op = "lock"
    <3>1. \A h \in s.held : h \in r.held \/ h = [object |-> o, value |-> x]  BY <1>7, <2>2
    <3> QED  BY <1>7, <1>8, <3>1 DEF Sound
  <2>3. CASE ~s.crashed /\ i.op = "unlock"
    <3>1. s.held \subseteq r.held  BY <1>7, <2>3
    <3> QED  BY <1>8, <3>1 DEF Sound
  <2> QED  BY <1>3, <2>1, <2>2, <2>3
<1>10. ASSUME ~s.crashed  PROVE Covers(v.state.held, s)
  <2>1. Covers(w.state.held, r)  BY <1>7, <1>8, <1>10
  <2>2. CASE i.op = "lock"
    <3>1. v.state.held = w.state.held \cup {a}  BY <1>4, <1>6, <2>2
    <3>2. \A h \in s.held : h \in r.held \/ h.value = x  BY <1>7, <1>10, <2>2
    <3> QED  BY <1>5, <2>1, <3>1, <3>2 DEF Covers
  <2>3. CASE i.op = "unlock"
    <3>1. v.state.held = w.state.held \ {a}  BY <1>4, <1>6, <2>3
    <3>2. ASSUME NEW h \in s.held  PROVE \E y \in v.state.held : LockOwner(y) = h.value
      <4>1. h \in r.held /\ h.object # o  BY <1>7, <1>10, <2>3
      <4>2. PICK y \in w.state.held : LockOwner(y) = h.value  BY <2>1, <4>1 DEF Covers
      <4>3. h.value # x  BY <1>7, <1>8, <4>1 DEF Sound
      <4>4. y # a  BY <1>5, <4>2, <4>3
      <4> QED  BY <3>1, <4>2, <4>4
    <3> QED  BY <3>2 DEF Covers
  <2> QED  BY <1>3, <2>2, <2>3
<1>11. Told(s, v.found)
  <2>1. CASE s.climbs = r.climbs  BY <1>6, <1>8, <2>1, ToldStays
  <2>2. CASE s.climbs # r.climbs
    <3>1. ~s.crashed /\ i.op = "lock" /\ s.climbs = r.climbs \cup new  BY <1>3, <1>7, <2>2
    <3>2. Covers(w.state.held, r)  BY <1>7, <1>8, <3>1
    <3> SUFFICES ASSUME NEW d \in s.climbs, Due(d)  PROVE d.at \in v.found
      BY DEF Told
    <3>3. CASE d \in r.climbs
      <4>1. d.at \in w.found  BY <1>8, <3>3 DEF Told
      <4> QED  BY <1>6, <4>1
    <3>4. CASE d \in new
      <4>1. PICK h \in r.held : d = [at |-> at, value |-> x, below |-> h.value]
        BY <3>4 DEF new, NewClimbs
      <4>2. PICK y \in w.state.held : LockOwner(y) = h.value  BY <3>2 DEF Covers
      <4>3. d.at = at /\ d.value = x /\ d.below = h.value  BY <4>1
      <4>4. ReadUp(d)  BY DEF Due
      <4>5. Climbs(a, w.state.held)  BY <1>5, <4>2, <4>3, <4>4, ClimbIsSeen
      <4>6. v.found = w.found \cup {at}  BY <1>4, <1>6, <3>1, <4>5
      <4> QED  BY <4>3, <4>6
    <3> QED  BY <3>1, <3>3, <3>4
  <2> QED  BY <2>1, <2>2
<1>12. \A n \in 1 .. Len(s.later) : At(s.later[n]).deferred  BY <1>7, <1>8
<1>13. Follows(heap, binding, v, s)  BY <1>6, <1>7, <1>9, <1>10, <1>11, <1>12 DEF Follows
<1> QED  BY <1>6, <1>7, <1>13 DEF v, s, c, i

\* Where the paths that meet defer different calls, a deferred call owes no report.
LEMMA ExecuteOwesNothing ==
    ASSUME InputOK, NEW heap \in Heaps, NEW binding \in Bindings, NEW r \in RunOf, NEW found,
           Told(r, found), NEW at \in Placed, At(at).deferred, ~DefersAgree
    PROVE  Told(Execute(heap, binding, r, at), found)
<1> DEFINE i == At(at)
           x == ValueOf(i.of, at)
           o == ObjectOf(heap, binding, i.of)
           s == Execute(heap, binding, r, at)
           new == NewClimbs(heap, r, o, x, at)
<1>1. i.op \in {"lock", "unlock"}  BY PlacedIs, InstrIs
<1>2. /\ s.crashed => s.climbs = r.climbs
      /\ ~s.crashed /\ i.op = "lock" => s.climbs = r.climbs \cup new
      /\ ~s.crashed /\ i.op = "unlock" => s.climbs = r.climbs
  BY ExecuteIs
<1> HIDE DEF s, new
<1>3. \A d \in s.climbs : d \in r.climbs \/ d \in new  BY <1>1, <1>2
<1>4. \A d \in new : ~Due(d)
  <2>1. \A d \in new : d.at = at  BY DEF new, NewClimbs
  <2> QED  BY <2>1 DEF Due
<1> QED  BY <1>3, <1>4 DEF Told, s

LEMMA ComeFollows ==
    ASSUME Kept, NEW heap \in Heaps, NEW binding \in Bindings, NEW w, NEW r,
           Follows(heap, binding, w, r), NEW at \in Placed
    PROVE  LET v == Instruction(w, At(at), at)
               s == Come(heap, binding, r, at)
           IN  /\ Follows(heap, binding, v, s) /\ w.found \subseteq v.found
               /\ Alike(w.state.deferred, r.later) => Alike(v.state.deferred, s.later)
<1> DEFINE i == At(at)
           c == Call(i, at)
           v == Instruction(w, i, at)
           s == Come(heap, binding, r, at)
<1>1. InputOK /\ w \in Walker /\ r \in RunOf  BY DEF Kept, Follows
<1>2. i \in Instr /\ at \in Nat \X Nat  BY <1>1, PlacedIs
<1>3. /\ v \in Walker /\ w.found \subseteq v.found
      /\ ~i.deferred => v = Visit(w, c) /\ v.state.deferred = w.state.deferred
      /\ i.deferred => /\ v.state.held = w.state.held /\ v.found = w.found
                       /\ v.state.deferred = Append(w.state.deferred, c)
  BY <1>1, <1>2, InstructionIs
<1>4. CASE ~i.deferred
  <2>1. s = Execute(heap, binding, r, at) /\ v = Visit(w, c)  BY <1>3, <1>4 DEF Come
  <2>2. Follows(heap, binding, v, s) /\ s.later = r.later  BY <2>1, ExecuteFollows
  <2> QED  BY <1>3, <1>4, <2>2
<1>5. CASE i.deferred
  <2>1. s = [r EXCEPT !.later = Append(@, at)]  BY <1>5 DEF Come
  <2> DEFINE later == Append(r.later, at)
  <2>2. /\ later \in Seq(Placed) /\ Len(later) = Len(r.later) + 1 /\ Len(r.later) \in Nat
        /\ later[Len(r.later) + 1] = at /\ (\A n \in 1 .. Len(r.later) : later[n] = r.later[n])
        /\ \A n \in 1 .. Len(later) : n \in 1 .. Len(r.later) \/ n = Len(r.later) + 1
    BY <1>1, RunOfIs, AppendIs
  <2>3. s \in RunOf /\ s.later = later /\ s.held = r.held /\ s.climbs = r.climbs /\ s.crashed = r.crashed
    <3>1. s = [r EXCEPT !.later = later]  BY <2>1
    <3>2. r = [held |-> r.held, climbs |-> r.climbs, later |-> r.later,
               twice |-> r.twice, elsewhere |-> r.elsewhere, crashed |-> r.crashed]
      BY <1>1, RunOfIs
    <3> HIDE DEF s, later
    <3>3. s = [held |-> r.held, climbs |-> r.climbs, later |-> later,
               twice |-> r.twice, elsewhere |-> r.elsewhere, crashed |-> r.crashed]
      BY <3>1, <3>2
    <3>4. s \in RunOf  BY <1>1, <2>2, <3>3, RunOfIs, MakeRun
    <3> QED  BY <3>3, <3>4
  <2> HIDE DEF s, v, c, later
  <2>4. Sound(heap, binding, s) /\ (~s.crashed => Covers(v.state.held, s)) /\ Told(s, v.found)
    BY <1>3, <1>5, <2>3 DEF Follows, Sound, Covers, Told
  <2>5. \A n \in 1 .. Len(s.later) : At(s.later[n]).deferred
    BY <1>5, <2>2, <2>3 DEF Follows
  <2>6. Follows(heap, binding, v, s)  BY <1>3, <2>3, <2>4, <2>5 DEF Follows
  <2>7. ASSUME Alike(w.state.deferred, r.later)  PROVE Alike(v.state.deferred, s.later)
    <3> DEFINE d == w.state.deferred
               e == Append(d, c)
    <3>1. d \in Seq(CallOn) /\ c \in CallOn  BY <1>1, <1>2, WalkerIs, CallIs DEF c
    <3> HIDE DEF d
    <3>2. /\ Len(e) = Len(d) + 1 /\ e[Len(d) + 1] = c
          /\ \A n \in 1 .. Len(d) : e[n] = d[n]
      BY <3>1, AppendIs
    <3> HIDE DEF e
    <3>3. v.state.deferred = e  BY <1>3, <1>5 DEF e, d
    <3>4. Len(d) = Len(r.later) /\ \A n \in 1 .. Len(r.later) : d[n] = Call(At(r.later[n]), r.later[n])
      BY <2>7 DEF Alike, d
    <3>5. Len(e) = Len(later)  BY <2>2, <3>2, <3>4
    <3>6. ASSUME NEW n \in 1 .. Len(later)  PROVE e[n] = Call(At(later[n]), later[n])
      <4>1. CASE n \in 1 .. Len(r.later)  BY <2>2, <3>2, <3>4, <4>1
      <4>2. CASE n = Len(r.later) + 1  BY <2>2, <3>2, <3>4, <4>2 DEF c
      <4> QED  BY <2>2, <4>1, <4>2
    <3> QED  BY <2>3, <3>3, <3>5, <3>6 DEF Alike
  <2> QED  BY <1>3, <2>6, <2>7 DEF s, v
<1> QED  BY <1>4, <1>5

-----------------------------------------------------------------------------
(***************************************************************************)
(* The calls of a block, those deferred, and the blocks of a run, one      *)
(* after the other.                                                        *)
(***************************************************************************)
LEMMA ComeIs ==
    ASSUME InputOK, NEW heap \in Heaps, NEW binding \in Bindings, NEW r \in RunOf, NEW at \in Placed
    PROVE  Come(heap, binding, r, at) \in RunOf
<1> DEFINE s == Come(heap, binding, r, at)
           later == Append(r.later, at)
<1>1. CASE ~At(at).deferred
  <2>1. s = Execute(heap, binding, r, at)  BY <1>1 DEF Come
  <2> QED  BY <2>1, ExecuteIs
<1>2. CASE At(at).deferred
  <2>1. s = [r EXCEPT !.later = later]  BY <1>2 DEF Come
  <2>2. later \in Seq(Placed)  BY RunOfIs, AppendIs
  <2>3. r = [held |-> r.held, climbs |-> r.climbs, later |-> r.later,
             twice |-> r.twice, elsewhere |-> r.elsewhere, crashed |-> r.crashed]
    BY RunOfIs
  <2> HIDE DEF s, later
  <2>4. s = [held |-> r.held, climbs |-> r.climbs, later |-> later,
             twice |-> r.twice, elsewhere |-> r.elsewhere, crashed |-> r.crashed]
    BY <2>1, <2>3
  <2>5. s \in RunOf  BY <2>2, <2>4, RunOfIs, MakeRun
  <2> QED  BY <2>5 DEF s
<1> QED  BY <1>1, <1>2

LEMMA BodyIs ==
    ASSUME InputOK, NEW w \in Walker, NEW b \in Block
    PROVE  \E f \in [0 .. Len(code[b]) -> Walker] :
               /\ f[0] = w
               /\ \A n \in 1 .. Len(code[b]) : f[n] = Instruction(f[n - 1], code[b][n], <<b, n>>)
               /\ Body(b, w) = f[Len(code[b])]
<1> DEFINE N == Len(code[b])
           X == Walker
           Is(f) == f = [n \in 0 .. Len(code[b]) |-> IF n = 0 THEN w ELSE Instruction(f[n - 1], code[b][n], <<b, n>>)]
           f == CHOOSE g : Is(g)
<1>1. N \in Nat /\ 0 \in 0 .. N /\ N \in 0 .. N
      /\ \A n \in 1 .. N : n \in 0 .. N /\ n - 1 \in 0 .. N /\ n # 0
  BY DEF InputOK
<1>2. Body(b, w) = f[N]
  BY DEF Body
<1>3. w \in X
  OBVIOUS
<1>4. ASSUME NEW n \in 1 .. N, NEW x \in X  PROVE Instruction(x, code[b][n], <<b, n>>) \in X
  <2>1. code[b] \in Seq(Instr)  BY DEF InputOK
  <2>2. code[b][n] \in Instr  BY <2>1
  <2>3. <<b, n>> \in Nat \X Nat  BY PlacedIs
  <2> QED  BY <2>2, <2>3, InstructionIs
<1> HIDE DEF X
<1>5. \E g \in [0 .. N -> X] : Is(g)
  <2> DEFINE step == [n \in 1 .. N |-> [x \in X |-> Instruction(x, code[b][n], <<b, n>>)]]
  <2>1. step \in [1 .. N -> [X -> X]]  BY <1>4
  <2>2. \A n \in 1 .. N, x \in X : step[n][x] = Instruction(x, code[b][n], <<b, n>>)  OBVIOUS
  <2> HIDE DEF step, N
  <2>3. HasRun(X, w, N, step)  BY <1>1, <1>3, <2>1, Iterated
  <2>4. PICK g \in [0 .. N -> X] : g[0] = w /\ \A n \in 1 .. N : g[n] = step[n][g[n - 1]]
    BY <2>3 DEF HasRun
  <2>5. \A n \in 1 .. N : g[n] = Instruction(g[n - 1], code[b][n], <<b, n>>)  BY <1>1, <2>2, <2>4
  <2>6. Is(g)
    <3>1. g = [n \in 0 .. N |-> g[n]]  BY <2>4
    <3>2. ASSUME NEW n \in 0 .. N
          PROVE  g[n] = IF n = 0 THEN w ELSE Instruction(g[n - 1], code[b][n], <<b, n>>)
      <4>1. CASE n = 0  BY <2>4, <4>1
      <4>2. CASE n # 0
        <5>1. n \in 1 .. N  BY <1>1, <4>2
        <5> QED  BY <2>5, <4>2, <5>1
      <4> QED  BY <4>1, <4>2
    <3> QED  BY <3>1, <3>2 DEF N
  <2> QED  BY <2>4, <2>6
<1>6. Is(f)  BY <1>5
<1> HIDE DEF f
<1>7. f = [n \in 0 .. N |-> f[n]]  BY <1>6
<1>8. ASSUME NEW n \in 0 .. N
      PROVE  f[n] = IF n = 0 THEN w ELSE Instruction(f[n - 1], code[b][n], <<b, n>>)
  BY <1>6
<1> HIDE DEF Is
<1>9. f[0] = w  BY <1>1, <1>8
<1>10. \A n \in 1 .. N : f[n] = Instruction(f[n - 1], code[b][n], <<b, n>>)  BY <1>1, <1>8
<1>11. f \in [0 .. N -> X]
  <2>1. \A n \in 1 .. N : f[n - 1] \in X => f[n] \in X
    <3> HIDE DEF N
    <3> QED  BY <1>4, <1>10
  <2> HIDE DEF N
  <2>2. f[0] \in X  BY <1>3, <1>9
  <2> QED  BY <1>1, <1>7, <2>1, <2>2, StepsStay
<1> QED  BY <1>2, <1>9, <1>10, <1>11 DEF N, X

LEMMA RunBlockIs ==
    ASSUME InputOK, NEW heap \in Heaps, NEW binding \in Bindings, NEW r \in RunOf, NEW b \in Block
    PROVE  \E f \in [0 .. Len(code[b]) -> RunOf] :
               /\ f[0] = r
               /\ \A n \in 1 .. Len(code[b]) : f[n] = Come(heap, binding, f[n - 1], <<b, n>>)
               /\ RunBlock(heap, binding, r, b) = f[Len(code[b])]
<1> DEFINE N == Len(code[b])
           X == RunOf
           Is(f) == f = [n \in 0 .. Len(code[b]) |-> IF n = 0 THEN r ELSE Come(heap, binding, f[n - 1], <<b, n>>)]
           f == CHOOSE g : Is(g)
<1>1. N \in Nat /\ 0 \in 0 .. N /\ N \in 0 .. N
      /\ \A n \in 1 .. N : n \in 0 .. N /\ n - 1 \in 0 .. N /\ n # 0
  BY DEF InputOK
<1>2. RunBlock(heap, binding, r, b) = f[N]
  BY DEF RunBlock
<1>3. r \in X
  OBVIOUS
<1>4. ASSUME NEW n \in 1 .. N, NEW x \in X  PROVE Come(heap, binding, x, <<b, n>>) \in X
  <2>1. <<b, n>> \in Placed  BY PlacedIs
  <2> QED  BY <2>1, ComeIs
<1> HIDE DEF X
<1>5. \E g \in [0 .. N -> X] : Is(g)
  <2> DEFINE step == [n \in 1 .. N |-> [x \in X |-> Come(heap, binding, x, <<b, n>>)]]
  <2>1. step \in [1 .. N -> [X -> X]]  BY <1>4
  <2>2. \A n \in 1 .. N, x \in X : step[n][x] = Come(heap, binding, x, <<b, n>>)  OBVIOUS
  <2> HIDE DEF step, N
  <2>3. HasRun(X, r, N, step)  BY <1>1, <1>3, <2>1, Iterated
  <2>4. PICK g \in [0 .. N -> X] : g[0] = r /\ \A n \in 1 .. N : g[n] = step[n][g[n - 1]]
    BY <2>3 DEF HasRun
  <2>5. \A n \in 1 .. N : g[n] = Come(heap, binding, g[n - 1], <<b, n>>)  BY <1>1, <2>2, <2>4
  <2>6. Is(g)
    <3>1. g = [n \in 0 .. N |-> g[n]]  BY <2>4
    <3>2. ASSUME NEW n \in 0 .. N
          PROVE  g[n] = IF n = 0 THEN r ELSE Come(heap, binding, g[n - 1], <<b, n>>)
      <4>1. CASE n = 0  BY <2>4, <4>1
      <4>2. CASE n # 0
        <5>1. n \in 1 .. N  BY <1>1, <4>2
        <5> QED  BY <2>5, <4>2, <5>1
      <4> QED  BY <4>1, <4>2
    <3> QED  BY <3>1, <3>2 DEF N
  <2> QED  BY <2>4, <2>6
<1>6. Is(f)  BY <1>5
<1> HIDE DEF f
<1>7. f = [n \in 0 .. N |-> f[n]]  BY <1>6
<1>8. ASSUME NEW n \in 0 .. N
      PROVE  f[n] = IF n = 0 THEN r ELSE Come(heap, binding, f[n - 1], <<b, n>>)
  BY <1>6
<1> HIDE DEF Is
<1>9. f[0] = r  BY <1>1, <1>8
<1>10. \A n \in 1 .. N : f[n] = Come(heap, binding, f[n - 1], <<b, n>>)  BY <1>1, <1>8
<1>11. f \in [0 .. N -> X]
  <2>1. \A n \in 1 .. N : f[n - 1] \in X => f[n] \in X
    <3> HIDE DEF N
    <3> QED  BY <1>4, <1>10
  <2> HIDE DEF N
  <2>2. f[0] \in X  BY <1>3, <1>9
  <2> QED  BY <1>1, <1>7, <2>1, <2>2, StepsStay
<1> QED  BY <1>2, <1>9, <1>10, <1>11 DEF N, X

LEMMA DeferredIs ==
    ASSUME NEW w \in Walker
    PROVE  \E f \in [0 .. Len(w.state.deferred) -> Walker] :
               /\ f[0] = w
               /\ \A n \in 1 .. Len(w.state.deferred) : f[n] = Visit(f[n - 1], w.state.deferred[Len(w.state.deferred) - n + 1])
               /\ Deferred(w) = f[Len(w.state.deferred)]
<1> DEFINE N == Len(w.state.deferred)
           X == Walker
           Is(f) == f = [n \in 0 .. Len(w.state.deferred) |-> IF n = 0 THEN w ELSE Visit(f[n - 1], w.state.deferred[Len(w.state.deferred) - n + 1])]
           f == CHOOSE g : Is(g)
<1>1. N \in Nat /\ 0 \in 0 .. N /\ N \in 0 .. N
      /\ \A n \in 1 .. N : n \in 0 .. N /\ n - 1 \in 0 .. N /\ n # 0
  BY WalkerIs
<1>2. Deferred(w) = f[N]
  BY DEF Deferred
<1>3. w \in X
  OBVIOUS
<1>4. ASSUME NEW n \in 1 .. N, NEW x \in X  PROVE Visit(x, w.state.deferred[Len(w.state.deferred) - n + 1]) \in X
  <2>1. w.state.deferred \in Seq(CallOn)  BY WalkerIs
  <2>2. Len(w.state.deferred) - n + 1 \in 1 .. Len(w.state.deferred)  BY <2>1
  <2>3. w.state.deferred[Len(w.state.deferred) - n + 1] \in CallOn  BY <2>1, <2>2
  <2> QED  BY <2>3, VisitCallIs
<1> HIDE DEF X
<1>5. \E g \in [0 .. N -> X] : Is(g)
  <2> DEFINE step == [n \in 1 .. N |-> [x \in X |-> Visit(x, w.state.deferred[Len(w.state.deferred) - n + 1])]]
  <2>1. step \in [1 .. N -> [X -> X]]  BY <1>4
  <2>2. \A n \in 1 .. N, x \in X : step[n][x] = Visit(x, w.state.deferred[Len(w.state.deferred) - n + 1])  OBVIOUS
  <2> HIDE DEF step, N
  <2>3. HasRun(X, w, N, step)  BY <1>1, <1>3, <2>1, Iterated
  <2>4. PICK g \in [0 .. N -> X] : g[0] = w /\ \A n \in 1 .. N : g[n] = step[n][g[n - 1]]
    BY <2>3 DEF HasRun
  <2>5. \A n \in 1 .. N : g[n] = Visit(g[n - 1], w.state.deferred[Len(w.state.deferred) - n + 1])  BY <1>1, <2>2, <2>4
  <2>6. Is(g)
    <3>1. g = [n \in 0 .. N |-> g[n]]  BY <2>4
    <3>2. ASSUME NEW n \in 0 .. N
          PROVE  g[n] = IF n = 0 THEN w ELSE Visit(g[n - 1], w.state.deferred[Len(w.state.deferred) - n + 1])
      <4>1. CASE n = 0  BY <2>4, <4>1
      <4>2. CASE n # 0
        <5>1. n \in 1 .. N  BY <1>1, <4>2
        <5> QED  BY <2>5, <4>2, <5>1
      <4> QED  BY <4>1, <4>2
    <3> QED  BY <3>1, <3>2 DEF N
  <2> QED  BY <2>4, <2>6
<1>6. Is(f)  BY <1>5
<1> HIDE DEF f
<1>7. f = [n \in 0 .. N |-> f[n]]  BY <1>6
<1>8. ASSUME NEW n \in 0 .. N
      PROVE  f[n] = IF n = 0 THEN w ELSE Visit(f[n - 1], w.state.deferred[Len(w.state.deferred) - n + 1])
  BY <1>6
<1> HIDE DEF Is
<1>9. f[0] = w  BY <1>1, <1>8
<1>10. \A n \in 1 .. N : f[n] = Visit(f[n - 1], w.state.deferred[Len(w.state.deferred) - n + 1])  BY <1>1, <1>8
<1>11. f \in [0 .. N -> X]
  <2>1. \A n \in 1 .. N : f[n - 1] \in X => f[n] \in X
    <3> HIDE DEF N
    <3> QED  BY <1>4, <1>10
  <2> HIDE DEF N
  <2>2. f[0] \in X  BY <1>3, <1>9
  <2> QED  BY <1>1, <1>7, <2>1, <2>2, StepsStay
<1> QED  BY <1>2, <1>9, <1>10, <1>11 DEF N, X

LEMMA ReturnIs ==
    ASSUME InputOK, NEW heap \in Heaps, NEW binding \in Bindings, NEW r \in RunOf
    PROVE  \E f \in [0 .. Len(r.later) -> RunOf] :
               /\ f[0] = r
               /\ \A n \in 1 .. Len(r.later) : f[n] = Execute(heap, binding, f[n - 1], r.later[Len(r.later) - n + 1])
               /\ Return(heap, binding, r) = f[Len(r.later)]
<1> DEFINE N == Len(r.later)
           X == RunOf
           Is(f) == f = [n \in 0 .. Len(r.later) |-> IF n = 0 THEN r ELSE Execute(heap, binding, f[n - 1], r.later[Len(r.later) - n + 1])]
           f == CHOOSE g : Is(g)
<1>1. N \in Nat /\ 0 \in 0 .. N /\ N \in 0 .. N
      /\ \A n \in 1 .. N : n \in 0 .. N /\ n - 1 \in 0 .. N /\ n # 0
  BY RunOfIs
<1>2. Return(heap, binding, r) = f[N]
  BY DEF Return
<1>3. r \in X
  OBVIOUS
<1>4. ASSUME NEW n \in 1 .. N, NEW x \in X  PROVE Execute(heap, binding, x, r.later[Len(r.later) - n + 1]) \in X
  <2>1. r.later \in Seq(Placed)  BY RunOfIs
  <2>2. Len(r.later) - n + 1 \in 1 .. Len(r.later)  BY <2>1
  <2>3. r.later[Len(r.later) - n + 1] \in Placed  BY <2>1, <2>2
  <2> QED  BY <2>3, ExecuteIs
<1> HIDE DEF X
<1>5. \E g \in [0 .. N -> X] : Is(g)
  <2> DEFINE step == [n \in 1 .. N |-> [x \in X |-> Execute(heap, binding, x, r.later[Len(r.later) - n + 1])]]
  <2>1. step \in [1 .. N -> [X -> X]]  BY <1>4
  <2>2. \A n \in 1 .. N, x \in X : step[n][x] = Execute(heap, binding, x, r.later[Len(r.later) - n + 1])  OBVIOUS
  <2> HIDE DEF step, N
  <2>3. HasRun(X, r, N, step)  BY <1>1, <1>3, <2>1, Iterated
  <2>4. PICK g \in [0 .. N -> X] : g[0] = r /\ \A n \in 1 .. N : g[n] = step[n][g[n - 1]]
    BY <2>3 DEF HasRun
  <2>5. \A n \in 1 .. N : g[n] = Execute(heap, binding, g[n - 1], r.later[Len(r.later) - n + 1])  BY <1>1, <2>2, <2>4
  <2>6. Is(g)
    <3>1. g = [n \in 0 .. N |-> g[n]]  BY <2>4
    <3>2. ASSUME NEW n \in 0 .. N
          PROVE  g[n] = IF n = 0 THEN r ELSE Execute(heap, binding, g[n - 1], r.later[Len(r.later) - n + 1])
      <4>1. CASE n = 0  BY <2>4, <4>1
      <4>2. CASE n # 0
        <5>1. n \in 1 .. N  BY <1>1, <4>2
        <5> QED  BY <2>5, <4>2, <5>1
      <4> QED  BY <4>1, <4>2
    <3> QED  BY <3>1, <3>2 DEF N
  <2> QED  BY <2>4, <2>6
<1>6. Is(f)  BY <1>5
<1> HIDE DEF f
<1>7. f = [n \in 0 .. N |-> f[n]]  BY <1>6
<1>8. ASSUME NEW n \in 0 .. N
      PROVE  f[n] = IF n = 0 THEN r ELSE Execute(heap, binding, f[n - 1], r.later[Len(r.later) - n + 1])
  BY <1>6
<1> HIDE DEF Is
<1>9. f[0] = r  BY <1>1, <1>8
<1>10. \A n \in 1 .. N : f[n] = Execute(heap, binding, f[n - 1], r.later[Len(r.later) - n + 1])  BY <1>1, <1>8
<1>11. f \in [0 .. N -> X]
  <2>1. \A n \in 1 .. N : f[n - 1] \in X => f[n] \in X
    <3> HIDE DEF N
    <3> QED  BY <1>4, <1>10
  <2> HIDE DEF N
  <2>2. f[0] \in X  BY <1>3, <1>9
  <2> QED  BY <1>1, <1>7, <2>1, <2>2, StepsStay
<1> QED  BY <1>2, <1>9, <1>10, <1>11 DEF N, X

LEMMA RunBlockIsTyped ==
    ASSUME InputOK, NEW heap \in Heaps, NEW binding \in Bindings, NEW r \in RunOf, NEW b \in Block
    PROVE  RunBlock(heap, binding, r, b) \in RunOf
<1>1. PICK f \in [0 .. Len(code[b]) -> RunOf] : RunBlock(heap, binding, r, b) = f[Len(code[b])]
  BY RunBlockIs
<1>2. Len(code[b]) \in 0 .. Len(code[b])  BY DEF InputOK
<1> QED  BY <1>1, <1>2

LEMMA BeginIs == Begin \in RunOf
BY DEF Begin, RunOf

LEMMA RanIs ==
    ASSUME InputOK, NEW heap \in Heaps, NEW binding \in Bindings, NEW run \in Seq(Block)
    PROVE  \E f \in [0 .. Len(run) -> RunOf] :
               /\ f[0] = Begin
               /\ \A n \in 1 .. Len(run) : f[n] = RunBlock(heap, binding, f[n - 1], run[n])
               /\ Ran(heap, binding, run) = f[Len(run)]
<1> DEFINE N == Len(run)
           X == RunOf
           Is(f) == f = [n \in 0 .. Len(run) |-> IF n = 0 THEN Begin ELSE RunBlock(heap, binding, f[n - 1], run[n])]
           f == CHOOSE g : Is(g)
<1>1. N \in Nat /\ 0 \in 0 .. N /\ N \in 0 .. N
      /\ \A n \in 1 .. N : n \in 0 .. N /\ n - 1 \in 0 .. N /\ n # 0
  OBVIOUS
<1>2. Ran(heap, binding, run) = f[N]
  BY DEF Ran
<1>3. Begin \in X
  BY BeginIs
<1>4. ASSUME NEW n \in 1 .. N, NEW x \in X  PROVE RunBlock(heap, binding, x, run[n]) \in X
  BY RunBlockIsTyped
<1> HIDE DEF X
<1>5. \E g \in [0 .. N -> X] : Is(g)
  <2> DEFINE step == [n \in 1 .. N |-> [x \in X |-> RunBlock(heap, binding, x, run[n])]]
  <2>1. step \in [1 .. N -> [X -> X]]  BY <1>4
  <2>2. \A n \in 1 .. N, x \in X : step[n][x] = RunBlock(heap, binding, x, run[n])  OBVIOUS
  <2> HIDE DEF step, N
  <2>3. HasRun(X, Begin, N, step)  BY <1>1, <1>3, <2>1, Iterated
  <2>4. PICK g \in [0 .. N -> X] : g[0] = Begin /\ \A n \in 1 .. N : g[n] = step[n][g[n - 1]]
    BY <2>3 DEF HasRun
  <2>5. \A n \in 1 .. N : g[n] = RunBlock(heap, binding, g[n - 1], run[n])  BY <1>1, <2>2, <2>4
  <2>6. Is(g)
    <3>1. g = [n \in 0 .. N |-> g[n]]  BY <2>4
    <3>2. ASSUME NEW n \in 0 .. N
          PROVE  g[n] = IF n = 0 THEN Begin ELSE RunBlock(heap, binding, g[n - 1], run[n])
      <4>1. CASE n = 0  BY <2>4, <4>1
      <4>2. CASE n # 0
        <5>1. n \in 1 .. N  BY <1>1, <4>2
        <5> QED  BY <2>5, <4>2, <5>1
      <4> QED  BY <4>1, <4>2
    <3> QED  BY <3>1, <3>2 DEF N
  <2> QED  BY <2>4, <2>6
<1>6. Is(f)  BY <1>5
<1> HIDE DEF f
<1>7. f = [n \in 0 .. N |-> f[n]]  BY <1>6
<1>8. ASSUME NEW n \in 0 .. N
      PROVE  f[n] = IF n = 0 THEN Begin ELSE RunBlock(heap, binding, f[n - 1], run[n])
  BY <1>6
<1> HIDE DEF Is
<1>9. f[0] = Begin  BY <1>1, <1>8
<1>10. \A n \in 1 .. N : f[n] = RunBlock(heap, binding, f[n - 1], run[n])  BY <1>1, <1>8
<1>11. f \in [0 .. N -> X]
  <2>1. \A n \in 1 .. N : f[n - 1] \in X => f[n] \in X
    <3> HIDE DEF N
    <3> QED  BY <1>4, <1>10
  <2> HIDE DEF N
  <2>2. f[0] \in X  BY <1>3, <1>9
  <2> QED  BY <1>1, <1>7, <2>1, <2>2, StepsStay
<1> QED  BY <1>2, <1>9, <1>10, <1>11 DEF N, X

LEMMA RanOfNone ==
    ASSUME InputOK, NEW heap \in Heaps, NEW binding \in Bindings
    PROVE  Ran(heap, binding, <<>>) = Begin
<1>1. <<>> \in Seq(Block) /\ Len(<<>>) = 0  OBVIOUS
<1>2. \E f \in [0 .. Len(<<>>) -> RunOf] :
          /\ f[0] = Begin
          /\ \A n \in 1 .. Len(<<>>) : f[n] = RunBlock(heap, binding, f[n - 1], <<>>[n])
          /\ Ran(heap, binding, <<>>) = f[Len(<<>>)]
  BY <1>1, RanIs
<1> QED  BY <1>1, <1>2

\* The last block runs where the run before it left off.
LEMMA RanFront ==
    ASSUME InputOK, NEW heap \in Heaps, NEW binding \in Bindings, NEW run \in Seq(Block), Len(run) > 0
    PROVE  /\ Front(run) \in Seq(Block) /\ Last(run) \in Block
           /\ Ran(heap, binding, Front(run)) \in RunOf
           /\ Ran(heap, binding, run) = RunBlock(heap, binding, Ran(heap, binding, Front(run)), Last(run))
           /\ Ran(heap, binding, run) \in RunOf
<1> DEFINE q == Front(run)
           N == Len(run) - 1
<1>1. /\ N \in Nat /\ Len(run) \in 1 .. Len(run) /\ Len(run) - 1 = N
      /\ q \in Seq(Block) /\ Len(q) = N /\ (\A n \in 1 .. N : q[n] = run[n] /\ n \in 1 .. Len(run))
      /\ run[Len(run)] \in Block
  <2>1. Len(run) \in Nat /\ N \in Nat /\ Len(run) \in 1 .. Len(run) /\ Len(run) - 1 = N  OBVIOUS
  <2>2. q \in Seq(Block) /\ Len(q) = N /\ \A n \in 1 .. N : q[n] = run[n]  BY FrontIs
  <2>3. \A n \in 1 .. N : n \in 1 .. Len(run)  BY <2>1
  <2>4. run[Len(run)] \in Block  BY <2>1
  <2> QED  BY <2>1, <2>2, <2>3, <2>4
<1> HIDE DEF q
<1>2. PICK f \in [0 .. Len(run) -> RunOf] :
          /\ f[0] = Begin
          /\ \A n \in 1 .. Len(run) : f[n] = RunBlock(heap, binding, f[n - 1], run[n])
          /\ Ran(heap, binding, run) = f[Len(run)]
  BY RanIs
<1>3. PICK g \in [0 .. Len(q) -> RunOf] :
          /\ g[0] = Begin
          /\ \A n \in 1 .. Len(q) : g[n] = RunBlock(heap, binding, g[n - 1], q[n])
          /\ Ran(heap, binding, q) = g[Len(q)]
  BY <1>1, RanIs
<1> DEFINE S == {n \in Nat : n <= N => f[n] = g[n]}
<1>4. 0 \in S  BY <1>2, <1>3
<1>5. \A n \in Nat : n \in S => n + 1 \in S
  <2> SUFFICES ASSUME NEW n \in Nat, n + 1 <= N, f[n] = g[n]  PROVE f[n + 1] = g[n + 1]
    OBVIOUS
  <2>1. n + 1 \in 1 .. N /\ (n + 1) - 1 = n  BY <1>1
  <2>2. f[n + 1] = RunBlock(heap, binding, f[n], run[n + 1])  BY <1>1, <1>2, <2>1
  <2>3. g[n + 1] = RunBlock(heap, binding, g[n], q[n + 1])  BY <1>1, <1>3, <2>1
  <2> QED  BY <1>1, <2>1, <2>2, <2>3
<1> HIDE DEF S
<1>6. N \in S  BY <1>1, <1>4, <1>5, NatSetInduction
<1>7. f[N] = Ran(heap, binding, q)  BY <1>1, <1>3, <1>6 DEF S
<1> HIDE DEF N
<1>8. Ran(heap, binding, run) = RunBlock(heap, binding, f[N], run[Len(run)])  BY <1>1, <1>2
<1>9. Ran(heap, binding, q) \in RunOf /\ Ran(heap, binding, run) \in RunOf
  <2>1. N \in 0 .. N /\ Len(run) \in 0 .. Len(run)  BY <1>1
  <2> QED  BY <1>1, <1>2, <1>3, <2>1
<1> QED  BY <1>1, <1>7, <1>8, <1>9 DEF q, Last

LEMMA BodyGrows ==
    ASSUME InputOK, NEW w \in Walker, NEW b \in Block
    PROVE  Body(b, w) \in Walker /\ w.found \subseteq Body(b, w).found
<1> DEFINE N == Len(code[b])
<1>1. PICK f \in [0 .. N -> Walker] :
          /\ f[0] = w
          /\ \A n \in 1 .. N : f[n] = Instruction(f[n - 1], code[b][n], <<b, n>>)
          /\ Body(b, w) = f[N]
  BY BodyIs
<1>2. N \in Nat /\ N \in 0 .. N /\ \A n \in 1 .. N : code[b][n] \in Instr /\ <<b, n>> \in Nat \X Nat
  <2>1. code[b] \in Seq(Instr)  BY DEF InputOK
  <2> QED  BY <2>1, PlacedIs
<1> HIDE DEF N
<1> DEFINE S == {n \in Nat : n <= N => w.found \subseteq f[n].found}
<1>3. 0 \in S  BY <1>1
<1>4. ASSUME NEW n \in Nat, n \in S  PROVE n + 1 \in S
  <2> SUFFICES ASSUME n + 1 <= N  PROVE w.found \subseteq f[n + 1].found  OBVIOUS
  <2>1. n + 1 \in 1 .. N /\ (n + 1) - 1 = n /\ n \in 0 .. N /\ n <= N  BY <1>2
  <2>2. f[n] \in Walker /\ f[n + 1] = Instruction(f[n], code[b][n + 1], <<b, n + 1>>)  BY <1>1, <2>1
  <2>3. f[n].found \subseteq f[n + 1].found  BY <1>2, <2>1, <2>2, InstructionIs
  <2> QED  BY <1>4, <2>1, <2>3
<1> HIDE DEF S
<1>5. N \in S  BY <1>2, <1>3, <1>4, NatSetInduction
<1> QED  BY <1>1, <1>2, <1>5 DEF S

LEMMA BodyFollows ==
    ASSUME Kept, NEW heap \in Heaps, NEW binding \in Bindings, NEW w, NEW r,
           Follows(heap, binding, w, r), NEW b \in Block
    PROVE  LET v == Body(b, w)
               s == RunBlock(heap, binding, r, b)
           IN  /\ Follows(heap, binding, v, s)
               /\ Alike(w.state.deferred, r.later) => Alike(v.state.deferred, s.later)
<1> DEFINE N == Len(code[b])
<1>1. InputOK /\ w \in Walker /\ r \in RunOf  BY DEF Kept, Follows
<1>2. PICK f \in [0 .. N -> Walker] :
          /\ f[0] = w
          /\ \A n \in 1 .. N : f[n] = Instruction(f[n - 1], code[b][n], <<b, n>>)
          /\ Body(b, w) = f[N]
  BY <1>1, BodyIs
<1>3. PICK g \in [0 .. N -> RunOf] :
          /\ g[0] = r
          /\ \A n \in 1 .. N : g[n] = Come(heap, binding, g[n - 1], <<b, n>>)
          /\ RunBlock(heap, binding, r, b) = g[N]
  BY <1>1, RunBlockIs
<1>4. N \in Nat /\ \A n \in 1 .. N : <<b, n>> \in Placed /\ At(<<b, n>>) = code[b][n]
  BY <1>1, PlacedIs DEF InputOK
<1> HIDE DEF N
<1> DEFINE S == {n \in Nat : n <= N =>
                    /\ Follows(heap, binding, f[n], g[n])
                    /\ Alike(w.state.deferred, r.later) => Alike(f[n].state.deferred, g[n].later)}
<1>5. 0 \in S  BY <1>2, <1>3
<1>6. ASSUME NEW n \in Nat, n \in S  PROVE n + 1 \in S
  <2> SUFFICES ASSUME n + 1 <= N
               PROVE  /\ Follows(heap, binding, f[n + 1], g[n + 1])
                      /\ Alike(w.state.deferred, r.later) => Alike(f[n + 1].state.deferred, g[n + 1].later)
    OBVIOUS
  <2>1. n + 1 \in 1 .. N /\ (n + 1) - 1 = n /\ n <= N  BY <1>4
  <2> DEFINE at == <<b, n + 1>>
  <2>2. at \in Placed /\ f[n + 1] = Instruction(f[n], At(at), at) /\ g[n + 1] = Come(heap, binding, g[n], at)
    BY <1>2, <1>3, <1>4, <2>1
  <2> HIDE DEF at
  <2>3. /\ Follows(heap, binding, f[n], g[n])
        /\ Alike(w.state.deferred, r.later) => Alike(f[n].state.deferred, g[n].later)
    BY <1>6, <2>1
  <2>4. /\ Follows(heap, binding, f[n + 1], g[n + 1])
        /\ Alike(f[n].state.deferred, g[n].later) => Alike(f[n + 1].state.deferred, g[n + 1].later)
    BY <2>2, <2>3, ComeFollows
  <2> QED  BY <2>3, <2>4
<1> HIDE DEF S
<1>7. N \in S  BY <1>4, <1>5, <1>6, NatSetInduction
<1> QED  BY <1>2, <1>3, <1>4, <1>7 DEF S

LEMMA DeferredGrows ==
    ASSUME NEW w \in Walker
    PROVE  Deferred(w) \in Walker /\ w.found \subseteq Deferred(w).found
<1> DEFINE d == w.state.deferred
           N == Len(d)
<1>1. PICK f \in [0 .. N -> Walker] :
          /\ f[0] = w
          /\ \A n \in 1 .. N : f[n] = Visit(f[n - 1], d[N - n + 1])
          /\ Deferred(w) = f[N]
  BY DeferredIs
<1>2. d \in Seq(CallOn) /\ N \in Nat /\ N \in 0 .. N /\ \A n \in 1 .. N : N - n + 1 \in 1 .. N
  BY WalkerIs
<1>3. \A n \in 1 .. N : d[N - n + 1] \in CallOn  BY <1>2
<1> HIDE DEF N, d
<1> DEFINE S == {n \in Nat : n <= N => w.found \subseteq f[n].found}
<1>4. 0 \in S  BY <1>1
<1>5. ASSUME NEW n \in Nat, n \in S  PROVE n + 1 \in S
  <2> SUFFICES ASSUME n + 1 <= N  PROVE w.found \subseteq f[n + 1].found  OBVIOUS
  <2>1. n + 1 \in 1 .. N /\ (n + 1) - 1 = n /\ n \in 0 .. N /\ n <= N  BY <1>2
  <2>2. f[n] \in Walker /\ f[n + 1] = Visit(f[n], d[N - (n + 1) + 1])  BY <1>1, <2>1
  <2>3. d[N - (n + 1) + 1] \in CallOn  BY <1>3, <2>1
  <2>4. f[n].found \subseteq f[n + 1].found  BY <2>2, <2>3, VisitCallIs
  <2> QED  BY <1>5, <2>1, <2>4
<1> HIDE DEF S
<1>6. N \in S  BY <1>2, <1>4, <1>5, NatSetInduction
<1> QED  BY <1>1, <1>2, <1>6 DEF S

LEMMA DeferredFollows ==
    ASSUME Kept, NEW heap \in Heaps, NEW binding \in Bindings, NEW w, NEW r,
           Follows(heap, binding, w, r), Alike(w.state.deferred, r.later)
    PROVE  Told(Return(heap, binding, r), Deferred(w).found)
<1> DEFINE d == w.state.deferred
           l == r.later
           N == Len(r.later)
<1>1. InputOK /\ w \in Walker /\ r \in RunOf  BY DEF Kept, Follows
<1>2. Len(d) = N /\ l \in Seq(Placed) /\ N \in Nat /\ \A n \in 1 .. N : d[n] = Call(At(l[n]), l[n])
  BY <1>1, RunOfIs DEF Alike
<1>3. PICK f \in [0 .. Len(d) -> Walker] :
          /\ f[0] = w
          /\ \A n \in 1 .. Len(d) : f[n] = Visit(f[n - 1], d[Len(d) - n + 1])
          /\ Deferred(w) = f[Len(d)]
  BY <1>1, DeferredIs
<1>4. PICK g \in [0 .. N -> RunOf] :
          /\ g[0] = r
          /\ \A n \in 1 .. N : g[n] = Execute(heap, binding, g[n - 1], l[N - n + 1])
          /\ Return(heap, binding, r) = g[N]
  BY <1>1, ReturnIs
<1>5. \A n \in 1 .. N : l[n] \in Placed  BY <1>2
<1> HIDE DEF N, d, l
<1> DEFINE S == {n \in Nat : n <= N => Follows(heap, binding, f[n], g[n])}
<1>6. 0 \in S  BY <1>3, <1>4
<1>7. ASSUME NEW n \in Nat, n \in S  PROVE n + 1 \in S
  <2> SUFFICES ASSUME n + 1 <= N  PROVE Follows(heap, binding, f[n + 1], g[n + 1])  OBVIOUS
  <2> DEFINE k == N - (n + 1) + 1
             at == l[k]
  <2>1. n + 1 \in 1 .. N /\ (n + 1) - 1 = n /\ n <= N /\ k \in 1 .. N  BY <1>2
  <2> HIDE DEF k
  <2>2. at \in Placed /\ d[k] = Call(At(at), at)  BY <1>2, <1>5, <2>1
  <2>3. f[n + 1] = Visit(f[n], d[k]) /\ g[n + 1] = Execute(heap, binding, g[n], at)
    BY <1>2, <1>3, <1>4, <2>1 DEF k
  <2> HIDE DEF at
  <2>4. f[n + 1] = Visit(f[n], Call(At(at), at))  BY <2>2, <2>3
  <2>5. Follows(heap, binding, f[n], g[n])  BY <1>7, <2>1
  <2> QED  BY <2>2, <2>3, <2>4, <2>5, ExecuteFollows
<1> HIDE DEF S
<1>8. N \in S  BY <1>2, <1>6, <1>7, NatSetInduction
<1>9. Follows(heap, binding, Deferred(w), Return(heap, binding, r))
  BY <1>2, <1>3, <1>4, <1>8 DEF S
<1> QED  BY <1>9 DEF Follows

LEMMA ReturnOwesNothing ==
    ASSUME InputOK, NEW heap \in Heaps, NEW binding \in Bindings, NEW r \in RunOf, NEW found,
           Told(r, found), \A n \in 1 .. Len(r.later) : At(r.later[n]).deferred, ~DefersAgree
    PROVE  Told(Return(heap, binding, r), found)
<1> DEFINE l == r.later
           N == Len(r.later)
<1>1. PICK g \in [0 .. N -> RunOf] :
          /\ g[0] = r
          /\ \A n \in 1 .. N : g[n] = Execute(heap, binding, g[n - 1], l[N - n + 1])
          /\ Return(heap, binding, r) = g[N]
  BY ReturnIs
<1>2. l \in Seq(Placed) /\ N \in Nat  BY RunOfIs
<1>3. \A n \in 1 .. N : l[n] \in Placed /\ At(l[n]).deferred  BY <1>2
<1> HIDE DEF N, l
<1> DEFINE S == {n \in Nat : n <= N => Told(g[n], found)}
<1>4. 0 \in S  BY <1>1
<1>5. ASSUME NEW n \in Nat, n \in S  PROVE n + 1 \in S
  <2> SUFFICES ASSUME n + 1 <= N  PROVE Told(g[n + 1], found)  OBVIOUS
  <2> DEFINE at == l[N - (n + 1) + 1]
  <2>1. n + 1 \in 1 .. N /\ (n + 1) - 1 = n /\ n <= N /\ n \in 0 .. N /\ N - (n + 1) + 1 \in 1 .. N
    BY <1>2
  <2>2. at \in Placed /\ At(at).deferred  BY <1>3, <2>1
  <2>3. g[n] \in RunOf /\ g[n + 1] = Execute(heap, binding, g[n], at)  BY <1>1, <2>1
  <2> HIDE DEF at
  <2>4. Told(g[n], found)  BY <1>5, <2>1
  <2> QED  BY <2>2, <2>3, <2>4, ExecuteOwesNothing
<1> HIDE DEF S
<1>6. N \in S  BY <1>2, <1>4, <1>5, NatSetInduction
<1> QED  BY <1>1, <1>2, <1>6 DEF S

-----------------------------------------------------------------------------
(***************************************************************************)
(* The runs do not change during the walk.                                 *)
(***************************************************************************)
\* The runs, as functions of what is walked.
ExecuteOf(blocks, heap, binding, r, at) ==
    LET i == blocks[at[1]][at[2]]
        o == ObjectOf(heap, binding, i.of)
        v == ValueOf(i.of, at)
    IN  IF r.crashed \/ o = None THEN [r EXCEPT !.crashed = TRUE]
        ELSE IF i.op = "lock" THEN Locked(r, heap, o, v, at) ELSE Unlocked(r, o, v)
RanOf(blocks, heap, binding, run) ==
    LET ran[n \in 0 .. Len(run)] ==
            IF n = 0 THEN Begin
            ELSE LET did[m \in 0 .. Len(blocks[run[n]])] ==
                         IF m = 0 THEN ran[n - 1]
                         ELSE IF blocks[<<run[n], m>>[1]][<<run[n], m>>[2]].deferred
                         THEN [did[m - 1] EXCEPT !.later = Append(@, <<run[n], m>>)]
                         ELSE ExecuteOf(blocks, heap, binding, did[m - 1], <<run[n], m>>)
                 IN  did[Len(blocks[run[n]])]
    IN  ran[Len(run)]
ReturnOf(blocks, heap, binding, r) ==
    LET ran[n \in 0 .. Len(r.later)] ==
            IF n = 0 THEN r
            ELSE ExecuteOf(blocks, heap, binding, ran[n - 1], r.later[Len(r.later) - n + 1])
    IN  ran[Len(r.later)]

LEMMA RanIsOfInput ==
    ASSUME NEW heap, NEW binding, NEW run
    PROVE  Ran(heap, binding, run) = RanOf(code, heap, binding, run)
BY DEF Ran, RanOf, RunBlock, Come, Execute, ExecuteOf, At

LEMMA RanIsOfInputNext ==
    ASSUME NEW heap, NEW binding, NEW run
    PROVE  Ran(heap, binding, run)' = RanOf(code', heap, binding, run)
BY DEF Ran, RanOf, RunBlock, Come, Execute, ExecuteOf, At

LEMMA ReturnIsOfInput ==
    ASSUME NEW heap, NEW binding, NEW r
    PROVE  Return(heap, binding, r) = ReturnOf(code, heap, binding, r)
BY DEF Return, ReturnOf, Execute, ExecuteOf, At

LEMMA ReturnIsOfInputNext ==
    ASSUME NEW heap, NEW binding, NEW r
    PROVE  Return(heap, binding, r)' = ReturnOf(code', heap, binding, r)
BY DEF Return, ReturnOf, Execute, ExecuteOf, At

LEMMA RunsStay ==
    ASSUME UNCHANGED input
    PROVE  /\ succs' = succs /\ code' = code /\ struct' = struct /\ lockedBy' = lockedBy
           /\ Runs' = Runs /\ Block' = Block
           /\ \A heap, binding, p : Ran(heap, binding, p)' = Ran(heap, binding, p)
           /\ \A heap, binding, r : Return(heap, binding, r)' = Return(heap, binding, r)
           /\ \A at : At(at)' = At(at)
           /\ DefersAgree' <=> DefersAgree
           /\ LoopsHaveHeads' <=> LoopsHaveHeads
           /\ EdgeField(struct)' = EdgeField(struct)
           /\ InputOK' <=> InputOK
<1>1. succs' = succs /\ code' = code /\ struct' = struct /\ lockedBy' = lockedBy  BY DEF input
<1>2. Runs' = Runs /\ Block' = Block  BY <1>1 DEF Runs, Block
<1>3. ASSUME NEW heap, NEW binding, NEW p  PROVE Ran(heap, binding, p)' = Ran(heap, binding, p)
  BY <1>1, RanIsOfInput, RanIsOfInputNext
<1>4. ASSUME NEW heap, NEW binding, NEW r  PROVE Return(heap, binding, r)' = Return(heap, binding, r)
  BY <1>1, ReturnIsOfInput, ReturnIsOfInputNext
<1>5. ASSUME NEW at  PROVE At(at)' = At(at)  BY <1>1 DEF At
<1>6. DefersAgree' <=> DefersAgree  BY <1>1, <1>3 DEF DefersAgree
<1>7. LoopsHaveHeads' <=> LoopsHaveHeads  BY <1>1 DEF LoopsHaveHeads
<1>8. EdgeField(struct)' = EdgeField(struct)  BY <1>1
<1>9. InputOK' <=> InputOK  BY <1>1 DEF InputOK, Block
<1> QED  BY <1>1, <1>2, <1>3, <1>4, <1>5, <1>6, <1>7, <1>8, <1>9

-----------------------------------------------------------------------------
(***************************************************************************)
(* The inductive invariant: the state that has reached a block follows     *)
(* every run to it, and what a run through walked blocks climbs is         *)
(* reported.                                                               *)
(***************************************************************************)
Scope == LoopsHaveHeads /\ EdgeField(struct) = Parent /\ lockedBy # "declared"
Found == SUBSET (Nat \X Nat)

Ahead(heap, binding, p, s, found) ==
    Follows(heap, binding, [state |-> s, found |-> found], Ran(heap, binding, Front(p)))
SameDefers(heap, binding, p, deferred) == Alike(deferred, Ran(heap, binding, Front(p)).later)
Ends(heap, binding, p) ==
    IF succs[Last(p)] = <<>> THEN Return(heap, binding, Ran(heap, binding, p)) ELSE Ran(heap, binding, p)
Shown(heap, binding, p, found) == Told(Ends(heap, binding, p), found)

OrderInv == /\ unwalked \in Seq(Block) /\ Distinct(unwalked)
            /\ LoopsHaveHeads => InOrder(unwalked)
TypeInv == /\ InputOK /\ OrderInv
           /\ in \in [Block -> State \cup {None}] /\ reports \in Found
ReachInv == Scope => \A s, found : \A p \in Runs, heap \in Heaps, binding \in Bindings :
    s = in[Last(p)] /\ found = reports /\ (\A n \in 1 .. Len(p) - 1 : ~Lies(p[n], unwalked))
        => s # None /\ Ahead(heap, binding, p, s, found)
DeferInv == Scope /\ DefersAgree => \A d : \A p \in Runs, heap \in Heaps, binding \in Bindings :
    Lies(Last(p), unwalked) /\ in[Last(p)] # None /\ d = in[Last(p)].deferred
        => SameDefers(heap, binding, p, d)
DoneInv == Scope => \A found : \A p \in Runs, heap \in Heaps, binding \in Bindings :
    found = reports /\ (\A n \in 1 .. Len(p) : ~Lies(p[n], unwalked)) => Shown(heap, binding, p, found)
HierInv == TypeInv /\ ReachInv /\ DeferInv /\ DoneInv

LEMMA InvStays ==
    ASSUME UNCHANGED input
    PROVE  /\ Scope' <=> Scope
           /\ \A heap, binding, p, s, found :
                 Ahead(heap, binding, p, s, found)' <=> Ahead(heap, binding, p, s, found)
           /\ \A heap, binding, p, d : SameDefers(heap, binding, p, d)' <=> SameDefers(heap, binding, p, d)
           /\ \A heap, binding, p, found :
                 Shown(heap, binding, p, found)' <=> Shown(heap, binding, p, found)
<1>1. Scope' <=> Scope  BY RunsStay DEF Scope
<1>2. /\ code' = code /\ lockedBy' = lockedBy /\ succs' = succs /\ Block' = Block
      /\ \A heap, binding, p : Ran(heap, binding, p)' = Ran(heap, binding, p)
      /\ \A heap, binding, r : Return(heap, binding, r)' = Return(heap, binding, r)
      /\ \A at : At(at)' = At(at)
      /\ DefersAgree' <=> DefersAgree
  BY RunsStay
<1>3. ASSUME NEW c  PROVE Due(c)' <=> Due(c)  BY <1>2 DEF Due
<1>4. RunOf' = RunOf
  <2>1. Placed' = Placed  BY <1>2 DEF Placed
  <2> QED  BY <2>1 DEF RunOf
<1>5. ASSUME NEW v  PROVE LockOwner(v)' = LockOwner(v)  BY <1>2 DEF LockOwner, IsLockField
<1>6. ASSUME NEW i, NEW at  PROVE Call(i, at)' = Call(i, at)  BY <1>2 DEF Call, Receiver
<1>7. ASSUME NEW heap, NEW binding, NEW p, NEW s, NEW found
      PROVE  Ahead(heap, binding, p, s, found)' <=> Ahead(heap, binding, p, s, found)
  <2> DEFINE r == Ran(heap, binding, Front(p))
  <2>1. r' = r  BY <1>2
  <2> HIDE DEF r
  <2>2. Ahead(heap, binding, p, s, found)
          <=> Follows(heap, binding, [state |-> s, found |-> found], r)  BY DEF Ahead, r
  <2>3. Ahead(heap, binding, p, s, found)'
          <=> Follows(heap, binding, [state |-> s, found |-> found], r)'  BY DEF Ahead, r
  <2>4. Follows(heap, binding, [state |-> s, found |-> found], r)'
          <=> Follows(heap, binding, [state |-> s, found |-> found], r)
    BY <1>2, <1>3, <1>4, <1>5, <2>1 DEF Follows, Sound, Covers, Told
  <2> QED  BY <2>2, <2>3, <2>4
<1>8. ASSUME NEW heap, NEW binding, NEW p, NEW d
      PROVE  SameDefers(heap, binding, p, d)' <=> SameDefers(heap, binding, p, d)
  <2> DEFINE l == Ran(heap, binding, Front(p)).later
  <2>1. l' = l  BY <1>2
  <2> HIDE DEF l
  <2>2. SameDefers(heap, binding, p, d) <=> Alike(d, l)  BY DEF SameDefers, l
  <2>3. SameDefers(heap, binding, p, d)' <=> Alike(d, l)'  BY DEF SameDefers, l
  <2>4. Alike(d, l)' <=> Alike(d, l)  BY <1>2, <1>6, <2>1 DEF Alike
  <2> QED  BY <2>2, <2>3, <2>4
<1>9. ASSUME NEW heap, NEW binding, NEW p, NEW found
      PROVE  Shown(heap, binding, p, found)' <=> Shown(heap, binding, p, found)
  <2>1. Ends(heap, binding, p)' = Ends(heap, binding, p)  BY <1>2 DEF Ends
  <2> QED  BY <1>3, <2>1 DEF Shown, Told
<1> QED  BY <1>1, <1>7, <1>8, <1>9

\* What a state follows, a state that holds more follows too.
LEMMA FollowsMore ==
    ASSUME NEW heap, NEW binding, NEW r, NEW w, Follows(heap, binding, w, r),
           NEW v \in Walker, w.state.held \subseteq v.state.held, w.found \subseteq v.found
    PROVE  Follows(heap, binding, v, r)
BY DEF Follows, Covers, Told

LEMMA ParentIs == Scope /\ InputOK => Kept
BY DEF Scope, Kept

LEMMA FrontOfRun ==
    ASSUME InputOK, NEW p \in Runs
    PROVE  /\ p \in Seq(Block) /\ Len(p) \in Nat /\ Len(p) > 0 /\ Last(p) \in Block
           /\ Front(p) \in Seq(Block) /\ Last(p) = p[Len(p)]
           /\ \A heap \in Heaps, binding \in Bindings :
                 /\ Ran(heap, binding, Front(p)) \in RunOf /\ Ran(heap, binding, p) \in RunOf
                 /\ Ran(heap, binding, p) = RunBlock(heap, binding, Ran(heap, binding, Front(p)), Last(p))
<1>1. p \in Seq(Block) /\ Len(p) \in Nat /\ Len(p) > 0 /\ Last(p) \in Block /\ Last(p) = p[Len(p)]
  BY RunIs DEF InputOK
<1>2. Front(p) \in Seq(Block)  BY <1>1, FrontIs
<1> QED  BY <1>1, <1>2, RanFront

LEMMA NoState == None \notin State
BY HierarchyAssumption

LEMMA EmptyIs == Empty \in State /\ Empty.held = {} /\ Empty.deferred = <<>>
BY DEF Empty, State

LEMMA MergeIs ==
    ASSUME NEW s \in State, NEW t \in State
    PROVE  /\ Merge(s, t) \in State /\ Merge(s, t).held = s.held \cup t.held
           /\ Merge(s, t).deferred = t.deferred \/ Merge(s, t).deferred = s.deferred
BY DEF Merge, State

LEMMA TailIs ==
    ASSUME NEW S, NEW u \in Seq(S), u # <<>>
    PROVE  /\ Head(u) \in S /\ Tail(u) \in Seq(S) /\ Len(u) \in Nat /\ Len(u) > 0 /\ Head(u) = u[1]
           /\ Len(Tail(u)) = Len(u) - 1 /\ \A i \in 1 .. Len(u) - 1 : Tail(u)[i] = u[i + 1]
           /\ \A x : Lies(x, u) <=> x = Head(u) \/ Lies(x, Tail(u))
<1> DEFINE t == Tail(u)
<1>1. Head(u) \in S /\ t \in Seq(S) /\ Len(u) \in Nat /\ Len(u) > 0 /\ Head(u) = u[1]
  OBVIOUS
<1>2. Len(t) = Len(u) - 1 /\ \A i \in 1 .. Len(u) - 1 : t[i] = u[i + 1]
  OBVIOUS
<1> HIDE DEF t
<1>3. ASSUME NEW x, Lies(x, u)  PROVE x = Head(u) \/ Lies(x, t)
  <2>1. PICK i \in 1 .. Len(u) : u[i] = x  BY <1>3 DEF Lies
  <2>2. CASE i = 1  BY <1>1, <2>1, <2>2
  <2>3. CASE i # 1
    <3>1. i - 1 \in 1 .. Len(u) - 1 /\ (i - 1) + 1 = i  BY <1>1, <2>3
    <3>2. t[i - 1] = x /\ i - 1 \in 1 .. Len(t)  BY <1>2, <2>1, <3>1
    <3> QED  BY <3>2 DEF Lies
  <2> QED  BY <2>2, <2>3
<1>4. ASSUME NEW x, Lies(x, t)  PROVE Lies(x, u)
  <2>1. PICK i \in 1 .. Len(u) - 1 : t[i] = x  BY <1>2, <1>4 DEF Lies
  <2>2. i + 1 \in 1 .. Len(u) /\ u[i + 1] = x  BY <1>1, <1>2, <2>1
  <2> QED  BY <2>2 DEF Lies
<1>5. Lies(Head(u), u)
  <2>1. 1 \in 1 .. Len(u)  BY <1>1
  <2> QED  BY <1>1, <2>1 DEF Lies
<1> QED  BY <1>1, <1>2, <1>3, <1>4, <1>5 DEF t

LEMMA OrderStays ==
    ASSUME NEW u \in Seq(Block), u # <<>>, Distinct(u)
    PROVE  /\ Distinct(Tail(u)) /\ ~Lies(Head(u), Tail(u))
           /\ InOrder(u) => InOrder(Tail(u))
<1> DEFINE t == Tail(u)
<1>1. /\ t \in Seq(Block) /\ Len(u) \in Nat /\ Len(u) > 0 /\ Head(u) = u[1]
      /\ Len(t) = Len(u) - 1 /\ \A i \in 1 .. Len(u) - 1 : t[i] = u[i + 1]
  BY TailIs
<1> HIDE DEF t
<1>2. \A i, j \in 1 .. Len(u) : u[i] = u[j] => i = j  BY DEF Distinct
<1>3. ASSUME NEW i \in 1 .. Len(t)  PROVE i + 1 \in 1 .. Len(u) /\ i + 1 # 1 /\ t[i] = u[i + 1]
  BY <1>1
<1>4. ASSUME NEW i \in 1 .. Len(t), NEW j \in 1 .. Len(t), t[i] = t[j]  PROVE i = j
  <2>1. i + 1 = j + 1  BY <1>2, <1>3, <1>4
  <2> QED  BY <2>1
<1>5. ~Lies(Head(u), t)
  <2> SUFFICES ASSUME NEW i \in 1 .. Len(t), t[i] = u[1]  PROVE FALSE  BY <1>1 DEF Lies
  <2>1. 1 \in 1 .. Len(u)  BY <1>1
  <2> QED  BY <1>2, <1>3, <2>1
<1>6. ASSUME InOrder(u), NEW p \in Runs, NEW n \in 1 .. Len(p) - 1, NEW i \in 1 .. Len(t), t[i] = p[n]
      PROVE  \E j \in i + 1 .. Len(t) : t[j] = p[n + 1]
  <2>1. i + 1 \in 1 .. Len(u) /\ u[i + 1] = p[n]  BY <1>3, <1>6
  <2>2. PICK j \in (i + 1) + 1 .. Len(u) : u[j] = p[n + 1]  BY <1>6, <2>1 DEF InOrder
  <2>3. j - 1 \in i + 1 .. Len(t) /\ j - 1 \in 1 .. Len(t) /\ (j - 1) + 1 = j  BY <1>1, <2>2
  <2>4. t[j - 1] = p[n + 1]  BY <1>3, <2>2, <2>3
  <2> QED  BY <2>3, <2>4
<1> QED  BY <1>4, <1>5, <1>6 DEF Distinct, InOrder, t

\* What comes after a block of a run that is there is there too, and after the first.
LEMMA LaterLies ==
    ASSUME InputOK, NEW u \in Seq(Block), InOrder(u), NEW p \in Runs,
           NEW m \in 1 .. Len(p), NEW n \in 1 .. Len(p), m <= n, Lies(p[m], u)
    PROVE  Lies(p[n], u)
<1>1. Len(p) \in Nat  BY RunIs DEF InputOK
<1> DEFINE S == {k \in Nat : m + k <= Len(p) => Lies(p[m + k], u)}
<1>2. 0 \in S
  <2>1. m + 0 = m  BY <1>1
  <2> QED  BY <2>1
<1>3. ASSUME NEW k \in Nat, k \in S  PROVE k + 1 \in S
  <2> SUFFICES ASSUME m + (k + 1) <= Len(p)  PROVE Lies(p[m + (k + 1)], u)  OBVIOUS
  <2>1. m + k \in 1 .. Len(p) - 1 /\ (m + k) + 1 = m + (k + 1) /\ m + k <= Len(p)  BY <1>1
  <2>2. PICK i \in 1 .. Len(u) : u[i] = p[m + k]  BY <1>3, <2>1 DEF Lies
  <2>3. PICK j \in i + 1 .. Len(u) : u[j] = p[(m + k) + 1]  BY <2>1, <2>2 DEF InOrder
  <2>4. j \in 1 .. Len(u)  BY <2>2, <2>3
  <2> QED  BY <2>1, <2>3, <2>4 DEF Lies
<1> HIDE DEF S
<1>4. n - m \in Nat /\ m + (n - m) = n /\ n <= Len(p)  BY <1>1
<1>5. n - m \in S  BY <1>2, <1>3, <1>4, NatSetInduction
<1> QED  BY <1>4, <1>5 DEF S

LEMMA NextLies ==
    ASSUME InputOK, NEW u \in Seq(Block), u # <<>>, InOrder(u), NEW p \in Runs,
           NEW n \in 1 .. Len(p) - 1, Lies(p[n], u)
    PROVE  Lies(p[n + 1], Tail(u))
<1>1. PICK i \in 1 .. Len(u) : u[i] = p[n]  BY DEF Lies
<1>2. PICK j \in i + 1 .. Len(u) : u[j] = p[n + 1]  BY <1>1 DEF InOrder
<1>3. Len(u) \in Nat /\ Len(Tail(u)) = Len(u) - 1 /\ \A k \in 1 .. Len(u) - 1 : Tail(u)[k] = u[k + 1]
  BY TailIs
<1>4. j - 1 \in 1 .. Len(u) - 1 /\ (j - 1) + 1 = j  BY <1>1, <1>2, <1>3
<1>5. Tail(u)[j - 1] = p[n + 1] /\ j - 1 \in 1 .. Len(Tail(u))  BY <1>2, <1>3, <1>4
<1> QED  BY <1>5 DEF Lies

\* When the last block of a run comes first, those before it are walked.
LEMMA BeforeFirst ==
    ASSUME InputOK, NEW u \in Seq(Block), u # <<>>, Distinct(u), InOrder(u), NEW p \in Runs,
           Last(p) = Head(u), NEW n \in 1 .. Len(p) - 1
    PROVE  ~Lies(p[n], u)
<1> SUFFICES ASSUME Lies(p[n], u)  PROVE FALSE  OBVIOUS
<1>1. Len(p) \in Nat /\ Len(p) > 0 /\ Last(p) = p[Len(p)]  BY RunIs DEF InputOK
<1>2. n + 1 \in 1 .. Len(p) /\ Len(p) \in 1 .. Len(p) /\ n + 1 <= Len(p)  BY <1>1
<1>3. Lies(p[n + 1], Tail(u))  BY NextLies
<1>4. InOrder(Tail(u)) /\ Tail(u) \in Seq(Block) /\ ~Lies(Head(u), Tail(u))
  BY OrderStays, TailIs
<1>5. Lies(p[Len(p)], Tail(u))  BY <1>2, <1>3, <1>4, LaterLies
<1> QED  BY <1>1, <1>4, <1>5

\* When all but the last block of a run are walked with the first block, and were not
\* before, that is the last but one.
LEMMA JustBefore ==
    ASSUME InputOK, NEW u \in Seq(Block), u # <<>>, InOrder(u), NEW p \in Runs, NEW N \in 1 .. Len(p),
           \A n \in 1 .. N : ~Lies(p[n], Tail(u)), NEW n \in 1 .. N, Lies(p[n], u)
    PROVE  n = N /\ p[n] = Head(u)
<1>1. Len(p) \in Nat  BY RunIs DEF InputOK
<1>2. p[n] = Head(u)  BY TailIs
<1>3. ASSUME n # N  PROVE FALSE
  <2>1. n \in 1 .. Len(p) - 1 /\ n + 1 \in 1 .. N  BY <1>1, <1>3
  <2>2. Lies(p[n + 1], Tail(u))  BY <2>1, NextLies
  <2> QED  BY <2>1, <2>2
<1> QED  BY <1>2, <1>3

-----------------------------------------------------------------------------
\* One turn of the loop: the state that leaves the first block, and where it goes.
Entered == [state |-> IF in[Head(unwalked)] = None THEN Empty ELSE in[Head(unwalked)],
            found |-> reports]
Left == Body(Head(unwalked), Entered)

LEMMA WalkIs ==
    ASSUME TypeInv, WalkBlock
    PROVE  LET a == Head(unwalked)
           IN  /\ unwalked \in Seq(Block) /\ unwalked # <<>> /\ a \in Block /\ InputOK
               /\ Distinct(unwalked) /\ (LoopsHaveHeads => InOrder(unwalked))
               /\ unwalked' = Tail(unwalked) /\ UNCHANGED input
               /\ Entered \in Walker /\ Left \in Walker /\ reports \in Found /\ reports' \in Found
               /\ reports \subseteq Left.found /\ Left.found \subseteq reports'
               /\ succs[a] = <<>> => reports' = Deferred(Left).found
               /\ in' \in [Block -> State \cup {None}]
               /\ \A b \in Block :
                     /\ b \notin Range(succs[a]) => in'[b] = in[b]
                     /\ b \in Range(succs[a]) /\ in[b] = None => in'[b] = Left.state
                     /\ b \in Range(succs[a]) /\ in[b] # None => in'[b] = Merge(in[b], Left.state)
                     /\ in[b] \in State \cup {None} /\ in'[b] \in State \cup {None}
                     /\ b \in Range(succs[a]) => /\ in'[b] \in State
                                                 /\ Left.state.held \subseteq in'[b].held
                     /\ in[b] # None => in'[b] \in State /\ in[b].held \subseteq in'[b].held
<1> DEFINE a == Head(unwalked)
           Reaching(s) == IF in[s] = None THEN Left.state ELSE Merge(in[s], Left.state)
<1>1. /\ InputOK /\ unwalked \in Seq(Block) /\ Distinct(unwalked)
      /\ (LoopsHaveHeads => InOrder(unwalked))
      /\ in \in [Block -> State \cup {None}] /\ reports \in Found
  BY DEF TypeInv, OrderInv
<1>2. unwalked # <<>> /\ unwalked' = Tail(unwalked) /\ UNCHANGED input  BY DEF WalkBlock
<1>3. a \in Block  BY <1>1, <1>2, TailIs
<1>4. Entered \in Walker
  <2>1. (IF in[a] = None THEN Empty ELSE in[a]) \in State  BY <1>1, <1>3, EmptyIs
  <2> QED  BY <1>1, <2>1 DEF Entered, Walker, Found
<1>5. Left \in Walker /\ reports \subseteq Left.found
  <2>1. Left \in Walker /\ Entered.found \subseteq Left.found  BY <1>1, <1>3, <1>4, BodyGrows DEF Left
  <2> QED  BY <2>1 DEF Entered
<1>6. Left.state \in State /\ Left.found \in Found  BY <1>5, WalkerIs DEF Found
<1>7. /\ in' = [s \in Block |-> IF s \in Range(succs[a]) THEN Reaching(s) ELSE in[s]]
      /\ reports' = IF succs[a] = <<>> THEN Deferred(Left).found ELSE Left.found
  BY DEF WalkBlock, Entered, Left
<1>8. Deferred(Left) \in Walker /\ Left.found \subseteq Deferred(Left).found  BY <1>5, DeferredGrows
<1>9. reports' \in Found /\ Left.found \subseteq reports'
  <2>1. Deferred(Left).found \in Found  BY <1>8, WalkerIs DEF Found
  <2> QED  BY <1>6, <1>7, <1>8, <2>1
<1>10. ASSUME NEW b \in Block
       PROVE  /\ b \notin Range(succs[a]) => in'[b] = in[b]
              /\ b \in Range(succs[a]) /\ in[b] = None => in'[b] = Left.state
              /\ b \in Range(succs[a]) /\ in[b] # None => in'[b] = Merge(in[b], Left.state)
              /\ in[b] \in State \cup {None} /\ in'[b] \in State \cup {None}
              /\ b \in Range(succs[a]) => in'[b] \in State /\ Left.state.held \subseteq in'[b].held
              /\ in[b] # None => in'[b] \in State /\ in[b].held \subseteq in'[b].held
  <2>1. in'[b] = IF b \in Range(succs[a]) THEN Reaching(b) ELSE in[b]  BY <1>7
  <2>2. in[b] \in State \cup {None}  BY <1>1
  <2> HIDE DEF a
  <2>3. CASE b \notin Range(succs[a])  BY <2>1, <2>2, <2>3
  <2>4. CASE b \in Range(succs[a]) /\ in[b] = None  BY <1>6, <2>1, <2>4
  <2>5. CASE b \in Range(succs[a]) /\ in[b] # None
    <3>1. in[b] \in State /\ in'[b] = Merge(in[b], Left.state)  BY <2>1, <2>2, <2>5
    <3>2. Merge(in[b], Left.state) \in State
          /\ Merge(in[b], Left.state).held = in[b].held \cup Left.state.held
      BY <1>6, <3>1, MergeIs
    <3> QED  BY <2>5, <3>1, <3>2
  <2> QED  BY <2>3, <2>4, <2>5
<1>11. in' \in [Block -> State \cup {None}]
  <2>1. in' = [s \in Block |-> in'[s]]  BY <1>7
  <2> QED  BY <1>10, <2>1
<1> QED  BY <1>1, <1>2, <1>3, <1>4, <1>5, <1>7, <1>9, <1>10, <1>11

\* What leaves the first block follows each run to it.
LEMMA LeftFollows ==
    ASSUME TypeInv, ReachInv, DeferInv, WalkBlock, Scope,
           NEW p \in Runs, Last(p) = Head(unwalked),
           NEW heap \in Heaps, NEW binding \in Bindings
    PROVE  /\ Follows(heap, binding, Left, Ran(heap, binding, p))
           /\ DefersAgree => Alike(Left.state.deferred, Ran(heap, binding, p).later)
<1> DEFINE a == Head(unwalked)
           before == Ran(heap, binding, Front(p))
<1>1. /\ unwalked \in Seq(Block) /\ unwalked # <<>> /\ a \in Block /\ InputOK
      /\ Distinct(unwalked) /\ InOrder(unwalked)
  BY WalkIs DEF Scope
<1>2. \A n \in 1 .. Len(p) - 1 : ~Lies(p[n], unwalked)  BY <1>1, BeforeFirst
<1>3. in[a] # None /\ Ahead(heap, binding, p, in[a], reports)  BY <1>2 DEF ReachInv
<1>4. Entered = [state |-> in[a], found |-> reports]  BY <1>3 DEF Entered
<1>5. Follows(heap, binding, Entered, before)  BY <1>3, <1>4 DEF Ahead
<1>6. Kept  BY <1>1, ParentIs
<1>7. Ran(heap, binding, p) = RunBlock(heap, binding, before, a)  BY <1>1, FrontOfRun
<1>8. /\ Follows(heap, binding, Left, Ran(heap, binding, p))
      /\ Alike(Entered.state.deferred, before.later)
            => Alike(Left.state.deferred, Ran(heap, binding, p).later)
  BY <1>1, <1>5, <1>6, <1>7, BodyFollows DEF Left
<1>9. ASSUME DefersAgree  PROVE Alike(Entered.state.deferred, before.later)
  <2>1. Lies(a, unwalked)  BY <1>1, TailIs
  <2>2. SameDefers(heap, binding, p, in[a].deferred)  BY <1>3, <1>9, <2>1 DEF DeferInv
  <2>3. Entered.state.deferred = in[a].deferred  BY <1>4
  <2> QED  BY <2>2, <2>3 DEF SameDefers
<1> QED  BY <1>8, <1>9

LEMMA TypeStep ==
    ASSUME TypeInv, WalkBlock
    PROVE  TypeInv'
<1>1. /\ unwalked \in Seq(Block) /\ unwalked # <<>> /\ InputOK /\ Distinct(unwalked)
      /\ (LoopsHaveHeads => InOrder(unwalked)) /\ unwalked' = Tail(unwalked) /\ UNCHANGED input
      /\ in' \in [Block -> State \cup {None}] /\ reports' \in Found
  BY WalkIs
<1>2. /\ Runs' = Runs /\ Block' = Block /\ (InputOK' <=> InputOK)
      /\ (LoopsHaveHeads' <=> LoopsHaveHeads)
  BY <1>1, RunsStay
<1>3. unwalked' \in Seq(Block) /\ Distinct(Tail(unwalked)) /\ (InOrder(unwalked) => InOrder(Tail(unwalked)))
  BY <1>1, TailIs, OrderStays
<1>4. Distinct(unwalked)'
  <2>1. \A i, j \in 1 .. Len(unwalked') : unwalked'[i] = unwalked'[j] => i = j
    BY <1>1, <1>3 DEF Distinct
  <2> QED  BY <2>1 DEF Distinct
<1>5. (LoopsHaveHeads => InOrder(unwalked))'
  <2> SUFFICES ASSUME LoopsHaveHeads  PROVE InOrder(unwalked)'  BY <1>2
  <2>1. \A p \in Runs : \A n \in 1 .. Len(p) - 1, i \in 1 .. Len(unwalked') :
            unwalked'[i] = p[n] => \E j \in i + 1 .. Len(unwalked') : unwalked'[j] = p[n + 1]
    BY <1>1, <1>3 DEF InOrder
  <2> QED  BY <1>2, <2>1 DEF InOrder
<1>6. InputOK'  BY <1>1, <1>2
<1> QED  BY <1>1, <1>2, <1>3, <1>4, <1>5, <1>6 DEF TypeInv, OrderInv

LEMMA ReachStep ==
    ASSUME TypeInv, ReachInv, DeferInv, WalkBlock
    PROVE  ReachInv'
<1> DEFINE a == Head(unwalked)
           T == Tail(unwalked)
<1>1. /\ unwalked \in Seq(Block) /\ unwalked # <<>> /\ a \in Block /\ InputOK
      /\ (LoopsHaveHeads => InOrder(unwalked)) /\ unwalked' = T /\ UNCHANGED input
      /\ Left \in Walker /\ reports \in Found /\ reports' \in Found
      /\ reports \subseteq Left.found /\ Left.found \subseteq reports'
  BY WalkIs
<1>2. ASSUME Scope, NEW p \in Runs, NEW heap \in Heaps, NEW binding \in Bindings,
             \A n \in 1 .. Len(p) - 1 : ~Lies(p[n], T)
      PROVE  in'[Last(p)] # None /\ Ahead(heap, binding, p, in'[Last(p)], reports')
  <2> DEFINE b == Last(p)
             now == [state |-> in'[b], found |-> reports']
             r == Ran(heap, binding, Front(p))
  <2>1. b \in Block /\ Len(p) \in Nat /\ Len(p) > 0 /\ p \in Seq(Block)  BY <1>1, FrontOfRun
  <2>2. ASSUME in'[b] \in State  PROVE now \in Walker /\ now.state = in'[b] /\ now.found = reports' /\ in'[b] # None
    BY <1>1, <2>2, NoState DEF Walker, Found
  <2> HIDE DEF now
  <2>3. CASE \A n \in 1 .. Len(p) - 1 : ~Lies(p[n], unwalked)
    <3> DEFINE was == [state |-> in[b], found |-> reports]
    <3>1. in[b] # None /\ Follows(heap, binding, was, r)  BY <1>2, <2>3 DEF ReachInv, Ahead
    <3>2. in'[b] \in State /\ in[b].held \subseteq in'[b].held  BY <2>1, <3>1, WalkIs
    <3>3. was.state.held \subseteq now.state.held /\ was.found \subseteq now.found
      BY <1>1, <2>2, <3>2
    <3> HIDE DEF was, r
    <3>4. Follows(heap, binding, now, r)  BY <2>2, <3>1, <3>2, <3>3, FollowsMore
    <3> QED  BY <2>2, <3>2, <3>4 DEF Ahead, now, r
  <2>4. CASE \E n \in 1 .. Len(p) - 1 : Lies(p[n], unwalked)
    <3> DEFINE N == Len(p) - 1
    <3>1. PICK n \in 1 .. N : Lies(p[n], unwalked)  BY <2>4
    <3>2. N \in 1 .. Len(p)  BY <2>1, <3>1
    <3> DEFINE q == SubSeq(p, 1, N)
    <3>3. p[N] = a
      <4>1. n = N /\ p[n] = a  BY <1>1, <1>2, <3>1, <3>2, JustBefore DEF Scope
      <4> QED  BY <4>1
    <3>4. q \in Runs /\ Last(q) = p[N]
      <4>1. succs \in Shape  BY <1>1 DEF InputOK
      <4> HIDE DEF N
      <4> QED  BY <3>2, <4>1, PrefixIsRun
    <3>5. q = Front(p)  BY DEF Front
    <3>6. Follows(heap, binding, Left, Ran(heap, binding, q))
      <4> HIDE DEF q, N
      <4> QED  BY <1>2, <3>3, <3>4, LeftFollows
    <3>7. b \in Range(succs[a])
      <4>1. b = p[Len(p)] /\ N \in 1 .. Len(p) - 1 /\ N + 1 = Len(p)  BY <2>1, <3>1 DEF Last
      <4>2. \A m \in 1 .. Len(p) - 1 : p[m + 1] \in Range(succs[p[m]])  BY <1>1, RunIs DEF InputOK
      <4>3. p[N + 1] \in Range(succs[p[N]])  BY <4>1, <4>2
      <4> QED  BY <3>3, <4>1, <4>3
    <3>8. in'[b] \in State /\ Left.state.held \subseteq in'[b].held  BY <2>1, <3>7, WalkIs
    <3> HIDE DEF b, r, q, N
    <3>9. Left.state.held \subseteq now.state.held /\ Left.found \subseteq now.found
      BY <1>1, <2>2, <3>8
    <3>10. Follows(heap, binding, Left, r)  BY <3>5, <3>6 DEF r
    <3>11. Follows(heap, binding, now, r)  BY <2>2, <3>8, <3>9, <3>10, FollowsMore
    <3> QED  BY <2>2, <3>8, <3>11 DEF Ahead, now, r, b
  <2> QED  BY <2>3, <2>4
<1>3. /\ Runs' = Runs /\ (Scope' <=> Scope)
      /\ \A heap, binding, p, s, found :
            Ahead(heap, binding, p, s, found)' <=> Ahead(heap, binding, p, s, found)
  BY <1>1, RunsStay, InvStays
<1> HIDE DEF T
<1>4. \A x : Lies(x, unwalked)' <=> Lies(x, T)  BY <1>1 DEF Lies
<1> SUFFICES ASSUME Scope', NEW p \in Runs', NEW heap \in Heaps, NEW binding \in Bindings,
                    NEW s, NEW found, s = in'[Last(p)], found = reports',
                    \A n \in 1 .. Len(p) - 1 : ~Lies(p[n], unwalked)'
             PROVE  s # None /\ Ahead(heap, binding, p, s, found)'
  BY DEF ReachInv
<1>5. p \in Runs /\ Scope /\ \A n \in 1 .. Len(p) - 1 : ~Lies(p[n], T)  BY <1>3, <1>4
<1>6. s # None /\ Ahead(heap, binding, p, s, found)  BY <1>2, <1>5
<1> QED  BY <1>3, <1>6

LEMMA DeferStep ==
    ASSUME TypeInv, ReachInv, DeferInv, WalkBlock
    PROVE  DeferInv'
<1> DEFINE a == Head(unwalked)
           T == Tail(unwalked)
<1>1. /\ unwalked \in Seq(Block) /\ unwalked # <<>> /\ a \in Block /\ InputOK /\ Distinct(unwalked)
      /\ (LoopsHaveHeads => InOrder(unwalked)) /\ unwalked' = T /\ UNCHANGED input
      /\ Left \in Walker
  BY WalkIs
<1>2. ASSUME Scope, DefersAgree, NEW p \in Runs, NEW heap \in Heaps, NEW binding \in Bindings,
             Lies(Last(p), T), Last(p) \in Range(succs[a])
      PROVE  SameDefers(heap, binding, p, Left.state.deferred)
  <2> DEFINE b == Last(p)
  <2>0. succs \in Shape  BY <1>1 DEF InputOK
  <2>1. PICK q \in Runs : Last(q) = a  BY <1>1, <2>0, AllReached
  <2>2. Alike(Left.state.deferred, Ran(heap, binding, q).later)  BY <1>2, <2>1, LeftFollows
  <2>3. \A n \in 1 .. Len(q) - 1 : ~Lies(q[n], unwalked)
    BY <1>1, <1>2, <2>1, BeforeFirst DEF Scope
  <2>4. ~Lies(a, T) /\ (Lies(b, T) => Lies(b, unwalked))  BY <1>1, OrderStays, TailIs
  <2>5. ASSUME NEW n \in 1 .. Len(q), q[n] = b  PROVE FALSE
    <3>1. Len(q) \in Nat /\ Last(q) = q[Len(q)]  BY <1>1, FrontOfRun
    <3>2. CASE n = Len(q)  BY <1>2, <2>1, <2>4, <2>5, <3>1, <3>2
    <3>3. CASE n # Len(q)
      <4>1. n \in 1 .. Len(q) - 1  BY <3>1, <3>3
      <4> QED  BY <1>2, <2>3, <2>4, <2>5, <4>1
    <3> QED  BY <3>2, <3>3
  <2> DEFINE l == Append(q, b)
  <2>6. l \in Runs /\ Last(l) = b /\ Front(l) = q
    <3>1. b \in Range(succs[Last(q)])  BY <1>2, <2>1
    <3> HIDE DEF b
    <3> QED  BY <2>0, <2>5, <3>1, LongerRun
  <2> HIDE DEF l
  <2>7. Ran(heap, binding, Front(p)).later = Ran(heap, binding, Front(l)).later
    BY <1>2, <2>6 DEF DefersAgree, Runs
  <2> QED  BY <2>2, <2>6, <2>7 DEF SameDefers
<1>3. ASSUME Scope, DefersAgree, NEW p \in Runs, NEW heap \in Heaps, NEW binding \in Bindings,
             Lies(Last(p), T), in'[Last(p)] # None
      PROVE  SameDefers(heap, binding, p, in'[Last(p)].deferred)
  <2> DEFINE b == Last(p)
  <2>1. b \in Block  BY <1>1, FrontOfRun
  <2>2. Lies(b, unwalked)  BY <1>1, <1>3, TailIs
  <2>3. in[b] # None => SameDefers(heap, binding, p, in[b].deferred)  BY <1>3, <2>2 DEF DeferInv
  <2>4. CASE b \notin Range(succs[a])
    <3>1. in'[b] = in[b]  BY <2>1, <2>4, WalkIs
    <3> QED  BY <1>3, <2>3, <3>1
  <2>5. CASE b \in Range(succs[a]) /\ in[b] = None
    <3>1. in'[b] = Left.state  BY <2>1, <2>5, WalkIs
    <3> QED  BY <1>2, <1>3, <2>5, <3>1
  <2>6. CASE b \in Range(succs[a]) /\ in[b] # None
    <3>1. in'[b] = Merge(in[b], Left.state) /\ in[b] \in State  BY <2>1, <2>6, WalkIs
    <3>2. Left.state \in State  BY <1>1, WalkerIs
    <3>3. in'[b].deferred = Left.state.deferred \/ in'[b].deferred = in[b].deferred
      BY <3>1, <3>2, MergeIs
    <3> QED  BY <1>2, <1>3, <2>3, <2>6, <3>3
  <2> QED  BY <2>4, <2>5, <2>6
<1>4. /\ Runs' = Runs /\ (Scope' <=> Scope) /\ (DefersAgree' <=> DefersAgree)
      /\ \A heap, binding, p, d : SameDefers(heap, binding, p, d)' <=> SameDefers(heap, binding, p, d)
  BY <1>1, RunsStay, InvStays
<1> HIDE DEF T
<1>5. \A x : Lies(x, unwalked)' <=> Lies(x, T)  BY <1>1 DEF Lies
<1> SUFFICES ASSUME Scope', DefersAgree', NEW p \in Runs', NEW heap \in Heaps, NEW binding \in Bindings,
                    NEW d, Lies(Last(p), unwalked)', in'[Last(p)] # None, d = in'[Last(p)].deferred
             PROVE  SameDefers(heap, binding, p, d)'
  BY DEF DeferInv
<1>6. SameDefers(heap, binding, p, d)  BY <1>3, <1>4, <1>5
<1> QED  BY <1>4, <1>6

LEMMA DoneStep ==
    ASSUME TypeInv, ReachInv, DeferInv, DoneInv, WalkBlock
    PROVE  DoneInv'
<1> DEFINE a == Head(unwalked)
           T == Tail(unwalked)
<1>1. /\ unwalked \in Seq(Block) /\ unwalked # <<>> /\ a \in Block /\ InputOK
      /\ (LoopsHaveHeads => InOrder(unwalked)) /\ unwalked' = T /\ UNCHANGED input
      /\ Left \in Walker /\ reports \in Found /\ reports' \in Found
      /\ reports \subseteq Left.found /\ Left.found \subseteq reports'
      /\ succs[a] = <<>> => reports' = Deferred(Left).found
  BY WalkIs
<1>2. ASSUME Scope, NEW p \in Runs, NEW heap \in Heaps, NEW binding \in Bindings,
             \A n \in 1 .. Len(p) : ~Lies(p[n], T)
      PROVE  Shown(heap, binding, p, reports')
  <2> DEFINE r == Ran(heap, binding, p)
  <2>1. Len(p) \in Nat /\ Len(p) > 0 /\ Last(p) = p[Len(p)] /\ r \in RunOf  BY <1>1, FrontOfRun
  <2>2. CASE \A n \in 1 .. Len(p) : ~Lies(p[n], unwalked)
    <3>1. Shown(heap, binding, p, reports)  BY <1>2, <2>2 DEF DoneInv
    <3> QED  BY <1>1, <3>1 DEF Shown, Told
  <2>3. CASE \E n \in 1 .. Len(p) : Lies(p[n], unwalked)
    <3>1. PICK n \in 1 .. Len(p) : Lies(p[n], unwalked)  BY <2>3
    <3>2. Len(p) \in 1 .. Len(p)  BY <2>1
    <3>3. n = Len(p) /\ p[n] = a  BY <1>1, <1>2, <3>1, <3>2, JustBefore DEF Scope
    <3>4. Last(p) = a  BY <2>1, <3>3
    <3>5. /\ Follows(heap, binding, Left, r)
          /\ DefersAgree => Alike(Left.state.deferred, r.later)
      BY <1>2, <3>4, LeftFollows
    <3>6. Told(r, Left.found)  BY <3>5 DEF Follows
    <3> HIDE DEF r
    <3>7. CASE succs[a] # <<>>
      <4>1. Ends(heap, binding, p) = r  BY <3>4, <3>7 DEF Ends, r
      <4> QED  BY <1>1, <3>6, <4>1 DEF Shown, Told
    <3>8. CASE succs[a] = <<>>
      <4>1. Ends(heap, binding, p) = Return(heap, binding, r)  BY <3>4, <3>8 DEF Ends, r
      <4>2. CASE DefersAgree
        <5>1. Kept  BY <1>1, <1>2, ParentIs
        <5>2. Told(Return(heap, binding, r), Deferred(Left).found)
          BY <3>5, <4>2, <5>1, DeferredFollows
        <5> QED  BY <1>1, <3>8, <4>1, <5>2 DEF Shown
      <4>3. CASE ~DefersAgree
        <5>1. \A m \in 1 .. Len(r.later) : At(r.later[m]).deferred  BY <3>5 DEF Follows
        <5>2. Told(Return(heap, binding, r), Left.found)
          BY <1>1, <2>1, <3>6, <4>3, <5>1, ReturnOwesNothing
        <5> QED  BY <1>1, <4>1, <5>2 DEF Shown, Told
      <4> QED  BY <4>2, <4>3
    <3> QED  BY <3>7, <3>8
  <2> QED  BY <2>2, <2>3
<1>3. /\ Runs' = Runs /\ (Scope' <=> Scope)
      /\ \A heap, binding, p, found : Shown(heap, binding, p, found)' <=> Shown(heap, binding, p, found)
  BY <1>1, RunsStay, InvStays
<1> HIDE DEF T
<1>4. \A x : Lies(x, unwalked)' <=> Lies(x, T)  BY <1>1 DEF Lies
<1> SUFFICES ASSUME Scope', NEW p \in Runs', NEW heap \in Heaps, NEW binding \in Bindings,
                    NEW found, found = reports', \A n \in 1 .. Len(p) : ~Lies(p[n], unwalked)'
             PROVE  Shown(heap, binding, p, found)'
  BY DEF DoneInv
<1>5. p \in Runs /\ Scope /\ \A n \in 1 .. Len(p) : ~Lies(p[n], T)  BY <1>3, <1>4
<1>6. Shown(heap, binding, p, found)  BY <1>2, <1>5
<1> QED  BY <1>3, <1>6

-----------------------------------------------------------------------------
(***************************************************************************)
(* The walk keeps the invariant, and at its end it says what the runs do.  *)
(***************************************************************************)
LEMMA InitTyped ==
    ASSUME HierInit
    PROVE  /\ TypeInv /\ unwalked = BlockOrder /\ reports = {}
           /\ \A b \in Block : Lies(b, unwalked)
           /\ in[Entry] = Empty /\ \A b \in Block : b # Entry => in[b] = None
<1>1. /\ succs \in Shape /\ lockedBy \in {"method", "field", "declared"}
      /\ unwalked = BlockOrder /\ reports = {}
      /\ in = [b \in Block |-> IF b = Entry THEN Empty ELSE None]
  BY DEF HierInit
<1>2. PICK first \in BoundedSeq(Instr, Room), blocks \in SUBSET (DOMAIN succs \ {Entry}) :
        \E one \in [blocks -> Instr] :
           code = [b \in DOMAIN succs |-> IF b = Entry THEN first
                                          ELSE IF b \in blocks THEN <<one[b]>> ELSE <<>>]
  BY DEF HierInit
<1>3. PICK one \in [blocks -> Instr] :
        code = [b \in Block |-> IF b = Entry THEN first
                                ELSE IF b \in blocks THEN <<one[b]>> ELSE <<>>]
  BY <1>2 DEF Block
<1>4. first \in Seq(Instr)
  <2>1. PICK m \in 0 .. Room : first \in [1 .. m -> Instr]  BY DEF BoundedSeq, SeqOf
  <2>2. m \in Nat  BY <2>1, HierarchyAssumption
  <2> QED  BY <2>1, <2>2
<1>5. code \in [Block -> Seq(Instr)]
  <2>1. ASSUME NEW b \in Block
        PROVE  (IF b = Entry THEN first ELSE IF b \in blocks THEN <<one[b]>> ELSE <<>>) \in Seq(Instr)
    <3>1. CASE b \in blocks
      <4>1. one[b] \in Instr  BY <1>3, <3>1
      <4> QED  BY <1>4, <3>1, <4>1
    <3>2. CASE b \notin blocks  BY <1>4, <3>2
    <3> QED  BY <3>1, <3>2
  <2> QED  BY <1>3, <2>1
<1>6. InputOK  BY <1>1, <1>5 DEF InputOK
<1>7. /\ unwalked \in Seq(Block) /\ Distinct(unwalked) /\ \A b \in Block : Lies(b, unwalked)
      /\ LoopsHaveHeads => InOrder(unwalked)
  BY <1>1, <1>6, BlockOrderIs
<1>8. in \in [Block -> State \cup {None}]  BY <1>1, EmptyIs
<1>9. Entry \in Block  BY <1>1, GraphIs
<1> QED  BY <1>1, <1>6, <1>7, <1>8, <1>9 DEF TypeInv, OrderInv, Found

LEMMA HierInitInv == HierInit => HierInv
<1> SUFFICES ASSUME HierInit  PROVE HierInv  OBVIOUS
<1>1. /\ TypeInv /\ reports = {} /\ \A b \in Block : Lies(b, unwalked)
      /\ in[Entry] = Empty /\ \A b \in Block : b # Entry => in[b] = None
  BY InitTyped
<1>2. InputOK  BY <1>1 DEF TypeInv
<1>3. ASSUME NEW p \in Runs
      PROVE  /\ Len(p) \in Nat /\ Len(p) > 0 /\ p[1] = Entry /\ Last(p) \in Block /\ Last(p) = p[Len(p)]
             /\ (\A n \in 1 .. Len(p) : Lies(p[n], unwalked))
             /\ \A m, n \in 1 .. Len(p) : p[m] = p[n] => m = n
  BY <1>1, <1>2, RunIs DEF InputOK
<1>4. ASSUME NEW p \in Runs, Len(p) = 1, NEW heap \in Heaps, NEW binding \in Bindings
      PROVE  Ran(heap, binding, Front(p)) = Begin
  <2>1. Front(p) \in Seq(Block) /\ Len(Front(p)) = 0
    <3>1. p \in Seq(Block) /\ Len(p) > 0 /\ Len(p) - 1 = 0  BY <1>2, <1>4, FrontOfRun
    <3> QED  BY <3>1, FrontIs
  <2>2. Front(p) = <<>>  BY <2>1
  <2> QED  BY <1>2, <2>2, RanOfNone
<1>5. ReachInv
  <2> SUFFICES ASSUME Scope, NEW p \in Runs, NEW heap \in Heaps, NEW binding \in Bindings,
                      NEW s, NEW found, s = in[Last(p)], found = reports,
                      \A n \in 1 .. Len(p) - 1 : ~Lies(p[n], unwalked)
               PROVE  s # None /\ Ahead(heap, binding, p, s, found)
    BY DEF ReachInv
  <2>1. Len(p) = 1
    <3>1. ASSUME Len(p) # 1  PROVE FALSE
      <4>1. Len(p) \in Nat /\ Len(p) > 0  BY <1>3
      <4>2. 1 \in 1 .. Len(p)  BY <4>1
      <4>3. 1 \in 1 .. Len(p) - 1  BY <3>1, <4>1, <4>2, NotLast
      <4> QED  BY <1>3, <4>2, <4>3
    <3> QED  BY <3>1
  <2>2. s = Empty /\ found = {}  BY <1>1, <1>3, <2>1
  <2> DEFINE w == [state |-> s, found |-> found]
  <2>3. w \in Walker /\ w.found = {}  BY <2>2, EmptyIs DEF Walker
  <2>4. Begin \in RunOf /\ Begin.held = {} /\ Begin.climbs = {} /\ Begin.later = <<>>
    BY BeginIs DEF Begin
  <2>5. \A n \in 1 .. Len(Begin.later) : At(Begin.later[n]).deferred  BY <2>4
  <2> HIDE DEF w
  <2>6. Follows(heap, binding, w, Begin)
    BY <2>3, <2>4, <2>5 DEF Follows, Sound, Covers, Told
  <2>7. Ahead(heap, binding, p, s, found)  BY <1>4, <2>1, <2>6 DEF Ahead, w
  <2> QED  BY <2>2, <2>7, EmptyIs, NoState
<1>6. DeferInv
  <2> SUFFICES ASSUME NEW p \in Runs, NEW heap \in Heaps, NEW binding \in Bindings,
                      NEW d, in[Last(p)] # None, d = in[Last(p)].deferred
               PROVE  SameDefers(heap, binding, p, d)
    BY DEF DeferInv
  <2>1. Last(p) = Entry  BY <1>1, <1>3
  <2>2. Len(p) = 1
    <3>1. 1 \in 1 .. Len(p) /\ Len(p) \in 1 .. Len(p) /\ p[1] = p[Len(p)]  BY <1>3, <2>1
    <3> QED  BY <1>3, <3>1
  <2>3. d = <<>>  BY <1>1, <2>1, EmptyIs
  <2>4. Ran(heap, binding, Front(p)).later = <<>>  BY <1>4, <2>2 DEF Begin
  <2> QED  BY <2>3, <2>4 DEF SameDefers, Alike
<1>7. DoneInv
  <2>1. ASSUME NEW p \in Runs, \A n \in 1 .. Len(p) : ~Lies(p[n], unwalked)  PROVE FALSE
    <3>1. 1 \in 1 .. Len(p)  BY <1>3
    <3> QED  BY <1>3, <2>1, <3>1
  <2> QED  BY <2>1 DEF DoneInv
<1> QED  BY <1>1, <1>5, <1>6, <1>7 DEF HierInv

\* A step that changes nothing keeps it.
LEMMA StutterStep ==
    ASSUME HierInv, UNCHANGED hierVars
    PROVE  HierInv'
<1>1. UNCHANGED input /\ unwalked' = unwalked /\ in' = in /\ reports' = reports
  BY DEF hierVars, input
<1>2. /\ Runs' = Runs /\ Block' = Block /\ (InputOK' <=> InputOK)
      /\ (LoopsHaveHeads' <=> LoopsHaveHeads) /\ (DefersAgree' <=> DefersAgree)
  BY <1>1, RunsStay
<1>3. /\ Scope' <=> Scope
      /\ \A heap, binding, p, s, found :
            Ahead(heap, binding, p, s, found)' <=> Ahead(heap, binding, p, s, found)
      /\ \A heap, binding, p, d : SameDefers(heap, binding, p, d)' <=> SameDefers(heap, binding, p, d)
      /\ \A heap, binding, p, found : Shown(heap, binding, p, found)' <=> Shown(heap, binding, p, found)
  BY <1>1, InvStays
<1>4. /\ (Distinct(unwalked)' <=> Distinct(unwalked)) /\ (InOrder(unwalked)' <=> InOrder(unwalked))
      /\ \A x : Lies(x, unwalked)' <=> Lies(x, unwalked)
  BY <1>1, <1>2 DEF Distinct, InOrder, Lies
<1>5. TypeInv'
  <2>1. InputOK' /\ OrderInv'  BY <1>1, <1>2, <1>4 DEF HierInv, TypeInv, OrderInv
  <2> QED  BY <1>1, <1>2, <2>1 DEF HierInv, TypeInv
<1>6. ReachInv'
  <2> SUFFICES ASSUME Scope', NEW p \in Runs', NEW heap \in Heaps, NEW binding \in Bindings,
                      NEW s, NEW found, s = in'[Last(p)], found = reports',
                      \A n \in 1 .. Len(p) - 1 : ~Lies(p[n], unwalked)'
               PROVE  s # None /\ Ahead(heap, binding, p, s, found)'
    BY DEF ReachInv
  <2>1. s # None /\ Ahead(heap, binding, p, s, found)
    BY <1>1, <1>2, <1>3, <1>4 DEF HierInv, ReachInv
  <2> QED  BY <1>3, <2>1
<1>7. DeferInv'
  <2> SUFFICES ASSUME Scope', DefersAgree', NEW p \in Runs', NEW heap \in Heaps, NEW binding \in Bindings,
                      NEW d, Lies(Last(p), unwalked)', in'[Last(p)] # None, d = in'[Last(p)].deferred
               PROVE  SameDefers(heap, binding, p, d)'
    BY DEF DeferInv
  <2>1. SameDefers(heap, binding, p, d)  BY <1>1, <1>2, <1>3, <1>4 DEF HierInv, DeferInv
  <2> QED  BY <1>3, <2>1
<1>8. DoneInv'
  <2> SUFFICES ASSUME Scope', NEW p \in Runs', NEW heap \in Heaps, NEW binding \in Bindings,
                      NEW found, found = reports', \A n \in 1 .. Len(p) : ~Lies(p[n], unwalked)'
               PROVE  Shown(heap, binding, p, found)'
    BY DEF DoneInv
  <2>1. Shown(heap, binding, p, found)  BY <1>1, <1>2, <1>3, <1>4 DEF HierInv, DoneInv
  <2> QED  BY <1>3, <2>1
<1> QED  BY <1>5, <1>6, <1>7, <1>8 DEF HierInv

LEMMA HierStep == HierInv /\ [HierNext]_hierVars => HierInv'
<1> SUFFICES ASSUME HierInv, [HierNext]_hierVars  PROVE HierInv'  OBVIOUS
<1>1. CASE WalkBlock
  BY <1>1, TypeStep, ReachStep, DeferStep, DoneStep DEF HierInv
<1>2. CASE UNCHANGED hierVars  BY <1>2, StutterStep
<1> QED  BY <1>1, <1>2 DEF HierNext

\* At the end no block is left, and every run is through walked blocks.
LEMMA InvShowsClimbs == HierInv => ClimbIsReported
<1> SUFFICES ASSUME HierInv, AllWalked, LoopsHaveHeads, EdgeField(struct) = Parent,
                    lockedBy # "declared", NEW r \in Outcomes, NEW c \in r.climbs,
                    ~r.twice, ReadUp(c), At(c.at).deferred => DefersAgree
             PROVE  c.at \in reports
  BY DEF ClimbIsReported
<1>1. PICK heap \in Heaps, binding \in Bindings, p \in Runs : r = Outcome(heap, binding, p)
  BY DEF Outcomes, Runs
<1>2. \A x : ~Lies(x, unwalked)  BY DEF AllWalked, Lies
<1>3. Scope  BY DEF Scope
<1>4. Shown(heap, binding, p, reports)  BY <1>2, <1>3 DEF HierInv, DoneInv
<1>5. Outcome(heap, binding, p) = Ends(heap, binding, p)  BY DEF Outcome, Ends
<1> QED  BY <1>1, <1>4, <1>5 DEF Shown, Told, Due

\* Wherever a run of the function takes the lock of an instance that it read, through the
\* parent field, from the value whose lock it holds, the hierarchy check reports the
\* acquisition: on runs that enter no block twice, in every function whose loops have heads, for every shape of the type,
\* every graph of instances and every number of hops.
THEOREM ClimbsAreReported == HierSpec => []ClimbIsReported
<1>1. HierSpec => []HierInv
  BY HierInitInv, HierStep, PTL DEF HierSpec
<1> QED  BY <1>1, InvShowsClimbs, PTL
=============================================================================
