---------------------------- MODULE MCHierarchy ----------------------------
(* Instances of Hierarchy: a function on a queue q with every placement of  *)
(* a few calls of Lock and Unlock.                                          *)
EXTENDS Hierarchy

CONSTANTS q, up, got

\* The SSA builder numbers the blocks of a short circuit condition after the
\* branch they guard: block 2 is reached from block 3.
ShortCircuit == << <<3, 4>>, <<4>>, <<2, 4>>, <<>> >>
LoopExit     == << <<2>>, <<3, 4>>, <<2>>, <<>> >>
\* With goto: a loop that is entered at two places.
TwoEntries   == << <<2, 3>>, <<3>>, <<2, 4>>, <<>> >>
Shapes == {ShortCircuit, LoopExit, TwoEntries}

\* up := q.parent;  got := q.up(), which returns the parent
Ref(var, path) == [var |-> var, path |-> path]
Q      == Ref(q, <<>>)
QUp    == Ref(q, <<"parent">>)
Up     == Ref(up, <<>>)
UpUp   == Ref(up, <<"parent">>)
Locals == [var \in {up} |-> QUp]
Results == [var \in {got} |-> QUp]
Got    == Ref(got, <<>>)
QNext  == Ref(q, <<"next">>)

Does(op, e) == [op |-> op, of |-> e, deferred |-> FALSE]
Later(i) == [i EXCEPT !.deferred = TRUE]
Instrs == {Does("lock", Q), Does("unlock", Q), Does("lock", QUp), Does("unlock", QUp),
           Does("lock", Up), Does("lock", UpUp), Does("lock", Got),
           Does("lock", QNext), Later(Does("unlock", Q)), Later(Does("lock", Up))}

\* The parent annotated, after another field of the type; a single field that
\* is inferred; two of them, and an annotation on both at once, which is none.
Group1(name, edge) == [names |-> <<name>>, edge |-> edge, self |-> TRUE]
Structs == {[groups |-> <<Group1("next", FALSE), Group1("parent", TRUE)>>, infer |-> TRUE],
            [groups |-> <<Group1("parent", FALSE)>>, infer |-> TRUE],
            [groups |-> <<[names |-> <<"parent", "next">>, edge |-> TRUE, self |-> TRUE]>>, infer |-> TRUE]}

\* Four queues in a chain, q the second or third; "next" of each is the one below it.
Chain == [o \in 1 .. 4 |-> [field \in {"parent", "next"} |->
             IF field = "parent" THEN (IF o = 1 THEN None ELSE o - 1) ELSE IF o = 4 THEN None ELSE o + 1]]
AllHeaps == {Chain}
AllBindings == [{q} -> {2, 3}]
=============================================================================
