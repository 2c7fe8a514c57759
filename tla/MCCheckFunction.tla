-------------------------- MODULE MCCheckFunction --------------------------
(* Instances of CheckFunction and of LockGap on the same functions: the    *)
(* flow graphs of small structured programs over one lock, with every      *)
(* placement of a few calls.                                               *)
EXTENDS LockGap

CONSTANT mu

IfElse    == << <<2, 3>>, <<4>>, <<4>>, <<>> >>
EarlyExit == << <<2, 3>>, <<>>, <<>> >>
TwoIfs    == << <<2, 3>>, <<3>>, <<4, 5>>, <<5>>, <<>> >>
LoopExit  == << <<2>>, <<3, 5>>, <<4, 2>>, <<>>, <<>> >>

TwoWaysIn == << <<2, 3>>, <<3>>, <<2, 4>>, <<>> >>

Shapes == {IfElse, EarlyExit, TwoIfs, LoopExit, TwoWaysIn}

With(entry, exit, excluded, deferred) ==
    [entry |-> entry, exit |-> exit, excluded |-> excluded, deferred |-> deferred, body |-> None]
Takes == With({}, {mu}, {mu}, FALSE)
Drops == With({mu}, {}, {}, FALSE)
Needs == With({mu}, {mu}, {}, FALSE)
Later(c) == [c EXCEPT !.deferred = TRUE]
Of(body) == [With({}, {}, {}, FALSE) EXCEPT !.body = body]

\* A literal that uses the lock of its caller, one that takes it for itself and
\* defers the release, one that is deferred to release it for its caller.
Calls == {Takes, Drops, Needs, Later(Takes), Later(Drops),
          Of(<<Needs>>), Of(<<Takes, Later(Drops)>>), Later(Of(<<Drops>>))}
=============================================================================
