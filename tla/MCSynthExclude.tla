--------------------------- MODULE MCSynthExclude ---------------------------
(* Packages of SynthExclude: three methods of one type with the locks mu   *)
(* and nu; what f may do is varied most, its closures included.            *)
EXTENDS SynthExclude, SequencesExt

CONSTANTS mu, nu, f, g, h

Takes(l, mode) == [do |-> "lock", of |-> l, mode |-> mode, own |-> TRUE]
Calls(m) == [do |-> "call", of |-> m, own |-> TRUE]
OnOther(op) == [op EXCEPT !.own = FALSE]

Body(ops) == [ops |-> ops, spawned |-> FALSE]
Go(ops) == [ops |-> ops, spawned |-> TRUE]

Leaf == { <<Body({})>>, <<Body({Takes(mu, "read")})>>, <<Body({Takes(mu, "write")})>>,
          <<Body({Takes(nu, "write")}), Body({Takes(mu, "read")})>> }
Caller(x, y) == { <<Body({Calls(x)})>>, <<Body({Takes(mu, "read"), Calls(y)})>>,
                  <<Body({OnOther(Takes(mu, "write")), OnOther(Calls(x)), Calls(y)})>> }
Nested(x, y) == { <<Body({Calls(x)}), Body({Takes(nu, "read")}), Body({Calls(y)})>>,
                  <<Body({}), Go({Takes(mu, "write")}), Body({Calls(x)})>>,
                  <<Body({}), Body({}), Body({}), Body({Calls(y)}), Body({Calls(x)}),
                    Body({Takes(mu, "write")})>> }

Plain == [locks |-> [l \in Lock |-> "none"], ignore |-> FALSE]
Notes == {Plain, [Plain EXCEPT !.ignore = TRUE]}
         \cup {[Plain EXCEPT !.locks[mu] = d] : d \in {"entry", "exit", "excluded"}}

Bodies == {[m \in Method |-> CASE m = f -> x [] m = g -> y [] m = h -> z] :
             x \in Leaf \cup Caller(g, h) \cup Nested(g, h),
             y \in Leaf \cup Caller(h, f), z \in Leaf \cup Caller(f, g)}
Annotated(n) == [m \in Method |-> IF m = f THEN n ELSE Plain]

\* Every order of the functions without annotations, one order with them.
Packages ==
    {[code |-> c, order |-> o, declared |-> Annotated(Plain)] :
        c \in Bodies, o \in SetToSeqs(Method)}
    \cup {[code |-> [c EXCEPT ![h] = <<Body({Takes(mu, "write")})>>], order |-> <<f, g, h>>,
           declared |-> Annotated(n)] : c \in Bodies, n \in Notes}
=============================================================================
