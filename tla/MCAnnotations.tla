--------------------------- MODULE MCAnnotations ---------------------------
(* Instances of Annotations: two names, of two locks or of the same one.   *)
EXTENDS Annotations

CONSTANTS n1, n2

Of(place, kind) == [place |-> place, kind |-> kind]
\* What one name may be; the other is a parameter that is an RWMutex.
Sorts == {[n \in Name |-> IF n = n1 THEN s ELSE Of("parameter", "RWMutex")] :
            s \in {Of("parameter", "RWMutex"), Of("parameter", "Mutex"), Of("result", "RWMutex"),
                   Of("global", "RWMutex"), Of("nowhere", "RWMutex"), Of("parameter", "other")}}

Plain == [force |-> FALSE, exempt |-> FALSE, ignored |-> FALSE, wants |-> <<>>,
          absent |-> {}, fresh |-> {}, access |-> "write"]
Expecting(w) == [Plain EXCEPT !.wants = w]
Sites == {Plain, [Plain EXCEPT !.ignored = TRUE],
          [Plain EXCEPT !.absent = {n1}], [Plain EXCEPT !.fresh = {n1}],
          [Plain EXCEPT !.exempt = TRUE, !.access = "read", !.wants = <<<<Anything, n1>>>>],
          [Plain EXCEPT !.force = TRUE, !.wants = <<<<Anything, Anything>>>>],
          Expecting(<<<<Anything, Anything>>, <<Anything, Anything>>>>),
          Expecting(<<<<"required", Anything>>, <<Anything, n1>>>>)}

LockSymmetry == Permutations(Lock)

\* For the run about ignored functions.
PlainSites == {Plain}
=============================================================================
