------------------------------ MODULE MCFresh ------------------------------
(* Programs of Fresh: f builds an object or has it built by h, and uses it *)
(* with the help of g and h; straight on, in a branch or in a loop.        *)
EXTENDS Fresh

CONSTANTS val, mu, f, g, h

Op(do, v) == [do |-> do, v |-> v, of |-> None]
With(do, v, of) == [do |-> do, v |-> v, of |-> of]
Access(v) == With("access", v, val)

Plain(code, succs) == [code |-> code, succs |-> succs, freshParam |-> FALSE, returnsFresh |-> FALSE]
Straight(code) == Plain(<<code>>, <<{}>>)
Loop(before, loop, after) == Plain(<<before, loop, after>>, <<{2}, {2, 3}, {}>>)
Branch(before, one, after) == Plain(<<before, one, after>>, <<{2, 3}, {}, {}>>)

\* f: an operation on the object and an access, in the order they can be in.
Start == {Op("new", "x"), With("make", "x", h)}
Uses == {Op("share", "x"), With("point", "x", mu), With("point", "x", val), Op("put", "x"), Op("nest", "x"),
         With("call", "x", g), With("call", "x", h)}
Main == UNION {{ Straight(<<s, Access("x"), u, Op("expose", "x"), Access("x"), Op("return", "x")>>),
                 Loop(<<s>>, <<Access("x"), u>>, <<Access("x")>>),
                 Branch(<<s>>, <<u>>, <<Access("x")>>) } : s \in Start, u \in Uses}

\* g and h: what they do to what they are passed.
Helper(callee) == {Straight(<<>>), Straight(<<Op("share", "p")>>), Straight(<<With("point", "p", mu)>>),
                   Straight(<<Op("put", "p"), Op("unlock", "p")>>), Straight(<<Op("nest", "p"), Op("expose", "p")>>),
                   Straight(<<Op("put", "p"), With("call", "p", callee)>>),
                   Straight(<<With("point", "p", val)>>),
                   Branch(<<>>, <<With("call", "p", callee)>>, <<Access("p")>>)}
Declared == {[Straight(<<Access("p"), Op("put", "p")>>) EXCEPT !.freshParam = TRUE],
             [Loop(<<>>, <<Access("p")>>, <<Op("share", "p")>>) EXCEPT !.freshParam = TRUE],
             [Straight(<<With("point", "p", mu), Access("p")>>) EXCEPT !.freshParam = TRUE]}
Constructor == {[Straight(<<Op("new", "x"), u, Op("return", "x")>>) EXCEPT !.returnsFresh = TRUE] :
                  u \in {Access("x"), Op("share", "x"), Op("put", "x"), With("point", "x", mu), With("point", "x", val)}}

Makes(b) == \E i \in DOMAIN b.code : \E j \in DOMAIN b.code[i] : b.code[i][j].do = "make"
Packages ==
    {p \in {[x \in Function |-> CASE x = f -> m [] x = g -> n [] x = h -> k] :
              m \in Main, n \in Helper(h) \cup Declared, k \in Helper(g) \cup Declared \cup Constructor} :
        Makes(p[f]) <=> p[h].returnsFresh}

\* The object is used after the critical section that made it reachable, and
\* after the container it was put in is.
Sections == {[x \in Function |-> IF x = f
    THEN Straight(<<Op("new", "x")>> \o how \o <<Access("x")>>) ELSE Straight(<<>>)] :
        how \in {<<Op("put", "x"), Op("unlock", "x")>>, <<Op("nest", "x"), Op("expose", "x")>>}}
=============================================================================
