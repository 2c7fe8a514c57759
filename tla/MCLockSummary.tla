--------------------------- MODULE MCLockSummary ---------------------------
(* Programs of LockSummary: three functions f, g and h of one object with  *)
(* the locks a and b, the bodies small, the calls between them arbitrary;  *)
(* f may call itself.                                                      *)
EXTENDS LockSummary

CONSTANTS a, b, f, g, h

Do(what, of) == [do |-> what, of |-> of, deferred |-> FALSE]
Later(what, of) == [do |-> what, of |-> of, deferred |-> TRUE]
Wait == Do("wait", None)

\* A body without branches, and bodies with one.
Straight(code) == [code |-> <<code>>, succs |-> << <<>> >>, entry |-> {}]
Branch(before, then, after) ==
    [code |-> <<before, then, after>>, succs |-> << <<2, 3>>, <<3>>, <<>> >>, entry |-> {}]
Cycle(before, head, turn, after) ==
    [code |-> <<before, head, turn, after>>, succs |-> << <<2>>, <<4, 3>>, <<2>>, <<>> >>, entry |-> {}]
Fork(before, then, else, after) ==
    [code |-> <<before, then, else, after>>, succs |-> << <<2, 3>>, <<4>>, <<4>>, <<>> >>, entry |-> {}]
Tangle(before, one, other, after) ==
    [code |-> <<before, one, other, after>>, succs |-> << <<2, 3>>, <<3>>, <<2, 4>>, <<>> >>, entry |-> {}]
With(locks, bodies) == {[x EXCEPT !.entry = locks] : x \in bodies}

\* What the innermost function does: take the lock b, wait, or call back.
Inner(back) ==
    { Straight(<<>>),
      Straight(<<Do("lock", b), Do("unlock", b)>>),
      Straight(<<Wait>>),
      Straight(<<Do("call", back)>>),
      Branch(<<>>, <<Do("lock", b), Do("unlock", b)>>, <<Wait>>) }

\* A call with nothing held, under a lock, in the gap of the caller's lock, and
\* in both, on one path or the other.
Middle(callee) ==
    LET c == Do("call", callee)
        gap == {Straight(<<Do("unlock", a), c, Do("lock", a)>>),
                Straight(<<c, Do("unlock", a), c, Do("lock", a)>>),
                Straight(<<Do("unlock", a), Later("lock", a), c>>),
                Branch(<<Do("unlock", a)>>, <<c>>, <<Do("lock", a), c>>),
                Branch(<<>>, <<Do("unlock", a)>>, <<c>>),
                Branch(<<>>, <<Do("unlock", a), c, Do("lock", a)>>, <<c>>)}
    IN  {Straight(<<c>>), Straight(<<c, Do("lock", b), Do("unlock", b)>>),
         Straight(<<Do("lock", b), c, Do("unlock", b)>>)} \cup gap \cup With({a}, gap)

\* The caller that takes the lock; the last three are overlooked in part: branches
\* that defer differently, a call of itself, and a loop entered at two places.
Outer(callee) ==
    LET c == Do("call", callee)
    IN  { Straight(<<Do("lock", a), c, Do("unlock", a)>>),
          Straight(<<Do("lock", a), Later("unlock", a), c, c>>),
          Branch(<<Do("lock", a)>>, <<Do("unlock", a), Do("lock", a)>>, <<c, Do("unlock", a)>>),
          Branch(<<Do("lock", a), c>>, <<Wait>>, <<Do("unlock", a), c>>),
          Cycle(<<>>, <<Do("lock", a), c, Do("unlock", a)>>, <<c>>, <<>>),
          Cycle(<<Do("lock", a)>>, <<c>>, <<Do("unlock", a), Do("lock", a)>>, <<Do("unlock", a)>>),
          Cycle(<<>>, <<c>>, <<Do("lock", a)>>, <<Do("unlock", a)>>),
          Fork(<<Do("lock", a), Later("unlock", a)>>, <<Later("call", callee)>>, <<Later("wait", None)>>, <<>>),
          Branch(<<>>, <<Do("lock", a), Do("call", f), Do("unlock", a)>>, <<c>>),
          Tangle(<<>>, <<c>>, <<Do("lock", a)>>, <<Do("unlock", a)>>) }

ThreeFunctions ==
    {[x \in Function |-> CASE x = f -> o [] x = g -> m [] x = h -> i] :
        o \in Outer(g) \cup Outer(h), m \in Middle(h), i \in Inner(f) \cup Inner(g)}
=============================================================================
