------------------------- MODULE CheckFunctionProofs -------------------------
(***************************************************************************)
(* The walk of a function, for every set of locks, every set of flow       *)
(* graphs and every set of calls: it is well typed and never twice inside  *)
(* a block, it reports a function that has a wrong run, and a function     *)
(* that it reports has one.  And the search for lock gaps that follows it. *)
(***************************************************************************)
EXTENDS LockGap, FiniteSetTheorems, SequenceTheorems, WellFoundedInduction, TLAPS

-----------------------------------------------------------------------------
(***************************************************************************)
(* Induction over the naturals, in the form that speaks of a set.          *)
(***************************************************************************)
\* A set of naturals that is not empty has a least one: the intervals 1 .. n are
\* ordered by inclusion, which is well-founded on finite sets.
LEMMA LeastNat ==
    ASSUME NEW S \in SUBSET Nat, S # {}
    PROVE  \E m \in S : \A k \in S : m <= k
<1> DEFINE T == {1 .. n : n \in S}
<1>1. T \subseteq FiniteSubsetsOf(Nat) /\ T # {}
  <2> SUFFICES ASSUME NEW n \in S  PROVE 1 .. n \in SUBSET Nat /\ IsFiniteSet(1 .. n)
    BY DEF FiniteSubsetsOf
  <2> QED  BY FS_Interval
<1>2. IsWellFoundedOn(StrictSubsetOrdering(Nat), FiniteSubsetsOf(Nat))
  BY FS_StrictSubsetOrderingWellFounded
<1> HIDE DEF T
<1>3. PICK x \in T : \A y \in T : <<y, x>> \notin StrictSubsetOrdering(Nat)
  BY <1>1, <1>2, WFMin
<1>4. PICK m \in S : x = 1 .. m  BY DEF T
<1>5. ASSUME NEW k \in S, k < m  PROVE FALSE
  <2>1. 1 .. k \in T  BY DEF T
  <2>2. m \in 1 .. m /\ m \notin 1 .. k /\ 1 .. k \subseteq 1 .. m  BY <1>5
  <2>3. <<1 .. k, 1 .. m>> \in StrictSubsetOrdering(Nat)
    BY <2>2 DEF StrictSubsetOrdering
  <2> QED  BY <1>3, <1>4, <2>1, <2>3
<1> QED  BY <1>5

LEMMA NatSetInduction ==
    ASSUME NEW S, 0 \in S, \A n \in Nat : n \in S => n + 1 \in S
    PROVE  \A n \in Nat : n \in S
<1> SUFFICES ASSUME Nat \ S # {}  PROVE FALSE  OBVIOUS
<1>1. PICK x \in Nat \ S : \A y \in Nat \ S : x <= y
  <2>1. Nat \ S \in SUBSET Nat  OBVIOUS
  <2> QED  BY <2>1, LeastNat
<1>2. x # 0 /\ x - 1 \in Nat  BY <1>1
<1>3. x - 1 \in S  BY <1>1, <1>2
<1> QED  BY <1>1, <1>2, <1>3

\* A function that gives each element of X an element of X can be applied again and
\* again: the steps of a walk, which depend on the place n.
HasRun(X, base, N, step) ==
    \E g \in [0 .. N -> X] : g[0] = base /\ \A n \in 1 .. N : g[n] = step[n][g[n - 1]]
LEMMA Iterated ==
    ASSUME NEW X, NEW base \in X, NEW N \in Nat, NEW step \in [1 .. N -> [X -> X]]
    PROVE  HasRun(X, base, N, step)
<1> DEFINE Upto(n, g) == /\ g \in [0 .. n -> X] /\ g[0] = base
                         /\ \A k \in 1 .. n : g[k] = step[k][g[k - 1]]
           S == {n \in Nat : n <= N => \E g : Upto(n, g)}
<1>1. 0 \in S
  <2>1. Upto(0, [n \in 0 .. 0 |-> base])  OBVIOUS
  <2> QED  BY <2>1
<1>2. ASSUME NEW n \in Nat, n \in S  PROVE n + 1 \in S
  <2> SUFFICES ASSUME n + 1 <= N  PROVE \E g : Upto(n + 1, g)  OBVIOUS
  <2>1. PICK g : Upto(n, g)  BY <1>2
  <2> DEFINE h == [k \in 0 .. n + 1 |-> IF k = n + 1 THEN step[n + 1][g[n]] ELSE g[k]]
  <2>2. step[n + 1][g[n]] \in X  BY <2>1
  <2>3. h \in [0 .. n + 1 -> X] /\ h[0] = base  BY <2>1, <2>2
  <2>4. \A k \in 1 .. n + 1 : h[k] = step[k][h[k - 1]]
    <3> SUFFICES ASSUME NEW k \in 1 .. n + 1  PROVE h[k] = step[k][h[k - 1]]  OBVIOUS
    <3>1. k - 1 \in 0 .. n /\ h[k - 1] = g[k - 1]  OBVIOUS
    <3>2. CASE k = n + 1  BY <3>1, <3>2
    <3>3. CASE k # n + 1  BY <2>1, <3>1, <3>3
    <3> QED  BY <3>2, <3>3
  <2> HIDE DEF h
  <2>5. Upto(n + 1, h)  BY <2>3, <2>4
  <2> QED  BY <2>5
<1> HIDE DEF S
<1>3. N \in S  BY <1>1, <1>2, NatSetInduction
<1>4. PICK g : Upto(N, g)  BY <1>3 DEF S
<1> QED  BY <1>4 DEF HasRun


\* A function all of whose steps stay in X.
LEMMA StepsStay ==
    ASSUME NEW X, NEW N \in Nat, NEW f, f = [n \in 0 .. N |-> f[n]], f[0] \in X,
           \A n \in 1 .. N : f[n - 1] \in X => f[n] \in X
    PROVE  f \in [0 .. N -> X]
<1> DEFINE S == {n \in Nat : n <= N => f[n] \in X}
<1>1. 0 \in S  OBVIOUS
<1>2. \A n \in Nat : n \in S => n + 1 \in S
  <2> SUFFICES ASSUME NEW n \in Nat, n \in S, n + 1 <= N  PROVE f[n + 1] \in X  OBVIOUS
  <2>1. n + 1 \in 1 .. N /\ (n + 1) - 1 = n /\ f[n] \in X  OBVIOUS
  <2> QED  BY <2>1
<1> HIDE DEF S
<1>3. \A n \in Nat : n \in S  BY <1>1, <1>2, NatSetInduction
<1>4. \A n \in 0 .. N : f[n] \in X  BY <1>3 DEF S
<1> QED  BY <1>4

LEMMA OneLess ==
    ASSUME NEW n \in Nat, n > 0, n # 1
    PROVE  n - 1 \in 1 .. n /\ n - 1 \in 1 .. n - 1 /\ n - 1 \in Nat /\ n - 1 # 0 /\ n > 1
           /\ (n - 1) + 1 = n
OBVIOUS

-----------------------------------------------------------------------------
(***************************************************************************)
(* The states of the walk, and those of a run, which have other notes.     *)
(***************************************************************************)
Marks == {"changes", "locked", "mixed"}
KindsOf(inRun) == IF inRun THEN Kinds \cup Marks ELSE Kinds
StateOf(inRun) == [held : SUBSET Lock, defers : Seq(Call), failed : SUBSET KindsOf(inRun)]

\* t is what the calls made of s: no check that failed is forgotten.
Grows(s, t) == s.failed \subseteq t.failed

\* The walk is where the run is.
Fair(s, t) == s.held = t.held /\ s.defers = t.defers

\* From s the walk got to w where the run got from t to r.  Unless a literal changed
\* the locks they are at the same locks and deferred calls, and the walk saw a call
\* go wrong that the run saw.  And without any mark, the walk saw no more.
Follows(s, w, t, r) ==
    /\ Grows(s, w) /\ Grows(t, r)
    /\ "changes" \notin r.failed => /\ Fair(w, r)
                                    /\ "call" \in r.failed => "call" \in t.failed \cup w.failed
    /\ r.failed \cap Marks = {} => w.failed \subseteq s.failed \cup (r.failed \cap {"call"}) \cup {"recover"}

LEMMA FollowsOn ==
    ASSUME NEW s, NEW w, NEW t, NEW r, NEW v, NEW q,
           Follows(s, w, t, r), Grows(w, v), Grows(r, q), Fair(w, r) => Follows(w, v, r, q)
    PROVE  Follows(s, v, t, q)
BY DEF Follows, Grows, Fair, Marks

LEMMA FollowsStart ==
    ASSUME NEW s, NEW t, Fair(s, t)
    PROVE  Follows(s, s, t, t)
BY DEF Follows, Grows, Fair

LEMMA StateIsOfWalk == State = StateOf(FALSE)
BY DEF State, StateOf, KindsOf

LEMMA StateParts ==
    ASSUME NEW inRun \in BOOLEAN, NEW s \in StateOf(inRun)
    PROVE  /\ s.held \in SUBSET Lock /\ s.defers \in Seq(Call) /\ s.failed \in SUBSET KindsOf(inRun)
           /\ s = [held |-> s.held, defers |-> s.defers, failed |-> s.failed]
           /\ "call" \in KindsOf(inRun)
BY DEF StateOf, KindsOf, Kinds

LEMMA MakeState ==
    ASSUME NEW inRun \in BOOLEAN, NEW h \in SUBSET Lock, NEW d \in Seq(Call),
           NEW f \in SUBSET KindsOf(inRun)
    PROVE  LET t == [held |-> h, defers |-> d, failed |-> f]
           IN  t \in StateOf(inRun) /\ t.held = h /\ t.defers = d /\ t.failed = f
BY DEF StateOf

-----------------------------------------------------------------------------
(***************************************************************************)
(* A call.                                                                 *)
(***************************************************************************)
\* A call with annotations.
LEMMA AnnotatedIs ==
    ASSUME NEW inRun \in BOOLEAN, NEW s \in StateOf(inRun), NEW c \in Annotated
    PROVE  LET t == DoAnnotated(s, c)
           IN  /\ t \in StateOf(inRun) /\ t.defers = s.defers /\ Grows(s, t)
               /\ t.held = (s.held \ (c.entry \ c.exit)) \cup (c.exit \ c.entry)
               /\ t.failed = s.failed \cup IF CallFails(s.held, c) THEN {"call"} ELSE {}
<1> DEFINE h == (s.held \ (c.entry \ c.exit)) \cup (c.exit \ c.entry)
           f == s.failed \cup IF CallFails(s.held, c) THEN {"call"} ELSE {}
<1>1. h \in SUBSET Lock  BY StateParts DEF Annotated
<1>2. f \in SUBSET KindsOf(inRun)  BY StateParts
<1>3. DoAnnotated(s, c) = [held |-> h, defers |-> s.defers, failed |-> f]
  <2> HIDE DEF h, f
  <2>1. DoAnnotated(s, c) = [s EXCEPT !.held = h, !.failed = f]  BY DEF DoAnnotated, h, f
  <2> QED  BY <2>1, StateParts
<1> HIDE DEF h, f
<1>4. DoAnnotated(s, c) \in StateOf(inRun)
  <2>1. s.defers \in Seq(Call)  BY StateParts
  <2> QED  BY <1>1, <1>2, <1>3, <2>1, MakeState
<1>5. Grows(s, DoAnnotated(s, c))  BY <1>3 DEF Grows, f
<1> QED  BY <1>3, <1>4, <1>5 DEF h, f

LEMMA AnnotatedFollows ==
    ASSUME NEW s \in StateOf(FALSE), NEW t \in StateOf(TRUE), Fair(s, t), NEW c \in Annotated
    PROVE  Follows(s, DoAnnotated(s, c), t, DoAnnotated(t, c))
<1> DEFINE w == DoAnnotated(s, c)
           r == DoAnnotated(t, c)
<1>1. /\ w.defers = s.defers /\ Grows(s, w)
      /\ w.held = (s.held \ (c.entry \ c.exit)) \cup (c.exit \ c.entry)
      /\ w.failed = s.failed \cup IF CallFails(s.held, c) THEN {"call"} ELSE {}
  BY AnnotatedIs
<1>2. /\ r.defers = t.defers /\ Grows(t, r)
      /\ r.held = (t.held \ (c.entry \ c.exit)) \cup (c.exit \ c.entry)
      /\ r.failed = t.failed \cup IF CallFails(t.held, c) THEN {"call"} ELSE {}
  BY AnnotatedIs
<1> HIDE DEF w, r
<1>3. s.held = t.held /\ s.defers = t.defers  BY DEF Fair
<1>4. Fair(w, r)  BY <1>1, <1>2, <1>3 DEF Fair
<1>5. Follows(s, w, t, r)  BY <1>1, <1>2, <1>3, <1>4 DEF Follows
<1> QED  BY <1>5 DEF w, r

\* The steps of a body: its n-th call made, or passed over.
BodySteps(s, body, after, ran) ==
    LET N == Len(body)
    IN  /\ after[0] = s /\ ran[0] = after[N]
        /\ \A n \in 1 .. N : after[n] = IF body[n].deferred THEN after[n - 1]
                                         ELSE DoAnnotated(after[n - 1], body[n])
        /\ \A n \in 1 .. N : ran[n] = IF body[N + 1 - n].deferred
                                       THEN DoAnnotated(ran[n - 1], body[N + 1 - n]) ELSE ran[n - 1]

LEMMA BodyIs ==
    ASSUME NEW inRun \in BOOLEAN, NEW s \in StateOf(inRun), NEW body \in Seq(Annotated)
    PROVE  \E after, ran \in [0 .. Len(body) -> StateOf(inRun)] :
               BodySteps(s, body, after, ran) /\ DoBody(s, body) = ran[Len(body)]
<1> HIDE DEF Annotated
<1> DEFINE N == Len(body)
           X == StateOf(inRun)
           once(x, n) == IF body[n].deferred THEN x ELSE DoAnnotated(x, body[n])
           late(x, n) == IF body[N + 1 - n].deferred THEN DoAnnotated(x, body[N + 1 - n]) ELSE x
           IsAfter(f) == f = [n \in 0 .. N |-> IF n = 0 THEN s
                         ELSE IF body[n].deferred THEN f[n - 1] ELSE DoAnnotated(f[n - 1], body[n])]
           after == CHOOSE f : IsAfter(f)
           IsRan(f) == f = [n \in 0 .. N |-> IF n = 0 THEN after[Len(body)]
                       ELSE LET c == body[Len(body) + 1 - n]
                            IN  IF c.deferred THEN DoAnnotated(f[n - 1], c) ELSE f[n - 1]]
           ran == CHOOSE f : IsRan(f)
<1>1. N \in Nat /\ \A n \in 1 .. N : body[n] \in Annotated /\ N + 1 - n \in 1 .. N  OBVIOUS
<1>2. DoBody(s, body) = ran[N]  BY DEF DoBody
<1>3. \A n \in 1 .. N, x \in X : once(x, n) \in X /\ late(x, n) \in X
  <2> SUFFICES ASSUME NEW n \in 1 .. N, NEW x \in X  PROVE once(x, n) \in X /\ late(x, n) \in X
    OBVIOUS
  <2>1. body[n] \in Annotated /\ body[N + 1 - n] \in Annotated  BY <1>1
  <2>2. DoAnnotated(x, body[n]) \in X /\ DoAnnotated(x, body[N + 1 - n]) \in X
    BY <2>1, AnnotatedIs
  <2> HIDE DEF N, X
  <2> QED  BY <2>2
<1>4. s \in X  OBVIOUS
<1> HIDE DEF X, N
<1>5. \E f \in [0 .. N -> X] : IsAfter(f)
  <2> DEFINE step == [n \in 1 .. N |-> [x \in X |-> once(x, n)]]
  <2>1. step \in [1 .. N -> [X -> X]]  BY <1>3
  <2>2. \A n \in 1 .. N, x \in X : step[n][x] = once(x, n)  OBVIOUS
  <2> HIDE DEF step
  <2>3. HasRun(X, s, N, step)  BY <1>1, <1>4, <2>1, Iterated
  <2>4. PICK g \in [0 .. N -> X] : g[0] = s /\ \A n \in 1 .. N : g[n] = step[n][g[n - 1]]
    BY <2>3 DEF HasRun
  <2>5. ASSUME NEW n \in 0 .. N, n # 0
        PROVE  g[n] = IF body[n].deferred THEN g[n - 1] ELSE DoAnnotated(g[n - 1], body[n])
    <3>1. n \in 1 .. N /\ n - 1 \in 0 .. N  BY <1>1, <2>5
    <3> QED  BY <2>2, <2>4, <3>1
  <2>6. IsAfter(g)
    <3>1. g = [n \in 0 .. N |-> g[n]]  BY <2>4
    <3>2. ASSUME NEW n \in 0 .. N
          PROVE  g[n] = IF n = 0 THEN s ELSE IF body[n].deferred THEN g[n - 1]
                                             ELSE DoAnnotated(g[n - 1], body[n])
      BY <2>4, <2>5
    <3> QED  BY <3>1, <3>2
  <2> QED  BY <2>4, <2>6
<1>6. IsAfter(after)  BY <1>5
<1> HIDE DEF after
<1>7. /\ after = [n \in 0 .. N |-> after[n]] /\ after[0] = s
      /\ \A n \in 1 .. N : after[n] = IF body[n].deferred THEN after[n - 1]
                                        ELSE DoAnnotated(after[n - 1], body[n])
  <2>1. \A n \in 0 .. N : after[n] = IF n = 0 THEN s ELSE IF body[n].deferred THEN after[n - 1]
                                                       ELSE DoAnnotated(after[n - 1], body[n])
    BY <1>6
  <2>2. after = [n \in 0 .. N |-> after[n]]  BY <1>6
  <2>3. 0 \in 0 .. N /\ \A n \in 1 .. N : n \in 0 .. N /\ n # 0  BY <1>1
  <2>4. after[0] = s  BY <2>1, <2>3
  <2> QED  BY <2>1, <2>2, <2>3, <2>4
<1>8. after \in [0 .. N -> X]
  <2>1. \A n \in 1 .. N : after[n - 1] \in X => after[n] \in X  BY <1>3, <1>7
  <2> QED  BY <1>1, <1>4, <1>7, <2>1, StepsStay
<1>9. after[N] \in X /\ after[Len(body)] = after[N]  BY <1>1, <1>8 DEF N
<1>10. \E f \in [0 .. N -> X] : IsRan(f)
  <2> DEFINE step == [n \in 1 .. N |-> [x \in X |-> late(x, n)]]
  <2>1. step \in [1 .. N -> [X -> X]]  BY <1>3
  <2>2. \A n \in 1 .. N, x \in X : step[n][x] = late(x, n)  OBVIOUS
  <2> HIDE DEF step
  <2>3. HasRun(X, after[N], N, step)  BY <1>1, <1>9, <2>1, Iterated
  <2>4. PICK g \in [0 .. N -> X] : g[0] = after[N] /\ \A n \in 1 .. N : g[n] = step[n][g[n - 1]]
    BY <2>3 DEF HasRun
  <2>5. ASSUME NEW n \in 0 .. N, n # 0
        PROVE  g[n] = LET c == body[Len(body) + 1 - n]
                      IN  IF c.deferred THEN DoAnnotated(g[n - 1], c) ELSE g[n - 1]
    <3>1. n \in 1 .. N /\ n - 1 \in 0 .. N  BY <1>1, <2>5
    <3> QED  BY <2>2, <2>4, <3>1 DEF N
  <2>6. IsRan(g)
    <3>1. g = [n \in 0 .. N |-> g[n]]  BY <2>4
    <3>2. ASSUME NEW n \in 0 .. N
          PROVE  g[n] = IF n = 0 THEN after[Len(body)]
                        ELSE LET c == body[Len(body) + 1 - n]
                             IN  IF c.deferred THEN DoAnnotated(g[n - 1], c) ELSE g[n - 1]
      BY <1>9, <2>4, <2>5
    <3> QED  BY <3>1, <3>2
  <2> QED  BY <2>4, <2>6
<1>11. IsRan(ran)  BY <1>10
<1> HIDE DEF ran
<1>12. /\ ran = [n \in 0 .. N |-> ran[n]] /\ ran[0] = after[N]
       /\ \A n \in 1 .. N : ran[n] = IF body[N + 1 - n].deferred
                                       THEN DoAnnotated(ran[n - 1], body[N + 1 - n]) ELSE ran[n - 1]
  <2>1. \A n \in 0 .. N : ran[n] = IF n = 0 THEN after[N]
                        ELSE IF body[N + 1 - n].deferred
                             THEN DoAnnotated(ran[n - 1], body[N + 1 - n]) ELSE ran[n - 1]
    BY <1>11 DEF N
  <2>2. ran = [n \in 0 .. N |-> ran[n]]  BY <1>11
  <2>3. 0 \in 0 .. N /\ \A n \in 1 .. N : n \in 0 .. N /\ n # 0  BY <1>1
  <2>4. ran[0] = after[N]  BY <2>1, <2>3
  <2> QED  BY <2>1, <2>2, <2>3, <2>4
<1>13. ran \in [0 .. N -> X]
  <2>1. \A n \in 1 .. N : ran[n - 1] \in X => ran[n] \in X  BY <1>3, <1>12
  <2> QED  BY <1>1, <1>9, <1>12, <2>1, StepsStay
<1>14. BodySteps(s, body, after, ran)  BY <1>7, <1>12 DEF BodySteps, N
<1> QED  BY <1>2, <1>8, <1>13, <1>14 DEF X, N

\* What a body does: the calls of it only.
LEMMA BodyGrows ==
    ASSUME NEW inRun \in BOOLEAN, NEW s \in StateOf(inRun), NEW body \in Seq(Annotated)
    PROVE  LET t == DoBody(s, body)
           IN  /\ t \in StateOf(inRun) /\ t.defers = s.defers /\ Grows(s, t)
               /\ t.failed \subseteq s.failed \cup {"call"}
<1> HIDE DEF Annotated
<1>1. PICK after, ran \in [0 .. Len(body) -> StateOf(inRun)] :
          BodySteps(s, body, after, ran) /\ DoBody(s, body) = ran[Len(body)]
  BY BodyIs
<1> DEFINE N == Len(body)
           X == {t \in StateOf(inRun) : /\ t.defers = s.defers /\ Grows(s, t)
                                        /\ t.failed \subseteq s.failed \cup {"call"}}
<1>2. N \in Nat /\ \A n \in 1 .. N : body[n] \in Annotated /\ body[N + 1 - n] \in Annotated
                                     /\ n - 1 \in 0 .. N
  OBVIOUS
<1>3. ASSUME NEW t \in X, NEW c \in Annotated  PROVE DoAnnotated(t, c) \in X
  <2> DEFINE u == DoAnnotated(t, c)
  <2>1. t \in StateOf(inRun)  OBVIOUS
  <2>2. /\ u \in StateOf(inRun) /\ u.defers = t.defers /\ Grows(t, u)
        /\ u.failed = t.failed \cup IF CallFails(t.held, c) THEN {"call"} ELSE {}
    BY <2>1, AnnotatedIs
  <2> HIDE DEF u
  <2>3. u \in X  BY <2>2 DEF Grows
  <2> QED  BY <2>3 DEF u
<1>4. s \in X  BY DEF Grows
<1>5. after \in [0 .. N -> X]
  <2>1. after[0] \in X /\ \A n \in 1 .. N : after[n - 1] \in X => after[n] \in X
    <3> HIDE DEF X
    <3> QED  BY <1>1, <1>2, <1>3, <1>4 DEF BodySteps
  <2>2. after = [n \in 0 .. N |-> after[n]]  BY <1>1
  <2> HIDE DEF X, N
  <2> QED  BY <1>2, <2>1, <2>2, StepsStay
<1>6. ran \in [0 .. N -> X]
  <2>1. ran[0] \in X
    <3> HIDE DEF X
    <3> QED  BY <1>1, <1>2, <1>5 DEF BodySteps
  <2>2. \A n \in 1 .. N : ran[n - 1] \in X => ran[n] \in X
    <3> HIDE DEF X
    <3> QED  BY <1>1, <1>2, <1>3 DEF BodySteps
  <2>3. ran = [n \in 0 .. N |-> ran[n]]  BY <1>1
  <2> HIDE DEF X, N
  <2> QED  BY <1>2, <2>1, <2>2, <2>3, StepsStay
<1>7. DoBody(s, body) \in X
  <2> HIDE DEF X
  <2> QED  BY <1>1, <1>2, <1>6
<1> QED  BY <1>7

LEMMA BodyFollows ==
    ASSUME NEW s \in StateOf(FALSE), NEW t \in StateOf(TRUE), Fair(s, t), NEW body \in Seq(Annotated)
    PROVE  Follows(s, DoBody(s, body), t, DoBody(t, body))
<1> HIDE DEF Annotated
<1>1. PICK a1, r1 \in [0 .. Len(body) -> StateOf(FALSE)] :
          BodySteps(s, body, a1, r1) /\ DoBody(s, body) = r1[Len(body)]
  BY BodyIs
<1>2. PICK a2, r2 \in [0 .. Len(body) -> StateOf(TRUE)] :
          BodySteps(t, body, a2, r2) /\ DoBody(t, body) = r2[Len(body)]
  BY BodyIs
<1> DEFINE N == Len(body)
           S == {n \in Nat : n <= N => Follows(s, a1[n], t, a2[n])}
           R == {n \in Nat : n <= N => Follows(s, r1[n], t, r2[n])}
<1>3. N \in Nat /\ \A n \in 1 .. N : body[n] \in Annotated /\ body[N + 1 - n] \in Annotated
  OBVIOUS
<1>4. ASSUME NEW w \in StateOf(FALSE), NEW r \in StateOf(TRUE), NEW c \in Annotated,
             Follows(s, w, t, r)
      PROVE  Follows(s, DoAnnotated(w, c), t, DoAnnotated(r, c))
  <2>1. Grows(w, DoAnnotated(w, c)) /\ Grows(r, DoAnnotated(r, c))  BY AnnotatedIs
  <2>2. Fair(w, r) => Follows(w, DoAnnotated(w, c), r, DoAnnotated(r, c))  BY AnnotatedFollows
  <2> QED  BY <1>4, <2>1, <2>2, FollowsOn
<1>5. 0 \in S  BY <1>1, <1>2, FollowsStart DEF BodySteps
<1>6. \A n \in Nat : n \in S => n + 1 \in S
  <2> SUFFICES ASSUME NEW n \in Nat, n + 1 <= N, Follows(s, a1[n], t, a2[n])
               PROVE  Follows(s, a1[n + 1], t, a2[n + 1])
    BY <1>3, SMTT(40)
  <2>1. n + 1 \in 1 .. N /\ (n + 1) - 1 = n /\ n \in 0 .. N  BY <1>3
  <2>2. /\ a1[n + 1] = IF body[n + 1].deferred THEN a1[n] ELSE DoAnnotated(a1[n], body[n + 1])
        /\ a2[n + 1] = IF body[n + 1].deferred THEN a2[n] ELSE DoAnnotated(a2[n], body[n + 1])
    BY <1>1, <1>2, <2>1 DEF BodySteps
  <2>3. a1[n] \in StateOf(FALSE) /\ a2[n] \in StateOf(TRUE) /\ body[n + 1] \in Annotated
    BY <1>1, <1>2, <1>3, <2>1
  <2> QED  BY <1>4, <2>2, <2>3
<1> HIDE DEF S
<1>7. N \in S  BY <1>3, <1>5, <1>6, NatSetInduction
<1>8. r1[0] = a1[N] /\ r2[0] = a2[N]  BY <1>1, <1>2 DEF BodySteps
<1>9. 0 \in R  BY <1>3, <1>7, <1>8 DEF S
<1>10. \A n \in Nat : n \in R => n + 1 \in R
  <2> SUFFICES ASSUME NEW n \in Nat, n + 1 <= N, Follows(s, r1[n], t, r2[n])
               PROVE  Follows(s, r1[n + 1], t, r2[n + 1])
    BY <1>3, SMTT(40)
  <2> DEFINE c == body[N + 1 - (n + 1)]
  <2>1. n + 1 \in 1 .. N /\ (n + 1) - 1 = n /\ n \in 0 .. N  BY <1>3
  <2>2. /\ r1[n + 1] = IF c.deferred THEN DoAnnotated(r1[n], c) ELSE r1[n]
        /\ r2[n + 1] = IF c.deferred THEN DoAnnotated(r2[n], c) ELSE r2[n]
    BY <1>1, <1>2, <2>1 DEF BodySteps
  <2>3. r1[n] \in StateOf(FALSE) /\ r2[n] \in StateOf(TRUE) /\ c \in Annotated
    BY <1>1, <1>2, <1>3, <2>1
  <2> HIDE DEF c
  <2> QED  BY <1>4, <2>2, <2>3
<1> HIDE DEF R
<1>11. N \in R  BY <1>3, <1>9, <1>10, NatSetInduction
<1> QED  BY <1>1, <1>2, <1>3, <1>11 DEF R

-----------------------------------------------------------------------------
(***************************************************************************)
(* The call of a literal.                                                  *)
(***************************************************************************)
\* What deferred calls make of each set of locks; nothing, if there are none.
RestOf(inRun) == [SUBSET Lock -> StateOf(inRun)]
Idle(rest) == \A h \in SUBSET Lock : rest[h].held = h /\ rest[h].failed = {}

LEMMA ThenIs ==
    ASSUME NEW inRun \in BOOLEAN, NEW s \in StateOf(inRun), NEW rest \in RestOf(inRun)
    PROVE  LET t == Then(s, rest)
           IN  /\ t \in StateOf(inRun) /\ t.defers = s.defers /\ Grows(s, t)
               /\ t.held = rest[s.held].held /\ t.failed = s.failed \cup rest[s.held].failed
<1> DEFINE u == rest[s.held]
           f == s.failed \cup u.failed
<1>1. u \in StateOf(inRun)  BY StateParts DEF RestOf
<1> HIDE DEF u
<1>2. u.held \in SUBSET Lock /\ f \in SUBSET KindsOf(inRun)  BY <1>1, StateParts
<1>3. Then(s, rest) = [held |-> u.held, defers |-> s.defers, failed |-> f]
  <2>1. Then(s, rest) = [s EXCEPT !.held = u.held, !.failed = f]  BY DEF Then, u, f
  <2> HIDE DEF f
  <2> QED  BY <2>1, StateParts
<1> HIDE DEF f
<1>4. Then(s, rest) \in StateOf(inRun)
  <2>1. s.defers \in Seq(Call)  BY StateParts
  <2> QED  BY <1>2, <1>3, <2>1, MakeState
<1>5. Grows(s, Then(s, rest))  BY <1>3 DEF Grows, f
<1> QED  BY <1>3, <1>4, <1>5 DEF u, f

LEMMA LiteralIs ==
    ASSUME NEW s \in StateOf(FALSE), NEW c \in Literal, NEW rest \in RestOf(FALSE)
    PROVE  LET own == DoBody(s, c.body)
               t == DoLiteral(s, c, rest)
           IN  /\ t \in StateOf(FALSE) /\ t.defers = s.defers /\ t.held = s.held
               /\ Grows(s, t) /\ Grows(own, t)
               /\ (Defers(c.body) => s.held = {} /\ Idle(rest)) /\ own.held = {} => t.failed = own.failed
<1> DEFINE own == DoBody(s, c.body)
           end == IF Defers(c.body) THEN Then(own, rest) ELSE own
           f == end.failed \cup (IF end.held # {} THEN {"literal"} ELSE {})
                           \cup (IF Defers(c.body) /\ s.held # {} THEN {"recover"} ELSE {})
           t == DoLiteral(s, c, rest)
<1>1. c.body \in Seq(Annotated)  BY DEF Literal
<1>2. own \in StateOf(FALSE) /\ Grows(s, own)  BY <1>1, BodyGrows
<1>3. t = [s EXCEPT !.failed = f]  BY DEF DoLiteral
<1> HIDE DEF own, t
<1>4. end \in StateOf(FALSE) /\ Grows(own, end)
  <2>1. Then(own, rest) \in StateOf(FALSE) /\ Grows(own, Then(own, rest))  BY <1>2, ThenIs
  <2> QED  BY <1>2, <2>1 DEF Grows
<1>5. (Defers(c.body) => s.held = {} /\ Idle(rest)) /\ own.held = {} => f = own.failed
  <2> SUFFICES ASSUME Defers(c.body) => s.held = {} /\ Idle(rest), own.held = {}
               PROVE  f = own.failed
    BY Zenon
  <2>1. CASE Defers(c.body)
    <3>1. end.held = rest[own.held].held /\ end.failed = own.failed \cup rest[own.held].failed
      BY <1>2, <2>1, ThenIs
    <3>2. own.held \in SUBSET Lock  OBVIOUS
    <3> HIDE DEF end
    <3> QED  BY <2>1, <3>1, <3>2 DEF Idle
  <2>2. CASE ~Defers(c.body)  BY <2>2
  <2> QED  BY <2>1, <2>2
<1> HIDE DEF end
<1>6. f \in SUBSET KindsOf(FALSE)  BY <1>4, StateParts DEF KindsOf, Kinds
<1>7. Grows(s, [held |-> s.held, defers |-> s.defers, failed |-> f])
      /\ Grows(own, [held |-> s.held, defers |-> s.defers, failed |-> f])
  BY <1>2, <1>4 DEF Grows
<1> HIDE DEF f
<1>8. t = [held |-> s.held, defers |-> s.defers, failed |-> f]
  <2>1. s = [held |-> s.held, defers |-> s.defers, failed |-> s.failed]  BY StateParts
  <2> QED  BY <1>3, <2>1
<1>9. t \in StateOf(FALSE)
  <2>1. s.held \in SUBSET Lock /\ s.defers \in Seq(Call)  BY StateParts
  <2> QED  BY <1>6, <1>8, <2>1, MakeState
<1>10. t.defers = s.defers /\ t.held = s.held /\ t.failed = f /\ Grows(s, t) /\ Grows(own, t)
  BY <1>7, <1>8
<1>11. (Defers(c.body) => s.held = {} /\ Idle(rest)) /\ own.held = {} => t.failed = own.failed
  BY <1>5, <1>10, Zenon
<1> QED  BY <1>9, <1>10, <1>11, Zenon DEF own, t

LEMMA RunLiteralIs ==
    ASSUME NEW s \in StateOf(TRUE), NEW c \in Literal
    PROVE  LET own == DoBody(s, c.body)
               t == RunLiteral(s, c)
           IN  /\ t \in StateOf(TRUE) /\ t.defers = s.defers /\ t.held = own.held /\ Grows(s, t)
               /\ t.failed = own.failed \cup (IF own.held # s.held THEN {"changes"} ELSE {})
                                        \cup (IF s.held # {} THEN {"locked"} ELSE {})
                                        \cup (IF Defers(c.body) /\ s.defers # <<>> THEN {"mixed"} ELSE {})
<1> DEFINE own == DoBody(s, c.body)
           f == own.failed \cup (IF own.held # s.held THEN {"changes"} ELSE {})
                           \cup (IF s.held # {} THEN {"locked"} ELSE {})
                           \cup (IF Defers(c.body) /\ s.defers # <<>> THEN {"mixed"} ELSE {})
           t == RunLiteral(s, c)
<1>1. c.body \in Seq(Annotated)  BY DEF Literal
<1>2. own \in StateOf(TRUE) /\ Grows(s, own) /\ own.defers = s.defers  BY <1>1, BodyGrows
<1>3. t = [own EXCEPT !.failed = f]  BY DEF RunLiteral
<1> HIDE DEF own, t
<1>4. f \in SUBSET KindsOf(TRUE)  BY <1>2, StateParts DEF KindsOf, Marks
<1>5. Grows(s, [held |-> own.held, defers |-> s.defers, failed |-> f])  BY <1>2 DEF Grows
<1> DEFINE g == f
<1>7. g = own.failed \cup (IF own.held # s.held THEN {"changes"} ELSE {})
                     \cup (IF s.held # {} THEN {"locked"} ELSE {})
                     \cup (IF Defers(c.body) /\ s.defers # <<>> THEN {"mixed"} ELSE {})
  OBVIOUS
<1> HIDE DEF f
<1>8. own.held \in SUBSET Lock /\ own.defers = s.defers /\ s.defers \in Seq(Call)
      /\ own = [held |-> own.held, defers |-> s.defers, failed |-> own.failed]
  <2>1. own = [held |-> own.held, defers |-> own.defers, failed |-> own.failed]
    BY <1>2, StateParts
  <2> QED  BY <1>2, <2>1, StateParts
<1>10. t = [held |-> own.held, defers |-> s.defers, failed |-> f]  BY <1>3, <1>8
<1>9. t \in StateOf(TRUE)  BY <1>4, <1>8, <1>10, MakeState
<1>11. t.defers = s.defers /\ t.held = own.held /\ t.failed = g /\ Grows(s, t)
  BY <1>5, <1>10 DEF g
<1> HIDE DEF g
<1> QED  BY <1>7, <1>9, <1>11, Zenon DEF own, t

-----------------------------------------------------------------------------
(***************************************************************************)
(* A call of either kind.                                                  *)
(***************************************************************************)
LEMMA CallKinds ==
    ASSUME NEW c \in Call
    PROVE  IF c.body = None THEN c \in Annotated ELSE c \in Literal
BY CallAssumption DEF Annotated, Literal

LEMMA CallIs ==
    ASSUME NEW inRun \in BOOLEAN, NEW s \in StateOf(inRun), NEW c \in Call, NEW rest \in RestOf(inRun)
    PROVE  LET t == DoCall(s, c, rest, inRun)
           IN  t \in StateOf(inRun) /\ t.defers = s.defers /\ Grows(s, t)
<1> DEFINE t == DoCall(s, c, rest, inRun)
<1> SUFFICES t \in StateOf(inRun) /\ t.defers = s.defers /\ Grows(s, t)  OBVIOUS
<1>1. CASE c.body = None
  <2>1. t = DoAnnotated(s, c) /\ c \in Annotated  BY <1>1, CallKinds DEF DoCall
  <2> HIDE DEF t
  <2> QED  BY <2>1, AnnotatedIs
<1>2. CASE c.body # None /\ inRun
  <2>1. t = RunLiteral(s, c) /\ c \in Literal  BY <1>2, CallKinds DEF DoCall
  <2>2. s \in StateOf(TRUE) /\ StateOf(inRun) = StateOf(TRUE)  BY <1>2 DEF StateOf, KindsOf
  <2> HIDE DEF t
  <2> QED  BY <2>1, <2>2, RunLiteralIs
<1>3. CASE c.body # None /\ ~inRun
  <2>1. t = DoLiteral(s, c, rest) /\ c \in Literal  BY <1>3, CallKinds DEF DoCall
  <2>2. inRun = FALSE  BY <1>3
  <2> HIDE DEF t
  <2> QED  BY <2>1, <2>2, LiteralIs
<1> QED  BY <1>1, <1>2, <1>3

LEMMA LiteralFollows ==
    ASSUME NEW s \in StateOf(FALSE), NEW t \in StateOf(TRUE), Fair(s, t), NEW c \in Literal,
           NEW rest \in RestOf(FALSE), s.defers = <<>> => Idle(rest)
    PROVE  Follows(s, DoLiteral(s, c, rest), t, RunLiteral(t, c))
<1> DEFINE so == DoBody(s, c.body)
           to == DoBody(t, c.body)
           w == DoLiteral(s, c, rest)
           r == RunLiteral(t, c)
<1>1. c.body \in Seq(Annotated)  BY DEF Literal
<1>2. Follows(s, so, t, to)  BY <1>1, BodyFollows
<1>3. /\ w.defers = s.defers /\ w.held = s.held /\ Grows(s, w) /\ Grows(so, w)
      /\ (Defers(c.body) => s.held = {} /\ Idle(rest)) /\ so.held = {} => w.failed = so.failed
  BY LiteralIs
<1>4. /\ r.defers = t.defers /\ r.held = to.held /\ Grows(t, r)
      /\ r.failed = to.failed \cup (IF to.held # t.held THEN {"changes"} ELSE {})
                              \cup (IF t.held # {} THEN {"locked"} ELSE {})
                              \cup (IF Defers(c.body) /\ t.defers # <<>> THEN {"mixed"} ELSE {})
  BY RunLiteralIs
<1> HIDE DEF so, to, w, r
<1>5. s.held = t.held /\ s.defers = t.defers  BY DEF Fair
<1>6. ASSUME "changes" \notin r.failed
      PROVE  Fair(w, r) /\ ("call" \in r.failed => "call" \in t.failed \cup w.failed)
  <2>1. to.held = t.held /\ "changes" \notin to.failed  BY <1>4, <1>6
  <2>2. Fair(w, r)  BY <1>3, <1>4, <1>5, <2>1 DEF Fair
  <2>3. "call" \in r.failed => "call" \in to.failed  BY <1>4
  <2> QED  BY <1>2, <1>3, <2>1, <2>2, <2>3 DEF Follows, Grows
<1>7. ASSUME r.failed \cap Marks = {}
      PROVE  w.failed \subseteq s.failed \cup (r.failed \cap {"call"}) \cup {"recover"}
  <2>1. "changes" \notin r.failed /\ "locked" \notin r.failed /\ "mixed" \notin r.failed
    BY <1>7 DEF Marks
  <2>2. /\ to.held = t.held /\ t.held = {} /\ (Defers(c.body) => t.defers = <<>>)
        /\ to.failed \subseteq r.failed
    BY <1>4, <2>1
  <2>3. to.failed \cap Marks = {} /\ "changes" \notin to.failed  BY <1>7, <2>1, <2>2
  <2>4. so.held = {}  BY <1>2, <2>2, <2>3 DEF Follows, Fair
  <2>5. w.failed = so.failed  BY <1>3, <1>5, <2>2, <2>4
  <2> QED  BY <1>2, <2>2, <2>3, <2>5 DEF Follows
<1>8. Follows(s, w, t, r)  BY <1>3, <1>4, <1>6, <1>7 DEF Follows
<1> QED  BY <1>8 DEF w, r

LEMMA CallFollows ==
    ASSUME NEW s \in StateOf(FALSE), NEW t \in StateOf(TRUE), Fair(s, t), NEW c \in Call,
           NEW rest \in RestOf(FALSE), NEW own, s.defers = <<>> => Idle(rest)
    PROVE  Follows(s, DoCall(s, c, rest, FALSE), t, DoCall(t, c, own, TRUE))
<1>1. CASE c.body = None
  <2>1. c \in Annotated  BY <1>1, CallKinds
  <2>2. DoCall(s, c, rest, FALSE) = DoAnnotated(s, c) /\ DoCall(t, c, own, TRUE) = DoAnnotated(t, c)
    BY <1>1 DEF DoCall
  <2> QED  BY <2>1, <2>2, AnnotatedFollows
<1>2. CASE c.body # None
  <2>1. c \in Literal  BY <1>2, CallKinds
  <2>2. DoCall(s, c, rest, FALSE) = DoLiteral(s, c, rest) /\ DoCall(t, c, own, TRUE) = RunLiteral(t, c)
    BY <1>2 DEF DoCall
  <2> QED  BY <2>1, <2>2, LiteralFollows
<1> QED  BY <1>1, <1>2

-----------------------------------------------------------------------------
(***************************************************************************)
(* The deferred calls.                                                     *)
(***************************************************************************)
Bare(defers, n, held) == [held |-> held, defers |-> SubSeq(defers, 1, n - 1), failed |-> {}]
RanSteps(defers, inRun, ran) ==
    /\ \A h \in SUBSET Lock : ran[0][h] = Bare(defers, 0, h)
    /\ \A n \in 1 .. Len(defers), h \in SUBSET Lock :
          ran[n][h] = Then(DoCall(Bare(defers, n, h), defers[n], ran[n - 1], inRun), ran[n - 1])

LEMMA BareIs ==
    ASSUME NEW inRun \in BOOLEAN, NEW defers \in Seq(Call), NEW n \in 0 .. Len(defers), NEW h \in SUBSET Lock
    PROVE  LET s == Bare(defers, n, h)
           IN  /\ s \in StateOf(inRun) /\ s.held = h /\ s.failed = {}
               /\ s.defers = <<>> => n \in {0, 1}
<1>1. SubSeq(defers, 1, n - 1) \in Seq(Call)  OBVIOUS
<1>2. SubSeq(defers, 1, n - 1) = <<>> => n \in {0, 1}
  <2> SUFFICES ASSUME n \notin {0, 1}  PROVE SubSeq(defers, 1, n - 1) # <<>>  OBVIOUS
  <2>1. n - 1 \in Nat /\ n - 1 >= 1 /\ n - 1 <= Len(defers)  OBVIOUS
  <2>2. Len(SubSeq(defers, 1, n - 1)) = n - 1  BY <2>1
  <2> QED  BY <2>1, <2>2
<1>3. {} \in SUBSET KindsOf(inRun)  OBVIOUS
<1> DEFINE d == SubSeq(defers, 1, n - 1)
<1>4. Bare(defers, n, h) = [held |-> h, defers |-> d, failed |-> {}]  BY DEF Bare
<1> HIDE DEF d
<1>5. d \in Seq(Call)  BY <1>1 DEF d
<1>6. Bare(defers, n, h) \in StateOf(inRun)  BY <1>3, <1>4, <1>5, MakeState, SMTT(40)
<1>7. Bare(defers, n, h).held = h /\ Bare(defers, n, h).failed = {} /\ Bare(defers, n, h).defers = d
  BY <1>4
<1> QED  BY <1>2, <1>6, <1>7 DEF d

LEMMA RanIs ==
    ASSUME NEW inRun \in BOOLEAN, NEW defers \in Seq(Call)
    PROVE  \E ran \in [0 .. Len(defers) -> RestOf(inRun)] :
               RanSteps(defers, inRun, ran) /\ Ran(defers, inRun) = ran[Len(defers)]
<1> DEFINE N == Len(defers)
           X == RestOf(inRun)
           base == [h \in SUBSET Lock |-> Bare(defers, 0, h)]
           once(f, n) == [h \in SUBSET Lock |-> Then(DoCall(Bare(defers, n, h), defers[n], f, inRun), f)]
           Is(f) == f = [n \in 0 .. Len(defers) |-> [held \in SUBSET Lock |->
                       LET s == [held |-> held, defers |-> SubSeq(defers, 1, n - 1), failed |-> {}]
                       IN  IF n = 0 THEN s
                           ELSE Then(DoCall(s, defers[n], f[n - 1], inRun), f[n - 1])]]
           ran == CHOOSE f : Is(f)
<1>1. N \in Nat /\ 0 \in 0 .. N
      /\ \A n \in 1 .. N : defers[n] \in Call /\ n \in 0 .. N /\ n - 1 \in 0 .. N /\ n # 0
  OBVIOUS
<1>2. Ran(defers, inRun) = ran[N]  BY DEF Ran
<1>3. base \in X
  <2>1. \A h \in SUBSET Lock : Bare(defers, 0, h) \in StateOf(inRun)  BY <1>1, BareIs DEF N
  <2> QED  BY <2>1 DEF RestOf
<1>4. ASSUME NEW n \in 1 .. N, NEW f \in X  PROVE once(f, n) \in X
  <2> SUFFICES ASSUME NEW h \in SUBSET Lock
               PROVE  Then(DoCall(Bare(defers, n, h), defers[n], f, inRun), f) \in StateOf(inRun)
    BY DEF RestOf
  <2>1. Bare(defers, n, h) \in StateOf(inRun)  BY <1>1, BareIs DEF N
  <2>2. DoCall(Bare(defers, n, h), defers[n], f, inRun) \in StateOf(inRun)  BY <1>1, <2>1, CallIs
  <2> QED  BY <2>2, ThenIs
<1>5. \E f \in [0 .. N -> X] : Is(f)
  <2> DEFINE step == [n \in 1 .. N |-> [f \in X |-> once(f, n)]]
  <2>1. step \in [1 .. N -> [X -> X]]  BY <1>4
  <2>2. \A n \in 1 .. N, f \in X : step[n][f] = once(f, n)  OBVIOUS
  <2> HIDE DEF step, once, X, base, N
  <2>3. HasRun(X, base, N, step)  BY <1>1, <1>3, <2>1, Iterated
  <2>4. PICK g \in [0 .. N -> X] : g[0] = base /\ \A n \in 1 .. N : g[n] = step[n][g[n - 1]]
    BY <2>3 DEF HasRun
  <2>5. \A n \in 1 .. N : g[n] = once(g[n - 1], n)  BY <1>1, <2>2, <2>4
  <2>6. Is(g)
    <3>1. g = [n \in 0 .. N |-> g[n]]  BY <2>4
    <3>2. ASSUME NEW n \in 0 .. N
          PROVE  g[n] = [held \in SUBSET Lock |->
                     LET s == [held |-> held, defers |-> SubSeq(defers, 1, n - 1), failed |-> {}]
                     IN  IF n = 0 THEN s
                         ELSE Then(DoCall(s, defers[n], g[n - 1], inRun), g[n - 1])]
      <4>1. CASE n = 0
        <5>1. g[0] = [h \in SUBSET Lock |-> Bare(defers, 0, h)]  BY <2>4 DEF base
        <5> QED  BY <4>1, <5>1 DEF Bare
      <4>2. CASE n # 0
        <5>1. n \in 1 .. N  BY <1>1, <4>2
        <5>2. g[n] = [h \in SUBSET Lock |->
                        Then(DoCall(Bare(defers, n, h), defers[n], g[n - 1], inRun), g[n - 1])]
          BY <2>5, <5>1 DEF once
        <5> QED  BY <4>2, <5>2 DEF Bare
      <4> QED  BY <4>1, <4>2
    <3> QED  BY <3>1, <3>2 DEF N
  <2> QED  BY <2>4, <2>6
<1>6. Is(ran)  BY <1>5
<1> HIDE DEF ran
<1>7. ran = [n \in 0 .. N |-> ran[n]]  BY <1>6
<1>8. ASSUME NEW n \in 0 .. N
      PROVE  ran[n] = [held \in SUBSET Lock |->
                 LET s == [held |-> held, defers |-> SubSeq(defers, 1, n - 1), failed |-> {}]
                 IN  IF n = 0 THEN s
                     ELSE Then(DoCall(s, defers[n], ran[n - 1], inRun), ran[n - 1])]
  BY <1>6
<1> HIDE DEF Is
<1>9. ran[0] = base  BY <1>1, <1>8 DEF Bare
<1>10. \A n \in 1 .. N : ran[n] = once(ran[n - 1], n)  BY <1>1, <1>8, ZenonT(40) DEF Bare
<1>11. ran \in [0 .. N -> X]
  <2>1. \A n \in 1 .. N : ran[n - 1] \in X => ran[n] \in X
    <3> HIDE DEF X, once, N
    <3> QED  BY <1>4, <1>10
  <2> HIDE DEF X, once, base, N
  <2>2. ran[0] \in X  BY <1>3, <1>9
  <2> QED  BY <1>1, <1>7, <2>1, <2>2, StepsStay
<1>12. RanSteps(defers, inRun, ran)  BY <1>9, <1>10 DEF RanSteps
<1> HIDE DEF X
<1> QED  BY <1>2, <1>11, <1>12 DEF X

\* Without deferred calls there is nothing to run.
LEMMA NothingDeferred ==
    ASSUME NEW inRun \in BOOLEAN
    PROVE  Idle(Ran(<<>>, inRun)) /\ Ran(<<>>, inRun) \in RestOf(inRun)
<1>1. <<>> \in Seq(Call) /\ Len(<<>>) = 0 /\ 0 \in 0 .. Len(<<>>)  OBVIOUS
<1>2. PICK ran \in [0 .. Len(<<>>) -> RestOf(inRun)] :
          RanSteps(<<>>, inRun, ran) /\ Ran(<<>>, inRun) = ran[Len(<<>>)]
  BY <1>1, RanIs
<1>3. \A h \in SUBSET Lock : ran[0][h].held = h /\ ran[0][h].failed = {}
  <2> SUFFICES ASSUME NEW h \in SUBSET Lock  PROVE ran[0][h].held = h /\ ran[0][h].failed = {}
    OBVIOUS
  <2>1. ran[0][h] = Bare(<<>>, 0, h)  BY <1>2 DEF RanSteps
  <2>2. Bare(<<>>, 0, h).held = h /\ Bare(<<>>, 0, h).failed = {}  BY <1>1, BareIs
  <2> QED  BY <2>1, <2>2
<1> QED  BY <1>1, <1>2, <1>3 DEF Idle

\* The deferred calls of the walk follow those of the run.
RestFollows(rest, own) == \A h \in SUBSET Lock :
    /\ "changes" \notin own[h].failed =>
         rest[h].held = own[h].held /\ ("call" \in own[h].failed => "call" \in rest[h].failed)
    /\ own[h].failed \cap Marks = {} => rest[h].failed \subseteq (own[h].failed \cap {"call"}) \cup {"recover"}

LEMMA ThenFollows ==
    ASSUME NEW s \in StateOf(FALSE), NEW t \in StateOf(TRUE), Fair(s, t),
           NEW rest \in RestOf(FALSE), NEW own \in RestOf(TRUE), RestFollows(rest, own)
    PROVE  Follows(s, Then(s, rest), t, Then(t, own))
<1> DEFINE w == Then(s, rest)
           r == Then(t, own)
           a == rest[s.held]
           b == own[t.held]
<1>1. w.defers = s.defers /\ Grows(s, w) /\ w.held = a.held /\ w.failed = s.failed \cup a.failed
  BY ThenIs
<1>2. r.defers = t.defers /\ Grows(t, r) /\ r.held = b.held /\ r.failed = t.failed \cup b.failed
  BY ThenIs
<1>3. s.held = t.held /\ s.defers = t.defers /\ s.held \in SUBSET Lock  BY StateParts DEF Fair
<1>4. /\ "changes" \notin b.failed => a.held = b.held /\ ("call" \in b.failed => "call" \in a.failed)
      /\ b.failed \cap Marks = {} => a.failed \subseteq (b.failed \cap {"call"}) \cup {"recover"}
  BY <1>3 DEF RestFollows
<1> HIDE DEF w, r, a, b
<1>5. Follows(s, w, t, r)  BY <1>1, <1>2, <1>3, <1>4 DEF Follows, Fair
<1> QED  BY <1>5 DEF w, r

LEMMA RanFollows ==
    ASSUME NEW defers \in Seq(Call)
    PROVE  RestFollows(Ran(defers, FALSE), Ran(defers, TRUE))
<1> DEFINE N == Len(defers)
<1>1. PICK f \in [0 .. N -> RestOf(FALSE)] : RanSteps(defers, FALSE, f) /\ Ran(defers, FALSE) = f[N]
  BY RanIs
<1>2. PICK g \in [0 .. N -> RestOf(TRUE)] : RanSteps(defers, TRUE, g) /\ Ran(defers, TRUE) = g[N]
  BY RanIs
<1> DEFINE S == {n \in Nat : n <= N => RestFollows(f[n], g[n])}
<1>3. N \in Nat /\ 0 \in 0 .. N  OBVIOUS
<1>4. \A h \in SUBSET Lock : f[0][h].held = h /\ f[0][h].failed = {} /\ g[0][h] = f[0][h]
  <2> SUFFICES ASSUME NEW h \in SUBSET Lock
               PROVE  f[0][h].held = h /\ f[0][h].failed = {} /\ g[0][h] = f[0][h]
    OBVIOUS
  <2>1. f[0][h] = Bare(defers, 0, h) /\ g[0][h] = Bare(defers, 0, h)  BY <1>1, <1>2 DEF RanSteps
  <2>2. Bare(defers, 0, h).held = h /\ Bare(defers, 0, h).failed = {}  BY <1>3, BareIs
  <2> QED  BY <2>1, <2>2
<1>5. 0 \in S  BY <1>4 DEF RestFollows
<1>6. ASSUME NEW n \in Nat, n \in S  PROVE n + 1 \in S
  <2> SUFFICES ASSUME n + 1 <= N, RestFollows(f[n], g[n])  PROVE RestFollows(f[n + 1], g[n + 1])
    BY <1>3, <1>6
  <2>1. n + 1 \in 1 .. N /\ (n + 1) - 1 = n /\ n \in 0 .. N /\ n + 1 \in 0 .. N /\ defers[n + 1] \in Call
    BY <1>3
  <2>2. f[n] \in RestOf(FALSE) /\ g[n] \in RestOf(TRUE)  BY <1>1, <1>2, <2>1
  <2> SUFFICES ASSUME NEW h \in SUBSET Lock
               PROVE  /\ "changes" \notin g[n + 1][h].failed =>
                           /\ f[n + 1][h].held = g[n + 1][h].held
                           /\ "call" \in g[n + 1][h].failed => "call" \in f[n + 1][h].failed
                      /\ g[n + 1][h].failed \cap Marks = {} =>
                           f[n + 1][h].failed \subseteq (g[n + 1][h].failed \cap {"call"}) \cup {"recover"}
    BY DEF RestFollows
  <2> DEFINE s == Bare(defers, n + 1, h)
             c == defers[n + 1]
             w == DoCall(s, c, f[n], FALSE)
             r == DoCall(s, c, g[n], TRUE)
  <2>3. f[n + 1][h] = Then(w, f[n]) /\ g[n + 1][h] = Then(r, g[n])
    BY <1>1, <1>2, <2>1 DEF RanSteps
  <2>4. s \in StateOf(FALSE) /\ s \in StateOf(TRUE) /\ s.failed = {} /\ (s.defers = <<>> => n + 1 \in {0, 1})
    BY <2>1, BareIs
  <2>5. s.defers = <<>> => Idle(f[n])
    <3> SUFFICES ASSUME s.defers = <<>>  PROVE Idle(f[n])  OBVIOUS
    <3>1. n = 0  BY <2>1, <2>4
    <3> QED  BY <1>4, <3>1 DEF Idle
  <2> HIDE DEF s
  <2>6. Fair(s, s)  BY DEF Fair
  <2>7. Follows(s, w, s, r)  BY <2>1, <2>2, <2>4, <2>5, <2>6, CallFollows
  <2>8. w \in StateOf(FALSE) /\ r \in StateOf(TRUE)  BY <2>1, <2>2, <2>4, CallIs
  <2> HIDE DEF w, r, c
  <2>9. Grows(w, Then(w, f[n])) /\ Grows(r, Then(r, g[n]))  BY <2>2, <2>8, ThenIs
  <2>10. Fair(w, r) => Follows(w, Then(w, f[n]), r, Then(r, g[n]))  BY <2>2, <2>8, ThenFollows
  <2>11. Follows(s, f[n + 1][h], s, g[n + 1][h])  BY <2>3, <2>7, <2>9, <2>10, FollowsOn
  <2> QED  BY <2>4, <2>11 DEF Follows, Fair
<1> HIDE DEF S
<1>7. N \in S  BY <1>3, <1>5, <1>6, NatSetInduction
<1> QED  BY <1>1, <1>2, <1>3, <1>7, SMTT(40) DEF S

-----------------------------------------------------------------------------
(***************************************************************************)
(* A block.                                                                *)
(***************************************************************************)
LEMMA RanIsTyped ==
    ASSUME NEW inRun \in BOOLEAN, NEW defers \in Seq(Call)
    PROVE  Ran(defers, inRun) \in RestOf(inRun) /\ (defers = <<>> => Idle(Ran(defers, inRun)))
<1>1. PICK ran \in [0 .. Len(defers) -> RestOf(inRun)] :
          RanSteps(defers, inRun, ran) /\ Ran(defers, inRun) = ran[Len(defers)]
  BY RanIs
<1>2. Len(defers) \in 0 .. Len(defers)  OBVIOUS
<1>3. Ran(defers, inRun) \in RestOf(inRun)  BY <1>1, <1>2
<1> QED  BY <1>3, NothingDeferred

LEMMA RunDefersIs ==
    ASSUME NEW inRun \in BOOLEAN, NEW s \in StateOf(inRun)
    PROVE  LET t == RunDefers(s, inRun)
               u == Then(s, Ran(s.defers, inRun))
           IN  /\ t \in StateOf(inRun) /\ u \in StateOf(inRun) /\ Grows(s, u) /\ Grows(s, t)
               /\ t.held = u.held /\ t.failed = u.failed /\ t.defers = <<>>
<1> DEFINE u == Then(s, Ran(s.defers, inRun))
<1>1. Ran(s.defers, inRun) \in RestOf(inRun)  BY StateParts, RanIsTyped
<1>2. u \in StateOf(inRun) /\ Grows(s, u)  BY <1>1, ThenIs
<1>3. RunDefers(s, inRun) = [u EXCEPT !.defers = <<>>]  BY DEF RunDefers
<1> HIDE DEF u
<1>4. RunDefers(s, inRun) = [held |-> u.held, defers |-> <<>>, failed |-> u.failed]
  BY <1>2, <1>3, StateParts
<1>5. u.held \in SUBSET Lock /\ u.failed \in SUBSET KindsOf(inRun) /\ <<>> \in Seq(Call)
  BY <1>2, StateParts
<1>6. RunDefers(s, inRun) \in StateOf(inRun)  BY <1>4, <1>5 DEF StateOf
<1>7. /\ RunDefers(s, inRun).held = u.held /\ RunDefers(s, inRun).failed = u.failed
      /\ RunDefers(s, inRun).defers = <<>>
  BY <1>4
<1>8. Grows(s, RunDefers(s, inRun))  BY <1>2, <1>7 DEF Grows
<1> QED  BY <1>2, <1>6, <1>7, <1>8 DEF u

LEMMA RunDefersFollows ==
    ASSUME NEW s \in StateOf(FALSE), NEW t \in StateOf(TRUE), Fair(s, t)
    PROVE  Follows(s, RunDefers(s, FALSE), t, RunDefers(t, TRUE))
<1> DEFINE rest == Ran(s.defers, FALSE)
           own == Ran(t.defers, TRUE)
           w == Then(s, rest)
           r == Then(t, own)
           v == RunDefers(s, FALSE)
           q == RunDefers(t, TRUE)
<1>1. s.defers \in Seq(Call) /\ t.defers \in Seq(Call) /\ s.defers = t.defers  BY StateParts DEF Fair
<1>2. rest \in RestOf(FALSE) /\ own \in RestOf(TRUE) /\ RestFollows(rest, own)
  BY <1>1, RanIsTyped, RanFollows
<1> HIDE DEF rest, own
<1>3. Follows(s, w, t, r)  BY <1>2, ThenFollows
<1>4. v.held = w.held /\ v.failed = w.failed /\ v.defers = <<>>  BY RunDefersIs DEF rest
<1>5. q.held = r.held /\ q.failed = r.failed /\ q.defers = <<>>  BY RunDefersIs DEF own
<1> HIDE DEF w, r, v, q
<1>6. Follows(s, v, t, q)  BY <1>3, <1>4, <1>5 DEF Follows, Grows, Fair
<1> QED  BY <1>6 DEF v, q

\* One instruction of a block.
DoOne(t, c, inRun) == IF c.deferred THEN [t EXCEPT !.defers = Append(@, c)]
                      ELSE DoCall(t, c, Ran(t.defers, inRun), inRun)

LEMMA OneIs ==
    ASSUME NEW inRun \in BOOLEAN, NEW s \in StateOf(inRun), NEW c \in Call
    PROVE  DoOne(s, c, inRun) \in StateOf(inRun) /\ Grows(s, DoOne(s, c, inRun))
<1>1. CASE c.deferred
  <2> DEFINE d == Append(s.defers, c)
  <2>1. d \in Seq(Call)  BY StateParts
  <2>2. DoOne(s, c, inRun) = [s EXCEPT !.defers = d]  BY <1>1 DEF DoOne
  <2> HIDE DEF d
  <2>3. DoOne(s, c, inRun) = [held |-> s.held, defers |-> d, failed |-> s.failed]
    BY <2>2, StateParts
  <2>4. s.held \in SUBSET Lock /\ s.failed \in SUBSET KindsOf(inRun)  BY StateParts
  <2>5. DoOne(s, c, inRun) \in StateOf(inRun)  BY <2>1, <2>3, <2>4 DEF StateOf
  <2> QED  BY <2>3, <2>5 DEF Grows
<1>2. CASE ~c.deferred
  <2>1. Ran(s.defers, inRun) \in RestOf(inRun)  BY StateParts, RanIsTyped
  <2>2. DoOne(s, c, inRun) = DoCall(s, c, Ran(s.defers, inRun), inRun)  BY <1>2 DEF DoOne
  <2> QED  BY <2>1, <2>2, CallIs
<1> QED  BY <1>1, <1>2

LEMMA OneFollows ==
    ASSUME NEW s \in StateOf(FALSE), NEW t \in StateOf(TRUE), Fair(s, t), NEW c \in Call
    PROVE  Follows(s, DoOne(s, c, FALSE), t, DoOne(t, c, TRUE))
<1>1. CASE c.deferred
  <2> DEFINE w == DoOne(s, c, FALSE)
             r == DoOne(t, c, TRUE)
             d == Append(s.defers, c)
  <2>1. s.held = t.held /\ s.defers = t.defers  BY DEF Fair
  <2>2. w = [s EXCEPT !.defers = d] /\ r = [t EXCEPT !.defers = d]  BY <1>1, <2>1 DEF DoOne
  <2>6. /\ s = [held |-> s.held, defers |-> s.defers, failed |-> s.failed]
        /\ t = [held |-> t.held, defers |-> t.defers, failed |-> t.failed]
    BY StateParts
  <2> HIDE DEF d, w, r
  <2>3. w = [held |-> s.held, defers |-> d, failed |-> s.failed]  BY <2>2, <2>6
  <2>4. r = [held |-> t.held, defers |-> d, failed |-> t.failed]  BY <2>2, <2>6
  <2>5. Follows(s, w, t, r)  BY <2>1, <2>3, <2>4 DEF Follows, Fair, Grows
  <2> QED  BY <2>5 DEF w, r
<1>2. CASE ~c.deferred
  <2>1. s.defers \in Seq(Call)  BY StateParts
  <2>2. Ran(s.defers, FALSE) \in RestOf(FALSE) /\ (s.defers = <<>> => Idle(Ran(s.defers, FALSE)))
    BY <2>1, RanIsTyped
  <2>3. /\ DoOne(s, c, FALSE) = DoCall(s, c, Ran(s.defers, FALSE), FALSE)
        /\ DoOne(t, c, TRUE) = DoCall(t, c, Ran(t.defers, TRUE), TRUE)
    BY <1>2 DEF DoOne
  <2> QED  BY <2>2, <2>3, CallFollows
<1> QED  BY <1>1, <1>2

\* The instructions of a block, one after the other.
CallsSteps(s, calls, inRun, after) ==
    /\ after[0] = s
    /\ \A n \in 1 .. Len(calls) : after[n] = DoOne(after[n - 1], calls[n], inRun)

LEMMA CallsIs ==
    ASSUME NEW inRun \in BOOLEAN, NEW s \in StateOf(inRun), NEW calls \in Seq(Call)
    PROVE  \E after \in [0 .. Len(calls) -> StateOf(inRun)] :
               CallsSteps(s, calls, inRun, after) /\ DoCalls(s, calls, inRun) = after[Len(calls)]
<1> DEFINE N == Len(calls)
           X == StateOf(inRun)
           Is(f) == f = [n \in 0 .. Len(calls) |->
                IF n = 0 THEN s
                ELSE LET t == f[n - 1]
                     IN  IF calls[n].deferred THEN [t EXCEPT !.defers = Append(@, calls[n])]
                         ELSE DoCall(t, calls[n], Ran(t.defers, inRun), inRun)]
           after == CHOOSE f : Is(f)
<1>1. N \in Nat /\ 0 \in 0 .. N
      /\ \A n \in 1 .. N : calls[n] \in Call /\ n \in 0 .. N /\ n - 1 \in 0 .. N /\ n # 0
  OBVIOUS
<1>2. DoCalls(s, calls, inRun) = after[N]  BY DEF DoCalls
<1>3. s \in X  OBVIOUS
<1>4. ASSUME NEW n \in 1 .. N, NEW x \in X  PROVE DoOne(x, calls[n], inRun) \in X
  BY <1>1, OneIs
<1> HIDE DEF X
<1>5. \E f \in [0 .. N -> X] : Is(f)
  <2> DEFINE step == [n \in 1 .. N |-> [x \in X |-> DoOne(x, calls[n], inRun)]]
  <2>1. step \in [1 .. N -> [X -> X]]  BY <1>4
  <2>2. \A n \in 1 .. N, x \in X : step[n][x] = DoOne(x, calls[n], inRun)  OBVIOUS
  <2> HIDE DEF step, N
  <2>3. HasRun(X, s, N, step)  BY <1>1, <1>3, <2>1, Iterated
  <2>4. PICK g \in [0 .. N -> X] : g[0] = s /\ \A n \in 1 .. N : g[n] = step[n][g[n - 1]]
    BY <2>3 DEF HasRun
  <2>5. \A n \in 1 .. N : g[n] = DoOne(g[n - 1], calls[n], inRun)  BY <1>1, <2>2, <2>4
  <2>6. Is(g)
    <3>1. g = [n \in 0 .. N |-> g[n]]  BY <2>4
    <3>2. ASSUME NEW n \in 0 .. N
          PROVE  g[n] = IF n = 0 THEN s
                ELSE LET t == g[n - 1]
                     IN  IF calls[n].deferred THEN [t EXCEPT !.defers = Append(@, calls[n])]
                         ELSE DoCall(t, calls[n], Ran(t.defers, inRun), inRun)
      <4>1. CASE n = 0  BY <2>4, <4>1
      <4>2. CASE n # 0
        <5>1. n \in 1 .. N  BY <1>1, <4>2
        <5>2. g[n] = DoOne(g[n - 1], calls[n], inRun)  BY <2>5, <5>1, SMTT(40)
        <5> QED  BY <4>2, <5>2 DEF DoOne
      <4> QED  BY <4>1, <4>2
    <3> QED  BY <3>1, <3>2 DEF N
  <2> QED  BY <2>4, <2>6
<1>6. Is(after)  BY <1>5, Zenon
<1> HIDE DEF after
<1>7. after = [n \in 0 .. N |-> after[n]]  BY <1>6, SMTT(40)
<1>8. ASSUME NEW n \in 0 .. N
      PROVE  after[n] = IF n = 0 THEN s
                ELSE LET t == after[n - 1]
                     IN  IF calls[n].deferred THEN [t EXCEPT !.defers = Append(@, calls[n])]
                         ELSE DoCall(t, calls[n], Ran(t.defers, inRun), inRun)
  BY <1>6
<1> HIDE DEF Is
<1>9. after[0] = s  BY <1>1, <1>8
<1>10. \A n \in 1 .. N : after[n] = DoOne(after[n - 1], calls[n], inRun)  BY <1>1, <1>8 DEF DoOne
<1>11. after \in [0 .. N -> X]
  <2>1. \A n \in 1 .. N : after[n - 1] \in X => after[n] \in X
    <3> HIDE DEF N
    <3> QED  BY <1>4, <1>10
  <2> HIDE DEF N
  <2>2. after[0] \in X  BY <1>3, <1>9
  <2> QED  BY <1>1, <1>7, <2>1, <2>2, StepsStay
<1>12. CallsSteps(s, calls, inRun, after)  BY <1>9, <1>10 DEF CallsSteps
<1> QED  BY <1>2, <1>11, <1>12 DEF X

LEMMA CallsGrow ==
    ASSUME NEW inRun \in BOOLEAN, NEW s \in StateOf(inRun), NEW calls \in Seq(Call)
    PROVE  DoCalls(s, calls, inRun) \in StateOf(inRun) /\ Grows(s, DoCalls(s, calls, inRun))
<1>1. PICK after \in [0 .. Len(calls) -> StateOf(inRun)] :
          CallsSteps(s, calls, inRun, after) /\ DoCalls(s, calls, inRun) = after[Len(calls)]
  BY CallsIs
<1> DEFINE N == Len(calls)
           X == {t \in StateOf(inRun) : Grows(s, t)}
<1>2. N \in Nat /\ N \in 0 .. N /\ \A n \in 1 .. N : calls[n] \in Call /\ n - 1 \in 0 .. N  OBVIOUS
<1>3. after[0] \in X  BY <1>1 DEF CallsSteps, Grows
<1>4. \A n \in 1 .. N : after[n - 1] \in X => after[n] \in X
  <2> SUFFICES ASSUME NEW n \in 1 .. N, after[n - 1] \in X  PROVE after[n] \in X  OBVIOUS
  <2>1. after[n] = DoOne(after[n - 1], calls[n], inRun) /\ calls[n] \in Call
    BY <1>1, <1>2 DEF CallsSteps
  <2>2. DoOne(after[n - 1], calls[n], inRun) \in StateOf(inRun)
        /\ Grows(after[n - 1], DoOne(after[n - 1], calls[n], inRun))
    BY <2>1, OneIs
  <2> QED  BY <2>1, <2>2 DEF Grows
<1>5. after = [n \in 0 .. N |-> after[n]]  BY <1>1
<1> HIDE DEF X
<1>6. after \in [0 .. N -> X]
  <2> HIDE DEF N
  <2> QED  BY <1>2, <1>3, <1>4, <1>5, StepsStay
<1>7. after[N] \in X  BY <1>2, <1>6
<1> QED  BY <1>1, <1>7 DEF X

LEMMA CallsFollow ==
    ASSUME NEW s \in StateOf(FALSE), NEW t \in StateOf(TRUE), Fair(s, t), NEW calls \in Seq(Call)
    PROVE  Follows(s, DoCalls(s, calls, FALSE), t, DoCalls(t, calls, TRUE))
<1>1. PICK f \in [0 .. Len(calls) -> StateOf(FALSE)] :
          CallsSteps(s, calls, FALSE, f) /\ DoCalls(s, calls, FALSE) = f[Len(calls)]
  BY CallsIs
<1>2. PICK g \in [0 .. Len(calls) -> StateOf(TRUE)] :
          CallsSteps(t, calls, TRUE, g) /\ DoCalls(t, calls, TRUE) = g[Len(calls)]
  BY CallsIs
<1> DEFINE N == Len(calls)
           S == {n \in Nat : n <= N => Follows(s, f[n], t, g[n])}
<1>3. N \in Nat /\ \A n \in 1 .. N : calls[n] \in Call  OBVIOUS
<1>4. 0 \in S  BY <1>1, <1>2, FollowsStart DEF CallsSteps
<1>5. \A n \in Nat : n \in S => n + 1 \in S
  <2> SUFFICES ASSUME NEW n \in Nat, n + 1 <= N, Follows(s, f[n], t, g[n])
               PROVE  Follows(s, f[n + 1], t, g[n + 1])
    BY <1>3
  <2>1. n + 1 \in 1 .. N /\ (n + 1) - 1 = n /\ n \in 0 .. N  BY <1>3
  <2> DEFINE c == calls[n + 1]
  <2>2. f[n + 1] = DoOne(f[n], c, FALSE) /\ g[n + 1] = DoOne(g[n], c, TRUE)
    BY <1>1, <1>2, <2>1 DEF CallsSteps
  <2>3. f[n] \in StateOf(FALSE) /\ g[n] \in StateOf(TRUE) /\ c \in Call  BY <1>1, <1>2, <1>3, <2>1
  <2> HIDE DEF c
  <2>4. Grows(f[n], DoOne(f[n], c, FALSE)) /\ Grows(g[n], DoOne(g[n], c, TRUE))  BY <2>3, OneIs
  <2>5. Fair(f[n], g[n]) => Follows(f[n], DoOne(f[n], c, FALSE), g[n], DoOne(g[n], c, TRUE))
    BY <2>3, OneFollows
  <2> QED  BY <2>2, <2>4, <2>5, FollowsOn
<1> HIDE DEF S
<1>6. N \in S  BY <1>3, <1>4, <1>5, NatSetInduction
<1> QED  BY <1>1, <1>2, <1>3, <1>6 DEF S

LEMMA BlockIs ==
    ASSUME NEW inRun \in BOOLEAN, NEW s \in StateOf(inRun), NEW b, code[b] \in Seq(Call)
    PROVE  DoBlock(s, b, inRun) \in StateOf(inRun) /\ Grows(s, DoBlock(s, b, inRun))
<1> DEFINE t == DoCalls(s, code[b], inRun)
<1>1. t \in StateOf(inRun) /\ Grows(s, t)  BY CallsGrow
<1>2. DoBlock(s, b, inRun) = IF Returns(b) THEN RunDefers(t, inRun) ELSE t  BY DEF DoBlock
<1> HIDE DEF t
<1>3. RunDefers(t, inRun) \in StateOf(inRun) /\ Grows(t, RunDefers(t, inRun))  BY <1>1, RunDefersIs
<1> QED  BY <1>1, <1>2, <1>3 DEF Grows

LEMMA BlockFollows ==
    ASSUME NEW s \in StateOf(FALSE), NEW t \in StateOf(TRUE), Fair(s, t), NEW b, code[b] \in Seq(Call)
    PROVE  Follows(s, DoBlock(s, b, FALSE), t, DoBlock(t, b, TRUE))
<1> DEFINE w == DoCalls(s, code[b], FALSE)
           r == DoCalls(t, code[b], TRUE)
<1>1. w \in StateOf(FALSE) /\ r \in StateOf(TRUE)  BY CallsGrow
<1>2. Follows(s, w, t, r)  BY CallsFollow
<1>3. /\ DoBlock(s, b, FALSE) = IF Returns(b) THEN RunDefers(w, FALSE) ELSE w
      /\ DoBlock(t, b, TRUE) = IF Returns(b) THEN RunDefers(r, TRUE) ELSE r
  BY DEF DoBlock
<1> HIDE DEF w, r
<1>4. Grows(w, RunDefers(w, FALSE)) /\ Grows(r, RunDefers(r, TRUE))  BY <1>1, RunDefersIs
<1>5. Fair(w, r) => Follows(w, RunDefers(w, FALSE), r, RunDefers(r, TRUE))
  BY <1>1, RunDefersFollows
<1>6. Follows(s, RunDefers(w, FALSE), t, RunDefers(r, TRUE))  BY <1>2, <1>4, <1>5, FollowsOn
<1> QED  BY <1>2, <1>3, <1>6

-----------------------------------------------------------------------------
(***************************************************************************)
(* The paths in a flow graph.                                              *)
(***************************************************************************)
IsPath(graph, p) ==
    /\ p \in Seq(DOMAIN graph) /\ Len(p) > 0 /\ p[1] = 1
    /\ \A m, n \in 1 .. Len(p) : p[m] = p[n] => m = n
    /\ \A n \in 1 .. Len(p) - 1 : \E k \in 1 .. Len(graph[p[n]]) : p[n + 1] = graph[p[n]][k]

\* A path that enters no block twice is no longer than there are blocks.
LEMMA PathIs ==
    ASSUME NEW graph \in Seq(Seq(Nat)), NEW p
    PROVE  p \in PathsOf(graph) <=> IsPath(graph, p)
<1>1. DOMAIN graph = 1 .. Len(graph) /\ Len(graph) \in Nat
      /\ \A b \in DOMAIN graph : graph[b] \in Seq(Nat)
  OBVIOUS
<1> DEFINE B == DOMAIN graph
<1>2. ASSUME p \in PathsOf(graph)  PROVE IsPath(graph, p)
  <2>1. /\ p \in BoundedSeq(B, Len(graph)) /\ p # <<>> /\ p[1] = 1 /\ IsInjective(p)
        /\ \A n \in 2 .. Len(p) : p[n] \in Range(graph[p[n - 1]])
    BY <1>2 DEF PathsOf
  <2>2. p \in Seq(B)
    <3>1. PICK m \in 0 .. Len(graph) : p \in [1 .. m -> B]  BY <2>1 DEF BoundedSeq, SeqOf
    <3> HIDE DEF B
    <3> QED  BY <1>1, <3>1
  <2>3. Len(p) > 0 /\ DOMAIN p = 1 .. Len(p)  BY <2>1, <2>2
  <2>4. ASSUME NEW n \in 1 .. Len(p) - 1
        PROVE  \E k \in 1 .. Len(graph[p[n]]) : p[n + 1] = graph[p[n]][k]
    <3>1. n + 1 \in 2 .. Len(p) /\ (n + 1) - 1 = n /\ n \in 1 .. Len(p)  BY <2>2, <2>3
    <3>2. p[n + 1] \in Range(graph[p[n]])  BY <2>1, <3>1
    <3>3. graph[p[n]] \in Seq(Nat)  BY <1>1, <2>2, <3>1, SMTT(40)
    <3>4. DOMAIN graph[p[n]] = 1 .. Len(graph[p[n]])  BY <3>3
    <3> QED  BY <3>2, <3>4 DEF Range
  <2>5. \A m, n \in 1 .. Len(p) : p[m] = p[n] => m = n  BY <2>1, <2>3 DEF IsInjective
  <2> QED  BY <2>1, <2>2, <2>3, <2>4, <2>5 DEF IsPath
<1>3. ASSUME IsPath(graph, p)  PROVE p \in PathsOf(graph)
  <2>1. p \in Seq(B) /\ p # <<>> /\ p[1] = 1 /\ DOMAIN p = 1 .. Len(p) /\ Len(p) \in Nat
    BY <1>3 DEF IsPath
  <2>2. IsInjective(p)  BY <1>3, <2>1 DEF IsPath, IsInjective
  <2>3. \A n \in 2 .. Len(p) : p[n] \in Range(graph[p[n - 1]])
    <3> SUFFICES ASSUME NEW n \in 2 .. Len(p)  PROVE p[n] \in Range(graph[p[n - 1]])  OBVIOUS
    <3>1. n - 1 \in 1 .. Len(p) - 1 /\ (n - 1) + 1 = n /\ n - 1 \in 1 .. Len(p)  BY <2>1
    <3>2. PICK k \in 1 .. Len(graph[p[n - 1]]) : p[n] = graph[p[n - 1]][k]
      BY <1>3, <3>1 DEF IsPath
    <3>3. graph[p[n - 1]] \in Seq(Nat)  BY <1>1, <2>1, <3>1, SMTT(40)
    <3>4. DOMAIN graph[p[n - 1]] = 1 .. Len(graph[p[n - 1]])  BY <3>3
    <3> QED  BY <3>2, <3>4 DEF Range
  <2>4. Len(p) <= Len(graph)
    <3> SUFFICES ASSUME Len(p) > Len(graph)  PROVE FALSE  BY <1>1, <2>1
    <3>1. /\ IsFiniteSet(1 .. Len(p)) /\ IsFiniteSet(1 .. Len(graph))
          /\ Cardinality(1 .. Len(p)) = Len(p) /\ Cardinality(1 .. Len(graph)) = Len(graph)
      <4>1. Len(p) \in Int /\ Len(graph) \in Int /\ 1 \in Int  BY <1>1, <2>1
      <4>2. /\ IsFiniteSet(1 .. Len(p)) /\ IsFiniteSet(1 .. Len(graph))
            /\ Cardinality(1 .. Len(p)) = IF 1 > Len(p) THEN 0 ELSE Len(p) - 1 + 1
            /\ Cardinality(1 .. Len(graph)) = IF 1 > Len(graph) THEN 0 ELSE Len(graph) - 1 + 1
        BY <4>1, FS_Interval
      <4> QED  BY <1>1, <2>1, <4>2
    <3>2. p \in [1 .. Len(p) -> 1 .. Len(graph)]  BY <1>1, <2>1, SMTT(40)
    <3>3. \E x, y \in 1 .. Len(p) : x # y /\ p[x] = p[y]
      BY <3>1, <3>2, FS_PigeonHole
    <3> QED  BY <2>1, <2>2, <3>3 DEF IsInjective
  <2>5. p \in BoundedSeq(B, Len(graph))
    <3>1. Len(p) \in 0 .. Len(graph) /\ p \in [1 .. Len(p) -> B]  BY <1>1, <2>1, <2>4
    <3> HIDE DEF B
    <3> QED  BY <3>1 DEF BoundedSeq, SeqOf
  <2> QED  BY <2>1, <2>2, <2>3, <2>5 DEF PathsOf
<1> QED  BY <1>2, <1>3

LEMMA PrefixIsPath ==
    ASSUME NEW graph \in Seq(Seq(Nat)), NEW p, IsPath(graph, p), NEW n \in 1 .. Len(p)
    PROVE  LET q == SubSeq(p, 1, n)
           IN  /\ IsPath(graph, q) /\ Len(q) = n /\ \A i \in 1 .. n : q[i] = p[i]
               /\ Last(q) = p[n] /\ Front(q) = SubSeq(p, 1, n - 1)
<1> DEFINE q == SubSeq(p, 1, n)
<1>1. p \in Seq(DOMAIN graph)  BY DEF IsPath
<1>2. q \in Seq(DOMAIN graph) /\ Len(q) = n /\ \A i \in 1 .. n : q[i] = p[i]  BY <1>1
<1>3. SubSeq(q, 1, n - 1) = SubSeq(p, 1, n - 1)  BY <1>1
<1>4. Front(q) = SubSeq(p, 1, n - 1)  BY <1>2, <1>3 DEF Front
<1>5. n \in Nat /\ n \in 1 .. n  BY <1>1
<1> HIDE DEF q
<1>6. IsPath(graph, q)
  <2>1. n \in Nat /\ n > 0 /\ Len(p) \in Nat /\ n <= Len(p)  BY <1>1
  <2>2. q[1] = 1  BY <1>2, <2>1 DEF IsPath
  <2>3. \A i, j \in 1 .. Len(q) : q[i] = q[j] => i = j
    <3>1. \A i \in 1 .. n : i \in 1 .. Len(p)  BY <2>1
    <3>2. \A i, j \in 1 .. Len(p) : p[i] = p[j] => i = j  BY Zenon DEF IsPath
    <3> QED  BY <1>2, <3>1, <3>2, Zenon
  <2>4. ASSUME NEW i \in 1 .. Len(q) - 1
        PROVE  \E k \in 1 .. Len(graph[q[i]]) : q[i + 1] = graph[q[i]][k]
    <3>1. i \in 1 .. n /\ i + 1 \in 1 .. n /\ i \in 1 .. Len(p) - 1  BY <1>2, <2>1, SMTT(40)
    <3>2. q[i] = p[i] /\ q[i + 1] = p[i + 1]  BY <1>2, <3>1
    <3> QED  BY <3>1, <3>2 DEF IsPath
  <2> QED  BY <1>2, <2>1, <2>2, <2>3, <2>4 DEF IsPath
<1>7. q[n] = p[n] /\ Len(q) = n  BY <1>5, <1>2
<1>8. Last(q) = p[n]  BY <1>7, Zenon DEF Last
<1> QED  BY <1>2, <1>4, <1>6, <1>8 DEF q

LEMMA NotLast ==
    ASSUME NEW m \in Nat, NEW n \in 1 .. m, n # m
    PROVE  n \in 1 .. m - 1 /\ n + 1 \in 1 .. m
OBVIOUS

LEMMA LongerPath ==
    ASSUME NEW graph, graph \in Seq(Seq(DOMAIN graph)), NEW p, IsPath(graph, p),
           NEW k \in 1 .. Len(graph[p[Len(p)]]),
           \A n \in 1 .. Len(p) : p[n] # graph[p[Len(p)]][k]
    PROVE  LET q == Append(p, graph[p[Len(p)]][k])
           IN  IsPath(graph, q) /\ Last(q) = graph[p[Len(p)]][k] /\ Front(q) = p
<1> DEFINE b == graph[p[Len(p)]][k]
           q == Append(p, b)
<1>1. p \in Seq(DOMAIN graph) /\ Len(p) \in 1 .. Len(p) /\ Len(p) \in Nat /\ Len(p) > 0
  BY DEF IsPath
<1>2. p[Len(p)] \in DOMAIN graph /\ graph[p[Len(p)]] \in Seq(DOMAIN graph)  BY <1>1
<1>3. b \in DOMAIN graph  BY <1>2
<1>4. \E i \in 1 .. Len(graph[p[Len(p)]]) : b = graph[p[Len(p)]][i]  OBVIOUS
<1>5. \A n \in 1 .. Len(p) : p[n] # b  OBVIOUS
<1> HIDE DEF b
<1>6. /\ q \in Seq(DOMAIN graph) /\ Len(q) = Len(p) + 1 /\ q[Len(p) + 1] = b
      /\ \A i \in 1 .. Len(p) : q[i] = p[i]
  BY <1>1, <1>3
<1>7. SubSeq(q, 1, Len(p)) = p  BY <1>1, <1>3
<1>8. Len(q) = Len(p) + 1 /\ Len(q) - 1 = Len(p) /\ q[Len(p) + 1] = b  BY <1>1, <1>6
<1> HIDE DEF q
<1>9. Front(q) = p /\ Last(q) = b  BY <1>7, <1>8, Zenon DEF Front, Last
<1>10. \A n \in 1 .. Len(q) - 1 : \E i \in 1 .. Len(graph[q[n]]) : q[n + 1] = graph[q[n]][i]
  <2> SUFFICES ASSUME NEW n \in 1 .. Len(q) - 1
               PROVE  \E i \in 1 .. Len(graph[q[n]]) : q[n + 1] = graph[q[n]][i]
    OBVIOUS
  <2>1. n \in 1 .. Len(p) /\ q[n] = p[n]  BY <1>1, <1>6
  <2>2. CASE n = Len(p)  BY <1>4, <1>6, <2>1, <2>2
  <2>3. CASE n # Len(p)
    <3>1. Len(p) \in Nat /\ n \in 1 .. Len(p) /\ n # Len(p)  BY <1>1, <2>1, <2>3, Zenon
    <3>2. n \in 1 .. Len(p) - 1 /\ n + 1 \in 1 .. Len(p)  BY <3>1, NotLast, Zenon
    <3>3. q[n + 1] = p[n + 1]  BY <1>6, <3>2
    <3>4. \E i \in 1 .. Len(graph[p[n]]) : p[n + 1] = graph[p[n]][i]  BY <3>2 DEF IsPath
    <3> QED  BY <2>1, <3>3, <3>4
  <2> QED  BY <2>2, <2>3
<1>11. q[1] = 1 /\ Len(q) > 0  BY <1>1, <1>6, SMTT(40) DEF IsPath
<1>12. \A m, n \in 1 .. Len(q) : q[m] = q[n] => m = n
  <2> SUFFICES ASSUME NEW m \in 1 .. Len(q), NEW n \in 1 .. Len(q), q[m] = q[n]  PROVE m = n
    OBVIOUS
  <2>3. Len(q) = Len(p) + 1 /\ Len(p) \in Nat  BY <1>1, <1>6
  <2>1. (m = Len(p) + 1 \/ m \in 1 .. Len(p)) /\ (n = Len(p) + 1 \/ n \in 1 .. Len(p))
    BY <2>3
  <2>2. \A i, j \in 1 .. Len(p) : p[i] = p[j] => i = j  BY DEF IsPath
  <2> QED  BY <1>5, <1>6, <2>1, <2>2
<1>13. IsPath(graph, q)  BY <1>6, <1>10, <1>11, <1>12 DEF IsPath
<1> QED  BY <1>9, <1>13 DEF q, b

-----------------------------------------------------------------------------
(***************************************************************************)
(* The runs of the function, and the state after each.                     *)
(***************************************************************************)
\* What is walked does not change during the walk.
InputOK == /\ succs \in Shape /\ code \in [Block -> Seq(Call)] /\ facts \in Facts
           /\ shown \in Shown

LEMMA GraphIs ==
    ASSUME succs \in Shape
    PROVE  /\ succs \in Seq(Seq(DOMAIN succs)) /\ succs \in Seq(Seq(Nat)) /\ Len(succs) > 0
           /\ Block = 1 .. Len(succs) /\ Entry \in Block
           /\ \A p : p \in Runs <=> IsPath(succs, p)
<1>1. succs \in Seq(Seq(DOMAIN succs)) /\ succs # <<>>  BY ShapeAssumption
<1>2. Len(succs) > 0 /\ DOMAIN succs = 1 .. Len(succs) /\ DOMAIN succs \subseteq Nat  BY <1>1
<1>3. \A b \in 1 .. Len(succs) : succs[b] \in Seq(Nat)  BY <1>1, <1>2
<1>4. succs \in Seq(Seq(Nat))  BY <1>1, <1>2, <1>3
<1>5. \A p : p \in PathsOf(succs) <=> IsPath(succs, p)  BY <1>4, PathIs
<1>6. Runs = PathsOf(succs)  BY DEF Runs, RunsOf
<1>7. Block = 1 .. Len(succs) /\ Entry \in Block  BY <1>2 DEF Block, Entry
<1> QED  BY <1>1, <1>2, <1>4, <1>5, <1>6, <1>7

LEMMA SuccsIs ==
    ASSUME succs \in Shape, NEW b \in Block
    PROVE  /\ succs[b] \in Seq(Block) /\ Len(succs[b]) \in Nat
           /\ \A k \in 1 .. Len(succs[b]) : succs[b][k] \in Block
<1>1. succs \in Seq(Seq(Block)) /\ b \in DOMAIN succs  BY GraphIs DEF Block
<1>2. succs[b] \in Seq(Block)  BY <1>1
<1> QED  BY <1>2

LEMMA StartIs ==
    ASSUME InputOK
    PROVE  /\ Start \in StateOf(FALSE) /\ Start \in StateOf(TRUE) /\ Start.failed = {}
           /\ Start.held = facts.entry /\ Start.defers = <<>>
<1>1. facts.entry \in SUBSET Lock  BY DEF InputOK, Facts
<1> QED  BY <1>1 DEF Start, StateOf

AfterSteps(run, after) ==
    /\ after[0] = Start
    /\ \A n \in 1 .. Len(run) : after[n] = DoBlock(after[n - 1], run[n], TRUE)

LEMMA AfterIs ==
    ASSUME InputOK, NEW run \in Seq(Block)
    PROVE  \E after \in [0 .. Len(run) -> StateOf(TRUE)] :
               AfterSteps(run, after) /\ After(run) = after[Len(run)]
<1> DEFINE N == Len(run)
           X == StateOf(TRUE)
           Is(f) == f = [n \in 0 .. Len(run) |-> IF n = 0 THEN Start ELSE DoBlock(f[n - 1], run[n], TRUE)]
           after == CHOOSE f : Is(f)
<1>1. N \in Nat /\ 0 \in 0 .. N
      /\ \A n \in 1 .. N : run[n] \in Block /\ n \in 0 .. N /\ n - 1 \in 0 .. N /\ n # 0
  OBVIOUS
<1>2. After(run) = after[N]  BY DEF After
<1>3. Start \in X  BY StartIs
<1>4. ASSUME NEW n \in 1 .. N, NEW x \in X  PROVE DoBlock(x, run[n], TRUE) \in X
  <2>1. code[run[n]] \in Seq(Call)  BY <1>1 DEF InputOK
  <2> QED  BY <2>1, BlockIs
<1> HIDE DEF X
<1>5. \E f \in [0 .. N -> X] : Is(f)
  <2> DEFINE step == [n \in 1 .. N |-> [x \in X |-> DoBlock(x, run[n], TRUE)]]
  <2>1. step \in [1 .. N -> [X -> X]]  BY <1>4
  <2>2. \A n \in 1 .. N, x \in X : step[n][x] = DoBlock(x, run[n], TRUE)  OBVIOUS
  <2> HIDE DEF step, N
  <2>3. HasRun(X, Start, N, step)  BY <1>1, <1>3, <2>1, Iterated
  <2>4. PICK g \in [0 .. N -> X] : g[0] = Start /\ \A n \in 1 .. N : g[n] = step[n][g[n - 1]]
    BY <2>3 DEF HasRun
  <2>5. \A n \in 1 .. N : g[n] = DoBlock(g[n - 1], run[n], TRUE)  BY <1>1, <2>2, <2>4
  <2>6. Is(g)
    <3>1. g = [n \in 0 .. N |-> g[n]]  BY <2>4
    <3>2. ASSUME NEW n \in 0 .. N
          PROVE  g[n] = IF n = 0 THEN Start ELSE DoBlock(g[n - 1], run[n], TRUE)
      <4>1. CASE n = 0  BY <2>4, <4>1
      <4>2. CASE n # 0
        <5>1. n \in 1 .. N  BY <1>1, <4>2
        <5> QED  BY <2>5, <4>2, <5>1
      <4> QED  BY <4>1, <4>2
    <3> QED  BY <3>1, <3>2 DEF N
  <2> QED  BY <2>4, <2>6
<1>6. Is(after)  BY <1>5
<1> HIDE DEF after
<1>7. after = [n \in 0 .. N |-> after[n]]  BY <1>6
<1>8. ASSUME NEW n \in 0 .. N
      PROVE  after[n] = IF n = 0 THEN Start ELSE DoBlock(after[n - 1], run[n], TRUE)
  BY <1>6
<1> HIDE DEF Is
<1>9. after[0] = Start  BY <1>1, <1>8
<1>10. \A n \in 1 .. N : after[n] = DoBlock(after[n - 1], run[n], TRUE)  BY <1>1, <1>8
<1>11. after \in [0 .. N -> X]
  <2>1. \A n \in 1 .. N : after[n - 1] \in X => after[n] \in X
    <3> HIDE DEF N
    <3> QED  BY <1>4, <1>10
  <2> HIDE DEF N
  <2>2. after[0] \in X  BY <1>3, <1>9
  <2> QED  BY <1>1, <1>7, <2>1, <2>2, StepsStay
<1>12. AfterSteps(run, after)  BY <1>9, <1>10 DEF AfterSteps
<1> QED  BY <1>2, <1>11, <1>12 DEF X

LEMMA FrontIs ==
    ASSUME NEW S, NEW s \in Seq(S), Len(s) > 0
    PROVE  /\ Front(s) \in Seq(S) /\ Len(Front(s)) = Len(s) - 1
           /\ \A n \in 1 .. Len(s) - 1 : Front(s)[n] = s[n]
<1>1. Len(s) \in Nat /\ Len(s) - 1 \in Nat  OBVIOUS
<1>2. SubSeq(s, 1, Len(s) - 1) \in Seq(S) /\ Len(SubSeq(s, 1, Len(s) - 1)) = Len(s) - 1
  <2> DEFINE N == Len(s) - 1
  <2>1. \A i \in 1 .. N : s[i] \in S  BY <1>1
  <2>2. 1 \in Int /\ N \in Int /\ N \in Nat  BY <1>1
  <2> HIDE DEF N
  <2>3. /\ SubSeq(s, 1, N) \in Seq(S)
        /\ Len(SubSeq(s, 1, N)) = IF 1 <= N THEN N - 1 + 1 ELSE 0
    BY <2>1, <2>2, SubSeqProperties
  <2>4. Len(SubSeq(s, 1, N)) = N  BY <2>2, <2>3
  <2> QED  BY <2>3, <2>4 DEF N
<1>3. \A n \in 1 .. Len(s) - 1 : SubSeq(s, 1, Len(s) - 1)[n] = s[n]  BY <1>1
<1> QED  BY <1>2, <1>3 DEF Front

LEMMA AfterNothing ==
    ASSUME InputOK
    PROVE  After(<<>>) = Start
<1>1. <<>> \in Seq(Block) /\ Len(<<>>) = 0  OBVIOUS
<1>2. \E after \in [0 .. Len(<<>>) -> StateOf(TRUE)] :
          AfterSteps(<<>>, after) /\ After(<<>>) = after[Len(<<>>)]
  BY <1>1, AfterIs
<1> QED  BY <1>1, <1>2 DEF AfterSteps

\* The last block is done where the run before it left off.
LEMMA AfterFront ==
    ASSUME InputOK, NEW run \in Seq(Block), Len(run) > 0
    PROVE  /\ Front(run) \in Seq(Block) /\ Last(run) \in Block
           /\ After(Front(run)) \in StateOf(TRUE)
           /\ After(run) = DoBlock(After(Front(run)), Last(run), TRUE)
           /\ After(run) \in StateOf(TRUE)
<1> DEFINE q == Front(run)
           N == Len(run) - 1
<1>1. /\ N \in Nat /\ Len(run) \in 1 .. Len(run) /\ Len(run) - 1 = N
      /\ q \in Seq(Block) /\ Len(q) = N /\ (\A n \in 1 .. N : q[n] = run[n] /\ n \in 1 .. Len(run))
      /\ run[Len(run)] \in Block
  <2>1. Len(run) \in Nat /\ N \in Nat /\ Len(run) \in 1 .. Len(run) /\ Len(run) - 1 = N  OBVIOUS
  <2>2. q \in Seq(Block) /\ Len(q) = N /\ \A n \in 1 .. N : q[n] = run[n]  BY FrontIs
  <2>3. \A n \in 1 .. N : n \in 1 .. Len(run)  BY <2>1
  <2>4. run[Len(run)] \in Block  BY <2>1
  <2> QED  BY <2>1, <2>2, <2>3, <2>4
<1> HIDE DEF q
<1>2. PICK f \in [0 .. Len(run) -> StateOf(TRUE)] : AfterSteps(run, f) /\ After(run) = f[Len(run)]
  BY AfterIs
<1>3. PICK g \in [0 .. Len(q) -> StateOf(TRUE)] : AfterSteps(q, g) /\ After(q) = g[Len(q)]
  BY <1>1, AfterIs
<1> DEFINE S == {n \in Nat : n <= N => f[n] = g[n]}
<1>4. 0 \in S  BY <1>2, <1>3 DEF AfterSteps
<1>5. \A n \in Nat : n \in S => n + 1 \in S
  <2> SUFFICES ASSUME NEW n \in Nat, n + 1 <= N, f[n] = g[n]  PROVE f[n + 1] = g[n + 1]
    OBVIOUS
  <2>1. n + 1 \in 1 .. N /\ (n + 1) - 1 = n  BY <1>1
  <2>2. f[n + 1] = DoBlock(f[n], run[n + 1], TRUE)  BY <1>1, <1>2, <2>1 DEF AfterSteps
  <2>3. g[n + 1] = DoBlock(g[n], q[n + 1], TRUE)  BY <1>1, <1>3, <2>1 DEF AfterSteps
  <2> QED  BY <1>1, <2>1, <2>2, <2>3
<1> HIDE DEF S
<1>6. N \in S  BY <1>1, <1>4, <1>5, NatSetInduction
<1>7. f[N] = After(q)  BY <1>1, <1>3, <1>6 DEF S
<1> HIDE DEF N
<1>8. After(run) = DoBlock(f[N], run[Len(run)], TRUE)  BY <1>1, <1>2 DEF AfterSteps
<1>9. After(q) \in StateOf(TRUE) /\ After(run) \in StateOf(TRUE)
  <2>1. N \in 0 .. N /\ Len(run) \in 0 .. Len(run)  BY <1>1
  <2> QED  BY <1>1, <1>2, <1>3, <2>1
<1> QED  BY <1>1, <1>7, <1>8, <1>9 DEF q, Last

-----------------------------------------------------------------------------
(***************************************************************************)
(* The types, and the shape of the stack: each frame is the call for the   *)
(* next successor of the frame below it.                                   *)
(***************************************************************************)
FrameType == [block : Block, ls : State, rls : State \cup {None}, next : Nat]

TypeInv ==
    /\ InputOK /\ recover \in BOOLEAN
    /\ seen \in [Block -> State \cup {None}] /\ reports \subseteq Kinds
    /\ stack \in Seq(FrameType)
    /\ \A i \in 1 .. Len(stack) : stack[i].next \in 1 .. Len(succs[stack[i].block]) + 1
    /\ \A i, j \in 1 .. Len(stack) : stack[i].block = stack[j].block => i = j
    /\ Len(stack) > 0 => stack[1].block = Entry
    /\ \A i \in 1 .. Len(stack) - 1 : /\ stack[i].next \in 1 .. Len(succs[stack[i].block])
                                      /\ stack[i + 1].block = succs[stack[i].block][stack[i].next]

\* The state a block begins with: what its caller has, and no check failed yet.
Fresh(s) == [s EXCEPT !.failed = {}]

LEMMA FreshIs ==
    ASSUME NEW inRun \in BOOLEAN, NEW s \in StateOf(inRun)
    PROVE  /\ Fresh(s) = [held |-> s.held, defers |-> s.defers, failed |-> {}]
           /\ Fresh(s) \in StateOf(FALSE)
           /\ Fresh(s).held = s.held /\ Fresh(s).defers = s.defers /\ Fresh(s).failed = {}
<1>1. /\ s = [held |-> s.held, defers |-> s.defers, failed |-> s.failed]
      /\ s.held \in SUBSET Lock /\ s.defers \in Seq(Call)
  BY StateParts
<1>2. Fresh(s) = [held |-> s.held, defers |-> s.defers, failed |-> {}]
  <2>1. Fresh(s) = [s EXCEPT !.failed = {}]  BY DEF Fresh
  <2> QED  BY <1>1, <2>1
<1> QED  BY <1>1, <1>2 DEF StateOf

LEMMA FrameIs ==
    ASSUME InputOK, NEW inRun \in BOOLEAN, NEW s \in StateOf(inRun), NEW b \in Block
    PROVE  LET f == Frame(b, s)
           IN  /\ f \in FrameType /\ f.block = b /\ f.next = 1
               /\ f.ls = DoBlock(Fresh(s), b, FALSE) /\ f.ls \in StateOf(FALSE)
               /\ f.rls = IF Returns(b) THEN f.ls ELSE None
               /\ FrameReports(f) \subseteq Kinds
<1> DEFINE w == DoBlock(Fresh(s), b, FALSE)
<1>1. code[b] \in Seq(Call)  BY DEF InputOK
<1>2. w \in StateOf(FALSE)  BY <1>1, FreshIs, BlockIs
<1>3. Frame(b, s) = [block |-> b, ls |-> w, rls |-> IF Returns(b) THEN w ELSE None, next |-> 1]
  BY DEF Frame, Fresh
<1> HIDE DEF w
<1>4. Frame(b, s) \in FrameType
  <2>1. w \in State /\ 1 \in Nat  BY <1>2, StateIsOfWalk
  <2> QED  BY <1>3, <2>1 DEF FrameType
<1>6. /\ Frame(b, s).block = b /\ Frame(b, s).next = 1 /\ Frame(b, s).ls = w
      /\ Frame(b, s).rls = IF Returns(b) THEN w ELSE None
  BY <1>3
<1>5. FrameReports(Frame(b, s)) \subseteq Kinds
  BY <1>2, <1>3 DEF FrameReports, StateOf, KindsOf, Kinds
<1> QED  BY <1>2, <1>4, <1>5, <1>6, Zenon DEF w

LEMMA TopIs ==
    ASSUME TypeInv, stack # <<>>
    PROVE  /\ Len(stack) \in Nat /\ Len(stack) \in 1 .. Len(stack)
           /\ Top = stack[Len(stack)] /\ Top \in FrameType /\ Top.block \in Block
           /\ Top.ls \in StateOf(FALSE) /\ Top.next \in Nat
           /\ Top = [block |-> Top.block, ls |-> Top.ls, rls |-> Top.rls, next |-> Top.next]
           /\ Below \in Seq(FrameType) /\ Len(Below) = Len(stack) - 1
           /\ \A i \in 1 .. Len(stack) - 1 : Below[i] = stack[i]
           /\ succs[Top.block] \in Seq(Block)
<1>1. stack \in Seq(FrameType) /\ Len(stack) > 0 /\ Len(stack) \in Nat /\ Len(stack) \in 1 .. Len(stack)
  BY DEF TypeInv
<1>2. Top = stack[Len(stack)] /\ Top \in FrameType  BY <1>1 DEF Top
<1>3. /\ Top.block \in Block /\ Top.ls \in State /\ Top.next \in Nat
      /\ Top = [block |-> Top.block, ls |-> Top.ls, rls |-> Top.rls, next |-> Top.next]
  BY <1>2 DEF FrameType
<1>4. /\ Below \in Seq(FrameType) /\ Len(Below) = Len(stack) - 1
      /\ \A i \in 1 .. Len(stack) - 1 : Below[i] = stack[i]
  BY <1>1, FrontIs DEF Below, Front
<1>5. succs[Top.block] \in Seq(Block)  BY <1>3, GraphIs DEF TypeInv, InputOK, Block
<1> QED  BY <1>1, <1>2, <1>3, <1>4, <1>5, StateIsOfWalk

\* A block is entered: a frame on top of the others.
Enters(f) ==
    /\ stack # <<>> /\ Succ \in Block
    /\ \A i \in 1 .. Len(stack) : stack[i].block # Succ
    /\ Top.next \in 1 .. Len(succs[Top.block])
    /\ stack' \in Seq(FrameType) /\ Len(stack') = Len(stack) + 1
    /\ \A i \in 1 .. Len(stack) : stack'[i] = stack[i]
    /\ stack'[Len(stack) + 1] = f
    /\ seen' = [seen EXCEPT ![Succ] = Top.ls]
    /\ reports' = reports \cup FrameReports(f) /\ recover' = recover

LEMMA EnterIs ==
    ASSUME TypeInv, Enter
    PROVE  Enters(Frame(Succ, Top.ls)) /\ UNCHANGED input
<1>1. /\ stack # <<>> /\ Top.next <= Len(succs[Top.block]) /\ Succ \notin OnStack
      /\ stack' = Append(stack, Frame(Succ, Top.ls)) /\ seen' = [seen EXCEPT ![Succ] = Top.ls]
      /\ reports' = reports \cup FrameReports(Frame(Succ, Top.ls)) /\ recover' = recover
      /\ UNCHANGED input
  BY DEF Enter, Looking
<1>2. Top.next \in 1 .. Len(succs[Top.block]) + 1  BY <1>1, TopIs DEF TypeInv
<1>3. Top.next \in 1 .. Len(succs[Top.block]) /\ succs[Top.block] \in Seq(Block)
  BY <1>1, <1>2, TopIs
<1>4. Succ \in Block  BY <1>3 DEF Succ
<1>5. Frame(Succ, Top.ls) \in FrameType
  <2>1. InputOK /\ Top.ls \in StateOf(FALSE)  BY <1>1, TopIs DEF TypeInv
  <2> QED  BY <1>4, <2>1, FrameIs
<1>6. \A i \in 1 .. Len(stack) : stack[i].block # Succ  BY <1>1 DEF OnStack
<1>7. stack \in Seq(FrameType)  BY DEF TypeInv
<1>8. /\ stack' \in Seq(FrameType) /\ Len(stack') = Len(stack) + 1
      /\ \A i \in 1 .. Len(stack) : stack'[i] = stack[i]
      /\ stack'[Len(stack) + 1] = Frame(Succ, Top.ls)
  BY <1>1, <1>5, <1>7, AppendProperties
<1> QED  BY <1>1, <1>3, <1>4, <1>6, <1>8 DEF Enters

\* The search is back in the n-th frame, which goes on with its next successor.
Back(n) ==
    /\ n \in 1 .. Len(stack) /\ stack' \in Seq(FrameType) /\ Len(stack') = n
    /\ \A i \in 1 .. n - 1 : stack'[i] = stack[i]
    /\ stack'[n].block = stack[n].block /\ stack'[n].ls = stack[n].ls
    /\ stack'[n].next = stack[n].next + 1
    /\ stack[n].next \in 1 .. Len(succs[stack[n].block])

LEMMA AdvancedIs ==
    ASSUME NEW f \in FrameType
    PROVE  /\ Advanced(f) \in FrameType /\ Advanced(f).block = f.block /\ Advanced(f).ls = f.ls
           /\ Advanced(f).rls = f.rls /\ Advanced(f).next = f.next + 1
BY DEF Advanced, FrameType

LEMMA SkipIs ==
    ASSUME TypeInv, Skip
    PROVE  /\ stack # <<>> /\ Back(Len(stack)) /\ stack'[Len(stack)].rls = Top.rls
           /\ Known(Succ) \/ Succ \in OnStack
           /\ UNCHANGED <<input, seen, reports, recover>>
<1>1. /\ stack # <<>> /\ Top.next <= Len(succs[Top.block])
      /\ stack' = Append(Below, Advanced(Top))
      /\ Known(Succ) \/ Succ \in OnStack
      /\ UNCHANGED <<input, seen, reports, recover>>
  BY DEF Skip, Looking
<1>2. Top.next \in 1 .. Len(succs[Top.block]) + 1  BY <1>1, TopIs DEF TypeInv
<1>3. Top.next \in 1 .. Len(succs[Top.block])  BY <1>1, <1>2, TopIs
<1>4. /\ Below \in Seq(FrameType) /\ Len(Below) = Len(stack) - 1 /\ Top \in FrameType
      /\ Len(stack) \in 1 .. Len(stack) /\ Len(stack) \in Nat /\ Top = stack[Len(stack)]
      /\ \A i \in 1 .. Len(stack) - 1 : Below[i] = stack[i]
  BY <1>1, TopIs
<1>5. Advanced(Top) \in FrameType  BY <1>4, AdvancedIs
<1>6. /\ stack' \in Seq(FrameType) /\ Len(stack') = Len(Below) + 1
      /\ \A i \in 1 .. Len(Below) : stack'[i] = Below[i]
      /\ stack'[Len(Below) + 1] = Advanced(Top)
  BY <1>1, <1>4, <1>5, AppendProperties
<1>7. Len(Below) + 1 = Len(stack) /\ Len(stack') = Len(stack)  BY <1>4, <1>6
<1>8. stack'[Len(stack)] = Advanced(Top) /\ \A i \in 1 .. Len(stack) - 1 : stack'[i] = stack[i]
  BY <1>4, <1>6, <1>7
<1>9. Back(Len(stack))  BY <1>3, <1>4, <1>6, <1>7, <1>8, AdvancedIs DEF Back
<1>10. stack'[Len(stack)].rls = Top.rls  BY <1>4, <1>8, AdvancedIs
<1> QED  BY <1>1, <1>9, <1>10

LEMMA LeaveIs ==
    ASSUME TypeInv, Leave
    PROVE  /\ stack # <<>> /\ Top.next = Len(succs[Top.block]) + 1
           /\ UNCHANGED <<input, seen, recover>>
           /\ \/ /\ Len(stack) = 1 /\ stack' = <<>> /\ reports' = reports
              \/ LET n == Len(stack) - 1
                 IN  /\ Len(stack) > 1 /\ Back(n)
                     /\ stack'[n].rls = IF Top.rls = None THEN stack[n].rls ELSE Top.rls
                     /\ reports' = reports \cup
                          IF Top.rls # None /\ stack[n].rls # None /\ ~Compatible(stack[n].rls, Top.rls)
                          THEN {"incompatible"} ELSE {}
<1>1. stack # <<>> /\ ~(Top.next <= Len(succs[Top.block])) /\ UNCHANGED <<input, seen, recover>>
  BY DEF Leave, Looking
<1>2. Top.next \in 1 .. Len(succs[Top.block]) + 1 /\ Len(succs[Top.block]) \in Nat
  <2>1. Top = stack[Len(stack)] /\ Len(stack) \in 1 .. Len(stack) /\ succs[Top.block] \in Seq(Block)
    BY <1>1, TopIs
  <2> QED  BY <2>1 DEF TypeInv
<1>3. Top.next = Len(succs[Top.block]) + 1  BY <1>1, <1>2
<1>4. /\ Below \in Seq(FrameType) /\ Len(Below) = Len(stack) - 1 /\ Top \in FrameType
      /\ Len(stack) \in 1 .. Len(stack) /\ Len(stack) \in Nat /\ Top = stack[Len(stack)]
      /\ \A i \in 1 .. Len(stack) - 1 : Below[i] = stack[i]
  BY <1>1, TopIs
<1>5. CASE Below = <<>>
  <2>1. stack' = <<>> /\ reports' = reports  BY <1>5 DEF Leave
  <2>2. Len(Below) = 0  BY <1>5
  <2>3. Len(stack) = 1  BY <1>4, <2>2
  <2> QED  BY <1>1, <1>3, <2>1, <2>3
<1>6. CASE Below # <<>>
  <2> DEFINE n == Len(stack) - 1
             pls == Top.rls
             g == [stack[n] EXCEPT !.rls = IF pls = None THEN @ ELSE pls]
  <2>1. /\ stack' = Append(Front(Below), Advanced(g))
        /\ reports' = reports \cup
             IF Top.rls # None /\ stack[n].rls # None /\ ~Compatible(stack[n].rls, Top.rls)
             THEN {"incompatible"} ELSE {}
    BY <1>6 DEF Leave
  <2>2. Len(Below) > 0  BY <1>4, <1>6
  <2>3. /\ n \in Nat /\ n > 0 /\ n \in 1 .. Len(stack) - 1 /\ n \in 1 .. Len(stack)
        /\ Len(stack) > 1 /\ Len(Below) = n /\ n + 1 = Len(stack)
    BY <1>4, <2>2
  <2>4. stack[n] \in FrameType /\ stack[n].next \in 1 .. Len(succs[stack[n].block])
    BY <2>3 DEF TypeInv
  <2> HIDE DEF n
  <2>5. pls \in State \cup {None}  BY <1>4 DEF FrameType
  <2>6. /\ g \in FrameType /\ g.block = stack[n].block /\ g.ls = stack[n].ls
        /\ g.next = stack[n].next /\ g.rls = IF pls = None THEN stack[n].rls ELSE pls
    <3> HIDE DEF pls
    <3> QED  BY <2>4, <2>5 DEF FrameType
  <2> HIDE DEF g
  <2>7. /\ Advanced(g) \in FrameType /\ Advanced(g).block = stack[n].block
        /\ Advanced(g).ls = stack[n].ls /\ Advanced(g).next = stack[n].next + 1
        /\ Advanced(g).rls = IF pls = None THEN stack[n].rls ELSE pls
    BY <2>6, AdvancedIs
  <2>8. /\ Front(Below) \in Seq(FrameType) /\ Len(Front(Below)) = n - 1
        /\ \A i \in 1 .. n - 1 : Front(Below)[i] = Below[i]
    BY <1>4, <2>2, <2>3, FrontIs
  <2>9. /\ stack' \in Seq(FrameType) /\ Len(stack') = Len(Front(Below)) + 1
        /\ \A i \in 1 .. Len(Front(Below)) : stack'[i] = Front(Below)[i]
        /\ stack'[Len(Front(Below)) + 1] = Advanced(g)
    BY <2>1, <2>7, <2>8, AppendProperties
  <2>10. Len(Front(Below)) + 1 = n /\ \A i \in 1 .. n - 1 : i \in 1 .. Len(stack) - 1
    BY <2>3, <2>8
  <2>11. /\ Len(stack') = n /\ stack'[n] = Advanced(g)
         /\ \A i \in 1 .. n - 1 : stack'[i] = stack[i]
    BY <1>4, <2>8, <2>9, <2>10
  <2>12. Back(n) /\ stack'[n].rls = IF pls = None THEN stack[n].rls ELSE pls
    BY <2>3, <2>4, <2>7, <2>9, <2>11 DEF Back
  <2> QED  BY <1>1, <1>3, <2>1, <2>3, <2>12 DEF n
<1> QED  BY <1>5, <1>6

LEMMA RecoverIs ==
    ASSUME TypeInv, ScanRecover
    PROVE  /\ stack = <<>> /\ recover' = FALSE /\ UNCHANGED <<input, stack, seen>>
           /\ reports \subseteq reports' /\ reports' \subseteq reports \cup {"recover"}
BY DEF ScanRecover

LEMMA TypeInit ==
    ASSUME Init
    PROVE  /\ TypeInv /\ stack = <<Frame(Entry, Start)>>
           /\ seen = [b \in Block |-> IF b = Entry THEN Start ELSE None]
           /\ reports = FrameReports(Frame(Entry, Start))
<1>1. /\ succs \in Shape /\ facts \in Facts /\ shown \in Shown
      /\ stack = <<Frame(Entry, Start)>>
      /\ seen = [b \in Block |-> IF b = Entry THEN Start ELSE None]
      /\ reports = FrameReports(Frame(Entry, Start))
  BY DEF Init
<1>2. recover \in BOOLEAN
  <2>1. recover = \E b \in Block : Defers(code[b])  BY DEF Init
  <2> QED  BY <2>1, Zenon
<1>3. code \in [Block -> Seq(Call)]
  <2>5. PICK first \in BoundedSeq(Call, Room), blocks \in SUBSET (DOMAIN succs \ {Entry}) :
          \E one \in [blocks -> Call] :
            code = [b \in DOMAIN succs |-> IF b = Entry THEN first
                                           ELSE IF b \in blocks THEN <<one[b]>> ELSE <<>>]
    BY DEF Init
  <2>1. PICK one \in [blocks -> Call] :
          code = [b \in DOMAIN succs |-> IF b = Entry THEN first
                                         ELSE IF b \in blocks THEN <<one[b]>> ELSE <<>>]
    BY <2>5
  <2>2. first \in Seq(Call)
    <3>1. PICK m \in 0 .. Room : first \in [1 .. m -> Call]  BY DEF BoundedSeq, SeqOf
    <3>2. m \in Nat  BY BoundAssumption
    <3> QED  BY <3>1, <3>2
  <2>3. \A b \in blocks : <<one[b]>> \in Seq(Call)  OBVIOUS
  <2>4. <<>> \in Seq(Call)  OBVIOUS
  <2> QED  BY <2>1, <2>2, <2>3, <2>4 DEF Block
<1>4. InputOK  BY <1>1, <1>3 DEF InputOK
<1>5. Entry \in Block /\ Start \in StateOf(FALSE)  BY <1>1, <1>4, GraphIs, StartIs
<1> DEFINE f == Frame(Entry, Start)
<1>6. f \in FrameType /\ f.block = Entry /\ f.next = 1 /\ FrameReports(f) \subseteq Kinds
  BY <1>4, <1>5, FrameIs
<1>7. stack = <<f>>  BY <1>1
<1> HIDE DEF f
<1>8. stack \in Seq(FrameType) /\ Len(stack) = 1 /\ stack[1] = f  BY <1>6, <1>7
<1>9. seen \in [Block -> State \cup {None}]  BY <1>1, <1>5, StateIsOfWalk
<1>10. reports \subseteq Kinds  BY <1>1, <1>6 DEF f
<1>11. Len(succs[Entry]) \in Nat
  <2>1. succs[Entry] \in Seq(DOMAIN succs)  BY <1>1, <1>5, GraphIs DEF Block
  <2> QED  BY <2>1
<1>12. /\ \A i \in 1 .. Len(stack) : stack[i].next \in 1 .. Len(succs[stack[i].block]) + 1
       /\ \A i, j \in 1 .. Len(stack) : stack[i].block = stack[j].block => i = j
       /\ Len(stack) > 0 => stack[1].block = Entry
       /\ \A i \in 1 .. Len(stack) - 1 : /\ stack[i].next \in 1 .. Len(succs[stack[i].block])
                                         /\ stack[i + 1].block = succs[stack[i].block][stack[i].next]
  <2>1. /\ \A i \in 1 .. Len(stack) : i = 1 /\ stack[i] = f
        /\ ~ \E i \in 1 .. Len(stack) - 1 : TRUE
    BY <1>8
  <2> QED  BY <1>6, <1>8, <1>11, <2>1
<1> QED  BY <1>1, <1>2, <1>4, <1>8, <1>9, <1>10, <1>12 DEF TypeInv

LEMMA InputStays ==
    ASSUME UNCHANGED input
    PROVE  (InputOK => InputOK') /\ FrameType' = FrameType /\ Block' = Block
BY DEF input, InputOK, FrameType, Block

LEMMA TypeBack ==
    ASSUME TypeInv, UNCHANGED input, NEW n, Back(n), recover' \in BOOLEAN,
           seen' = seen, reports' \subseteq Kinds
    PROVE  TypeInv'
<1>1. InputOK' /\ FrameType' = FrameType /\ Block' = Block /\ succs' = succs
  BY InputStays DEF TypeInv, input
<1>2. n \in Nat /\ n > 0 /\ n <= Len(stack) /\ Len(stack) \in Nat /\ Len(stack') = n
      /\ stack' \in Seq(FrameType)
  BY DEF Back, TypeInv
<1>3. \A i \in 1 .. n : i \in 1 .. Len(stack) /\ stack'[i].block = stack[i].block
  <2> SUFFICES ASSUME NEW i \in 1 .. n  PROVE i \in 1 .. Len(stack) /\ stack'[i].block = stack[i].block
    OBVIOUS
  <2>1. i = n \/ i \in 1 .. n - 1  BY <1>2
  <2> QED  BY <1>2, <2>1 DEF Back
<1>4. \A i \in 1 .. n : stack'[i].next \in 1 .. Len(succs[stack'[i].block]) + 1
  <2> SUFFICES ASSUME NEW i \in 1 .. n  PROVE stack'[i].next \in 1 .. Len(succs[stack'[i].block]) + 1
    OBVIOUS
  <2>1. CASE i = n
    <3> DEFINE N == Len(succs[stack[n].block])
    <3>1. stack[n].next \in 1 .. N /\ stack'[n].next = stack[n].next + 1  BY DEF Back
    <3>2. stack[n].next \in 1 .. N + 1  BY <1>2, <1>3, <2>1 DEF TypeInv
    <3>3. succs[stack'[n].block] = succs[stack[n].block]  BY <1>2, <1>3
    <3>4. N \in Nat
      <4>1. stack[n] \in FrameType  BY <1>3, <2>1 DEF TypeInv
      <4>2. stack[n].block \in Block  BY <4>1 DEF FrameType
      <4>3. succs \in Shape  BY DEF TypeInv, InputOK
      <4> QED  BY <4>2, <4>3, SuccsIs
    <3> HIDE DEF N
    <3>5. stack'[n].next \in 1 .. N + 1  BY <3>1, <3>4
    <3> QED  BY <2>1, <3>3, <3>5 DEF N
  <2>2. CASE i # n
    <3>1. i \in 1 .. n - 1  BY <1>2, <2>2
    <3>2. stack'[i] = stack[i] /\ i \in 1 .. Len(stack)  BY <1>3, <3>1 DEF Back
    <3> QED  BY <3>2 DEF TypeInv
  <2> QED  BY <2>1, <2>2
<1>5. \A i, j \in 1 .. n : stack'[i].block = stack'[j].block => i = j
  BY <1>3 DEF TypeInv
<1>6. stack'[1].block = Entry
  <2>1. 1 \in 1 .. n /\ Len(stack) > 0  BY <1>2
  <2> QED  BY <1>3, <2>1 DEF TypeInv
<1>7. \A i \in 1 .. n - 1 : /\ stack'[i].next \in 1 .. Len(succs[stack'[i].block])
                            /\ stack'[i + 1].block = succs[stack'[i].block][stack'[i].next]
  <2> SUFFICES ASSUME NEW i \in 1 .. n - 1
               PROVE  /\ stack'[i].next \in 1 .. Len(succs[stack'[i].block])
                      /\ stack'[i + 1].block = succs[stack'[i].block][stack'[i].next]
    OBVIOUS
  <2>1. i + 1 \in 1 .. n /\ i \in 1 .. Len(stack) - 1  BY <1>2
  <2>2. stack'[i] = stack[i] /\ stack'[i + 1].block = stack[i + 1].block  BY <1>3, <2>1 DEF Back
  <2> QED  BY <2>1, <2>2 DEF TypeInv
<1>8. Entry' = Entry  BY DEF Entry
<1> QED  BY <1>1, <1>2, <1>4, <1>5, <1>6, <1>7, <1>8 DEF TypeInv

LEMMA TypeEnter ==
    ASSUME TypeInv, Enter
    PROVE  TypeInv'
<1> DEFINE f == Frame(Succ, Top.ls)
           L == Len(stack)
<1>1. Enters(f) /\ UNCHANGED input  BY EnterIs
<1>2. stack # <<>> /\ Succ \in Block  BY <1>1 DEF Enters
<1>13. Top.ls \in StateOf(FALSE) /\ L \in Nat /\ L \in 1 .. L /\ Top = stack[L]
  BY <1>2, TopIs
<1>3. InputOK /\ Top.ls \in StateOf(FALSE) /\ L \in Nat /\ L \in 1 .. L /\ L > 0 /\ Top = stack[L]
  <2>1. L > 0  BY <1>13
  <2> QED  BY <1>13, <2>1 DEF TypeInv
<1>4. f \in FrameType /\ f.block = Succ /\ f.next = 1 /\ FrameReports(f) \subseteq Kinds
  BY <1>2, <1>3, FrameIs
<1> HIDE DEF f
<1>5. InputOK' /\ FrameType' = FrameType /\ Block' = Block /\ succs' = succs
  BY <1>1, <1>3, InputStays DEF input
<1>6. /\ stack' \in Seq(FrameType) /\ Len(stack') = L + 1 /\ stack'[L + 1] = f
      /\ \A i \in 1 .. L : stack'[i] = stack[i]
  BY <1>1 DEF Enters
<1>7. seen' \in [Block -> State \cup {None}] /\ reports' \subseteq Kinds /\ recover' \in BOOLEAN
  BY <1>1, <1>2, <1>3, <1>4, StateIsOfWalk DEF Enters, TypeInv
<1> HIDE DEF L
<1>8. \A i \in 1 .. L + 1 : stack'[i].next \in 1 .. Len(succs[stack'[i].block]) + 1
  <2>1. Len(succs[Succ]) \in Nat
    <3>1. succs[Succ] \in Seq(Block)  BY <1>2, <1>3, GraphIs DEF InputOK, Block
    <3> QED  BY <3>1
  <2>2. 1 \in 1 .. Len(succs[Succ]) + 1  BY <2>1
  <2>3. \A i \in 1 .. L + 1 : i \in 1 .. L \/ i = L + 1  BY <1>3
  <2>4. \A i \in 1 .. L : stack[i].next \in 1 .. Len(succs[stack[i].block]) + 1
    BY DEF TypeInv, L
  <2> QED  BY <1>4, <1>6, <2>2, <2>3, <2>4
<1>9. \A i, j \in 1 .. L + 1 : stack'[i].block = stack'[j].block => i = j
  <2>1. \A i \in 1 .. L + 1 : i \in 1 .. L \/ i = L + 1  BY <1>3
  <2>2. \A i \in 1 .. L : stack[i].block # Succ  BY <1>1 DEF Enters, L
  <2>3. \A i, j \in 1 .. L : stack[i].block = stack[j].block => i = j  BY DEF TypeInv, L
  <2> QED  BY <1>4, <1>6, <2>1, <2>2, <2>3
<1>10. stack'[1].block = Entry
  <2>1. 1 \in 1 .. L /\ stack[1].block = Entry  BY <1>3 DEF TypeInv, L
  <2> QED  BY <1>6, <2>1
<1>11. \A i \in 1 .. (L + 1) - 1 : /\ stack'[i].next \in 1 .. Len(succs[stack'[i].block])
                                   /\ stack'[i + 1].block = succs[stack'[i].block][stack'[i].next]
  <2> SUFFICES ASSUME NEW i \in 1 .. L
               PROVE  /\ stack'[i].next \in 1 .. Len(succs[stack'[i].block])
                      /\ stack'[i + 1].block = succs[stack'[i].block][stack'[i].next]
    BY <1>3
  <2>1. stack'[i] = stack[i]  BY <1>6
  <2>2. CASE i = L
    <3>1. Top.next \in 1 .. Len(succs[Top.block]) /\ Succ = succs[Top.block][Top.next]
      BY <1>1 DEF Enters, Succ
    <3> QED  BY <1>3, <1>4, <1>6, <2>1, <2>2, <3>1
  <2>3. CASE i # L
    <3>1. i \in 1 .. L - 1 /\ i + 1 \in 1 .. L  BY <1>3, <2>3
    <3>2. stack'[i + 1] = stack[i + 1]  BY <1>6, <3>1
    <3> QED  BY <2>1, <3>1, <3>2 DEF TypeInv, L
  <2> QED  BY <2>2, <2>3
<1>12. Entry' = Entry  BY DEF Entry
<1> QED  BY <1>5, <1>6, <1>7, <1>8, <1>9, <1>10, <1>11, <1>12 DEF TypeInv

LEMMA TypeEmpty ==
    ASSUME TypeInv, UNCHANGED input, recover' \in BOOLEAN, stack' = <<>>, seen' = seen, reports' \subseteq Kinds
    PROVE  TypeInv'
<1>1. InputOK' /\ FrameType' = FrameType /\ Block' = Block  BY InputStays DEF TypeInv
<1>2. Len(stack') = 0 /\ stack' \in Seq(FrameType)  OBVIOUS
<1>3. ~(\E i \in 1 .. Len(stack') : TRUE) /\ ~(\E i \in 1 .. Len(stack') - 1 : TRUE) /\ ~(Len(stack') > 0)
  BY <1>2
<1>4. seen' \in [Block -> State \cup {None}]  BY DEF TypeInv
<1> QED  BY <1>1, <1>2, <1>3, <1>4 DEF TypeInv

LEMMA TypeStep ==
    ASSUME TypeInv, [Next]_vars
    PROVE  TypeInv'
<1>1. recover \in BOOLEAN /\ reports \subseteq Kinds  BY DEF TypeInv
<1>2. CASE Enter  BY <1>2, TypeEnter
<1>3. CASE Skip
  <2>1. /\ UNCHANGED input /\ Back(Len(stack)) /\ seen' = seen /\ reports' = reports
        /\ recover' = recover
    BY <1>3, SkipIs
  <2> QED  BY <1>1, <2>1, TypeBack
<1>4. CASE Leave
  <2>1. /\ UNCHANGED <<input, seen, recover>>
        /\ \/ stack' = <<>> /\ reports' = reports
           \/ Back(Len(stack) - 1) /\ reports' \subseteq reports \cup {"incompatible"}
    BY <1>4, LeaveIs
  <2>2. reports' \subseteq Kinds  BY <1>1, <2>1 DEF Kinds
  <2> QED  BY <1>1, <2>1, <2>2, TypeBack, TypeEmpty
<1>5. CASE ScanRecover
  <2>1. /\ stack' = <<>> /\ recover' \in BOOLEAN /\ UNCHANGED <<input, seen>>
        /\ reports' \subseteq reports \cup {"recover"}
    BY <1>5, RecoverIs
  <2>2. reports' \subseteq Kinds  BY <1>1, <2>1 DEF Kinds
  <2> QED  BY <2>1, <2>2, TypeEmpty
<1>6. CASE UNCHANGED vars
  <2>1. UNCHANGED <<input, stack, seen, reports, recover>>  BY <1>6 DEF vars, input
  <2>2. FrameType' = FrameType /\ InputOK' /\ Block' = Block /\ succs' = succs
    BY <2>1, InputStays DEF TypeInv, input
  <2> QED  BY <2>1, <2>2 DEF TypeInv, Entry
<1> QED  BY <1>2, <1>3, <1>4, <1>5, <1>6 DEF Next

LEMMA TypeInvIsInvariant == Spec => []TypeInv
<1>1. Init => TypeInv  BY TypeInit
<1>2. TypeInv /\ [Next]_vars => TypeInv'  BY TypeStep
<1> QED  BY <1>1, <1>2, PTL DEF Spec

\* The lock gap analyzer does not disturb the walk that it follows: what the two do
\* together is, of the variables of the walk, a behavior of the walk.
THEOREM GapsFollowTheWalk == GapSpec => Spec
<1>1. GapInit => Init  BY DEF GapInit
<1>2. [GapNext]_gapVars => [Next]_vars
  BY Zenon DEF GapNext, Walk, CheckRelease, gapVars, vars, input
<1> QED  BY <1>1, <1>2, PTL DEF Spec, GapSpec

\* The walk of a function: the block of each frame is one of its successors, each
\* block has at most one frame, so the recursion of checkBasicBlock is no deeper than
\* there are blocks, and what was seen of each block is a lock state.
THEOREM CheckFunctionTypeOK == Spec => []TypeOK
<1>1. ASSUME TypeInv  PROVE TypeOK
  <2> SUFFICES ASSUME NEW i \in 1 .. Len(stack)
               PROVE  /\ stack[i].block \in Block /\ stack[i].ls \in State
                      /\ stack[i].rls \in State \cup {None}
                      /\ stack[i].next \in 1 .. Len(succs[stack[i].block]) + 1
                      /\ \A j \in 1 .. i - 1 : stack[j].block # stack[i].block
    BY <1>1 DEF TypeInv, TypeOK
  <2>1. stack[i] \in FrameType  BY <1>1 DEF TypeInv
  <2>2. stack[i].next \in 1 .. Len(succs[stack[i].block]) + 1  BY <1>1 DEF TypeInv
  <2>3. \A j \in 1 .. i - 1 : stack[j].block # stack[i].block
    <3>1. Len(stack) \in Nat  BY <1>1 DEF TypeInv
    <3>2. \A j \in 1 .. i - 1 : j \in 1 .. Len(stack) /\ j # i  BY <3>1
    <3> QED  BY <1>1, <3>2 DEF TypeInv
  <2> QED  BY <2>1, <2>2, <2>3 DEF FrameType
<1>2. TypeInv => TypeOK  BY <1>1
<1> QED  BY <1>2, TypeInvIsInvariant, PTL

-----------------------------------------------------------------------------
(***************************************************************************)
(* The runs do not change during the walk.                                 *)
(***************************************************************************)
\* The state after a run, as a function of what is walked.
AfterOf(graph, blocks, ff, run) ==
    LET begin == [held |-> ff.entry, defers |-> <<>>, failed |-> {}]
        after[n \in 0 .. Len(run)] ==
            IF n = 0 THEN begin
            ELSE LET t == DoCalls(after[n - 1], blocks[run[n]], TRUE)
                 IN  IF graph[run[n]] = <<>> THEN RunDefers(t, TRUE) ELSE t
    IN  after[Len(run)]

LEMMA AfterIsOfInput ==
    ASSUME NEW run
    PROVE  After(run) = AfterOf(succs, code, facts, run)
BY DEF After, AfterOf, DoBlock, Returns, Start

LEMMA AfterIsOfInputNext ==
    ASSUME NEW run
    PROVE  After(run)' = AfterOf(succs', code', facts', run)
BY DEF After, AfterOf, DoBlock, Returns, Start

LEMMA RunsStay ==
    ASSUME UNCHANGED input
    PROVE  Runs' = Runs /\ \A p : After(p)' = After(p)
<1>1. succs' = succs /\ code' = code /\ facts' = facts  BY DEF input
<1>2. ASSUME NEW p  PROVE After(p)' = After(p)  BY <1>1, AfterIsOfInput, AfterIsOfInputNext
<1> QED  BY <1>1, <1>2 DEF Runs

\* A run that ends with a wrong return.
ReturnWrong(run) == ReturnFails(Last(run), After(run))

LEMMA ProblemsStay ==
    ASSUME UNCHANGED input
    PROVE  /\ \A what : SomeRun(what)' <=> SomeRun(what)
           /\ \A p : ReturnWrong(p)' <=> ReturnWrong(p)
           /\ SomeRunWrong' <=> SomeRunWrong
<1>1. Runs' = Runs /\ \A p : After(p)' = After(p)  BY RunsStay
<1>2. ASSUME NEW what  PROVE SomeRun(what)' <=> SomeRun(what)  BY <1>1 DEF SomeRun
<1>3. ASSUME NEW p  PROVE ReturnWrong(p)' <=> ReturnWrong(p)
  BY <1>1 DEF ReturnWrong, ReturnFails, Returns, input
<1>4. SomeRunWrong' <=> SomeRunWrong  BY <1>1, <1>2, <1>3 DEF SomeRunWrong, GoesWrong, ReturnWrong, ReturnFails, Returns, input
<1> QED  BY <1>2, <1>3, <1>4

-----------------------------------------------------------------------------
(***************************************************************************)
(* The state of each frame is that of the run that its blocks make.        *)
(***************************************************************************)
\* The state that the n-th frame has come to; below the first there is the start.
Upon(n) == IF n = 0 THEN Start ELSE stack[n].ls

WalkInv ==
    /\ \A i \in 1 .. Len(stack) :
         /\ seen[stack[i].block] = Upon(i - 1)
         /\ stack[i].ls = DoBlock(Fresh(Upon(i - 1)), stack[i].block, FALSE)
    /\ seen[Entry] = Start

\* The blocks of the first n frames.
Way(n) == [i \in 1 .. n |-> stack[i].block]

LEMMA UponIs ==
    ASSUME TypeInv, NEW n \in 0 .. Len(stack)
    PROVE  Upon(n) \in StateOf(FALSE)
<1>1. CASE n = 0  BY <1>1, StartIs DEF Upon, TypeInv
<1>2. CASE n # 0
  <2>1. n \in 1 .. Len(stack)  BY <1>2 DEF TypeInv
  <2>2. stack[n] \in FrameType  BY <2>1 DEF TypeInv
  <2> QED  BY <1>2, <2>2, StateIsOfWalk DEF Upon, FrameType
<1> QED  BY <1>1, <1>2

LEMMA WayIsRun ==
    ASSUME TypeInv, NEW n \in 1 .. Len(stack)
    PROVE  /\ IsPath(succs, Way(n)) /\ Way(n) \in Runs /\ Way(n) \in Seq(Block) /\ Len(Way(n)) = n
           /\ Last(Way(n)) = stack[n].block /\ Front(Way(n)) = Way(n - 1)
           /\ \A i \in 1 .. n : Way(n)[i] = stack[i].block
<1>1. /\ n \in Nat /\ n > 0 /\ n <= Len(stack) /\ Len(stack) \in Nat /\ n - 1 \in Nat
      /\ \A i \in 1 .. n : i \in 1 .. Len(stack)
  BY DEF TypeInv
<1>2. \A i \in 1 .. n : stack[i].block \in Block
  <2>1. \A i \in 1 .. n : stack[i] \in FrameType  BY <1>1 DEF TypeInv
  <2> QED  BY <2>1 DEF FrameType
<1>3. /\ Way(n) \in Seq(Block) /\ Len(Way(n)) = n /\ \A i \in 1 .. n : Way(n)[i] = stack[i].block
  BY <1>1, <1>2 DEF Way
<1>4. Last(Way(n)) = stack[n].block  BY <1>1, <1>3 DEF Last
<1>5. Front(Way(n)) = Way(n - 1)
  <2>1. /\ Front(Way(n)) \in Seq(Block) /\ Len(Front(Way(n))) = n - 1
        /\ \A i \in 1 .. n - 1 : Front(Way(n))[i] = Way(n)[i]
    BY <1>1, <1>3, FrontIs
  <2>2. \A i \in 1 .. n - 1 : i \in 1 .. n  BY <1>1
  <2>3. /\ Way(n - 1) \in Seq(Block) /\ Len(Way(n - 1)) = n - 1
        /\ \A i \in 1 .. n - 1 : Way(n - 1)[i] = stack[i].block
    BY <1>1, <1>2, <2>2 DEF Way
  <2>4. \A i \in 1 .. n - 1 : Front(Way(n))[i] = Way(n - 1)[i]  BY <1>3, <2>1, <2>2, <2>3
  <2> QED  BY <1>1, <2>1, <2>3, <2>4, SeqEqual
<1>6. succs \in Shape  BY DEF TypeInv, InputOK
<1>7. IsPath(succs, Way(n))
  <2> DEFINE p == Way(n)
  <2>1. /\ p \in Seq(Block) /\ Len(p) = n /\ \A i \in 1 .. n : p[i] = stack[i].block  BY <1>3
  <2> HIDE DEF p
  <2>2. p \in Seq(DOMAIN succs) /\ Len(p) > 0  BY <1>1, <2>1 DEF Block
  <2>3. p[1] = 1
    <3>1. 1 \in 1 .. n /\ Len(stack) > 0  BY <1>1
    <3>2. stack[1].block = 1  BY <3>1 DEF TypeInv, Entry
    <3> QED  BY <2>1, <3>1, <3>2
  <2>4. \A i, j \in 1 .. Len(p) : p[i] = p[j] => i = j  BY <1>1, <2>1 DEF TypeInv
  <2>5. ASSUME NEW i \in 1 .. Len(p) - 1
        PROVE  \E k \in 1 .. Len(succs[p[i]]) : p[i + 1] = succs[p[i]][k]
    <3>1. i \in 1 .. n /\ i + 1 \in 1 .. n /\ i \in 1 .. Len(stack) - 1  BY <1>1, <2>1
    <3>2. /\ stack[i].next \in 1 .. Len(succs[stack[i].block])
          /\ stack[i + 1].block = succs[stack[i].block][stack[i].next]
      BY <3>1 DEF TypeInv
    <3> QED  BY <2>1, <3>1, <3>2
  <2>6. IsPath(succs, p)  BY <2>2, <2>3, <2>4, <2>5 DEF IsPath
  <2> QED  BY <2>6 DEF p
<1>8. Way(n) \in Runs  BY <1>6, <1>7, GraphIs
<1> QED  BY <1>3, <1>4, <1>5, <1>7, <1>8

\* A run is a sequence of blocks, and so is its beginning.
LEMMA RunIs ==
    ASSUME InputOK, NEW p \in Runs
    PROVE  /\ IsPath(succs, p) /\ p \in Seq(Block) /\ Len(p) \in Nat /\ Len(p) > 0
           /\ Front(p) \in Seq(Block) /\ Last(p) \in Block
           /\ After(p) \in StateOf(TRUE) /\ After(Front(p)) \in StateOf(TRUE)
           /\ After(p) = DoBlock(After(Front(p)), Last(p), TRUE)
<1>1. IsPath(succs, p)  BY GraphIs DEF InputOK
<1>2. p \in Seq(Block) /\ Len(p) > 0 /\ Len(p) \in Nat  BY <1>1 DEF IsPath, Block
<1> QED  BY <1>1, <1>2, AfterFront

\* A block that the walk enters where a run does: the walk follows the run.
LEMMA FrameFollows ==
    ASSUME InputOK, NEW s \in StateOf(FALSE), NEW p \in Runs, Fair(s, After(Front(p)))
    PROVE  LET w == Frame(Last(p), s).ls
           IN  Follows(Fresh(s), w, After(Front(p)), After(p)) /\ w \in StateOf(FALSE)
<1>1. /\ Last(p) \in Block /\ After(Front(p)) \in StateOf(TRUE)
      /\ After(p) = DoBlock(After(Front(p)), Last(p), TRUE)
  BY RunIs
<1>2. /\ Frame(Last(p), s).ls = DoBlock(Fresh(s), Last(p), FALSE)
      /\ Frame(Last(p), s).ls \in StateOf(FALSE)
  BY <1>1, FrameIs
<1>3. Fresh(s) \in StateOf(FALSE) /\ Fair(Fresh(s), After(Front(p)))  BY FreshIs DEF Fair
<1>4. code[Last(p)] \in Seq(Call)  BY <1>1 DEF InputOK
<1> QED  BY <1>1, <1>2, <1>3, <1>4, BlockFollows

\* Unless a literal changes the locks, the walk has the locks and the deferred calls
\* of the run it is in.
LEMMA WalkIsFair ==
    ASSUME TypeInv, WalkInv, ~SomeRun("changes")
    PROVE  \A n \in 0 .. Len(stack) : Fair(Upon(n), After(Way(n)))
<1> DEFINE S == {n \in Nat : n <= Len(stack) => Fair(Upon(n), After(Way(n)))}
<1>1. InputOK /\ Len(stack) \in Nat  BY DEF TypeInv
<1>2. 0 \in S
  <2>1. Way(0) = <<>>  BY DEF Way
  <2>2. Upon(0) = Start /\ After(Way(0)) = Start  BY <1>1, <2>1, AfterNothing DEF Upon
  <2> QED  BY <2>2 DEF Fair
<1>3. ASSUME NEW n \in Nat, n \in S  PROVE n + 1 \in S
  <2> SUFFICES ASSUME n + 1 <= Len(stack), Fair(Upon(n), After(Way(n)))
               PROVE  Fair(Upon(n + 1), After(Way(n + 1)))
    BY <1>1, <1>3
  <2> DEFINE p == Way(n + 1)
  <2>1. n + 1 \in 1 .. Len(stack) /\ (n + 1) - 1 = n /\ n \in 0 .. Len(stack) /\ n + 1 # 0  BY <1>1
  <2>2. p \in Runs /\ Last(p) = stack[n + 1].block /\ Front(p) = Way(n)  BY <2>1, WayIsRun
  <2>3. Upon(n) \in StateOf(FALSE)  BY <2>1, UponIs
  <2>4. Last(p) \in Block  BY <1>1, <2>2, RunIs
  <2>5. Upon(n + 1) = Frame(Last(p), Upon(n)).ls
    <3>1. Upon(n + 1) = DoBlock(Fresh(Upon(n)), stack[n + 1].block, FALSE)
      BY <2>1 DEF WalkInv, Upon
    <3>2. Frame(Last(p), Upon(n)).ls = DoBlock(Fresh(Upon(n)), Last(p), FALSE)
      BY <1>1, <2>3, <2>4, FrameIs
    <3> QED  BY <2>2, <3>1, <3>2
  <2>6. "changes" \notin After(p).failed  BY <2>2 DEF SomeRun
  <2> HIDE DEF p
  <2>7. Follows(Fresh(Upon(n)), Upon(n + 1), After(Way(n)), After(p))
    BY <1>1, <2>2, <2>3, <2>5, FrameFollows
  <2>8. Fair(Upon(n + 1), After(p))  BY <2>6, <2>7 DEF Follows
  <2> QED  BY <2>8 DEF p
<1> HIDE DEF S
<1>4. \A n \in Nat : n \in S  BY <1>2, <1>3, NatSetInduction
<1> QED  BY <1>1, <1>4 DEF S

LEMMA WalkInit ==
    ASSUME Init
    PROVE  WalkInv
<1> DEFINE f == Frame(Entry, Start)
<1>1. TypeInv /\ stack = <<f>> /\ seen = [b \in Block |-> IF b = Entry THEN Start ELSE None]
  BY TypeInit
<1>2. InputOK /\ Entry \in Block /\ Start \in StateOf(FALSE)  BY <1>1, GraphIs, StartIs DEF TypeInv, InputOK
<1>3. f.block = Entry /\ f.ls = DoBlock(Fresh(Start), Entry, FALSE)  BY <1>2, FrameIs
<1> HIDE DEF f
<1>4. Len(stack) = 1 /\ stack[1] = f /\ \A i \in 1 .. Len(stack) : i = 1  BY <1>1
<1>5. seen[Entry] = Start /\ Upon(1 - 1) = Start  BY <1>1, <1>2 DEF Upon
<1> QED  BY <1>3, <1>4, <1>5 DEF WalkInv

LEMMA WalkBack ==
    ASSUME TypeInv, WalkInv, UNCHANGED input, NEW n, Back(n), seen' = seen
    PROVE  WalkInv'
<1>1. n \in Nat /\ n > 0 /\ Len(stack') = n /\ n <= Len(stack) /\ Len(stack) \in Nat
  BY DEF Back, TypeInv
<1>2. \A i \in 1 .. n : /\ i \in 1 .. Len(stack) /\ stack'[i].block = stack[i].block
                        /\ stack'[i].ls = stack[i].ls
  <2> SUFFICES ASSUME NEW i \in 1 .. n
               PROVE  /\ i \in 1 .. Len(stack) /\ stack'[i].block = stack[i].block
                      /\ stack'[i].ls = stack[i].ls
    OBVIOUS
  <2>1. i = n \/ i \in 1 .. n - 1  BY <1>1
  <2> QED  BY <1>1, <2>1 DEF Back
<1>3. Start' = Start /\ Entry' = Entry  BY DEF Start, input, Entry
<1>4. \A i \in 1 .. n : Upon(i - 1)' = Upon(i - 1)
  <2> SUFFICES ASSUME NEW i \in 1 .. n  PROVE Upon(i - 1)' = Upon(i - 1)  OBVIOUS
  <2>1. i - 1 = 0 \/ i - 1 \in 1 .. n  BY <1>1
  <2> QED  BY <1>2, <1>3, <2>1 DEF Upon
<1>5. \A i \in 1 .. n : /\ seen'[stack'[i].block] = Upon(i - 1)'
                        /\ stack'[i].ls = DoBlock(Fresh(Upon(i - 1)), stack[i].block, FALSE)'
  <2> SUFFICES ASSUME NEW i \in 1 .. n
               PROVE  /\ seen'[stack'[i].block] = Upon(i - 1)'
                      /\ stack'[i].ls = DoBlock(Fresh(Upon(i - 1)), stack[i].block, FALSE)'
    OBVIOUS
  <2>1. seen[stack[i].block] = Upon(i - 1)
        /\ stack[i].ls = DoBlock(Fresh(Upon(i - 1)), stack[i].block, FALSE)
    BY <1>2 DEF WalkInv
  <2>2. DoBlock(Fresh(Upon(i - 1)), stack[i].block, FALSE)'
          = DoBlock(Fresh(Upon(i - 1)), stack[i].block, FALSE)
    BY <1>2, <1>4 DEF DoBlock, Returns, Fresh, input
  <2> QED  BY <1>2, <1>4, <2>1, <2>2
<1>6. seen'[Entry'] = Start'  BY <1>3 DEF WalkInv
<1> QED  BY <1>1, <1>5, <1>6 DEF WalkInv

LEMMA WalkEnter ==
    ASSUME TypeInv, WalkInv, Enter
    PROVE  WalkInv'
<1> DEFINE f == Frame(Succ, Top.ls)
           L == Len(stack)
<1>1. Enters(f) /\ UNCHANGED input  BY EnterIs
<1>2. stack # <<>> /\ Succ \in Block /\ (\A i \in 1 .. L : stack[i].block # Succ)
      /\ seen' = [seen EXCEPT ![Succ] = Top.ls]
  BY <1>1 DEF Enters
<1>3. Top.ls \in StateOf(FALSE) /\ L \in Nat /\ L \in 1 .. L /\ Top = stack[L]  BY <1>2, TopIs
<1>4. InputOK /\ seen \in [Block -> State \cup {None}]  BY DEF TypeInv
<1>5. f.block = Succ /\ f.ls = DoBlock(Fresh(Top.ls), Succ, FALSE)  BY <1>2, <1>3, <1>4, FrameIs
<1> HIDE DEF f
<1>6. Len(stack') = L + 1 /\ stack'[L + 1] = f /\ \A i \in 1 .. L : stack'[i] = stack[i]
  BY <1>1 DEF Enters
<1> HIDE DEF L
<1>7. Start' = Start /\ Entry' = Entry  BY <1>1 DEF Start, input, Entry
<1>8. \A i \in 0 .. L : Upon(i)' = Upon(i)
  <2> SUFFICES ASSUME NEW i \in 0 .. L  PROVE Upon(i)' = Upon(i)  OBVIOUS
  <2>1. i = 0 \/ i \in 1 .. L  BY <1>3
  <2> QED  BY <1>6, <1>7, <2>1 DEF Upon
<1>9. Upon(L) = Top.ls  BY <1>3 DEF Upon
<1>10. \A i \in 1 .. L + 1 : /\ seen'[stack'[i].block] = Upon(i - 1)'
                             /\ stack'[i].ls = DoBlock(Fresh(Upon(i - 1)), stack[i].block, FALSE)'
  <2> SUFFICES ASSUME NEW i \in 1 .. L + 1
               PROVE  /\ seen'[stack'[i].block] = Upon(i - 1)'
                      /\ stack'[i].ls = DoBlock(Fresh(Upon(i - 1)), stack[i].block, FALSE)'
    OBVIOUS
  <2>1. i - 1 \in 0 .. L /\ (i \in 1 .. L \/ i = L + 1)  BY <1>3
  <2>2. CASE i \in 1 .. L
    <3>1. seen[stack[i].block] = Upon(i - 1)
          /\ stack[i].ls = DoBlock(Fresh(Upon(i - 1)), stack[i].block, FALSE)
      BY <2>2 DEF WalkInv, L
    <3>2. DoBlock(Fresh(Upon(i - 1)), stack[i].block, FALSE)'
            = DoBlock(Fresh(Upon(i - 1)), stack[i].block, FALSE)
      BY <1>1, <1>6, <1>8, <2>1, <2>2 DEF DoBlock, Returns, Fresh, input
    <3>3. stack[i].block \in Block /\ stack[i].block # Succ
      <4>1. stack[i] \in FrameType  BY <2>2 DEF TypeInv, L
      <4> QED  BY <1>2, <2>2, <4>1 DEF FrameType
    <3>4. seen'[stack[i].block] = seen[stack[i].block]  BY <1>2, <1>4, <3>3
    <3> QED  BY <1>6, <1>8, <2>1, <2>2, <3>1, <3>2, <3>4
  <2>3. CASE i = L + 1
    <3>1. i - 1 = L /\ stack'[i] = f /\ Upon(i - 1)' = Top.ls  BY <1>3, <1>6, <1>8, <1>9, <2>1, <2>3
    <3>2. DoBlock(Fresh(Upon(i - 1)), stack[i].block, FALSE)' = DoBlock(Fresh(Top.ls), Succ, FALSE)
      BY <1>1, <1>5, <3>1 DEF DoBlock, Returns, Fresh, input
    <3>3. seen'[Succ] = Top.ls  BY <1>2, <1>4
    <3> QED  BY <1>5, <3>1, <3>2, <3>3
  <2> QED  BY <2>1, <2>2, <2>3
<1>11. seen'[Entry'] = Start'
  <2>1. 1 \in 1 .. L /\ stack[1].block = Entry
    <3>1. 1 \in 1 .. L /\ L > 0  BY <1>3
    <3> QED  BY <3>1 DEF TypeInv, L
  <2>2. Entry # Succ /\ Entry \in Block  BY <1>2, <1>4, <2>1, GraphIs DEF InputOK, L
  <2> QED  BY <1>2, <1>4, <1>7, <2>2 DEF WalkInv
<1> QED  BY <1>6, <1>10, <1>11 DEF WalkInv

LEMMA WalkStep ==
    ASSUME TypeInv, WalkInv, [Next]_vars
    PROVE  WalkInv'
<1>1. CASE Enter  BY <1>1, WalkEnter
<1>2. CASE Skip
  <2>1. UNCHANGED input /\ Back(Len(stack)) /\ seen' = seen  BY <1>2, SkipIs
  <2> QED  BY <2>1, WalkBack
<1>3. ASSUME UNCHANGED input, seen' = seen, stack' = <<>>  PROVE WalkInv'
  <2>1. Start' = Start /\ Entry' = Entry  BY <1>3 DEF Start, input, Entry
  <2>2. Len(stack') = 0 /\ ~(\E i \in 1 .. Len(stack') : TRUE)  BY <1>3
  <2> QED  BY <1>3, <2>1, <2>2 DEF WalkInv
<1>4. CASE Leave
  <2>1. UNCHANGED input /\ seen' = seen /\ (stack' = <<>> \/ Back(Len(stack) - 1))
    BY <1>4, LeaveIs
  <2> QED  BY <1>3, <2>1, WalkBack
<1>5. CASE ScanRecover
  <2>1. UNCHANGED input /\ seen' = seen /\ stack' = <<>>  BY <1>5, RecoverIs
  <2> QED  BY <1>3, <2>1
<1>6. CASE UNCHANGED vars
  BY <1>6 DEF vars, WalkInv, Upon, DoBlock, Returns, Fresh, Start, Entry
<1> QED  BY <1>1, <1>2, <1>4, <1>5, <1>6 DEF Next

LEMMA WalkInvIsInvariant == Spec => [](TypeInv /\ WalkInv)
<1>1. Init => TypeInv /\ WalkInv  BY TypeInit, WalkInit
<1>2. TypeInv /\ WalkInv /\ [Next]_vars => (TypeInv /\ WalkInv)'  BY TypeStep, WalkStep
<1> QED  BY <1>1, <1>2, PTL DEF Spec

-----------------------------------------------------------------------------
(***************************************************************************)
(* A function that is reported has a wrong run.                            *)
(***************************************************************************)
\* What excuses a report.
Disagree == \E p, q \in Runs : /\ Returns(Last(p)) /\ Returns(Last(q))
                               /\ ~Compatible(After(p), After(q))
Wrong == SomeRunWrong \/ SomeRun("changes") \/ Disagree \/ SomeRun("locked") \/ SomeRun("mixed")

AlarmInv ==
    /\ reports \ {"recover"} # {} => Wrong
    /\ ~Wrong => \A i \in 1 .. Len(stack) : stack[i].rls # None =>
                    \E p \in Runs : Returns(Last(p)) /\ stack[i].rls.held = After(p).held

LEMMA WrongStays ==
    ASSUME UNCHANGED input
    PROVE  Wrong' <=> Wrong
<1>1. Runs' = Runs /\ \A p : After(p)' = After(p)  BY RunsStay
<1>2. /\ \A what : SomeRun(what)' <=> SomeRun(what)
      /\ SomeRunWrong' <=> SomeRunWrong
  BY ProblemsStay
<1>3. Disagree' <=> Disagree  BY <1>1 DEF Disagree, Returns, Compatible, input
<1> QED  BY <1>2, <1>3 DEF Wrong

\* A block that the walk enters as a run does is reported only for what goes wrong
\* in the run.
LEMMA ReportOfRun ==
    ASSUME InputOK, ~Wrong, NEW s \in StateOf(FALSE), NEW p \in Runs, Fair(s, After(Front(p)))
    PROVE  LET f == Frame(Last(p), s)
           IN  /\ FrameReports(f) \subseteq {"recover"}
               /\ f.rls # None => Returns(Last(p)) /\ f.rls.held = After(p).held
<1> DEFINE f == Frame(Last(p), s)
           w == f.ls
<1>1. /\ Follows(Fresh(s), w, After(Front(p)), After(p)) /\ Last(p) \in Block
      /\ f.block = Last(p) /\ f.rls = IF Returns(Last(p)) THEN f.ls ELSE None
      /\ Fresh(s).failed = {}
  BY FrameFollows, RunIs, FrameIs, FreshIs
<1> HIDE DEF f
<1>2. /\ "changes" \notin After(p).failed /\ "locked" \notin After(p).failed
      /\ "mixed" \notin After(p).failed /\ "call" \notin After(p).failed
  BY DEF Wrong, SomeRunWrong, GoesWrong, SomeRun
<1>3. After(p).failed \cap Marks = {}  BY <1>2 DEF Marks
<1>4. w.failed \subseteq {"recover"} /\ w.held = After(p).held
  BY <1>1, <1>2, <1>3 DEF Follows, Fair
<1>5. ReturnFails(Last(p), w) => "return" \notin shown
  <2>1. ReturnFails(Last(p), w) => ReturnWrong(p)  BY <1>4 DEF ReturnFails, ReturnWrong
  <2> QED  BY <2>1 DEF Wrong, SomeRunWrong, GoesWrong, ReturnWrong
<1>6. FrameReports(f) \subseteq {"recover"}  BY <1>1, <1>4, <1>5 DEF FrameReports
<1>7. f.rls # None => Returns(Last(p)) /\ f.rls.held = After(p).held  BY <1>1, <1>4
<1> QED  BY <1>6, <1>7 DEF f

\* The frames and the block entered on top of them make a run.
LEMMA EnteredRun ==
    ASSUME TypeInv, WalkInv, Enters(Frame(Succ, Top.ls)), ~SomeRun("changes")
    PROVE  \E p \in Runs : Last(p) = Succ /\ Fair(Top.ls, After(Front(p)))
<1> DEFINE L == Len(stack)
<1>5. stack # <<>>  BY DEF Enters
<1>6. InputOK /\ Top.ls \in StateOf(FALSE) /\ L \in Nat /\ L \in 1 .. L /\ Top = stack[L]
      /\ Len(stack) \in 0 .. Len(stack)
  <2>1. Top.ls \in StateOf(FALSE) /\ L \in Nat /\ L \in 1 .. L /\ Top = stack[L]
    BY <1>5, TopIs
  <2>2. L \in 0 .. L  BY <2>1
  <2>3. InputOK  BY DEF TypeInv
  <2> QED  BY <2>1, <2>2, <2>3
<1> DEFINE p == Append(Way(L), Succ)
<1>7. p \in Runs /\ Last(p) = Succ /\ Front(p) = Way(L)
  <2>1. /\ IsPath(succs, Way(L)) /\ Len(Way(L)) = L /\ Last(Way(L)) = Top.block
        /\ \A i \in 1 .. L : Way(L)[i] = stack[i].block
    BY <1>6, WayIsRun
  <2>2. Way(L)[Len(Way(L))] = Top.block  BY <2>1 DEF Last
  <2>3. Top.next \in 1 .. Len(succs[Top.block]) /\ Succ = succs[Top.block][Top.next]
    BY DEF Enters, Succ
  <2>4. \A i \in 1 .. Len(Way(L)) : Way(L)[i] # Succ  BY <2>1 DEF Enters
  <2>5. succs \in Shape /\ succs \in Seq(Seq(DOMAIN succs))  BY <1>6, GraphIs DEF InputOK
  <2>6. IsPath(succs, p) /\ Last(p) = Succ /\ Front(p) = Way(L)
    <3> DEFINE w == Way(L)
               k == Top.next
    <3>1. /\ IsPath(succs, w) /\ k \in 1 .. Len(succs[w[Len(w)]]) /\ succs[w[Len(w)]][k] = Succ
          /\ \A i \in 1 .. Len(w) : w[i] # succs[w[Len(w)]][k]
      BY <2>1, <2>2, <2>3, <2>4
    <3> HIDE DEF w, k
    <3>2. LET q == Append(w, succs[w[Len(w)]][k])
          IN  IsPath(succs, q) /\ Last(q) = succs[w[Len(w)]][k] /\ Front(q) = w
      BY <2>5, <3>1, LongerPath
    <3>3. IsPath(succs, Append(w, Succ)) /\ Last(Append(w, Succ)) = Succ /\ Front(Append(w, Succ)) = w
      BY <3>1, <3>2
    <3> QED  BY <3>3 DEF w
  <2> QED  BY <2>5, <2>6, GraphIs
<1> HIDE DEF p
<1>9. Fair(Top.ls, After(Way(L)))
  <2>1. L \in 0 .. L /\ L # 0  BY <1>6
  <2>2. Fair(Upon(L), After(Way(L)))  BY <2>1, WalkIsFair
  <2> QED  BY <1>6, <2>1, <2>2 DEF Upon
<1> QED  BY <1>7, <1>9

LEMMA AlarmInit ==
    ASSUME Init
    PROVE  AlarmInv
<1> DEFINE f == Frame(Entry, Start)
<1>1. TypeInv /\ stack = <<f>> /\ reports = FrameReports(f)  BY TypeInit
<1>2. InputOK /\ Start \in StateOf(FALSE)  BY <1>1, StartIs DEF TypeInv
<1> DEFINE p == Way(1)
<1>3. Len(stack) = 1 /\ \A i \in 1 .. Len(stack) : i = 1  BY <1>1
<1>4. p \in Runs /\ Last(p) = Entry /\ Front(p) = <<>>
  <2>1. 1 \in 1 .. Len(stack) /\ Len(stack) > 0  BY <1>3
  <2>2. p \in Runs /\ Last(p) = stack[1].block /\ Front(p) = Way(1 - 1)  BY <1>1, <2>1, WayIsRun
  <2>3. Way(1 - 1) = <<>>  BY DEF Way
  <2> QED  BY <1>1, <2>1, <2>2, <2>3 DEF TypeInv
<1> HIDE DEF p
<1>5. Fair(Start, After(Front(p)))  BY <1>2, <1>4, AfterNothing DEF Fair
<1>6. ~Wrong => /\ FrameReports(f) \subseteq {"recover"}
                /\ f.rls # None => Returns(Last(p)) /\ f.rls.held = After(p).held
  BY <1>2, <1>4, <1>5, ReportOfRun
<1> HIDE DEF f
<1>7. stack[1] = f  BY <1>1
<1> QED  BY <1>1, <1>3, <1>4, <1>6, <1>7 DEF AlarmInv

LEMMA AlarmEnter ==
    ASSUME TypeInv, WalkInv, AlarmInv, Enter
    PROVE  AlarmInv'
<1> DEFINE f == Frame(Succ, Top.ls)
           L == Len(stack)
<1>1. Enters(f) /\ UNCHANGED input  BY EnterIs
<1>2. Wrong' <=> Wrong  BY <1>1, WrongStays
<1>3. Runs' = Runs /\ (\A p : After(p)' = After(p)) /\ succs' = succs  BY <1>1, RunsStay DEF input
<1> SUFFICES ASSUME ~Wrong  PROVE AlarmInv'
  BY <1>2 DEF AlarmInv
<1>4. (TypeInv /\ WalkInv)'  BY TypeEnter, WalkEnter
<1>5. /\ stack # <<>> /\ Len(stack') = L + 1 /\ stack'[L + 1] = f
      /\ \A i \in 1 .. L : stack'[i] = stack[i]
      /\ reports' = reports \cup FrameReports(f)
  BY <1>1 DEF Enters
<1>6. InputOK /\ Top.ls \in StateOf(FALSE) /\ L \in Nat /\ L \in 1 .. L /\ Top = stack[L]
  <2>1. Top.ls \in StateOf(FALSE) /\ L \in Nat /\ L \in 1 .. L /\ Top = stack[L]
    BY <1>5, TopIs
  <2> QED  BY <2>1 DEF TypeInv
<1>8. ~SomeRun("changes")  BY DEF Wrong
<1>7. PICK p \in Runs : Last(p) = Succ /\ Fair(Top.ls, After(Front(p)))
  BY <1>1, <1>8, EnteredRun
<1>10. /\ FrameReports(f) \subseteq {"recover"}
       /\ f.rls # None => Returns(Last(p)) /\ f.rls.held = After(p).held
  BY <1>6, <1>7, ReportOfRun
<1> HIDE DEF f, L
<1>11. reports' \ {"recover"} = {}  BY <1>5, <1>10 DEF AlarmInv
<1>12. \A i \in 1 .. L + 1 : stack'[i].rls # None =>
           \E q \in Runs : Returns(Last(q)) /\ stack'[i].rls.held = After(q).held
  <2>1. \A i \in 1 .. L + 1 : i \in 1 .. L \/ i = L + 1  BY <1>6
  <2>2. \A i \in 1 .. L : stack[i].rls # None =>
           \E q \in Runs : Returns(Last(q)) /\ stack[i].rls.held = After(q).held
    BY DEF AlarmInv, L
  <2> QED  BY <1>5, <1>7, <1>10, <2>1, <2>2
<1>13. \A q : Returns(Last(q))' <=> Returns(Last(q))  BY <1>3 DEF Returns
<1> QED  BY <1>2, <1>3, <1>5, <1>11, <1>12, <1>13 DEF AlarmInv

LEMMA AlarmBack ==
    ASSUME TypeInv, AlarmInv, UNCHANGED input, NEW n, Back(n), reports' = reports,
           stack'[n].rls = stack[n].rls
           \/ \E m \in 1 .. Len(stack) : stack'[n].rls = stack[m].rls
    PROVE  AlarmInv'
<1>1. Wrong' <=> Wrong  BY WrongStays
<1>2. Runs' = Runs /\ (\A p : After(p)' = After(p)) /\ succs' = succs  BY RunsStay DEF input
<1> SUFFICES ASSUME ~Wrong  PROVE AlarmInv'
  BY <1>1 DEF AlarmInv
<1>3. n \in Nat /\ n \in 1 .. Len(stack) /\ Len(stack') = n /\ Len(stack) \in Nat
      /\ \A i \in 1 .. n - 1 : stack'[i] = stack[i]
  BY DEF Back, TypeInv
<1>4. \A i \in 1 .. n : \E m \in 1 .. Len(stack) : stack'[i].rls = stack[m].rls
  <2>1. \A i \in 1 .. n : i \in 1 .. Len(stack) /\ (i = n \/ i \in 1 .. n - 1)  BY <1>3
  <2> QED  BY <1>3, <2>1
<1>5. \A i \in 1 .. Len(stack) : stack[i].rls # None =>
         \E q \in Runs : Returns(Last(q)) /\ stack[i].rls.held = After(q).held
  BY DEF AlarmInv
<1>6. \A i \in 1 .. n : stack'[i].rls # None =>
         \E q \in Runs : Returns(Last(q)) /\ stack'[i].rls.held = After(q).held
  BY <1>4, <1>5
<1>7. \A q : Returns(Last(q))' <=> Returns(Last(q))  BY <1>2 DEF Returns
<1> QED  BY <1>1, <1>2, <1>3, <1>6, <1>7 DEF AlarmInv

LEMMA AlarmLeave ==
    ASSUME TypeInv, WalkInv, AlarmInv, Leave
    PROVE  AlarmInv'
<1>1. UNCHANGED input /\ stack # <<>>  BY LeaveIs
<1>2. Len(stack) \in 1 .. Len(stack) /\ Top = stack[Len(stack)]  BY <1>1, TopIs
<1>3. CASE stack' = <<>> /\ reports' = reports
  <2>1. Wrong' <=> Wrong  BY <1>1, WrongStays
  <2>2. Len(stack') = 0 /\ ~(\E i \in 1 .. Len(stack') : TRUE)  BY <1>3
  <2> QED  BY <1>3, <2>1, <2>2 DEF AlarmInv
<1>4. CASE Len(stack) > 1 /\ ~(stack' = <<>> /\ reports' = reports)
  <2> DEFINE n == Len(stack) - 1
  <2>1. /\ Back(n) /\ stack'[n].rls = IF Top.rls = None THEN stack[n].rls ELSE Top.rls
        /\ reports' = reports \cup
             IF Top.rls # None /\ stack[n].rls # None /\ ~Compatible(stack[n].rls, Top.rls)
             THEN {"incompatible"} ELSE {}
    BY <1>4, LeaveIs
  <2>2. n \in 1 .. Len(stack)  BY <2>1 DEF Back
  <2> HIDE DEF n
  <2>3. CASE reports' = reports
    <3>1. stack'[n].rls = stack[n].rls \/ \E m \in 1 .. Len(stack) : stack'[n].rls = stack[m].rls
      BY <1>2, <2>1
    <3> QED  BY <1>1, <2>1, <2>3, <3>1, AlarmBack
  <2>4. CASE reports' # reports
    <3>1. Top.rls # None /\ stack[n].rls # None /\ ~Compatible(stack[n].rls, Top.rls)
      BY <2>1, <2>4
    <3>2. Wrong
      <4> SUFFICES ASSUME ~Wrong  PROVE FALSE  OBVIOUS
      <4>1. \A i \in 1 .. Len(stack) : stack[i].rls # None =>
               \E q \in Runs : Returns(Last(q)) /\ stack[i].rls.held = After(q).held
        BY DEF AlarmInv
      <4>2. PICK p \in Runs : Returns(Last(p)) /\ stack[n].rls.held = After(p).held
        BY <2>2, <3>1, <4>1
      <4>3. PICK q \in Runs : Returns(Last(q)) /\ Top.rls.held = After(q).held
        BY <1>2, <3>1, <4>1
      <4>4. ~Compatible(After(p), After(q))  BY <3>1, <4>2, <4>3 DEF Compatible
      <4> QED  BY <4>2, <4>3, <4>4 DEF Wrong, Disagree
    <3>3. Wrong'  BY <1>1, <3>2, WrongStays
    <3> QED  BY <3>3 DEF AlarmInv
  <2> QED  BY <2>3, <2>4
<1> QED  BY <1>3, <1>4, LeaveIs

LEMMA AlarmStep ==
    ASSUME TypeInv, WalkInv, AlarmInv, [Next]_vars
    PROVE  AlarmInv'
<1>1. CASE Enter  BY <1>1, AlarmEnter
<1>2. CASE Skip
  <2>1. /\ stack # <<>> /\ Back(Len(stack)) /\ stack'[Len(stack)].rls = Top.rls
        /\ UNCHANGED input /\ reports' = reports
    BY <1>2, SkipIs
  <2>2. Top = stack[Len(stack)]  BY <2>1, TopIs
  <2> QED  BY <2>1, <2>2, AlarmBack
<1>3. CASE Leave  BY <1>3, AlarmLeave
<1>4. CASE ScanRecover
  <2>1. /\ stack = <<>> /\ stack' = stack /\ UNCHANGED input
        /\ reports' \subseteq reports \cup {"recover"}
    BY <1>4, RecoverIs
  <2>2. Wrong' <=> Wrong  BY <2>1, WrongStays
  <2>3. Len(stack') = 0 /\ ~(\E i \in 1 .. Len(stack') : TRUE)  BY <2>1
  <2>4. reports' \ {"recover"} \subseteq reports \ {"recover"}  BY <2>1
  <2> QED  BY <2>2, <2>3, <2>4 DEF AlarmInv
<1>5. CASE UNCHANGED vars
  <2>1. UNCHANGED input /\ stack' = stack /\ reports' = reports  BY <1>5 DEF vars, input
  <2>2. Wrong' <=> Wrong  BY <2>1, WrongStays
  <2>3. Runs' = Runs /\ (\A p : After(p)' = After(p)) /\ succs' = succs
    BY <2>1, RunsStay DEF input
  <2>4. \A q : Returns(Last(q))' <=> Returns(Last(q))  BY <2>3 DEF Returns
  <2> QED  BY <2>1, <2>2, <2>3, <2>4 DEF AlarmInv
<1> QED  BY <1>1, <1>2, <1>3, <1>4, <1>5 DEF Next

\* No false alarm: a function that the walk reports has a run that goes wrong, or runs
\* that return with different locks; or a literal changes the locks, or is called
\* with locks held, or defers calls while its caller has deferred some.
THEOREM WalkHasNoFalseAlarm == Spec => []NoFalseAlarm
<1>1. Init => TypeInv /\ WalkInv /\ AlarmInv  BY TypeInit, WalkInit, AlarmInit
<1>2. TypeInv /\ WalkInv /\ AlarmInv /\ [Next]_vars => (TypeInv /\ WalkInv /\ AlarmInv)'
  BY TypeStep, WalkStep, AlarmStep
<1>3. AlarmInv => NoFalseAlarm
  BY Zenon DEF AlarmInv, NoFalseAlarm, Wrong, Disagree
<1> QED  BY <1>1, <1>2, <1>3, PTL DEF Spec

-----------------------------------------------------------------------------
(***************************************************************************)
(* A function that has a wrong run is reported.                            *)
(***************************************************************************)
\* Where that may fail: a literal that changes the locks, a loop that is not entered
\* at its head, the same block with the same locks and other deferred calls.
Plain == /\ ~SomeRun("changes") /\ LoopsHaveHeads
         /\ \A p, q \in Runs : ~Confused(p, q)

\* The last block of the run was walked as the run gets there, or as well as.
Looked(p) == FrameReports(Frame(Last(p), After(Front(p)))) \subseteq reports

\* The search is in the m-th block of the run as the run gets there, in its i-th
\* frame, and has not yet been to the block where the run goes next.
AtPlace(p, m, i) ==
    /\ stack[i].block = p[m] /\ Upon(i - 1).held = After(SubSeq(p, 1, m - 1)).held
    /\ \E j \in 1 .. Len(succs[p[m]]) : stack[i].next <= j /\ succs[p[m]][j] = p[m + 1]

\* From the k-th block on the run is still to be walked.
Ahead(p, k) == \E m \in 1 .. Len(p) - 1, i \in 1 .. Len(stack) : k <= m /\ AtPlace(p, m, i)

\* A block that was walked with the locks a run gets there with: where the run ends
\* was looked at, or the search is to go on along the run.
SeenInv == \A p \in Runs : \A k \in 1 .. Len(p) :
    seen[p[k]] # None /\ seen[p[k]].held = After(SubSeq(p, 1, k - 1)).held
    => Looked(p) \/ Ahead(p, k)

LEMMA PrefixIsRun ==
    ASSUME InputOK, NEW p \in Runs, NEW k \in 1 .. Len(p)
    PROVE  /\ SubSeq(p, 1, k) \in Runs /\ Last(SubSeq(p, 1, k)) = p[k] /\ p[k] \in Block
           /\ Front(SubSeq(p, 1, k)) = SubSeq(p, 1, k - 1) /\ Len(SubSeq(p, 1, k)) = k
           /\ \A i \in 1 .. k : SubSeq(p, 1, k)[i] = p[i]
<1>1. IsPath(succs, p) /\ p \in Seq(Block)  BY RunIs
<1>2. succs \in Shape /\ succs \in Seq(Seq(Nat))  BY GraphIs DEF InputOK
<1>3. /\ IsPath(succs, SubSeq(p, 1, k)) /\ Last(SubSeq(p, 1, k)) = p[k]
      /\ Front(SubSeq(p, 1, k)) = SubSeq(p, 1, k - 1) /\ Len(SubSeq(p, 1, k)) = k
      /\ \A i \in 1 .. k : SubSeq(p, 1, k)[i] = p[i]
  BY <1>1, <1>2, PrefixIsPath
<1>4. SubSeq(p, 1, k) \in Runs  BY <1>2, <1>3, GraphIs
<1>5. p[k] \in Block  BY <1>1
<1> QED  BY <1>3, <1>4, <1>5

LEMMA SameFrame ==
    ASSUME NEW s \in StateOf(FALSE), NEW t \in StateOf(TRUE), Fair(s, t), NEW b
    PROVE  Frame(b, s) = Frame(b, t)
<1>1. Fresh(s) = Fresh(t)  BY FreshIs DEF Fair
<1> QED  BY <1>1 DEF Frame, Fresh

\* Two runs that get to a block with the same locks get there with the same deferred
\* calls.
LEMMA SameDefers ==
    ASSUME InputOK, Plain, NEW p \in Runs, NEW q \in Runs, Last(p) = Last(q),
           NEW s, Fair(s, After(Front(p))), s.held = After(Front(q)).held
    PROVE  Fair(s, After(Front(q)))
BY DEF Plain, Confused, Compatible, Fair

\* A frame for a block of a run, with the locks of the run, follows the run.
LEMMA FrameIsOfRun ==
    ASSUME TypeInv, WalkInv, Plain, NEW p \in Runs, NEW m \in 1 .. Len(p), NEW i \in 1 .. Len(stack),
           stack[i].block = p[m], Upon(i - 1).held = After(SubSeq(p, 1, m - 1)).held
    PROVE  Fair(Upon(i), After(SubSeq(p, 1, m)))
<1> DEFINE q == SubSeq(p, 1, m)
<1>1. InputOK /\ ~SomeRun("changes")  BY DEF TypeInv, Plain
<1>2. /\ q \in Runs /\ Last(q) = p[m] /\ Front(q) = SubSeq(p, 1, m - 1)  BY <1>1, PrefixIsRun
<1> HIDE DEF q
<1>3. Way(i) \in Runs /\ Last(Way(i)) = stack[i].block /\ Front(Way(i)) = Way(i - 1)  BY WayIsRun
<1>4. i \in Nat /\ i - 1 \in 0 .. Len(stack) /\ i # 0  BY DEF TypeInv
<1>5. Fair(Upon(i - 1), After(Way(i - 1))) /\ Upon(i - 1) \in StateOf(FALSE)
  BY <1>1, <1>4, WalkIsFair, UponIs
<1>6. Fair(Upon(i - 1), After(Front(q)))  BY <1>1, <1>2, <1>3, <1>5, SameDefers
<1>7. Upon(i) = Frame(Last(q), Upon(i - 1)).ls
  <2>1. Upon(i) = DoBlock(Fresh(Upon(i - 1)), stack[i].block, FALSE)
    BY <1>4 DEF WalkInv, Upon
  <2>2. Last(q) \in Block  BY <1>1, <1>2, RunIs
  <2>3. Frame(Last(q), Upon(i - 1)).ls = DoBlock(Fresh(Upon(i - 1)), Last(q), FALSE)
    BY <1>1, <1>5, <2>2, FrameIs
  <2> QED  BY <1>2, <2>1, <2>3
<1>8. Follows(Fresh(Upon(i - 1)), Upon(i), After(Front(q)), After(q))
  BY <1>1, <1>2, <1>5, <1>6, <1>7, FrameFollows
<1>9. "changes" \notin After(q).failed  BY <1>1, <1>2 DEF SomeRun
<1>10. Fair(Upon(i), After(q))  BY <1>8, <1>9 DEF Follows
<1> QED  BY <1>10 DEF q

LEMMA LookedStays ==
    ASSUME UNCHANGED input, reports \subseteq reports', NEW p, Looked(p)
    PROVE  Looked(p)'
<1>1. After(Front(p))' = After(Front(p))  BY RunsStay
<1>2. FrameReports(Frame(Last(p), After(Front(p))))' = FrameReports(Frame(Last(p), After(Front(p))))
  BY <1>1 DEF FrameReports, Frame, DoBlock, Returns, ReturnFails, input
<1> QED  BY <1>2 DEF Looked

LEMMA PlainStays ==
    ASSUME UNCHANGED input
    PROVE  Plain' <=> Plain
<1>1. Runs' = Runs /\ (\A p : After(p)' = After(p)) /\ succs' = succs  BY RunsStay DEF input
<1>2. SomeRun("changes")' <=> SomeRun("changes")  BY ProblemsStay
<1>3. LoopsHaveHeads' <=> LoopsHaveHeads  BY <1>1 DEF LoopsHaveHeads
<1>4. (\A p, q \in Runs : ~Confused(p, q))' <=> \A p, q \in Runs : ~Confused(p, q)
  BY <1>1 DEF Confused, Compatible
<1> QED  BY <1>2, <1>3, <1>4 DEF Plain

\* The frame that the search is back in, and the frames below it, are at their places
\* still; the one place that is lost is that of the successor just done with.
LEMMA PlaceStays ==
    ASSUME TypeInv, UNCHANGED input, NEW n, Back(n), NEW p, NEW m, NEW i \in 1 .. n, AtPlace(p, m, i),
           i = n => succs[stack[n].block][stack[n].next] # p[m + 1]
    PROVE  AtPlace(p, m, i)' /\ i \in 1 .. Len(stack')
<1>1. n \in Nat /\ n \in 1 .. Len(stack) /\ Len(stack') = n /\ Len(stack) \in Nat
  BY DEF Back, TypeInv
<1>2. /\ succs' = succs /\ Start' = Start
      /\ After(SubSeq(p, 1, m - 1))' = After(SubSeq(p, 1, m - 1))
  BY RunsStay DEF input, Start
<1>3. Upon(i - 1)' = Upon(i - 1)
  <2>1. i - 1 = 0 \/ i - 1 \in 1 .. n - 1  BY <1>1
  <2> QED  BY <1>2, <2>1 DEF Upon, Back
<1>4. PICK j \in 1 .. Len(succs[p[m]]) : stack[i].next <= j /\ succs[p[m]][j] = p[m + 1]
  BY DEF AtPlace
<1>5. stack[i].block = p[m] /\ Upon(i - 1).held = After(SubSeq(p, 1, m - 1)).held  BY DEF AtPlace
<1>6. CASE i # n
  <2>1. i \in 1 .. n - 1  BY <1>1, <1>6
  <2>2. stack'[i] = stack[i]  BY <2>1 DEF Back
  <2> QED  BY <1>1, <1>2, <1>3, <1>4, <1>5, <2>2 DEF AtPlace
<1>7. CASE i = n
  <2>1. stack'[i].block = stack[i].block /\ stack'[i].next = stack[i].next + 1
        /\ stack[i].next \in 1 .. Len(succs[stack[i].block])
    BY <1>7 DEF Back
  <2>2. stack[i].next # j  BY <1>4, <1>5, <1>7
  <2>3. stack'[i].next <= j  BY <1>4, <2>1, <2>2
  <2> QED  BY <1>1, <1>2, <1>3, <1>4, <1>5, <2>1, <2>3 DEF AtPlace
<1> QED  BY <1>6, <1>7

LEMMA SeenBack ==
    ASSUME TypeInv, WalkInv, Plain, SeenInv, UNCHANGED input, NEW n, Back(n), seen' = seen,
           reports \subseteq reports',
           \A i \in n + 1 .. Len(stack) : stack[i].next > Len(succs[stack[i].block]),
           LET b == succs[stack[n].block][stack[n].next]
           IN  \/ seen[b] # None /\ seen[b].held = stack[n].ls.held
               \/ n = Len(stack) /\ b \in OnStack
    PROVE  SeenInv'
<1> DEFINE b == succs[stack[n].block][stack[n].next]
<1>1. InputOK /\ n \in Nat /\ n \in 1 .. Len(stack) /\ Len(stack') = n /\ Len(stack) \in Nat
  BY DEF Back, TypeInv
<1>2. Runs' = Runs /\ (\A p : After(p)' = After(p))  BY RunsStay
<1> SUFFICES ASSUME NEW p \in Runs, NEW k \in 1 .. Len(p),
                    seen[p[k]] # None, seen[p[k]].held = After(SubSeq(p, 1, k - 1)).held
             PROVE  Looked(p)' \/ Ahead(p, k)'
  BY <1>2 DEF SeenInv
<1>3. Looked(p) => Looked(p)'  BY LookedStays
<1>4. IsPath(succs, p) /\ Len(p) \in Nat /\ \A x, y \in 1 .. Len(p) : p[x] = p[y] => x = y
  BY <1>1, RunIs DEF IsPath
\* No place is in a frame above the n-th.
<1>5. ASSUME NEW m \in 1 .. Len(p) - 1, NEW i \in 1 .. Len(stack), AtPlace(p, m, i)
      PROVE  i \in 1 .. n
  <2>1. PICK j \in 1 .. Len(succs[p[m]]) : stack[i].next <= j  BY <1>5 DEF AtPlace
  <2>2. stack[i].block = p[m]  BY <1>5 DEF AtPlace
  <2>3. i \in n + 1 .. Len(stack) => stack[i].next > Len(succs[p[m]])  BY <2>2
  <2>4. stack[i].next \in Nat /\ Len(succs[p[m]]) \in Nat
    <3>1. stack[i] \in FrameType  BY DEF TypeInv
    <3>2. stack[i].block \in Block  BY <3>1 DEF FrameType
    <3>3. succs \in Shape  BY <1>1 DEF InputOK
    <3> QED  BY <2>2, <3>1, <3>2, <3>3, SuccsIs DEF FrameType
  <2>5. i \notin n + 1 .. Len(stack)  BY <2>1, <2>3, <2>4
  <2> QED  BY <1>1, <2>5
<1> SUFFICES ASSUME NEW m \in 1 .. Len(p) - 1, NEW i \in 1 .. Len(stack), k <= m, AtPlace(p, m, i),
                    ~Looked(p)'
             PROVE  Ahead(p, k)'
  <2>1. SeenInv => Looked(p) \/ Ahead(p, k)  BY DEF SeenInv
  <2> QED  BY <1>3, <2>1 DEF Ahead
<1>6. i \in 1 .. n  BY <1>5
<1>7. m \in 1 .. Len(p) /\ m + 1 \in 1 .. Len(p) /\ m # m + 1 /\ (m + 1) - 1 = m /\ m \in Nat  BY <1>4
<1>8. CASE i = n => b # p[m + 1]
  <2>1. AtPlace(p, m, i)' /\ i \in 1 .. Len(stack')  BY <1>6, <1>8, PlaceStays
  <2> QED  BY <2>1 DEF Ahead
<1>9. CASE i = n /\ b = p[m + 1]
  <2>1. stack[i].block = p[m] /\ Upon(i - 1).held = After(SubSeq(p, 1, m - 1)).held  BY DEF AtPlace
  <2>2. Fair(Upon(n), After(SubSeq(p, 1, m)))  BY <1>1, <1>7, <1>9, <2>1, FrameIsOfRun
  <2>3. Upon(n) = stack[n].ls  BY <1>1 DEF Upon
  <2>4. ~(n = Len(stack) /\ b \in OnStack)
    <3> SUFFICES ASSUME n = Len(stack), b \in OnStack  PROVE FALSE  BY SMTT(40)
    <3>1. PICK x \in 1 .. Len(stack) : stack[x].block = b  BY DEF OnStack
    <3> DEFINE w == Way(n)
               q == SubSeq(p, 1, m)
    <3>2. w \in Runs /\ Last(w) = p[m] /\ w[x] = b /\ Len(w) = n /\ w \in Seq(Block)
      BY <1>1, <1>9, <2>1, <3>1, WayIsRun
    <3>3. q \in Runs /\ Last(q) = p[m] /\ Len(q) = m /\ (\A y \in 1 .. m : q[y] = p[y])
          /\ q \in Seq(Block)
      BY <1>1, <1>7, PrefixIsRun, RunIs
    <3> HIDE DEF w, q
    <3>4. b \in Range(w)  BY <1>1, <3>2 DEF Range
    <3>5. b \in Range(succs[Last(w)])
      <4>1. PICK j \in 1 .. Len(succs[p[m]]) : succs[p[m]][j] = p[m + 1]  BY DEF AtPlace
      <4>2. succs[p[m]] \in Seq(Block)
        BY <1>1, <1>7, PrefixIsRun, SuccsIs DEF InputOK
      <4> QED  BY <1>9, <3>2, <4>1, <4>2 DEF Range
    <3>6. b \in Range(q)  BY <3>2, <3>3, <3>4, <3>5 DEF Plain, LoopsHaveHeads
    <3>9. DOMAIN q = 1 .. m  BY <3>3
    <3>7. PICK y \in 1 .. m : q[y] = b  BY <3>6, <3>9 DEF Range
    <3>8. p[y] = p[m + 1] /\ y \in 1 .. Len(p) /\ y # m + 1  BY <1>7, <1>9, <3>3, <3>7
    <3> QED  BY <1>4, <1>7, <3>8
  <2>5. seen[p[m + 1]] # None /\ seen[p[m + 1]].held = After(SubSeq(p, 1, (m + 1) - 1)).held
    BY <1>7, <1>9, <2>2, <2>3, <2>4 DEF Fair
  <2>6. Looked(p) \/ Ahead(p, m + 1)  BY <1>7, <2>5 DEF SeenInv
  <2>7. PICK m2 \in 1 .. Len(p) - 1, i2 \in 1 .. Len(stack) : m + 1 <= m2 /\ AtPlace(p, m2, i2)
    BY <1>3, <2>6 DEF Ahead
  <2>8. i2 \in 1 .. n  BY <1>5, <2>7
  <2>9. i2 # n
    <3>1. stack[i2].block = p[m2] /\ m2 \in 1 .. Len(p) /\ m2 # m  BY <1>4, <1>7, <2>7 DEF AtPlace
    <3> QED  BY <1>4, <1>7, <1>9, <2>1, <3>1
  <2>10. AtPlace(p, m2, i2)' /\ i2 \in 1 .. Len(stack')  BY <2>7, <2>8, <2>9, PlaceStays
  <2>11. k <= m2  BY <1>7, <2>7
  <2> QED  BY <2>10, <2>11 DEF Ahead
<1> QED  BY <1>8, <1>9

\* The block just entered is one the search is in.
Here(s, q, p, k, i) ==
    /\ InputOK /\ Plain /\ s \in StateOf(FALSE) /\ q \in Runs /\ Fair(s, After(Front(q)))
    /\ p \in Runs /\ k \in 1 .. Len(p) /\ p[k] = Last(q)
    /\ s.held = After(SubSeq(p, 1, k - 1)).held
    /\ FrameReports(Frame(Last(q), s)) \subseteq reports
    /\ i \in 1 .. Len(stack) /\ stack[i].block = Last(q) /\ stack[i].next = 1 /\ Upon(i - 1) = s

LEMMA SeenHere ==
    ASSUME NEW s, NEW q, NEW p, NEW k, NEW i, Here(s, q, p, k, i)
    PROVE  Looked(p) \/ Ahead(p, k)
<1> USE DEF Here
<1>1. IsPath(succs, p) /\ Len(p) \in Nat /\ p \in Seq(Block)  BY RunIs
<1>2. CASE k = Len(p)
  <2>1. Last(p) = Last(q) /\ Front(p) = SubSeq(p, 1, k - 1)  BY <1>2 DEF Last, Front
  <2>2. Fair(s, After(Front(p)))  BY <2>1, SameDefers
  <2>3. After(Front(p)) \in StateOf(TRUE)  BY RunIs
  <2>4. Frame(Last(p), After(Front(p))) = Frame(Last(q), s)  BY <2>1, <2>2, <2>3, SameFrame, ZenonT(40)
  <2> QED  BY <2>4 DEF Looked
<1>3. CASE k # Len(p)
  <2>1. k \in 1 .. Len(p) - 1  BY <1>1, <1>3
  <2>2. PICK j \in 1 .. Len(succs[p[k]]) : p[k + 1] = succs[p[k]][j]  BY <1>1, <2>1 DEF IsPath
  <2>3. stack[i].next <= j  OBVIOUS
  <2>4. AtPlace(p, k, i)  BY <2>2, <2>3 DEF AtPlace
  <2>5. k <= k  BY <2>1
  <2> QED  BY <2>1, <2>4, <2>5 DEF Ahead
<1> QED  BY <1>2, <1>3

LEMMA SeenHereNext ==
    ASSUME NEW s, NEW q, NEW p, NEW k, NEW i
    PROVE  Here(s, q, p, k, i)' => (Looked(p) \/ Ahead(p, k))'
<1>1. Here(s, q, p, k, i) => Looked(p) \/ Ahead(p, k)  BY SeenHere
<1> QED  BY <1>1, PTL

LEMMA SeenEnter ==
    ASSUME TypeInv, WalkInv, Plain, SeenInv, Enter
    PROVE  SeenInv'
<1> DEFINE f == Frame(Succ, Top.ls)
           L == Len(stack)
<1>1. Enters(f) /\ UNCHANGED input  BY EnterIs
<1>2. Runs' = Runs /\ (\A p : After(p)' = After(p)) /\ (Plain' <=> Plain) /\ succs' = succs
  BY <1>1, RunsStay, PlainStays DEF input
<1>3. /\ stack # <<>> /\ Succ \in Block /\ (\A i \in 1 .. L : stack[i].block # Succ)
      /\ Len(stack') = L + 1 /\ stack'[L + 1] = f /\ (\A i \in 1 .. L : stack'[i] = stack[i])
      /\ seen' = [seen EXCEPT ![Succ] = Top.ls] /\ reports' = reports \cup FrameReports(f)
  BY <1>1 DEF Enters
<1>4. Top.ls \in StateOf(FALSE) /\ L \in Nat /\ L \in 1 .. L /\ Top = stack[L]  BY <1>3, TopIs
<1>5. InputOK /\ seen \in [Block -> State \cup {None}]  BY DEF TypeInv
<1>6. f.block = Succ /\ f.next = 1  BY <1>3, <1>4, <1>5, FrameIs
<1>7. PICK q \in Runs : Last(q) = Succ /\ Fair(Top.ls, After(Front(q)))
  BY <1>1, EnteredRun DEF Plain
<1> SUFFICES ASSUME NEW p \in Runs, NEW k \in 1 .. Len(p),
                    seen'[p[k]] # None, seen'[p[k]].held = After(SubSeq(p, 1, k - 1)).held
             PROVE  Looked(p)' \/ Ahead(p, k)'
  BY <1>2 DEF SeenInv
<1>8. p[k] \in Block /\ Len(p) \in Nat  BY <1>5, PrefixIsRun, RunIs
<1>9. CASE p[k] # Succ
  <2>1. seen'[p[k]] = seen[p[k]]  BY <1>3, <1>5, <1>8, <1>9
  <2>2. Looked(p) \/ Ahead(p, k)  BY <2>1 DEF SeenInv
  <2>3. Looked(p) => Looked(p)'  BY <1>1, <1>3, LookedStays
  <2>4. ASSUME NEW m \in 1 .. Len(p) - 1, NEW i \in 1 .. Len(stack), k <= m, AtPlace(p, m, i)
        PROVE  Ahead(p, k)'
    <3>1. stack'[i] = stack[i] /\ i \in 1 .. Len(stack')  BY <1>3, <1>4
    <3>2. Upon(i - 1)' = Upon(i - 1)
      <4>1. i - 1 = 0 \/ i - 1 \in 1 .. L  BY <1>4
      <4> QED  BY <1>1, <1>3, <4>1 DEF Upon, Start, input
    <3>3. AtPlace(p, m, i)'  BY <1>2, <2>4, <3>1, <3>2 DEF AtPlace
    <3> QED  BY <2>4, <3>1, <3>3 DEF Ahead
  <2> QED  BY <2>2, <2>3, <2>4 DEF Ahead
<1>10. CASE p[k] = Succ
  <2> DEFINE Is(x, n) == x = Top.ls /\ n = L
  <2>1. PICK s, n : Is(s, n)  OBVIOUS
  <2>2. InputOK' /\ Plain'  BY <1>1, <1>2, <1>5, InputStays
  <2>3. q \in Runs' /\ p \in Runs' /\ p[k] = Last(q)  BY <1>2, <1>7, <1>10
  <2>4. s \in StateOf(FALSE) /\ Fair(s, After(Front(q)))'  BY <1>2, <1>4, <1>7, <2>1 DEF Fair
  <2>5. s.held = After(SubSeq(p, 1, k - 1))'.held
    <3>1. seen'[p[k]] = s  BY <1>3, <1>5, <1>8, <1>10, <2>1
    <3> QED  BY <1>2, <3>1
  <2>6. /\ n \in Nat /\ n # 0 /\ n + 1 \in 1 .. Len(stack') /\ (n + 1) - 1 = n
        /\ stack'[n + 1].block = Last(q) /\ stack'[n + 1].next = 1
        /\ stack'[n].ls = s
    <3>1. L # 0 /\ (L + 1) - 1 = L /\ L + 1 \in 1 .. Len(stack')  BY <1>3, <1>4
    <3> QED  BY <1>3, <1>4, <1>6, <1>7, <2>1, <3>1
  <2>7. Upon((n + 1) - 1)' = s  BY <2>6 DEF Upon
  <2>8. FrameReports(Frame(Last(q), s))' \subseteq reports'
    <3>1. FrameReports(Frame(Last(q), s))' = FrameReports(Frame(Last(q), s))
      BY <1>1 DEF FrameReports, Frame, DoBlock, Returns, ReturnFails, input
    <3> QED  BY <1>3, <1>7, <2>1, <3>1
  <2>9. Here(s, q, p, k, n + 1)'
    <3> DEFINE i == n + 1
    <3>1. /\ i \in 1 .. Len(stack') /\ stack'[i].block = Last(q) /\ stack'[i].next = 1
          /\ Upon(i - 1)' = s
      BY <2>6, <2>7
    <3> HIDE DEF i
    <3>2. StateOf(FALSE)' = StateOf(FALSE)  OBVIOUS
    <3>3. Here(s, q, p, k, i)'
      BY <2>2, <2>3, <2>4, <2>5, <2>8, <3>1 DEF Here
    <3> QED  BY <3>3 DEF i
  <2> QED  BY <2>9, SeenHereNext
<1> QED  BY <1>9, <1>10

LEMMA SeenEmpty ==
    ASSUME TypeInv, SeenInv, UNCHANGED input, seen' = seen, reports \subseteq reports',
           \A i \in 1 .. Len(stack) : stack[i].next > Len(succs[stack[i].block])
    PROVE  SeenInv'
<1>1. Runs' = Runs /\ \A p : After(p)' = After(p)  BY RunsStay
<1>2. ASSUME NEW p \in Runs, NEW k \in 1 .. Len(p)  PROVE ~Ahead(p, k)
  <2> SUFFICES ASSUME NEW m \in 1 .. Len(p) - 1, NEW i \in 1 .. Len(stack), AtPlace(p, m, i)
               PROVE  FALSE
    BY DEF Ahead
  <2>1. PICK j \in 1 .. Len(succs[p[m]]) : stack[i].next <= j  BY DEF AtPlace
  <2>2. stack[i].block = p[m]  BY DEF AtPlace
  <2>3. stack[i].next \in Nat /\ Len(succs[p[m]]) \in Nat
    <3>1. stack[i] \in FrameType  BY DEF TypeInv
    <3>2. stack[i].block \in Block  BY <3>1 DEF FrameType
    <3>3. succs \in Shape  BY DEF TypeInv, InputOK
    <3> QED  BY <2>2, <3>1, <3>2, <3>3, SuccsIs DEF FrameType
  <2>4. stack[i].next > Len(succs[p[m]])  BY <2>2
  <2> QED  BY <2>1, <2>3, <2>4
<1>3. ASSUME NEW p \in Runs, NEW k \in 1 .. Len(p),
             seen[p[k]] # None, seen[p[k]].held = After(SubSeq(p, 1, k - 1)).held
      PROVE  Looked(p)'
  <2>1. Looked(p)  BY <1>2, <1>3 DEF SeenInv
  <2> QED  BY <2>1, LookedStays
<1> QED  BY <1>1, <1>3 DEF SeenInv

LEMMA SeenInit ==
    ASSUME Init, Plain
    PROVE  SeenInv
<1> DEFINE f == Frame(Entry, Start)
           q == Way(1)
<1>1. /\ TypeInv /\ stack = <<f>> /\ reports = FrameReports(f)
      /\ seen = [b \in Block |-> IF b = Entry THEN Start ELSE None]
  BY TypeInit
<1>2. InputOK /\ Start \in StateOf(FALSE) /\ Entry \in Block
  BY <1>1, StartIs, GraphIs DEF TypeInv, InputOK
<1>3. Len(stack) = 1 /\ stack[1] = f /\ 1 \in 1 .. Len(stack)  BY <1>1
<1>4. f.block = Entry /\ f.next = 1  BY <1>2, FrameIs
<1>5. q \in Runs /\ Last(q) = Entry /\ Front(q) = <<>>
  <2>1. q \in Runs /\ Last(q) = stack[1].block /\ Front(q) = Way(1 - 1)  BY <1>1, <1>3, WayIsRun
  <2>2. Way(1 - 1) = <<>>  BY DEF Way
  <2> QED  BY <1>3, <1>4, <2>1, <2>2
<1> HIDE DEF q
<1>6. Fair(Start, After(Front(q)))  BY <1>2, <1>5, AfterNothing DEF Fair
<1>7. Upon(1 - 1) = Start  BY DEF Upon
<1>8. FrameReports(Frame(Last(q), Start)) \subseteq reports  BY <1>1, <1>5
<1> HIDE DEF f
<1> SUFFICES ASSUME NEW p \in Runs, NEW k \in 1 .. Len(p),
                    seen[p[k]] # None, seen[p[k]].held = After(SubSeq(p, 1, k - 1)).held
             PROVE  Looked(p) \/ Ahead(p, k)
  BY DEF SeenInv
<1>9. p[k] \in Block  BY <1>2, PrefixIsRun
<1>10. p[k] = Entry /\ seen[p[k]] = Start  BY <1>1, <1>9
<1>11. Here(Start, q, p, k, 1)
  BY <1>2, <1>3, <1>4, <1>5, <1>6, <1>7, <1>8, <1>10 DEF Here
<1> QED  BY <1>11, SeenHere

LEMMA SeenStep ==
    ASSUME TypeInv, WalkInv, Plain, SeenInv, [Next]_vars
    PROVE  SeenInv'
<1>1. CASE Enter  BY <1>1, SeenEnter
<1>2. CASE Skip
  <2> DEFINE n == Len(stack)
             b == succs[stack[n].block][stack[n].next]
  <2>1. /\ stack # <<>> /\ Back(n) /\ UNCHANGED input /\ seen' = seen /\ reports' = reports
        /\ Known(Succ) \/ Succ \in OnStack
    BY <1>2, SkipIs
  <2>2. Top = stack[n] /\ n \in Nat  BY <2>1, TopIs
  <2>3. Succ = b  BY <2>2 DEF Succ
  <2>4. Known(Succ) => seen[b] # None /\ seen[b].held = stack[n].ls.held
    BY <2>2, <2>3 DEF Known, Compatible
  <2>5. \A i \in n + 1 .. n : stack[i].next > Len(succs[stack[i].block])  BY <2>2
  <2> QED  BY <2>1, <2>3, <2>4, <2>5, SeenBack
<1>3. CASE Leave
  <2>1. /\ stack # <<>> /\ Top.next = Len(succs[Top.block]) + 1 /\ UNCHANGED input /\ seen' = seen
        /\ reports \subseteq reports'
    BY <1>3, LeaveIs
  <2>2. /\ Top = stack[Len(stack)] /\ Len(stack) \in Nat /\ Len(stack) \in 1 .. Len(stack)
        /\ succs[Top.block] \in Seq(Block)
    BY <2>1, TopIs
  <2>3. stack[Len(stack)].next > Len(succs[stack[Len(stack)].block])
    <3>1. Len(succs[Top.block]) \in Nat  BY <2>2
    <3>2. Top.next > Len(succs[Top.block])  BY <2>1, <3>1
    <3> QED  BY <2>2, <3>2
  <2>4. CASE Len(stack) = 1
    <3>1. \A i \in 1 .. Len(stack) : i = Len(stack)  BY <2>4
    <3> QED  BY <2>1, <2>3, <3>1, SeenEmpty
  <2>5. CASE Len(stack) # 1
    <3> DEFINE n == Len(stack) - 1
               b == succs[stack[n].block][stack[n].next]
    <3>1. Back(n)  BY <1>3, <2>5, LeaveIs
    <3>9. Len(stack) \in Nat /\ Len(stack) > 0  BY <2>2
    <3>8. Len(stack) \in Nat /\ Len(stack) > 1  BY <2>5, <3>9, OneLess
    <3>2. n + 1 = Len(stack) /\ n \in 1 .. Len(stack) - 1 /\ n # 0 /\ n \in Nat
      BY <2>5, <3>9, OneLess
    <3>3. stack[n + 1].block = b  BY <3>2 DEF TypeInv
    <3>4. seen[stack[n + 1].block] = Upon((n + 1) - 1)  BY <2>2, <3>2 DEF WalkInv
    <3>5. Upon((n + 1) - 1) = stack[n].ls
      <4>1. (n + 1) - 1 = n  BY <3>2
      <4> QED  BY <3>2, <4>1 DEF Upon
    <3>6. stack[n].ls # None /\ seen[b] = stack[n].ls
      <4>1. n \in 1 .. Len(stack)  BY <3>2
      <4>2. stack[n] \in FrameType  BY <4>1 DEF TypeInv
      <4> QED  BY <3>3, <3>4, <3>5, <4>2, NoneAssumption DEF FrameType
    <3>7. \A i \in n + 1 .. Len(stack) : stack[i].next > Len(succs[stack[i].block])
      <4>1. \A i \in n + 1 .. Len(stack) : i = Len(stack)
        <5> HIDE DEF n
        <5> QED  BY <2>2, <3>2
      <4> QED  BY <2>3, <4>1
    <3> HIDE DEF n
    <3> QED  BY <2>1, <3>1, <3>6, <3>7, SeenBack
  <2> QED  BY <2>4, <2>5
<1>4. CASE ScanRecover
  <2>1. /\ stack = <<>> /\ UNCHANGED input /\ seen' = seen /\ reports \subseteq reports'
    BY <1>4, RecoverIs
  <2>2. Len(stack) = 0 /\ ~(\E i \in 1 .. Len(stack) : TRUE)  BY <2>1
  <2> QED  BY <2>1, <2>2, SeenEmpty
<1>5. CASE UNCHANGED vars
  <2>1. UNCHANGED input /\ stack' = stack /\ reports' = reports /\ seen' = seen
    BY <1>5 DEF vars, input
  <2>2. Runs' = Runs /\ (\A p : After(p)' = After(p)) /\ succs' = succs
    BY <2>1, RunsStay DEF input
  <2>3. \A p : Looked(p) => Looked(p)'  BY <2>1, LookedStays
  <2>5. \A i : Upon(i)' = Upon(i)  BY <2>1 DEF Upon, Start, input
  <2>6. ASSUME NEW p, NEW m, NEW i  PROVE AtPlace(p, m, i)' <=> AtPlace(p, m, i)
    BY <2>1, <2>2, <2>5 DEF AtPlace
  <2>4. \A p, k : Ahead(p, k)' <=> Ahead(p, k)  BY <2>1, <2>6 DEF Ahead
  <2> QED  BY <2>1, <2>2, <2>3, <2>4 DEF SeenInv
<1> QED  BY <1>1, <1>2, <1>3, <1>4, <1>5 DEF Next

\* A run whose last block was looked at, without a report, does not go wrong there.
LEMMA LookedIsRight ==
    ASSUME InputOK, Plain, reports = {}, NEW p \in Runs, Looked(p), "call" \notin After(Front(p)).failed
    PROVE  "call" \notin After(p).failed /\ ("return" \in shown => ~ReturnWrong(p))
<1> DEFINE t == After(Front(p))
           s == Fresh(t)
           f == Frame(Last(p), s)
<1>1. t \in StateOf(TRUE) /\ Last(p) \in Block  BY RunIs
<1>2. s \in StateOf(FALSE) /\ Fair(s, t)  BY <1>1, FreshIs DEF Fair
<1> HIDE DEF s
<1>3. FrameReports(f) = {}  BY <1>1, <1>2, SameFrame DEF Looked
<1>4. f.block = Last(p) /\ Fresh(s).failed = {}  BY <1>1, <1>2, FrameIs, FreshIs
<1>5. Follows(Fresh(s), f.ls, t, After(p))  BY <1>2, FrameFollows
<1>6. "changes" \notin After(p).failed  BY DEF Plain, SomeRun
<1> HIDE DEF f
<1>7. "call" \in shown  BY DEF InputOK, Shown, Kinds, Implied
<1>8. "call" \notin f.ls.failed  BY <1>3, <1>7 DEF FrameReports
<1>9. /\ Fair(f.ls, After(p)) /\ "call" \notin After(p).failed
  BY <1>5, <1>6, <1>8 DEF Follows
<1>10. "return" \in shown => ~ReturnFails(Last(p), f.ls)  BY <1>3, <1>4 DEF FrameReports
<1> QED  BY <1>9, <1>10 DEF ReturnFails, ReturnWrong, Fair

LEMMA NothingIsMissed ==
    ASSUME TypeInv, WalkInv, Plain, SeenInv, Done, reports = {}
    PROVE  ~SomeRunWrong
<1>1. InputOK /\ stack = <<>> /\ Len(stack) = 0  BY DEF TypeInv, Done
<1>2. ASSUME NEW p \in Runs  PROVE Looked(p) /\ IsPath(succs, p) /\ Len(p) \in Nat
  <2>7. IsPath(succs, p) /\ Len(p) \in Nat /\ p \in Seq(Block) /\ Len(p) > 0  BY <1>1, RunIs
  <2>1. IsPath(succs, p) /\ 1 \in 1 .. Len(p) /\ Len(p) \in Nat /\ p \in Seq(Block) /\ Len(p) > 0
    BY <2>7
  <2>2. p[1] = Entry  BY <2>1 DEF IsPath, Entry
  <2>3. SubSeq(p, 1, 1 - 1) = <<>>  BY <2>1
  <2>4. seen[p[1]] = Start /\ After(SubSeq(p, 1, 1 - 1)) = Start
    BY <1>1, <2>2, <2>3, AfterNothing DEF WalkInv
  <2>5. Start # None  BY <1>1, StartIs, StateIsOfWalk, NoneAssumption
  <2>6. ~Ahead(p, 1)  BY <1>1 DEF Ahead
  <2> QED  BY <2>1, <2>4, <2>5, <2>6 DEF SeenInv
<1> DEFINE S == {n \in Nat : \A p \in Runs : Len(p) <= n => "call" \notin After(p).failed}
<1>3. 0 \in S
  <2>1. \A p \in Runs : Len(p) \in Nat /\ Len(p) > 0  BY <1>1, RunIs
  <2>2. \A p \in Runs : ~(Len(p) <= 0)  BY <2>1
  <2> QED  BY <2>2
<1>4. ASSUME NEW n \in Nat, n \in S  PROVE n + 1 \in S
  <2> SUFFICES ASSUME NEW p \in Runs, Len(p) = n + 1  PROVE "call" \notin After(p).failed
    BY <1>2, <1>4
  <2>1. "call" \notin After(Front(p)).failed
    <3>1. p \in Seq(Block) /\ Len(p) > 0 /\ Len(p) \in Nat  BY <1>1, RunIs
    <3>2. CASE n = 0
      <4>1. Front(p) = <<>>  BY <3>1, <3>2 DEF Front
      <4> QED  BY <1>1, <4>1, AfterNothing, StartIs
    <3>3. CASE n # 0
      <4>1. n \in 1 .. Len(p) /\ Front(p) = SubSeq(p, 1, n)  BY <3>1, <3>3 DEF Front
      <4>2. Front(p) \in Runs /\ Len(Front(p)) = n  BY <1>1, <4>1, PrefixIsRun
      <4> QED  BY <1>4, <4>2
    <3> QED  BY <3>2, <3>3
  <2> QED  BY <1>1, <1>2, <2>1, LookedIsRight
<1> HIDE DEF S
<1>5. \A n \in Nat : n \in S  BY <1>3, <1>4, NatSetInduction
<1>6. \A p \in Runs : "call" \notin After(p).failed  BY <1>2, <1>5 DEF S
<1>7. ASSUME NEW p \in Runs  PROVE "return" \in shown => ~ReturnWrong(p)
  <2>1. "call" \notin After(Front(p)).failed
    <3>1. p \in Seq(Block) /\ Len(p) > 0 /\ Len(p) \in Nat  BY <1>1, RunIs
    <3>2. CASE Len(p) = 1
      <4>1. Front(p) = <<>>  BY <3>1, <3>2 DEF Front
      <4> QED  BY <1>1, <4>1, AfterNothing, StartIs
    <3>3. CASE Len(p) # 1
      <4>3. Len(p) - 1 \in 1 .. Len(p)  BY <3>1, <3>3, OneLess
      <4>1. Len(p) - 1 \in 1 .. Len(p) /\ Front(p) = SubSeq(p, 1, Len(p) - 1)  BY <4>3 DEF Front
      <4>2. Front(p) \in Runs  BY <1>1, <4>1, PrefixIsRun
      <4> QED  BY <1>6, <4>2
    <3> QED  BY <3>2, <3>3
  <2> QED  BY <1>1, <1>2, <2>1, LookedIsRight
<1> QED  BY <1>6, <1>7 DEF SomeRunWrong, GoesWrong, ReturnWrong, SomeRun

\* Nothing missed: a function that the walk has finished without a report has no run
\* that goes wrong; but for literals that change the locks, for loops that are not
\* entered at their heads, and for runs that get to a block with the same locks and
\* other deferred calls.
THEOREM WalkMissesNothing == Spec => []NothingMissed
<1> DEFINE MissInv == Plain => SeenInv
<1>1. Init => TypeInv /\ WalkInv /\ MissInv  BY TypeInit, WalkInit, SeenInit
<1>2. TypeInv /\ WalkInv /\ MissInv /\ [Next]_vars => (TypeInv /\ WalkInv /\ MissInv)'
  <2> SUFFICES ASSUME TypeInv, WalkInv, MissInv, [Next]_vars
               PROVE  (TypeInv /\ WalkInv /\ MissInv)'
    OBVIOUS
  <2>1. TypeInv' /\ WalkInv'  BY TypeStep, WalkStep
  <2>2. UNCHANGED input
    BY Zenon DEF Next, Enter, Skip, Leave, ScanRecover, vars, input
  <2>3. Plain' <=> Plain  BY <2>2, PlainStays
  <2>4. MissInv'  BY <2>3, SeenStep
  <2> QED  BY <2>1, <2>4
<1>3. TypeInv /\ WalkInv /\ MissInv => NothingMissed
  <2> SUFFICES ASSUME TypeInv, WalkInv, MissInv, Done, reports = {}, SomeRunWrong
               PROVE  Overlooked
    BY DEF NothingMissed
  <2>1. ~Plain  BY NothingIsMissed
  <2> QED  BY <2>1 DEF Plain, Overlooked
<1> QED  BY <1>1, <1>2, <1>3, PTL DEF Spec

-----------------------------------------------------------------------------
(***************************************************************************)
(* The search for lock gaps: the blocks that can be reached past a block   *)
(* are the ends of the runs that do not go through it, so dominance is     *)
(* what it is said to be.                                                  *)
(***************************************************************************)
Avoids(p, d) == \A n \in 1 .. Len(p) : p[n] # d

LEMMA RangeOfSuccs ==
    ASSUME InputOK, NEW x \in Block, NEW y
    PROVE  y \in Range(succs[x]) <=> \E k \in 1 .. Len(succs[x]) : y = succs[x][k]
<1>1. succs[x] \in Seq(Block)  BY SuccsIs DEF InputOK
<1>2. DOMAIN succs[x] = 1 .. Len(succs[x])  BY <1>1
<1> QED  BY <1>2 DEF Range

\* A step from the end of a run that avoids d, to another block than d, is the end of
\* a run that avoids d: the run made longer, or the part of it up to that block.
LEMMA OneMore ==
    ASSUME InputOK, NEW d, NEW p \in Runs, Avoids(p, d), NEW y \in Range(succs[Last(p)]), y # d
    PROVE  \E q \in Runs : Avoids(q, d) /\ Last(q) = y
<1>1. IsPath(succs, p) /\ p \in Seq(Block) /\ Len(p) \in Nat /\ Len(p) > 0 /\ Last(p) \in Block
  BY RunIs
<1>2. PICK k \in 1 .. Len(succs[Last(p)]) : y = succs[Last(p)][k]  BY <1>1, RangeOfSuccs
<1>3. Last(p) = p[Len(p)]  BY DEF Last
<1>4. CASE \E n \in 1 .. Len(p) : p[n] = y
  <2>1. PICK n \in 1 .. Len(p) : p[n] = y  BY <1>4
  <2>2. /\ SubSeq(p, 1, n) \in Runs /\ Last(SubSeq(p, 1, n)) = y /\ Len(SubSeq(p, 1, n)) = n
        /\ \A i \in 1 .. n : SubSeq(p, 1, n)[i] = p[i]
    BY <2>1, PrefixIsRun
  <2>3. \A i \in 1 .. n : i \in 1 .. Len(p)  BY <1>1
  <2> QED  BY <2>2, <2>3 DEF Avoids
<1>5. CASE \A n \in 1 .. Len(p) : p[n] # y
  <2>1. succs \in Shape /\ succs \in Seq(Seq(DOMAIN succs))  BY GraphIs DEF InputOK
  <2>2. k \in 1 .. Len(succs[p[Len(p)]]) /\ y = succs[p[Len(p)]][k]  BY <1>2, <1>3
  <2> DEFINE q == Append(p, y)
  <2>3. IsPath(succs, q) /\ Last(q) = y  BY <1>1, <1>5, <2>1, <2>2, LongerPath
  <2>4. y \in Block  BY <1>1, <1>2, SuccsIs DEF InputOK
  <2>5. \A n \in 1 .. Len(q) : q[n] = y \/ (n \in 1 .. Len(p) /\ q[n] = p[n])
    BY <1>1, <2>4
  <2> HIDE DEF q
  <2>6. Avoids(q, d)  BY <2>5 DEF Avoids
  <2>7. q \in Runs  BY <2>1, <2>3, GraphIs
  <2> QED  BY <2>3, <2>6, <2>7
<1> QED  BY <1>4, <1>5

LEMMA PastIs ==
    ASSUME InputOK, NEW d, NEW b
    PROVE  b \in Past({Entry} \ {d}, d) <=> \E p \in Runs : Last(p) = b /\ Avoids(p, d)
<1> DEFINE Closed(S) == /\ {Entry} \ {d} \subseteq S
                        /\ \A x \in S : Range(succs[x]) \subseteq S \cup {d}
           T == {Last(p) : p \in {q \in Runs : Avoids(q, d)}}
<1>1. Past({Entry} \ {d}, d) = {x \in Block : \A S \in SUBSET Block : Closed(S) => x \in S}
  BY DEF Past
<1>2. T \subseteq Block  BY RunIs
<1>3. Closed(T)
  <2>1. ASSUME Entry # d  PROVE Entry \in T
    <3> DEFINE p == <<Entry>>
    <3>1. succs \in Shape /\ Entry \in Block /\ \A r : r \in Runs <=> IsPath(succs, r)
      BY GraphIs DEF InputOK
    <3>2. p \in Seq(Block) /\ Len(p) = 1 /\ p[1] = 1  BY <3>1 DEF Entry
    <3>3. Last(p) = Entry  BY DEF Last
    <3>4. Avoids(p, d)  BY <2>1 DEF Avoids
    <3> HIDE DEF p
    <3>5. p \in Runs
      <4>1. \A m, n \in 1 .. Len(p) : m = n  BY <3>2
      <4>2. 1 .. Len(p) - 1 = {}  BY <3>2
      <4>3. IsPath(succs, p)  BY <3>2, <4>1, <4>2 DEF IsPath, Block
      <4> QED  BY <3>1, <4>3
    <3> QED  BY <3>3, <3>4, <3>5
  <2>2. ASSUME NEW x \in T, NEW y \in Range(succs[x]), y # d  PROVE y \in T
    <3>1. PICK p \in Runs : Avoids(p, d) /\ Last(p) = x  BY <2>2
    <3>2. \E q \in Runs : Avoids(q, d) /\ Last(q) = y  BY <2>2, <3>1, OneMore
    <3> QED  BY <3>2
  <2> QED  BY <2>1, <2>2
<1>4. ASSUME NEW p \in Runs, Avoids(p, d), NEW S \in SUBSET Block, Closed(S)
      PROVE  Last(p) \in S
  <2>1. IsPath(succs, p) /\ p \in Seq(Block) /\ Len(p) \in Nat /\ Len(p) > 0  BY RunIs
  <2> DEFINE U == {n \in Nat : n + 1 <= Len(p) => p[n + 1] \in S}
  <2>2. 0 \in U
    <3>1. p[1] = Entry /\ 1 \in 1 .. Len(p)  BY <2>1 DEF IsPath, Entry
    <3>2. Entry # d  BY <1>4, <3>1 DEF Avoids
    <3> QED  BY <1>4, <3>1, <3>2
  <2>3. ASSUME NEW n \in Nat, n \in U  PROVE n + 1 \in U
    <3> SUFFICES ASSUME (n + 1) + 1 <= Len(p)  PROVE p[(n + 1) + 1] \in S  OBVIOUS
    <3>1. /\ n + 1 <= Len(p) /\ n + 1 \in 1 .. Len(p) /\ n + 1 \in 1 .. Len(p) - 1
          /\ (n + 1) + 1 \in 1 .. Len(p)
      BY <2>1
    <3>2. p[n + 1] \in S /\ p[n + 1] \in Block  BY <2>1, <2>3, <3>1
    <3>3. \E k \in 1 .. Len(succs[p[n + 1]]) : p[(n + 1) + 1] = succs[p[n + 1]][k]
      BY <2>1, <3>1 DEF IsPath
    <3>4. p[(n + 1) + 1] \in Range(succs[p[n + 1]])  BY <3>2, <3>3, RangeOfSuccs
    <3>5. p[(n + 1) + 1] # d  BY <1>4, <3>1 DEF Avoids
    <3> QED  BY <1>4, <3>2, <3>4, <3>5
  <2> HIDE DEF U
  <2>4. \A n \in Nat : n \in U  BY <2>2, <2>3, NatSetInduction
  <2>5. Len(p) - 1 \in Nat /\ (Len(p) - 1) + 1 = Len(p)  BY <2>1
  <2>6. p[Len(p)] \in S  BY <2>1, <2>4, <2>5 DEF U
  <2> QED  BY <2>6 DEF Last
<1>5. (\E p \in Runs : Last(p) = b /\ Avoids(p, d)) <=> b \in T  OBVIOUS
<1>6. b \in T => b \in Block /\ \A S \in SUBSET Block : Closed(S) => b \in S  BY <1>2, <1>4
<1> HIDE DEF Closed, T
<1> QED  BY <1>1, <1>2, <1>3, <1>5, <1>6

LEMMA OpIs ==
    ASSUME InputOK, NEW o \in Ops
    PROVE  /\ o.block \in Block /\ o.index \in 1 .. Len(code[o.block])
           /\ o.block \in Nat /\ o.index \in Nat /\ o.call = code[o.block][o.index]
           /\ o = [block |-> o.block, index |-> o.index, call |-> o.call] /\ o.call \in Call
<1>1. PICK b \in Block : o \in InstrOf(b)  BY DEF Ops
<1>2. PICK i \in 1 .. Len(code[b]) : o = [block |-> b, index |-> i, call |-> code[b][i]]
  BY <1>1 DEF InstrOf
<1>3. Block \subseteq Nat  BY GraphIs DEF InputOK
<1>4. code[b] \in Seq(Call)  BY DEF InputOK
<1>5. code[b][i] \in Call /\ i \in Nat  BY <1>4
<1> QED  BY <1>2, <1>3, <1>5

\* "Reached from the first on every path that reaches it at all": what the search asks
\* of two lock operations is what it says of the runs.
LEMMA ReachesIs ==
    ASSUME InputOK, NEW rel \in Ops, NEW acq \in Ops
    PROVE  Reaches(rel, acq) <=> \A run \in Runs : Does(run, acq) => Before(run, rel, acq)
<1> DEFINE d == rel.block
           b == acq.block
<1>1. d \in Block /\ b \in Block /\ rel.index \in Nat /\ acq.index \in Nat  BY OpIs
<1>2. CASE d = b
  <2>1. Reaches(rel, acq) <=> rel.index < acq.index  BY <1>2 DEF Reaches
  <2>2. ASSUME NEW run \in Runs, Does(run, acq)
        PROVE  Before(run, rel, acq) <=> rel.index < acq.index
    <3>1. \A m, n \in 1 .. Len(run) : run[m] = run[n] => m = n  BY RunIs DEF IsPath
    <3>2. PICK m \in Places(run, b) : TRUE  BY <2>2 DEF Does
    <3>3. m \in 1 .. Len(run) /\ m \in Nat /\ Places(run, b) = {m}  BY <3>1, <3>2 DEF Places
    <3>4. Before(run, rel, acq) <=> m < m \/ (m = m /\ rel.index < acq.index)
      BY <1>2, <3>3 DEF Before
    <3> QED  BY <3>3, <3>4
  <2>3. \E run \in Runs : Does(run, acq)
    <3>1. \E p \in PathsOf(succs) : Last(p) = b  BY <1>1, ShapeAssumption DEF InputOK, Block
    <3>2. PICK run \in Runs : Last(run) = b  BY <3>1 DEF Runs, RunsOf, InputOK
    <3>3. Len(run) \in Nat /\ Len(run) > 0  BY RunIs
    <3>4. Len(run) \in Places(run, b)  BY <3>2, <3>3 DEF Places, Last
    <3> QED  BY <3>4 DEF Does
  <2> QED  BY <2>1, <2>2, <2>3
<1>3. CASE d # b
  <2>1. Reaches(rel, acq) <=> b \notin Past({Entry} \ {d}, d)  BY <1>3 DEF Reaches, Dominates
  <2>2. Reaches(rel, acq) <=> \A p \in Runs : Last(p) = b => ~Avoids(p, d)  BY <2>1, PastIs
  <2>3. ASSUME NEW run \in Runs, \A p \in Runs : Last(p) = b => ~Avoids(p, d), Does(run, acq)
        PROVE  Before(run, rel, acq)
    <3>1. PICK m \in 1 .. Len(run) : run[m] = b  BY <2>3 DEF Does, Places
    <3>2. /\ SubSeq(run, 1, m) \in Runs /\ Last(SubSeq(run, 1, m)) = b /\ Len(SubSeq(run, 1, m)) = m
          /\ \A i \in 1 .. m : SubSeq(run, 1, m)[i] = run[i]
      BY <3>1, PrefixIsRun
    <3>3. PICK n \in 1 .. m : run[n] = d  BY <2>3, <3>2 DEF Avoids
    <3>4. Len(run) \in Nat  BY RunIs
    <3>5. n # m /\ n \in 1 .. Len(run) /\ n < m  BY <1>3, <3>1, <3>3, <3>4
    <3>6. n \in Places(run, d) /\ m \in Places(run, b)  BY <3>1, <3>3, <3>5 DEF Places
    <3> QED  BY <3>5, <3>6 DEF Before
  <2>4. ASSUME NEW p \in Runs, Last(p) = b, Avoids(p, d)
        PROVE  Does(p, acq) /\ ~Before(p, rel, acq)
    <3>1. Len(p) \in Nat /\ Len(p) > 0  BY RunIs
    <3>2. Len(p) \in Places(p, b)  BY <2>4, <3>1 DEF Places, Last
    <3>3. Places(p, d) = {}  BY <2>4 DEF Places, Avoids
    <3> QED  BY <3>2, <3>3 DEF Does, Before
  <2> QED  BY <2>2, <2>3, <2>4
<1> QED  BY <1>2, <1>3

\* The operations are taken one after the other, each once.
LEMMA FirstIs ==
    ASSUME InputOK, NEW ops \in SUBSET Ops, ops # {}
    PROVE  First(ops) \in ops
<1> DEFINE Blocks == {o.block : o \in ops}
<1>1. Blocks \in SUBSET Nat /\ Blocks # {}  BY OpIs
<1>2. PICK b \in Blocks : \A c \in Blocks : b <= c
  <2> HIDE DEF Blocks
  <2> QED  BY <1>1, LeastNat
<1> DEFINE Indices == {o.index : o \in {p \in ops : p.block = b}}
<1>3. Indices \in SUBSET Nat /\ Indices # {}  BY <1>2, OpIs
<1>4. PICK i \in Indices : \A j \in Indices : i <= j
  <2> HIDE DEF Indices
  <2> QED  BY <1>3, LeastNat
<1>5. PICK o \in ops : o.block = b /\ o.index = i  BY <1>4
<1>6. ASSUME NEW p \in ops \ {o}  PROVE Earlier(o, p)
  <2>1. /\ p.block \in Nat /\ o.block \in Nat /\ p.index \in Nat /\ o.index \in Nat
        /\ p.call = code[p.block][p.index] /\ o.call = code[o.block][o.index]
        /\ p = [block |-> p.block, index |-> p.index, call |-> p.call]
        /\ o = [block |-> o.block, index |-> o.index, call |-> o.call]
    BY OpIs
  <2>2. p.block # o.block \/ p.index # o.index  BY <1>6, <2>1
  <2>3. o.block <= p.block  BY <1>2, <1>5, <1>6
  <2>4. p.block = o.block => o.index <= p.index  BY <1>4, <1>5, <1>6
  <2> QED  BY <2>1, <2>2, <2>3, <2>4 DEF Earlier
<1>7. \E x \in ops : \A p \in ops \ {x} : Earlier(x, p)  BY <1>6
<1> QED  BY <1>7 DEF First

-----------------------------------------------------------------------------
(***************************************************************************)
(* The reports are the verdicts on the releases looked at.                 *)
(***************************************************************************)
GapInv == /\ todo \subseteq Ops
          /\ gaps = UNION {Verdict(rel) : rel \in {o \in Ops \ todo : IsRelease(o.call)}}

\* A verdict is about its release, and names an acquisition if there is one.
LEMMA VerdictIs ==
    ASSUME NEW rel
    PROVE  /\ \A g \in Verdict(rel) : g.rel = rel /\ (g.kind # "ends" <=> Again(rel) # {})
           /\ Again(rel) # {} => Verdict(rel) # {}
           /\ rel.call.entry \subseteq HeldOnEntry => Verdict(rel) # {}
<1> DEFINE caller == rel.call.entry \subseteq HeldOnEntry
<1>1. CASE Again(rel) # {}
  <2> DEFINE kind == IF caller THEN "split" ELSE "gap"
             g == GapReport(kind, rel, First(Again(rel)))
  <2>1. Verdict(rel) = {g}  BY <1>1 DEF Verdict
  <2>2. kind # "ends"  OBVIOUS
  <2> HIDE DEF kind
  <2>3. g.rel = rel /\ g.kind = kind  BY DEF GapReport
  <2> HIDE DEF g
  <2> QED  BY <1>1, <2>1, <2>2, <2>3
<1>2. CASE Again(rel) = {}
  <2> DEFINE g == GapReport("ends", rel, None)
  <2>1. Verdict(rel) = IF caller THEN {g} ELSE {}  BY <1>2 DEF Verdict
  <2>2. g.rel = rel /\ g.kind = "ends"  BY DEF GapReport
  <2> HIDE DEF g
  <2> QED  BY <1>2, <2>1, <2>2
<1> QED  BY <1>1, <1>2

\* The operations, and the verdicts on them, are those of the function.
LEMMA VerdictsStay ==
    ASSUME UNCHANGED input
    PROVE  Ops' = Ops /\ \A rel : Verdict(rel)' = Verdict(rel)
<1>1. succs' = succs /\ code' = code /\ facts' = facts  BY DEF input
<1>2. Ops' = Ops  BY <1>1 DEF Ops, Block, InstrOf
<1>3. ASSUME NEW from, NEW d  PROVE Past(from, d)' = Past(from, d)  BY <1>1 DEF Past, Block
<1>4. ASSUME NEW rel  PROVE Verdict(rel)' = Verdict(rel)
  <2>1. ASSUME NEW acq  PROVE Reaches(rel, acq)' <=> Reaches(rel, acq)
    BY <1>3 DEF Reaches, Dominates
  <2>2. Again(rel)' = Again(rel)  BY <1>2, <2>1 DEF Again
  <2>3. HeldOnEntry' = HeldOnEntry  BY <1>1 DEF HeldOnEntry
  <2> QED  BY <2>2, <2>3 DEF Verdict
<1> QED  BY <1>2, <1>4

LEMMA GapStep ==
    ASSUME TypeInv, GapInv, [GapNext]_gapVars
    PROVE  TypeInv' /\ GapInv'
<1>1. [Next]_vars  BY Zenon DEF GapNext, Walk, CheckRelease, gapVars, vars, input
<1>2. TypeInv'  BY <1>1, TypeStep
<1>3. UNCHANGED input
  BY <1>1, Zenon DEF Next, Enter, Skip, Leave, ScanRecover, vars, input
<1>4. Ops' = Ops /\ \A rel : Verdict(rel)' = Verdict(rel)  BY <1>3, VerdictsStay
<1>5. CASE UNCHANGED <<todo, gaps>>
  <2>1. todo' = todo /\ gaps' = gaps  BY <1>5
  <2> QED  BY <1>2, <1>4, <2>1 DEF GapInv
<1>6. CASE CheckRelease
  <2> DEFINE o == First(todo)
  <2>1. o \in todo /\ o \in Ops
    <3>1. InputOK /\ todo \subseteq Ops /\ todo # {}  BY <1>6 DEF TypeInv, GapInv, CheckRelease
    <3> QED  BY <3>1, FirstIs
  <2>2. todo' = todo \ {o} /\ gaps' = gaps \cup IF IsRelease(o.call) THEN Verdict(o) ELSE {}
    BY <1>6 DEF CheckRelease
  <2> HIDE DEF o
  <2>3. Ops \ todo' = (Ops \ todo) \cup {o}  BY <2>1, <2>2
  <2>4. gaps' = UNION {Verdict(rel) : rel \in {x \in Ops \ todo' : IsRelease(x.call)}}
    BY <2>2, <2>3 DEF GapInv
  <2>5. todo' \subseteq Ops  BY <2>2 DEF GapInv
  <2> QED  BY <1>2, <1>4, <2>4, <2>5 DEF GapInv
<1>7. UNCHANGED <<todo, gaps>> \/ CheckRelease
  BY Zenon DEF GapNext, Walk, gapVars
<1> QED  BY <1>5, <1>6, <1>7

LEMMA GapInvIsInvariant == GapSpec => [](TypeInv /\ GapInv)
<1>1. GapInit => TypeInv /\ GapInv  BY TypeInit DEF GapInit, GapInv
<1>2. TypeInv /\ GapInv /\ [GapNext]_gapVars => (TypeInv /\ GapInv)'  BY GapStep
<1> QED  BY <1>1, <1>2, PTL DEF GapSpec

\* A release is reported as followed by an acquisition of its lock exactly when some
\* acquisition of it is made in no run of the function without the release before it:
\* the dominator tree that the analyzer asks gives the answer that the paths do.
THEOREM GapsAreOnEveryPath == GapSpec => []GapIsOnEveryPath
<1>1. ASSUME TypeInv, GapInv  PROVE GapIsOnEveryPath
  <2> SUFFICES ASSUME AllDone, NEW rel \in Ops, IsRelease(rel.call)
               PROVE  (\E g \in gaps : g.rel = rel /\ g.kind # "ends") <=>
                      \E acq \in Ops : /\ IsAcquire(acq.call) /\ acq.call.exit = rel.call.entry
                                       /\ \A run \in Runs : Does(run, acq) => Before(run, rel, acq)
    BY DEF GapIsOnEveryPath
  <2>1. gaps = UNION {Verdict(r) : r \in {o \in Ops : IsRelease(o.call)}}
    BY <1>1 DEF GapInv, AllDone
  <2>2. (\E g \in gaps : g.rel = rel /\ g.kind # "ends") <=> Again(rel) # {}
    BY <2>1, VerdictIs
  <2>3. InputOK  BY <1>1 DEF TypeInv
  <2>4. Again(rel) = {acq \in Ops : /\ IsAcquire(acq.call) /\ acq.call.exit = rel.call.entry
                                    /\ \A run \in Runs : Does(run, acq) => Before(run, rel, acq)}
    BY <2>3, ReachesIs DEF Again
  <2> QED  BY <2>2, <2>4
<1>2. TypeInv /\ GapInv => GapIsOnEveryPath  BY <1>1
<1> QED  BY <1>2, GapInvIsInvariant, PTL

-----------------------------------------------------------------------------
(***************************************************************************)
(* The caller's critical section.                                          *)
(***************************************************************************)
\* No instruction of the function gives the lock up, but for a deferred one.
Keeps(c, l) == c.deferred \/ (c.body = None /\ l \notin c.entry \ c.exit)
KeptIn(b, l) == \A i \in 1 .. Len(code[b]) : Keeps(code[b][i], l)

LEMMA OneKeeps ==
    ASSUME NEW t \in StateOf(TRUE), NEW c \in Call, NEW l \in t.held, Keeps(c, l)
    PROVE  l \in DoOne(t, c, TRUE).held
<1>1. CASE c.deferred
  <2>1. DoOne(t, c, TRUE) = [t EXCEPT !.defers = Append(@, c)]  BY <1>1 DEF DoOne
  <2>2. t = [held |-> t.held, defers |-> t.defers, failed |-> t.failed]  BY StateParts
  <2> QED  BY <2>1, <2>2
<1>2. CASE ~c.deferred
  <2>1. c.body = None /\ l \notin c.entry \ c.exit  BY <1>2 DEF Keeps
  <2>2. c \in Annotated  BY <2>1, CallKinds
  <2>3. DoOne(t, c, TRUE) = DoAnnotated(t, c)  BY <1>2, <2>1 DEF DoOne, DoCall
  <2>4. DoAnnotated(t, c).held = (t.held \ (c.entry \ c.exit)) \cup (c.exit \ c.entry)
    BY <2>2, AnnotatedIs
  <2> QED  BY <2>1, <2>3, <2>4
<1> QED  BY <1>1, <1>2

LEMMA CallsKeep ==
    ASSUME NEW t \in StateOf(TRUE), NEW calls \in Seq(Call), NEW l \in t.held,
           \A i \in 1 .. Len(calls) : Keeps(calls[i], l)
    PROVE  DoCalls(t, calls, TRUE) \in StateOf(TRUE) /\ l \in DoCalls(t, calls, TRUE).held
<1>1. PICK after \in [0 .. Len(calls) -> StateOf(TRUE)] :
          CallsSteps(t, calls, TRUE, after) /\ DoCalls(t, calls, TRUE) = after[Len(calls)]
  BY CallsIs
<1> DEFINE N == Len(calls)
           S == {n \in Nat : n <= N => l \in after[n].held}
<1>2. N \in Nat /\ N \in 0 .. N /\ \A n \in 1 .. N : calls[n] \in Call  OBVIOUS
<1>3. 0 \in S  BY <1>1 DEF CallsSteps
<1>4. \A n \in Nat : n \in S => n + 1 \in S
  <2> SUFFICES ASSUME NEW n \in Nat, n + 1 <= N, l \in after[n].held
               PROVE  l \in after[n + 1].held
    BY <1>2
  <2>1. n + 1 \in 1 .. N /\ (n + 1) - 1 = n /\ n \in 0 .. N  BY <1>2
  <2>2. after[n + 1] = DoOne(after[n], calls[n + 1], TRUE)  BY <1>1, <2>1 DEF CallsSteps
  <2>3. after[n] \in StateOf(TRUE) /\ calls[n + 1] \in Call /\ Keeps(calls[n + 1], l)
    BY <1>1, <1>2, <2>1
  <2> QED  BY <2>2, <2>3, OneKeeps
<1> HIDE DEF S
<1>5. N \in S  BY <1>2, <1>3, <1>4, NatSetInduction
<1> QED  BY <1>1, <1>2, <1>5 DEF S

\* A block that a run goes on from does not return, so it runs no deferred calls.
LEMMA RunsKeep ==
    ASSUME InputOK, NEW l \in facts.entry, NEW p \in Runs,
           \A n \in 1 .. Len(p) - 1 : KeptIn(p[n], l)
    PROVE  l \in After(Front(p)).held
<1>1. IsPath(succs, p) /\ p \in Seq(Block) /\ Len(p) \in Nat /\ Len(p) > 0  BY RunIs
<1> DEFINE S == {n \in Nat : n + 1 <= Len(p) => l \in After(SubSeq(p, 1, n)).held}
<1>2. 0 \in S
  <2>1. SubSeq(p, 1, 0) = <<>>  BY <1>1
  <2>2. Start.held = facts.entry  BY StartIs
  <2> QED  BY <2>1, <2>2, AfterNothing
<1>3. ASSUME NEW n \in Nat, n \in S  PROVE n + 1 \in S
  <2> SUFFICES ASSUME (n + 1) + 1 <= Len(p)  PROVE l \in After(SubSeq(p, 1, n + 1)).held
    OBVIOUS
  <2>1. n + 1 <= Len(p) /\ n + 1 \in 1 .. Len(p) /\ n + 1 \in 1 .. Len(p) - 1 /\ (n + 1) - 1 = n
    BY <1>1
  <2> DEFINE q == SubSeq(p, 1, n + 1)
             t == After(SubSeq(p, 1, n))
             b == p[n + 1]
  <2>2. q \in Runs /\ Last(q) = b /\ Front(q) = SubSeq(p, 1, n) /\ b \in Block
    BY <2>1, PrefixIsRun
  <2>3. After(q) = DoBlock(t, b, TRUE) /\ t \in StateOf(TRUE)  BY <2>2, RunIs
  <2>4. l \in t.held  BY <1>3, <2>1
  <2>5. ~Returns(b)
    <3>1. \E k \in 1 .. Len(succs[b]) : p[(n + 1) + 1] = succs[b][k]  BY <1>1, <2>1 DEF IsPath
    <3> QED  BY <3>1 DEF Returns
  <2> HIDE DEF q, t, b
  <2>6. After(q) = DoCalls(t, code[b], TRUE)  BY <2>3, <2>5 DEF DoBlock
  <2>7. code[b] \in Seq(Call) /\ \A i \in 1 .. Len(code[b]) : Keeps(code[b][i], l)
    BY <2>1, <2>2 DEF InputOK, KeptIn, b
  <2>8. l \in After(q).held  BY <2>3, <2>4, <2>6, <2>7, CallsKeep
  <2> QED  BY <2>8 DEF q
<1> HIDE DEF S
<1>4. Len(p) - 1 \in Nat /\ (Len(p) - 1) + 1 = Len(p)  BY <1>1
<1>5. Len(p) - 1 \in S  BY <1>2, <1>3, <1>4, NatSetInduction
<1> QED  BY <1>1, <1>4, <1>5 DEF S, Front

\* What is not reported is not given up: every Unlock of such a lock is a release that
\* there would be a report on.
LEMMA NotReportedIsKept ==
    ASSUME InputOK, GapInv, todo = {}, gaps = {}, OnlyLocks, NEW l \in facts.entry \cap facts.exit
    PROVE  \A b \in Block : KeptIn(b, l)
<1> SUFFICES ASSUME NEW b \in Block, NEW i \in 1 .. Len(code[b]), ~Keeps(code[b][i], l)
             PROVE  FALSE
  BY DEF KeptIn
<1> DEFINE c == code[b][i]
           o == [block |-> b, index |-> i, call |-> c]
<1>1. c.body = None /\ ~c.deferred /\ l \in c.entry \ c.exit  BY DEF Keeps, OnlyLocks
<1>2. c.entry = {l} /\ c.exit = {}  BY <1>1 DEF OnlyLocks
<1>3. IsRelease(c)  BY <1>1, <1>2 DEF IsRelease
<1>4. o \in Ops  BY <1>3 DEF Ops, InstrOf
<1> HIDE DEF c
<1>5. o.call = c  OBVIOUS
<1> HIDE DEF o
<1>6. Verdict(o) # {}  BY <1>2, <1>5, VerdictIs DEF HeldOnEntry
<1>7. o \in {x \in Ops \ todo : IsRelease(x.call)}  BY <1>3, <1>4, <1>5
<1>8. Verdict(o) \subseteq gaps  BY <1>7 DEF GapInv
<1> QED  BY <1>6, <1>8

\* In a function that the search for gaps does not report, no run gives up a lock that
\* the function is called with and is to return with, until it runs its deferred calls.
THEOREM UnreportedSectionIsWhole == GapSpec => []SectionIsWhole
<1>1. ASSUME TypeInv, GapInv  PROVE SectionIsWhole
  <2> SUFFICES ASSUME AllDone, gaps = {}, OnlyLocks, NEW run \in Runs,
                      NEW n \in 0 .. Len(code[Last(run)]), NEW l \in facts.entry \cap facts.exit
               PROVE  l \in HeldAfter(run, n)
    BY DEF SectionIsWhole
  <2>1. InputOK  BY <1>1 DEF TypeInv
  <2>2. \A x \in Block : KeptIn(x, l)  BY <1>1, <2>1, NotReportedIsKept DEF AllDone
  <2> DEFINE b == Last(run)
             t == After(Front(run))
             calls == SubSeq(code[b], 1, n)
  <2>3. b \in Block /\ t \in StateOf(TRUE)  BY <2>1, RunIs
  <2>4. l \in t.held
    <3>1. run \in Seq(Block) /\ Len(run) \in Nat  BY <2>1, RunIs
    <3>2. \A i \in 1 .. Len(run) - 1 : KeptIn(run[i], l)  BY <2>2, <3>1
    <3> QED  BY <2>1, <3>2, RunsKeep
  <2>5. code[b] \in Seq(Call) /\ Len(code[b]) \in Nat  BY <2>1, <2>3 DEF InputOK
  <2> HIDE DEF b
  <2>6. n \in 0 .. Len(code[b])  BY DEF b
  <2>7. /\ calls \in Seq(Call)
        /\ \A i \in 1 .. Len(calls) : i \in 1 .. Len(code[b]) /\ calls[i] = code[b][i]
    BY <2>5, <2>6
  <2> HIDE DEF calls, t
  <2>8. \A i \in 1 .. Len(calls) : Keeps(calls[i], l)  BY <2>2, <2>3, <2>7 DEF KeptIn
  <2>9. l \in DoCalls(t, calls, TRUE).held  BY <2>3, <2>4, <2>7, <2>8, CallsKeep
  <2> QED  BY <2>9 DEF HeldAfter, t, calls, b
<1>2. TypeInv /\ GapInv => SectionIsWhole  BY <1>1
<1> QED  BY <1>2, GapInvIsInvariant, PTL

-----------------------------------------------------------------------------
(***************************************************************************)
(* A lock that nothing takes is not held again once it was given up, by    *)
(* the deferred calls either.                                              *)
(***************************************************************************)
Lacks(c, l) == c.body = None /\ l \notin c.exit \ c.entry
Drops(c, l) == ~c.deferred /\ l \in c.entry \ c.exit
Clean(t, l) == \A i \in 1 .. Len(t.defers) : Lacks(t.defers[i], l)

LEMMA AnnotatedLacks ==
    ASSUME NEW t \in StateOf(TRUE), NEW c \in Call, NEW l, Lacks(c, l), NEW rest
    PROVE  /\ DoCall(t, c, rest, TRUE) = DoAnnotated(t, c) /\ DoAnnotated(t, c) \in StateOf(TRUE)
           /\ DoAnnotated(t, c).defers = t.defers
           /\ l \notin t.held \/ l \in c.entry \ c.exit => l \notin DoAnnotated(t, c).held
<1>1. c.body = None /\ l \notin c.exit \ c.entry  BY DEF Lacks
<1>2. c \in Annotated  BY <1>1, CallKinds
<1>3. DoCall(t, c, rest, TRUE) = DoAnnotated(t, c)  BY <1>1 DEF DoCall
<1>4. /\ DoAnnotated(t, c) \in StateOf(TRUE) /\ DoAnnotated(t, c).defers = t.defers
      /\ DoAnnotated(t, c).held = (t.held \ (c.entry \ c.exit)) \cup (c.exit \ c.entry)
  BY <1>2, AnnotatedIs
<1> QED  BY <1>1, <1>3, <1>4

LEMMA OneLacks ==
    ASSUME NEW t \in StateOf(TRUE), NEW c \in Call, NEW l, Lacks(c, l), Clean(t, l)
    PROVE  LET u == DoOne(t, c, TRUE)
           IN  Clean(u, l) /\ (l \notin t.held \/ Drops(c, l) => l \notin u.held)
<1> DEFINE u == DoOne(t, c, TRUE)
<1>1. CASE c.deferred
  <2> DEFINE d == Append(t.defers, c)
  <2>1. u = [t EXCEPT !.defers = d]  BY <1>1 DEF DoOne
  <2>2. t = [held |-> t.held, defers |-> t.defers, failed |-> t.failed] /\ t.defers \in Seq(Call)
    BY StateParts
  <2>3. Len(t.defers) \in Nat /\ Len(d) = Len(t.defers) + 1
        /\ (\A i \in 1 .. Len(t.defers) : d[i] = t.defers[i]) /\ d[Len(t.defers) + 1] = c
    BY <2>2
  <2> HIDE DEF d, u
  <2>4. u.held = t.held /\ u.defers = d  BY <2>1, <2>2
  <2>5. \A i \in 1 .. Len(d) : i \in 1 .. Len(t.defers) \/ i = Len(t.defers) + 1  BY <2>3
  <2>6. Clean(u, l)  BY <2>3, <2>4, <2>5 DEF Clean
  <2>7. ~Drops(c, l)  BY <1>1 DEF Drops
  <2> QED  BY <2>4, <2>6, <2>7 DEF u
<1>2. CASE ~c.deferred
  <2>1. u = DoAnnotated(t, c)  BY <1>2, AnnotatedLacks DEF DoOne
  <2> HIDE DEF u
  <2>2. u.defers = t.defers /\ (l \notin t.held \/ l \in c.entry \ c.exit => l \notin u.held)
    BY <2>1, AnnotatedLacks
  <2> QED  BY <2>2 DEF Clean, Drops, u
<1> QED  BY <1>1, <1>2

LEMMA CallsLack ==
    ASSUME NEW t \in StateOf(TRUE), NEW calls \in Seq(Call), NEW l, Clean(t, l),
           \A i \in 1 .. Len(calls) : Lacks(calls[i], l)
    PROVE  LET u == DoCalls(t, calls, TRUE)
           IN  /\ u \in StateOf(TRUE) /\ Clean(u, l)
               /\ l \notin t.held \/ (\E i \in 1 .. Len(calls) : Drops(calls[i], l)) => l \notin u.held
<1>1. PICK after \in [0 .. Len(calls) -> StateOf(TRUE)] :
          CallsSteps(t, calls, TRUE, after) /\ DoCalls(t, calls, TRUE) = after[Len(calls)]
  BY CallsIs
<1> DEFINE N == Len(calls)
           Out(n) == l \notin t.held \/ \E i \in 1 .. n : Drops(calls[i], l)
           S == {n \in Nat : n <= N => Clean(after[n], l) /\ (Out(n) => l \notin after[n].held)}
<1>2. N \in Nat /\ N \in 0 .. N /\ \A n \in 1 .. N : calls[n] \in Call  OBVIOUS
<1>3. 0 \in S
  <2>1. after[0] = t  BY <1>1 DEF CallsSteps
  <2> QED  BY <2>1
<1>4. \A n \in Nat : n \in S => n + 1 \in S
  <2> SUFFICES ASSUME NEW n \in Nat, n \in S, n + 1 <= N
               PROVE  Clean(after[n + 1], l) /\ (Out(n + 1) => l \notin after[n + 1].held)
    BY <1>2
  <2>1. n + 1 \in 1 .. N /\ (n + 1) - 1 = n /\ n \in 0 .. N /\ n <= N  BY <1>2
  <2>2. after[n + 1] = DoOne(after[n], calls[n + 1], TRUE)  BY <1>1, <2>1 DEF CallsSteps
  <2>3. after[n] \in StateOf(TRUE) /\ calls[n + 1] \in Call /\ Lacks(calls[n + 1], l)
    BY <1>1, <1>2, <2>1
  <2>4. Clean(after[n], l) /\ (Out(n) => l \notin after[n].held)  BY <2>1
  <2>5. Out(n + 1) => Out(n) \/ Drops(calls[n + 1], l)
    <3>1. \A i \in 1 .. n + 1 : i \in 1 .. n \/ i = n + 1  OBVIOUS
    <3> QED  BY <3>1
  <2> HIDE DEF Out
  <2> QED  BY <2>2, <2>3, <2>4, <2>5, OneLacks
<1> HIDE DEF S
<1>5. N \in S  BY <1>2, <1>3, <1>4, NatSetInduction
<1> QED  BY <1>1, <1>2, <1>5 DEF S

LEMMA RanLacks ==
    ASSUME NEW defers \in Seq(Call), NEW l, \A i \in 1 .. Len(defers) : Lacks(defers[i], l)
    PROVE  \A h \in SUBSET Lock : l \notin h => l \notin Ran(defers, TRUE)[h].held
<1>1. PICK ran \in [0 .. Len(defers) -> RestOf(TRUE)] :
          RanSteps(defers, TRUE, ran) /\ Ran(defers, TRUE) = ran[Len(defers)]
  BY RanIs
<1> DEFINE N == Len(defers)
           S == {n \in Nat : n <= N => \A h \in SUBSET Lock : l \notin h => l \notin ran[n][h].held}
<1>2. N \in Nat /\ N \in 0 .. N /\ 0 \in 0 .. N /\ \A n \in 1 .. N : defers[n] \in Call  OBVIOUS
<1>3. 0 \in S
  <2>1. \A h \in SUBSET Lock : ran[0][h] = Bare(defers, 0, h)  BY <1>1 DEF RanSteps
  <2>2. \A h \in SUBSET Lock : ran[0][h].held = h  BY <2>1 DEF Bare
  <2> QED  BY <2>2
<1>4. ASSUME NEW n \in Nat, n \in S  PROVE n + 1 \in S
  <2> SUFFICES ASSUME n + 1 <= N, NEW h \in SUBSET Lock, l \notin h
               PROVE  l \notin ran[n + 1][h].held
    OBVIOUS
  <2>0. \A k \in SUBSET Lock : l \notin k => l \notin ran[n][k].held  BY <1>2, <1>4
  <2> HIDE DEF S
  <2>1. n + 1 \in 1 .. N /\ n + 1 \in 0 .. N /\ (n + 1) - 1 = n /\ n \in 0 .. N /\ n <= N
    BY <1>2
  <2> DEFINE s == Bare(defers, n + 1, h)
             c == defers[n + 1]
             w == DoCall(s, c, ran[n], TRUE)
  <2>2. ran[n + 1][h] = Then(w, ran[n])  BY <1>1, <2>1 DEF RanSteps
  <2>3. s \in StateOf(TRUE) /\ s.held = h  BY <2>1, BareIs
  <2>4. c \in Call /\ Lacks(c, l)  BY <1>2, <2>1
  <2> HIDE DEF s, c
  <2>5. w \in StateOf(TRUE) /\ l \notin w.held  BY <2>3, <2>4, AnnotatedLacks
  <2> HIDE DEF w
  <2>6. ran[n] \in RestOf(TRUE)  BY <1>1, <2>1
  <2>7. Then(w, ran[n]).held = ran[n][w.held].held  BY <2>5, <2>6, ThenIs
  <2>8. w.held \in SUBSET Lock  BY <2>5, StateParts
  <2> QED  BY <2>0, <2>2, <2>5, <2>7, <2>8
<1> HIDE DEF S
<1>5. N \in S  BY <1>2, <1>3, <1>4, NatSetInduction
<1> QED  BY <1>1, <1>2, <1>5 DEF S

LEMMA BlockLacks ==
    ASSUME NEW t \in StateOf(TRUE), NEW b, code[b] \in Seq(Call), NEW l, Clean(t, l),
           \A i \in 1 .. Len(code[b]) : Lacks(code[b][i], l)
    PROVE  LET u == DoBlock(t, b, TRUE)
           IN  /\ Clean(u, l)
               /\ l \notin t.held \/ (\E i \in 1 .. Len(code[b]) : Drops(code[b][i], l)) => l \notin u.held
<1> DEFINE w == DoCalls(t, code[b], TRUE)
           u == DoBlock(t, b, TRUE)
           Out == l \notin t.held \/ \E i \in 1 .. Len(code[b]) : Drops(code[b][i], l)
<1>1. w \in StateOf(TRUE) /\ Clean(w, l) /\ (Out => l \notin w.held)  BY CallsLack
<1>2. u = IF Returns(b) THEN RunDefers(w, TRUE) ELSE w  BY DEF DoBlock
<1> HIDE DEF w, u, Out
<1>3. CASE ~Returns(b)  BY <1>1, <1>2, <1>3 DEF u, Out
<1>4. CASE Returns(b)
  <2> DEFINE rest == Ran(w.defers, TRUE)
  <2>1. w.defers \in Seq(Call) /\ w.held \in SUBSET Lock  BY <1>1, StateParts
  <2>2. rest \in RestOf(TRUE)  BY <2>1, RanIsTyped
  <2>3. l \notin w.held => l \notin rest[w.held].held  BY <1>1, <2>1, RanLacks DEF Clean
  <2>4. u.held = Then(w, rest).held /\ u.defers = <<>>  BY <1>1, <1>2, <1>4, RunDefersIs
  <2> HIDE DEF rest
  <2>5. Then(w, rest).held = rest[w.held].held  BY <1>1, <2>2, ThenIs
  <2>6. Clean(u, l)  BY <2>4 DEF Clean
  <2> QED  BY <1>1, <2>3, <2>4, <2>5, <2>6 DEF u, Out
<1> QED  BY <1>3, <1>4

\* A run through a block that gives the lock up ends without it.
LEMMA RunLacks ==
    ASSUME InputOK, NEW l, \A b \in Block : \A i \in 1 .. Len(code[b]) : Lacks(code[b][i], l),
           NEW p \in Runs, NEW m \in 1 .. Len(p), NEW i \in 1 .. Len(code[p[m]]), Drops(code[p[m]][i], l)
    PROVE  l \notin After(p).held
<1>1. p \in Seq(Block) /\ Len(p) \in Nat /\ Len(p) > 0  BY RunIs
<1> DEFINE S == {n \in Nat : n <= Len(p) => LET u == After(SubSeq(p, 1, n))
                                           IN  Clean(u, l) /\ (m <= n => l \notin u.held)}
<1>2. 0 \in S
  <2>1. SubSeq(p, 1, 0) = <<>> /\ ~(m <= 0)  BY <1>1
  <2>2. After(<<>>).defers = <<>>  BY AfterNothing, StartIs
  <2>3. Clean(After(<<>>), l)  BY <2>2 DEF Clean
  <2>4. Clean(After(SubSeq(p, 1, 0)), l)  BY <2>1, <2>3
  <2> QED  BY <2>1, <2>4
<1>3. ASSUME NEW n \in Nat, n \in S  PROVE n + 1 \in S
  <2> SUFFICES ASSUME n + 1 <= Len(p)
               PROVE  LET u == After(SubSeq(p, 1, n + 1))
                      IN  Clean(u, l) /\ (m <= n + 1 => l \notin u.held)
    OBVIOUS
  <2>1. n + 1 \in 1 .. Len(p) /\ (n + 1) - 1 = n /\ n <= Len(p)  BY <1>1
  <2> DEFINE q == SubSeq(p, 1, n + 1)
             t == After(SubSeq(p, 1, n))
             u == After(q)
             b == p[n + 1]
  <2>2. q \in Runs /\ Last(q) = b /\ Front(q) = SubSeq(p, 1, n) /\ b \in Block
    BY <2>1, PrefixIsRun
  <2>3. u = DoBlock(t, b, TRUE) /\ t \in StateOf(TRUE)  BY <2>2, RunIs
  <2>4. Clean(t, l) /\ (m <= n => l \notin t.held)  BY <1>3, <2>1
  <2>5. code[b] \in Seq(Call) /\ \A j \in 1 .. Len(code[b]) : Lacks(code[b][j], l)
    BY <2>2 DEF InputOK
  <2>6. m <= n + 1 => m <= n \/ (m = n + 1 /\ \E j \in 1 .. Len(code[b]) : Drops(code[b][j], l))
    BY <1>1
  <2> HIDE DEF q, t, u, b
  <2>7. Clean(u, l)  BY <2>3, <2>4, <2>5, BlockLacks
  <2>8. l \notin t.held \/ (\E j \in 1 .. Len(code[b]) : Drops(code[b][j], l)) => l \notin u.held
    BY <2>3, <2>4, <2>5, BlockLacks
  <2>9. m <= n + 1 => l \notin u.held  BY <2>4, <2>6, <2>8
  <2> QED  BY <2>7, <2>9 DEF u, q
<1> HIDE DEF S
<1>4. Len(p) \in S  BY <1>1, <1>2, <1>3, NatSetInduction
<1>5. SubSeq(p, 1, Len(p)) = p /\ m <= Len(p) /\ Len(p) <= Len(p)  BY <1>1
<1>6. l \notin After(SubSeq(p, 1, Len(p))).held  BY <1>4, <1>5 DEF S
<1> QED  BY <1>5, <1>6

\* A run that takes a lock which it was called with and has not given up goes wrong.
LEMMA AcquireFails ==
    ASSUME InputOK, NEW l \in facts.entry, NEW p \in Runs,
           \A n \in 1 .. Len(p) - 1 : KeptIn(p[n], l),
           NEW i \in 1 .. Len(code[Last(p)]),
           \A j \in 1 .. i - 1 : Keeps(code[Last(p)][j], l),
           ~code[Last(p)][i].deferred, code[Last(p)][i].body = None,
           l \in code[Last(p)][i].exit \ code[Last(p)][i].entry
    PROVE  "call" \in After(p).failed
<1> DEFINE b == Last(p)
           t == After(Front(p))
           calls == code[b]
           w == DoCalls(t, calls, TRUE)
<1>1. b \in Block /\ t \in StateOf(TRUE) /\ After(p) = DoBlock(t, b, TRUE)  BY RunIs
<1>2. calls \in Seq(Call)  BY <1>1 DEF InputOK
<1>3. l \in t.held  BY RunsKeep
<1>4. i \in 1 .. Len(calls) /\ \A j \in 1 .. i - 1 : Keeps(calls[j], l)  OBVIOUS
<1>5. ~calls[i].deferred /\ calls[i].body = None /\ l \in calls[i].exit \ calls[i].entry  OBVIOUS
<1> HIDE DEF t, calls
<1>6. PICK after \in [0 .. Len(calls) -> StateOf(TRUE)] :
          CallsSteps(t, calls, TRUE, after) /\ w = after[Len(calls)]
  BY <1>1, <1>2, CallsIs
<1> HIDE DEF w
<1> DEFINE N == Len(calls)
           S == {n \in Nat : n <= N => /\ n < i => l \in after[n].held
                                       /\ n >= i => "call" \in after[n].failed}
<1>7. N \in Nat /\ i \in Nat /\ 0 < i /\ i <= N /\ \A n \in 1 .. N : calls[n] \in Call  BY <1>2, <1>4
<1>8. 0 \in S
  <2>1. after[0] = t /\ ~(0 >= i)  BY <1>6, <1>7 DEF CallsSteps
  <2> QED  BY <1>3, <2>1
<1>9. ASSUME NEW n \in Nat, n \in S  PROVE n + 1 \in S
  <2> SUFFICES ASSUME n + 1 <= N
               PROVE  /\ n + 1 < i => l \in after[n + 1].held
                      /\ n + 1 >= i => "call" \in after[n + 1].failed
    BY <1>7
  <2>1. n + 1 \in 1 .. N /\ (n + 1) - 1 = n /\ n \in 0 .. N /\ n <= N  BY <1>7
  <2> DEFINE s == after[n]
             c == calls[n + 1]
             u == after[n + 1]
  <2>2. u = DoOne(s, c, TRUE) /\ s \in StateOf(TRUE) /\ c \in Call
    BY <1>6, <1>7, <2>1 DEF CallsSteps
  <2>3. (n < i => l \in s.held) /\ (n >= i => "call" \in s.failed)  BY <1>9, <2>1
  <2>4. n + 1 < i => n < i /\ Keeps(c, l)  BY <1>4, <1>7
  <2>5. n + 1 = i => n < i /\ ~c.deferred /\ c.body = None /\ l \in c.exit \ c.entry
    BY <1>5, <1>7
  <2>6. n + 1 >= i => n >= i \/ n + 1 = i  BY <1>7
  <2> HIDE DEF s, c, u
  <2>7. n + 1 < i => l \in u.held  BY <2>2, <2>3, <2>4, OneKeeps
  <2>8. s.failed \subseteq u.failed  BY <2>2, OneIs DEF Grows
  <2>9. ASSUME n + 1 = i  PROVE "call" \in u.failed
    <3>1. l \in s.held /\ ~c.deferred /\ c.body = None /\ l \in c.exit \ c.entry
      BY <2>3, <2>5, <2>9
    <3>2. c \in Annotated  BY <2>2, <3>1, CallKinds
    <3>3. u = DoAnnotated(s, c)  BY <2>2, <3>1 DEF DoOne, DoCall
    <3>4. CallFails(s.held, c)  BY <3>1 DEF CallFails
    <3>5. DoAnnotated(s, c).failed = s.failed \cup {"call"}  BY <2>2, <3>2, <3>4, AnnotatedIs
    <3> QED  BY <3>3, <3>5
  <2>10. n + 1 >= i => "call" \in u.failed  BY <2>3, <2>6, <2>8, <2>9
  <2> QED  BY <2>7, <2>10 DEF u
<1> HIDE DEF S
<1>10. N \in S  BY <1>7, <1>8, <1>9, NatSetInduction
<1>11. "call" \in w.failed  BY <1>6, <1>7, <1>10 DEF S
<1>12. w \in StateOf(TRUE)
  <2>1. N \in 0 .. N  BY <1>7
  <2> QED  BY <1>6, <2>1
<1>13. After(p) = IF Returns(b) THEN RunDefers(w, TRUE) ELSE w
  BY <1>1 DEF DoBlock, w, calls
<1>14. w.failed \subseteq RunDefers(w, TRUE).failed  BY <1>12, RunDefersIs DEF Grows
<1> QED  BY <1>11, <1>13, <1>14

\* The calls of Lock and Unlock are the lock operations, but for deferred releases.
LEMMA OpsAreAll ==
    ASSUME InputOK, OnlyLocks, NEW b \in Block, NEW i \in 1 .. Len(code[b]), NEW l
    PROVE  LET c == code[b][i]
               o == [block |-> b, index |-> i, call |-> c]
           IN  /\ c.body = None
               /\ l \in c.exit \ c.entry => o \in Ops /\ IsAcquire(c) /\ c.exit = {l}
               /\ l \in c.entry \ c.exit /\ ~c.deferred => o \in Releases /\ c.entry = {l}
<1> DEFINE c == code[b][i]
           o == [block |-> b, index |-> i, call |-> c]
<1>1. /\ c.body = None
      /\ \/ c.entry = c.exit
         \/ \E m \in Lock : (c.entry = {m} /\ c.exit = {}) \/ (c.entry = {} /\ c.exit = {m})
  BY DEF OnlyLocks
<1>2. o \in InstrOf(b)  BY DEF InstrOf
<1> HIDE DEF c
<1>3. o.call = c  OBVIOUS
<1> HIDE DEF o
<1>4. IsAcquire(c) \/ IsRelease(c) => o \in Ops  BY <1>2, <1>3 DEF Ops
<1>5. l \in c.exit \ c.entry => IsAcquire(c) /\ c.exit = {l}  BY <1>1 DEF IsAcquire
<1>6. l \in c.entry \ c.exit /\ ~c.deferred => IsRelease(c) /\ c.entry = {l}  BY <1>1 DEF IsRelease
<1> QED  BY <1>1, <1>3, <1>4, <1>5, <1>6 DEF Releases, c, o

\* The only release of a lock, and no acquisition of it that comes after it whenever it
\* comes: then there is none at all, for a run that comes to one without the release
\* still has the lock.
LEMMA NothingTakesItBack ==
    ASSUME InputOK, OnlyLocks, ~SomeRunWrong, NEW rel \in Releases, Again(rel) = {},
           NEW l \in facts.entry, rel.call.entry = {l},
           \A p \in Releases : p.call.entry = {l} => p = rel,
           \A o \in Ops : ~o.call.deferred
    PROVE  \A b \in Block : \A i \in 1 .. Len(code[b]) : Lacks(code[b][i], l)
<1> SUFFICES ASSUME NEW b \in Block, NEW i \in 1 .. Len(code[b]), ~Lacks(code[b][i], l)
             PROVE  FALSE
  OBVIOUS
<1> DEFINE c == code[b][i]
           o == [block |-> b, index |-> i, call |-> c]
<1>1. c.body = None /\ (l \in c.exit \ c.entry => o \in Ops /\ IsAcquire(c) /\ c.exit = {l})
  BY OpsAreAll
<1>2. l \in c.exit \ c.entry  BY <1>1 DEF Lacks
<1>3. o \in Ops /\ IsAcquire(o.call) /\ o.call.exit = rel.call.entry /\ ~c.deferred
  <2>1. o.call = c  OBVIOUS
  <2> HIDE DEF c, o
  <2> QED  BY <1>1, <1>2, <2>1
<1>4. ~Reaches(rel, o)  BY <1>3 DEF Again
<1>5. rel \in Ops  BY DEF Releases
<1>6. PICK run \in Runs : Does(run, o) /\ ~Before(run, rel, o)  BY <1>3, <1>4, <1>5, ReachesIs
<1>7. PICK k \in 1 .. Len(run) : run[k] = b  BY <1>6 DEF Does, Places
<1>8. run \in Seq(Block) /\ Len(run) \in Nat  BY RunIs
<1> DEFINE p == SubSeq(run, 1, k)
<1>9. p \in Runs /\ Last(p) = b /\ Len(p) = k /\ \A n \in 1 .. k : p[n] = run[n]
  BY <1>7, PrefixIsRun
<1> HIDE DEF p
<1>10. /\ o.block = b /\ o.index = i /\ rel.index \in Nat /\ i \in Nat
       /\ rel.call = code[rel.block][rel.index]
  BY <1>3, <1>5, OpIs
<1>11. ASSUME NEW n \in 1 .. k, NEW j \in 1 .. Len(code[p[n]]), n < k \/ j < i
       PROVE  Keeps(code[p[n]][j], l)
  <2> SUFFICES ASSUME ~Keeps(code[p[n]][j], l)  PROVE FALSE  OBVIOUS
  <2> DEFINE d == code[p[n]][j]
             r == [block |-> p[n], index |-> j, call |-> d]
  <2>1. n \in 1 .. Len(run) /\ p[n] = run[n] /\ p[n] \in Block  BY <1>7, <1>8, <1>9
  <2>2. d.body = None /\ (l \in d.entry \ d.exit /\ ~d.deferred => r \in Releases /\ d.entry = {l})
    BY <2>1, OpsAreAll
  <2>3. ~d.deferred /\ l \in d.entry \ d.exit  BY <2>2 DEF Keeps
  <2>4. r = rel
    <3>1. r.call = d /\ r.block = p[n] /\ r.index = j  OBVIOUS
    <3> HIDE DEF d, r
    <3> QED  BY <2>2, <2>3, <3>1
  <2>5. rel.block = run[n] /\ rel.index = j  BY <2>1, <2>4
  <2>6. n \in Places(run, rel.block) /\ k \in Places(run, o.block)
    BY <1>7, <1>10, <2>1, <2>5 DEF Places
  <2>7. n < k \/ (n = k /\ rel.index < o.index)  BY <1>8, <1>10, <1>11, <2>5
  <2> QED  BY <1>6, <2>6, <2>7 DEF Before
<1>12. \A n \in 1 .. Len(p) - 1 : KeptIn(p[n], l)
  <2>1. \A n \in 1 .. Len(p) - 1 : n \in 1 .. k /\ n < k  BY <1>8, <1>9
  <2> QED  BY <1>11, <2>1 DEF KeptIn
<1>13. \A j \in 1 .. i - 1 : Keeps(code[b][j], l)
  <2>1. p[k] = b /\ k \in 1 .. k  BY <1>7, <1>8, <1>9
  <2>2. code[b] \in Seq(Call) /\ Len(code[b]) \in Nat  BY DEF InputOK
  <2>3. \A j \in 1 .. i - 1 : j \in 1 .. Len(code[b]) /\ j < i  BY <1>10, <2>2
  <2> QED  BY <1>11, <2>1, <2>3
<1>14. "call" \in After(p).failed
  BY <1>1, <1>2, <1>3, <1>9, <1>12, <1>13, AcquireFails
<1> QED  BY <1>9, <1>14 DEF SomeRunWrong, GoesWrong, ReturnWrong, SomeRun

\* A run through the only release of the caller's lock, which is not taken again, gets to
\* a return without it, or back to a block it first came to with it.
LEMMA EndsIsWrong ==
    ASSUME InputOK, OnlyLocks, CanReturn, \A p \in Runs : RoundsAgree(p),
           NEW rel \in Releases, NEW l \in facts.entry \cap facts.exit, rel.call.entry = {l},
           \A p \in Releases : p.call.entry = {l} => p = rel,
           \A b \in Block : \A i \in 1 .. Len(code[b]) : Lacks(code[b][i], l)
    PROVE  \E p \in Runs : ReturnWrong(p)
<1> DEFINE d == rel.block
           Through(p) == \E m \in 1 .. Len(p) : p[m] = d
           S == {Last(p) : p \in {q \in Runs : Through(q)}}
<1>1. /\ rel \in Ops /\ d \in Block /\ rel.index \in 1 .. Len(code[d])
      /\ rel.call = code[d][rel.index] /\ IsRelease(rel.call)
  BY OpIs DEF Releases
<1>2. Drops(code[d][rel.index], l)  BY <1>1 DEF Drops, IsRelease
<1>3. \A p \in Runs : Through(p) => l \notin After(p).held
  <2> SUFFICES ASSUME NEW p \in Runs, NEW m \in 1 .. Len(p), p[m] = d
               PROVE  l \notin After(p).held
    OBVIOUS
  <2>1. rel.index \in 1 .. Len(code[p[m]]) /\ Drops(code[p[m]][rel.index], l)  BY <1>1, <1>2
  <2> QED  BY <2>1, RunLacks
<1> SUFFICES ASSUME \A p \in Runs : ~ReturnWrong(p)  PROVE FALSE  OBVIOUS
<1>4. ASSUME NEW p \in Runs, Through(p)  PROVE ~Returns(Last(p))
  <2>1. l \notin After(p).held /\ l \in facts.exit  BY <1>3, <1>4
  <2> QED  BY <2>1 DEF ReturnWrong, ReturnFails
<1>5. S \subseteq Block  BY RunIs
<1>6. d \in S
  <2>1. \E p \in PathsOf(succs) : Last(p) = d  BY <1>1, ShapeAssumption DEF InputOK, Block
  <2>2. PICK p \in Runs : Last(p) = d  BY <2>1 DEF Runs, RunsOf, InputOK
  <2>3. Len(p) \in Nat /\ Len(p) > 0  BY RunIs
  <2>4. Len(p) \in 1 .. Len(p) /\ p[Len(p)] = d  BY <2>2, <2>3 DEF Last
  <2> QED  BY <2>2, <2>4
<1>7. ASSUME NEW x \in S, NEW y \in Range(succs[x])  PROVE y \in S
  <2>1. PICK p \in Runs : Through(p) /\ Last(p) = x  BY <1>7
  <2>2. PICK m \in 1 .. Len(p) : p[m] = d  BY <2>1
  <2>3. /\ IsPath(succs, p) /\ p \in Seq(Block) /\ Len(p) \in Nat /\ Len(p) > 0 /\ x \in Block
        /\ After(p) \in StateOf(TRUE)
    BY <2>1, RunIs
  <2>4. CASE \E n \in 1 .. Len(p) : p[n] = y
    <3>1. PICK n \in 1 .. Len(p) : p[n] = y  BY <2>4
    <3> DEFINE q == SubSeq(p, 1, n)
    <3>2. /\ q \in Runs /\ Last(q) = y /\ Len(q) = n /\ Front(q) = SubSeq(p, 1, n - 1)
          /\ \A i \in 1 .. n : q[i] = p[i]
      BY <3>1, PrefixIsRun
    <3> HIDE DEF q
    <3>3. CASE m <= n
      <4>1. m \in 1 .. Len(q) /\ q[m] = d  BY <2>2, <2>3, <3>2, <3>3
      <4> QED  BY <3>2, <4>1
    <3>4. CASE n < m
      <4>1. \A i \in 1 .. Len(q) - 1 : KeptIn(q[i], l)
        <5> SUFFICES ASSUME NEW i \in 1 .. Len(q) - 1, NEW j \in 1 .. Len(code[q[i]]),
                            ~Keeps(code[q[i]][j], l)
                     PROVE  FALSE
          BY DEF KeptIn
        <5> DEFINE c == code[q[i]][j]
                   r == [block |-> q[i], index |-> j, call |-> c]
        <5>1. i \in 1 .. Len(p) /\ i \in 1 .. n /\ i # m /\ q[i] = p[i] /\ q[i] \in Block
          BY <2>3, <3>2, <3>4
        <5>2. c.body = None /\ (l \in c.entry \ c.exit /\ ~c.deferred => r \in Releases /\ c.entry = {l})
          BY <5>1, OpsAreAll
        <5>3. ~c.deferred /\ l \in c.entry \ c.exit  BY <5>2 DEF Keeps
        <5>4. r.call = c /\ r.block = q[i]  OBVIOUS
        <5> HIDE DEF c, r
        <5>5. r = rel  BY <5>2, <5>3, <5>4
        <5>6. p[i] = p[m]  BY <2>2, <5>1, <5>4, <5>5
        <5> QED  BY <2>3, <5>1, <5>6 DEF IsPath
      <4>2. l \in After(Front(q)).held  BY <3>2, <4>1, RunsKeep
      <4>3. Compatible(IF n = 1 THEN Start ELSE After(SubSeq(p, 1, n - 1)), After(p))
        BY <1>7, <2>1, <3>1 DEF RoundsAgree
      <4>4. CASE n = 1
        <5>1. Start.held = After(p).held  BY <4>3, <4>4 DEF Compatible
        <5> QED  BY <1>3, <2>1, <5>1, StartIs
      <4>5. CASE n # 1
        <5>1. After(Front(q)).held = After(p).held  BY <3>2, <4>3, <4>5 DEF Compatible
        <5> QED  BY <1>3, <2>1, <4>2, <5>1
      <4> QED  BY <4>4, <4>5
    <3> QED  BY <2>3, <3>1, <3>3, <3>4
  <2>5. CASE \A n \in 1 .. Len(p) : p[n] # y
    <3>1. PICK k \in 1 .. Len(succs[x]) : y = succs[x][k]  BY <1>7, <2>3, RangeOfSuccs
    <3>2. Last(p) = p[Len(p)]  BY DEF Last
    <3>3. k \in 1 .. Len(succs[p[Len(p)]]) /\ y = succs[p[Len(p)]][k]  BY <2>1, <3>1, <3>2
    <3>4. succs \in Shape /\ succs \in Seq(Seq(DOMAIN succs))  BY GraphIs DEF InputOK
    <3> DEFINE q == Append(p, y)
    <3>5. IsPath(succs, q) /\ Last(q) = y
      <4>1. \A n \in 1 .. Len(p) : p[n] # succs[p[Len(p)]][k]  BY <2>5, <3>3
      <4>2. /\ IsPath(succs, Append(p, succs[p[Len(p)]][k]))
            /\ Last(Append(p, succs[p[Len(p)]][k])) = succs[p[Len(p)]][k]
        <5>1. k \in 1 .. Len(succs[p[Len(p)]])  BY <3>3
        <5>2. succs \in Seq(Seq(DOMAIN succs)) /\ IsPath(succs, p)  BY <2>3, <3>4
        <5> DEFINE e == succs[p[Len(p)]][k]
        <5>3. e = succs[p[Len(p)]][k]  OBVIOUS
        <5> HIDE DEF e
        <5>4. \A n \in 1 .. Len(p) : p[n] # e  BY <4>1, <5>3
        <5>5. IsPath(succs, Append(p, e)) /\ Last(Append(p, e)) = e
          BY <5>1, <5>2, <5>3, <5>4, LongerPath, SMTT(40)
        <5> QED  BY <5>3, <5>5
      <4> QED  BY <3>3, <4>2
    <3>6. y \in Block  BY <2>3, <3>1, SuccsIs DEF InputOK
    <3>7. m \in 1 .. Len(q) /\ q[m] = d  BY <2>2, <2>3, <3>6
    <3> HIDE DEF q
    <3>8. q \in Runs  BY <3>4, <3>5, GraphIs
    <3> QED  BY <3>5, <3>7, <3>8
  <2> QED  BY <2>4, <2>5
<1>8. \A x \in S : ~Returns(x)  BY <1>4
<1> HIDE DEF S
<1>9. S \in (SUBSET Block) \ {{}}
  <2>1. S # {}  BY <1>6
  <2>2. S \in SUBSET Block  BY <1>5
  <2> QED  BY <2>1, <2>2
<1>10. \A x \in S : Range(succs[x]) \subseteq S  BY <1>7
<1> QED  BY <1>8, <1>9, <1>10 DEF CanReturn

\* Of a function that passes its walk it is not said that the caller's critical section
\* ends there, under the conditions that EndsMeansEnds names.
THEOREM EndsAreNotSaid == GapSpec => []EndsMeansEnds
<1>1. ASSUME TypeInv, GapInv, NothingMissed  PROVE EndsMeansEnds
  <2> SUFFICES ASSUME AllDone, reports = {}, "return" \in shown,
                      \A o, p \in Releases : o.call.entry = p.call.entry => o = p,
                      \A o \in Ops : ~o.call.deferred,
                      OnlyLocks, CanReturn, \A p \in Runs : RoundsAgree(p), ~Overlooked,
                      NEW g \in gaps, g.kind = "ends"
               PROVE  FALSE
    BY DEF EndsMeansEnds
  <2>1. InputOK  BY <1>1 DEF TypeInv
  <2>2. ~SomeRunWrong  BY <1>1 DEF NothingMissed, AllDone
  <2>3. \A p \in Runs : ~ReturnWrong(p)  BY <2>2 DEF SomeRunWrong, GoesWrong, ReturnWrong
  <2>4. PICK rel \in Ops : IsRelease(rel.call) /\ g \in Verdict(rel)  BY <1>1 DEF GapInv
  <2>5. Again(rel) = {}  BY <2>4, VerdictIs
  <2>6. rel.call.entry \subseteq HeldOnEntry  BY <2>4, <2>5 DEF Verdict
  <2>7. rel \in Releases  BY <2>4 DEF Releases
  <2>8. PICK l : rel.call.entry = {l}
    <3>1. /\ rel.block \in Block /\ rel.index \in 1 .. Len(code[rel.block])
          /\ rel.call = code[rel.block][rel.index]
      BY <2>1, <2>4, OpIs
    <3>2. \/ rel.call.entry = rel.call.exit
          \/ \E m \in Lock : \/ rel.call.entry = {m} /\ rel.call.exit = {}
                             \/ rel.call.entry = {} /\ rel.call.exit = {m}
      BY <3>1 DEF OnlyLocks
    <3> QED  BY <2>4, <3>2 DEF IsRelease
  <2>9. l \in facts.entry \cap facts.exit  BY <2>6, <2>8 DEF HeldOnEntry
  <2>10. \A p \in Releases : p.call.entry = {l} => p = rel  BY <2>7, <2>8
  <2>11. \A b \in Block : \A i \in 1 .. Len(code[b]) : Lacks(code[b][i], l)
    BY <2>1, <2>2, <2>5, <2>7, <2>8, <2>9, <2>10, NothingTakesItBack
  <2>12. \E p \in Runs : ReturnWrong(p)
    BY <2>1, <2>7, <2>8, <2>9, <2>10, <2>11, EndsIsWrong
  <2> QED  BY <2>3, <2>12
<1>2. TypeInv /\ GapInv /\ NothingMissed => EndsMeansEnds  BY <1>1
<1> QED  BY <1>2, GapInvIsInvariant, GapsFollowTheWalk, WalkMissesNothing, PTL
=============================================================================
