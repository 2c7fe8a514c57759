------------------------- MODULE LockSummaryProofs -------------------------
(***************************************************************************)
(* Proofs about LockSummary, for every set of functions and classes, every *)
(* program and every order of its functions: what a walk of a body does to *)
(* the summaries (it is a recursion over the blocks, the instructions of a *)
(* block and the deferred calls), that the summaries only grow, that the   *)
(* reports are made against settled summaries, and that no run of the      *)
(* program, however deep its calls, nests locks or waits with one held     *)
(* without a report of it where the lock is held.                          *)
(***************************************************************************)
EXTENDS LockSummary, TLAPS, FiniteSetTheorems, WellFoundedInduction

\* A walk of the body of f.
Walk(f) == [state : State, sum : Summary, rep : Report,
            in : [1 .. Len(body[f].code) -> State \cup {None}]]

\* What "new" says is more than what "old" says.
More(old, new) == /\ old.pairs \subseteq new.pairs
                  /\ Told(old.blocking, new.blocking)
                  /\ \A c \in Class : Told(old.acquires[c], new.acquires[c])

-----------------------------------------------------------------------------
(***************************************************************************)
(* Induction over the naturals, in the form that speaks of a set.          *)
(***************************************************************************)
\* A set of naturals that is not empty has a least one: the intervals 1 .. n are
\* ordered by inclusion, which is well-founded on finite sets.
LEMMA LeastNat ==
    ASSUME NEW S \in SUBSET Nat, S # {}
    PROVE  \E m \in S : \A k \in S : m <= k
<1> DEFINE T == {1 .. n : n \in S}
<1>1. T \subseteq FiniteSubsetsOf(Nat) /\ T # {}
  <2> SUFFICES ASSUME NEW n \in S  PROVE 1 .. n \in SUBSET Nat /\ IsFiniteSet(1 .. n)
    BY DEF FiniteSubsetsOf
  <2> QED  BY FS_Interval
<1>2. IsWellFoundedOn(StrictSubsetOrdering(Nat), FiniteSubsetsOf(Nat))
  BY FS_StrictSubsetOrderingWellFounded
<1> HIDE DEF T
<1>3. PICK x \in T : \A y \in T : <<y, x>> \notin StrictSubsetOrdering(Nat)
  BY <1>1, <1>2, WFMin
<1>4. PICK m \in S : x = 1 .. m  BY DEF T
<1>5. ASSUME NEW k \in S, k < m  PROVE FALSE
  <2>1. 1 .. k \in T  BY DEF T
  <2>2. m \in 1 .. m /\ m \notin 1 .. k /\ 1 .. k \subseteq 1 .. m  BY <1>5
  <2>3. <<1 .. k, 1 .. m>> \in StrictSubsetOrdering(Nat)
    BY <2>2 DEF StrictSubsetOrdering
  <2> QED  BY <1>3, <1>4, <2>1, <2>3
<1> QED  BY <1>5

LEMMA NatSetInduction ==
    ASSUME NEW S, 0 \in S, \A n \in Nat : n \in S => n + 1 \in S
    PROVE  \A n \in Nat : n \in S
<1> SUFFICES ASSUME Nat \ S # {}  PROVE FALSE  OBVIOUS
<1>1. PICK x \in Nat \ S : \A y \in Nat \ S : x <= y
  <2>1. Nat \ S \in SUBSET Nat  OBVIOUS
  <2> QED  BY <2>1, LeastNat
<1>2. x # 0 /\ x - 1 \in Nat  BY <1>1
<1>3. x - 1 \in S  BY <1>1, <1>2
<1> QED  BY <1>1, <1>2, <1>3

\* A function that gives each element of X an element of X can be applied again and
\* again: the steps of a walk, which depend on the place n.
HasRun(X, base, N, step) ==
    \E g \in [0 .. N -> X] : g[0] = base /\ \A n \in 1 .. N : g[n] = step[n][g[n - 1]]
LEMMA Iterated ==
    ASSUME NEW X, NEW base \in X, NEW N \in Nat, NEW step \in [1 .. N -> [X -> X]]
    PROVE  HasRun(X, base, N, step)
<1> DEFINE Upto(n, g) == /\ g \in [0 .. n -> X] /\ g[0] = base
                         /\ \A k \in 1 .. n : g[k] = step[k][g[k - 1]]
           S == {n \in Nat : n <= N => \E g : Upto(n, g)}
<1>1. 0 \in S
  <2>1. Upto(0, [n \in 0 .. 0 |-> base])  OBVIOUS
  <2> QED  BY <2>1
<1>2. ASSUME NEW n \in Nat, n \in S  PROVE n + 1 \in S
  <2> SUFFICES ASSUME n + 1 <= N  PROVE \E g : Upto(n + 1, g)  OBVIOUS
  <2>1. PICK g : Upto(n, g)  BY <1>2
  <2> DEFINE h == [k \in 0 .. n + 1 |-> IF k = n + 1 THEN step[n + 1][g[n]] ELSE g[k]]
  <2>2. step[n + 1][g[n]] \in X  BY <2>1
  <2>3. h \in [0 .. n + 1 -> X] /\ h[0] = base  BY <2>1, <2>2
  <2>4. \A k \in 1 .. n + 1 : h[k] = step[k][h[k - 1]]
    <3> SUFFICES ASSUME NEW k \in 1 .. n + 1  PROVE h[k] = step[k][h[k - 1]]  OBVIOUS
    <3>1. k - 1 \in 0 .. n /\ h[k - 1] = g[k - 1]  OBVIOUS
    <3>2. CASE k = n + 1  BY <3>1, <3>2
    <3>3. CASE k # n + 1  BY <2>1, <3>1, <3>3
    <3> QED  BY <3>2, <3>3
  <2> HIDE DEF h
  <2>5. Upto(n + 1, h)  BY <2>3, <2>4
  <2> QED  BY <2>5
<1> HIDE DEF S
<1>3. N \in S  BY <1>1, <1>2, NatSetInduction
<1>4. PICK g : Upto(N, g)  BY <1>3 DEF S
<1> QED  BY <1>4 DEF HasRun

-----------------------------------------------------------------------------
(***************************************************************************)
(* The types of a walk, and what an instruction does to its summary.       *)
(***************************************************************************)
LEMMA InstrParts ==
    ASSUME NEW i \in Instr
    PROVE  /\ i.deferred \in BOOLEAN /\ i.do \in {"lock", "unlock", "call", "wait"}
           /\ i.do \in {"lock", "unlock"} => i.of \in Class
           /\ i.do = "call" => i.of \in Function
BY DEF Instr

LEMMA BodyParts ==
    ASSUME body \in Programs, NEW f \in Function
    PROVE  /\ Len(body[f].code) \in Nat \ {0} /\ Len(body[f].succs) = Len(body[f].code)
           /\ DOMAIN body[f].code = 1 .. Len(body[f].code)
           /\ \A b \in DOMAIN body[f].code : body[f].code[b] \in Seq(Instr)
           /\ body[f].entry \subseteq Class
<1> HIDE DEF Instr
<1>1. body[f] \in Body /\ Len(body[f].code) = Len(body[f].succs) /\ Len(body[f].code) > 0
  BY ProgramAssumption
<1>2. body[f].code \in Seq(Seq(Instr)) /\ body[f].entry \in SUBSET Class  BY <1>1 DEF Body
<1> DEFINE code == body[f].code
<1>3. code \in Seq(Seq(Instr))  BY <1>2
<1> HIDE DEF code
<1>4. DOMAIN code = 1 .. Len(code) /\ Len(code) \in Nat /\ \A b \in DOMAIN code : code[b] \in Seq(Instr)
  BY <1>3
<1> QED  BY <1>1, <1>2, <1>4 DEF code

\* The states a walk enters with, and what the operations on the class set make.
LEMMA StartTypes ==
    ASSUME body \in Programs, NEW f \in Function
    PROVE  Entering(f) \in State /\ Unreached \in State
<1> HIDE DEF Instr
<1>1. <<>> \in Seq(Instr)  OBVIOUS
<1> QED  BY <1>1 DEF Entering, Unreached, State

LEMMA MergeType == ASSUME NEW w \in State, NEW v \in State  PROVE Merge(w, v) \in State
<1> HIDE DEF Instr
<1>1. w.counts \in [Class -> Nat] /\ w.released \in SUBSET Class /\ w.deferred \in Seq(Instr)
  BY DEF State
<1>2. v.counts \in [Class -> Nat] /\ v.released \in SUBSET Class /\ v.deferred \in Seq(Instr)
  BY DEF State
<1> QED  BY <1>1, <1>2 DEF Merge, State

LEMMA StateTypes ==
    ASSUME body \in Programs, NEW f \in Function, NEW w \in State, NEW c \in Class
    PROVE  Acquire(f, w, c) \in State /\ Release(f, w, c) \in State
<1> HIDE DEF Instr
<1>1. w = [counts |-> w.counts, released |-> w.released, deferred |-> w.deferred]
      /\ w.counts \in [Class -> Nat] /\ w.released \in SUBSET Class /\ w.deferred \in Seq(Instr)
  BY DEF State
<1>2. ASSUME NEW k \in Nat, NEW r \in SUBSET Class
      PROVE  [w EXCEPT !.counts[c] = k, !.released = r] \in State
  BY <1>1 DEF State
<1>3. Acquire(f, w, c) \in State
  <2>1. w.counts[c] + 1 \in Nat /\ w.released \ {c} \in SUBSET Class  BY <1>1
  <2>2. CASE w.counts[c] + 1 >= EntryCount(f, c)
    <3>1. Acquire(f, w, c) = [w EXCEPT !.counts[c] = w.counts[c] + 1, !.released = w.released \ {c}]
      BY <2>2 DEF Acquire
    <3> QED  BY <1>2, <2>1, <3>1
  <2>3. CASE ~(w.counts[c] + 1 >= EntryCount(f, c))
    <3>1. Acquire(f, w, c) = [w EXCEPT !.counts[c] = w.counts[c] + 1, !.released = w.released]
      BY <2>3 DEF Acquire
    <3>2. w.released \in SUBSET Class  BY <1>1
    <3> QED  BY <1>2, <2>1, <3>1, <3>2
  <2> QED  BY <2>2, <2>3
<1>4. Release(f, w, c) \in State
  <2>1. CASE w.counts[c] = 0
    <3>1. [w EXCEPT !.released = w.released \cup {c}] \in State  BY <1>1 DEF State
    <3> QED  BY <2>1, <3>1 DEF Release
  <2>2. CASE w.counts[c] # 0
    <3>1. w.counts[c] - 1 \in Nat  BY <1>1, <2>2
    <3> QED  BY <1>1, <1>2, <2>2, <3>1 DEF Release
  <2> QED  BY <2>1, <2>2
<1> QED  BY <1>3, <1>4

\* A record of four parts; the summary and the report in it are records too.
Parts(f, w) ==
    /\ w = [state |-> w.state, sum |-> w.sum, rep |-> w.rep, in |-> w.in]
    /\ w.sum = [acquires |-> w.sum.acquires, pairs |-> w.sum.pairs, blocking |-> w.sum.blocking]
    /\ w.rep = [pairs |-> w.rep.pairs, waits |-> w.rep.waits]
    /\ w.state \in State
    /\ w.sum.acquires \in [Class -> (SUBSET Class) \cup {None}]
    /\ w.sum.pairs \in SUBSET (Class \X Class)
    /\ w.sum.blocking \in (SUBSET Class) \cup {None}
    /\ w.rep.pairs \in SUBSET (Class \X Class) /\ w.rep.waits \in SUBSET Class
    /\ w.in \in [1 .. Len(body[f].code) -> State \cup {None}]

LEMMA WalkParts ==
    ASSUME NEW f, NEW w \in Walk(f)
    PROVE  Parts(f, w)
<1> HIDE DEF State
<1> QED  BY DEF Walk, Summary, Report, Parts

LEMMA MoreIsOrder ==
    ASSUME NEW x \in Summary, NEW y \in Summary, NEW z \in Summary
    PROVE  More(x, x) /\ (More(x, y) /\ More(y, z) => More(x, z))
<1>1. ASSUME NEW p \in (SUBSET Class) \cup {None}, NEW q \in (SUBSET Class) \cup {None},
             NEW r \in (SUBSET Class) \cup {None}
      PROVE  Told(p, p) /\ (Told(p, q) /\ Told(q, r) => Told(p, r))
  BY DEF Told
<1>2. ASSUME NEW s \in Summary
      PROVE  s.blocking \in (SUBSET Class) \cup {None}
             /\ \A c \in Class : s.acquires[c] \in (SUBSET Class) \cup {None}
  BY DEF Summary
<1>3. More(x, x)  BY <1>1, <1>2 DEF More
<1>4. ASSUME More(x, y), More(y, z)  PROVE More(x, z)
  <2>1. Told(x.blocking, z.blocking)  BY <1>1, <1>2, <1>4 DEF More
  <2>2. ASSUME NEW c \in Class  PROVE Told(x.acquires[c], z.acquires[c])
    <3>1. Told(x.acquires[c], y.acquires[c]) /\ Told(y.acquires[c], z.acquires[c])
      BY <1>4 DEF More
    <3>2. /\ x.acquires[c] \in (SUBSET Class) \cup {None}
          /\ y.acquires[c] \in (SUBSET Class) \cup {None}
          /\ z.acquires[c] \in (SUBSET Class) \cup {None}
      BY <1>2
    <3> QED  BY <1>1, <3>1, <3>2
  <2> QED  BY <1>4, <2>1, <2>2 DEF More
<1> QED  BY <1>3, <1>4

LEMMA KeepIsTold ==
    ASSUME NEW old \in (SUBSET Class) \cup {None}, NEW released \in SUBSET Class
    PROVE  Keep(old, released) \in SUBSET Class /\ Told(old, Keep(old, released))
BY NoneAssumption DEF Keep, Told

\* A walk goes on: what it has noted and reported is not lost.
Adds(w, v) == More(w.sum, v.sum) /\ w.rep.pairs \subseteq v.rep.pairs /\ w.rep.waits \subseteq v.rep.waits
Onward(f, w, v) == v \in Walk(f) /\ Adds(w, v) /\ v.in = w.in

\* The parts of a walk put together.
LEMMA Assembled ==
    ASSUME NEW f, NEW w \in Walk(f), NEW state \in State, NEW sum \in Summary, NEW rep \in Report,
           More(w.sum, sum), w.rep.pairs \subseteq rep.pairs, w.rep.waits \subseteq rep.waits
    PROVE  Onward(f, w, [state |-> state, sum |-> sum, rep |-> rep, in |-> w.in])
<1> HIDE DEF State, Summary, Report
<1>1. w.in \in [1 .. Len(body[f].code) -> State \cup {None}]  BY DEF Walk
<1> QED  BY <1>1 DEF Walk, Onward, Adds

\* An EXCEPT of several parts of a record of four parts, or of three.
LEMMA ExceptSumRep ==
    ASSUME NEW w, w = [state |-> w.state, sum |-> w.sum, rep |-> w.rep, in |-> w.in], NEW a, NEW b
    PROVE  [w EXCEPT !.sum = a, !.rep = b] = [state |-> w.state, sum |-> a, rep |-> b, in |-> w.in]
<1>1. DOMAIN w = {"state", "sum", "rep", "in"}  OBVIOUS
<1>2. [w EXCEPT !.sum = a, !.rep = b] =
        [x \in DOMAIN w |-> IF x = "rep" THEN b ELSE IF x = "sum" THEN a ELSE w[x]]
  OBVIOUS
<1> QED  BY <1>1, <1>2

LEMMA ExceptSumState ==
    ASSUME NEW w, w = [state |-> w.state, sum |-> w.sum, rep |-> w.rep, in |-> w.in], NEW a, NEW b
    PROVE  [w EXCEPT !.sum = a, !.state = b] = [state |-> b, sum |-> a, rep |-> w.rep, in |-> w.in]
<1>1. DOMAIN w = {"state", "sum", "rep", "in"}  OBVIOUS
<1>2. [w EXCEPT !.sum = a, !.state = b] =
        [x \in DOMAIN w |-> IF x = "state" THEN b ELSE IF x = "sum" THEN a ELSE w[x]]
  OBVIOUS
<1> QED  BY <1>1, <1>2

LEMMA ExceptAcquiresBlocking ==
    ASSUME NEW s, s = [acquires |-> s.acquires, pairs |-> s.pairs, blocking |-> s.blocking],
           NEW a, NEW b
    PROVE  [s EXCEPT !.acquires = a, !.blocking = b] =
             [acquires |-> a, pairs |-> s.pairs, blocking |-> b]
<1>1. DOMAIN s = {"acquires", "pairs", "blocking"}  OBVIOUS
<1>2. [s EXCEPT !.acquires = a, !.blocking = b] =
        [x \in DOMAIN s |-> IF x = "acquires" THEN a ELSE IF x = "blocking" THEN b ELSE s[x]]
  OBVIOUS
<1> QED  BY <1>1, <1>2

\* What is noted goes to the summary and to the report.
LEMMA NotedParts ==
    ASSUME NEW f, NEW w \in Walk(f), NEW pairs
    PROVE  LET n == Noted(w, pairs)
           IN  /\ n = [state |-> n.state, sum |-> n.sum, rep |-> n.rep, in |-> n.in]
               /\ n.state = w.state /\ n.in = w.in
               /\ n.sum = [acquires |-> w.sum.acquires, pairs |-> w.sum.pairs \cup pairs,
                           blocking |-> w.sum.blocking]
               /\ n.rep = [pairs |-> w.rep.pairs \cup pairs, waits |-> w.rep.waits]
<1> DEFINE sum == [w.sum EXCEPT !.pairs = w.sum.pairs \cup pairs]
           rep == [w.rep EXCEPT !.pairs = w.rep.pairs \cup pairs]
<1>p. Parts(f, w)  BY WalkParts
<1>1. sum = [acquires |-> w.sum.acquires, pairs |-> w.sum.pairs \cup pairs,
             blocking |-> w.sum.blocking]
  <2>1. w.sum = [acquires |-> w.sum.acquires, pairs |-> w.sum.pairs, blocking |-> w.sum.blocking]
    BY <1>p DEF Parts
  <2> QED  BY <2>1
<1>2. rep = [pairs |-> w.rep.pairs \cup pairs, waits |-> w.rep.waits]
  <2>1. w.rep = [pairs |-> w.rep.pairs, waits |-> w.rep.waits]  BY <1>p DEF Parts
  <2> QED  BY <2>1
<1>3. Noted(w, pairs) = [w EXCEPT !.sum = sum, !.rep = rep]  BY DEF Noted
<1> HIDE DEF sum, rep
<1>4. Noted(w, pairs) = [state |-> w.state, sum |-> sum, rep |-> rep, in |-> w.in]
  BY <1>3, <1>p, ExceptSumRep DEF Parts
<1> QED  BY <1>1, <1>2, <1>4

LEMMA ToldSame == ASSUME NEW p \in (SUBSET Class) \cup {None}  PROVE Told(p, p)
BY DEF Told

\* Taking a lock: the pairs with the locks held, the class with what was released.
LEMMA DoLockGrows ==
    ASSUME body \in Programs, NEW f \in Function, NEW w \in Walk(f), NEW c \in Class
    PROVE  Onward(f, w, DoLock(f, w, c))
<1>p. Parts(f, w)  BY WalkParts
<1> DEFINE pairs == Held(w.state) \X {c}
           kept == Keep(w.sum.acquires[c], w.state.released)
<1>1. w.state \in State /\ w.state.released \in SUBSET Class /\ Held(w.state) \subseteq Class
  BY <1>p DEF State, Held, Parts
<1>2. Acquire(f, w.state, c) \in State  BY <1>1, StateTypes
<1>3. pairs \subseteq Class \X Class  BY <1>1
<1>4. w.sum.acquires[c] \in (SUBSET Class) \cup {None}  BY <1>p DEF Parts
<1>5. kept \in SUBSET Class /\ Told(w.sum.acquires[c], kept)  BY <1>1, <1>4, KeepIsTold
<1>6. DoLock(f, w, c) =
        [state |-> Acquire(f, w.state, c),
         sum |-> [acquires |-> [w.sum.acquires EXCEPT ![c] = kept],
                  pairs |-> w.sum.pairs \cup pairs, blocking |-> w.sum.blocking],
         rep |-> [pairs |-> w.rep.pairs \cup pairs, waits |-> w.rep.waits], in |-> w.in]
  <2> DEFINE n == Noted(w, pairs)
             sum == [n.sum EXCEPT !.acquires = [n.sum.acquires EXCEPT
                                                   ![c] = Keep(n.sum.acquires[c], w.state.released)]]
             state == Acquire(f, n.state, c)
  <2>1. DoLock(f, w, c) = [n EXCEPT !.sum = sum, !.state = state]  BY DEF DoLock
  <2> HIDE DEF pairs, n
  <2>2. /\ n = [state |-> n.state, sum |-> n.sum, rep |-> n.rep, in |-> n.in]
        /\ n.state = w.state /\ n.in = w.in
        /\ n.sum = [acquires |-> w.sum.acquires, pairs |-> w.sum.pairs \cup pairs,
                    blocking |-> w.sum.blocking]
        /\ n.rep = [pairs |-> w.rep.pairs \cup pairs, waits |-> w.rep.waits]
    BY NotedParts DEF n
  <2>3. sum = [acquires |-> [w.sum.acquires EXCEPT ![c] = kept],
               pairs |-> w.sum.pairs \cup pairs, blocking |-> w.sum.blocking]
    BY <2>2
  <2>4. state = Acquire(f, w.state, c)  BY <2>2
  <2> HIDE DEF sum, state
  <2>5. DoLock(f, w, c) = [state |-> state, sum |-> sum, rep |-> n.rep, in |-> n.in]
    BY <2>1, <2>2, ExceptSumState
  <2> QED  BY <2>2, <2>3, <2>4, <2>5
<1> HIDE DEF pairs, kept
<1>7. [w.sum.acquires EXCEPT ![c] = kept] \in [Class -> (SUBSET Class) \cup {None}]
  BY <1>5, <1>p DEF Parts
<1>8. ASSUME NEW d \in Class
      PROVE  Told(w.sum.acquires[d], [w.sum.acquires EXCEPT ![c] = kept][d])
  <2>1. w.sum.acquires[d] \in (SUBSET Class) \cup {None}  BY <1>p DEF Parts
  <2>2. Told(w.sum.acquires[d], w.sum.acquires[d])  BY <2>1, ToldSame
  <2> QED  BY <1>5, <2>2, <1>p DEF Parts
<1>9. Told(w.sum.blocking, w.sum.blocking)  BY <1>p, ToldSame DEF Parts
<1>10. w.sum.pairs \cup pairs \in SUBSET (Class \X Class)
       /\ w.rep.pairs \cup pairs \in SUBSET (Class \X Class)
  BY <1>3, <1>p DEF Parts
<1> DEFINE sum == [acquires |-> [w.sum.acquires EXCEPT ![c] = kept],
                   pairs |-> w.sum.pairs \cup pairs, blocking |-> w.sum.blocking]
           rep == [pairs |-> w.rep.pairs \cup pairs, waits |-> w.rep.waits]
<1>11. sum \in Summary  BY <1>7, <1>10, <1>p DEF Summary, Parts
<1>12. rep \in Report  BY <1>10, <1>p DEF Report, Parts
<1>13. More(w.sum, sum) /\ w.rep.pairs \subseteq rep.pairs /\ w.rep.waits \subseteq rep.waits
  BY <1>8, <1>9 DEF More
<1> HIDE DEF sum, rep
<1>14. DoLock(f, w, c) = [state |-> Acquire(f, w.state, c), sum |-> sum, rep |-> rep, in |-> w.in]
  BY <1>6 DEF sum, rep
<1> QED  BY <1>2, <1>11, <1>12, <1>13, <1>14, Assembled

LEMMA DoUnlockGrows ==
    ASSUME body \in Programs, NEW f \in Function, NEW w \in Walk(f), NEW c \in Class
    PROVE  Onward(f, w, DoUnlock(f, w, c))
<1>p. Parts(f, w)  BY WalkParts
<1>1. w.state \in State  BY <1>p DEF Parts
<1>2. Release(f, w.state, c) \in State  BY <1>1, StateTypes
<1>3. DoUnlock(f, w, c) = [state |-> Release(f, w.state, c), sum |-> w.sum, rep |-> w.rep, in |-> w.in]
  BY <1>p DEF DoUnlock, Parts
<1>4. w.sum \in Summary  BY DEF Walk
<1>5. More(w.sum, w.sum)  BY <1>4, MoreIsOrder
<1>6. w.rep \in Report  BY DEF Walk
<1> QED  BY <1>2, <1>3, <1>4, <1>5, <1>6, Assembled

LEMMA DoWaitGrows ==
    ASSUME NEW f \in Function, NEW w \in Walk(f)
    PROVE  Onward(f, w, DoWait(w))
<1>p. Parts(f, w)  BY WalkParts
<1> DEFINE kept == Keep(w.sum.blocking, w.state.released)
<1>1. w.state \in State /\ w.state.released \in SUBSET Class /\ Held(w.state) \subseteq Class
  BY <1>p DEF State, Held, Parts
<1>2. kept \in SUBSET Class /\ Told(w.sum.blocking, kept)  BY <1>1, <1>p, KeepIsTold DEF Parts
<1> DEFINE sum == [w.sum EXCEPT !.blocking = kept]
           rep == [w.rep EXCEPT !.waits = w.rep.waits \cup Held(w.state)]
<1>3. DoWait(w) =
        [state |-> w.state,
         sum |-> [acquires |-> w.sum.acquires, pairs |-> w.sum.pairs, blocking |-> kept],
         rep |-> [pairs |-> w.rep.pairs, waits |-> w.rep.waits \cup Held(w.state)], in |-> w.in]
  <2>1. DoWait(w) = [w EXCEPT !.sum = sum, !.rep = rep]  BY DEF DoWait
  <2> HIDE DEF kept
  <2>2. sum = [acquires |-> w.sum.acquires, pairs |-> w.sum.pairs, blocking |-> kept]
    BY <1>p DEF Parts
  <2>3. rep = [pairs |-> w.rep.pairs, waits |-> w.rep.waits \cup Held(w.state)]
    <3>1. w.rep = [pairs |-> w.rep.pairs, waits |-> w.rep.waits]  BY <1>p DEF Parts
    <3> QED  BY <3>1
  <2> HIDE DEF sum, rep
  <2>4. DoWait(w) = [state |-> w.state, sum |-> sum, rep |-> rep, in |-> w.in]
    BY <2>1, <1>p, ExceptSumRep DEF Parts
  <2> QED  BY <2>2, <2>3, <2>4
<1> HIDE DEF kept
<1>4. \A d \in Class : Told(w.sum.acquires[d], w.sum.acquires[d])  BY <1>p, ToldSame DEF Parts
<1>5. w.rep.waits \cup Held(w.state) \in SUBSET Class  BY <1>1, <1>p DEF Parts
<1> DEFINE newSum == [acquires |-> w.sum.acquires, pairs |-> w.sum.pairs, blocking |-> kept]
           newRep == [pairs |-> w.rep.pairs, waits |-> w.rep.waits \cup Held(w.state)]
<1>6. newSum \in Summary  BY <1>2, <1>p DEF Summary, Parts
<1>7. newRep \in Report  BY <1>5, <1>p DEF Report, Parts
<1>8. More(w.sum, newSum) /\ w.rep.pairs \subseteq newRep.pairs /\ w.rep.waits \subseteq newRep.waits
  BY <1>2, <1>4 DEF More
<1> HIDE DEF newSum, newRep
<1>9. DoWait(w) = [state |-> w.state, sum |-> newSum, rep |-> newRep, in |-> w.in]
  BY <1>3 DEF newSum, newRep
<1> QED  BY <1>1, <1>6, <1>7, <1>8, <1>9, Assembled

\* A call takes up what the callee's summary says; a call of the function itself nothing.
LEMMA DoCallGrows ==
    ASSUME NEW f \in Function, NEW w \in Walk(f), NEW g \in Function,
           summary \in [Function -> Summary]
    PROVE  Onward(f, w, DoCall(f, w, g))
<1> DEFINE cs == summary[g]
           held == Held(w.state)
           released == w.state.released
           acquired == {c \in Class : cs.acquires[c] # None}
           pairs == {p \in held \X acquired : p[1] \notin cs.acquires[p[2]]}
           blocks == cs.blocking # None
           acquires == [c \in Class |-> IF c \in acquired
                           THEN Keep(w.sum.acquires[c], released \cup cs.acquires[c])
                           ELSE w.sum.acquires[c]]
           blocking == IF blocks THEN Keep(w.sum.blocking, released \cup cs.blocking)
                       ELSE w.sum.blocking
           waits == IF blocks THEN w.rep.waits \cup (held \ cs.blocking) ELSE w.rep.waits
           sum == [acquires |-> acquires, pairs |-> w.sum.pairs \cup pairs, blocking |-> blocking]
           rep == [pairs |-> w.rep.pairs \cup pairs, waits |-> waits]
           n == Noted(w, pairs)
<1>p. Parts(f, w)  BY WalkParts
<1>1. w.state \in State /\ released \in SUBSET Class /\ held \subseteq Class
  BY <1>p DEF State, Held, Parts
<1>2. CASE f = g
  <2>1. DoCall(f, w, g) = w  BY <1>2 DEF DoCall
  <2>2. w.sum \in Summary  BY DEF Walk
  <2>3. More(w.sum, w.sum)  BY <2>2, MoreIsOrder
  <2> QED  BY <2>1, <2>3 DEF Onward, Adds
<1>3. CASE f # g
  <2>1. cs \in Summary  OBVIOUS
  <2>2. /\ cs.blocking \in (SUBSET Class) \cup {None}
        /\ \A c \in Class : cs.acquires[c] \in (SUBSET Class) \cup {None}
    BY <2>1 DEF Summary
  <2>3. DoCall(f, w, g) =
          [n EXCEPT !.sum.acquires = [c \in Class |-> IF c \in acquired
                        THEN Keep(n.sum.acquires[c], released \cup cs.acquires[c])
                        ELSE n.sum.acquires[c]],
                    !.sum.blocking = IF blocks THEN Keep(n.sum.blocking, released \cup cs.blocking)
                                     ELSE n.sum.blocking,
                    !.rep.waits = IF blocks THEN n.rep.waits \cup (held \ cs.blocking)
                                  ELSE n.rep.waits]
    BY <1>3 DEF DoCall
  <2> HIDE DEF n
  <2>4. /\ n = [state |-> n.state, sum |-> n.sum, rep |-> n.rep, in |-> n.in]
        /\ n.state = w.state /\ n.in = w.in
        /\ n.sum = [acquires |-> w.sum.acquires, pairs |-> w.sum.pairs \cup pairs,
                    blocking |-> w.sum.blocking]
        /\ n.rep = [pairs |-> w.rep.pairs \cup pairs, waits |-> w.rep.waits]
    <3> HIDE DEF pairs
    <3> QED  BY NotedParts DEF n
  <2>5. DoCall(f, w, g) = [n EXCEPT !.sum.acquires = acquires, !.sum.blocking = blocking,
                                    !.rep.waits = waits]
    <3>1. n.sum.acquires = w.sum.acquires /\ n.sum.blocking = w.sum.blocking
          /\ n.rep.waits = w.rep.waits
      BY <2>4
    <3> QED  BY <2>3, <3>1
  <2>6. DoCall(f, w, g) = [state |-> w.state, sum |-> sum, rep |-> rep, in |-> w.in]
    <3> HIDE DEF acquires, blocking, waits, pairs
    <3> DEFINE newSum == [n.sum EXCEPT !.acquires = acquires, !.blocking = blocking]
               newRep == [n.rep EXCEPT !.waits = waits]
    <3>1. DoCall(f, w, g) = [n EXCEPT !.sum = newSum, !.rep = newRep]  BY <2>5
    <3>2. newSum = sum
      <4> DEFINE s == n.sum
      <4>1. s = [acquires |-> s.acquires, pairs |-> s.pairs, blocking |-> s.blocking]
        BY <2>4
      <4>2. s.pairs = w.sum.pairs \cup pairs  BY <2>4
      <4> HIDE DEF s
      <4>3. [s EXCEPT !.acquires = acquires, !.blocking = blocking] =
              [acquires |-> acquires, pairs |-> s.pairs, blocking |-> blocking]
        BY <4>1, ExceptAcquiresBlocking
      <4> QED  BY <4>2, <4>3 DEF s
    <3>3. newRep = rep
      <4>1. n.rep = [pairs |-> w.rep.pairs \cup pairs, waits |-> w.rep.waits]  BY <2>4
      <4> QED  BY <4>1
    <3> HIDE DEF newSum, newRep
    <3>4. DoCall(f, w, g) = [state |-> n.state, sum |-> newSum, rep |-> newRep, in |-> n.in]
      BY <2>4, <3>1, ExceptSumRep
    <3> QED  BY <2>4, <3>2, <3>3, <3>4
  <2>7. ASSUME NEW c \in Class
        PROVE  /\ acquires[c] \in (SUBSET Class) \cup {None}
               /\ Told(w.sum.acquires[c], acquires[c])
    <3>1. w.sum.acquires[c] \in (SUBSET Class) \cup {None}  BY <1>p DEF Parts
    <3>2. CASE cs.acquires[c] # None
      <4>1. released \cup cs.acquires[c] \in SUBSET Class  BY <1>1, <2>2, <3>2
      <4>2. acquires[c] = Keep(w.sum.acquires[c], released \cup cs.acquires[c])  BY <3>2
      <4> QED  BY <3>1, <4>1, <4>2, KeepIsTold
    <3>3. CASE cs.acquires[c] = None
      <4>1. acquires[c] = w.sum.acquires[c]  BY <3>3
      <4> QED  BY <3>1, <4>1, ToldSame
    <3> QED  BY <3>2, <3>3
  <2>8. acquires \in [Class -> (SUBSET Class) \cup {None}]
    <3> DEFINE a(c) == IF c \in acquired
                       THEN Keep(w.sum.acquires[c], released \cup cs.acquires[c])
                       ELSE w.sum.acquires[c]
    <3>1. \A c \in Class : a(c) \in (SUBSET Class) \cup {None}  BY <2>7
    <3> HIDE DEF a
    <3>2. [c \in Class |-> a(c)] \in [Class -> (SUBSET Class) \cup {None}]  BY <3>1
    <3> QED  BY <3>2 DEF a
  <2>9. blocking \in (SUBSET Class) \cup {None} /\ Told(w.sum.blocking, blocking)
    <3>1. w.sum.blocking \in (SUBSET Class) \cup {None}  BY <1>p DEF Parts
    <3>2. CASE blocks
      <4>1. released \cup cs.blocking \in SUBSET Class  BY <1>1, <2>2, <3>2
      <4> QED  BY <3>1, <3>2, <4>1, KeepIsTold
    <3>3. CASE ~blocks  BY <3>1, <3>3, ToldSame
    <3> QED  BY <3>2, <3>3
  <2>10. pairs \subseteq Class \X Class  BY <1>1
  <2>11. waits \in SUBSET Class /\ w.rep.waits \subseteq waits  BY <1>1, <1>p DEF Parts
  <2> HIDE DEF acquires, blocking, pairs, waits
  <2>12. sum \in Summary
    <3>1. w.sum.pairs \cup pairs \in SUBSET (Class \X Class)  BY <2>10, <1>p DEF Parts
    <3> QED  BY <2>8, <2>9, <3>1 DEF Summary
  <2>13. rep \in Report
    <3>1. w.rep.pairs \cup pairs \in SUBSET (Class \X Class)  BY <2>10, <1>p DEF Parts
    <3> QED  BY <2>11, <3>1 DEF Report
  <2>14. More(w.sum, sum) /\ w.rep.pairs \subseteq rep.pairs /\ w.rep.waits \subseteq rep.waits
    BY <2>7, <2>9, <2>11 DEF More
  <2> HIDE DEF sum, rep
  <2> QED  BY <1>1, <2>6, <2>12, <2>13, <2>14, Assembled
<1> QED  BY <1>2, <1>3

\* Every instruction goes on with a walk.
LEMMA VisitGrows ==
    ASSUME body \in Programs, summary \in [Function -> Summary],
           NEW f \in Function, NEW w \in Walk(f), NEW i \in Instr
    PROVE  Onward(f, w, Visit(f, w, i))
<1>1. /\ i.do \in {"lock", "unlock", "call", "wait"}
      /\ i.do \in {"lock", "unlock"} => i.of \in Class
      /\ i.do = "call" => i.of \in Function
  BY InstrParts
<1>2. CASE i.do = "lock"  BY <1>1, <1>2, DoLockGrows DEF Visit
<1>3. CASE i.do = "unlock"  BY <1>1, <1>3, DoUnlockGrows DEF Visit
<1>4. CASE i.do = "call"  BY <1>1, <1>4, DoCallGrows DEF Visit
<1>5. CASE i.do = "wait"  BY <1>1, <1>5, DoWaitGrows DEF Visit
<1> QED  BY <1>1, <1>2, <1>3, <1>4, <1>5

LEMMA InstructionGrows ==
    ASSUME body \in Programs, summary \in [Function -> Summary],
           NEW f \in Function, NEW w \in Walk(f), NEW i \in Instr
    PROVE  Onward(f, w, Instruction(f, w, i))
<1>1. CASE i.deferred
  <2> DEFINE state == [w.state EXCEPT !.deferred = Append(w.state.deferred, i)]
  <2>p. Parts(f, w)  BY WalkParts
  <2>1. Instruction(f, w, i) = [w EXCEPT !.state = state]  BY <1>1 DEF Instruction
  <2>2. state \in State
    <3>1. w.state \in State  BY <2>p DEF Parts
    <3> HIDE DEF Instr
    <3>2. Append(w.state.deferred, i) \in Seq(Instr)  BY <3>1 DEF State
    <3> QED  BY <3>1, <3>2 DEF State
  <2> HIDE DEF state
  <2>3. Instruction(f, w, i) = [state |-> state, sum |-> w.sum, rep |-> w.rep, in |-> w.in]
    BY <2>1, <2>p DEF Parts
  <2>4. w.sum \in Summary /\ w.rep \in Report  BY DEF Walk
  <2>5. More(w.sum, w.sum)  BY <2>4, MoreIsOrder
  <2> QED  BY <2>2, <2>3, <2>4, <2>5, Assembled
<1>2. CASE ~i.deferred  BY <1>2, VisitGrows DEF Instruction
<1> QED  BY <1>1, <1>2

\* One step after another.
LEMMA AddsIsOrder ==
    ASSUME NEW f, NEW u \in Walk(f), NEW v \in Walk(f), NEW w \in Walk(f)
    PROVE  Adds(u, u) /\ (Adds(u, v) /\ Adds(v, w) => Adds(u, w))
<1> HIDE DEF Summary
<1>1. u.sum \in Summary /\ v.sum \in Summary /\ w.sum \in Summary  BY DEF Walk
<1> QED  BY <1>1, MoreIsOrder DEF Adds

LEMMA OnwardOn ==
    ASSUME NEW f, NEW u \in Walk(f), NEW v, NEW w, Onward(f, u, v), Onward(f, v, w)
    PROVE  Onward(f, u, w)
<1> HIDE DEF Walk
<1> QED  BY AddsIsOrder DEF Onward

LEMMA OnwardSame == ASSUME NEW f, NEW w \in Walk(f)  PROVE Onward(f, w, w)
<1> HIDE DEF Walk
<1> QED  BY AddsIsOrder DEF Onward

\* What holds of each step of a walk holds of all of it.
LEMMA Chained ==
    ASSUME NEW f, NEW N \in Nat, NEW s, s[0] \in Walk(f),
           \A n \in 1 .. N : s[n - 1] \in Walk(f) => Onward(f, s[n - 1], s[n])
    PROVE  \A n \in 0 .. N, m \in 0 .. N : m <= n => s[m] \in Walk(f) /\ Onward(f, s[m], s[n])
<1> HIDE DEF Walk
<1> DEFINE S == {n \in Nat : n <= N => \A m \in 0 .. n : s[m] \in Walk(f) /\ Onward(f, s[m], s[n])}
<1>1. 0 \in S  BY OnwardSame
<1>2. ASSUME NEW n \in Nat, n \in S  PROVE n + 1 \in S
  <2> SUFFICES ASSUME n + 1 <= N, NEW m \in 0 .. n + 1
               PROVE  s[m] \in Walk(f) /\ Onward(f, s[m], s[n + 1])
    OBVIOUS
  <2>1. \A k \in 0 .. n : s[k] \in Walk(f) /\ Onward(f, s[k], s[n])  BY <1>2
  <2>2. n + 1 \in 1 .. N /\ (n + 1) - 1 = n /\ n \in 0 .. n  OBVIOUS
  <2>3. Onward(f, s[n], s[n + 1])  BY <2>1, <2>2
  <2>4. s[n + 1] \in Walk(f)  BY <2>3 DEF Onward
  <2>5. CASE m = n + 1  BY <2>4, <2>5, OnwardSame
  <2>6. CASE m # n + 1
    <3>1. m \in 0 .. n  BY <2>6
    <3>2. s[m] \in Walk(f) /\ Onward(f, s[m], s[n])  BY <2>1, <3>1
    <3> QED  BY <2>3, <3>2, OnwardOn
  <2> QED  BY <2>5, <2>6
<1> HIDE DEF S
<1>3. \A n \in Nat : n \in S  BY <1>1, <1>2, NatSetInduction
<1> QED  BY <1>3 DEF S

\* The walks after each prefix of the instructions of a block, and after each of the
\* calls that run when the function returns.
Onwards(f, N, s) == \A n \in 0 .. N, m \in 0 .. N : m <= n => s[m] \in Walk(f) /\ Onward(f, s[m], s[n])
Goes(f, w, code, s) ==
    /\ s[0] = w /\ \A n \in 1 .. Len(code) : s[n] = Instruction(f, s[n - 1], code[n])
    /\ Onwards(f, Len(code), s)
Returns(f, w, calls, s) ==
    /\ s[0] = w /\ \A n \in 1 .. Len(calls) : s[n] = Visit(f, s[n - 1], calls[n])
    /\ Onwards(f, Len(calls), s)

LEMMA InstructionsGrow ==
    ASSUME body \in Programs, summary \in [Function -> Summary],
           NEW f \in Function, NEW w \in Walk(f), NEW code \in Seq(Instr)
    PROVE  Goes(f, w, code, Instructions(f, w, code))
<1> HIDE DEF Instr, Walk
<1> DEFINE N == Len(code)
           step == [n \in 1 .. N |-> [x \in Walk(f) |-> Instruction(f, x, code[n])]]
           Is(s) == s = [n \in 0 .. N |-> IF n = 0 THEN w ELSE Instruction(f, s[n - 1], code[n])]
           after == Instructions(f, w, code)
<1>1. N \in Nat /\ \A n \in 1 .. N : code[n] \in Instr  OBVIOUS
<1>2. \A n \in 1 .. N, x \in Walk(f) : Onward(f, x, Instruction(f, x, code[n]))
  BY <1>1, InstructionGrows
<1>3. \A n \in 1 .. N, x \in Walk(f) : Instruction(f, x, code[n]) \in Walk(f)
  BY <1>2 DEF Onward
<1>4. step \in [1 .. N -> [Walk(f) -> Walk(f)]]  BY <1>3
<1>5. \A n \in 1 .. N, x \in Walk(f) : step[n][x] = Instruction(f, x, code[n])  OBVIOUS
<1>6. \E s : Is(s)
  <2> HIDE DEF step, N
  <2>1. PICK s \in [0 .. N -> Walk(f)] : s[0] = w /\ \A n \in 1 .. N : s[n] = step[n][s[n - 1]]
    <3> DEFINE X == Walk(f)
    <3>1. w \in X /\ N \in Nat /\ step \in [1 .. N -> [X -> X]]  BY <1>1, <1>4
    <3> HIDE DEF X
    <3>2. HasRun(X, w, N, step)  BY <3>1, Iterated
    <3> QED  BY <3>2 DEF X, HasRun
  <2>2. ASSUME NEW n \in 0 .. N
        PROVE  s[n] = IF n = 0 THEN w ELSE Instruction(f, s[n - 1], code[n])
    <3>1. CASE n = 0  BY <2>1, <3>1
    <3>2. CASE n # 0
      <4>1. n \in 1 .. N /\ n - 1 \in 0 .. N  BY <1>1, <3>2
      <4>2. s[n] = step[n][s[n - 1]] /\ s[n - 1] \in Walk(f)  BY <2>1, <4>1
      <4> QED  BY <1>5, <3>2, <4>1, <4>2
    <3> QED  BY <3>1, <3>2
  <2>3. s = [n \in 0 .. N |-> s[n]]  BY <2>1
  <2>4. Is(s)  BY <2>2, <2>3
  <2> QED  BY <2>4
<1>7. after = CHOOSE s : Is(s)  BY DEF Instructions
<1> HIDE DEF Is, after
<1>8. Is(after)  BY <1>6, <1>7
<1> HIDE DEF N
<1>9. \A k \in 0 .. N : after[k] = IF k = 0 THEN w ELSE Instruction(f, after[k - 1], code[k])
  BY <1>8 DEF Is
<1>10. after[0] = w  BY <1>1, <1>9
<1>11. ASSUME NEW n \in 1 .. N, after[n - 1] \in Walk(f)  PROVE Onward(f, after[n - 1], after[n])
  BY <1>1, <1>2, <1>9, <1>11
<1>12. \A n \in 1 .. N : after[n] = Instruction(f, after[n - 1], code[n])  BY <1>1, <1>9
<1>13. Onwards(f, N, after)
  <2>1. after[0] \in Walk(f)  BY <1>10
  <2> QED  BY <1>1, <1>11, <2>1, Chained DEF Onwards
<1> QED  BY <1>10, <1>12, <1>13 DEF Goes, after, N

LEMMA DeferredsGrow ==
    ASSUME body \in Programs, summary \in [Function -> Summary],
           NEW f \in Function, NEW w \in Walk(f), NEW calls \in Seq(Instr)
    PROVE  Returns(f, w, calls, Deferreds(f, w, calls))
<1> HIDE DEF Instr, Walk
<1> DEFINE N == Len(calls)
           step == [n \in 1 .. N |-> [x \in Walk(f) |-> Visit(f, x, calls[n])]]
           Is(s) == s = [n \in 0 .. N |-> IF n = 0 THEN w ELSE Visit(f, s[n - 1], calls[n])]
           after == Deferreds(f, w, calls)
<1>1. N \in Nat /\ \A n \in 1 .. N : calls[n] \in Instr  OBVIOUS
<1>2. \A n \in 1 .. N, x \in Walk(f) : Onward(f, x, Visit(f, x, calls[n]))
  BY <1>1, VisitGrows
<1>3. \A n \in 1 .. N, x \in Walk(f) : Visit(f, x, calls[n]) \in Walk(f)
  BY <1>2 DEF Onward
<1>4. step \in [1 .. N -> [Walk(f) -> Walk(f)]]  BY <1>3
<1>5. \A n \in 1 .. N, x \in Walk(f) : step[n][x] = Visit(f, x, calls[n])  OBVIOUS
<1>6. \E s : Is(s)
  <2> HIDE DEF step, N
  <2>1. PICK s \in [0 .. N -> Walk(f)] : s[0] = w /\ \A n \in 1 .. N : s[n] = step[n][s[n - 1]]
    <3> DEFINE X == Walk(f)
    <3>1. w \in X /\ N \in Nat /\ step \in [1 .. N -> [X -> X]]  BY <1>1, <1>4
    <3> HIDE DEF X
    <3>2. HasRun(X, w, N, step)  BY <3>1, Iterated
    <3> QED  BY <3>2 DEF X, HasRun
  <2>2. ASSUME NEW n \in 0 .. N
        PROVE  s[n] = IF n = 0 THEN w ELSE Visit(f, s[n - 1], calls[n])
    <3>1. CASE n = 0  BY <2>1, <3>1
    <3>2. CASE n # 0
      <4>1. n \in 1 .. N /\ n - 1 \in 0 .. N  BY <1>1, <3>2
      <4>2. s[n] = step[n][s[n - 1]] /\ s[n - 1] \in Walk(f)  BY <2>1, <4>1
      <4> QED  BY <1>5, <3>2, <4>1, <4>2
    <3> QED  BY <3>1, <3>2
  <2>3. s = [n \in 0 .. N |-> s[n]]  BY <2>1
  <2>4. Is(s)  BY <2>2, <2>3
  <2> QED  BY <2>4
<1>7. after = CHOOSE s : Is(s)  BY DEF Deferreds
<1> HIDE DEF Is, after
<1>8. Is(after)  BY <1>6, <1>7
<1> HIDE DEF N
<1>9. \A k \in 0 .. N : after[k] = IF k = 0 THEN w ELSE Visit(f, after[k - 1], calls[k])
  BY <1>8 DEF Is
<1>10. after[0] = w  BY <1>1, <1>9
<1>11. ASSUME NEW n \in 1 .. N, after[n - 1] \in Walk(f)  PROVE Onward(f, after[n - 1], after[n])
  BY <1>1, <1>2, <1>9, <1>11
<1>12. \A n \in 1 .. N : after[n] = Visit(f, after[n - 1], calls[n])  BY <1>1, <1>9
<1>13. Onwards(f, N, after)
  <2>1. after[0] \in Walk(f)  BY <1>10
  <2> QED  BY <1>1, <1>11, <2>1, Chained DEF Onwards
<1> QED  BY <1>10, <1>12, <1>13 DEF Returns, after, N

LEMMA ReverseTypes == ASSUME NEW S, NEW s \in Seq(S)  PROVE Reverse(s) \in Seq(S) /\ Len(Reverse(s)) = Len(s)
<1>1. \A i \in 1 .. Len(s) : s[Len(s) - i + 1] \in S  OBVIOUS
<1>2. [i \in 1 .. Len(s) |-> s[Len(s) - i + 1]] \in [1 .. Len(s) -> S]  BY <1>1
<1> QED  BY <1>2 DEF Reverse

\* The walks in a block: as it is entered, after each of its instructions, and after
\* each of the deferred calls.
EnterIn(w, b) == [w EXCEPT !.state = IF w.in[b] = None THEN Unreached ELSE w.in[b]]
PosIn(f, w, b) == Instructions(f, EnterIn(w, b), body[f].code[b])
DoneIn(f, w, b) == PosIn(f, w, b)[Len(body[f].code[b])]
RetIn(f, w, b) == Deferreds(f, DoneIn(f, w, b), Reverse(DoneIn(f, w, b).state.deferred))

\* Of what a walk has found to be held on the way to a block, nothing is lost.
Wider(x, y) == (\A c \in Class : x.counts[c] <= y.counts[c]) /\ y.released \subseteq x.released
Further(f, w, v) ==
    /\ v \in Walk(f) /\ Adds(w, v)
    /\ \A s \in 1 .. Len(body[f].code) : w.in[s] # None => v.in[s] # None /\ Wider(w.in[s], v.in[s])

\* What a block does to a walk.
Passes(f, w, b, v) ==
    /\ EnterIn(w, b) \in Walk(f) /\ EnterIn(w, b).in = w.in
    /\ Goes(f, EnterIn(w, b), body[f].code[b], PosIn(f, w, b))
    /\ body[f].succs[b] = <<>> =>
          Returns(f, DoneIn(f, w, b), Reverse(DoneIn(f, w, b).state.deferred), RetIn(f, w, b))
    /\ v \in Walk(f) /\ Adds(w, v) /\ Adds(DoneIn(f, w, b), v)
    /\ body[f].succs[b] = <<>> => Adds(RetIn(f, w, b)[Len(DoneIn(f, w, b).state.deferred)], v)
    /\ \A s \in 1 .. Len(body[f].code) :
          v.in[s] = IF s \notin Range(body[f].succs[b]) THEN w.in[s]
                    ELSE IF w.in[s] = None THEN DoneIn(f, w, b).state
                    ELSE Merge(w.in[s], DoneIn(f, w, b).state)
LEMMA WalkBlockGrows ==
    ASSUME body \in Programs, summary \in [Function -> Summary],
           NEW f \in Function, NEW w \in Walk(f), NEW b \in 1 .. Len(body[f].code)
    PROVE  Passes(f, w, b, WalkBlock(f, w, b))
<1> HIDE DEF Instr, State, Summary, Report
<1> DEFINE start == IF w.in[b] = None THEN Unreached ELSE w.in[b]
           entered == [w EXCEPT !.state = start]
           code == body[f].code[b]
           pos == Instructions(f, entered, code)
           done == pos[Len(code)]
           calls == Reverse(done.state.deferred)
           ret == Deferreds(f, done, calls)
           exit == IF body[f].succs[b] = <<>> THEN ret[Len(calls)] ELSE done
           reach(s) == IF s \notin Range(body[f].succs[b]) THEN exit.in[s]
                       ELSE IF exit.in[s] = None THEN done.state ELSE Merge(exit.in[s], done.state)
           in == [s \in DOMAIN exit.in |-> reach(s)]
<1>0. /\ entered = EnterIn(w, b) /\ pos = PosIn(f, w, b) /\ done = DoneIn(f, w, b)
      /\ ret = RetIn(f, w, b)
  BY DEF EnterIn, PosIn, DoneIn, RetIn
<1>1. w.in \in [1 .. Len(body[f].code) -> State \cup {None}] /\ w.sum \in Summary /\ w.rep \in Report
  BY DEF Walk
<1>2. start \in State
  <2>1. w.in[b] \in State \cup {None} /\ Unreached \in State  BY <1>1, StartTypes
  <2> QED  BY <2>1
<1>3. code \in Seq(Instr)  BY BodyParts
<1>9. WalkBlock(f, w, b) = [exit EXCEPT !.in = in]
  BY DEF WalkBlock, start, entered, code, done
<1> HIDE DEF start, code
<1>4. entered \in Walk(f) /\ entered.sum = w.sum /\ entered.rep = w.rep /\ entered.in = w.in
  <2>1. entered = [state |-> start, sum |-> w.sum, rep |-> w.rep, in |-> w.in]
    <3>1. Parts(f, w)  BY WalkParts
    <3>2. w = [state |-> w.state, sum |-> w.sum, rep |-> w.rep, in |-> w.in]  BY <3>1 DEF Parts
    <3> QED  BY <3>2
  <2> QED  BY <1>1, <1>2, <2>1 DEF Walk
<1> HIDE DEF entered
<1>5. Adds(w, entered)  BY <1>4, AddsIsOrder DEF Adds
<1>6. Goes(f, entered, code, pos)  BY <1>3, <1>4, InstructionsGrow
<1> HIDE DEF pos
<1>7. done \in Walk(f) /\ Onward(f, entered, done) /\ done.state \in State
  <2>1. 0 \in 0 .. Len(code) /\ Len(code) \in 0 .. Len(code) /\ 0 <= Len(code)  BY <1>3
  <2>2. pos[0] = entered /\ pos[0] \in Walk(f) /\ Onward(f, pos[0], done)
        /\ done \in Walk(f)
    BY <1>6, <2>1 DEF Goes, Onwards
  <2>3. done.state \in State  BY <2>2 DEF Walk
  <2> QED  BY <2>2, <2>3
<1> HIDE DEF done
<1>8. calls \in Seq(Instr) /\ Len(calls) = Len(done.state.deferred)
  <2>1. done.state.deferred \in Seq(Instr)  BY <1>7 DEF State
  <2> QED  BY <2>1, ReverseTypes
<1>10. Returns(f, done, calls, ret)
  <2> HIDE DEF calls
  <2> QED  BY <1>7, <1>8, DeferredsGrow
<1>11. ret[Len(calls)] \in Walk(f) /\ Onward(f, done, ret[Len(calls)])
  <2> HIDE DEF calls
  <2>1. 0 \in 0 .. Len(calls) /\ Len(calls) \in 0 .. Len(calls) /\ 0 <= Len(calls)  BY <1>8
  <2> QED  BY <1>10, <2>1 DEF Returns, Onwards
<1> HIDE DEF calls, ret
<1>12. exit \in Walk(f) /\ Onward(f, done, exit)  BY <1>7, <1>11, OnwardSame
<1>13. body[f].succs[b] = <<>> => exit = ret[Len(calls)]  OBVIOUS
<1> HIDE DEF exit
<1>14. /\ exit.in = w.in /\ exit.in \in [1 .. Len(body[f].code) -> State \cup {None}]
       /\ exit.state \in State /\ exit.sum \in Summary /\ exit.rep \in Report
  BY <1>1, <1>4, <1>7, <1>12 DEF Onward, Walk
<1>15. \A s \in DOMAIN exit.in : reach(s) \in State \cup {None}
  <2> TAKE s \in DOMAIN exit.in
  <2>1. exit.in[s] \in State \cup {None}  BY <1>14
  <2> QED  BY <1>7, <2>1, MergeType
<1>16. in \in [1 .. Len(body[f].code) -> State \cup {None}]
  <2> HIDE DEF reach
  <2> QED  BY <1>14, <1>15
<1>17. \A s \in 1 .. Len(body[f].code) :
          in[s] = IF s \notin Range(body[f].succs[b]) THEN w.in[s]
                  ELSE IF w.in[s] = None THEN done.state ELSE Merge(w.in[s], done.state)
  BY <1>14
<1> HIDE DEF in
<1> DEFINE v == WalkBlock(f, w, b)
<1>18. v = [state |-> exit.state, sum |-> exit.sum, rep |-> exit.rep, in |-> in]
  <2>1. exit = [state |-> exit.state, sum |-> exit.sum, rep |-> exit.rep, in |-> exit.in]
    <3>1. Parts(f, exit)  BY <1>12, WalkParts
    <3> QED  BY <3>1 DEF Parts
  <2> QED  BY <1>9, <2>1
<1> HIDE DEF v
<1>19. v \in Walk(f) /\ v.sum = exit.sum /\ v.rep = exit.rep /\ v.in = in
  BY <1>14, <1>16, <1>18 DEF Walk
<1>20. Adds(exit, v)  BY <1>12, <1>19, AddsIsOrder DEF Adds
<1>21. Adds(done, v)  BY <1>7, <1>12, <1>19, <1>20, AddsIsOrder DEF Onward
<1>22. Adds(w, v)
  <2>1. Adds(entered, v)  BY <1>4, <1>7, <1>19, <1>21, AddsIsOrder DEF Onward
  <2> QED  BY <1>4, <1>5, <1>19, <2>1, AddsIsOrder
<1>23. body[f].succs[b] = <<>> => Adds(ret[Len(done.state.deferred)], v)  BY <1>8, <1>13, <1>20
<1>24. Reverse(DoneIn(f, w, b).state.deferred) = calls /\ body[f].code[b] = code
  BY <1>0 DEF calls, code
<1> QED  BY <1>0, <1>4, <1>6, <1>10, <1>17, <1>19, <1>21, <1>22, <1>23, <1>24 DEF Passes, v

\* A merged state is wider than both.
LEMMA WiderIsOrder ==
    ASSUME NEW x \in State, NEW y \in State, NEW z \in State
    PROVE  /\ Wider(x, x) /\ (Wider(x, y) /\ Wider(y, z) => Wider(x, z))
           /\ Wider(x, Merge(x, y)) /\ Wider(y, Merge(x, y))
<1>1. /\ x.counts \in [Class -> Nat] /\ y.counts \in [Class -> Nat] /\ z.counts \in [Class -> Nat]
  BY DEF State
<1>2. Wider(x, x)  BY <1>1 DEF Wider
<1>3. ASSUME Wider(x, y), Wider(y, z)  PROVE Wider(x, z)
  <2>1. \A c \in Class : x.counts[c] \in Nat /\ y.counts[c] \in Nat /\ z.counts[c] \in Nat  BY <1>1
  <2> QED  BY <1>3, <2>1 DEF Wider
<1>4. Wider(x, Merge(x, y)) /\ Wider(y, Merge(x, y))  BY <1>1 DEF Wider, Merge
<1> QED  BY <1>2, <1>3, <1>4

LEMMA PassesFurther ==
    ASSUME NEW f, NEW w \in Walk(f), NEW b \in 1 .. Len(body[f].code), NEW v, Passes(f, w, b, v),
           body[f].code[b] \in Seq(Instr)
    PROVE  Further(f, w, v)
<1> HIDE DEF State
<1>1. w.in \in [1 .. Len(body[f].code) -> State \cup {None}]  BY DEF Walk
<1>2. v.in \in [1 .. Len(body[f].code) -> State \cup {None}]  BY DEF Passes, Walk
<1>3. ASSUME NEW s \in 1 .. Len(body[f].code), w.in[s] # None
      PROVE  v.in[s] # None /\ Wider(w.in[s], v.in[s])
  <2>1. w.in[s] \in State  BY <1>1, <1>3
  <2>2. CASE s \notin Range(body[f].succs[b])
    <3>1. v.in[s] = w.in[s]  BY <2>2 DEF Passes
    <3> QED  BY <1>3, <2>1, <3>1, WiderIsOrder
  <2>3. CASE s \in Range(body[f].succs[b])
    <3>1. v.in[s] = Merge(w.in[s], DoneIn(f, w, b).state)  BY <1>3, <2>3 DEF Passes
    <3>2. DoneIn(f, w, b).state \in State
      <4> DEFINE n == Len(body[f].code[b])
      <4>1. n \in Nat /\ n \in 0 .. n  OBVIOUS
      <4>2. PosIn(f, w, b)[n] \in Walk(f)  BY <4>1 DEF Passes, Goes, Onwards
      <4> QED  BY <4>2 DEF Walk, DoneIn
    <3>3. v.in[s] \in State  BY <2>1, <3>1, <3>2, MergeType
    <3> QED  BY <2>1, <3>1, <3>2, <3>3, WiderIsOrder, NoneAssumption
  <2> QED  BY <2>2, <2>3
<1> QED  BY <1>3 DEF Passes, Further

\* The walks of a body, after each of its blocks.
FurtherOn(f, N, s) == \A n \in 0 .. N, m \in 0 .. N : m <= n => s[m] \in Walk(f) /\ Further(f, s[m], s[n])
Walked(f, s) ==
    /\ s[0] = NewWalk(f) /\ \A n \in 1 .. Len(body[f].code) : Passes(f, s[n - 1], n, s[n])
    /\ FurtherOn(f, Len(body[f].code), s)

LEMMA FurtherIsOrder ==
    ASSUME NEW f, NEW u \in Walk(f), NEW v \in Walk(f), NEW w \in Walk(f)
    PROVE  Further(f, u, u) /\ (Further(f, u, v) /\ Further(f, v, w) => Further(f, u, w))
<1> HIDE DEF State
<1> DEFINE D == 1 .. Len(body[f].code)
<1>1. \A s \in D : /\ u.in[s] \in State \cup {None} /\ v.in[s] \in State \cup {None}
                     /\ w.in[s] \in State \cup {None}
  BY DEF Walk
<1>2. Adds(u, u) /\ (Adds(u, v) /\ Adds(v, w) => Adds(u, w))  BY AddsIsOrder
<1> HIDE DEF D
<1>3. \A s \in D : u.in[s] # None => Wider(u.in[s], u.in[s])  BY <1>1, WiderIsOrder
<1>4. ASSUME \A s \in D : u.in[s] # None => v.in[s] # None /\ Wider(u.in[s], v.in[s]),
             \A s \in D : v.in[s] # None => w.in[s] # None /\ Wider(v.in[s], w.in[s])
      PROVE  \A s \in D : u.in[s] # None => w.in[s] # None /\ Wider(u.in[s], w.in[s])
  BY <1>1, <1>4, WiderIsOrder
<1> QED  BY <1>2, <1>3, <1>4 DEF Further, D

LEMMA FurtherChained ==
    ASSUME NEW f, NEW N \in Nat, NEW s, s[0] \in Walk(f),
           \A n \in 1 .. N : s[n - 1] \in Walk(f) => Further(f, s[n - 1], s[n])
    PROVE  FurtherOn(f, N, s)
<1> HIDE DEF Walk
<1> DEFINE S == {n \in Nat : n <= N => \A m \in 0 .. n : s[m] \in Walk(f) /\ Further(f, s[m], s[n])}
<1>1. 0 \in S  BY FurtherIsOrder
<1>2. ASSUME NEW n \in Nat, n \in S  PROVE n + 1 \in S
  <2> SUFFICES ASSUME n + 1 <= N, NEW m \in 0 .. n + 1
               PROVE  s[m] \in Walk(f) /\ Further(f, s[m], s[n + 1])
    OBVIOUS
  <2>1. \A k \in 0 .. n : s[k] \in Walk(f) /\ Further(f, s[k], s[n])  BY <1>2
  <2>2. n + 1 \in 1 .. N /\ (n + 1) - 1 = n /\ n \in 0 .. n  OBVIOUS
  <2>3. Further(f, s[n], s[n + 1])  BY <2>1, <2>2
  <2>4. s[n + 1] \in Walk(f)  BY <2>3 DEF Further
  <2>5. CASE m = n + 1  BY <2>4, <2>5, FurtherIsOrder
  <2>6. CASE m # n + 1
    <3>1. m \in 0 .. n  BY <2>6
    <3>2. s[m] \in Walk(f) /\ Further(f, s[m], s[n])  BY <2>1, <3>1
    <3>3. s[n] \in Walk(f)  BY <2>1, <2>2
    <3> QED  BY <2>3, <2>4, <3>2, <3>3, FurtherIsOrder
  <2> QED  BY <2>5, <2>6
<1> HIDE DEF S
<1>3. \A n \in Nat : n \in S  BY <1>1, <1>2, NatSetInduction
<1> QED  BY <1>3 DEF S, FurtherOn

LEMMA BlocksGrow ==
    ASSUME body \in Programs, summary \in [Function -> Summary], NEW f \in Function
    PROVE  Walked(f, Blocks(f)) /\ NewWalk(f).sum = summary[f]
<1> HIDE DEF Walk
<1> DEFINE w == NewWalk(f)
           N == Len(body[f].code)
           step == [n \in 1 .. N |-> [x \in Walk(f) |-> WalkBlock(f, x, n)]]
           Is(s) == s = [n \in 0 .. N |-> IF n = 0 THEN NewWalk(f) ELSE WalkBlock(f, s[n - 1], n)]
           after == Blocks(f)
<1>1. N \in Nat  BY BodyParts
<1>2. w \in Walk(f) /\ w.sum = summary[f]
  <2>1. Entering(f) \in State /\ Unreached \in State
    BY StartTypes
  <2> HIDE DEF State, Summary
  <2>2. NoReport \in Report  BY DEF NoReport, Report
  <2>3. \A b \in 1 .. N : (IF b = 1 THEN Entering(f) ELSE None) \in State \cup {None}
    BY <2>1
  <2>4. [b \in 1 .. N |-> IF b = 1 THEN Entering(f) ELSE None] \in [1 .. N -> State \cup {None}]
    BY <2>3
  <2>5. summary[f] \in Summary  OBVIOUS
  <2> QED  BY <2>1, <2>2, <2>4, <2>5 DEF NewWalk, Walk
<1>3. \A n \in 1 .. N, x \in Walk(f) : Passes(f, x, n, WalkBlock(f, x, n))  BY WalkBlockGrows
<1>4. step \in [1 .. N -> [Walk(f) -> Walk(f)]]
  <2>1. \A n \in 1 .. N, x \in Walk(f) : WalkBlock(f, x, n) \in Walk(f)  BY <1>3 DEF Passes
  <2> QED  BY <2>1
<1>5. \A n \in 1 .. N, x \in Walk(f) : step[n][x] = WalkBlock(f, x, n)  OBVIOUS
<1>6. \E s : Is(s)
  <2> HIDE DEF step, N, w
  <2>1. PICK s \in [0 .. N -> Walk(f)] : s[0] = w /\ \A n \in 1 .. N : s[n] = step[n][s[n - 1]]
    <3> DEFINE X == Walk(f)
    <3>1. w \in X /\ N \in Nat /\ step \in [1 .. N -> [X -> X]]  BY <1>1, <1>2, <1>4
    <3> HIDE DEF X
    <3>2. HasRun(X, w, N, step)  BY <3>1, Iterated
    <3> QED  BY <3>2 DEF X, HasRun
  <2>2. ASSUME NEW n \in 0 .. N
        PROVE  s[n] = IF n = 0 THEN NewWalk(f) ELSE WalkBlock(f, s[n - 1], n)
    <3>1. CASE n = 0  BY <2>1, <3>1 DEF w
    <3>2. CASE n # 0
      <4>1. n \in 1 .. N /\ n - 1 \in 0 .. N  BY <1>1, <3>2
      <4>2. s[n] = step[n][s[n - 1]] /\ s[n - 1] \in Walk(f)  BY <2>1, <4>1
      <4> QED  BY <1>5, <3>2, <4>1, <4>2
    <3> QED  BY <3>1, <3>2
  <2>3. s = [n \in 0 .. N |-> s[n]]  BY <2>1
  <2>4. Is(s)  BY <2>2, <2>3
  <2> QED  BY <2>4
<1>7. after = CHOOSE s : Is(s)  BY DEF Blocks
<1> HIDE DEF Is, after
<1>8. Is(after)  BY <1>6, <1>7
<1> HIDE DEF N, w
<1>9. \A k \in 0 .. N : after[k] = IF k = 0 THEN NewWalk(f) ELSE WalkBlock(f, after[k - 1], k)
  BY <1>8 DEF Is
<1>10. after[0] = w  BY <1>1, <1>9 DEF w
<1>11. \A n \in 1 .. N : after[n - 1] \in Walk(f) => Passes(f, after[n - 1], n, after[n])
  BY <1>1, <1>3, <1>9
<1>12. FurtherOn(f, N, after)
  <2>1. ASSUME NEW n \in 1 .. N, after[n - 1] \in Walk(f)  PROVE Further(f, after[n - 1], after[n])
    <3>1. body[f].code[n] \in Seq(Instr)  BY BodyParts DEF N
    <3> QED  BY <1>11, <2>1, <3>1, PassesFurther DEF N
  <2>2. after[0] \in Walk(f)  BY <1>2, <1>10
  <2> QED  BY <1>1, <2>1, <2>2, FurtherChained
<1>13. \A n \in 1 .. N : Passes(f, after[n - 1], n, after[n])
  <2>1. \A n \in 1 .. N : n - 1 \in 0 .. N /\ n - 1 <= N /\ N \in 0 .. N  BY <1>1
  <2> QED  BY <1>11, <1>12, <2>1 DEF FurtherOn
<1> QED  BY <1>2, <1>10, <1>12, <1>13 DEF Walked, N, w, after

\* The walk of a whole body: it starts from the summary so far.
LEMMA AnalyzeGrows ==
    ASSUME body \in Programs, summary \in [Function -> Summary], NEW f \in Function
    PROVE  Analyze(f) \in Walk(f) /\ More(summary[f], Analyze(f).sum)
<1> HIDE DEF Walk
<1> DEFINE N == Len(body[f].code)
<1>1. N \in Nat /\ 0 \in 0 .. N /\ N \in 0 .. N /\ 0 <= N  BY BodyParts
<1>2. Walked(f, Blocks(f)) /\ NewWalk(f).sum = summary[f]  BY BlocksGrow
<1>3. Further(f, Blocks(f)[0], Analyze(f)) /\ Blocks(f)[0] = NewWalk(f)
  BY <1>1, <1>2 DEF Walked, FurtherOn, Analyze
<1> QED  BY <1>2, <1>3 DEF Further, Adds

-----------------------------------------------------------------------------
(***************************************************************************)
(* The inductive invariant of the analysis.  In a round in which nothing   *)
(* changed so far, every function looked at so far is settled: another     *)
(* walk of it changes nothing.  A round without a change therefore leaves  *)
(* all of them settled, unless the bound on the rounds ended it first.     *)
(***************************************************************************)
Settled(f) == Analyze(f).sum = summary[f]

Ordered == order \in Seq(Function) /\ \A f \in Function : \E i \in DOMAIN order : order[i] = f
AnalysisTyped == /\ body \in Programs /\ Ordered
                 /\ phase \in {"growing", "reporting", "running"}
                 /\ round \in Nat /\ at \in 1 .. Len(order) + 1 /\ changed \in BOOLEAN
                 /\ summary \in [Function -> Summary] /\ reports \in [Function -> Report]
RoundSettled == phase = "growing" /\ ~changed => \A i \in DOMAIN order : i < at => Settled(order[i])
AllSettled == phase # "growing" /\ round <= MaxRounds => \A f \in Function : Settled(f)

IInv == AnalysisTyped /\ RoundSettled /\ AllSettled

\* An order of the functions names each of them.
LEMMA OrderNamesAll ==
    ASSUME NEW s \in SetToSeqs(Function)
    PROVE  s \in Seq(Function) /\ \A f \in Function : \E i \in DOMAIN s : s[i] = f
<1> DEFINE D == 1 .. Cardinality(Function)
<1>1. Cardinality(Function) \in Nat  BY FiniteAssumption, FS_CardinalityType
<1>2. s \in [D -> Function] /\ \A i, j \in D : i # j => s[i] # s[j]  BY DEF SetToSeqs
<1>3. IsFiniteSet(D) /\ Cardinality(D) = Cardinality(Function)
  BY <1>1, FS_Interval
<1> HIDE DEF D
<1>4. s \in Injection(D, Function)  BY <1>2 DEF Injection, IsInjective
<1>5. s \in Surjection(D, Function)  BY <1>3, <1>4, FiniteAssumption, FS_Injection
<1>6. \A f \in Function : \E i \in D : s[i] = f  BY <1>5 DEF Surjection
<1> QED  BY <1>1, <1>2, <1>6 DEF D

\* A walk depends on the bodies and the summaries alone.
LEMMA SameVisit ==
    ASSUME body' = body, summary' = summary, NEW f, NEW w, NEW i
    PROVE  Visit(f, w, i)' = Visit(f, w, i)
<1>0. \A u, c : Acquire(f, u, c)' = Acquire(f, u, c)  BY DEF Acquire, EntryCount
<1>1. \A c : DoLock(f, w, c)' = DoLock(f, w, c)
  BY <1>0 DEF DoLock
<1>2. \A c : DoUnlock(f, w, c)' = DoUnlock(f, w, c)
  BY Zenon DEF DoUnlock, Release, EntryCount
<1>3. \A g : DoCall(f, w, g)' = DoCall(f, w, g)
  BY DEF DoCall
<1> QED  BY <1>1, <1>2, <1>3, Zenon DEF Visit

LEMMA SameInstructions ==
    ASSUME body' = body, summary' = summary, NEW f, NEW w, NEW s
    PROVE  /\ Instructions(f, w, s)' = Instructions(f, w, s)
           /\ Deferreds(f, w, s)' = Deferreds(f, w, s)
<1>1. \A v, i : Visit(f, v, i)' = Visit(f, v, i)  BY SameVisit
<1>2. \A v, i : Instruction(f, v, i)' = Instruction(f, v, i)  BY <1>1 DEF Instruction
<1>3. Instructions(f, w, s)' = Instructions(f, w, s)  BY <1>2 DEF Instructions
<1>4. Deferreds(f, w, s)' = Deferreds(f, w, s)  BY <1>1 DEF Deferreds
<1> QED  BY <1>3, <1>4

\* The walk of a block in terms of its parts.
BlockIs(f, w, b, code, succs, done, exit) ==
    /\ code = body[f].code[b] /\ succs = body[f].succs[b]
    /\ done = Instructions(f, [w EXCEPT !.state = IF w.in[b] = None THEN Unreached ELSE w.in[b]],
                            code)[Len(code)]
    /\ exit = (IF succs = <<>> THEN Deferreds(f, done, Reverse(done.state.deferred))
                                              [Len(Reverse(done.state.deferred))]
               ELSE done)
    => WalkBlock(f, w, b) = [exit EXCEPT !.in = [s \in DOMAIN @ |->
            IF s \notin Range(succs) THEN @[s]
            ELSE IF @[s] = None THEN done.state ELSE Merge(@[s], done.state)]]
LEMMA BlockForm ==
    ASSUME NEW f, NEW w, NEW b, NEW code, NEW succs, NEW done, NEW exit
    PROVE  BlockIs(f, w, b, code, succs, done, exit)
BY DEF BlockIs, WalkBlock

LEMMA SameBlocks ==
    ASSUME body' = body, summary' = summary, NEW f
    PROVE  Blocks(f)' = Blocks(f)
<1>1. \A w, s : Instructions(f, w, s)' = Instructions(f, w, s) /\ Deferreds(f, w, s)' = Deferreds(f, w, s)
  BY SameInstructions
<1>2. ASSUME NEW w, NEW b  PROVE WalkBlock(f, w, b)' = WalkBlock(f, w, b)
  <2> DEFINE entered == [w EXCEPT !.state = IF w.in[b] = None THEN Unreached ELSE w.in[b]]
  <2>1. PICK code : code = body[f].code[b]  OBVIOUS
  <2>2. PICK succs : succs = body[f].succs[b]  OBVIOUS
  <2>3. PICK done : done = Instructions(f, entered, code)[Len(code)]  OBVIOUS
  <2>4. PICK exit : exit = IF succs = <<>>
                           THEN Deferreds(f, done, Reverse(done.state.deferred))
                                                  [Len(Reverse(done.state.deferred))]
                           ELSE done
    OBVIOUS
  <2>5. body'[f].code[b] = code /\ body'[f].succs[b] = succs  BY <2>1, <2>2
  <2>6. (Instructions(f, entered, code)[Len(code)])' = done  BY <1>1, <2>3
  <2>7. (IF succs = <<>> THEN Deferreds(f, done, Reverse(done.state.deferred))
                                                  [Len(Reverse(done.state.deferred))]
                         ELSE done)' = exit
    BY <1>1, <2>4
  <2>8. BlockIs(f, w, b, code, succs, done, exit)  BY BlockForm
  <2>9. BlockIs(f, w, b, code, succs, done, exit)'  BY BlockForm, PTL
  <2> QED  BY <2>1, <2>2, <2>3, <2>4, <2>5, <2>6, <2>7, <2>8, <2>9 DEF BlockIs
<1>3. NewWalk(f)' = NewWalk(f)  BY Zenon DEF NewWalk, Entering
<1> QED  BY <1>2, <1>3 DEF Blocks

LEMMA SameWalk ==
    ASSUME body' = body, summary' = summary, NEW f
    PROVE  Analyze(f)' = Analyze(f)
BY SameBlocks DEF Analyze

LEMMA SameSettled ==
    ASSUME body' = body, summary' = summary, NEW f
    PROVE  Settled(f)' <=> Settled(f)
BY SameWalk DEF Settled

LEMMA InitInv == Init => IInv
<1> SUFFICES ASSUME Init  PROVE IInv  OBVIOUS
<1> USE DEF Init
<1>1. Ordered  BY OrderNamesAll DEF Ordered
<1>2. NoSummary \in Summary /\ NoReport \in Report
  BY DEF NoSummary, Summary, NoReport, Report
<1>3. AnalysisTyped
  <2>1. summary \in [Function -> Summary] /\ reports \in [Function -> Report]  BY <1>2
  <2>2. at \in 1 .. Len(order) + 1  BY <1>1 DEF Ordered
  <2> QED  BY <1>1, <2>1, <2>2 DEF AnalysisTyped
<1>4. RoundSettled  BY <1>1 DEF RoundSettled, Ordered
<1>5. AllSettled  BY DEF AllSettled
<1> QED  BY <1>3, <1>4, <1>5 DEF IInv

\* One function of a round.
LEMMA GrowKeeps == IInv /\ Grow => IInv'
<1> SUFFICES ASSUME IInv, Grow  PROVE IInv'  OBVIOUS
<1> DEFINE next == Analyze(Current).sum
<1>1. /\ body' = body /\ order' = order /\ phase' = phase /\ round' = round /\ reports' = reports
      /\ phase = "growing" /\ at <= Len(order) /\ at' = at + 1
      /\ changed' = (changed \/ next # summary[Current])
      /\ summary' = [summary EXCEPT ![Current] = next]
  BY DEF Grow
<1>2. AnalysisTyped /\ RoundSettled  BY DEF IInv
<1>3. at \in DOMAIN order /\ Current \in Function /\ order \in Seq(Function)
  BY <1>1, <1>2 DEF AnalysisTyped, Ordered, Current
<1>4. next \in Summary
  <2>1. Analyze(Current) \in Walk(Current)  BY <1>2, <1>3, AnalyzeGrows DEF AnalysisTyped
  <2> QED  BY <2>1 DEF Walk
<1> HIDE DEF next
<1>5. AnalysisTyped'  BY <1>1, <1>2, <1>3, <1>4 DEF AnalysisTyped, Ordered
<1>6. RoundSettled'
  <2> SUFFICES ASSUME ~changed', NEW i \in DOMAIN order, i < at + 1
               PROVE  Settled(order[i])'
    BY <1>1 DEF RoundSettled
  <2>1. ~changed /\ next = summary[Current]  BY <1>1
  <2>2. summary' = summary  BY <1>1, <1>2, <2>1 DEF AnalysisTyped
  <2>3. Settled(order[i])
    <3>1. CASE i < at  BY <1>1, <1>2, <2>1, <3>1 DEF RoundSettled
    <3>2. CASE i = at  BY <2>1, <3>2 DEF Settled, next, Current
    <3> QED  BY <1>3, <3>1, <3>2
  <2>4. \A f : Settled(f)' <=> Settled(f)  BY <1>1, <2>2, SameSettled
  <2>5. order' = order  BY <1>1
  <2> QED  BY <2>3, <2>4, <2>5 DEF Settled
<1>7. AllSettled'  BY <1>1 DEF AllSettled
<1> QED  BY <1>5, <1>6, <1>7 DEF IInv

\* The end of a round.
LEMMA EndRoundKeeps == IInv /\ EndRound => IInv'
<1> SUFFICES ASSUME IInv, EndRound  PROVE IInv'  OBVIOUS
<1>1. /\ body' = body /\ order' = order /\ summary' = summary /\ reports' = reports
      /\ phase = "growing" /\ at > Len(order) /\ at' = 1 /\ changed' = FALSE
      /\ \/ changed /\ round <= MaxRounds /\ round' = round + 1 /\ phase' = phase
         \/ ~(changed /\ round <= MaxRounds) /\ round' = round /\ phase' = "reporting"
  BY DEF EndRound
<1>2. AnalysisTyped /\ RoundSettled  BY DEF IInv
<1>3. order \in Seq(Function) /\ at \in Nat /\ round \in Nat
      /\ \A f \in Function : \E i \in DOMAIN order : order[i] = f
  BY <1>2 DEF AnalysisTyped, Ordered
<1>4. AnalysisTyped'
  <2>1. round' \in Nat  BY <1>1, <1>3
  <2>2. at' \in 1 .. Len(order') + 1  BY <1>1, <1>3
  <2>3. phase' \in {"growing", "reporting", "running"}  BY <1>1
  <2> QED  BY <1>1, <1>2, <2>1, <2>2, <2>3 DEF AnalysisTyped, Ordered
<1>5. RoundSettled'
  <2>1. \A i \in DOMAIN order : ~(i < 1)  BY <1>3
  <2> QED  BY <1>1, <2>1 DEF RoundSettled
<1>6. AllSettled'
  <2> SUFFICES ASSUME phase' # "growing", round' <= MaxRounds, NEW f \in Function
               PROVE  Settled(f)'
    BY DEF AllSettled
  <2>1. ~changed  BY <1>1
  <2>2. PICK i \in DOMAIN order : order[i] = f  BY <1>3
  <2>3. i < at  BY <1>1, <1>3
  <2>4. Settled(f)  BY <1>1, <1>2, <2>1, <2>2, <2>3 DEF RoundSettled
  <2> QED  BY <1>1, <2>4, SameSettled
<1> QED  BY <1>4, <1>5, <1>6 DEF IInv

\* The walk that reports writes to a settled summary what it says already.
LEMMA ReportKeeps == IInv /\ ReportOn => IInv'
<1> SUFFICES ASSUME IInv, ReportOn  PROVE IInv'  OBVIOUS
<1> DEFINE walk == Analyze(Current)
<1>1. /\ body' = body /\ order' = order /\ phase' = phase /\ round' = round /\ changed' = changed
      /\ phase = "reporting" /\ at <= Len(order) /\ at' = at + 1
      /\ reports' = [reports EXCEPT ![Current] = walk.rep]
      /\ summary' = [summary EXCEPT ![Current] = walk.sum]
  BY DEF ReportOn
<1>2. AnalysisTyped /\ AllSettled  BY DEF IInv
<1>3. at \in DOMAIN order /\ Current \in Function /\ order \in Seq(Function)
  BY <1>1, <1>2 DEF AnalysisTyped, Ordered, Current
<1>4. walk.sum \in Summary /\ walk.rep \in Report
  <2>1. Analyze(Current) \in Walk(Current)  BY <1>2, <1>3, AnalyzeGrows DEF AnalysisTyped
  <2> QED  BY <2>1 DEF Walk
<1> HIDE DEF walk
<1>5. AnalysisTyped'
  <2>1. summary' \in [Function -> Summary]  BY <1>1, <1>2, <1>4 DEF AnalysisTyped
  <2>2. reports' \in [Function -> Report]  BY <1>1, <1>2, <1>4 DEF AnalysisTyped
  <2>3. at' \in 1 .. Len(order') + 1  BY <1>1, <1>3
  <2> QED  BY <1>1, <1>2, <2>1, <2>2, <2>3 DEF AnalysisTyped, Ordered
<1>6. RoundSettled'  BY <1>1 DEF RoundSettled
<1>7. AllSettled'
  <2> SUFFICES ASSUME round' <= MaxRounds, NEW f \in Function  PROVE Settled(f)'
    BY <1>1 DEF AllSettled
  <2>1. \A g \in Function : Settled(g)  BY <1>1, <1>2 DEF AllSettled
  <2>2. walk.sum = summary[Current]  BY <1>3, <2>1 DEF Settled, walk
  <2>3. summary' = summary  BY <1>1, <1>2, <2>2 DEF AnalysisTyped
  <2> QED  BY <1>1, <2>1, <2>3, SameSettled
<1> QED  BY <1>5, <1>6, <1>7 DEF IInv

\* The run of the program leaves the analysis alone.
LEMMA RunKeeps == IInv /\ (Begin \/ RunStep \/ UNCHANGED vars) => IInv'
<1> SUFFICES ASSUME IInv, Begin \/ RunStep \/ UNCHANGED vars  PROVE IInv'  OBVIOUS
<1>1. /\ body' = body /\ order' = order /\ round' = round /\ at' = at /\ changed' = changed
      /\ summary' = summary /\ reports' = reports
      /\ \/ phase' = phase
         \/ phase = "reporting" /\ phase' = "running"
  BY DEF Begin, RunStep, RunDefer, RunInstr, RunBranch, RunReturn, analysis, vars
<1>2. AnalysisTyped'  BY <1>1 DEF IInv, AnalysisTyped, Ordered
<1>3. \A f : Settled(f)' <=> Settled(f)  BY <1>1, SameSettled
<1>4. RoundSettled'
  <2> SUFFICES ASSUME phase = "growing", ~changed, NEW i \in DOMAIN order, i < at
               PROVE  Settled(order[i])'
    BY <1>1 DEF RoundSettled
  <2>1. Settled(order[i])  BY DEF IInv, RoundSettled
  <2>2. order' = order  BY <1>1
  <2> QED  BY <1>3, <2>1, <2>2 DEF Settled
<1>5. AllSettled'
  <2>1. AllSettled  BY DEF IInv
  <2> QED  BY <1>1, <1>3, <2>1 DEF AllSettled
<1> QED  BY <1>2, <1>4, <1>5 DEF IInv

LEMMA Invariant == Spec => []IInv
<1>1. IInv /\ [Next]_vars => IInv'
  BY GrowKeeps, EndRoundKeeps, ReportKeeps, RunKeeps DEF Next, Analysis
<1> QED  BY InitInv, <1>1, PTL DEF Spec

\* When the reports are made, and ever after, another walk of any function would
\* change no summary, whatever the program and the order of its functions, unless the
\* bound on the rounds ended them: the fixpoint of analyzePackage is one.
THEOREM FixpointIsReached == Spec => [](round <= MaxRounds => ReportsAreSettled)
<1>1. IInv => (round <= MaxRounds => ReportsAreSettled)
  BY DEF IInv, AllSettled, Settled, ReportsAreSettled
<1> QED  BY Invariant, <1>1, PTL

\* What a summary says is never taken back, in the rounds and in the last walk, however
\* the calls of the functions are entangled: a caller is only ever told more.
THEOREM NothingIsTakenBack == Spec => SummariesGrow
<1>1. ASSUME IInv, [Next]_vars
      PROVE  \A f \in Function : More(summary[f], summary'[f])
  <2>1. body \in Programs /\ summary \in [Function -> Summary] /\ Ordered /\ at \in Nat \ {0}
    BY <1>1 DEF IInv, AnalysisTyped, Ordered
  <2> SUFFICES ASSUME NEW f \in Function  PROVE More(summary[f], summary'[f])  OBVIOUS
  <2>2. More(summary[f], summary[f])  BY <2>1, MoreIsOrder
  <2>3. CASE summary' = [summary EXCEPT ![Current] = Analyze(Current).sum]
    <3>1. CASE f = Current
      <4>1. summary'[f] = Analyze(f).sum  BY <2>1, <2>3, <3>1
      <4> QED  BY <2>1, <4>1, AnalyzeGrows
    <3>2. CASE f # Current  BY <2>1, <2>2, <2>3, <3>2
    <3> QED  BY <3>1, <3>2
  <2>4. CASE summary' = summary  BY <2>2, <2>4
  <2>5. CASE Grow  BY <2>3, <2>5 DEF Grow
  <2>6. CASE ReportOn  BY <2>3, <2>6 DEF ReportOn
  <2>7. CASE EndRound \/ Begin \/ RunStep \/ UNCHANGED vars
    BY <2>4, <2>7 DEF EndRound, Begin, RunStep, RunDefer, RunInstr, RunBranch, RunReturn, analysis, vars
  <2> QED  BY <1>1, <2>5, <2>6, <2>7 DEF Next, Analysis
<1>2. IInv /\ [Next]_vars =>
        [\A f \in Function :
           /\ summary[f].pairs \subseteq summary'[f].pairs
           /\ Told(summary[f].blocking, summary'[f].blocking)
           /\ \A c \in Class : Told(summary[f].acquires[c], summary'[f].acquires[c])]_vars
  BY <1>1 DEF More
<1> QED  BY Invariant, <1>2, PTL DEF Spec, SummariesGrow

-----------------------------------------------------------------------------
(***************************************************************************)
(* The types of a run: a frame is in a block of its function, and came to  *)
(* the blocks it passed with some owners and some deferred calls.          *)
(***************************************************************************)
Owners == [Class -> 0 .. MaxDepth]
Histories == UNION {[D -> Owners \X Seq(Instr)] : D \in SUBSET Nat}
FrameType == [fn : Function, block : Nat, next : Nat \ {0}, deferred : Seq(Instr), called : Owners,
              came : Histories]
InBody(frame) == frame \in FrameType /\ frame.block \in DOMAIN body[frame.fn].code
ThreadTyped == /\ owner \in Owners
               /\ thread \in Seq(FrameType) /\ Len(thread) <= MaxDepth
               /\ \A i \in DOMAIN thread : InBody(thread[i])

LEMMA NewFrameTypes ==
    ASSUME body \in Programs, NEW f \in Function, NEW held \in Owners
    PROVE  InBody(NewFrame(f, held))
<1> HIDE DEF Owners, Instr
<1> DEFINE came == [s \in {1} |-> <<held, <<>>>>]
<1>1. <<>> \in Seq(Instr)  OBVIOUS
<1>2. came \in [{1} -> Owners \X Seq(Instr)]  BY <1>1
<1>3. came \in Histories
  <2>1. {1} \in SUBSET Nat  OBVIOUS
  <2> QED  BY <1>2, <2>1 DEF Histories
<1> HIDE DEF came
<1>4. NewFrame(f, held) = [fn |-> f, block |-> 1, next |-> 1, deferred |-> <<>>,
                           called |-> held, came |-> came]
  BY DEF NewFrame, came
<1>5. 1 \in DOMAIN body[f].code  BY BodyParts
<1> QED  BY <1>1, <1>3, <1>4, <1>5 DEF InBody, FrameType

\* The innermost frame, and what it is about to run.
LEMMA FrameTypes ==
    ASSUME body \in Programs, ThreadTyped, thread # <<>>
    PROVE  /\ Depth \in DOMAIN thread /\ Depth \in 1 .. MaxDepth /\ DOMAIN thread = 1 .. Depth
           /\ Frame \in FrameType /\ Frame.fn \in Function
           /\ Frame.block \in DOMAIN body[Frame.fn].code
           /\ Code \in Seq(Instr) /\ Range(Succs) \subseteq DOMAIN body[Frame.fn].code
           /\ InBlock => Code[Frame.next] \in Instr
           /\ About \in Instr \cup {None}
<1> HIDE DEF Instr, FrameType
<1>1. Depth \in DOMAIN thread /\ Depth \in 1 .. MaxDepth /\ DOMAIN thread = 1 .. Depth
  BY DEF ThreadTyped, Depth
<1>2. InBody(Frame)  BY <1>1 DEF ThreadTyped, Frame
<1>3. Frame \in FrameType /\ Frame.block \in DOMAIN body[Frame.fn].code  BY <1>2 DEF InBody
<1>4. Frame.fn \in Function /\ Frame.next \in Nat \ {0} /\ Frame.deferred \in Seq(Instr)
  BY <1>3 DEF FrameType
<1>5. Code \in Seq(Instr)  BY <1>3, <1>4, BodyParts DEF Code
<1>6. Range(Succs) \subseteq DOMAIN body[Frame.fn].code
  <2>1. DOMAIN body[Frame.fn].code = DOMAIN body[Frame.fn].succs
    <3>1. body[Frame.fn] \in Body  BY <1>4, ProgramAssumption
    <3>2. body[Frame.fn].succs \in Seq(Seq(Nat))  BY <3>1 DEF Body
    <3> DEFINE succs == body[Frame.fn].succs
    <3>3. succs \in Seq(Seq(Nat))  BY <3>2
    <3> HIDE DEF succs
    <3>4. DOMAIN succs = 1 .. Len(succs)  BY <3>3
    <3> QED  BY <1>4, <3>4, BodyParts DEF succs
  <2> QED  BY <1>3, <1>4, <2>1, ProgramAssumption DEF Succs
<1>7. InBlock => Code[Frame.next] \in Instr
  <2> SUFFICES ASSUME InBlock  PROVE Code[Frame.next] \in Instr  OBVIOUS
  <2>1. Frame.next \in 1 .. Len(Code)  BY <1>4, <1>5 DEF InBlock
  <2> QED  BY <1>5, <2>1
<1>8. About \in Instr \cup {None}
  <2>1. Frame.deferred # <<>> => Last(Frame.deferred) \in Instr  BY <1>4 DEF Last
  <2> QED  BY <1>7, <2>1 DEF About
<1> QED  BY <1>1, <1>3, <1>4, <1>5, <1>6, <1>7, <1>8

LEMMA FrontTypes ==
    ASSUME NEW S, NEW s \in Seq(S), s # <<>>
    PROVE  /\ Front(s) \in Seq(S) /\ Len(Front(s)) = Len(s) - 1
           /\ \A i \in DOMAIN Front(s) : i \in DOMAIN s /\ Front(s)[i] = s[i]
BY DEF Front

\* The innermost frame is replaced, a frame is put on top of it, or it is taken off.
LEMMA Replaced ==
    ASSUME ThreadTyped, thread # <<>>, NEW frame, InBody(frame)
    PROVE  LET t == [thread EXCEPT ![Depth] = frame]
           IN  /\ t \in Seq(FrameType) /\ Len(t) = Len(thread)
               /\ \A i \in DOMAIN t : InBody(t[i])
<1> HIDE DEF FrameType
<1>1. frame \in FrameType  BY DEF InBody
<1>2. Depth \in DOMAIN thread  BY DEF ThreadTyped, Depth
<1> QED  BY <1>1, <1>2 DEF ThreadTyped

LEMMA MovedTypes ==
    ASSUME body \in Programs, ThreadTyped, thread # <<>>, Running, About # None
    PROVE  InBody(Moved(Frame))
<1> HIDE DEF Instr
<1>1. Frame \in FrameType /\ Frame.block \in DOMAIN body[Frame.fn].code  BY FrameTypes
<1>2. CASE InBlock
  <2>1. Moved(Frame) = [Frame EXCEPT !.next = Frame.next + 1]  BY <1>2 DEF Moved
  <2>2. Moved(Frame) \in FrameType  BY <1>1, <2>1 DEF FrameType
  <2> QED  BY <1>1, <2>1, <2>2 DEF InBody, FrameType
<1>3. CASE ~InBlock
  <2>1. Moved(Frame) = [Frame EXCEPT !.deferred = Front(Frame.deferred)]  BY <1>3 DEF Moved
  <2>2. Frame.deferred # <<>> /\ Frame.deferred \in Seq(Instr)
    BY <1>1, <1>3 DEF About, FrameType
  <2>3. Front(Frame.deferred) \in Seq(Instr)  BY <2>2, FrontTypes
  <2>4. Moved(Frame) \in FrameType  BY <1>1, <2>1, <2>3 DEF FrameType
  <2> QED  BY <1>1, <2>1, <2>4 DEF InBody, FrameType
<1> QED  BY <1>2, <1>3

LEMMA StepTypes == AnalysisTyped /\ ThreadTyped /\ [Next]_vars => ThreadTyped'
<1> SUFFICES ASSUME AnalysisTyped, ThreadTyped, [Next]_vars  PROVE ThreadTyped'  OBVIOUS
<1> HIDE DEF FrameType
<1>1. body \in Programs /\ body' = body
  BY DEF AnalysisTyped, Next, Analysis, Grow, EndRound, ReportOn, Begin,
         RunStep, RunDefer, RunInstr, RunBranch, RunReturn, analysis, vars
<1>2. \A x : InBody(x)' <=> InBody(x)  BY <1>1 DEF InBody
<1>3. CASE UNCHANGED <<thread, owner>>  BY <1>2, <1>3 DEF ThreadTyped
<1>4. CASE Begin
  <2>1. PICK f \in Function :
           /\ thread' = <<NewFrame(f, owner')>>
           /\ owner' = [c \in Class |-> IF c \in body[f].entry THEN 1 ELSE 0]
    BY <1>4 DEF Begin
  <2>2. 1 \in 0 .. MaxDepth /\ 0 \in 0 .. MaxDepth  BY BoundAssumption
  <2>3. owner' \in Owners  BY <2>1, <2>2 DEF Owners
  <2>4. PICK held \in Owners : held = owner'  BY <2>3
  <2>5. InBody(NewFrame(f, held))  BY <1>1, NewFrameTypes
  <2>6. PICK frame : frame = NewFrame(f, held)  OBVIOUS
  <2>7. InBody(frame) /\ frame \in FrameType /\ thread' = <<frame>>
    BY <2>1, <2>4, <2>5, <2>6 DEF InBody
  <2>8. thread' \in Seq(FrameType) /\ Len(thread') = 1 /\ \A i \in DOMAIN thread' : thread'[i] = frame
    BY <2>7
  <2> QED  BY <1>2, <2>3, <2>7, <2>8, BoundAssumption DEF ThreadTyped
<1>5. ASSUME NEW frame, InBody(frame), thread # <<>>, thread' = [thread EXCEPT ![Depth] = frame],
             owner' \in Owners
      PROVE  ThreadTyped'
  BY <1>2, <1>5, Replaced DEF ThreadTyped
<1>6. CASE RunDefer
  <2>1. Running /\ InBlock /\ thread # <<>> /\ owner' = owner  BY <1>6 DEF RunDefer, InBlock, Running
  <2>2. Frame \in FrameType /\ Frame.block \in DOMAIN body[Frame.fn].code /\ Code[Frame.next] \in Instr
    BY <1>1, <2>1, FrameTypes
  <2> DEFINE frame == [Frame EXCEPT !.next = Frame.next + 1,
                                    !.deferred = Append(Frame.deferred, Code[Frame.next])]
  <2>3. thread' = [thread EXCEPT ![Depth] = frame]  BY <1>6 DEF RunDefer, Frame
  <2>4. frame \in FrameType
    <3> HIDE DEF Instr
    <3>1. Frame.next + 1 \in Nat \ {0}  BY <2>2 DEF FrameType
    <3>2. Append(Frame.deferred, Code[Frame.next]) \in Seq(Instr)  BY <2>2 DEF FrameType
    <3> QED  BY <2>2, <3>1, <3>2 DEF FrameType
  <2>5. frame.fn = Frame.fn /\ frame.block = Frame.block  BY <2>2 DEF FrameType
  <2> HIDE DEF frame
  <2>6. InBody(frame)  BY <2>2, <2>4, <2>5 DEF InBody
  <2> QED  BY <1>5, <2>1, <2>3, <2>6 DEF ThreadTyped
<1>7. CASE RunInstr
  <2>1. Running /\ thread # <<>> /\ About # None  BY <1>7 DEF RunInstr, Running
  <2>2. InBody(Moved(Frame))  BY <1>1, <2>1, MovedTypes
  <2>3. Depth \in 1 .. MaxDepth /\ About \in Instr  BY <1>1, <2>1, FrameTypes
  <2>4. CASE thread' = [thread EXCEPT ![Depth] = Moved(Frame)]
    <3>1. owner' \in Owners
      <4>1. \/ owner' = [owner EXCEPT ![About.of] = Depth]
            \/ owner' = [owner EXCEPT ![About.of] = 0]
            \/ owner' = owner
            \/ Len(thread') = Len(thread) + 1
        BY <1>7 DEF RunInstr, Depth
      <4>2. Len(thread') = Len(thread) /\ Len(thread) \in Nat  BY <2>2, <2>1, <2>4, Replaced DEF ThreadTyped
      <4>3. 0 \in 0 .. MaxDepth /\ Depth \in 0 .. MaxDepth  BY <2>3, BoundAssumption
      <4> QED  BY <4>1, <4>2, <4>3 DEF ThreadTyped, Owners
    <3>2. PICK frame : frame = Moved(Frame)  OBVIOUS
    <3> QED  BY <1>5, <2>1, <2>2, <2>4, <3>1, <3>2
  <2>5. CASE /\ About.do = "call" /\ Depth < MaxDepth /\ owner' = owner
             /\ thread' = Append([thread EXCEPT ![Depth] = Moved(Frame)], NewFrame(About.of, owner))
    <3> DEFINE t == [thread EXCEPT ![Depth] = Moved(Frame)]
    <3>1. t \in Seq(FrameType) /\ Len(t) = Depth /\ \A i \in DOMAIN t : InBody(t[i])
      BY <2>1, <2>2, Replaced DEF Depth
    <3> HIDE DEF t
    <3>2. About.of \in Function  BY <2>3, <2>5, InstrParts
    <3>3. PICK frame : frame = NewFrame(About.of, owner)  OBVIOUS
    <3>4. InBody(frame) /\ frame \in FrameType
      BY <1>1, <3>2, <3>3, NewFrameTypes DEF ThreadTyped, InBody
    <3>5. thread' = Append(t, frame)  BY <2>5, <3>3 DEF t
    <3>6. /\ thread' \in Seq(FrameType) /\ Len(thread') = Depth + 1
          /\ \A i \in DOMAIN thread' : InBody(thread'[i])
      BY <3>1, <3>4, <3>5
    <3>7. Len(thread') <= MaxDepth  BY <2>3, <2>5, <3>6, BoundAssumption
    <3> QED  BY <1>2, <2>5, <3>6, <3>7 DEF ThreadTyped
  <2> QED  BY <1>7, <2>4, <2>5 DEF RunInstr, Frame
<1>8. CASE RunBranch
  <2>1. Running /\ thread # <<>> /\ owner' = owner  BY <1>8 DEF RunBranch, AtEnd, Running
  <2>2. PICK s \in Range(Succs) :
          thread' = [thread EXCEPT ![Depth].block = s, ![Depth].next = 1,
                                   ![Depth].came = [t \in DOMAIN @ \cup {s} |->
                                      IF t \in DOMAIN @ THEN @[t] ELSE <<owner, Frame.deferred>>]]
    BY <1>8 DEF RunBranch
  <2>3. /\ Frame \in FrameType /\ Frame.fn \in Function /\ s \in DOMAIN body[Frame.fn].code
        /\ Depth \in DOMAIN thread
    BY <1>1, <2>1, <2>2, FrameTypes
  <2> DEFINE came == [t \in DOMAIN Frame.came \cup {s} |->
                         IF t \in DOMAIN Frame.came THEN Frame.came[t] ELSE <<owner, Frame.deferred>>]
             frame == [Frame EXCEPT !.block = s, !.next = 1, !.came = came]
  <2>4. thread' = [thread EXCEPT ![Depth] = frame]  BY <2>2, <2>3 DEF Frame, FrameType
  <2>5. came \in Histories
    <3> HIDE DEF Instr, Owners
    <3>1. PICK D \in SUBSET Nat : Frame.came \in [D -> Owners \X Seq(Instr)]
      BY <2>3 DEF FrameType, Histories
    <3>2. <<owner, Frame.deferred>> \in Owners \X Seq(Instr)  BY <2>3 DEF ThreadTyped, FrameType
    <3>3. s \in Nat
      <4>1. DOMAIN body[Frame.fn].code = 1 .. Len(body[Frame.fn].code)  BY <1>1, <2>3, BodyParts
      <4> QED  BY <2>3, <4>1
    <3>4. came \in [D \cup {s} -> Owners \X Seq(Instr)]  BY <3>1, <3>2
    <3>5. D \cup {s} \in SUBSET Nat  BY <3>3
    <3> HIDE DEF came
    <3> QED  BY <3>4, <3>5 DEF Histories
  <2> HIDE DEF came
  <2>6. s \in Nat
    <3>1. DOMAIN body[Frame.fn].code = 1 .. Len(body[Frame.fn].code)  BY <1>1, <2>3, BodyParts
    <3> QED  BY <2>3, <3>1
  <2>7. frame \in FrameType
    <3> HIDE DEF Instr
    <3>1. [Frame EXCEPT !.block = s] \in FrameType  BY <2>3, <2>6 DEF FrameType
    <3>2. ASSUME NEW x \in FrameType
          PROVE  [x EXCEPT !.next = 1] \in FrameType /\ [x EXCEPT !.came = came] \in FrameType
      BY <2>5 DEF FrameType
    <3>3. [[[Frame EXCEPT !.block = s] EXCEPT !.next = 1] EXCEPT !.came = came] \in FrameType
      BY <3>1, <3>2
    <3>4. frame = [[[Frame EXCEPT !.block = s] EXCEPT !.next = 1] EXCEPT !.came = came]  OBVIOUS
    <3> HIDE DEF frame
    <3> QED  BY <3>3, <3>4
  <2>8. frame.fn = Frame.fn /\ frame.block = s  BY <2>3 DEF FrameType
  <2> HIDE DEF frame
  <2>9. InBody(frame)  BY <2>3, <2>7, <2>8 DEF InBody
  <2> QED  BY <1>5, <2>1, <2>4, <2>9 DEF ThreadTyped
<1>9. CASE RunReturn
  <2>1. /\ Running /\ thread # <<>> /\ thread' = Front(thread) /\ owner' = Frame.called
    BY <1>9 DEF RunReturn, Returning, AtEnd, Running
  <2>2. Frame.called \in Owners
    <3>1. Frame \in FrameType  BY <1>1, <2>1, FrameTypes
    <3> QED  BY <3>1 DEF FrameType
  <2>3. /\ thread' \in Seq(FrameType) /\ Len(thread') = Len(thread) - 1
        /\ \A i \in DOMAIN thread' : i \in DOMAIN thread /\ thread'[i] = thread[i]
    BY <2>1, FrontTypes DEF ThreadTyped
  <2>4. Len(thread) \in Nat  BY DEF ThreadTyped
  <2>5. Len(thread') <= MaxDepth  BY <2>3, <2>4, BoundAssumption DEF ThreadTyped
  <2> QED  BY <1>2, <2>1, <2>2, <2>3, <2>5 DEF ThreadTyped
<1>10. CASE Grow \/ EndRound \/ ReportOn \/ UNCHANGED vars
  BY <1>3, <1>10 DEF Grow, EndRound, ReportOn, vars
<1> QED  BY <1>4, <1>6, <1>7, <1>8, <1>9, <1>10 DEF Next, Analysis, RunStep

\* The types, while the bound on the rounds has not been passed.
THEOREM TypesHold == Spec => [](round <= MaxRounds => TypeOK)
<1>1. Init => ThreadTyped
  <2>1. <<>> \in Seq(FrameType) /\ Len(<<>>) = 0 /\ DOMAIN <<>> = {}  OBVIOUS
  <2> QED  BY <2>1, BoundAssumption DEF Init, ThreadTyped, Owners
<1>2. IInv /\ ThreadTyped /\ [Next]_vars => ThreadTyped'  BY StepTypes DEF IInv
<1>3. IInv /\ ThreadTyped => (round <= MaxRounds => TypeOK)
  BY BoundAssumption DEF IInv, AnalysisTyped, ThreadTyped, Owners, TypeOK
<1> QED  BY Invariant, <1>1, <1>2, <1>3, PTL DEF Spec

-----------------------------------------------------------------------------
(***************************************************************************)
(* The walk of a body, place by place.                                     *)
(***************************************************************************)
Enter(f, b) == EnterIn(Blocks(f)[b - 1], b)
Pos(f, b) == PosIn(f, Blocks(f)[b - 1], b)
Done(f, b) == DoneIn(f, Blocks(f)[b - 1], b)
Ret(f, b) == RetIn(f, Blocks(f)[b - 1], b)

\* The places in a block, each of which the analysis of the body has noted.
CodePlaces(f, b) ==
    /\ Pos(f, b)[0] = Enter(f, b) /\ Pos(f, b)[Len(body[f].code[b])] = Done(f, b)
    /\ \A n \in 0 .. Len(body[f].code[b]) :
          Pos(f, b)[n] \in Walk(f) /\ Adds(Pos(f, b)[n], Analyze(f))
    /\ \A n \in 1 .. Len(body[f].code[b]) :
          Pos(f, b)[n] = Instruction(f, Pos(f, b)[n - 1], body[f].code[b][n])

\* The places after the last instruction of a block that returns.
ReturnPlaces(f, b, calls) ==
    /\ Ret(f, b)[0] = Done(f, b)
    /\ \A p \in 0 .. Len(calls) : Ret(f, b)[p] \in Walk(f) /\ Adds(Ret(f, b)[p], Analyze(f))
    /\ \A p \in 1 .. Len(calls) : Ret(f, b)[p] = Visit(f, Ret(f, b)[p - 1], calls[Len(calls) - p + 1])

LEMMA AddsOn ==
    ASSUME NEW f, NEW u \in Walk(f), NEW v \in Walk(f), NEW w \in Walk(f), Adds(u, v), Adds(v, w)
    PROVE  Adds(u, w)
BY AddsIsOrder

LEMMA BodyEdges ==
    ASSUME body \in Programs, NEW f \in Function, NEW b \in 1 .. Len(body[f].code)
    PROVE  Range(body[f].succs[b]) \subseteq 1 .. Len(body[f].code)
<1>1. body[f] \in Body  BY ProgramAssumption
<1>2. body[f].succs \in Seq(Seq(Nat))  BY <1>1 DEF Body
<1> DEFINE succs == body[f].succs
<1>3. succs \in Seq(Seq(Nat))  BY <1>2
<1> HIDE DEF succs
<1>4. DOMAIN succs = 1 .. Len(succs)  BY <1>3
<1> QED  BY <1>4, BodyParts, ProgramAssumption DEF succs

\* The walk of a block and what it is in the walk of the body.
LEMMA BlockPasses ==
    ASSUME body \in Programs, summary \in [Function -> Summary], NEW f \in Function,
           NEW b \in 1 .. Len(body[f].code)
    PROVE  /\ Passes(f, Blocks(f)[b - 1], b, Blocks(f)[b])
           /\ Blocks(f)[b - 1] \in Walk(f) /\ Blocks(f)[b] \in Walk(f)
           /\ Analyze(f) \in Walk(f) /\ Adds(Blocks(f)[b], Analyze(f))
           /\ \A s \in b + 1 .. Len(body[f].code) : Further(f, Blocks(f)[b], Blocks(f)[s - 1])
<1> HIDE DEF Walk
<1> DEFINE N == Len(body[f].code)
           s == Blocks(f)
<1>1. N \in Nat  BY BodyParts
<1>2. Walked(f, s)  BY BlocksGrow
<1>3. Analyze(f) = s[N]  BY DEF Analyze
<1> HIDE DEF N, s
<1>4. b \in 1 .. N  BY DEF N
<1>5. Passes(f, s[b - 1], b, s[b]) /\ FurtherOn(f, N, s)  BY <1>2, <1>4 DEF Walked, N
<1>6. s[b - 1] \in Walk(f) /\ s[b] \in Walk(f) /\ s[N] \in Walk(f) /\ Further(f, s[b], s[N])
  <2>1. b - 1 \in 0 .. N /\ b \in 0 .. N /\ N \in 0 .. N /\ b - 1 <= N /\ b <= N  BY <1>1, <1>4
  <2> QED  BY <1>5, <2>1 DEF FurtherOn
<1>7. ASSUME NEW t \in b + 1 .. N  PROVE Further(f, s[b], s[t - 1])
  <2>1. b \in 0 .. N /\ t - 1 \in 0 .. N /\ b <= t - 1  BY <1>1, <1>4
  <2> QED  BY <1>5, <2>1 DEF FurtherOn
<1> QED  BY <1>3, <1>5, <1>6, <1>7 DEF Further, N, s

LEMMA CodeIsWalked ==
    ASSUME body \in Programs, summary \in [Function -> Summary], NEW f \in Function,
           NEW b \in 1 .. Len(body[f].code)
    PROVE  CodePlaces(f, b)
<1> HIDE DEF Walk
<1> DEFINE code == body[f].code[b]
           w == Blocks(f)[b - 1]
           v == Blocks(f)[b]
           pos == Pos(f, b)
<1>1. Passes(f, w, b, v) /\ v \in Walk(f) /\ Analyze(f) \in Walk(f) /\ Adds(v, Analyze(f))
  BY BlockPasses
<1>2. Goes(f, Enter(f, b), code, pos) /\ Adds(Done(f, b), v)  BY <1>1 DEF Passes, Enter, Pos, Done
<1>3. pos[Len(code)] = Done(f, b)  BY DEF Pos, Done, DoneIn
<1>4. Len(code) \in Nat
  <2>1. code \in Seq(Instr)  BY BodyParts
  <2> HIDE DEF code
  <2> QED  BY <2>1
<1> HIDE DEF code, pos, v
<1>5. \A n \in 0 .. Len(code) : pos[n] \in Walk(f) /\ Adds(pos[n], pos[Len(code)])
  BY <1>2, <1>4 DEF Goes, Onwards, Onward
<1>6. \A n \in 0 .. Len(code) : pos[n] \in Walk(f) /\ Adds(pos[n], Analyze(f))
  <2> TAKE n \in 0 .. Len(code)
  <2>1. pos[n] \in Walk(f) /\ Adds(pos[n], pos[Len(code)])  BY <1>5
  <2>2. pos[Len(code)] \in Walk(f)  BY <1>4, <1>5
  <2>3. Adds(pos[Len(code)], Analyze(f))  BY <1>1, <1>2, <1>3, <2>2, AddsOn
  <2> QED  BY <1>1, <2>1, <2>2, <2>3, AddsOn
<1> QED  BY <1>2, <1>3, <1>6 DEF CodePlaces, Goes, code, pos

LEMMA DoneParts ==
    ASSUME body \in Programs, summary \in [Function -> Summary], NEW f \in Function,
           NEW b \in 1 .. Len(body[f].code)
    PROVE  Done(f, b) \in Walk(f) /\ Done(f, b).state \in State /\ Done(f, b).state.deferred \in Seq(Instr)
<1> HIDE DEF State, Instr
<1> DEFINE n == Len(body[f].code[b])
<1>1. n \in Nat
  <2> DEFINE code == body[f].code[b]
  <2>1. code \in Seq(Instr)  BY BodyParts
  <2> HIDE DEF code
  <2>2. Len(code) \in Nat  BY <2>1
  <2> QED  BY <2>2 DEF code
<1>2. n \in 0 .. n  BY <1>1
<1>3. Done(f, b) \in Walk(f)  BY <1>2, CodeIsWalked DEF CodePlaces
<1>4. Done(f, b).state \in State  BY <1>3 DEF Walk
<1> QED  BY <1>3, <1>4 DEF State

LEMMA ReturnIsWalked ==
    ASSUME body \in Programs, summary \in [Function -> Summary], NEW f \in Function,
           NEW b \in 1 .. Len(body[f].code), body[f].succs[b] = <<>>
    PROVE  ReturnPlaces(f, b, Done(f, b).state.deferred)
<1> HIDE DEF Walk, Instr
<1> DEFINE calls == Done(f, b).state.deferred
           back == Reverse(calls)
           v == Blocks(f)[b]
           ret == Ret(f, b)
<1>1. /\ Passes(f, Blocks(f)[b - 1], b, v) /\ v \in Walk(f)
      /\ Analyze(f) \in Walk(f) /\ Adds(v, Analyze(f))
  BY BlockPasses
<1>2. Returns(f, Done(f, b), back, ret) /\ Adds(ret[Len(calls)], v)
  BY <1>1 DEF Passes, Done, Ret
<1>3. calls \in Seq(Instr)  BY DoneParts
<1> HIDE DEF calls, ret, v
<1>4. Len(back) = Len(calls) /\ Len(calls) \in Nat  BY <1>3, ReverseTypes
<1>5. \A p \in 1 .. Len(calls) : back[p] = calls[Len(calls) - p + 1]  BY DEF Reverse
<1> HIDE DEF back
<1>6. \A p \in 0 .. Len(calls) : ret[p] \in Walk(f) /\ Adds(ret[p], ret[Len(calls)])
  BY <1>2, <1>4 DEF Returns, Onwards, Onward
<1>7. \A p \in 0 .. Len(calls) : ret[p] \in Walk(f) /\ Adds(ret[p], Analyze(f))
  <2> TAKE p \in 0 .. Len(calls)
  <2>1. ret[p] \in Walk(f) /\ Adds(ret[p], ret[Len(calls)])  BY <1>6
  <2>2. ret[Len(calls)] \in Walk(f)  BY <1>4, <1>6
  <2>3. Adds(ret[Len(calls)], Analyze(f))  BY <1>1, <1>2, <2>2, AddsOn
  <2> QED  BY <1>1, <2>1, <2>2, <2>3, AddsOn
<1>8. \A p \in 1 .. Len(calls) : ret[p] = Visit(f, ret[p - 1], calls[Len(calls) - p + 1])
  BY <1>2, <1>4, <1>5 DEF Returns
<1> QED  BY <1>2, <1>7, <1>8 DEF ReturnPlaces, Returns, calls, ret

-----------------------------------------------------------------------------
(***************************************************************************)
(* The lists of deferred calls.  Where they do not depend on the way to a  *)
(* block, the walk carries the one list there is.                          *)
(***************************************************************************)
\* What runs does not defer.
LEMMA VisitDefersNothing ==
    ASSUME NEW f \in Function, NEW w \in Walk(f), NEW i \in Instr
    PROVE  Visit(f, w, i).state.deferred = w.state.deferred
<1>p. Parts(f, w)  BY WalkParts
<1>1. w.state = [counts |-> w.state.counts, released |-> w.state.released, deferred |-> w.state.deferred]
  <2> HIDE DEF Instr
  <2>1. w.state \in State  BY <1>p DEF Parts
  <2> QED  BY <2>1 DEF State
<1>2. \A pairs : Noted(w, pairs).state = w.state  BY <1>p DEF Noted, Parts
<1>3. \A c : Acquire(f, w.state, c).deferred = w.state.deferred
             /\ Release(f, w.state, c).deferred = w.state.deferred
  BY <1>1 DEF Acquire, Release
<1>4. \A c : DoLock(f, w, c).state.deferred = w.state.deferred
  BY <1>2, <1>3 DEF DoLock
<1>5. \A c : DoUnlock(f, w, c).state.deferred = w.state.deferred
  BY <1>p, <1>3 DEF DoUnlock, Parts
<1>6. DoWait(w).state.deferred = w.state.deferred  BY <1>p DEF DoWait, Parts
<1>7. \A g : DoCall(f, w, g).state.deferred = w.state.deferred  BY <1>2 DEF DoCall
<1>8. i.do \in {"lock", "unlock", "call", "wait"}  BY InstrParts
<1> QED  BY <1>4, <1>5, <1>6, <1>7, <1>8 DEF Visit

LEMMA InstructionDefers ==
    ASSUME NEW f \in Function, NEW w \in Walk(f), NEW i \in Instr
    PROVE  Instruction(f, w, i).state.deferred = Deferring(w.state.deferred, i)
<1>1. CASE i.deferred
  <2>p. Parts(f, w)  BY WalkParts
  <2>1. w.state = [counts |-> w.state.counts, released |-> w.state.released, deferred |-> w.state.deferred]
    <3> HIDE DEF Instr
    <3>1. w.state \in State  BY <2>p DEF Parts
    <3> QED  BY <3>1 DEF State
  <2>2. Instruction(f, w, i) = [w EXCEPT !.state.deferred = Append(w.state.deferred, i)]
    BY <1>1 DEF Instruction
  <2>3. Instruction(f, w, i).state.deferred = Append(w.state.deferred, i)  BY <2>p, <2>1, <2>2 DEF Parts
  <2> QED  BY <1>1, <2>3 DEF Deferring
<1>2. CASE ~i.deferred
  <2>1. Instruction(f, w, i) = Visit(f, w, i)  BY <1>2 DEF Instruction
  <2>2. Visit(f, w, i).state.deferred = w.state.deferred  BY VisitDefersNothing
  <2> QED  BY <1>2, <2>1, <2>2 DEF Deferring
<1> QED  BY <1>1, <1>2

\* Within a block the list goes on from the one it is entered with.
LEMMA BlockDefers ==
    ASSUME body \in Programs, summary \in [Function -> Summary], NEW f \in Function,
           NEW list, Defers(body[f], list), NEW b \in 1 .. Len(body[f].code),
           Enter(f, b).state.deferred = list[<<b, 0>>]
    PROVE  \A n \in 0 .. Len(body[f].code[b]) : Pos(f, b)[n].state.deferred = list[<<b, n>>]
<1> HIDE DEF Walk, Instr
<1> DEFINE code == body[f].code[b]
           N == Len(code)
           pos == Pos(f, b)
           S == {n \in Nat : n <= N => pos[n].state.deferred = list[<<b, n>>]}
<1>1. code \in Seq(Instr) /\ b \in DOMAIN body[f].code  BY BodyParts
<1>2. \A n \in 1 .. N : list[<<b, n>>] = Deferring(list[<<b, n - 1>>], code[n])
  BY <1>1 DEF Defers
<1>3. CodePlaces(f, b)  BY CodeIsWalked
<1> HIDE DEF code
<1>4. N \in Nat /\ \A n \in 1 .. N : code[n] \in Instr  BY <1>1
<1> HIDE DEF N
<1>5. /\ pos[0] = Enter(f, b) /\ \A n \in 0 .. N : pos[n] \in Walk(f)
      /\ \A n \in 1 .. N : pos[n] = Instruction(f, pos[n - 1], code[n])
  BY <1>3 DEF CodePlaces, N, code
<1> HIDE DEF pos
<1>6. 0 \in S  BY <1>5
<1>7. ASSUME NEW n \in Nat, n \in S  PROVE n + 1 \in S
  <2> SUFFICES ASSUME n + 1 <= N  PROVE pos[n + 1].state.deferred = list[<<b, n + 1>>]
    OBVIOUS
  <2>1. n + 1 \in 1 .. N /\ (n + 1) - 1 = n /\ n \in 0 .. N  BY <1>4
  <2>2. pos[n].state.deferred = list[<<b, n>>]  BY <1>7, <2>1
  <2>3. pos[n + 1] = Instruction(f, pos[n], code[n + 1])  BY <1>5, <2>1
  <2>4. pos[n + 1].state.deferred = Deferring(pos[n].state.deferred, code[n + 1])
    BY <1>4, <1>5, <2>1, <2>3, InstructionDefers
  <2> QED  BY <1>2, <2>1, <2>2, <2>4
<1> HIDE DEF S
<1>8. \A n \in Nat : n \in S  BY <1>6, <1>7, NatSetInduction
<1>9. \A n \in 0 .. N : n \in Nat /\ n <= N  BY <1>4
<1> QED  BY <1>8, <1>9 DEF S, N, pos, code

\* The state a block is entered with, and the one that is carried over an edge.
LEMMA EnterState ==
    ASSUME body \in Programs, summary \in [Function -> Summary], NEW f \in Function,
           NEW b \in 1 .. Len(body[f].code)
    PROVE  Enter(f, b).state = IF Blocks(f)[b - 1].in[b] = None THEN Unreached ELSE Blocks(f)[b - 1].in[b]
<1> HIDE DEF Walk
<1> DEFINE w == Blocks(f)[b - 1]
<1>1. Parts(f, w)  BY BlockPasses, WalkParts
<1> HIDE DEF w
<1>2. w = [state |-> w.state, sum |-> w.sum, rep |-> w.rep, in |-> w.in]  BY <1>1 DEF Parts
<1>3. EnterIn(w, b).state = IF w.in[b] = None THEN Unreached ELSE w.in[b]  BY <1>2 DEF EnterIn
<1> QED  BY <1>3 DEF Enter, w

LEMMA EdgeCarries ==
    ASSUME body \in Programs, summary \in [Function -> Summary], NEW f \in Function,
           NEW b \in 1 .. Len(body[f].code), NEW s \in Range(body[f].succs[b])
    PROVE  LET before == Blocks(f)[b - 1].in[s]
               after == Blocks(f)[b].in[s]
           IN  /\ after = IF before = None THEN Done(f, b).state ELSE Merge(before, Done(f, b).state)
               /\ after \in State /\ Wider(Done(f, b).state, after)
<1> HIDE DEF State
<1> DEFINE before == Blocks(f)[b - 1].in[s]
           after == Blocks(f)[b].in[s]
           done == Done(f, b).state
<1>1. s \in 1 .. Len(body[f].code)  BY BodyEdges
<1>2. before \in State \cup {None} /\ done \in State
  <2>1. Blocks(f)[b - 1] \in Walk(f)  BY BlockPasses
  <2> QED  BY <1>1, <2>1, DoneParts DEF Walk
<1>3. after = IF before = None THEN done ELSE Merge(before, done)
  <2>1. Passes(f, Blocks(f)[b - 1], b, Blocks(f)[b])  BY BlockPasses
  <2> QED  BY <1>1, <2>1 DEF Passes, Done
<1> HIDE DEF before, after, done
<1>4. after \in State /\ Wider(done, after)
  <2>1. CASE before = None  BY <1>2, <1>3, <2>1, WiderIsOrder
  <2>2. CASE before # None
    <3>1. before \in State /\ after = Merge(before, done)  BY <1>2, <1>3, <2>2
    <3> QED  BY <1>2, <3>1, WiderIsOrder, MergeType
  <2> QED  BY <2>1, <2>2
<1> QED  BY <1>3, <1>4 DEF before, after, done

\* What is carried over an edge to a later block is there when that block is walked.
LEMMA EdgeArrives ==
    ASSUME body \in Programs, summary \in [Function -> Summary], NEW f \in Function,
           NEW b \in 1 .. Len(body[f].code), NEW s \in Range(body[f].succs[b]), s > b
    PROVE  LET in == Blocks(f)[s - 1].in[s]
           IN  in # None /\ in \in State /\ Wider(Done(f, b).state, in)
<1> HIDE DEF State, Walk
<1> DEFINE after == Blocks(f)[b].in[s]
           in == Blocks(f)[s - 1].in[s]
           done == Done(f, b).state
<1>1. s \in 1 .. Len(body[f].code) /\ s \in b + 1 .. Len(body[f].code)  BY BodyEdges
<1>2. after \in State /\ Wider(done, after)  BY EdgeCarries
<1>3. Further(f, Blocks(f)[b], Blocks(f)[s - 1])  BY <1>1, BlockPasses
<1>4. in # None /\ Wider(after, in)  BY <1>1, <1>2, <1>3, NoneAssumption DEF Further
<1>5. in \in State
  <2>1. Blocks(f)[s - 1] \in Walk(f)  BY <1>1, BlockPasses
  <2> QED  BY <1>1, <1>4, <2>1 DEF Walk
<1>6. done \in State  BY DoneParts
<1> HIDE DEF after, in, done
<1>7. Wider(done, in)  BY <1>2, <1>4, <1>5, <1>6, WiderIsOrder
<1> QED  BY <1>4, <1>5, <1>7 DEF in, done

\* A block that nothing has reached when it is walked has no edge into it from before.
LEMMA NothingAhead ==
    ASSUME body \in Programs, summary \in [Function -> Summary], NEW f \in Function,
           NEW b \in 1 .. Len(body[f].code), Blocks(f)[b - 1].in[b] = None
    PROVE  Ahead(body[f], b) = {}
<1> SUFFICES ASSUME NEW e \in Ahead(body[f], b)  PROVE FALSE  OBVIOUS
<1>1. e \in 1 .. Len(body[f].code) /\ b \in Range(body[f].succs[e]) /\ b > e
  BY BodyParts DEF Ahead, Into
<1> QED  BY <1>1, EdgeArrives

\* What reaches a block carries the list that belongs to the block.
LEMMA ReachDefers ==
    ASSUME body \in Programs, summary \in [Function -> Summary], NEW f \in Function,
           NEW list, Defers(body[f], list)
    PROVE  \A m \in 0 .. Len(body[f].code), s \in 1 .. Len(body[f].code) :
              Blocks(f)[m].in[s] = None \/ Blocks(f)[m].in[s].deferred = list[<<s, 0>>]
<1> HIDE DEF Walk, Instr, State
<1> DEFINE N == Len(body[f].code)
           w == Blocks(f)
           Right(m) == \A s \in 1 .. N : w[m].in[s] = None \/ w[m].in[s].deferred = list[<<s, 0>>]
           S == {m \in Nat : m <= N => Right(m)}
<1>1. N \in Nat \ {0} /\ DOMAIN body[f].code = 1 .. N  BY BodyParts
<1>2. w[0] = NewWalk(f)  BY BlocksGrow DEF Walked
<1>3. \A b \in 1 .. N : Ahead(body[f], b) = {} => list[<<b, 0>>] = <<>>  BY <1>1 DEF Defers
<1>4. Ahead(body[f], 1) = {}  BY <1>1 DEF Ahead, Into
<1>5. 0 \in S
  <2> SUFFICES ASSUME NEW s \in 1 .. N
               PROVE  w[0].in[s] = None \/ w[0].in[s].deferred = list[<<s, 0>>]
    OBVIOUS
  <2>1. w[0].in[s] = IF s = 1 THEN Entering(f) ELSE None  BY <1>2 DEF NewWalk
  <2>2. Entering(f).deferred = <<>>  BY DEF Entering
  <2> QED  BY <1>1, <1>3, <1>4, <2>1, <2>2
<1>6. ASSUME NEW m \in Nat, m \in S  PROVE m + 1 \in S
  <2> SUFFICES ASSUME m + 1 <= N, NEW s \in 1 .. N
               PROVE  w[m + 1].in[s] = None \/ w[m + 1].in[s].deferred = list[<<s, 0>>]
    OBVIOUS
  <2> DEFINE b == m + 1
  <2>1. b \in 1 .. N /\ b - 1 = m /\ Right(m)  BY <1>1, <1>6
  <2> HIDE DEF b
  <2>2. Passes(f, w[m], b, w[b])  BY <2>1, BlockPasses
  <2>3. w[b].in[s] = IF s \notin Range(body[f].succs[b]) THEN w[m].in[s]
                     ELSE IF w[m].in[s] = None THEN Done(f, b).state
                     ELSE Merge(w[m].in[s], Done(f, b).state)
    BY <2>1, <2>2 DEF Passes, Done
  <2>4. Enter(f, b).state.deferred = list[<<b, 0>>]
    <3>1. Enter(f, b).state = IF w[m].in[b] = None THEN Unreached ELSE w[m].in[b]
      BY <2>1, EnterState
    <3>2. CASE w[m].in[b] # None  BY <2>1, <3>1, <3>2
    <3>3. CASE w[m].in[b] = None
      <4>1. Ahead(body[f], b) = {}  BY <2>1, <3>3, NothingAhead
      <4> QED  BY <1>3, <2>1, <3>1, <3>3, <4>1 DEF Unreached
    <3> QED  BY <3>2, <3>3
  <2>5. CASE s \notin Range(body[f].succs[b])  BY <2>1, <2>3, <2>5 DEF b
  <2>6. CASE s \in Range(body[f].succs[b])
    <3>1. Done(f, b).state.deferred = list[<<b, Len(body[f].code[b])>>]
      <4> DEFINE n == Len(body[f].code[b])
      <4>1. n \in 0 .. n
        <5> DEFINE code == body[f].code[b]
        <5>1. code \in Seq(Instr)  BY <2>1, BodyParts
        <5> HIDE DEF code
        <5>2. Len(code) \in 0 .. Len(code)  BY <5>1
        <5> QED  BY <5>2 DEF code
      <4>2. Pos(f, b)[n].state.deferred = list[<<b, n>>]  BY <2>1, <2>4, <4>1, BlockDefers
      <4> QED  BY <2>1, <4>2, CodeIsWalked DEF CodePlaces
    <3>2. list[<<s, 0>>] = list[<<b, Len(body[f].code[b])>>]
      BY <1>1, <2>1, <2>6 DEF Defers, Into
    <3>3. CASE w[m].in[s] = None  BY <2>3, <2>6, <3>1, <3>2, <3>3 DEF b
    <3>4. CASE w[m].in[s] # None
      <4>1. w[m].in[s].deferred = list[<<s, 0>>]  BY <2>1, <3>4
      <4>2. Merge(w[m].in[s], Done(f, b).state).deferred = list[<<s, 0>>]
        BY <3>1, <3>2, <4>1 DEF Merge
      <4> QED  BY <2>3, <2>6, <3>4, <4>2 DEF b
    <3> QED  BY <3>3, <3>4
  <2> QED  BY <2>5, <2>6
<1> HIDE DEF S
<1>7. \A m \in Nat : m \in S  BY <1>5, <1>6, NatSetInduction
<1>8. \A m \in 0 .. N : m \in Nat /\ m <= N  BY <1>1
<1> QED  BY <1>7, <1>8 DEF S

\* The list that belongs to each place, at the places of the walk.
LEMMA PlaceDefers ==
    ASSUME body \in Programs, summary \in [Function -> Summary], NEW f \in Function, DefersAgree(f),
           NEW b \in 1 .. Len(body[f].code)
    PROVE  /\ Enter(f, b).state.deferred = ListsOf(body[f])[<<b, 0>>]
           /\ Done(f, b).state.deferred = ListsOf(body[f])[<<b, Len(body[f].code[b])>>]
<1> HIDE DEF Walk, State, Instr
<1> DEFINE w == Blocks(f)[b - 1]
           n == Len(body[f].code[b])
<1>1. PICK list : list = ListsOf(body[f])  OBVIOUS
<1>2. Defers(body[f], list)  BY <1>1 DEF DefersAgree
<1>3. w.in[b] = None \/ w.in[b].deferred = list[<<b, 0>>]
  <2>1. b - 1 \in 0 .. Len(body[f].code)  BY BodyParts
  <2> QED  BY <1>2, <2>1, ReachDefers
<1>4. Enter(f, b).state.deferred = list[<<b, 0>>]
  <2>1. Enter(f, b).state = IF w.in[b] = None THEN Unreached ELSE w.in[b]  BY EnterState
  <2>2. CASE w.in[b] # None  BY <1>3, <2>1, <2>2
  <2>3. CASE w.in[b] = None
    <3>1. Ahead(body[f], b) = {}  BY <2>3, NothingAhead
    <3>2. list[<<b, 0>>] = <<>>  BY <1>2, <3>1, BodyParts DEF Defers
    <3> QED  BY <2>1, <2>3, <3>2 DEF Unreached
  <2> QED  BY <2>2, <2>3
<1>5. n \in 0 .. n
  <2> DEFINE code == body[f].code[b]
  <2>1. code \in Seq(Instr)  BY BodyParts
  <2> HIDE DEF code
  <2>2. Len(code) \in 0 .. Len(code)  BY <2>1
  <2> QED  BY <2>2 DEF code
<1>6. Pos(f, b)[n].state.deferred = list[<<b, n>>]  BY <1>2, <1>4, <1>5, BlockDefers
<1>7. Pos(f, b)[n] = Done(f, b)  BY CodeIsWalked DEF CodePlaces
<1> QED  BY <1>1, <1>4, <1>6, <1>7

\* At a join nothing is lost, and the list of deferred calls is the same.
LEMMA Joins ==
    ASSUME body \in Programs, summary \in [Function -> Summary], NEW f \in Function, DefersAgree(f),
           NEW b \in 1 .. Len(body[f].code), NEW s \in Range(body[f].succs[b]), s > b
    PROVE  /\ Wider(Done(f, b).state, Enter(f, s).state)
           /\ Enter(f, s).state.deferred = Done(f, b).state.deferred
<1> HIDE DEF Walk, State, Instr
<1>1. s \in 1 .. Len(body[f].code)  BY BodyEdges
<1>2. Wider(Done(f, b).state, Enter(f, s).state)  BY <1>1, EdgeArrives, EnterState
<1>3. ListsOf(body[f])[<<s, 0>>] = ListsOf(body[f])[<<b, Len(body[f].code[b])>>]
  <2>1. PICK list : list = ListsOf(body[f])  OBVIOUS
  <2>2. Defers(body[f], list)  BY <2>1 DEF DefersAgree
  <2>3. list[<<s, 0>>] = list[<<b, Len(body[f].code[b])>>]  BY <1>1, <2>2, BodyParts DEF Defers, Into
  <2> QED  BY <2>1, <2>3
<1> QED  BY <1>1, <1>2, <1>3, PlaceDefers

LEMMA EntersBody ==
    ASSUME body \in Programs, summary \in [Function -> Summary], NEW f \in Function
    PROVE  Enter(f, 1).state = Entering(f)
<1> HIDE DEF State
<1>1. 1 \in 1 .. Len(body[f].code) /\ 1 - 1 = 0  BY BodyParts
<1>2. Blocks(f)[0].in[1] = Entering(f)
  <2>1. Blocks(f)[0] = NewWalk(f)  BY BlocksGrow DEF Walked
  <2> QED  BY <1>1, <2>1 DEF NewWalk
<1>3. Entering(f) # None  BY StartTypes, NoneAssumption
<1> QED  BY <1>1, <1>2, <1>3, EnterState

-----------------------------------------------------------------------------
(***************************************************************************)
(* The run beside the walk.  Each frame is at a place of the walk of its   *)
(* function, and the state of the walk there covers what the run holds.    *)
(***************************************************************************)
\* Who holds which lock while the frame at depth i is innermost: its callee keeps that.
OwnerAt(i) == IF i = Len(thread) THEN owner ELSE thread[i + 1].called

\* What the frame at depth i holds the walk counts as held, and what a caller of it
\* holds the walk does not count as released.
Covers(f, state, i, o) ==
    \A c \in Class : /\ o[c] = i \/ (c \in body[f].entry /\ o[c] \in 1 .. i) => state.counts[c] > 0
                     /\ c \in state.released => o[c] \notin 1 .. i - 1

\* The walk is where the frame is.
At(fr, w) ==
    LET pos == Pos(fr.fn, fr.block)
        ret == Ret(fr.fn, fr.block)
        calls == Done(fr.fn, fr.block).state.deferred
        end == Len(body[fr.fn].code[fr.block]) + 1
    IN  \/ fr.next \in 1 .. end /\ w = pos[fr.next - 1] /\ fr.deferred = w.state.deferred
        \/ /\ body[fr.fn].succs[fr.block] = <<>> /\ fr.next = end
           /\ \E p \in 0 .. Len(calls) : w = ret[p] /\ fr.deferred = SubSeq(calls, 1, Len(calls) - p)

\* A frame one instruction on.
Advanced(f, w, v, moved) == v \in Walk(f) /\ Adds(v, Analyze(f)) /\ At(moved, v)

LEMMA SeqFacts ==
    ASSUME NEW S, NEW s \in Seq(S)
    PROVE  /\ Len(s) \in Nat /\ \A n \in 1 .. Len(s) : s[n] \in S
           /\ SubSeq(s, 1, Len(s)) = s
           /\ \A n \in 1 .. Len(s) : LET t == SubSeq(s, 1, n)
                                     IN  Last(t) = s[n] /\ Front(t) = SubSeq(s, 1, n - 1) /\ t # <<>>
           /\ SubSeq(s, 1, 0) = <<>>
<1>1. Len(s) \in Nat /\ \A n \in 1 .. Len(s) : s[n] \in S  OBVIOUS
<1>2. SubSeq(s, 1, Len(s)) = s  OBVIOUS
<1>3. ASSUME NEW n \in 1 .. Len(s)
      PROVE  LET t == SubSeq(s, 1, n)
             IN  Last(t) = s[n] /\ Front(t) = SubSeq(s, 1, n - 1) /\ t # <<>>
  <2> DEFINE t == SubSeq(s, 1, n)
  <2>1. Len(t) = n /\ t \in Seq(S) /\ \A k \in 1 .. n : t[k] = s[k]  OBVIOUS
  <2>2. Last(t) = s[n] /\ t # <<>>
    <3> HIDE DEF t
    <3> QED  BY <2>1 DEF Last
  <2>3. Front(t) = SubSeq(s, 1, n - 1)
    <3> DEFINE u == SubSeq(t, 1, n - 1)
               v == SubSeq(s, 1, n - 1)
    <3>1. u \in Seq(S) /\ Len(u) = n - 1 /\ \A k \in 1 .. n - 1 : u[k] = s[k]
      <4> HIDE DEF t
      <4> QED  BY <2>1
    <3>2. v \in Seq(S) /\ Len(v) = n - 1 /\ \A k \in 1 .. n - 1 : v[k] = s[k]  OBVIOUS
    <3>3. Front(t) = u
      <4> HIDE DEF t
      <4> QED  BY <2>1 DEF Front
    <3> HIDE DEF u, v, t
    <3>4. u = v  BY <3>1, <3>2
    <3> QED  BY <3>3, <3>4 DEF v
  <2> QED  BY <2>2, <2>3
<1>4. SubSeq(s, 1, 0) = <<>>  OBVIOUS
<1> QED  BY <1>1, <1>2, <1>3, <1>4

\* The next instruction of a block.
LEMMA NextAt ==
    ASSUME body \in Programs, summary \in [Function -> Summary],
           NEW fr, InBody(fr), NEW w, At(fr, w), fr.next <= Len(body[fr.fn].code[fr.block])
    PROVE  LET f == fr.fn
               i == body[f].code[fr.block][fr.next]
               moved == [fr EXCEPT !.next = fr.next + 1, !.deferred = Deferring(fr.deferred, i)]
           IN  w \in Walk(f) /\ Advanced(f, w, Instruction(f, w, i), moved)
<1> HIDE DEF Walk, Instr, State, Owners, Histories
<1> DEFINE f == fr.fn
           b == fr.block
           n == fr.next
           code == body[f].code[b]
           i == code[n]
           v == Instruction(f, w, i)
           pos == Pos(f, b)
           moved == [fr EXCEPT !.next = n + 1, !.deferred = Deferring(fr.deferred, i)]
<1>1. f \in Function /\ n \in Nat \ {0} /\ b \in 1 .. Len(body[f].code)
  BY BodyParts DEF InBody, FrameType
<1>2. code \in Seq(Instr) /\ CodePlaces(f, b)  BY <1>1, BodyParts, CodeIsWalked
<1>3. w = pos[n - 1] /\ fr.deferred = w.state.deferred
  <2>1. Len(code) \in Nat
    <3> HIDE DEF code
    <3> QED  BY <1>2
  <2> QED  BY <1>1, <2>1 DEF At
<1>4. /\ moved.fn = f /\ moved.block = b /\ moved.next = n + 1
      /\ moved.deferred = Deferring(fr.deferred, i)
  BY DEF InBody, FrameType
<1>5. n <= Len(code)  OBVIOUS
<1>6. /\ \A k \in 0 .. Len(code) : pos[k] \in Walk(f) /\ Adds(pos[k], Analyze(f))
      /\ \A k \in 1 .. Len(code) : pos[k] = Instruction(f, pos[k - 1], code[k])
  BY <1>2 DEF CodePlaces
<1> HIDE DEF moved, code, pos
<1>7. Len(code) \in Nat /\ \A k \in 1 .. Len(code) : code[k] \in Instr  BY <1>2
<1>8. n \in 1 .. Len(code) /\ n - 1 \in 0 .. Len(code) /\ n \in 0 .. Len(code)  BY <1>1, <1>5, <1>7
<1>9. w \in Walk(f) /\ v = pos[n] /\ v \in Walk(f) /\ Adds(v, Analyze(f)) /\ i \in Instr
  BY <1>3, <1>6, <1>7, <1>8
<1>10. v.state.deferred = Deferring(w.state.deferred, i)  BY <1>1, <1>9, InstructionDefers
<1>11. At(moved, v)
  <2>1. moved.next \in 1 .. Len(code) + 1 /\ moved.next - 1 = n  BY <1>4, <1>7, <1>8
  <2>2. moved.deferred = v.state.deferred  BY <1>3, <1>4, <1>10
  <2> QED  BY <1>4, <1>9, <2>1, <2>2 DEF At, code, pos
<1> QED  BY <1>9, <1>11 DEF Advanced, moved, code

\* The last of the deferred calls of a block that returns.
LEMMA LastAt ==
    ASSUME body \in Programs, summary \in [Function -> Summary],
           NEW fr, InBody(fr), NEW w, At(fr, w), fr.next > Len(body[fr.fn].code[fr.block]),
           body[fr.fn].succs[fr.block] = <<>>, fr.deferred # <<>>
    PROVE  LET f == fr.fn
               i == Last(fr.deferred)
               moved == [fr EXCEPT !.deferred = Front(fr.deferred)]
           IN  w \in Walk(f) /\ Advanced(f, w, Visit(f, w, i), moved)
<1> HIDE DEF Walk, Instr, State, Owners, Histories
<1> DEFINE f == fr.fn
           b == fr.block
           end == Len(body[f].code[b]) + 1
           calls == Done(f, b).state.deferred
           ret == Ret(f, b)
           moved == [fr EXCEPT !.deferred = Front(fr.deferred)]
<1>1. f \in Function /\ fr.next \in Nat \ {0} /\ b \in 1 .. Len(body[f].code)
  BY BodyParts DEF InBody, FrameType
<1>2. end \in Nat
  <2> DEFINE code == body[f].code[b]
  <2>1. code \in Seq(Instr)  BY <1>1, BodyParts
  <2> HIDE DEF code
  <2>2. Len(code) + 1 \in Nat  BY <2>1
  <2> QED  BY <2>2 DEF code
<1>3. calls \in Seq(Instr) /\ ReturnPlaces(f, b, calls)  BY <1>1, DoneParts, ReturnIsWalked
<1>4. \A p \in 0 .. Len(calls) : ret[p] \in Walk(f) /\ Adds(ret[p], Analyze(f))
  BY <1>3 DEF ReturnPlaces
<1>5. \A p \in 1 .. Len(calls) : ret[p] = Visit(f, ret[p - 1], calls[Len(calls) - p + 1])
  BY <1>3 DEF ReturnPlaces
<1>6. fr.next = end
  <2>1. fr.next \in 1 .. end  BY <1>1, <1>2 DEF At
  <2> QED  BY <1>1, <1>2, <2>1
<1>7. /\ moved.fn = f /\ moved.block = b /\ moved.next = fr.next
      /\ moved.deferred = Front(fr.deferred)
  BY DEF InBody, FrameType
<1>8. \/ w = Done(f, b) /\ fr.deferred = calls
      \/ \E p \in 0 .. Len(calls) : w = ret[p] /\ fr.deferred = SubSeq(calls, 1, Len(calls) - p)
  <2>1. \/ w = Pos(f, b)[end - 1] /\ fr.deferred = w.state.deferred
        \/ \E p \in 0 .. Len(calls) : w = ret[p] /\ fr.deferred = SubSeq(calls, 1, Len(calls) - p)
    BY <1>6 DEF At
  <2>2. Pos(f, b)[end - 1] = Done(f, b)
    <3>1. end - 1 = Len(body[f].code[b])
      <4> DEFINE k == Len(body[f].code[b])
      <4>1. k + 1 \in Nat => k \in Int
        <5> DEFINE code == body[f].code[b]
        <5>1. code \in Seq(Instr)  BY <1>1, BodyParts
        <5> HIDE DEF code
        <5>2. Len(code) \in Int  BY <5>1
        <5> QED  BY <5>2 DEF code
      <4> QED  BY <1>2, <4>1
    <3> QED  BY <1>1, <3>1, CodeIsWalked DEF CodePlaces
  <2> QED  BY <2>1, <2>2
<1>9. ret[0] = Done(f, b)  BY <1>3 DEF ReturnPlaces
<1>10. body[f].succs[b] = <<>>  OBVIOUS
<1> HIDE DEF calls, ret, moved, end
<1>11. /\ Len(calls) \in Nat /\ \A n \in 1 .. Len(calls) : calls[n] \in Instr
       /\ SubSeq(calls, 1, Len(calls)) = calls /\ SubSeq(calls, 1, 0) = <<>>
       /\ \A n \in 1 .. Len(calls) : /\ Last(SubSeq(calls, 1, n)) = calls[n]
                                     /\ Front(SubSeq(calls, 1, n)) = SubSeq(calls, 1, n - 1)
  BY <1>3, SeqFacts
<1>12. PICK p \in 0 .. Len(calls) : w = ret[p] /\ fr.deferred = SubSeq(calls, 1, Len(calls) - p)
  <2>1. 0 \in 0 .. Len(calls) /\ Len(calls) - 0 = Len(calls)  BY <1>11
  <2> QED  BY <1>8, <1>9, <1>11, <2>1
<1>13. /\ p + 1 \in 1 .. Len(calls) /\ p + 1 \in 0 .. Len(calls) /\ Len(calls) - p \in 1 .. Len(calls)
       /\ Len(calls) - (p + 1) + 1 = Len(calls) - p /\ Len(calls) - p - 1 = Len(calls) - (p + 1)
       /\ (p + 1) - 1 = p
  <2> DEFINE L == Len(calls)
  <2>1. L \in Nat /\ p \in 0 .. L  BY <1>11
  <2>2. p # L
    <3>1. p = L => L - p = 0  BY <2>1
    <3> QED  BY <1>11, <1>12, <3>1
  <2> HIDE DEF L
  <2>3. /\ p + 1 \in 1 .. L /\ p + 1 \in 0 .. L /\ L - p \in 1 .. L
        /\ L - (p + 1) + 1 = L - p /\ L - p - 1 = L - (p + 1) /\ (p + 1) - 1 = p
    BY <2>1, <2>2
  <2> QED  BY <2>3 DEF L
<1>14. /\ Last(fr.deferred) = calls[Len(calls) - p]
       /\ Front(fr.deferred) = SubSeq(calls, 1, Len(calls) - (p + 1))
  BY <1>11, <1>12, <1>13
<1>15. ret[p + 1] = Visit(f, w, Last(fr.deferred))  BY <1>5, <1>12, <1>13, <1>14
<1>16. At(moved, ret[p + 1])
  BY <1>6, <1>7, <1>10, <1>13, <1>14 DEF At, calls, ret, end
<1>17. w \in Walk(f)  BY <1>4, <1>12
<1>18. ret[p + 1] \in Walk(f) /\ Adds(ret[p + 1], Analyze(f))  BY <1>4, <1>13
<1> QED  BY <1>15, <1>16, <1>17, <1>18 DEF Advanced, moved

\* What a place is depends on the bodies and the summaries alone.
PlaceIs(f, b, entered, code, done) ==
    /\ entered = Enter(f, b) /\ code = body[f].code[b]
       => Pos(f, b) = Instructions(f, entered, code) /\ Done(f, b) = Instructions(f, entered, code)[Len(code)]
    /\ done = Done(f, b) => Ret(f, b) = Deferreds(f, done, Reverse(done.state.deferred))
LEMMA PlaceForm ==
    ASSUME NEW f, NEW b, NEW entered, NEW code, NEW done
    PROVE  PlaceIs(f, b, entered, code, done)
BY DEF PlaceIs, Enter, Pos, Done, Ret, PosIn, DoneIn, RetIn

LEMMA SamePlaces ==
    ASSUME body' = body, summary' = summary, NEW f, NEW b
    PROVE  /\ Enter(f, b)' = Enter(f, b) /\ Pos(f, b)' = Pos(f, b)
           /\ Done(f, b)' = Done(f, b) /\ Ret(f, b)' = Ret(f, b)
<1>1. \A w, s : Instructions(f, w, s)' = Instructions(f, w, s) /\ Deferreds(f, w, s)' = Deferreds(f, w, s)
  BY SameInstructions
<1>2. Enter(f, b)' = Enter(f, b)
  <2>1. Blocks(f)' = Blocks(f)  BY SameBlocks
  <2> QED  BY <2>1 DEF Enter
<1>3. PICK entered : entered = Enter(f, b)  OBVIOUS
<1>4. PICK code : code = body[f].code[b]  OBVIOUS
<1>5. PICK done : done = Done(f, b)  OBVIOUS
<1>6. PlaceIs(f, b, entered, code, done)  BY PlaceForm
<1>7. PlaceIs(f, b, entered, code, done)'  BY PlaceForm, PTL
<1>8. Enter(f, b)' = entered /\ body'[f].code[b] = code  BY <1>2, <1>3, <1>4
<1>9. Pos(f, b)' = Pos(f, b) /\ Done(f, b)' = Done(f, b)
  BY <1>1, <1>3, <1>4, <1>6, <1>7, <1>8 DEF PlaceIs
<1>10. Ret(f, b)' = Ret(f, b)  BY <1>1, <1>5, <1>6, <1>7, <1>9 DEF PlaceIs
<1> QED  BY <1>2, <1>9, <1>10

-----------------------------------------------------------------------------
(***************************************************************************)
(* The invariant of the run.                                               *)
(***************************************************************************)
\* The frame at depth i has a place in the walk whose state covers what is held, and
\* so has every block it came to when it first came there.
Covered(fr, i, o) == \E w \in Walk(fr.fn) : At(fr, w) /\ Covers(fr.fn, w.state, i, o)
CameCovered(fr, i) ==
    \A s \in DOMAIN fr.came :
       /\ Covers(fr.fn, Enter(fr.fn, s).state, i, fr.came[s][1])
       /\ fr.came[s][2] = Enter(fr.fn, s).state.deferred
Followed(fr, i, o) == DefersAgree(fr.fn) => Covered(fr, i, o) /\ CameCovered(fr, i)

\* The walk has noted the call that the frame at depth i waits for.
Waits(fr, i, o, g) ==
    DefersAgree(fr.fn) =>
       \E w \in Walk(fr.fn) : Covers(fr.fn, w.state, i, o) /\ Adds(DoCall(fr.fn, w, g), Analyze(fr.fn))

\* A frame keeps to its own depth, and what one frame sees held below it all that are
\* further out see.
Kept == \A i \in DOMAIN thread, c \in Class : OwnerAt(i)[c] \in 0 .. i
Nested == \A i \in DOMAIN thread, j \in DOMAIN thread, c \in Class :
             i < j /\ OwnerAt(j)[c] \in 1 .. i => OwnerAt(i)[c] = OwnerAt(j)[c]

RunInv ==
    /\ phase # "running" => thread = <<>>
    /\ \A i \in DOMAIN thread : Followed(thread[i], i, OwnerAt(i))
    /\ \A i \in DOMAIN thread : i < Len(thread) => Waits(thread[i], i, OwnerAt(i), thread[i + 1].fn)
    /\ Kept /\ Nested

LEMMA SameFrames ==
    ASSUME body' = body, summary' = summary, NEW fr, NEW i, NEW o, NEW g
    PROVE  /\ Followed(fr, i, o)' <=> Followed(fr, i, o)
           /\ Waits(fr, i, o, g)' <=> Waits(fr, i, o, g)
<1>1. \A f, b : /\ Enter(f, b)' = Enter(f, b) /\ Pos(f, b)' = Pos(f, b)
                /\ Done(f, b)' = Done(f, b) /\ Ret(f, b)' = Ret(f, b)
  BY SamePlaces
<1>2. \A f, s, j, p : Covers(f, s, j, p)' <=> Covers(f, s, j, p)  BY DEF Covers
<1>3. \A f : Walk(f)' = Walk(f)  BY Zenon DEF Walk
<1>4. \A w : At(fr, w)' <=> At(fr, w)  BY <1>1 DEF At
<1>5. DefersAgree(fr.fn)' <=> DefersAgree(fr.fn)  BY DEF DefersAgree
<1>6. Covered(fr, i, o)' <=> Covered(fr, i, o)  BY <1>2, <1>3, <1>4 DEF Covered
<1>7. CameCovered(fr, i)' <=> CameCovered(fr, i)
  <2>1. \A s : Enter(fr.fn, s)' = Enter(fr.fn, s)  BY <1>1
  <2>2. \A s : Covers(fr.fn, Enter(fr.fn, s).state, i, fr.came[s][1])'
               <=> Covers(fr.fn, Enter(fr.fn, s).state, i, fr.came[s][1])
    BY <2>1 DEF Covers
  <2> QED  BY <2>1, <2>2 DEF CameCovered
<1>8. \A w : DoCall(fr.fn, w, g)' = DoCall(fr.fn, w, g)  BY DEF DoCall
<1>9. Analyze(fr.fn)' = Analyze(fr.fn)  BY SameWalk
<1>10. \A w : Adds(DoCall(fr.fn, w, g), Analyze(fr.fn))' <=> Adds(DoCall(fr.fn, w, g), Analyze(fr.fn))
  BY <1>8, <1>9 DEF Adds, More, Told
<1> QED  BY <1>2, <1>3, <1>5, <1>6, <1>7, <1>10 DEF Followed, Waits

\* What the operations do to the state of a walk, and that it goes on covering.
LEMMA VisitStates ==
    ASSUME NEW f \in Function, NEW w \in Walk(f)
    PROVE  /\ \A c : DoLock(f, w, c).state = Acquire(f, w.state, c)
           /\ \A c : DoUnlock(f, w, c).state = Release(f, w.state, c)
           /\ DoWait(w).state = w.state
           /\ \A g : DoCall(f, w, g).state = w.state
<1>p. Parts(f, w)  BY WalkParts
<1>1. \A pairs : Noted(w, pairs).state = w.state
                 /\ DOMAIN Noted(w, pairs) = {"state", "sum", "rep", "in"}
  BY <1>p DEF Noted, Parts
<1>2. ASSUME NEW c  PROVE DoLock(f, w, c).state = Acquire(f, w.state, c)
  BY <1>1 DEF DoLock
<1>3. \A c : DoUnlock(f, w, c).state = Release(f, w.state, c)  BY <1>p DEF DoUnlock, Parts
<1>4. DoWait(w).state = w.state  BY <1>p DEF DoWait, Parts
<1>5. \A g : DoCall(f, w, g).state = w.state  BY <1>1 DEF DoCall
<1> QED  BY <1>2, <1>3, <1>4, <1>5

LEMMA CoversLock ==
    ASSUME body \in Programs, NEW f \in Function, NEW w \in State, NEW c \in Class,
           NEW i \in Nat \ {0}, NEW o \in Owners, Covers(f, w, i, o)
    PROVE  Covers(f, Acquire(f, w, c), i, [o EXCEPT ![c] = i])
<1> DEFINE v == Acquire(f, w, c)
<1>1. w.counts \in [Class -> Nat] /\ w = [counts |-> w.counts, released |-> w.released, deferred |-> w.deferred]
  <2> HIDE DEF Instr
  <2> QED  BY DEF State
<1>2. EntryCount(f, c) \in {0, 1}  BY DEF EntryCount
<1>3. v.counts = [w.counts EXCEPT ![c] = w.counts[c] + 1] /\ v.released = w.released \ {c}
  <2>1. w.counts[c] + 1 >= EntryCount(f, c)  BY <1>1, <1>2
  <2> QED  BY <1>1, <2>1 DEF Acquire
<1> HIDE DEF v
<1> SUFFICES ASSUME NEW d \in Class
             PROVE  LET p == [o EXCEPT ![c] = i]
                    IN  /\ p[d] = i \/ (d \in body[f].entry /\ p[d] \in 1 .. i) => v.counts[d] > 0
                        /\ d \in v.released => p[d] \notin 1 .. i - 1
  BY DEF Covers, v
<1>4. CASE d = c  BY <1>1, <1>3, <1>4 DEF Owners
<1>5. CASE d # c
  <2>1. [o EXCEPT ![c] = i][d] = o[d] /\ v.counts[d] = w.counts[d]  BY <1>1, <1>3, <1>5 DEF Owners
  <2> QED  BY <1>3, <2>1 DEF Covers
<1> QED  BY <1>4, <1>5

LEMMA CoversUnlock ==
    ASSUME body \in Programs, NEW f \in Function, NEW w \in State, NEW c \in Class,
           NEW i \in Nat \ {0}, NEW o \in Owners, Covers(f, w, i, o)
    PROVE  Covers(f, Release(f, w, c), i, [o EXCEPT ![c] = 0])
<1> DEFINE v == Release(f, w, c)
<1>1. w.counts \in [Class -> Nat] /\ w = [counts |-> w.counts, released |-> w.released, deferred |-> w.deferred]
  <2> HIDE DEF Instr
  <2> QED  BY DEF State
<1>2. /\ \A d \in Class : d # c => v.counts[d] = w.counts[d]
      /\ v.released \subseteq w.released \cup {c}
  BY <1>1 DEF Release
<1> HIDE DEF v
<1> SUFFICES ASSUME NEW d \in Class
             PROVE  LET p == [o EXCEPT ![c] = 0]
                    IN  /\ p[d] = i \/ (d \in body[f].entry /\ p[d] \in 1 .. i) => v.counts[d] > 0
                        /\ d \in v.released => p[d] \notin 1 .. i - 1
  BY DEF Covers, v
<1>3. CASE d = c  BY <1>3 DEF Owners
<1>4. CASE d # c
  <2>1. [o EXCEPT ![c] = 0][d] = o[d] /\ v.counts[d] = w.counts[d]  BY <1>2, <1>4 DEF Owners
  <2> QED  BY <1>2, <1>4, <2>1 DEF Covers
<1> QED  BY <1>3, <1>4

\* A wider state covers as much; so does any state what is held less.
LEMMA CoversWider ==
    ASSUME NEW f, NEW x \in State, NEW y \in State, NEW i, NEW o, Wider(x, y), Covers(f, x, i, o)
    PROVE  Covers(f, y, i, o)
<1>1. \A c \in Class : x.counts[c] \in Nat /\ y.counts[c] \in Nat  BY DEF State
<1> QED  BY <1>1 DEF Covers, Wider

LEMMA CoversLess ==
    ASSUME NEW f, NEW x, NEW i \in Nat \ {0}, NEW o, NEW p, Covers(f, x, i, o),
           \A c \in Class : p[c] \in {0, o[c]}
    PROVE  Covers(f, x, i, p)
BY DEF Covers

\* The innermost frame is about to run an instruction: the walk is at it as well.
LEMMA AboutAt ==
    ASSUME body \in Programs, summary \in [Function -> Summary], ThreadTyped, Running, About # None,
           NEW w, At(Frame, w)
    PROVE  w \in Walk(Frame.fn) /\ Advanced(Frame.fn, w, Visit(Frame.fn, w, About), Moved(Frame))
<1> HIDE DEF Walk, Instr, Histories, Owners
<1>1. thread # <<>>  BY DEF Running
<1>2. InBody(Frame) /\ Frame \in FrameType  BY <1>1, FrameTypes DEF InBody
<1>3. CASE InBlock
  <2> DEFINE i == body[Frame.fn].code[Frame.block][Frame.next]
             moved == [Frame EXCEPT !.next = Frame.next + 1, !.deferred = Deferring(Frame.deferred, i)]
  <2>1. i = Code[Frame.next] /\ ~i.deferred /\ About = i  BY <1>3 DEF About, Code
  <2>2. Frame.next <= Len(body[Frame.fn].code[Frame.block])  BY <1>3 DEF InBlock, Code
  <2>3. w \in Walk(Frame.fn) /\ Advanced(Frame.fn, w, Instruction(Frame.fn, w, i), moved)
    BY <1>2, <2>2, NextAt
  <2>4. Instruction(Frame.fn, w, i) = Visit(Frame.fn, w, About)  BY <2>1 DEF Instruction
  <2>5. moved = Moved(Frame)
    <3>1. Deferring(Frame.deferred, i) = Frame.deferred  BY <2>1 DEF Deferring
    <3>2. moved = [Frame EXCEPT !.next = Frame.next + 1]
      <4> HIDE DEF i
      <4> QED  BY <1>2, <3>1 DEF FrameType
    <3> QED  BY <1>3, <3>2 DEF Moved
  <2> QED  BY <2>3, <2>4, <2>5
<1>4. CASE ~InBlock
  <2>1. Returning /\ Frame.deferred # <<>> /\ About = Last(Frame.deferred)  BY <1>4 DEF About
  <2>2. Frame.next > Len(body[Frame.fn].code[Frame.block]) /\ body[Frame.fn].succs[Frame.block] = <<>>
    BY <2>1 DEF Returning, AtEnd, Code, Succs
  <2>3. Moved(Frame) = [Frame EXCEPT !.deferred = Front(Frame.deferred)]  BY <1>4 DEF Moved
  <2> QED  BY <1>2, <2>1, <2>2, <2>3, LastAt
<1> QED  BY <1>3, <1>4

LEMMA NewFrameFollowed ==
    ASSUME body \in Programs, summary \in [Function -> Summary], NEW f \in Function,
           NEW held \in Owners, NEW i \in Nat \ {0}, \A c \in Class : held[c] = i => c \in body[f].entry
    PROVE  Followed(NewFrame(f, held), i, held)
<1> HIDE DEF Walk, State, Owners
<1> DEFINE fr == NewFrame(f, held)
           w == Enter(f, 1)
<1>1. 1 \in 1 .. Len(body[f].code)  BY BodyParts
<1>2. w.state = Entering(f)  BY EntersBody
<1>3. Pos(f, 1)[0] = w /\ w \in Walk(f) /\ 1 \in 1 .. Len(body[f].code[1]) + 1
  <2> DEFINE code == body[f].code[1]
  <2>1. code \in Seq(Instr)  BY <1>1, BodyParts
  <2>2. CodePlaces(f, 1)  BY <1>1, CodeIsWalked
  <2> HIDE DEF code
  <2>3. 0 \in 0 .. Len(code) /\ 1 \in 1 .. Len(code) + 1  BY <2>1
  <2> QED  BY <2>2, <2>3 DEF CodePlaces, code
<1>4. Covers(f, w.state, i, held)  BY <1>2 DEF Covers, Entering
<1>5. /\ fr.fn = f /\ fr.block = 1 /\ fr.next = 1 /\ fr.deferred = <<>>
      /\ DOMAIN fr.came = {1} /\ fr.came[1] = <<held, <<>>>>
  BY DEF NewFrame
<1>6. w.state.deferred = <<>>  BY <1>2 DEF Entering
<1> HIDE DEF fr, w
<1>7. At(fr, w)  BY <1>3, <1>5, <1>6 DEF At
<1>8. Covered(fr, i, held)  BY <1>3, <1>4, <1>5, <1>7 DEF Covered
<1>9. CameCovered(fr, i)  BY <1>4, <1>5, <1>6 DEF CameCovered, w
<1> QED  BY <1>8, <1>9 DEF Followed, fr

\* The innermost frame goes on: the others are where they were.
LEMMA TopGoesOn ==
    ASSUME ThreadTyped, RunInv, thread # <<>>, body' = body, summary' = summary, phase' = phase,
           NEW fr, fr.fn = Frame.fn, fr.called = Frame.called, thread' = [thread EXCEPT ![Depth] = fr],
           NEW o, owner' = o, Followed(fr, Depth, o), \A c \in Class : o[c] \in {0, owner[c], Depth}
    PROVE  RunInv'
<1> HIDE DEF FrameType
<1>1. Depth \in Nat \ {0} /\ DOMAIN thread = 1 .. Depth /\ Len(thread) = Depth
  BY DEF ThreadTyped, Depth
<1>2. DOMAIN thread' = 1 .. Depth /\ Len(thread') = Depth  BY <1>1 DEF ThreadTyped
<1>3. \A i \in 1 .. Depth : thread'[i] = IF i = Depth THEN fr ELSE thread[i]  BY <1>1
<1>4. \A i \in 1 .. Depth : thread'[i].fn = thread[i].fn /\ thread'[i].called = thread[i].called
  BY <1>1, <1>3 DEF Frame
<1>5. \A i \in 1 .. Depth : OwnerAt(i)' = IF i = Depth THEN o ELSE OwnerAt(i)
  <2> TAKE i \in 1 .. Depth
  <2>1. CASE i = Depth  BY <1>2, <2>1 DEF OwnerAt
  <2>2. CASE i # Depth
    <3>1. i + 1 \in 1 .. Depth  BY <1>1, <2>2
    <3> QED  BY <1>1, <1>2, <1>4, <2>2, <3>1 DEF OwnerAt
  <2> QED  BY <2>1, <2>2
<1>6. OwnerAt(Depth) = owner  BY <1>1 DEF OwnerAt
<1>7. \A x, i, p, g : (Followed(x, i, p)' <=> Followed(x, i, p)) /\ (Waits(x, i, p, g)' <=> Waits(x, i, p, g))
  BY SameFrames
<1>8. phase' # "running" => thread' = <<>>  BY DEF RunInv
<1>9. ASSUME NEW i \in DOMAIN thread'  PROVE Followed(thread[i], i, OwnerAt(i))'
  <2>1. i \in 1 .. Depth  BY <1>2
  <2>2. PICK x : x = thread'[i]  OBVIOUS
  <2>3. PICK p : p = OwnerAt(i)'  OBVIOUS
  <2>4. Followed(x, i, p)
    <3>1. CASE i = Depth  BY <1>3, <1>5, <2>1, <2>2, <2>3, <3>1
    <3>2. CASE i # Depth
      <4>1. x = thread[i] /\ p = OwnerAt(i)  BY <1>3, <1>5, <2>1, <2>2, <2>3, <3>2
      <4> QED  BY <1>1, <2>1, <4>1 DEF RunInv
    <3> QED  BY <3>1, <3>2
  <2> QED  BY <1>7, <2>2, <2>3, <2>4
<1>10. ASSUME NEW i \in DOMAIN thread', i < Len(thread')
       PROVE  Waits(thread[i], i, OwnerAt(i), thread[i + 1].fn)'
  <2>1. i \in 1 .. Depth /\ i + 1 \in 1 .. Depth /\ i # Depth  BY <1>1, <1>2, <1>10
  <2>2. PICK x : x = thread'[i]  OBVIOUS
  <2>3. PICK p : p = OwnerAt(i)'  OBVIOUS
  <2>4. PICK g : g = thread'[i + 1].fn  OBVIOUS
  <2>5. x = thread[i] /\ p = OwnerAt(i) /\ g = thread[i + 1].fn
    BY <1>3, <1>4, <1>5, <2>1, <2>2, <2>3, <2>4
  <2>6. Waits(x, i, p, g)  BY <1>1, <1>2, <1>10, <2>1, <2>5 DEF RunInv
  <2> QED  BY <1>7, <2>2, <2>3, <2>4, <2>6
<1>11. Kept'
  <2> SUFFICES ASSUME NEW i \in 1 .. Depth, NEW c \in Class  PROVE OwnerAt(i)'[c] \in 0 .. i
    BY <1>2 DEF Kept
  <2>1. OwnerAt(i)[c] \in 0 .. i  BY <1>1 DEF RunInv, Kept
  <2> QED  BY <1>1, <1>5, <1>6, <2>1
<1>12. Nested'
  <2> SUFFICES ASSUME NEW i \in 1 .. Depth, NEW j \in 1 .. Depth, NEW c \in Class,
                      i < j, OwnerAt(j)'[c] \in 1 .. i
               PROVE  OwnerAt(i)'[c] = OwnerAt(j)'[c]
    BY <1>2 DEF Nested
  <2>1. OwnerAt(i)' = OwnerAt(i)  BY <1>1, <1>5
  <2>2. OwnerAt(j)'[c] = OwnerAt(j)[c]
    <3>1. CASE j # Depth  BY <1>5, <3>1
    <3>2. CASE j = Depth
      <4>1. OwnerAt(j)' = o /\ OwnerAt(j) = owner  BY <1>5, <1>6, <3>2
      <4>2. o[c] \in {0, owner[c], Depth}  OBVIOUS
      <4>3. o[c] # 0 /\ o[c] # Depth  BY <1>1, <3>2, <4>1
      <4> QED  BY <4>1, <4>2, <4>3
    <3> QED  BY <3>1, <3>2
  <2>3. OwnerAt(j)[c] \in 1 .. i  BY <2>2
  <2> QED  BY <1>1, <2>1, <2>2, <2>3 DEF RunInv, Nested
<1> QED  BY <1>8, <1>9, <1>10, <1>11, <1>12 DEF RunInv

\* A frame is put on top of the others, which now wait for it.
LEMMA TopCalls ==
    ASSUME ThreadTyped, RunInv, thread # <<>>, body' = body, summary' = summary, phase' = phase,
           NEW d, d = Depth, NEW fr, fr.called = Frame.called, NEW top, top.called = owner,
           NEW t, thread' = Append(t, top), t = [thread EXCEPT ![d] = fr], t \in Seq(FrameType),
           fr.fn = Frame.fn,
           NEW o, owner = o, owner' = o, Followed(fr, d, o), Waits(fr, d, o, top.fn),
           Followed(top, d + 1, o)
    PROVE  RunInv'
<1> HIDE DEF FrameType
<1>1. d \in Nat \ {0} /\ DOMAIN thread = 1 .. d /\ Len(thread) = d
  BY DEF ThreadTyped, Depth
<1>2. DOMAIN t = 1 .. d /\ Len(t) = d  BY <1>1 DEF ThreadTyped
<1>3. DOMAIN thread' = 1 .. d + 1 /\ Len(thread') = d + 1
      /\ thread'[d + 1] = top /\ \A i \in 1 .. d : thread'[i] = t[i]
  BY <1>1, <1>2
<1>4. \A i \in 1 .. d : thread'[i] = IF i = d THEN fr ELSE thread[i]  BY <1>1, <1>3
<1>5. \A i \in 1 .. d : thread'[i].fn = thread[i].fn /\ thread'[i].called = thread[i].called
  BY <1>1, <1>4 DEF Frame
<1>6. OwnerAt(d + 1)' = o /\ \A i \in 1 .. d : OwnerAt(i)' = OwnerAt(i)
  <2>1. OwnerAt(d + 1)' = o  BY <1>3 DEF OwnerAt
  <2> SUFFICES ASSUME NEW i \in 1 .. d  PROVE OwnerAt(i)' = OwnerAt(i)  BY <2>1
  <2>2. OwnerAt(i)' = thread'[i + 1].called  BY <1>1, <1>3 DEF OwnerAt
  <2>3. CASE i = d  BY <1>1, <1>3, <2>2, <2>3 DEF OwnerAt
  <2>4. CASE i # d
    <3>1. i + 1 \in 1 .. d  BY <1>1, <2>4
    <3> QED  BY <1>1, <1>5, <2>2, <2>4, <3>1 DEF OwnerAt
  <2> QED  BY <2>3, <2>4
<1>7. OwnerAt(d) = o  BY <1>1 DEF OwnerAt
<1>8. \A x, i, p, g : (Followed(x, i, p)' <=> Followed(x, i, p)) /\ (Waits(x, i, p, g)' <=> Waits(x, i, p, g))
  BY SameFrames
<1>9. ASSUME NEW i \in DOMAIN thread'  PROVE Followed(thread[i], i, OwnerAt(i))'
  <2>1. i \in 1 .. d + 1  BY <1>3
  <2>2. PICK x : x = thread'[i]  OBVIOUS
  <2>3. PICK p : p = OwnerAt(i)'  OBVIOUS
  <2>4. Followed(x, i, p)
    <3>1. CASE i = d + 1  BY <1>3, <1>6, <2>2, <2>3, <3>1
    <3>2. CASE i = d
      <4>1. d \in 1 .. d  BY <1>1
      <4>2. x = fr /\ p = o  BY <1>4, <1>6, <1>7, <2>2, <2>3, <3>2, <4>1
      <4> QED  BY <3>2, <4>2
    <3>3. CASE i # d /\ i # d + 1
      <4>1. i \in 1 .. d  BY <1>1, <2>1, <3>3
      <4>2. x = thread[i] /\ p = OwnerAt(i)  BY <1>4, <1>6, <2>2, <2>3, <3>3, <4>1
      <4> QED  BY <1>1, <4>1, <4>2 DEF RunInv
    <3> QED  BY <3>1, <3>2, <3>3
  <2> QED  BY <1>8, <2>2, <2>3, <2>4
<1>10. ASSUME NEW i \in DOMAIN thread', i < Len(thread')
       PROVE  Waits(thread[i], i, OwnerAt(i), thread[i + 1].fn)'
  <2>1. i \in 1 .. d  BY <1>1, <1>3, <1>10
  <2>2. PICK x : x = thread'[i]  OBVIOUS
  <2>3. PICK p : p = OwnerAt(i)'  OBVIOUS
  <2>4. PICK g : g = thread'[i + 1].fn  OBVIOUS
  <2>5. Waits(x, i, p, g)
    <3>1. CASE i = d
      <4>1. x = fr /\ p = o /\ g = top.fn  BY <1>1, <1>3, <1>4, <1>6, <1>7, <2>1, <2>2, <2>3, <2>4, <3>1
      <4> QED  BY <3>1, <4>1
    <3>2. CASE i # d
      <4>1. i + 1 \in 1 .. d /\ i < Len(thread)  BY <1>1, <2>1, <3>2
      <4>2. x = thread[i] /\ p = OwnerAt(i) /\ g = thread[i + 1].fn
        BY <1>4, <1>5, <1>6, <2>1, <2>2, <2>3, <2>4, <3>2, <4>1
      <4> QED  BY <1>1, <2>1, <4>1, <4>2 DEF RunInv
    <3> QED  BY <3>1, <3>2
  <2> QED  BY <1>8, <2>2, <2>3, <2>4, <2>5
<1>11. Kept'
  <2> SUFFICES ASSUME NEW i \in 1 .. d + 1, NEW c \in Class  PROVE OwnerAt(i)'[c] \in 0 .. i
    BY <1>3 DEF Kept
  <2>1. CASE i = d + 1
    <3>1. OwnerAt(d)[c] \in 0 .. d  BY <1>1 DEF RunInv, Kept
    <3> QED  BY <1>1, <1>6, <1>7, <2>1, <3>1
  <2>2. CASE i # d + 1
    <3>1. i \in 1 .. d  BY <1>1, <2>2
    <3>2. OwnerAt(i)[c] \in 0 .. i  BY <1>1, <3>1 DEF RunInv, Kept
    <3> QED  BY <1>6, <3>1, <3>2
  <2> QED  BY <2>1, <2>2
<1>12. Nested'
  <2> SUFFICES ASSUME NEW i \in 1 .. d + 1, NEW j \in 1 .. d + 1, NEW c \in Class,
                      i < j, OwnerAt(j)'[c] \in 1 .. i
               PROVE  OwnerAt(i)'[c] = OwnerAt(j)'[c]
    BY <1>3 DEF Nested
  <2>1. i \in 1 .. d /\ OwnerAt(i)' = OwnerAt(i)  BY <1>1, <1>6
  <2>2. CASE j = d + 1
    <3>1. OwnerAt(j)' = OwnerAt(d)  BY <1>6, <1>7, <2>2
    <3>2. CASE i = d  BY <2>1, <3>1, <3>2
    <3>3. CASE i # d
      <4>1. i < d /\ d \in 1 .. d  BY <1>1, <2>1, <3>3
      <4>2. OwnerAt(d)[c] \in 1 .. i  BY <3>1
      <4>3. OwnerAt(i)[c] = OwnerAt(d)[c]  BY <1>1, <2>1, <4>1, <4>2 DEF RunInv, Nested
      <4> QED  BY <2>1, <3>1, <4>3
    <3> QED  BY <3>2, <3>3
  <2>3. CASE j # d + 1
    <3>1. j \in 1 .. d  BY <1>1, <2>3
    <3>2. OwnerAt(j)' = OwnerAt(j)  BY <1>6, <3>1
    <3>3. OwnerAt(i)[c] = OwnerAt(j)[c]  BY <1>1, <2>1, <3>1, <3>2 DEF RunInv, Nested
    <3> QED  BY <2>1, <3>2, <3>3
  <2> QED  BY <2>2, <2>3
<1> QED  BY <1>9, <1>10, <1>11, <1>12 DEF RunInv

\* The innermost frame is taken off: the locks are as when it was called.
LEMMA TopReturns ==
    ASSUME ThreadTyped, RunInv, phase = "running", thread # <<>>,
           body' = body, summary' = summary, phase' = phase,
           thread' = Front(thread), owner' = Frame.called
    PROVE  RunInv'
<1> HIDE DEF FrameType
<1>1. PICK d : d = Depth  OBVIOUS
<1>2. d \in Nat \ {0} /\ DOMAIN thread = 1 .. d /\ Len(thread) = d
  BY <1>1 DEF ThreadTyped, Depth
<1>3. DOMAIN thread' = 1 .. d - 1 /\ Len(thread') = d - 1 /\ \A i \in 1 .. d - 1 : thread'[i] = thread[i]
  <2>1. /\ thread' \in Seq(FrameType) /\ Len(thread') = Len(thread) - 1
        /\ \A i \in DOMAIN thread' : thread'[i] = thread[i]
    BY FrontTypes DEF ThreadTyped
  <2> QED  BY <1>2, <2>1
<1>4. \A i \in 1 .. d - 1 : OwnerAt(i)' = OwnerAt(i)
  <2> TAKE i \in 1 .. d - 1
  <2>1. CASE i = d - 1
    <3>1. OwnerAt(i)' = Frame.called  BY <1>3, <2>1 DEF OwnerAt
    <3>2. OwnerAt(i) = thread[d].called
      <4>1. i # Len(thread) /\ i + 1 = d  BY <1>2, <2>1
      <4> QED  BY <4>1 DEF OwnerAt
    <3> QED  BY <1>1, <3>1, <3>2 DEF Frame
  <2>2. CASE i # d - 1
    <3>1. i + 1 \in 1 .. d - 1 /\ i # Len(thread)  BY <1>2, <2>2
    <3> QED  BY <1>3, <2>2, <3>1 DEF OwnerAt
  <2> QED  BY <2>1, <2>2
<1>5. \A x, i, p, g : (Followed(x, i, p)' <=> Followed(x, i, p)) /\ (Waits(x, i, p, g)' <=> Waits(x, i, p, g))
  BY SameFrames
<1>6. ASSUME NEW i \in DOMAIN thread'  PROVE Followed(thread[i], i, OwnerAt(i))'
  <2>1. i \in 1 .. d - 1 /\ i \in 1 .. d  BY <1>2, <1>3
  <2>2. PICK x : x = thread'[i]  OBVIOUS
  <2>3. PICK p : p = OwnerAt(i)'  OBVIOUS
  <2>4. x = thread[i] /\ p = OwnerAt(i)  BY <1>3, <1>4, <2>1, <2>2, <2>3
  <2>5. Followed(x, i, p)  BY <1>2, <2>1, <2>4 DEF RunInv
  <2> QED  BY <1>5, <2>2, <2>3, <2>5
<1>7. ASSUME NEW i \in DOMAIN thread', i < Len(thread')
      PROVE  Waits(thread[i], i, OwnerAt(i), thread[i + 1].fn)'
  <2>1. i \in 1 .. d - 1 /\ i + 1 \in 1 .. d - 1 /\ i \in 1 .. d /\ i < Len(thread)  BY <1>2, <1>3, <1>7
  <2>2. PICK x : x = thread'[i]  OBVIOUS
  <2>3. PICK p : p = OwnerAt(i)'  OBVIOUS
  <2>4. PICK g : g = thread'[i + 1].fn  OBVIOUS
  <2>5. x = thread[i] /\ p = OwnerAt(i) /\ g = thread[i + 1].fn  BY <1>3, <1>4, <2>1, <2>2, <2>3, <2>4
  <2>6. Waits(x, i, p, g)  BY <1>2, <2>1, <2>5 DEF RunInv
  <2> QED  BY <1>5, <2>2, <2>3, <2>4, <2>6
<1>8. Kept'
  <2> SUFFICES ASSUME NEW i \in 1 .. d - 1, NEW c \in Class  PROVE OwnerAt(i)'[c] \in 0 .. i
    BY <1>3 DEF Kept
  <2>1. i \in 1 .. d  BY <1>2
  <2> QED  BY <1>2, <1>4, <2>1 DEF RunInv, Kept
<1>9. Nested'
  <2> SUFFICES ASSUME NEW i \in 1 .. d - 1, NEW j \in 1 .. d - 1, NEW c \in Class,
                      i < j, OwnerAt(j)'[c] \in 1 .. i
               PROVE  OwnerAt(i)'[c] = OwnerAt(j)'[c]
    BY <1>3 DEF Nested
  <2>1. i \in 1 .. d /\ j \in 1 .. d /\ OwnerAt(i)' = OwnerAt(i) /\ OwnerAt(j)' = OwnerAt(j)
    BY <1>2, <1>4
  <2> QED  BY <1>2, <2>1 DEF RunInv, Nested
<1> QED  BY <1>6, <1>7, <1>8, <1>9 DEF RunInv

\* A frame that goes on in its function keeps to the blocks it came to.
LEMMA CameKept ==
    ASSUME NEW fr, NEW moved, moved.fn = fr.fn, moved.came = fr.came, NEW i, NEW o, NEW p, NEW v,
           DefersAgree(fr.fn) => Followed(fr, i, o) /\ v \in Walk(fr.fn) /\ At(moved, v) /\ Covers(fr.fn, v.state, i, p)
    PROVE  Followed(moved, i, p)
<1> HIDE DEF Walk
<1> QED  BY DEF Followed, Covered, CameCovered

LEMMA MovedParts ==
    ASSUME body \in Programs, ThreadTyped, Running, About # None
    PROVE  /\ Moved(Frame).fn = Frame.fn /\ Moved(Frame).called = Frame.called
           /\ Moved(Frame).came = Frame.came /\ InBody(Moved(Frame))
<1> HIDE DEF Instr, Histories, Owners
<1>1. thread # <<>>  BY DEF Running
<1>2. Frame \in FrameType  BY <1>1, FrameTypes
<1>3. InBody(Moved(Frame))  BY <1>1, MovedTypes
<1>4. Moved(Frame).fn = Frame.fn /\ Moved(Frame).called = Frame.called /\ Moved(Frame).came = Frame.came
  BY <1>2 DEF Moved, FrameType
<1> QED  BY <1>3, <1>4

\* Where the innermost frame is.
LEMMA TopFollowed ==
    ASSUME RunInv, ThreadTyped, thread # <<>>
    PROVE  Depth \in 1 .. Depth /\ OwnerAt(Depth) = owner /\ Followed(Frame, Depth, owner)
<1> HIDE DEF FrameType
<1>1. Depth \in Nat \ {0} /\ DOMAIN thread = 1 .. Depth /\ Len(thread) = Depth
  BY DEF ThreadTyped, Depth
<1>2. OwnerAt(Depth) = owner  BY <1>1 DEF OwnerAt
<1>3. Depth \in DOMAIN thread  BY <1>1
<1> QED  BY <1>1, <1>2, <1>3 DEF RunInv, Frame

\* A lock, an unlock or a wait.
LEMMA SimpleSteps ==
    ASSUME AnalysisTyped, ThreadTyped, RunInv, Running, About # None, body' = body, summary' = summary,
           phase' = phase, thread' = [thread EXCEPT ![Depth] = Moved(Frame)],
           \/ About.do = "lock" /\ owner[About.of] = 0 /\ owner' = [owner EXCEPT ![About.of] = Depth]
           \/ About.do = "unlock" /\ owner' = [owner EXCEPT ![About.of] = 0]
           \/ About.do = "wait" /\ owner' = owner
    PROVE  RunInv'
<1> HIDE DEF Instr, FrameType, Walk, State
<1>1. body \in Programs /\ summary \in [Function -> Summary]  BY DEF AnalysisTyped
<1>2. thread # <<>>  BY DEF Running
<1>3. About \in Instr /\ Depth \in Nat \ {0} /\ Frame.fn \in Function /\ owner \in Owners
  <2>1. Depth \in 1 .. MaxDepth /\ MaxDepth \in Nat  BY <1>1, <1>2, FrameTypes, BoundAssumption
  <2> QED  BY <1>1, <1>2, <2>1, FrameTypes DEF ThreadTyped
<1>4. About.do \in {"lock", "unlock"} => About.of \in Class  BY <1>3, InstrParts
<1>5. PICK o : o = owner'  OBVIOUS
<1>6. PICK fr : fr = Moved(Frame)  OBVIOUS
<1>7. fr.fn = Frame.fn /\ fr.called = Frame.called /\ fr.came = Frame.came  BY <1>1, <1>6, MovedParts
<1>8. Followed(fr, Depth, o)
  <2>1. SUFFICES ASSUME DefersAgree(Frame.fn)
                 PROVE  \E v \in Walk(Frame.fn) : At(fr, v) /\ Covers(Frame.fn, v.state, Depth, o)
    <3>1. Followed(Frame, Depth, owner)  BY <1>2, TopFollowed
    <3> QED  BY <1>7, <2>1, <3>1, CameKept
  <2>2. PICK w \in Walk(Frame.fn) : At(Frame, w) /\ Covers(Frame.fn, w.state, Depth, owner)
    BY <1>2, <2>1, TopFollowed DEF Followed, Covered
  <2> DEFINE v == Visit(Frame.fn, w, About)
  <2>3. v \in Walk(Frame.fn) /\ At(fr, v)  BY <1>1, <1>6, <2>2, AboutAt DEF Advanced
  <2>4. w.state \in State  BY <2>2 DEF Walk
  <2>5. Covers(Frame.fn, v.state, Depth, o)
    <3>1. CASE About.do = "lock" /\ owner' = [owner EXCEPT ![About.of] = Depth]
      <4>1. v.state = Acquire(Frame.fn, w.state, About.of)  BY <1>3, <2>2, <3>1, VisitStates DEF Visit
      <4>2. About.of \in Class  BY <1>4, <3>1
      <4>3. Covers(Frame.fn, Acquire(Frame.fn, w.state, About.of), Depth, [owner EXCEPT ![About.of] = Depth])
        BY <1>1, <1>3, <2>2, <2>4, <4>2, CoversLock
      <4> QED  BY <1>5, <3>1, <4>1, <4>3
    <3>2. CASE About.do = "unlock" /\ owner' = [owner EXCEPT ![About.of] = 0]
      <4>1. v.state = Release(Frame.fn, w.state, About.of)  BY <1>3, <2>2, <3>2, VisitStates DEF Visit
      <4>2. About.of \in Class  BY <1>4, <3>2
      <4>3. Covers(Frame.fn, Release(Frame.fn, w.state, About.of), Depth, [owner EXCEPT ![About.of] = 0])
        BY <1>1, <1>3, <2>2, <2>4, <4>2, CoversUnlock
      <4> QED  BY <1>5, <3>2, <4>1, <4>3
    <3>3. CASE About.do = "wait" /\ owner' = owner
      <4>1. v.state = w.state  BY <1>3, <2>2, <3>3, VisitStates DEF Visit
      <4> QED  BY <1>5, <2>2, <3>3, <4>1
    <3> QED  BY <3>1, <3>2, <3>3
  <2> QED  BY <2>3, <2>5
<1>9. \A c \in Class : o[c] \in {0, owner[c], Depth}  BY <1>3, <1>4, <1>5 DEF Owners
<1>10. owner' = o /\ thread' = [thread EXCEPT ![Depth] = fr]  BY <1>5, <1>6
<1> QED  BY <1>2, <1>7, <1>8, <1>9, <1>10, TopGoesOn

\* A call.
LEMMA CallSteps ==
    ASSUME AnalysisTyped, ThreadTyped, RunInv, Running, About # None, About.do = "call",
           body' = body, summary' = summary, phase' = phase, owner' = owner,
           thread' = Append([thread EXCEPT ![Depth] = Moved(Frame)], NewFrame(About.of, owner))
    PROVE  RunInv'
<1> HIDE DEF Instr, FrameType, Walk, State
<1>1. body \in Programs /\ summary \in [Function -> Summary]  BY DEF AnalysisTyped
<1>2. thread # <<>>  BY DEF Running
<1>3. About \in Instr /\ Depth \in Nat \ {0} /\ Frame.fn \in Function /\ owner \in Owners
  <2>1. Depth \in 1 .. MaxDepth /\ MaxDepth \in Nat  BY <1>1, <1>2, FrameTypes, BoundAssumption
  <2> QED  BY <1>1, <1>2, <2>1, FrameTypes DEF ThreadTyped
<1>4. About.of \in Function  BY <1>3, InstrParts
<1>5. PICK fr : fr = Moved(Frame)  OBVIOUS
<1>6. fr.fn = Frame.fn /\ fr.called = Frame.called /\ fr.came = Frame.came /\ InBody(fr)
  BY <1>1, <1>5, MovedParts
<1>7. PICK top : top = NewFrame(About.of, owner)  OBVIOUS
<1>8. top.fn = About.of /\ top.called = owner  BY <1>7 DEF NewFrame
<1>9. PICK d : d = Depth  OBVIOUS
<1>10. PICK o : o = owner  OBVIOUS
<1>11. \A w \in Walk(Frame.fn) : At(Frame, w) =>
          LET v == Visit(Frame.fn, w, About)
          IN  /\ v \in Walk(Frame.fn) /\ At(fr, v) /\ Adds(v, Analyze(Frame.fn))
              /\ v = DoCall(Frame.fn, w, About.of) /\ v.state = w.state
  <2> SUFFICES ASSUME NEW w \in Walk(Frame.fn), At(Frame, w)
               PROVE  LET v == Visit(Frame.fn, w, About)
                      IN  /\ v \in Walk(Frame.fn) /\ At(fr, v) /\ Adds(v, Analyze(Frame.fn))
                          /\ v = DoCall(Frame.fn, w, About.of) /\ v.state = w.state
    OBVIOUS
  <2> DEFINE v == Visit(Frame.fn, w, About)
  <2>1. v \in Walk(Frame.fn) /\ At(fr, v) /\ Adds(v, Analyze(Frame.fn))  BY <1>1, <1>5, AboutAt DEF Advanced
  <2>2. v = DoCall(Frame.fn, w, About.of)  BY DEF Visit
  <2>3. DoCall(Frame.fn, w, About.of).state = w.state  BY <1>3, VisitStates
  <2> QED  BY <2>1, <2>2, <2>3
<1>12. DefersAgree(Frame.fn) =>
          \E w \in Walk(Frame.fn) : At(Frame, w) /\ Covers(Frame.fn, w.state, d, o)
  BY <1>2, <1>9, <1>10, TopFollowed DEF Followed, Covered
<1>13. Followed(fr, d, o)
  <2>1. SUFFICES ASSUME DefersAgree(Frame.fn)
                 PROVE  \E v \in Walk(Frame.fn) : At(fr, v) /\ Covers(Frame.fn, v.state, d, o)
    <3>1. Followed(Frame, d, o)  BY <1>2, <1>9, <1>10, TopFollowed
    <3> QED  BY <1>6, <2>1, <3>1, CameKept
  <2>2. PICK w \in Walk(Frame.fn) : At(Frame, w) /\ Covers(Frame.fn, w.state, d, o)  BY <1>12, <2>1
  <2> QED  BY <1>11, <2>2
<1>14. Waits(fr, d, o, top.fn)
  <2> SUFFICES ASSUME DefersAgree(Frame.fn)
               PROVE  \E w \in Walk(Frame.fn) : /\ Covers(Frame.fn, w.state, d, o)
                                                /\ Adds(DoCall(Frame.fn, w, About.of), Analyze(Frame.fn))
    BY <1>6, <1>8 DEF Waits
  <2>1. PICK w \in Walk(Frame.fn) : At(Frame, w) /\ Covers(Frame.fn, w.state, d, o)  BY <1>12
  <2> QED  BY <1>11, <2>1
<1>15. Followed(top, d + 1, o)
  <2>1. ASSUME NEW c \in Class  PROVE o[c] # d + 1
    <3>1. Depth \in DOMAIN thread /\ OwnerAt(Depth) = owner  BY <1>1, <1>2, FrameTypes, TopFollowed
    <3>2. o[c] \in 0 .. d  BY <1>9, <1>10, <3>1 DEF RunInv, Kept
    <3> QED  BY <1>3, <1>9, <3>2
  <2>2. d + 1 \in Nat \ {0} /\ o \in Owners  BY <1>3, <1>9, <1>10
  <2> QED  BY <1>1, <1>4, <1>7, <1>10, <2>1, <2>2, NewFrameFollowed
<1>16. PICK t : t = [thread EXCEPT ![Depth] = fr]  OBVIOUS
<1>17. t \in Seq(FrameType)  BY <1>2, <1>6, <1>16, Replaced
<1>18. thread' = Append(t, top) /\ owner' = o /\ t = [thread EXCEPT ![d] = fr] /\ top.called = owner
  BY <1>5, <1>7, <1>8, <1>9, <1>10, <1>16
<1> QED  BY <1>2, <1>6, <1>9, <1>10, <1>13, <1>14, <1>15, <1>17, <1>18, TopCalls

\* A call that is put off to the return.
LEMMA DeferSteps ==
    ASSUME AnalysisTyped, ThreadTyped, RunInv, RunDefer
    PROVE  RunInv'
<1> HIDE DEF Instr, FrameType, Walk, State, Histories, Owners
<1>1. body \in Programs /\ summary \in [Function -> Summary]  BY DEF AnalysisTyped
<1>2. /\ thread # <<>> /\ InBlock /\ body' = body /\ summary' = summary /\ phase' = phase /\ owner' = owner
      /\ Code[Frame.next].deferred
  BY DEF RunDefer, InBlock, Running, analysis
<1> DEFINE i == body[Frame.fn].code[Frame.block][Frame.next]
           fr == [Frame EXCEPT !.next = Frame.next + 1, !.deferred = Deferring(Frame.deferred, i)]
<1>3. Frame \in FrameType /\ InBody(Frame) /\ i \in Instr /\ i.deferred /\ Frame.fn \in Function
  BY <1>1, <1>2, FrameTypes DEF InBody, Code
<1>4. thread' = [thread EXCEPT ![Depth] = fr]
  <2>1. Deferring(Frame.deferred, i) = Append(Frame.deferred, Code[Frame.next])
    BY <1>3 DEF Deferring, Code
  <2>2. thread' = [thread EXCEPT ![Depth].next = @ + 1,
                                 ![Depth].deferred = Append(@, Code[Frame.next])]
    BY DEF RunDefer
  <2> HIDE DEF i
  <2>3. thread' = [thread EXCEPT ![Depth] = [Frame EXCEPT !.next = Frame.next + 1,
                                    !.deferred = Append(Frame.deferred, Code[Frame.next])]]
    BY <2>2 DEF Frame
  <2> QED  BY <2>1, <2>3
<1>5. fr.fn = Frame.fn /\ fr.called = Frame.called /\ fr.came = Frame.came  BY <1>3 DEF FrameType
<1>6. ASSUME NEW w \in Walk(Frame.fn), At(Frame, w), Covers(Frame.fn, w.state, Depth, owner)
      PROVE  LET v == Instruction(Frame.fn, w, i)
             IN  v \in Walk(Frame.fn) /\ At(fr, v) /\ Covers(Frame.fn, v.state, Depth, owner)
  <2> DEFINE v == Instruction(Frame.fn, w, i)
  <2>1. Frame.next <= Len(body[Frame.fn].code[Frame.block])  BY <1>2 DEF InBlock, Code
  <2>2. v \in Walk(Frame.fn) /\ At(fr, v)  BY <1>1, <1>3, <1>6, <2>1, NextAt DEF Advanced
  <2>3. v.state.counts = w.state.counts /\ v.state.released = w.state.released
    <3>1. v = [w EXCEPT !.state.deferred = Append(w.state.deferred, i)]  BY <1>3 DEF Instruction
    <3>2. Parts(Frame.fn, w)  BY <1>6, WalkParts
    <3>3. w.state = [counts |-> w.state.counts, released |-> w.state.released, deferred |-> w.state.deferred]
      <4>1. w.state \in State  BY <3>2 DEF Parts
      <4> QED  BY <4>1 DEF State
    <3> HIDE DEF i
    <3> QED  BY <3>1, <3>2, <3>3 DEF Parts
  <2> QED  BY <1>6, <2>2, <2>3 DEF Covers
<1> HIDE DEF fr, i
<1>7. PICK o : o = owner  OBVIOUS
<1>8. Followed(fr, Depth, o)
  <2>1. SUFFICES ASSUME DefersAgree(Frame.fn)
                 PROVE  \E v \in Walk(Frame.fn) : At(fr, v) /\ Covers(Frame.fn, v.state, Depth, o)
    <3>1. Followed(Frame, Depth, o)  BY <1>2, <1>7, TopFollowed
    <3> QED  BY <1>5, <2>1, <3>1, CameKept
  <2>2. PICK w \in Walk(Frame.fn) : At(Frame, w) /\ Covers(Frame.fn, w.state, Depth, owner)
    BY <1>2, <2>1, TopFollowed DEF Followed, Covered
  <2> QED  BY <1>6, <1>7, <2>2
<1>9. PICK x : x = fr  OBVIOUS
<1>10. /\ x.fn = Frame.fn /\ x.called = Frame.called /\ Followed(x, Depth, o)
       /\ thread' = [thread EXCEPT ![Depth] = x] /\ owner' = o /\ \A c \in Class : o[c] \in {0, owner[c], Depth}
  BY <1>2, <1>4, <1>5, <1>7, <1>8, <1>9
<1> QED  BY <1>2, <1>10, TopGoesOn

\* The entry of a block is a place of the walk.
LEMMA EnterAt ==
    ASSUME body \in Programs, summary \in [Function -> Summary], NEW fr, fr.fn \in Function,
           fr.block \in 1 .. Len(body[fr.fn].code), fr.next = 1,
           fr.deferred = Enter(fr.fn, fr.block).state.deferred
    PROVE  Enter(fr.fn, fr.block) \in Walk(fr.fn) /\ At(fr, Enter(fr.fn, fr.block))
<1> HIDE DEF Walk, Instr
<1> DEFINE code == body[fr.fn].code[fr.block]
<1>1. code \in Seq(Instr) /\ CodePlaces(fr.fn, fr.block)  BY BodyParts, CodeIsWalked
<1> HIDE DEF code
<1>2. 0 \in 0 .. Len(code) /\ 1 \in 1 .. Len(code) + 1  BY <1>1
<1> QED  BY <1>1, <1>2 DEF CodePlaces, At, code

\* A frame that leaves a block for another is where the walk is done with the block.
LEMMA DoneAt ==
    ASSUME body \in Programs, ThreadTyped, AtEnd, Succs # <<>>, NEW w, At(Frame, w),
           summary \in [Function -> Summary]
    PROVE  w = Done(Frame.fn, Frame.block) /\ Frame.deferred = w.state.deferred
<1> HIDE DEF Walk, Instr, Histories, Owners
<1> DEFINE code == body[Frame.fn].code[Frame.block]
<1>1. thread # <<>>  BY DEF AtEnd, Running
<1>2. /\ Frame \in FrameType /\ Frame.fn \in Function /\ Frame.block \in 1 .. Len(body[Frame.fn].code)
      /\ code \in Seq(Instr)
  BY <1>1, FrameTypes, BodyParts DEF Code
<1>3. Frame.next > Len(code) /\ body[Frame.fn].succs[Frame.block] # <<>>  BY DEF AtEnd, Code, Succs
<1>4. CodePlaces(Frame.fn, Frame.block)  BY <1>2, CodeIsWalked
<1> DEFINE pos == Pos(Frame.fn, Frame.block)
<1>5. Frame.next \in 1 .. Len(code) + 1 /\ w = pos[Frame.next - 1] /\ Frame.deferred = w.state.deferred
  BY <1>3 DEF At
<1>6. pos[Len(code)] = Done(Frame.fn, Frame.block)  BY <1>4 DEF CodePlaces
<1> HIDE DEF code, pos
<1>7. Frame.next - 1 = Len(code)
  <2>1. Len(code) \in Nat  BY <1>2
  <2> QED  BY <1>3, <1>5, <2>1
<1> QED  BY <1>5, <1>6, <1>7

\* A branch.
LEMMA BranchSteps ==
    ASSUME AnalysisTyped, ThreadTyped, RunInv, RunBranch
    PROVE  RunInv'
<1> HIDE DEF Instr, FrameType, Walk, State, Histories, Owners
<1>1. body \in Programs /\ summary \in [Function -> Summary]  BY DEF AnalysisTyped
<1>2. thread # <<>> /\ AtEnd /\ body' = body /\ summary' = summary /\ phase' = phase /\ owner' = owner
  BY DEF RunBranch, AtEnd, Running, analysis
<1>3. PICK s \in Range(Succs) :
        /\ IF s \in DOMAIN Frame.came THEN ComesBack(s) ELSE s > Frame.block
        /\ thread' = [thread EXCEPT ![Depth].block = s, ![Depth].next = 1,
                                    ![Depth].came = [t \in DOMAIN @ \cup {s} |->
                                       IF t \in DOMAIN @ THEN @[t] ELSE <<owner, Frame.deferred>>]]
  BY DEF RunBranch
<1>4. /\ Frame \in FrameType /\ Frame.fn \in Function /\ Frame.block \in 1 .. Len(body[Frame.fn].code)
      /\ s \in 1 .. Len(body[Frame.fn].code) /\ s \in Range(body[Frame.fn].succs[Frame.block])
      /\ Depth \in DOMAIN thread /\ Depth \in Nat \ {0}
  <2>1. Depth \in DOMAIN thread /\ Depth \in 1 .. MaxDepth /\ MaxDepth \in Nat
    BY <1>1, <1>2, FrameTypes, BoundAssumption
  <2>2. Frame \in FrameType /\ Frame.fn \in Function /\ Frame.block \in 1 .. Len(body[Frame.fn].code)
    BY <1>1, <1>2, FrameTypes, BodyParts
  <2>3. s \in Range(body[Frame.fn].succs[Frame.block])  BY <1>3 DEF Succs
  <2>4. s \in 1 .. Len(body[Frame.fn].code)  BY <1>1, <2>2, <2>3, BodyEdges
  <2> QED  BY <2>1, <2>2, <2>3, <2>4
<1> DEFINE came == [t \in DOMAIN Frame.came \cup {s} |->
                       IF t \in DOMAIN Frame.came THEN Frame.came[t] ELSE <<owner, Frame.deferred>>]
           fr == [Frame EXCEPT !.block = s, !.next = 1, !.came = came]
           w == Enter(Frame.fn, s)
<1>5. thread' = [thread EXCEPT ![Depth] = fr]  BY <1>3, <1>4 DEF Frame, FrameType
<1> HIDE DEF came
<1>6. /\ fr.fn = Frame.fn /\ fr.called = Frame.called /\ fr.came = came /\ fr.block = s /\ fr.next = 1
      /\ fr.deferred = Frame.deferred
  BY <1>4 DEF FrameType
<1> HIDE DEF fr
<1>7. ASSUME DefersAgree(Frame.fn)
      PROVE  Covers(Frame.fn, w.state, Depth, owner) /\ Frame.deferred = w.state.deferred
  <2>1. Covered(Frame, Depth, owner) /\ CameCovered(Frame, Depth)
    BY <1>2, <1>7, TopFollowed DEF Followed
  <2>2. CASE s \in DOMAIN Frame.came
    <3> DEFINE first == Frame.came[s]
    <3>1. Covers(Frame.fn, w.state, Depth, first[1]) /\ first[2] = w.state.deferred
      BY <2>1, <2>2 DEF CameCovered
    <3>2. (\A c \in Class : owner[c] \in {0, first[1][c]}) /\ Frame.deferred = first[2]
      BY <1>3, <2>2 DEF ComesBack
    <3> QED  BY <1>4, <3>1, <3>2, CoversLess
  <2>3. CASE s \notin DOMAIN Frame.came
    <3>1. PICK v \in Walk(Frame.fn) : At(Frame, v) /\ Covers(Frame.fn, v.state, Depth, owner)
      BY <2>1 DEF Covered
    <3>2. Succs # <<>>
      <4>1. Range(<<>>) = {}  BY DEF Range
      <4> QED  BY <1>3, <4>1
    <3>3. v = Done(Frame.fn, Frame.block) /\ Frame.deferred = v.state.deferred
      BY <1>1, <1>2, <3>1, <3>2, DoneAt
    <3>4. /\ Wider(Done(Frame.fn, Frame.block).state, w.state)
          /\ w.state.deferred = Done(Frame.fn, Frame.block).state.deferred
      <4>1. s > Frame.block  BY <1>3, <2>3
      <4> QED  BY <1>1, <1>4, <1>7, <4>1, Joins
    <3>5. v.state \in State /\ w.state \in State
      <4>1. w.state \in State
        <5>1. CodePlaces(Frame.fn, s)  BY <1>1, <1>4, CodeIsWalked
        <5>2. 0 \in 0 .. Len(body[Frame.fn].code[s])
          <6> DEFINE code == body[Frame.fn].code[s]
          <6>1. code \in Seq(Instr)  BY <1>1, <1>4, BodyParts
          <6> HIDE DEF code
          <6>2. 0 \in 0 .. Len(code)  BY <6>1
          <6> QED  BY <6>2 DEF code
        <5>3. w \in Walk(Frame.fn)  BY <5>1, <5>2 DEF CodePlaces
        <5> QED  BY <5>3 DEF Walk
      <4> QED  BY <3>1, <4>1 DEF Walk
    <3>6. Covers(Frame.fn, w.state, Depth, owner)  BY <3>1, <3>3, <3>4, <3>5, CoversWider
    <3> QED  BY <3>3, <3>4, <3>6
  <2> QED  BY <2>2, <2>3
<1>8. PICK o : o = owner  OBVIOUS
<1>9. PICK x : x = fr  OBVIOUS
<1>10. Followed(x, Depth, o)
  <2> SUFFICES ASSUME DefersAgree(Frame.fn)
               PROVE  Covered(x, Depth, o) /\ CameCovered(x, Depth)
    BY <1>6, <1>9 DEF Followed
  <2>1. Covers(Frame.fn, w.state, Depth, o) /\ Frame.deferred = w.state.deferred  BY <1>7, <1>8
  <2>2. w \in Walk(Frame.fn) /\ At(x, w)
    <3>1. x.fn = Frame.fn /\ x.block = s /\ x.next = 1 /\ x.deferred = w.state.deferred
      BY <1>6, <1>9, <2>1
    <3>2. x.fn \in Function /\ x.block \in 1 .. Len(body[x.fn].code)
          /\ x.deferred = Enter(x.fn, x.block).state.deferred
      BY <1>4, <3>1
    <3>3. Enter(x.fn, x.block) \in Walk(x.fn) /\ At(x, Enter(x.fn, x.block))
      BY <1>1, <3>1, <3>2, EnterAt
    <3> QED  BY <3>1, <3>3
  <2>3. Covered(x, Depth, o)
    <3> HIDE DEF w
    <3> QED  BY <1>6, <1>9, <2>1, <2>2 DEF Covered
  <2>4. ASSUME NEW t \in DOMAIN came
        PROVE  /\ Covers(Frame.fn, Enter(Frame.fn, t).state, Depth, came[t][1])
               /\ came[t][2] = Enter(Frame.fn, t).state.deferred
    <3>1. CASE t \in DOMAIN Frame.came
      <4>1. CameCovered(Frame, Depth)  BY <1>2, TopFollowed DEF Followed
      <4>2. came[t] = Frame.came[t]  BY <3>1 DEF came
      <4> QED  BY <3>1, <4>1, <4>2 DEF CameCovered
    <3>2. CASE t \notin DOMAIN Frame.came
      <4>1. t = s /\ came[t] = <<owner, Frame.deferred>>  BY <2>4, <3>2 DEF came
      <4> QED  BY <1>8, <2>1, <4>1
    <3> QED  BY <3>1, <3>2
  <2>5. CameCovered(x, Depth)  BY <1>6, <1>9, <2>4 DEF CameCovered
  <2> QED  BY <2>3, <2>5
<1>11. /\ x.fn = Frame.fn /\ x.called = Frame.called /\ thread' = [thread EXCEPT ![Depth] = x]
       /\ owner' = o /\ \A c \in Class : o[c] \in {0, owner[c], Depth}
  BY <1>2, <1>5, <1>6, <1>8, <1>9
<1> QED  BY <1>2, <1>10, <1>11, TopGoesOn

\* The program begins in any function, with the locks it is annotated to hold.
LEMMA BeginFollowed ==
    ASSUME AnalysisTyped, RunInv, Begin
    PROVE  RunInv'
<1> HIDE DEF Instr, FrameType, Walk, State, Histories
<1>1. body \in Programs /\ summary \in [Function -> Summary] /\ body' = body /\ summary' = summary
      /\ phase' = "running"
  BY DEF AnalysisTyped, Begin
<1>2. PICK f \in Function :
         /\ thread' = <<NewFrame(f, owner')>>
         /\ owner' = [c \in Class |-> IF c \in body[f].entry THEN 1 ELSE 0]
  BY DEF Begin
<1>3. PICK held : held = owner'  OBVIOUS
<1>4. held \in Owners /\ \A c \in Class : held[c] \in 0 .. 1 /\ (held[c] = 1 => c \in body[f].entry)
  <2>1. 0 \in 0 .. MaxDepth /\ 1 \in 0 .. MaxDepth  BY BoundAssumption
  <2> QED  BY <1>2, <1>3, <2>1 DEF Owners
<1>5. PICK fr : fr = NewFrame(f, held)  OBVIOUS
<1>6. Followed(fr, 1, held)  BY <1>1, <1>4, <1>5, NewFrameFollowed
<1>7. thread' = <<fr>> /\ DOMAIN thread' = {1} /\ Len(thread') = 1 /\ thread'[1] = fr
  BY <1>2, <1>3, <1>5
<1>8. OwnerAt(1)' = held  BY <1>3, <1>7 DEF OwnerAt
<1>9. \A x, i, p : Followed(x, i, p)' <=> Followed(x, i, p)  BY <1>1, SameFrames
<1>10. \A i \in DOMAIN thread' : Followed(thread[i], i, OwnerAt(i))'
  <2> SUFFICES ASSUME NEW i \in DOMAIN thread'  PROVE Followed(thread[i], i, OwnerAt(i))'  OBVIOUS
  <2>1. i = 1  BY <1>7
  <2>2. thread'[i] = fr /\ OwnerAt(i)' = held  BY <1>7, <1>8, <2>1
  <2> QED  BY <1>6, <1>9, <2>1, <2>2
<1>11. \A i \in DOMAIN thread' : ~(i < Len(thread'))  BY <1>7
<1>12. Kept' /\ Nested'
  <2>1. \A i \in DOMAIN thread' : i = 1 /\ OwnerAt(i)' = held  BY <1>7, <1>8
  <2>2. Kept'  BY <1>4, <2>1 DEF Kept
  <2>3. \A i, j \in DOMAIN thread' : ~(i < j)  BY <2>1
  <2> QED  BY <2>2, <2>3 DEF Nested
<1> QED  BY <1>1, <1>10, <1>11, <1>12 DEF RunInv

LEMMA RunInvStays == IInv /\ ThreadTyped /\ RunInv /\ [Next]_vars => RunInv'
<1> SUFFICES ASSUME IInv, ThreadTyped, RunInv, [Next]_vars  PROVE RunInv'  OBVIOUS
<1> HIDE DEF Instr, FrameType, Walk, State, Histories, Owners
<1>1. AnalysisTyped  BY DEF IInv
<1>2. CASE Grow \/ EndRound \/ ReportOn
  <2>1. thread' = thread /\ owner' = owner /\ phase # "running"  BY <1>2 DEF Grow, EndRound, ReportOn
  <2>2. thread = <<>>  BY <2>1 DEF RunInv
  <2>3. thread' = <<>> /\ DOMAIN thread' = {}  BY <2>1, <2>2
  <2> QED  BY <2>3 DEF RunInv, Kept, Nested
<1>3. CASE Begin  BY <1>1, <1>3, BeginFollowed
<1>4. CASE RunDefer  BY <1>1, <1>4, DeferSteps
<1>5. CASE RunInstr
  <2>1. Running /\ About # None /\ body' = body /\ summary' = summary /\ phase' = phase
    BY <1>5 DEF RunInstr, analysis
  <2>2. \/ /\ thread' = [thread EXCEPT ![Depth] = Moved(Frame)]
           /\ \/ About.do = "lock" /\ owner[About.of] = 0 /\ owner' = [owner EXCEPT ![About.of] = Depth]
              \/ About.do = "unlock" /\ owner' = [owner EXCEPT ![About.of] = 0]
              \/ About.do = "wait" /\ owner' = owner
        \/ /\ About.do = "call" /\ owner' = owner
           /\ thread' = Append([thread EXCEPT ![Depth] = Moved(Frame)], NewFrame(About.of, owner))
    BY <1>5 DEF RunInstr, Frame
  <2>3. CASE thread' = [thread EXCEPT ![Depth] = Moved(Frame)] /\ About.do # "call"
    BY <1>1, <2>1, <2>2, <2>3, SimpleSteps
  <2>4. CASE About.do = "call"
    <3>1. /\ owner' = owner
          /\ thread' = Append([thread EXCEPT ![Depth] = Moved(Frame)], NewFrame(About.of, owner))
      BY <2>2, <2>4
    <3> QED  BY <1>1, <2>1, <2>4, <3>1, CallSteps
  <2> QED  BY <2>2, <2>3, <2>4
<1>6. CASE RunBranch  BY <1>1, <1>6, BranchSteps
<1>7. CASE RunReturn
  <2>1. /\ phase = "running" /\ thread # <<>> /\ body' = body /\ summary' = summary /\ phase' = phase
        /\ thread' = Front(thread) /\ owner' = Frame.called
    BY <1>7 DEF RunReturn, Returning, AtEnd, Running, analysis
  <2> QED  BY <2>1, TopReturns
<1>8. CASE UNCHANGED vars
  <2>1. /\ thread' = thread /\ owner' = owner /\ phase' = phase /\ body' = body /\ summary' = summary
    BY <1>8 DEF vars
  <2>2. \A x, i, p, g : (Followed(x, i, p)' <=> Followed(x, i, p)) /\ (Waits(x, i, p, g)' <=> Waits(x, i, p, g))
    BY <2>1, SameFrames
  <2>3. \A i : OwnerAt(i)' = OwnerAt(i)  BY <2>1 DEF OwnerAt
  <2>4. Kept' /\ Nested'  BY <2>1, <2>3 DEF RunInv, Kept, Nested
  <2> QED  BY <2>1, <2>2, <2>3, <2>4 DEF RunInv
<1> QED  BY <1>2, <1>3, <1>4, <1>5, <1>6, <1>7, <1>8 DEF Next, Analysis, RunStep

-----------------------------------------------------------------------------
(***************************************************************************)
(* What a lock or a wait says to the callers: the summaries name it, with  *)
(* no more released than was, and each caller reports what it holds.       *)
(***************************************************************************)
Says(sum, i) == IF i.do = "lock" THEN sum.acquires[i.of] ELSE sum.blocking
Warns(rep, i) == IF i.do = "lock" THEN {c \in Class : <<c, i.of>> \in rep.pairs} ELSE rep.waits

\* An instruction that takes a lock or waits.
Event(i) == i \in Instr /\ i.do \in {"lock", "wait"}

LEMMA VisitSays ==
    ASSUME NEW f \in Function, NEW w \in Walk(f), NEW i, Event(i)
    PROVE  LET v == Visit(f, w, i)
           IN  /\ Says(v.sum, i) # None /\ Says(v.sum, i) \subseteq w.state.released
               /\ Held(w.state) \subseteq Warns(v.rep, i)
<1> DEFINE v == Visit(f, w, i)
<1>p. Parts(f, w)  BY WalkParts
<1>1. w.state.released \in SUBSET Class /\ Held(w.state) \subseteq Class
  <2>1. w.state \in State  BY <1>p DEF Parts
  <2> QED  BY <2>1 DEF State, Held
<1>2. \A old \in (SUBSET Class) \cup {None} :
         Keep(old, w.state.released) # None /\ Keep(old, w.state.released) \subseteq w.state.released
  BY <1>1, NoneAssumption DEF Keep
<1>3. CASE i.do = "lock"
  <2> DEFINE c == i.of
             n == Noted(w, Held(w.state) \X {c})
  <2>1. c \in Class  BY <1>3, InstrParts DEF Event
  <2>2. v = [n EXCEPT !.sum.acquires[c] = Keep(n.sum.acquires[c], w.state.released),
                      !.state = Acquire(f, n.state, c)]
    BY <1>3 DEF Visit, DoLock
  <2>3. DOMAIN n = {"state", "sum", "rep", "in"} /\ n.sum.acquires = w.sum.acquires
        /\ DOMAIN n.sum = {"acquires", "pairs", "blocking"}
        /\ n.rep.pairs = w.rep.pairs \cup (Held(w.state) \X {c})
    BY <1>p DEF Noted, Parts
  <2> HIDE DEF n, v
  <2>4. v.sum.acquires[c] = Keep(w.sum.acquires[c], w.state.released) /\ v.rep.pairs = n.rep.pairs
    BY <1>p, <2>1, <2>2, <2>3 DEF Parts
  <2>5. v.sum.acquires[c] # None /\ v.sum.acquires[c] \subseteq w.state.released
    BY <1>2, <1>p, <2>1, <2>4 DEF Parts
  <2>6. Says(v.sum, i) # None /\ Says(v.sum, i) \subseteq w.state.released  BY <1>3, <2>5 DEF Says
  <2>7. Held(w.state) \subseteq Warns(v.rep, i)  BY <1>1, <1>3, <2>3, <2>4 DEF Warns
  <2> QED  BY <2>6, <2>7 DEF v
<1>4. CASE i.do = "wait"
  <2>1. v = DoWait(w)  BY <1>4 DEF Visit
  <2>2. /\ v.sum.blocking = Keep(w.sum.blocking, w.state.released)
        /\ v.rep.waits = w.rep.waits \cup Held(w.state)
    BY <1>p, <2>1 DEF DoWait, Parts
  <2>3. v.sum.blocking # None /\ v.sum.blocking \subseteq w.state.released
    BY <1>2, <1>p, <2>2 DEF Parts
  <2> HIDE DEF v
  <2>4. Says(v.sum, i) = v.sum.blocking /\ Warns(v.rep, i) = v.rep.waits  BY <1>4 DEF Says, Warns
  <2> QED  BY <2>2, <2>3, <2>4 DEF v
<1> QED  BY <1>3, <1>4 DEF Event

LEMMA CallSays ==
    ASSUME NEW f \in Function, NEW w \in Walk(f), NEW g \in Function, f # g,
           summary \in [Function -> Summary], NEW i, Event(i), Says(summary[g], i) # None
    PROVE  LET v == DoCall(f, w, g)
               said == Says(summary[g], i)
           IN  /\ Says(v.sum, i) # None /\ Says(v.sum, i) \subseteq w.state.released \cup said
               /\ Held(w.state) \ said \subseteq Warns(v.rep, i)
<1> DEFINE v == DoCall(f, w, g)
           cs == summary[g]
           held == Held(w.state)
           released == w.state.released
           acquired == {c \in Class : cs.acquires[c] # None}
           pairs == {p \in held \X acquired : p[1] \notin cs.acquires[p[2]]}
           blocks == cs.blocking # None
           n == Noted(w, pairs)
           acquires == [c \in Class |-> IF c \in acquired
                           THEN Keep(n.sum.acquires[c], released \cup cs.acquires[c]) ELSE n.sum.acquires[c]]
           blocking == IF blocks THEN Keep(n.sum.blocking, released \cup cs.blocking) ELSE n.sum.blocking
           waits == IF blocks THEN n.rep.waits \cup (held \ cs.blocking) ELSE n.rep.waits
<1>p. Parts(f, w)  BY WalkParts
<1>1. released \in SUBSET Class /\ held \subseteq Class
  <2>1. w.state \in State  BY <1>p DEF Parts
  <2> QED  BY <2>1 DEF State, Held
<1>2. /\ cs.blocking \in (SUBSET Class) \cup {None}
      /\ \A c \in Class : cs.acquires[c] \in (SUBSET Class) \cup {None}
  <2>1. cs \in Summary  OBVIOUS
  <2> QED  BY <2>1 DEF Summary
<1>3. v = [n EXCEPT !.sum.acquires = acquires, !.sum.blocking = blocking, !.rep.waits = waits]
  BY DEF DoCall
<1>4. /\ DOMAIN n = {"state", "sum", "rep", "in"}
      /\ DOMAIN n.sum = {"acquires", "pairs", "blocking"} /\ DOMAIN n.rep = {"pairs", "waits"}
      /\ n.sum.acquires = w.sum.acquires /\ n.sum.blocking = w.sum.blocking
      /\ n.rep.pairs = w.rep.pairs \cup pairs
  <2> HIDE DEF pairs
  <2> QED  BY <1>p DEF Noted, Parts
<1> HIDE DEF n, v
<1>5. v.sum.acquires = acquires /\ v.sum.blocking = blocking /\ v.rep.pairs = n.rep.pairs /\ v.rep.waits = waits
  <2> HIDE DEF acquires, blocking, waits
  <2> QED  BY <1>3, <1>4
<1>6. ASSUME NEW old \in (SUBSET Class) \cup {None}, NEW said \in SUBSET Class
      PROVE  Keep(old, said) # None /\ Keep(old, said) \subseteq said
  BY <1>6, NoneAssumption DEF Keep
<1>7. CASE i.do = "lock"
  <2> DEFINE c == i.of
  <2>1. c \in Class /\ Says(cs, i) = cs.acquires[c] /\ Says(v.sum, i) = v.sum.acquires[c]
    BY <1>7, InstrParts DEF Event, Says
  <2>2. c \in acquired  BY <2>1
  <2>3. acquires[c] = Keep(w.sum.acquires[c], released \cup cs.acquires[c])  BY <1>4, <2>1, <2>2
  <2>4. released \cup cs.acquires[c] \in SUBSET Class  BY <1>1, <1>2, <2>1
  <2>5. w.sum.acquires[c] \in (SUBSET Class) \cup {None}  BY <1>p, <2>1 DEF Parts
  <2>6. Says(v.sum, i) # None /\ Says(v.sum, i) \subseteq released \cup cs.acquires[c]
    BY <1>5, <1>6, <2>1, <2>3, <2>4, <2>5
  <2>7. ASSUME NEW d \in held, d \notin cs.acquires[c]  PROVE d \in Warns(v.rep, i)
    <3>1. <<d, c>> \in pairs  BY <2>2, <2>7
    <3>2. <<d, c>> \in v.rep.pairs  BY <1>4, <1>5, <3>1
    <3> QED  BY <1>1, <1>7, <2>7, <3>2 DEF Warns
  <2> HIDE DEF held, released, cs
  <2> QED  BY <2>1, <2>6, <2>7 DEF v, held, released, cs
<1>8. CASE i.do = "wait"
  <2>1. /\ Says(cs, i) = cs.blocking /\ Says(v.sum, i) = v.sum.blocking
        /\ Warns(v.rep, i) = v.rep.waits
    BY <1>8 DEF Says, Warns
  <2>2. blocks  BY <2>1
  <2>3. blocking = Keep(w.sum.blocking, released \cup cs.blocking)  BY <1>4, <2>2
  <2>4. released \cup cs.blocking \in SUBSET Class  BY <1>1, <1>2, <2>2
  <2>5. w.sum.blocking \in (SUBSET Class) \cup {None}  BY <1>p DEF Parts
  <2>6. Says(v.sum, i) # None /\ Says(v.sum, i) \subseteq released \cup cs.blocking
    BY <1>5, <1>6, <2>1, <2>3, <2>4, <2>5
  <2>7. held \ cs.blocking \subseteq Warns(v.rep, i)  BY <1>5, <2>1, <2>2
  <2> HIDE DEF held, released, cs
  <2> QED  BY <2>1, <2>6, <2>7 DEF v, held, released, cs
<1> QED  BY <1>7, <1>8 DEF Event

LEMMA AddsSays ==
    ASSUME NEW f \in Function, NEW w \in Walk(f), NEW v \in Walk(f), Adds(w, v), NEW i, Event(i)
    PROVE  /\ Says(w.sum, i) # None => Says(v.sum, i) # None /\ Says(v.sum, i) \subseteq Says(w.sum, i)
           /\ Warns(w.rep, i) \subseteq Warns(v.rep, i)
<1>1. i.do = "lock" => i.of \in Class  BY InstrParts DEF Event
<1>2. Told(w.sum.blocking, v.sum.blocking) /\ \A c \in Class : Told(w.sum.acquires[c], v.sum.acquires[c])
  BY DEF Adds, More
<1>3. Told(Says(w.sum, i), Says(v.sum, i))  BY <1>1, <1>2 DEF Says
<1>4. Warns(w.rep, i) \subseteq Warns(v.rep, i)  BY DEF Warns, Adds
<1> QED  BY <1>3, <1>4 DEF Told

-----------------------------------------------------------------------------
(***************************************************************************)
(* From a lock or a wait of the innermost frame outwards: the summary of   *)
(* each frame's function names it, and each function has reported it.      *)
(***************************************************************************)
\* A report is that of the settled walk.
Reported(f) == reports[f] = Analyze(f).rep
RepInv ==
    round <= MaxRounds =>
       /\ phase = "reporting" => \A i \in DOMAIN order : i < at => Reported(order[i])
       /\ phase = "running" => \A f \in Function : Reported(f)

LEMMA RepInvStays == IInv /\ RepInv /\ [Next]_vars => RepInv'
<1> SUFFICES ASSUME IInv, RepInv, [Next]_vars  PROVE RepInv'  OBVIOUS
<1>1. AnalysisTyped /\ AllSettled  BY DEF IInv
<1>2. order \in Seq(Function) /\ \A f \in Function : \E i \in DOMAIN order : order[i] = f
  BY <1>1 DEF AnalysisTyped, Ordered
<1>3. CASE Grow  BY <1>3 DEF Grow, RepInv
<1>4. CASE EndRound
  <2>1. phase' # "running" /\ at' = 1 /\ order' = order  BY <1>4 DEF EndRound
  <2>2. \A i \in DOMAIN order : ~(i < 1)  BY <1>2
  <2> QED  BY <2>1, <2>2 DEF RepInv
<1>5. CASE ReportOn
  <2>1. /\ body' = body /\ order' = order /\ phase' = phase /\ round' = round
        /\ phase = "reporting" /\ at <= Len(order) /\ at' = at + 1
        /\ reports' = [reports EXCEPT ![Current] = Analyze(Current).rep]
        /\ summary' = [summary EXCEPT ![Current] = Analyze(Current).sum]
    BY <1>5 DEF ReportOn
  <2>2. at \in DOMAIN order /\ Current \in Function  BY <1>1, <1>2, <2>1 DEF AnalysisTyped, Current
  <2> SUFFICES ASSUME round <= MaxRounds, NEW i \in DOMAIN order, i < at + 1
               PROVE  Reported(order[i])'
    BY <2>1 DEF RepInv
  <2>3. summary' = summary
    <3>1. Settled(Current)  BY <1>1, <2>1, <2>2 DEF AllSettled
    <3> QED  BY <1>1, <2>1, <3>1 DEF Settled, AnalysisTyped
  <2>4. \A f : Analyze(f)' = Analyze(f)  BY <2>1, <2>3, SameWalk
  <2>5. PICK f : f = order[i]  OBVIOUS
  <2>6. f \in Function /\ f = order'[i]  BY <1>2, <2>1, <2>5
  <2>7. reports'[f] = Analyze(f).rep
    <3>1. CASE f = Current  BY <1>1, <2>1, <2>6, <3>1 DEF AnalysisTyped
    <3>2. CASE f # Current
      <4>1. i < at
        <5>1. i # at  BY <2>5, <3>2 DEF Current
        <5> QED  BY <1>1, <1>2, <5>1 DEF AnalysisTyped
      <4>2. reports[f] = Analyze(f).rep  BY <2>1, <2>5, <4>1 DEF RepInv, Reported
      <4> QED  BY <1>1, <2>1, <2>6, <3>2, <4>2 DEF AnalysisTyped
    <3> QED  BY <3>1, <3>2
  <2>8. Reported(f)'  BY <2>4, <2>7 DEF Reported
  <2> QED  BY <2>6, <2>8 DEF Reported
<1>6. CASE Begin
  <2>1. /\ body' = body /\ summary' = summary /\ reports' = reports /\ round' = round
        /\ phase = "reporting" /\ at > Len(order) /\ phase' = "running"
    BY <1>6 DEF Begin
  <2> SUFFICES ASSUME round <= MaxRounds, NEW f \in Function  PROVE Reported(f)'
    BY <2>1 DEF RepInv
  <2>2. PICK i \in DOMAIN order : order[i] = f  BY <1>2
  <2>3. i < at  BY <1>1, <1>2, <2>1 DEF AnalysisTyped
  <2>4. Reported(f)  BY <2>1, <2>2, <2>3 DEF RepInv
  <2>5. Analyze(f)' = Analyze(f)  BY <2>1, SameWalk
  <2> QED  BY <2>1, <2>4, <2>5 DEF Reported
<1>7. CASE RunStep \/ UNCHANGED vars
  <2>1. /\ body' = body /\ order' = order /\ phase' = phase /\ round' = round /\ at' = at
        /\ summary' = summary /\ reports' = reports
    BY <1>7 DEF RunStep, RunDefer, RunInstr, RunBranch, RunReturn, analysis, vars
  <2>2. \A f : Analyze(f)' = Analyze(f)  BY <2>1, SameWalk
  <2>3. \A f : Reported(f)' <=> Reported(f)  BY <2>1, <2>2 DEF Reported
  <2>4. ASSUME NEW i, Reported(order[i])  PROVE Reported(order[i])'
    <3>1. PICK f : f = order[i]  OBVIOUS
    <3>2. Reported(f)'  BY <2>3, <2>4, <3>1
    <3> QED  BY <2>1, <3>1, <3>2 DEF Reported
  <2> QED  BY <2>1, <2>3, <2>4 DEF RepInv
<1> QED  BY <1>3, <1>4, <1>5, <1>6, <1>7 DEF Next, Analysis

\* The innermost frame is about to take a lock or to wait, after an analysis that settled.
Ready ==
    /\ AnalysisTyped /\ ThreadTyped /\ RunInv /\ Running
    /\ \A f \in Function : Settled(f) /\ Reported(f)
    /\ About # None /\ Event(About)

\* The summary of the function of the frame at depth j names what is about to happen,
\* and says of no lock that a frame further out holds that it was released by then.
Knows(j, i) ==
    LET said == Says(summary[thread[j].fn], i)
    IN  said # None /\ \A c \in said : owner[c] \notin 1 .. j - 1

\* The function of the frame at depth j has reported what is about to happen.
Tells(j, i) == \A c \in Class : Holds(j, c) => c \in Warns(reports[thread[j].fn], i)

LEMMA TopTells ==
    ASSUME Ready, DefersAgree(Frame.fn)
    PROVE  Knows(Depth, About) /\ Tells(Depth, About)
<1> HIDE DEF Walk, Instr, State, Owners
<1>1. body \in Programs /\ summary \in [Function -> Summary] /\ thread # <<>>
  BY DEF Ready, AnalysisTyped, Running
<1>2. ThreadTyped /\ RunInv /\ Running /\ About # None /\ Event(About)  BY DEF Ready
<1>3. PICK f : f = Frame.fn  OBVIOUS
<1>4. PICK d : d = Depth  OBVIOUS
<1>5. PICK i : i = About  OBVIOUS
<1>6. f \in Function /\ Depth \in DOMAIN thread /\ thread[d].fn = f
  BY <1>1, <1>2, <1>3, <1>4, FrameTypes DEF Frame
<1>7. OwnerAt(d) = owner  BY <1>4 DEF OwnerAt, Depth
<1>8. Covered(Frame, d, owner)
  <2>1. Followed(thread[d], d, OwnerAt(d))  BY <1>2, <1>4, <1>6 DEF RunInv
  <2> QED  BY <1>4, <1>7, <2>1 DEF Followed, Frame
<1>9. PICK w \in Walk(f) : At(Frame, w) /\ Covers(f, w.state, d, owner)  BY <1>3, <1>8 DEF Covered
<1> DEFINE v == Visit(f, w, i)
<1>10. v \in Walk(f) /\ Adds(v, Analyze(f))
  <2>1. Advanced(Frame.fn, w, Visit(Frame.fn, w, About), Moved(Frame))  BY <1>1, <1>2, <1>9, AboutAt
  <2> QED  BY <1>3, <1>5, <2>1 DEF Advanced
<1>11. /\ Says(v.sum, i) # None /\ Says(v.sum, i) \subseteq w.state.released
       /\ Held(w.state) \subseteq Warns(v.rep, i)
  BY <1>2, <1>5, <1>6, VisitSays
<1> HIDE DEF v
<1>12. Analyze(f) \in Walk(f)  BY <1>1, <1>6, AnalyzeGrows
<1>13. /\ Says(Analyze(f).sum, i) # None /\ Says(Analyze(f).sum, i) \subseteq w.state.released
       /\ Held(w.state) \subseteq Warns(Analyze(f).rep, i)
  BY <1>2, <1>5, <1>6, <1>10, <1>11, <1>12, AddsSays
<1>14. Analyze(f).sum = summary[f] /\ reports[f] = Analyze(f).rep  BY <1>6 DEF Ready, Settled, Reported
<1>15. w.state.released \in SUBSET Class
  <2>1. w.state \in State  BY DEF Walk
  <2> QED  BY <2>1 DEF State
<1>16. Knows(d, i)  BY <1>6, <1>9, <1>13, <1>14, <1>15 DEF Knows, Covers
<1>17. Tells(d, i)
  <2> SUFFICES ASSUME NEW c \in Class, Holds(d, c)  PROVE c \in Held(w.state)
    BY <1>6, <1>13, <1>14 DEF Tells
  <2> QED  BY <1>6, <1>9 DEF Holds, Covers, Held
<1> QED  BY <1>4, <1>5, <1>16, <1>17

\* The step from a frame to the one that called it.
LEMMA CallerTells ==
    ASSUME Ready, NEW j \in 1 .. Depth - 1, DefersAgree(thread[j].fn), Knows(j + 1, About)
    PROVE  Knows(j, About) /\ (thread[j].fn # thread[j + 1].fn => Tells(j, About))
<1> HIDE DEF Walk, Instr, State, Owners, FrameType
<1>1. body \in Programs /\ summary \in [Function -> Summary] /\ thread # <<>>
  BY DEF Ready, AnalysisTyped, Running
<1>2. ThreadTyped /\ RunInv /\ Event(About)  BY DEF Ready
<1>3. PICK f : f = thread[j].fn  OBVIOUS
<1>4. PICK g : g = thread[j + 1].fn  OBVIOUS
<1>5. PICK i : i = About  OBVIOUS
<1>6. Depth \in Nat /\ Depth = Len(thread) /\ DOMAIN thread = 1 .. Depth /\ owner \in Owners
  BY <1>2 DEF ThreadTyped, Depth
<1>7. /\ j \in Nat \ {0} /\ j \in DOMAIN thread /\ j + 1 \in DOMAIN thread /\ j < Len(thread)
      /\ Depth \in DOMAIN thread /\ (j + 1) - 1 = j
  BY <1>6
<1>8. f \in Function /\ g \in Function
  BY <1>2, <1>3, <1>4, <1>7 DEF ThreadTyped, InBody, FrameType
<1> DEFINE said == Says(summary[g], i)
<1>9. said # None /\ \A c \in said : owner[c] \notin 1 .. j
  BY <1>4, <1>5, <1>7 DEF Knows
<1>10. 1 .. j - 1 \subseteq 1 .. j  BY <1>7
<1>11. CASE f = g  BY <1>3, <1>4, <1>5, <1>9, <1>10, <1>11 DEF Knows
<1>12. CASE f # g
  <2>1. PICK o : o = OwnerAt(j)  OBVIOUS
  <2>2. \A c \in Class : owner[c] \in 1 .. j => o[c] = owner[c]
    <3>1. OwnerAt(Depth) = owner  BY <1>6 DEF OwnerAt
    <3> QED  BY <1>2, <1>6, <1>7, <2>1, <3>1 DEF RunInv, Nested
  <2>3. Waits(thread[j], j, OwnerAt(j), thread[j + 1].fn)  BY <1>2, <1>7 DEF RunInv
  <2>4. PICK w \in Walk(f) : Covers(f, w.state, j, o) /\ Adds(DoCall(f, w, g), Analyze(f))
    BY <1>3, <1>4, <2>1, <2>3 DEF Waits
  <2> DEFINE v == DoCall(f, w, g)
  <2>5. v \in Walk(f)  BY <1>1, <1>8, DoCallGrows DEF Onward
  <2>6. /\ Says(v.sum, i) # None /\ Says(v.sum, i) \subseteq w.state.released \cup said
        /\ Held(w.state) \ said \subseteq Warns(v.rep, i)
    BY <1>1, <1>2, <1>5, <1>8, <1>9, <1>12, CallSays
  <2>7. Adds(v, Analyze(f))  BY <2>4
  <2> HIDE DEF v, said
  <2>8. Analyze(f) \in Walk(f)  BY <1>1, <1>8, AnalyzeGrows
  <2>9. /\ Says(Analyze(f).sum, i) # None /\ Says(Analyze(f).sum, i) \subseteq w.state.released \cup said
        /\ Held(w.state) \ said \subseteq Warns(Analyze(f).rep, i)
    BY <1>2, <1>5, <1>8, <2>5, <2>6, <2>7, <2>8, AddsSays
  <2>10. Analyze(f).sum = summary[f] /\ reports[f] = Analyze(f).rep  BY <1>8 DEF Ready, Settled, Reported
  <2>11. w.state.released \in SUBSET Class
    <3>1. w.state \in State  BY DEF Walk
    <3> QED  BY <3>1 DEF State
  <2>12. \A c \in w.state.released : owner[c] \notin 1 .. j - 1
    BY <1>10, <2>2, <2>4, <2>11 DEF Covers
  <2>13. Knows(j, i)  BY <1>3, <1>9, <1>10, <2>9, <2>10, <2>12 DEF Knows
  <2>14. Tells(j, i)
    <3> SUFFICES ASSUME NEW c \in Class, Holds(j, c)  PROVE c \in Held(w.state) \ said
      BY <1>3, <2>9, <2>10 DEF Tells
    <3>1. owner[c] \in 1 .. j  BY <1>7 DEF Holds
    <3>2. o[c] = owner[c]  BY <2>2, <3>1
    <3>3. c \in Held(w.state)  BY <1>3, <2>4, <3>2 DEF Holds, Covers, Held
    <3> QED  BY <1>9, <3>1, <3>3
  <2> QED  BY <1>5, <2>13, <2>14
<1> QED  BY <1>11, <1>12

\* From the innermost frame to the one at depth j, where no frame on the way defers
\* its calls differently on different ways.
LEMMA AllKnow ==
    ASSUME Ready, NEW j \in 1 .. Depth, \A k \in j .. Depth : DefersAgree(thread[k].fn)
    PROVE  Knows(j, About)
<1> DEFINE d == Depth
           S == {n \in Nat : d - n >= j => Knows(d - n, About)}
<1>1. d \in Nat /\ d \in j .. d /\ d - 0 = d  BY DEF Ready, ThreadTyped, Depth
<1>2. Frame = thread[d]  BY DEF Frame
<1> HIDE DEF d
<1>3. 0 \in S
  <2>1. DefersAgree(Frame.fn)  BY <1>1, <1>2 DEF d
  <2>2. Knows(d, About)  BY <2>1, TopTells DEF d
  <2> QED  BY <1>1, <2>2
<1>4. ASSUME NEW n \in Nat, n \in S  PROVE n + 1 \in S
  <2> SUFFICES ASSUME d - (n + 1) >= j  PROVE Knows(d - (n + 1), About)  OBVIOUS
  <2>1. PICK k : k = d - (n + 1)  OBVIOUS
  <2>2. k \in 1 .. d - 1 /\ k \in j .. d /\ k + 1 = d - n /\ d - n >= j  BY <1>1, <2>1 DEF d
  <2>3. Knows(k + 1, About)  BY <1>4, <2>2
  <2>4. DefersAgree(thread[k].fn)  BY <2>2 DEF d
  <2>5. Knows(k, About)  BY <2>2, <2>3, <2>4, CallerTells DEF d
  <2> QED  BY <2>1, <2>5
<1> HIDE DEF S
<1>5. \A n \in Nat : n \in S  BY <1>3, <1>4, NatSetInduction
<1>6. d - j \in Nat /\ d - (d - j) = j /\ j >= j  BY <1>1 DEF d
<1> QED  BY <1>5, <1>6 DEF S

LEMMA AllTell ==
    ASSUME Ready, NEW j \in 1 .. Depth, ~Overlooked(j)
    PROVE  Tells(j, About)
<1>1. \A k \in j .. Depth : DefersAgree(thread[k].fn)  BY DEF Overlooked
<1>2. Depth \in Nat  BY DEF Ready, ThreadTyped, Depth
<1>3. CASE j = Depth
  <2>1. DefersAgree(Frame.fn)  BY <1>1, <1>2, <1>3 DEF Frame
  <2> QED  BY <1>3, <2>1, TopTells
<1>4. CASE j # Depth
  <2>1. j \in 1 .. Depth - 1 /\ j + 1 \in 1 .. Depth /\ j < Depth /\ j \in j .. Depth  BY <1>2, <1>4
  <2>2. \A k \in j + 1 .. Depth : DefersAgree(thread[k].fn)  BY <1>1, <1>2
  <2>3. Knows(j + 1, About)  BY <2>1, <2>2, AllKnow
  <2>4. thread[j].fn # thread[j + 1].fn  BY <2>1 DEF Overlooked
  <2> QED  BY <1>1, <2>1, <2>3, <2>4, CallerTells
<1> QED  BY <1>3, <1>4

LEMMA RunInvariant == Spec => [](IInv /\ ThreadTyped /\ RunInv /\ RepInv)
<1>1. Init => ThreadTyped /\ RunInv /\ RepInv
  <2> SUFFICES ASSUME Init  PROVE ThreadTyped /\ RunInv /\ RepInv  OBVIOUS
  <2>1. <<>> \in Seq(FrameType) /\ Len(<<>>) = 0 /\ DOMAIN <<>> = {}  OBVIOUS
  <2>2. thread = <<>> /\ phase = "growing" /\ owner = [c \in Class |-> 0]  BY DEF Init
  <2>3. ThreadTyped  BY <2>1, <2>2, BoundAssumption DEF ThreadTyped, Owners
  <2>4. RunInv  BY <2>1, <2>2 DEF RunInv, Kept, Nested
  <2>5. RepInv  BY <2>2 DEF RepInv
  <2> QED  BY <2>3, <2>4, <2>5
<1>2. IInv /\ ThreadTyped /\ [Next]_vars => ThreadTyped'  BY StepTypes DEF IInv
<1> QED  BY Invariant, <1>1, <1>2, RunInvStays, RepInvStays, PTL DEF Spec

LEMMA ReadyForEvents ==
    ASSUME IInv, ThreadTyped, RunInv, RepInv, round <= MaxRounds,
           Running, About # None, About.do \in {"lock", "wait"}
    PROVE  Ready
<1>1. AnalysisTyped /\ phase = "running" /\ thread # <<>>  BY DEF IInv, Running
<1>2. \A f \in Function : Settled(f) /\ Reported(f)  BY <1>1 DEF IInv, AllSettled, RepInv
<1>3. About \in Instr
  <2> HIDE DEF Instr, FrameType
  <2>1. body \in Programs  BY <1>1 DEF AnalysisTyped
  <2> QED  BY <1>1, <2>1, FrameTypes
<1> QED  BY <1>1, <1>2, <1>3 DEF Ready, Event

\* Whatever the program, and however deep its calls: no run takes a lock with another
\* one held, without the function that holds the outer one having reported the pair, up
\* to the two places where the code may overlook it.
THEOREM NestingsNeverMissed == Spec => [](round <= MaxRounds => NestingsAreReported)
<1>1. IInv /\ ThreadTyped /\ RunInv /\ RepInv => (round <= MaxRounds => NestingsAreReported)
  <2> SUFFICES ASSUME IInv, ThreadTyped, RunInv, RepInv, round <= MaxRounds,
                      Running, About # None, About.do = "lock",
                      NEW i \in 1 .. Depth, NEW c \in Class, Holds(i, c), ~Overlooked(i)
               PROVE  <<c, About.of>> \in reports[thread[i].fn].pairs
    BY DEF NestingsAreReported
  <2>1. Tells(i, About)  BY ReadyForEvents, AllTell
  <2> QED  BY <2>1 DEF Tells, Warns
<1> QED  BY RunInvariant, <1>1, PTL

\* Nor does one wait with a lock held, without the function that holds it having
\* reported that.
THEOREM WaitsNeverMissed == Spec => [](round <= MaxRounds => WaitsAreReported)
<1>1. IInv /\ ThreadTyped /\ RunInv /\ RepInv => (round <= MaxRounds => WaitsAreReported)
  <2> SUFFICES ASSUME IInv, ThreadTyped, RunInv, RepInv, round <= MaxRounds,
                      Running, About # None, About.do = "wait",
                      NEW i \in 1 .. Depth, NEW c \in Class, Holds(i, c), ~Overlooked(i)
               PROVE  c \in reports[thread[i].fn].waits
    BY DEF WaitsAreReported
  <2>1. Tells(i, About)  BY ReadyForEvents, AllTell
  <2> QED  BY <2>1 DEF Tells, Warns
<1> QED  BY RunInvariant, <1>1, PTL
=============================================================================
