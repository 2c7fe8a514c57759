------------------------- MODULE AnnotationsProofs -------------------------
(***************************************************************************)
(* Proofs about Annotations, for every number of names, locks and lines:   *)
(* what a call or an access that raises nothing has checked, what a forced *)
(* line leaves, where a check panics, and when a line is settled.          *)
(*                                                                         *)
(* The loops over the facts run in any order, so the argument is about     *)
(* what is done: the names a loop is through with (Done) have been checked *)
(* against the locks as they were before the line, because a later loop    *)
(* does not start before an earlier one ends (InOrder) and only the loops  *)
(* over releases and acquisitions change a lock.                           *)
(*                                                                         *)
(* And about Declarations, for every package: which guards the fields of   *)
(* its structures end up with, whatever the order of the declarations.     *)
(***************************************************************************)
EXTENDS Annotations, Declarations, TLAPS, FiniteSetTheorems, SequenceTheorems

\* What checkGuard and addExcludes let through, of one name.
FactsAreSound ==
    \A n \in Name :
        LET e == lff.entry[n]
            x == lff.exit[n]
            c == lff.excluded[n]
        IN  /\ e # None /\ x # None => e = x
            /\ e # None /\ c # None => ~Satisfies(e, c)
            /\ e # None \/ c # None \/ n \in guards => Resolves(n, FALSE)
            /\ x # None => Resolves(n, TRUE)
            /\ "read" \in {e, x} => sort[n].kind = "RWMutex"

\* A line uses one declaration, so only the facts of that one are read.
OneDeclaration == (use = "function" \/ lff = NoFacts) /\ (use = "field" \/ guards = {})

\* Nothing has happened until the line is reached.
NotReached == site = None => todo = {} /\ wants = <<>> /\ raised = {} /\ ~crashed

AbsentCanBe == site # None => \A n \in site.absent : sort[n].place \in {"result", "global"}
TodoIsLeft ==
    site # None => \A t \in todo : t \in Iterations(site) \/ (use = "primitive" /\ t[1] = "primitive")
InOrder ==
    site # None => \A i, j \in DOMAIN Loops, n, k \in Name :
        i < j /\ <<Loops[i], n>> \in todo /\ k \in Names(Loops[j], site) => <<Loops[j], k>> \in todo

\* A name that resolves and that the loop is through with.
Done(loop, n) == n \in Given /\ n \in Names(loop, site) /\ <<loop, n>> \notin todo
AnyDone(loop, l) == \E n \in Name : bind[n] = l /\ Done(loop, n)

\* What has been checked so far of a call that has raised nothing, and how it
\* has changed the locks.
NamesChecked ==
    \A n \in Name :
        /\ Done("excluded", n) => ~Satisfies(before[bind[n]], lff.excluded[n])
        /\ Done("required", n) => Satisfies(before[bind[n]], lff.entry[n])
        /\ Done("release", n) => before[bind[n]] = lff.entry[n]
        /\ Done("acquire", n) => before[bind[n]] = "free" \/ AnyDone("release", bind[n])
LocksChanged ==
    \A l \in Lock :
        IF AnyDone("acquire", l)
        THEN \E n \in Name : bind[n] = l /\ Done("acquire", n) /\ held[l] = lff.exit[n]
        ELSE held[l] = IF AnyDone("release", l) THEN "free" ELSE before[l]
StrictCall == site # None /\ use = "function" /\ Strict /\ ~crashed
CheckedSoFar == StrictCall /\ raised = {} => NamesChecked /\ LocksChanged

\* A call that keeps the contract has raised nothing so far.
SilentSoFar ==
    StrictCall /\ Met(lff, bind, before, Given) /\ IsInjective(bind) => raised = {}

\* A forced line has taken the locks it was found to need so far.
ForcedSoFar ==
    site # None /\ site.force /\ site.fresh = {} /\ ~crashed =>
        \A n \in Given : /\ (Done("required", n) \/ Done("access", n))
                          /\ ~\E k \in Given : bind[k] = bind[n] /\ Released(k)
                         => held[bind[n]] # "free"

Facing == /\ TypeOK /\ FactsAreSound /\ OneDeclaration /\ NotReached /\ AbsentCanBe
          /\ TodoIsLeft /\ InOrder
IInv == Facing /\ PanicsOnlyOnDiscard /\ CheckedSoFar /\ SilentSoFar /\ ForcedSoFar

\* Every message is raised once, by its iteration of its loop.
RaisedOnce ==
    \A n \in Name : /\ \A loop \in Range(Loops) : <<loop, n>> \in raised => <<loop, n>> \notin todo
                    /\ <<"unresolved", n>> \in raised => <<"release", n>> \notin todo

\* Of a line, what is left of its expectations, and the messages raised and said:
\* "left" gives each expectation that is left its place on the line, "met" each of
\* the others the message that met it; a message that met none matches none that is left.
Assigned(at, exp, msgs, out, left, met) ==
    /\ left \in [DOMAIN exp -> DOMAIN at.wants] /\ IsInjective(left)
    /\ \A i \in DOMAIN exp : exp[i] = at.wants[left[i]]
    /\ met \in [DOMAIN at.wants \ Range(left) -> msgs] /\ IsInjective(met)
    /\ \A i \in DOMAIN met : Matches(met[i], at.wants[i])
    /\ out = IF at.exempt THEN {} ELSE msgs \ Range(met)
    /\ \A m \in msgs \ Range(met), i \in DOMAIN exp : ~Matches(m, exp[i])
LineSoFar ==
    site # None => \E left \in [DOMAIN wants -> DOMAIN site.wants] :
        \E met \in [DOMAIN site.wants \ Range(left) -> raised] :
            Assigned(site, wants, raised, said, left, met)
-----------------------------------------------------------------------------
(***************************************************************************)
(* Sequences: the first match, and a sequence without one of its places.   *)
(***************************************************************************)
\* A set of naturals that is not empty has a least one: the intervals 1 .. n are
\* ordered by inclusion, which is well-founded on finite sets.
LEMMA LeastNat ==
    ASSUME NEW S \in SUBSET Nat, S # {}
    PROVE  \E m \in S : \A k \in S : m <= k
<1> DEFINE T == {1 .. n : n \in S}
<1>1. T \subseteq FiniteSubsetsOf(Nat) /\ T # {}
  <2> SUFFICES ASSUME NEW n \in S  PROVE 1 .. n \in SUBSET Nat /\ IsFiniteSet(1 .. n)
    BY DEF FiniteSubsetsOf
  <2> QED  BY FS_Interval
<1>2. IsWellFoundedOn(StrictSubsetOrdering(Nat), FiniteSubsetsOf(Nat))
  BY FS_StrictSubsetOrderingWellFounded
<1> HIDE DEF T
<1>3. PICK x \in T : \A y \in T : <<y, x>> \notin StrictSubsetOrdering(Nat)
  BY <1>1, <1>2, WFMin
<1>4. PICK m \in S : x = 1 .. m  BY DEF T
<1>5. ASSUME NEW k \in S, k < m  PROVE FALSE
  <2>1. 1 .. k \in T  BY DEF T
  <2>2. m \in 1 .. m /\ m \notin 1 .. k /\ 1 .. k \subseteq 1 .. m  BY <1>5
  <2>3. <<1 .. k, 1 .. m>> \in StrictSubsetOrdering(Nat)
    BY <2>2 DEF StrictSubsetOrdering
  <2> QED  BY <1>3, <1>4, <2>1, <2>3
<1> QED  BY <1>5

\* SelectInSeq gives 0 where nothing matches, and otherwise a place that does.
LEMMA FirstMatch ==
    ASSUME NEW S, NEW s \in Seq(S), NEW m
    PROVE  LET i == FirstOf(s, m) IN
           \/ i = 0 /\ \A j \in DOMAIN s : ~Matches(m, s[j])
           \/ i # 0 /\ i \in DOMAIN s /\ Matches(m, s[i])
<1> DEFINE I == {j \in 1 .. Len(s) : Matches(m, s[j])}
           i == FirstOf(s, m)
<1>1. i = IF I # {} THEN Min(I) ELSE 0  BY DEF FirstOf, SelectInSeq
<1>2. DOMAIN s = 1 .. Len(s) /\ Len(s) \in Nat  OBVIOUS
<1>3. CASE I = {}
  <2>1. i = 0  BY <1>1, <1>3
  <2>2. \A j \in DOMAIN s : ~Matches(m, s[j])  BY <1>2, <1>3
  <2> QED  BY <2>1, <2>2
<1>4. CASE I # {}
  <2>1. I \in SUBSET Nat  OBVIOUS
  <2>2. \E x \in I : \A y \in I : x <= y  BY <1>4, <2>1, LeastNat
  <2>3. Min(I) \in I  BY <2>2 DEF Min
  <2>4. i \in I  BY <1>1, <1>4, <2>3
  <2> QED  BY <1>2, <2>4
<1> QED  BY <1>3, <1>4

LEMMA WithoutOne ==
    ASSUME NEW S, NEW s \in Seq(S), NEW i \in DOMAIN s
    PROVE  /\ RemoveAt(s, i) \in Seq(S)
           /\ DOMAIN RemoveAt(s, i) = 1 .. Len(s) - 1
           /\ \A j \in 1 .. Len(s) - 1 : RemoveAt(s, i)[j] = s[IF j < i THEN j ELSE j + 1]
<1> DEFINE front == SubSeq(s, 1, i - 1)
           back == SubSeq(s, i + 1, Len(s))
<1>1. i \in 1 .. Len(s) /\ Len(s) \in Nat  OBVIOUS
<1>2. /\ front \in Seq(S) /\ Len(front) = i - 1
      /\ \A j \in 1 .. i - 1 : front[j] = s[j]
  BY <1>1, SubSeqProperties
<1>3. /\ back \in Seq(S) /\ Len(back) = Len(s) - i
      /\ \A j \in 1 .. Len(s) - i : back[j] = s[j + i]
  BY <1>1, SubSeqProperties
<1> HIDE DEF front, back
<1>4. /\ front \o back \in Seq(S) /\ Len(front \o back) = Len(front) + Len(back)
      /\ \A j \in 1 .. Len(front) + Len(back) :
            (front \o back)[j] = IF j <= Len(front) THEN front[j] ELSE back[j - Len(front)]
  BY <1>2, <1>3, ConcatProperties
<1>5. RemoveAt(s, i) = front \o back  BY DEF RemoveAt, front, back
<1>6. DOMAIN (front \o back) = 1 .. Len(s) - 1  BY <1>1, <1>2, <1>3, <1>4, SMTT(30)
<1>7. ASSUME NEW j \in 1 .. Len(s) - 1
      PROVE  (front \o back)[j] = s[IF j < i THEN j ELSE j + 1]
  <2>0. i \in Int /\ j \in Int /\ Len(front) = i - 1 /\ Len(back) = Len(s) - i
    BY <1>1, <1>2, <1>3
  <2>1. CASE j < i  BY <1>1, <1>2, <1>3, <1>4, <2>1, SMTT(30)
  <2>2. CASE j >= i
    <3> DEFINE k == j - (i - 1)
    <3>1. k \in 1 .. Len(s) - i /\ k + i = j + 1 /\ j \in 1 .. (i - 1) + (Len(s) - i)
      BY <1>1, <2>2
    <3>2. (front \o back)[j] = back[k]
      <4>1. j \in 1 .. Len(front) + Len(back) /\ ~(j <= Len(front)) /\ k = j - Len(front)
        BY <2>0, <2>2, <3>1
      <4> QED  BY <1>4, <4>1
    <3>3. back[k] = s[j + 1]
      <4> HIDE DEF k
      <4> QED  BY <1>3, <3>1
    <3>4. ~(j < i)  BY <2>0, <2>2
    <3> QED  BY <3>2, <3>3, <3>4
  <2> QED  BY <2>0, <2>1, <2>2
<1> QED  BY <1>4, <1>5, <1>6, <1>7

\* The two things that Consider can do.
LEMMA ConsiderCases ==
    ASSUME wants \in Seq(Want), NEW m, Consider(m)
    PROVE  /\ raised' = raised \cup {m}
           /\ \/ /\ \A j \in DOMAIN wants : ~Matches(m, wants[j])
                 /\ wants' = wants
                 /\ said' = IF site.exempt THEN said ELSE said \cup {m}
              \/ \E i \in DOMAIN wants : /\ Matches(m, wants[i])
                                         /\ wants' = RemoveAt(wants, i)
                                         /\ said' = said
<1> DEFINE i == FirstOf(wants, m)
<1>1. /\ raised' = raised \cup {m}
      /\ wants' = IF i = 0 THEN wants ELSE RemoveAt(wants, i)
      /\ said' = IF i = 0 /\ ~site.exempt THEN said \cup {m} ELSE said
  BY DEF Consider
<1>2. \/ i = 0 /\ \A j \in DOMAIN wants : ~Matches(m, wants[j])
      \/ i # 0 /\ i \in DOMAIN wants /\ Matches(m, wants[i])
  BY FirstMatch
<1> HIDE DEF i
<1> QED  BY <1>1, <1>2

-----------------------------------------------------------------------------
(***************************************************************************)
(* The loops: what an iteration finds done, and what it gets done.         *)
(***************************************************************************)
LEMMA LoopsAre ==
    /\ DOMAIN Loops = 1 .. 6
    /\ Loops[1] = "excluded" /\ Loops[2] = "required" /\ Loops[3] = "release"
    /\ Loops[4] = "acquire" /\ Loops[5] = "access" /\ Loops[6] = "primitive"
    /\ Range(Loops) = {"excluded", "required", "release", "acquire", "access", "primitive"}
<1>1. DOMAIN Loops = 1 .. 6  BY DEF Loops
<1>2. /\ Loops[1] = "excluded" /\ Loops[2] = "required" /\ Loops[3] = "release"
      /\ Loops[4] = "acquire" /\ Loops[5] = "access" /\ Loops[6] = "primitive"
  BY DEF Loops
<1>3. \A i \in 1 .. 6 : i = 1 \/ i = 2 \/ i = 3 \/ i = 4 \/ i = 5 \/ i = 6  OBVIOUS
<1>4. Range(Loops) = {"excluded", "required", "release", "acquire", "access", "primitive"}
  BY <1>1, <1>2, <1>3 DEF Range
<1> QED  BY <1>1, <1>2, <1>4

LEMMA NamesAre ==
    ASSUME NEW s
    PROVE  /\ Names("excluded", s) = {n \in Name : lff.excluded[n] # None}
           /\ Names("required", s) = {n \in Name : lff.entry[n] # None}
           /\ Names("release", s) = {n \in Name : lff.entry[n] # None /\ lff.exit[n] = None}
           /\ Names("acquire", s) = {n \in Name : lff.exit[n] # None /\ lff.entry[n] = None}
           /\ Names("access", s) = IF s.ignored \/ s.fresh # {} THEN {} ELSE guards
           /\ Names("primitive", s) = {}
BY DEF Names

LEMMA NamesStay ==
    ASSUME UNCHANGED <<decl, line>>, NEW loop
    PROVE  Names(loop, site)' = Names(loop, site)
BY DEF decl, line, Names

LEMMA Iterating ==
    ASSUME Facing, NEW i \in DOMAIN Loops, NEW n \in Name, Iterate(i, n), UNCHANGED <<decl, line>>
    PROVE  /\ site # None
           /\ i # 6 => n \in Names(Loops[i], site)
           /\ i = 6 => use = "primitive"
           /\ ~Done(Loops[i], n)
           /\ \A j \in DOMAIN Loops, k \in Name :
                 /\ j > i => ~Done(Loops[j], k)
                 /\ j < i /\ k \in Given /\ k \in Names(Loops[j], site) => Done(Loops[j], k)
                 /\ Done(Loops[j], k)' <=> \/ Done(Loops[j], k)
                                           \/ j = i /\ k = n /\ n \in Given /\ i # 6
<1> USE DEF Facing
<1>1. <<Loops[i], n>> \in todo /\ site # None  BY DEF Iterate, NotReached
<1>2. \A j, k \in DOMAIN Loops : Loops[j] = Loops[k] => j = k
  <2>1. \A j \in 1 .. 6 : j = 1 \/ j = 2 \/ j = 3 \/ j = 4 \/ j = 5 \/ j = 6  OBVIOUS
  <2> QED  BY <2>1, LoopsAre
<1>3. /\ i # 6 => n \in Names(Loops[i], site)
      /\ i = 6 => use = "primitive" /\ n \notin Names(Loops[i], site)
  <2>1. \/ <<Loops[i], n>> \in Iterations(site)
        \/ use = "primitive" /\ Loops[i] = "primitive"
    BY <1>1 DEF TodoIsLeft
  <2>2. Loops[i] = "primitive" <=> i = 6  BY <1>2, LoopsAre
  <2>3. <<Loops[i], n>> \in Iterations(site) => n \in Names(Loops[i], site)
    BY DEF Iterations
  <2>4. Names("primitive", site) = {}  BY NamesAre
  <2> QED  BY <2>1, <2>2, <2>3, <2>4
<1>4. ~Done(Loops[i], n)  BY <1>1 DEF Done
<1>5. ASSUME NEW j \in DOMAIN Loops, NEW k \in Name
      PROVE  /\ j > i => ~Done(Loops[j], k)
             /\ j < i /\ k \in Given /\ k \in Names(Loops[j], site) => Done(Loops[j], k)
             /\ Done(Loops[j], k)' <=> \/ Done(Loops[j], k)
                                       \/ j = i /\ k = n /\ n \in Given /\ i # 6
  <2>1. j > i => ~Done(Loops[j], k)  BY <1>1, LoopsAre DEF InOrder, Done
  <2>2. j < i => <<Loops[j], k>> \notin todo  BY LoopsAre DEF Iterate
  <2>3. Names(Loops[j], site)' = Names(Loops[j], site) /\ Given' = Given
    BY NamesStay DEF Given, line
  <2>4. todo' = todo \ {<<Loops[i], n>>}  BY DEF Iterate
  <2>5. <<Loops[j], k>> \in todo' <=> <<Loops[j], k>> \in todo /\ ~(j = i /\ k = n)
    BY <1>2, <2>4
  <2>6. Done(Loops[j], k)' <=> k \in Given /\ k \in Names(Loops[j], site) /\ <<Loops[j], k>> \notin todo'
    BY <2>3 DEF Done
  <2>7. Done(Loops[j], k)' <=> \/ Done(Loops[j], k)
                               \/ k \in Given /\ k \in Names(Loops[j], site) /\ j = i /\ k = n
    BY <2>5, <2>6 DEF Done
  <2> QED  BY <1>3, <2>1, <2>2, <2>7 DEF Done
<1> QED  BY <1>1, <1>3, <1>4, <1>5

-----------------------------------------------------------------------------
(***************************************************************************)
(* What every check has in common: it is an iteration for one name, says   *)
(* at most one thing, changes at most the lock that the name reaches, and  *)
(* panics only over a name without a value.                                *)
(***************************************************************************)
Says(i, n) == Quiet \/ \E kind \in {Loops[i]} \cup {"unresolved"} :
                           (kind = "unresolved" => i = 3) /\ Consider(<<kind, n>>)
Takes(n) == held' = held \/ \E mode \in Mode \cup {"free"} : held' = [held EXCEPT ![bind[n]] = mode]
Panics(i, n) == /\ crashed' = TRUE /\ Quiet /\ held' = held
                /\ i \in {1, 2, 4} /\ n \in site.absent /\ sort[n].place # "global"
Step(i, n) == /\ Iterate(i, n) /\ UNCHANGED <<decl, line>>
              /\ Says(i, n)
              /\ \/ Takes(n) /\ crashed' = crashed
                 \/ Panics(i, n)

Check(n) == \/ CheckExcluded(n) \/ CheckRequired(n) \/ Release(n) \/ Acquire(n) \/ CheckGuards(n)
            \/ \E method \in Methods : CallPrimitive(n, method)

\* The types of what a check reads.
LEMMA CheckTypes ==
    ASSUME Facing, site # None
    PROVE  /\ site.absent \subseteq Name /\ site.force \in BOOLEAN /\ site.exempt \in BOOLEAN
           /\ site.access \in Mode /\ site.ignored \in BOOLEAN /\ site.wants \in Seq(Want)
           /\ \A n \in Name : /\ bind[n] \in Lock /\ bind[n] \in DOMAIN held
                              /\ held[bind[n]] \in Mode \cup {"free"}
                              /\ before[bind[n]] \in Mode \cup {"free"}
                              /\ lff.entry[n] \in Mode \cup {None}
                              /\ lff.exit[n] \in Mode \cup {None}
                              /\ lff.excluded[n] \in Mode \cup {None}
           /\ held \in [Lock -> Mode \cup {"free"}] /\ before \in [Lock -> Mode \cup {"free"}]
           /\ bind \in [Name -> Lock]
<1>1. site \in Site  BY DEF Facing, TypeOK
<1>2. /\ site.absent \subseteq Name /\ site.force \in BOOLEAN /\ site.exempt \in BOOLEAN
      /\ site.access \in Mode /\ site.ignored \in BOOLEAN /\ site.wants \in Seq(Want)
  BY <1>1, SiteAssumption
<1>3. /\ bind \in [Name -> Lock] /\ held \in [Lock -> Mode \cup {"free"}]
      /\ before \in [Lock -> Mode \cup {"free"}]
  BY DEF Facing, TypeOK
<1>4. lff \in Facts  BY DEF Facing, TypeOK
<1>5. /\ lff.entry \in [Name -> Mode \cup {None}] /\ lff.exit \in [Name -> Mode \cup {None}]
      /\ lff.excluded \in [Name -> Mode \cup {None}]
  BY <1>4 DEF Facts
<1> QED  BY <1>2, <1>3, <1>5

LEMMA SaysCases ==
    ASSUME NEW i \in DOMAIN Loops, NEW n,
           Quiet \/ Consider(<<Loops[i], n>>) \/ (i = 3 /\ Consider(<<"unresolved", n>>))
    PROVE  Says(i, n)
<1> DEFINE kinds == {Loops[i]} \cup {"unresolved"}
           Does(kind) == (kind = "unresolved" => i = 3) /\ Consider(<<kind, n>>)
<1>1. Loops[i] \in kinds /\ "unresolved" \in kinds  OBVIOUS
<1>2. CASE Quiet  BY <1>2 DEF Says
<1>3. CASE Consider(<<Loops[i], n>>) /\ Loops[i] # "unresolved"
  <2>1. Does(Loops[i])  BY <1>3
  <2> QED  BY <1>1, <2>1 DEF Says
<1>4. CASE i = 3 /\ Consider(<<"unresolved", n>>)
  <2>1. Does("unresolved")  BY <1>4
  <2> QED  BY <1>1, <2>1 DEF Says
<1>5. Loops[i] # "unresolved"
  <2>1. Loops[i] \in Range(Loops)  BY DEF Range
  <2> QED  BY <2>1, LoopsAre
<1> QED  BY <1>2, <1>3, <1>4, <1>5

LEMMA CheckIsStep ==
    ASSUME Facing, NEW n \in Name
    PROVE  /\ CheckExcluded(n) => Step(1, n)
           /\ CheckRequired(n) => Step(2, n)
           /\ Release(n) => Step(3, n)
           /\ Acquire(n) => Step(4, n)
           /\ CheckGuards(n) => Step(5, n)
           /\ \A method \in Methods : CallPrimitive(n, method) => Step(6, n)
<1> DEFINE l == bind[n]
<1>0. 1 \in DOMAIN Loops /\ 2 \in DOMAIN Loops /\ 3 \in DOMAIN Loops /\ 4 \in DOMAIN Loops
      /\ 5 \in DOMAIN Loops /\ 6 \in DOMAIN Loops
  BY LoopsAre
<1>1. Check(n) => site # None
  BY DEF Check, CheckExcluded, CheckRequired, Release, Acquire, CheckGuards,
            CallPrimitive, Iterate, Facing, NotReached
<1>3. ~Valid(n) <=> n \in site.absent  BY DEF Valid
<1>4. \A m : Fail(m) => Quiet \/ Consider(m)  BY DEF Fail
<1>5. \A m \in Mode : HoldIfFree(l, m) = held \/ HoldIfFree(l, m) = [held EXCEPT ![l] = m]
  BY DEF HoldIfFree
<1>6. ASSUME CheckExcluded(n)  PROVE Step(1, n)
  <2>1. Iterate(1, n) /\ UNCHANGED <<decl, line>>  BY <1>6 DEF CheckExcluded
  <2>2. Quiet \/ Consider(<<Loops[1], n>>)
    BY <1>4, <1>6, LoopsAre DEF CheckExcluded, Resolved
  <2>3. held' = held /\ (crashed' = crashed \/ Panics(1, n))
    BY <1>3, <1>6 DEF CheckExcluded, Resolved, Panics, Unavailable
  <2> QED  BY <1>0, <2>1, <2>2, <2>3, SaysCases DEF Step, Takes
<1>7. ASSUME CheckRequired(n)  PROVE Step(2, n)
  <2>1. Iterate(2, n) /\ UNCHANGED <<decl, line>>  BY <1>7 DEF CheckRequired
  <2>2. Quiet \/ Consider(<<Loops[2], n>>)
    BY <1>4, <1>7, LoopsAre DEF CheckRequired, Resolved
  <2>3. n \in Names(Loops[2], site)
    <3> QED  BY <1>0, <2>1, Iterating
  <2>4. lff.entry[n] \in Mode  BY <1>1, <1>7, <2>3, CheckTypes, NamesAre, LoopsAre DEF Check
  <2>5. HoldIfFree(l, lff.entry[n]) = held \/ HoldIfFree(l, lff.entry[n]) = [held EXCEPT ![l] = lff.entry[n]]
    BY <1>5, <2>4
  <2>6. (held' = held \/ held' = HoldIfFree(l, lff.entry[n])) /\ (crashed' = crashed \/ (Panics(2, n) /\ held' = held))
    BY <1>3, <1>7 DEF CheckRequired, Resolved, Panics, Unavailable
  <2>7. Takes(n)  BY <2>4, <2>5, <2>6 DEF Takes
  <2> QED  BY <1>0, <2>1, <2>2, <2>6, <2>7, SaysCases DEF Step
<1>8. ASSUME Release(n)  PROVE Step(3, n)
  <2>1. Iterate(3, n) /\ UNCHANGED <<decl, line, crashed>>  BY <1>8 DEF Release
  <2>2. Quiet \/ Consider(<<Loops[3], n>>) \/ Consider(<<"unresolved", n>>)
    BY <1>4, <1>8, LoopsAre DEF Release
  <2>3. Takes(n)  BY <1>8 DEF Release, Takes
  <2> QED  BY <1>0, <2>1, <2>2, <2>3, SaysCases DEF Step
<1>9. ASSUME Acquire(n)  PROVE Step(4, n)
  <2>1. Iterate(4, n) /\ UNCHANGED <<decl, line>>  BY <1>9 DEF Acquire
  <2>2. Quiet \/ Consider(<<Loops[4], n>>)
    BY <1>4, <1>9, LoopsAre DEF Acquire, Resolved
  <2>3. n \in Names(Loops[4], site)  BY <1>0, <2>1, Iterating
  <2>4. lff.exit[n] \in Mode  BY <1>1, <1>9, <2>3, CheckTypes, NamesAre, LoopsAre DEF Check
  <2>5. HoldIfFree(l, lff.exit[n]) = held \/ HoldIfFree(l, lff.exit[n]) = [held EXCEPT ![l] = lff.exit[n]]
    BY <1>5, <2>4
  <2>6. (held' = held \/ held' = HoldIfFree(l, lff.exit[n])) /\ (crashed' = crashed \/ (Panics(4, n) /\ held' = held))
    BY <1>3, <1>9 DEF Acquire, Resolved, Panics, Unavailable
  <2>7. Takes(n)  BY <2>4, <2>5, <2>6 DEF Takes
  <2> QED  BY <1>0, <2>1, <2>2, <2>6, <2>7, SaysCases DEF Step
<1>10. ASSUME CheckGuards(n)  PROVE Step(5, n)
  <2>1. Iterate(5, n) /\ UNCHANGED <<decl, line, crashed>>  BY <1>10 DEF CheckGuards
  <2>2. Quiet \/ Consider(<<Loops[5], n>>)  BY <1>10, LoopsAre DEF CheckGuards
  <2>3. HoldIfFree(l, "write") = held \/ HoldIfFree(l, "write") = [held EXCEPT ![l] = "write"]
    BY <1>5 DEF Mode
  <2>4. held' = held \/ held' = HoldIfFree(l, "write")  BY <1>10 DEF CheckGuards
  <2>5. Takes(n)  BY <2>3, <2>4 DEF Takes, Mode
  <2> QED  BY <1>0, <2>1, <2>2, <2>5, SaysCases DEF Step
<1>11. ASSUME NEW method \in Methods, CallPrimitive(n, method)  PROVE Step(6, n)
  <2>1. Iterate(6, n) /\ UNCHANGED <<decl, line, crashed>>  BY <1>11 DEF CallPrimitive
  <2>2. Quiet \/ Consider(<<Loops[6], n>>)  BY <1>4, <1>11, LoopsAre DEF CallPrimitive
  <2>3. method[2] \in Mode \cup {"free"}  BY DEF Methods, Mode
  <2>4. Takes(n)  BY <1>11, <2>3 DEF CallPrimitive, Takes
  <2> QED  BY <1>0, <2>1, <2>2, <2>4, SaysCases DEF Step
<1> QED  BY <1>6, <1>7, <1>8, <1>9, <1>10, <1>11

LEMMA StepFacing ==
    ASSUME Facing, NEW i \in DOMAIN Loops, NEW n \in Name, Step(i, n)
    PROVE  Facing'
<1>0. Iterate(i, n) /\ UNCHANGED <<decl, line>> /\ Says(i, n)  BY DEF Step
<1>1. site # None  BY <1>0, Iterating
<1>2. todo' = todo \ {<<Loops[i], n>>}  BY <1>0 DEF Iterate
<1>3. raised' \subseteq Message /\ wants' \in Seq(Want) /\ said' \subseteq raised'
  <2>1. wants \in Seq(Want) /\ raised \subseteq Message /\ said \subseteq raised
    BY DEF Facing, TypeOK
  <2>2. CASE Quiet  BY <2>1, <2>2 DEF Quiet
  <2>3. ASSUME NEW kind \in {Loops[i]} \cup {"unresolved"}, Consider(<<kind, n>>)
        PROVE  raised' \subseteq Message /\ wants' \in Seq(Want) /\ said' \subseteq raised'
    <3>1. <<kind, n>> \in Message
      <4>1. Loops[i] \in Range(Loops)  BY DEF Range
      <4> QED  BY <4>1, LoopsAre DEF Message, Kind
    <3>2. \A j \in DOMAIN wants : RemoveAt(wants, j) \in Seq(Want)  BY <2>1, WithoutOne
    <3> QED  BY <2>1, <2>3, <3>1, <3>2, ConsiderCases
  <2> QED  BY <1>0, <2>2, <2>3 DEF Says
<1>4. crashed' \in BOOLEAN  BY DEF Facing, TypeOK, Step, Panics
<1>5. held' \in [Lock -> Mode \cup {"free"}]
  <2>1. held \in [Lock -> Mode \cup {"free"}]  BY <1>1, CheckTypes
  <2> QED  BY <2>1 DEF Step, Takes, Panics
<1>6. TypeOK'
  <2>1. todo' \subseteq Range(Loops) \X Name  BY <1>2 DEF Facing, TypeOK
  <2>2. /\ sort' \in Sort /\ use' \in {"function", "field", "primitive"}
        /\ lff' \in Facts' /\ guards' \subseteq Name
        /\ site' \in Site \cup {None} /\ bind' \in [Name -> Lock]
        /\ before' \in [Lock -> Mode \cup {"free"}]
    BY <1>0, <1>1 DEF decl, line, Facing, TypeOK, Facts
  <2>3. (\A k \in Name :
           \/ {lff.entry[k], lff.exit[k], lff.excluded[k]} = {None} /\ k \notin guards
           \/ /\ sort[k].kind # "other"
              /\ "read" \in {lff.entry[k], lff.exit[k]} => sort[k].kind = "RWMutex")'
    BY <1>0 DEF decl, Facing, TypeOK
  <2> QED  BY <1>3, <1>4, <1>5, <2>1, <2>2, <2>3 DEF TypeOK
<1>7. FactsAreSound' /\ OneDeclaration'
  BY <1>0 DEF decl, Facing, FactsAreSound, OneDeclaration, Resolves
<1>8. NotReached' /\ AbsentCanBe'
  BY <1>0, <1>1 DEF decl, line, Facing, NotReached, AbsentCanBe
<1>9. \A loop : Names(loop, site)' = Names(loop, site)  BY <1>0, NamesStay
<1>10. Iterations(site)' = Iterations(site)  BY <1>9 DEF Iterations
<1>11. TodoIsLeft'
  BY <1>0, <1>2, <1>10 DEF decl, line, Facing, TodoIsLeft
<1>12. InOrder'
  <2> SUFFICES ASSUME NEW a \in DOMAIN Loops, NEW b \in DOMAIN Loops, NEW x \in Name, NEW y \in Name,
                      a < b, <<Loops[a], x>> \in todo', y \in Names(Loops[b], site)
               PROVE  <<Loops[b], y>> \in todo'
    BY <1>9 DEF InOrder
  <2>1. <<Loops[a], x>> \in todo  BY <1>2
  <2>2. <<Loops[b], y>> \in todo  BY <1>1, <2>1 DEF Facing, InOrder
  <2>3. ~(a < i)  BY <1>0, <2>1, LoopsAre DEF Iterate
  <2>4. <<Loops[b], y>> # <<Loops[i], n>>
    <3>1. b # i  BY <2>3, LoopsAre
    <3>2. \A j \in 1 .. 6 : j = 1 \/ j = 2 \/ j = 3 \/ j = 4 \/ j = 5 \/ j = 6  OBVIOUS
    <3>3. Loops[b] # Loops[i]  BY <3>1, <3>2, LoopsAre
    <3> QED  BY <3>3
  <2> QED  BY <1>2, <2>2, <2>4
<1> QED  BY <1>6, <1>7, <1>8, <1>11, <1>12 DEF Facing

-----------------------------------------------------------------------------
(***************************************************************************)
(* Reading the annotations, and reaching the line.                         *)
(***************************************************************************)
Annotate == \/ AddIgnore
            \/ \E n \in Name, m \in Mode : \/ AddGuardedBy(n, m) \/ AddAcquires(n, m)
                                          \/ AddReleases(n, m) \/ AddExcludes(n, m)

LEMMA AnnotateKeepsFacts ==
    ASSUME Facing, Annotate
    PROVE  /\ site = None /\ use = "function" /\ lff' \in Facts /\ FactsAreSound'
           /\ UNCHANGED <<sort, use, guards, line, held, todo, wants, raised, said, crashed>>
<1>1. lff \in Facts /\ FactsAreSound /\ None \notin Mode
  BY NoneAssumption DEF Facing, TypeOK
<1>2. CASE AddIgnore
  BY <1>1, <1>2 DEF AddIgnore, Record, Reading, Facts, FactsAreSound, Resolves, line
<1>3. ASSUME NEW n \in Name, NEW m \in Mode,
             AddGuardedBy(n, m) \/ AddAcquires(n, m) \/ AddReleases(n, m) \/ AddExcludes(n, m)
      PROVE  /\ site = None /\ use = "function" /\ lff' \in Facts /\ FactsAreSound'
             /\ UNCHANGED <<sort, use, guards, line, held, todo, wants, raised, said, crashed>>
  <2>0. /\ site = None /\ use = "function"
        /\ UNCHANGED <<sort, use, guards, line, held, todo, wants, raised, said, crashed>>
    BY <1>3 DEF AddGuardedBy, AddAcquires, AddReleases, AddExcludes, Record, Reading, line
  <2> DEFINE Sound(e, x, c, k) == /\ e # None /\ x # None => e = x
                                  /\ e # None /\ c # None => ~Satisfies(e, c)
                                  /\ e # None \/ c # None \/ k \in guards => Resolves(k, FALSE)
                                  /\ x # None => Resolves(k, TRUE)
                                  /\ "read" \in {e, x} => sort[k].kind = "RWMutex"
  <2>1. \A k \in Name : Sound(lff.entry[k], lff.exit[k], lff.excluded[k], k)
    BY <1>1 DEF FactsAreSound
  <2>2. (\A k \in Name : Sound(lff'.entry[k], lff'.exit[k], lff'.excluded[k], k)) => FactsAreSound'
    BY <2>0 DEF FactsAreSound, Resolves
  <2>3. Resolves(n, FALSE) => Resolves(n, TRUE)  BY DEF Resolves
  <2>4. CASE AddGuardedBy(n, m)
    <3>1. lff' = [lff EXCEPT !.entry[n] = m, !.exit[n] = m] /\ Acceptable(n, m, FALSE)
      BY <2>4 DEF AddGuardedBy, Record
    <3>2. /\ lff'.entry = [lff.entry EXCEPT ![n] = m] /\ lff'.exit = [lff.exit EXCEPT ![n] = m]
          /\ lff'.excluded = lff.excluded /\ lff' \in Facts
      BY <1>1, <3>1 DEF Facts
    <3>3. Sound(m, m, lff.excluded[n], n)  BY <2>3, <3>1 DEF Acceptable
    <3> HIDE DEF Sound
    <3>4. \A k \in Name : Sound(lff'.entry[k], lff'.exit[k], lff'.excluded[k], k)
      BY <1>1, <2>1, <3>2, <3>3 DEF Facts
    <3> QED  BY <2>0, <2>2, <3>2, <3>4
  <2>5. CASE AddAcquires(n, m)
    <3>1. lff' = [lff EXCEPT !.exit[n] = m] /\ Acceptable(n, m, TRUE)
      BY <2>5 DEF AddAcquires, Record
    <3>2. /\ lff'.entry = lff.entry /\ lff'.exit = [lff.exit EXCEPT ![n] = m]
          /\ lff'.excluded = lff.excluded /\ lff' \in Facts
      BY <1>1, <3>1 DEF Facts
    <3>3. Sound(lff.entry[n], m, lff.excluded[n], n)  BY <2>1, <3>1 DEF Acceptable
    <3> HIDE DEF Sound
    <3>4. \A k \in Name : Sound(lff'.entry[k], lff'.exit[k], lff'.excluded[k], k)
      BY <1>1, <2>1, <3>2, <3>3 DEF Facts
    <3> QED  BY <2>0, <2>2, <3>2, <3>4
  <2>6. CASE AddReleases(n, m)
    <3>1. lff' = [lff EXCEPT !.entry[n] = m] /\ Acceptable(n, m, FALSE)
      BY <2>6 DEF AddReleases, Record
    <3>2. /\ lff'.entry = [lff.entry EXCEPT ![n] = m] /\ lff'.exit = lff.exit
          /\ lff'.excluded = lff.excluded /\ lff' \in Facts
      BY <1>1, <3>1 DEF Facts
    <3>3. Sound(m, lff.exit[n], lff.excluded[n], n)  BY <2>1, <3>1 DEF Acceptable
    <3> HIDE DEF Sound
    <3>4. \A k \in Name : Sound(lff'.entry[k], lff'.exit[k], lff'.excluded[k], k)
      BY <1>1, <2>1, <3>2, <3>3 DEF Facts
    <3> QED  BY <2>0, <2>2, <3>2, <3>4
  <2>7. CASE AddExcludes(n, m)
    <3>1. /\ lff' = [lff EXCEPT !.excluded[n] = m] /\ Resolves(n, FALSE)
          /\ ~(lff.entry[n] # None /\ Satisfies(lff.entry[n], m))
      BY <2>7 DEF AddExcludes, Record
    <3>2. /\ lff'.entry = lff.entry /\ lff'.exit = lff.exit
          /\ lff'.excluded = [lff.excluded EXCEPT ![n] = m] /\ lff' \in Facts
      BY <1>1, <3>1 DEF Facts
    <3>3. Sound(lff.entry[n], lff.exit[n], m, n)  BY <2>1, <3>1
    <3> HIDE DEF Sound
    <3>4. \A k \in Name : Sound(lff'.entry[k], lff'.exit[k], lff'.excluded[k], k)
      BY <1>1, <2>1, <3>2, <3>3 DEF Facts
    <3> QED  BY <2>0, <2>2, <3>2, <3>4
  <2> QED  BY <1>3, <2>4, <2>5, <2>6, <2>7
<1> QED  BY <1>2, <1>3 DEF Annotate

Declare == Annotate \/ \E n \in Name : AddFieldGuard(n)

LEMMA DeclareFacing ==
    ASSUME Facing, Declare
    PROVE  /\ Facing' /\ site' = None /\ crashed' = crashed
           /\ site = None /\ UNCHANGED <<line, held, todo, wants, raised, said>>
<1>0. None \notin Mode  BY NoneAssumption
<1>1. CASE Annotate
  <2>1. /\ site = None /\ use = "function" /\ lff' \in Facts /\ FactsAreSound'
        /\ UNCHANGED <<sort, use, guards, line, held, todo, wants, raised, said, crashed>>
    BY <1>1, AnnotateKeepsFacts
  <2>2. (\A n \in Name : \/ {lff.entry[n], lff.exit[n], lff.excluded[n]} = {None} /\ n \notin guards
                        \/ /\ sort[n].kind # "other"
                           /\ "read" \in {lff.entry[n], lff.exit[n]} => sort[n].kind = "RWMutex")'
    BY <1>0, <2>1 DEF FactsAreSound, Resolves
  <2>3. TypeOK'  BY <2>1, <2>2 DEF Facing, TypeOK, line, Facts
  <2>4. OneDeclaration' /\ NotReached' /\ AbsentCanBe' /\ TodoIsLeft' /\ InOrder'
    BY <2>1 DEF Facing, OneDeclaration, NotReached, AbsentCanBe, TodoIsLeft, InOrder, line
  <2> QED  BY <2>1, <2>3, <2>4 DEF Facing, line
<1>2. ASSUME NEW n \in Name, AddFieldGuard(n)
      PROVE  /\ Facing' /\ site' = None /\ crashed' = crashed
             /\ site = None /\ UNCHANGED <<line, held, todo, wants, raised, said>>
  <2>1. /\ site = None /\ use = "field" /\ guards' = guards \cup {n} /\ Resolves(n, FALSE)
        /\ UNCHANGED <<sort, use, lff, line, held, todo, wants, raised, said, crashed>>
    BY <1>2 DEF AddFieldGuard, Reading, line
  <2>2. FactsAreSound'  BY <2>1 DEF Facing, FactsAreSound, Resolves
  <2>3. (\A k \in Name : \/ {lff.entry[k], lff.exit[k], lff.excluded[k]} = {None} /\ k \notin guards
                        \/ /\ sort[k].kind # "other"
                           /\ "read" \in {lff.entry[k], lff.exit[k]} => sort[k].kind = "RWMutex")'
    BY <1>0, <2>1, <2>2 DEF FactsAreSound, Resolves
  <2>4. TypeOK'  BY <2>1, <2>3 DEF Facing, TypeOK, line, Facts
  <2>5. OneDeclaration' /\ NotReached' /\ AbsentCanBe' /\ TodoIsLeft' /\ InOrder'
    BY <2>1 DEF Facing, OneDeclaration, NotReached, AbsentCanBe, TodoIsLeft, InOrder, line
  <2> QED  BY <2>1, <2>2, <2>4, <2>5 DEF Facing, line
<1> QED  BY <1>1, <1>2 DEF Declare

Arrive == \E s \in Site, b \in [Name -> Lock], h \in [Lock -> Mode \cup {"free"}] :
             Use(s, b, h) \/ \E n \in Name : UsePrimitive(s, b, h, n)

\* The line is reached with nothing done and nothing said.
LEMMA ArriveFacing ==
    ASSUME Facing, Arrive
    PROVE  /\ Facing' /\ site = None /\ site' # None /\ held' = before' /\ UNCHANGED decl
           /\ wants' = site'.wants /\ raised' = {} /\ said' = {} /\ crashed' = FALSE
           /\ \A loop \in Range(Loops), n \in Name : ~Done(loop, n)'
<1>1. PICK s \in Site, b \in [Name -> Lock], h \in [Lock -> Mode \cup {"free"}] :
         Use(s, b, h) \/ \E n \in Name : UsePrimitive(s, b, h, n)
  BY DEF Arrive
<1>2. Reach(s, b, h)  BY <1>1 DEF Use, UsePrimitive
<1>3. /\ site = None /\ site' = s /\ s # None /\ bind' = b /\ before' = h /\ held' = h /\ wants' = s.wants
      /\ UNCHANGED decl /\ raised' = {} /\ said' = {} /\ crashed' = FALSE
      /\ \A n \in s.absent : sort[n].place \in {"result", "global"}
  BY <1>2, NoneAssumption DEF Reach, Facing, NotReached, TypeOK
<1>4. s.wants \in Seq(Want)  BY SiteAssumption
<1>5. Iterations(site)' = Iterations(s)
  BY <1>3 DEF decl, Iterations, Names
<1>6. \A loop : Names(loop, site)' = Names(loop, s)  BY <1>3 DEF decl, Names
<1>7. use = "primitive" => \A loop \in Range(Loops) : Names(loop, s) = {}
  <2> SUFFICES ASSUME use = "primitive", NEW loop \in Range(Loops)  PROVE Names(loop, s) = {}
    OBVIOUS
  <2>1. lff = NoFacts /\ guards = {}  BY DEF Facing, OneDeclaration
  <2>2. \A n \in Name : lff.entry[n] = None /\ lff.exit[n] = None /\ lff.excluded[n] = None
    BY <2>1 DEF NoFacts, NoEntry
  <2>3. \/ loop = "excluded" \/ loop = "required" \/ loop = "release" \/ loop = "acquire"
        \/ loop = "access" \/ loop = "primitive"
    BY LoopsAre
  <2> QED  BY <2>1, <2>2, <2>3, NamesAre
<1>8. /\ \A loop \in Range(Loops), n \in Name : n \in Names(loop, s) => <<loop, n>> \in todo'
      /\ todo' \subseteq Range(Loops) \X Name
      /\ \A t \in todo' : t \in Iterations(s) \/ (use = "primitive" /\ t[1] = "primitive")
  <2>1. CASE Use(s, b, h)
    <3>1. todo' = Iterations(s)  BY <2>1 DEF Use
    <3>2. \A loop \in Range(Loops) : Names(loop, s) \subseteq Name
      <4>1. guards \subseteq Name  BY DEF Facing, TypeOK
      <4> QED  BY <4>1, LoopsAre, NamesAre
    <3> QED  BY <3>1, <3>2 DEF Iterations
  <2>2. ASSUME NEW n \in Name, UsePrimitive(s, b, h, n)
        PROVE  /\ \A loop \in Range(Loops), k \in Name : k \in Names(loop, s) => <<loop, k>> \in todo'
               /\ todo' \subseteq Range(Loops) \X Name
               /\ \A t \in todo' : t \in Iterations(s) \/ (use = "primitive" /\ t[1] = "primitive")
    BY <1>7, <2>2, LoopsAre DEF UsePrimitive
  <2> QED  BY <1>1, <2>1, <2>2
<1>9. TypeOK'
  <2>1. (\A n \in Name : \/ {lff.entry[n], lff.exit[n], lff.excluded[n]} = {None} /\ n \notin guards
                        \/ /\ sort[n].kind # "other"
                           /\ "read" \in {lff.entry[n], lff.exit[n]} => sort[n].kind = "RWMutex")'
    BY <1>3 DEF decl, Facing, TypeOK
  <2>2. /\ sort' \in Sort /\ use' \in {"function", "field", "primitive"} /\ lff' \in Facts'
        /\ guards' \subseteq Name
    BY <1>3 DEF decl, Facing, TypeOK, Facts
  <2> QED  BY <1>3, <1>4, <1>8, <2>1, <2>2 DEF TypeOK
<1>10. FactsAreSound' /\ OneDeclaration' /\ NotReached' /\ AbsentCanBe'
  BY <1>3 DEF decl, Facing, FactsAreSound, OneDeclaration, NotReached, AbsentCanBe, Resolves
<1>11. TodoIsLeft' /\ InOrder'
  <2>1. \A j \in DOMAIN Loops : Loops[j] \in Range(Loops)  BY DEF Range
  <2>2. TodoIsLeft'  BY <1>3, <1>5, <1>8 DEF decl, TodoIsLeft
  <2>3. InOrder'  BY <1>6, <1>8, <2>1 DEF InOrder
  <2> QED  BY <2>2, <2>3
<1>12. \A loop \in Range(Loops), n \in Name : ~Done(loop, n)'
  BY <1>6, <1>8 DEF Done
<1> QED  BY <1>3, <1>9, <1>10, <1>11, <1>12 DEF Facing

-----------------------------------------------------------------------------
(***************************************************************************)
(* A strict call, as long as nothing is raised.                            *)
(***************************************************************************)

\* What an iteration of a strict call that raises nothing finds, and what is done after it.
LEMMA StrictStep ==
    ASSUME Facing, NEW i \in DOMAIN Loops, NEW n \in Name, Step(i, n), StrictCall'
    PROVE  /\ StrictCall /\ i # 6 /\ ~Panics(i, n) /\ n \in Names(Loops[i], site)
           /\ UNCHANGED <<lff, bind, before, site, sort, Given>>
           /\ raised' = {} => raised = {} /\ Quiet
           /\ \A m : Fail(m) => Consider(m)
           /\ \A m : Consider(m) => raised' # {}
           /\ \A j \in DOMAIN Loops, l \in Lock :
                 /\ j >= i => ~Done(Loops[j], n)
                 /\ j > i => ~AnyDone(Loops[j], l)
                 /\ AnyDone(Loops[j], l)' <=> \/ AnyDone(Loops[j], l)
                                              \/ j = i /\ bind[n] = l /\ n \in Given
<1>1. Iterate(i, n) /\ UNCHANGED <<decl, line>>  BY DEF Step
<1>2. /\ site # None
      /\ i # 6 => n \in Names(Loops[i], site)
      /\ i = 6 => use = "primitive"
      /\ ~Done(Loops[i], n)
      /\ \A j \in DOMAIN Loops, k \in Name :
            /\ j > i => ~Done(Loops[j], k)
            /\ Done(Loops[j], k)' <=> \/ Done(Loops[j], k)
                                      \/ j = i /\ k = n /\ n \in Given /\ i # 6
  BY <1>1, Iterating
<1>3. /\ UNCHANGED <<lff, bind, before, site, sort, Given, use>> /\ ~crashed /\ ~crashed'
      /\ Strict' = Strict /\ use = "function" /\ Strict
  BY <1>1 DEF Iterate, decl, line, StrictCall, Strict, Ignored, Given
<1>4. StrictCall /\ i # 6 /\ ~Panics(i, n)
  BY <1>2, <1>3 DEF StrictCall, Panics
<1>5. \A m : Consider(m) => raised' = raised \cup {m}  BY DEF Consider
<1>6. raised' = {} => raised = {} /\ Quiet
  BY <1>5 DEF Step, Says, Quiet, Panics
<1>7. \A m : Fail(m) => Consider(m)  BY <1>3 DEF Fail, Strict
<1>8. \A j \in DOMAIN Loops, l \in Lock :
                 /\ j >= i => ~Done(Loops[j], n)
                 /\ j > i => ~AnyDone(Loops[j], l)
                 /\ AnyDone(Loops[j], l)' <=> \/ AnyDone(Loops[j], l)
                                              \/ j = i /\ bind[n] = l /\ n \in Given
  <2> SUFFICES ASSUME NEW j \in DOMAIN Loops, NEW l \in Lock
      PROVE  /\ j >= i => ~Done(Loops[j], n)
             /\ j > i => ~AnyDone(Loops[j], l)
             /\ AnyDone(Loops[j], l)' <=> \/ AnyDone(Loops[j], l)
                                          \/ j = i /\ bind[n] = l /\ n \in Given
    OBVIOUS
  <2>1. j \in Int /\ i \in Int  BY LoopsAre
  <2>2. j >= i => ~Done(Loops[j], n)  BY <1>2, <2>1
  <2>3. j > i => ~AnyDone(Loops[j], l)  BY <1>2 DEF AnyDone
  <2>4. AnyDone(Loops[j], l)' <=> \E k \in Name : bind[k] = l /\ Done(Loops[j], k)'
    BY <1>3 DEF AnyDone
  <2>5. AnyDone(Loops[j], l)' <=> \/ AnyDone(Loops[j], l)
                                  \/ j = i /\ bind[n] = l /\ n \in Given
    BY <1>2, <1>4, <2>4 DEF AnyDone
  <2> QED  BY <2>2, <2>3, <2>5
<1> QED  BY <1>2, <1>3, <1>4, <1>5, <1>6, <1>7, <1>8

\* The iteration of a loop that checks and changes nothing.
LEMMA OnlyChecks ==
    ASSUME Facing, CheckedSoFar, NEW i \in {1, 2}, NEW n \in Name, Step(i, n),
           StrictCall', raised' = {}, held' = held,
           n \in Given => IF i = 1 THEN ~Satisfies(held[bind[n]], lff.excluded[n])
                                   ELSE Satisfies(held[bind[n]], lff.entry[n])
    PROVE  NamesChecked' /\ LocksChanged'
<1>0. i \in DOMAIN Loops /\ i \in Int /\ 1 \in DOMAIN Loops /\ 2 \in DOMAIN Loops /\ 3 \in DOMAIN Loops
      /\ 4 \in DOMAIN Loops
  BY LoopsAre
<1>1. /\ StrictCall /\ UNCHANGED <<lff, bind, before, site, sort, Given>> /\ raised = {}
      /\ \A j \in DOMAIN Loops, l \in Lock :
            /\ j > i => ~AnyDone(Loops[j], l)
            /\ AnyDone(Loops[j], l)' <=> \/ AnyDone(Loops[j], l)
                                         \/ j = i /\ bind[n] = l /\ n \in Given
  BY <1>0, StrictStep
<1>2. NamesChecked /\ LocksChanged  BY <1>1 DEF CheckedSoFar
<1>3. \A j \in DOMAIN Loops, k \in Name :
         Done(Loops[j], k)' <=> \/ Done(Loops[j], k)
                                \/ j = i /\ k = n /\ n \in Given /\ i # 6
  BY <1>0, Iterating DEF Step
<1>4. \A l \in Lock : /\ ~AnyDone("release", l) /\ ~AnyDone("acquire", l)
                      /\ ~AnyDone("release", l)' /\ ~AnyDone("acquire", l)'
                      /\ held[l] = before[l]
  BY <1>0, <1>1, <1>2, LoopsAre DEF LocksChanged
<1>5. bind \in [Name -> Lock]  BY <1>1, CheckTypes DEF StrictCall
<1>6. LocksChanged'  BY <1>1, <1>4 DEF LocksChanged
<1>7. ASSUME NEW k \in Name
      PROVE  /\ Done("excluded", k)' => ~Satisfies(before[bind[k]], lff.excluded[k])
             /\ Done("required", k)' => Satisfies(before[bind[k]], lff.entry[k])
             /\ Done("release", k)' => before[bind[k]] = lff.entry[k]
             /\ Done("acquire", k)' => before[bind[k]] = "free" \/ AnyDone("release", bind[k])'
  <2>1. bind[k] \in Lock /\ held[bind[k]] = before[bind[k]]  BY <1>4, <1>5
  <2>2. Done("excluded", k)' => ~Satisfies(before[bind[k]], lff.excluded[k])
    BY <1>0, <1>2, <1>3, <2>1, LoopsAre DEF NamesChecked
  <2>3. Done("required", k)' => Satisfies(before[bind[k]], lff.entry[k])
    BY <1>0, <1>2, <1>3, <2>1, LoopsAre DEF NamesChecked
  <2>4. ~Done("release", k)' /\ ~Done("acquire", k)'
    BY <1>0, <1>1, <1>4, <2>1 DEF AnyDone
  <2> QED  BY <2>2, <2>3, <2>4
<1>8. NamesChecked'  BY <1>1, <1>7 DEF NamesChecked
<1> QED  BY <1>6, <1>8

LEMMA ReleaseChecked ==
    ASSUME Facing, CheckedSoFar, NEW n \in Name, Release(n), StrictCall', raised' = {}
    PROVE  NamesChecked' /\ LocksChanged'
<1>0. 3 \in DOMAIN Loops /\ 4 \in DOMAIN Loops /\ 1 \in DOMAIN Loops /\ 2 \in DOMAIN Loops
  BY LoopsAre
<1>1. Step(3, n)  BY CheckIsStep
<1>2. /\ StrictCall /\ UNCHANGED <<lff, bind, before, site, sort, Given>> /\ raised = {} /\ Quiet
      /\ \A m : Fail(m) => Consider(m)
      /\ \A m : Consider(m) => raised' # {}
      /\ \A j \in DOMAIN Loops, l \in Lock :
            /\ j > 3 => ~AnyDone(Loops[j], l)
            /\ AnyDone(Loops[j], l)' <=> \/ AnyDone(Loops[j], l)
                                         \/ j = 3 /\ bind[n] = l /\ n \in Given
  BY <1>0, <1>1, StrictStep
<1>3. NamesChecked /\ LocksChanged  BY <1>2 DEF CheckedSoFar
<1>4. \A j \in DOMAIN Loops, k \in Name :
         Done(Loops[j], k)' <=> \/ Done(Loops[j], k)
                                \/ j = 3 /\ k = n /\ n \in Given
  BY <1>0, <1>1, Iterating DEF Step
<1>5. /\ bind \in [Name -> Lock] /\ held \in [Lock -> Mode \cup {"free"}]
      /\ lff.entry[n] \in Mode \cup {None} /\ n \in Names("release", site)
  BY <1>0, <1>1, <1>2, CheckTypes, Iterating, LoopsAre DEF StrictCall, Step
<1>6. lff.entry[n] \in Mode  BY <1>5, NamesAre
<1>7. Valid(n) <=> n \in Given  BY DEF Valid, Given
<1>8. IF n \in Given THEN held[bind[n]] = lff.entry[n] /\ held' = [held EXCEPT ![bind[n]] = "free"]
                     ELSE held' = held
  BY <1>2, <1>7 DEF Release
<1>9. \A l \in Lock : /\ ~AnyDone("acquire", l) /\ ~AnyDone("acquire", l)'
                      /\ held[l] = IF AnyDone("release", l) THEN "free" ELSE before[l]
                      /\ AnyDone("release", l)' <=> AnyDone("release", l) \/ (bind[n] = l /\ n \in Given)
  BY <1>0, <1>2, <1>3, LoopsAre DEF LocksChanged
<1>10. ASSUME NEW l \in Lock
       PROVE  held'[l] = IF AnyDone("release", l)' THEN "free" ELSE before[l]
  <2>1. CASE n \in Given /\ bind[n] = l  BY <1>5, <1>8, <1>9, <2>1
  <2>2. CASE ~(n \in Given /\ bind[n] = l)  BY <1>5, <1>8, <1>9, <2>2
  <2> QED  BY <2>1, <2>2
<1>11. LocksChanged'  BY <1>2, <1>9, <1>10 DEF LocksChanged
<1>12. n \in Given => before[bind[n]] = lff.entry[n]
  <2> SUFFICES ASSUME n \in Given  PROVE before[bind[n]] = lff.entry[n]
    OBVIOUS
  <2>1. bind[n] \in Lock /\ lff.entry[n] # "free"  BY <1>5, <1>6 DEF Mode
  <2> QED  BY <1>8, <1>9, <2>1
<1>13. ASSUME NEW k \in Name
       PROVE  /\ Done("excluded", k)' => ~Satisfies(before[bind[k]], lff.excluded[k])
              /\ Done("required", k)' => Satisfies(before[bind[k]], lff.entry[k])
              /\ Done("release", k)' => before[bind[k]] = lff.entry[k]
              /\ Done("acquire", k)' => before[bind[k]] = "free" \/ AnyDone("release", bind[k])'
  <2>1. Done("excluded", k)' => Done("excluded", k)  BY <1>0, <1>4, LoopsAre
  <2>2. Done("required", k)' => Done("required", k)  BY <1>0, <1>4, LoopsAre
  <2>3. Done("release", k)' => Done("release", k) \/ (k = n /\ n \in Given)  BY <1>0, <1>4, LoopsAre
  <2>4. ~Done("acquire", k)'
    <3>1. bind[k] \in Lock  BY <1>5
    <3> QED  BY <1>2, <1>9, <3>1 DEF AnyDone
  <2> QED  BY <1>3, <1>12, <2>1, <2>2, <2>3, <2>4 DEF NamesChecked
<1>14. NamesChecked'  BY <1>2, <1>13 DEF NamesChecked
<1> QED  BY <1>11, <1>14

LEMMA AcquireChecked ==
    ASSUME Facing, CheckedSoFar, NEW n \in Name, Acquire(n), StrictCall', raised' = {}
    PROVE  NamesChecked' /\ LocksChanged'
<1>0. 3 \in DOMAIN Loops /\ 4 \in DOMAIN Loops /\ 1 \in DOMAIN Loops /\ 2 \in DOMAIN Loops
  BY LoopsAre
<1>1. Step(4, n)  BY CheckIsStep
<1>2. /\ StrictCall /\ UNCHANGED <<lff, bind, before, site, sort, Given>> /\ raised = {} /\ Quiet
      /\ ~Panics(4, n)
      /\ \A m : Fail(m) => Consider(m)
      /\ \A m : Consider(m) => raised' # {}
      /\ \A j \in DOMAIN Loops, l \in Lock :
            AnyDone(Loops[j], l)' <=> \/ AnyDone(Loops[j], l)
                                      \/ j = 4 /\ bind[n] = l /\ n \in Given
  BY <1>0, <1>1, StrictStep
<1>3. NamesChecked /\ LocksChanged  BY <1>2 DEF CheckedSoFar
<1>4. \A j \in DOMAIN Loops, k \in Name :
         Done(Loops[j], k)' <=> \/ Done(Loops[j], k)
                                \/ j = 4 /\ k = n /\ n \in Given
  BY <1>0, <1>1, Iterating DEF Step
<1>5. /\ bind \in [Name -> Lock] /\ held \in [Lock -> Mode \cup {"free"}]
      /\ \A k \in Name : lff.exit[k] \in Mode \cup {None}
      /\ \A k \in Name : k \in Names("acquire", site) => lff.exit[k] # None
      /\ n \in Names("acquire", site)
  BY <1>0, <1>1, <1>2, CheckTypes, Iterating, LoopsAre, NamesAre DEF StrictCall, Step
<1>6. \A k \in Name : k \in Names("acquire", site) => lff.exit[k] # "free"
  BY <1>5 DEF Mode
<1>7. Valid(n) <=> n \in Given  BY DEF Valid, Given
<1>8. IF n \in Given THEN held[bind[n]] = "free" /\ held' = [held EXCEPT ![bind[n]] = lff.exit[n]]
                     ELSE held' = held
  <2>1. ~Unavailable(n) /\ ~Valid(n) => Panics(4, n)
    BY <1>1, <1>2, <1>7 DEF Step, Panics, Acquire, Resolved, Valid, Unavailable
  <2>2. CASE ~Valid(n)
    <3>1. Unavailable(n) /\ held' = held  BY <1>2, <2>1, <2>2 DEF Acquire, Resolved
    <3> QED  BY <1>7, <2>2, <3>1
  <2>3. CASE Valid(n)
    <3>1. /\ IF held[bind[n]] = "free" THEN Quiet ELSE Fail(<<"acquire", n>>)
          /\ held' = HoldIfFree(bind[n], lff.exit[n])
      BY <2>3 DEF Acquire, Resolved, Unavailable
    <3>2. held[bind[n]] = "free"  BY <1>2, <3>1
    <3> QED  BY <1>7, <2>3, <3>1, <3>2 DEF HoldIfFree
  <2> QED  BY <2>2, <2>3
<1>9. \A l \in Lock : /\ AnyDone("release", l)' <=> AnyDone("release", l)
                      /\ AnyDone("acquire", l)' <=> AnyDone("acquire", l) \/ (bind[n] = l /\ n \in Given)
  BY <1>0, <1>2, LoopsAre
<1>10. ASSUME n \in Given  PROVE ~AnyDone("acquire", bind[n])
  <2> DEFINE l == bind[n]
  <2>1. l \in Lock /\ held[l] = "free"  BY <1>5, <1>8, <1>10
  <2>2. ASSUME NEW k \in Name, Done("acquire", k), held[l] = lff.exit[k]  PROVE FALSE
    BY <1>6, <2>1, <2>2 DEF Done
  <2> QED  BY <1>3, <2>1, <2>2 DEF LocksChanged
<1>11. ASSUME NEW l \in Lock
       PROVE  IF AnyDone("acquire", l)'
              THEN \E k \in Name : bind[k] = l /\ Done("acquire", k)' /\ held'[l] = lff.exit[k]
              ELSE held'[l] = IF AnyDone("release", l)' THEN "free" ELSE before[l]
  <2>1. CASE n \in Given /\ bind[n] = l
    <3>1. held'[l] = lff.exit[n] /\ Done("acquire", n)' /\ AnyDone("acquire", l)'
      BY <1>0, <1>4, <1>5, <1>8, <1>9, <2>1, LoopsAre
    <3> QED  BY <2>1, <3>1
  <2>2. CASE ~(n \in Given /\ bind[n] = l)
    <3>1. held'[l] = held[l]  BY <1>5, <1>8, <2>2
    <3>2. AnyDone("acquire", l)' <=> AnyDone("acquire", l)  BY <1>9, <2>2
    <3>3. \A k \in Name : Done("acquire", k) => Done("acquire", k)'  BY <1>0, <1>4, LoopsAre
    <3> QED  BY <1>3, <1>9, <3>1, <3>2, <3>3 DEF LocksChanged
  <2> QED  BY <2>1, <2>2
<1>12. LocksChanged'  BY <1>2, <1>11 DEF LocksChanged
<1>13. n \in Given => before[bind[n]] = "free" \/ AnyDone("release", bind[n])
  <2> SUFFICES ASSUME n \in Given  PROVE before[bind[n]] = "free" \/ AnyDone("release", bind[n])
    OBVIOUS
  <2>1. bind[n] \in Lock  BY <1>5
  <2> QED  BY <1>3, <1>8, <1>10, <2>1 DEF LocksChanged
<1>14. ASSUME NEW k \in Name
       PROVE  /\ Done("excluded", k)' => ~Satisfies(before[bind[k]], lff.excluded[k])
              /\ Done("required", k)' => Satisfies(before[bind[k]], lff.entry[k])
              /\ Done("release", k)' => before[bind[k]] = lff.entry[k]
              /\ Done("acquire", k)' => before[bind[k]] = "free" \/ AnyDone("release", bind[k])'
  <2>1. Done("excluded", k)' => Done("excluded", k)  BY <1>0, <1>4, LoopsAre
  <2>2. Done("required", k)' => Done("required", k)  BY <1>0, <1>4, LoopsAre
  <2>3. Done("release", k)' => Done("release", k)  BY <1>0, <1>4, LoopsAre
  <2>4. Done("acquire", k)' => Done("acquire", k) \/ (k = n /\ n \in Given)  BY <1>0, <1>4, LoopsAre
    <2>5. AnyDone("release", bind[k]) => AnyDone("release", bind[k])'
    <3>1. \A x \in Name : Done("release", x) => Done("release", x)'  BY <1>0, <1>4, LoopsAre
    <3> QED  BY <1>2, <3>1 DEF AnyDone
  <2>6. CASE k = n /\ n \in Given  BY <1>3, <1>13, <2>1, <2>2, <2>3, <2>5, <2>6 DEF NamesChecked
  <2>7. CASE Done("acquire", k)' => Done("acquire", k)
    BY <1>3, <2>1, <2>2, <2>3, <2>5, <2>7 DEF NamesChecked
  <2> QED  BY <2>4, <2>6, <2>7
<1>15. NamesChecked'  BY <1>2, <1>14 DEF NamesChecked
<1> QED  BY <1>12, <1>15

LEMMA CheckKeepsChecked ==
    ASSUME Facing, CheckedSoFar, NEW n \in Name, Check(n)
    PROVE  CheckedSoFar'
<1> SUFFICES ASSUME StrictCall', raised' = {}  PROVE NamesChecked' /\ LocksChanged'
  BY DEF CheckedSoFar
<1>0. \A i \in 1 .. 6 : i \in DOMAIN Loops  BY LoopsAre
<1>1. n \in Given <=> Valid(n)  BY DEF Given, Valid
<1>2. Valid(n) => ~Unavailable(n)  BY DEF Unavailable
<1>3. CASE CheckExcluded(n)
  <2>1. Step(1, n)  BY <1>3, CheckIsStep
  <2>2. ~Panics(1, n) /\ (\A m : Fail(m) => Consider(m)) /\ (\A m : Consider(m) => raised' # {})
    BY <1>0, <2>1, StrictStep
  <2>3. n \in Given => ~Satisfies(held[bind[n]], lff.excluded[n])
    BY <1>1, <1>2, <1>3, <2>2 DEF CheckExcluded, Resolved
  <2>4. held' = held  BY <1>3 DEF CheckExcluded, Resolved
  <2> QED  BY <2>1, <2>3, <2>4, OnlyChecks
<1>4. CASE CheckRequired(n)
  <2>1. Step(2, n)  BY <1>4, CheckIsStep
  <2>2. /\ StrictCall /\ (\A m : Fail(m) => Consider(m)) /\ (\A m : Consider(m) => raised' # {})
    BY <1>0, <2>1, StrictStep
  <2>3. site.fresh = {}  BY <2>2 DEF StrictCall, Strict
  <2>4. CASE n \in Given
    <3>1. Satisfies(held[bind[n]], lff.entry[n]) /\ held' = held
      BY <1>1, <1>2, <1>4, <2>2, <2>3, <2>4 DEF CheckRequired, Resolved
    <3> QED  BY <2>1, <3>1, OnlyChecks
  <2>5. CASE n \notin Given
    <3>1. held' = held  BY <1>1, <1>4, <2>5 DEF CheckRequired, Resolved
    <3> QED  BY <2>1, <2>5, <3>1, OnlyChecks
  <2> QED  BY <2>4, <2>5
<1>5. CASE Release(n)  BY <1>5, ReleaseChecked
<1>6. CASE Acquire(n)  BY <1>6, AcquireChecked
<1>7. ~CheckGuards(n)
  <2> SUFFICES ASSUME CheckGuards(n)  PROVE FALSE  OBVIOUS
  <2>1. Step(5, n)  BY CheckIsStep
  <2>2. StrictCall /\ n \in Names("access", site)  BY <1>0, <2>1, StrictStep, LoopsAre
  <2>3. guards = {}  BY <2>2 DEF StrictCall, Facing, OneDeclaration
  <2> QED  BY <2>2, <2>3, NamesAre
<1>8. ~\E method \in Methods : CallPrimitive(n, method)
  BY <1>0, CheckIsStep, StrictStep
<1> QED  BY <1>3, <1>4, <1>5, <1>6, <1>7, <1>8 DEF Check

LEMMA CheckKeepsSilent ==
    ASSUME Facing, CheckedSoFar, SilentSoFar, NEW n \in Name, Check(n)
    PROVE  SilentSoFar'
<1> SUFFICES ASSUME StrictCall', Met(lff, bind, before, Given)', IsInjective(bind)'  PROVE raised' = {}
  BY DEF SilentSoFar
<1>0. \A i \in 1 .. 6 : i \in DOMAIN Loops  BY LoopsAre
<1>1. PICK i \in DOMAIN Loops : Step(i, n)  BY <1>0, CheckIsStep DEF Check
<1>2. /\ StrictCall /\ UNCHANGED <<lff, bind, before, site, sort, Given>> /\ n \in Names(Loops[i], site)
  BY <1>1, StrictStep
<1>3. Met(lff, bind, before, Given) /\ IsInjective(bind)
  BY <1>2 DEF Met, IsInjective
<1>4. raised = {}  BY <1>2, <1>3 DEF SilentSoFar
<1>5. NamesChecked /\ LocksChanged  BY <1>2, <1>4 DEF CheckedSoFar
<1>6. SUFFICES Quiet  BY <1>4 DEF Quiet
<1>7. /\ bind \in [Name -> Lock] /\ held \in [Lock -> Mode \cup {"free"}]
      /\ \A k \in Name : /\ lff.entry[k] \in Mode \cup {None} /\ lff.exit[k] \in Mode \cup {None}
      /\ Given \subseteq Name
  BY <1>2, CheckTypes DEF StrictCall, Given
<1>8. \A k \in Name : bind[k] = bind[n] => k = n  BY <1>3, <1>7 DEF IsInjective
<1>9. n \in Given <=> Valid(n)  BY DEF Given, Valid
<1>10. Valid(n) => ~Unavailable(n)  BY DEF Unavailable
<1>11. \A j \in DOMAIN Loops : Step(j, n) =>
          /\ n \in Names(Loops[j], site)
          /\ \A k \in DOMAIN Loops, l \in Lock : k > j => ~AnyDone(Loops[k], l)
          /\ ~AnyDone(Loops[j], bind[n])
  <2> SUFFICES ASSUME NEW j \in DOMAIN Loops, Step(j, n)
               PROVE  /\ n \in Names(Loops[j], site)
                      /\ \A k \in DOMAIN Loops, l \in Lock : k > j => ~AnyDone(Loops[k], l)
                      /\ ~AnyDone(Loops[j], bind[n])
    OBVIOUS
  <2>1. /\ n \in Names(Loops[j], site) /\ ~Done(Loops[j], n)
        /\ \A k \in DOMAIN Loops, l \in Lock : k > j => ~AnyDone(Loops[k], l)
    <3>1. j \in Int /\ j >= j  BY LoopsAre
    <3>2. Lock # {}  BY <1>7
    <3> QED  BY <3>1, <3>2, StrictStep
  <2> QED  BY <1>8, <2>1 DEF AnyDone
<1>12. CASE CheckExcluded(n)
  <2>1. Step(1, n)  BY <1>12, CheckIsStep
  <2>2. held[bind[n]] = before[bind[n]]
    BY <1>0, <1>5, <1>7, <1>11, <2>1, LoopsAre DEF LocksChanged
  <2>3. n \in Given => ~Satisfies(held[bind[n]], lff.excluded[n])
    BY <1>0, <1>3, <1>11, <2>1, <2>2, LoopsAre, NamesAre DEF Met
  <2> QED  BY <1>9, <1>12, <2>3 DEF CheckExcluded, Resolved
<1>13. CASE CheckRequired(n)
  <2>1. Step(2, n)  BY <1>13, CheckIsStep
  <2>2. held[bind[n]] = before[bind[n]]
    BY <1>0, <1>5, <1>7, <1>11, <2>1, LoopsAre DEF LocksChanged
  <2>3. lff.entry[n] \in Mode  BY <1>0, <1>7, <1>11, <2>1, LoopsAre, NamesAre
  <2>4. n \in Given => Satisfies(held[bind[n]], lff.entry[n])
    BY <1>3, <2>2, <2>3, NoneAssumption DEF Met, Satisfies, Mode
  <2> QED  BY <1>9, <1>10, <1>13, <2>4 DEF CheckRequired, Resolved
<1>14. CASE Release(n)
  <2>1. Step(3, n)  BY <1>14, CheckIsStep
  <2>2. held[bind[n]] = before[bind[n]]
    BY <1>0, <1>5, <1>7, <1>11, <2>1, LoopsAre DEF LocksChanged
  <2>3. lff.entry[n] # None /\ lff.exit[n] = None  BY <1>0, <1>11, <2>1, LoopsAre, NamesAre
  <2>4. n \in Given => held[bind[n]] = lff.entry[n]  BY <1>3, <2>2, <2>3 DEF Met
  <2>5. n \notin Given => Unavailable(n)
    <3>1. sort[n].place \in {"parameter", "global"}
      BY <2>3 DEF Facing, FactsAreSound, Resolves
    <3>2. n \notin Given => n \in site.absent  BY DEF Given
    <3> QED  BY <1>2, <1>9, <3>1, <3>2 DEF Facing, AbsentCanBe, Unavailable, StrictCall
  <2> QED  BY <1>9, <1>14, <2>4, <2>5 DEF Release
<1>15. CASE Acquire(n)
  <2>1. Step(4, n)  BY <1>15, CheckIsStep
  <2>2. lff.exit[n] # None /\ lff.entry[n] = None  BY <1>0, <1>11, <2>1, LoopsAre, NamesAre
  <2>3. ~AnyDone("acquire", bind[n])  BY <1>0, <1>11, <2>1, LoopsAre
  <2>4. n \in Given => before[bind[n]] = "free"
    BY <1>3, <1>7, <1>8, <2>2 DEF Met
  <2>5. n \in Given => held[bind[n]] = "free"
    BY <1>5, <1>7, <2>3, <2>4 DEF LocksChanged
  <2> QED  BY <1>9, <1>15, <2>5 DEF Acquire, Resolved
<1>16. ~CheckGuards(n)
  <2> SUFFICES ASSUME CheckGuards(n)  PROVE FALSE  OBVIOUS
  <2>1. Step(5, n)  BY CheckIsStep
  <2>2. StrictCall /\ n \in Names("access", site)  BY <1>0, <2>1, StrictStep, LoopsAre
  <2>3. guards = {}  BY <2>2 DEF StrictCall, Facing, OneDeclaration
  <2> QED  BY <2>2, <2>3, NamesAre
<1>17. ~\E method \in Methods : CallPrimitive(n, method)
  BY <1>0, CheckIsStep, StrictStep
<1> QED  BY <1>12, <1>13, <1>14, <1>15, <1>16, <1>17 DEF Check

-----------------------------------------------------------------------------
(***************************************************************************)
(* A forced line, and a panic.                                             *)
(***************************************************************************)
LEMMA CheckKeepsForced ==
    ASSUME Facing, ForcedSoFar, NEW n \in Name, Check(n)
    PROVE  ForcedSoFar'
<1>0. \A i \in 1 .. 6 : i \in DOMAIN Loops  BY LoopsAre
<1>1. PICK i \in DOMAIN Loops : Step(i, n)  BY <1>0, CheckIsStep DEF Check
<1>2. Iterate(i, n) /\ UNCHANGED <<decl, line>> /\ ~crashed /\ site # None
  BY <1>1, Iterating DEF Step, Iterate
<1>3. SUFFICES ASSUME site.force, site.fresh = {}, ~crashed', NEW k \in Given,
                      Done("required", k)' \/ Done("access", k)',
                      ~\E r \in Given : bind[r] = bind[k] /\ Released(r)
               PROVE  held'[bind[k]] # "free"
  BY <1>2 DEF ForcedSoFar, decl, line, Given, Released, Unavailable, Valid
<1>4. /\ bind \in [Name -> Lock] /\ held \in [Lock -> Mode \cup {"free"}]
      /\ lff.entry[n] \in Mode \cup {None} /\ lff.exit[n] \in Mode \cup {None}
      /\ Given \subseteq Name
  BY <1>2, CheckTypes DEF Given
<1>5. Done("required", k) \/ Done("access", k) => held[bind[k]] # "free"
  BY <1>2, <1>3 DEF ForcedSoFar
<1>6. \A j \in DOMAIN Loops, x \in Name : Step(j, n) =>
          /\ j # 6 => n \in Names(Loops[j], site)
          /\ j = 6 => use = "primitive"
          /\ Done(Loops[j], x)' <=> Done(Loops[j], x) \/ (x = n /\ n \in Given /\ j # 6)
          /\ \A b \in DOMAIN Loops : b # j => (Done(Loops[b], x)' <=> Done(Loops[b], x))
  BY Iterating DEF Step
<1>7. n \in Given <=> Valid(n)  BY DEF Given, Valid
<1>8. Valid(n) => ~Unavailable(n)  BY DEF Unavailable
<1>9. \A l \in Lock, m \in Mode : HoldIfFree(l, m) \in [Lock -> Mode \cup {"free"}]
                               /\ HoldIfFree(l, m)[l] # "free"
                               /\ \A x \in Lock : held[x] # "free" => HoldIfFree(l, m)[x] # "free"
  BY <1>4 DEF HoldIfFree, Mode
<1>10. bind[k] \in Lock /\ bind[n] \in Lock  BY <1>4
<1>11. \A h, m : Satisfies(h, m) => h # "free"  BY DEF Satisfies
<1>12. CASE CheckExcluded(n)
  <2>1. Step(1, n) /\ held' = held  BY <1>12, CheckIsStep DEF CheckExcluded, Resolved
  <2>2. Done("required", k) \/ Done("access", k)
    BY <1>0, <1>3, <1>4, <1>6, <2>1, LoopsAre
  <2> QED  BY <1>5, <2>1, <2>2
<1>13. CASE CheckRequired(n)
  <2>1. Step(2, n)  BY <1>13, CheckIsStep
  <2>2. \/ Done("required", k) \/ Done("access", k)
        \/ k = n /\ Valid(n)
    BY <1>0, <1>3, <1>4, <1>6, <1>7, <2>1, LoopsAre
  <2>3. lff.entry[n] \in Mode  BY <1>0, <1>4, <1>6, <2>1, LoopsAre, NamesAre
  <2>4. held' = held \/ held' = HoldIfFree(bind[n], lff.entry[n])
    BY <1>13 DEF CheckRequired, Resolved
  <2>5. Valid(n) => held' = HoldIfFree(bind[n], lff.entry[n]) \/ (held' = held /\ held[bind[n]] # "free")
    BY <1>3, <1>8, <1>11, <1>13 DEF CheckRequired, Resolved
  <2> QED  BY <1>5, <1>9, <1>10, <2>2, <2>3, <2>4, <2>5
<1>14. CASE Release(n)
  <2>1. Step(3, n)  BY <1>14, CheckIsStep
  <2>2. Done("required", k) \/ Done("access", k)
    BY <1>0, <1>3, <1>4, <1>6, <2>1, LoopsAre
  <2>3. held' = held \/ (Valid(n) /\ held' = [held EXCEPT ![bind[n]] = "free"])
    BY <1>14 DEF Release
  <2>4. Valid(n) => bind[n] # bind[k]
    <3>1. n \in Names("release", site)  BY <1>0, <1>6, <2>1, LoopsAre
    <3> QED  BY <1>3, <1>7, <1>8, <3>1, NamesAre DEF Released
  <2> QED  BY <1>4, <1>5, <1>10, <2>2, <2>3, <2>4
<1>15. CASE Acquire(n)
  <2>1. Step(4, n)  BY <1>15, CheckIsStep
  <2>2. Done("required", k) \/ Done("access", k)
    BY <1>0, <1>3, <1>4, <1>6, <2>1, LoopsAre
  <2>3. lff.exit[n] \in Mode  BY <1>0, <1>4, <1>6, <2>1, LoopsAre, NamesAre
  <2>4. held' = held \/ held' = HoldIfFree(bind[n], lff.exit[n])  BY <1>15 DEF Acquire, Resolved
  <2> QED  BY <1>5, <1>9, <1>10, <2>2, <2>3, <2>4
<1>16. CASE CheckGuards(n)
  <2>1. Step(5, n)  BY <1>16, CheckIsStep
  <2>2. \/ Done("required", k) \/ Done("access", k)
        \/ k = n /\ Valid(n)
    BY <1>0, <1>3, <1>4, <1>6, <1>7, <2>1, LoopsAre
  <2>3. held' = held \/ held' = HoldIfFree(bind[n], "write")  BY <1>16 DEF CheckGuards
  <2>4. Valid(n) => held' = HoldIfFree(bind[n], "write") \/ (held' = held /\ held[bind[n]] # "free")
    BY <1>3, <1>8, <1>11, <1>16 DEF CheckGuards
  <2>5. "write" \in Mode  BY DEF Mode
  <2> QED  BY <1>5, <1>9, <1>10, <2>2, <2>3, <2>4, <2>5
<1>17. ASSUME NEW method \in Methods, CallPrimitive(n, method)  PROVE FALSE
  <2>1. Step(6, n)  BY <1>17, CheckIsStep
  <2>2. use = "primitive"  BY <1>0, <1>6, <2>1
  <2>3. lff = NoFacts /\ guards = {}  BY <2>2 DEF Facing, OneDeclaration
  <2>4. Names("required", site) = {} /\ Names("access", site) = {}
    BY <2>3, NamesAre DEF NoFacts, NoEntry
  <2>5. Done("required", k) \/ Done("access", k)
    BY <1>0, <1>3, <1>4, <1>6, <2>1, LoopsAre
  <2> QED  BY <2>4, <2>5 DEF Done
<1> QED  BY <1>12, <1>13, <1>14, <1>15, <1>16, <1>17 DEF Check

LEMMA CheckPanics ==
    ASSUME Facing, PanicsOnlyOnDiscard, NEW n \in Name, Check(n)
    PROVE  PanicsOnlyOnDiscard'
<1>0. \A i \in 1 .. 6 : i \in DOMAIN Loops  BY LoopsAre
<1>1. PICK i \in DOMAIN Loops : Step(i, n)  BY <1>0, CheckIsStep DEF Check
<1>2. Iterate(i, n) /\ UNCHANGED <<decl, line>> /\ ~crashed /\ site # None
  BY <1>1, Iterating DEF Step, Iterate
<1> SUFFICES ASSUME crashed'  PROVE \E k \in site.absent : Acquired(k) /\ sort[k].place = "result"
  BY <1>2 DEF PanicsOnlyOnDiscard, Acquired, Unavailable, Valid, decl, line
<1>3. Panics(i, n)  BY <1>1, <1>2 DEF Step
<1>4. i \in {1, 2, 4} /\ n \in site.absent /\ sort[n].place = "result"
  BY <1>2, <1>3 DEF Panics, Facing, AbsentCanBe
<1>5. n \in Names(Loops[i], site)  BY <1>2, <1>4, Iterating
<1>6. lff.entry[n] = None /\ lff.excluded[n] = None
  BY <1>4 DEF Facing, FactsAreSound, Resolves
<1>7. i = 4  BY <1>4, <1>5, <1>6, LoopsAre, NamesAre
<1>8. lff.exit[n] # None  BY <1>5, <1>7, LoopsAre, NamesAre
<1> QED  BY <1>4, <1>6, <1>8 DEF Acquired, Unavailable

-----------------------------------------------------------------------------
\* The inductive invariant.
LEMMA InitInv == Init => IInv
<1> SUFFICES ASSUME Init  PROVE IInv  OBVIOUS
<1>1. lff \in Facts /\ FactsAreSound
  <2>1. lff \in Facts  BY DEF Init, Facts, NoFacts, NoEntry
  <2>2. \A n \in Name : lff.entry[n] = None /\ lff.exit[n] = None /\ lff.excluded[n] = None
                      /\ n \notin guards
    BY DEF Init, NoFacts, NoEntry
  <2>3. None # "read"  BY NoneAssumption DEF Mode
  <2> QED  BY <2>1, <2>2, <2>3 DEF FactsAreSound
<1>2. TypeOK
  <2>1. \A n \in Name : {lff.entry[n], lff.exit[n], lff.excluded[n]} = {None} /\ n \notin guards
    BY DEF Init, NoFacts, NoEntry
  <2>2. wants \in Seq(Want)  BY DEF Init
  <2>3. site = None /\ todo = {} /\ said = {} /\ raised = {} /\ crashed = FALSE /\ guards = {}
    BY DEF Init
  <2>4. sort \in Sort /\ use \in {"function", "field", "primitive"}  BY DEF Init
  <2> QED  BY <1>1, <2>1, <2>2, <2>3, <2>4 DEF TypeOK
<1>3. OneDeclaration /\ NotReached /\ AbsentCanBe /\ TodoIsLeft /\ InOrder
  BY DEF Init, OneDeclaration, NotReached, AbsentCanBe, TodoIsLeft, InOrder
<1>4. PanicsOnlyOnDiscard /\ CheckedSoFar /\ SilentSoFar /\ ForcedSoFar
  BY DEF Init, PanicsOnlyOnDiscard, CheckedSoFar, SilentSoFar, ForcedSoFar, StrictCall
<1> QED  BY <1>1, <1>2, <1>3, <1>4 DEF IInv, Facing

LEMMA ArriveKeeps == IInv /\ Arrive => IInv'
<1> SUFFICES ASSUME IInv, Arrive  PROVE IInv'  OBVIOUS
<1>1. /\ Facing' /\ site' # None /\ held' = before' /\ raised' = {} /\ crashed' = FALSE
      /\ \A loop \in Range(Loops), n \in Name : ~Done(loop, n)'
  BY ArriveFacing DEF IInv
<1>2. \A n \in Name : /\ ~Done("excluded", n)' /\ ~Done("required", n)' /\ ~Done("release", n)'
                      /\ ~Done("acquire", n)' /\ ~Done("access", n)'
  BY <1>1, LoopsAre
<1>3. NamesChecked'  BY <1>2 DEF NamesChecked
<1>4. LocksChanged'  BY <1>1, <1>2 DEF LocksChanged, AnyDone
<1>5. PanicsOnlyOnDiscard'  BY <1>1 DEF PanicsOnlyOnDiscard
<1>6. CheckedSoFar' /\ SilentSoFar'  BY <1>1, <1>3, <1>4 DEF CheckedSoFar, SilentSoFar
<1>7. ForcedSoFar'
  <2>1. Given' \subseteq Name  BY DEF Given
  <2> QED  BY <1>2, <2>1 DEF ForcedSoFar
<1> QED  BY <1>1, <1>5, <1>6, <1>7 DEF IInv

LEMMA NextCases ==
    ASSUME [Next]_vars
    PROVE  Declare \/ Arrive \/ (\E n \in Name : Check(n)) \/ UNCHANGED vars
BY DEF Next, Declare, Annotate, Arrive, Check, Stopped

LEMMA StutterKeepsFacing == Facing /\ UNCHANGED vars => Facing'
<1> SUFFICES ASSUME Facing, UNCHANGED vars  PROVE Facing'  OBVIOUS
<1>1. \A loop : Names(loop, site)' = Names(loop, site)  BY NamesStay DEF vars, decl, line
<1>2. TypeOK'  BY DEF Facing, vars, TypeOK, Facts
<1>3. FactsAreSound' /\ OneDeclaration' /\ NotReached' /\ AbsentCanBe'
  BY DEF Facing, vars, FactsAreSound, OneDeclaration, NotReached, AbsentCanBe, Resolves
<1>4. TodoIsLeft'  BY <1>1 DEF Facing, vars, TodoIsLeft, Iterations
<1>5. InOrder'  BY <1>1 DEF Facing, vars, InOrder
<1> QED  BY <1>2, <1>3, <1>4, <1>5 DEF Facing

LEMMA StutterKeeps == IInv /\ UNCHANGED vars => IInv'
<1> SUFFICES ASSUME IInv, UNCHANGED vars  PROVE IInv'  OBVIOUS
<1>1. Facing'  BY StutterKeepsFacing DEF IInv
<1>2. \A loop : Names(loop, site)' = Names(loop, site)  BY NamesStay DEF vars, decl, line
<1>3. \A loop, n : Done(loop, n)' <=> Done(loop, n)  BY <1>2 DEF vars, Done, Given
<1>4. StrictCall' <=> StrictCall  BY DEF vars, StrictCall, Strict, Ignored
<1>5. PanicsOnlyOnDiscard'
  BY DEF IInv, vars, PanicsOnlyOnDiscard, Acquired, Unavailable, Valid
<1>6. CheckedSoFar'
  BY <1>3, <1>4 DEF IInv, vars, CheckedSoFar, NamesChecked, LocksChanged, AnyDone
<1>7. SilentSoFar'
  BY <1>4 DEF IInv, vars, SilentSoFar, Met, IsInjective, Given
<1>8. ForcedSoFar'
  BY <1>3 DEF IInv, vars, ForcedSoFar, Given, Released, Unavailable, Valid
<1> QED  BY <1>1, <1>5, <1>6, <1>7, <1>8 DEF IInv

LEMMA NextInv == IInv /\ [Next]_vars => IInv'
<1> SUFFICES ASSUME IInv, [Next]_vars  PROVE IInv'  OBVIOUS
<1>1. CASE Declare
  <2>1. Facing' /\ site' = None /\ ~crashed'
    BY <1>1, DeclareFacing DEF IInv, Facing, NotReached
  <2> QED  BY <2>1 DEF IInv, PanicsOnlyOnDiscard, CheckedSoFar, SilentSoFar, ForcedSoFar, StrictCall
<1>2. CASE Arrive  BY <1>2, ArriveKeeps
<1>3. ASSUME NEW n \in Name, Check(n)  PROVE IInv'
  <2>1. \A i \in 1 .. 6 : i \in DOMAIN Loops  BY LoopsAre
  <2>2. PICK i \in DOMAIN Loops : Step(i, n)  BY <1>3, <2>1, CheckIsStep DEF IInv, Check
  <2>3. Facing'  BY <2>2, StepFacing DEF IInv
  <2> QED  BY <1>3, <2>3, CheckKeepsChecked, CheckKeepsSilent, CheckKeepsForced, CheckPanics DEF IInv
<1>4. CASE UNCHANGED vars  BY <1>4, StutterKeeps
<1> QED  BY <1>1, <1>2, <1>3, <1>4, NextCases

LEMMA InductiveInv == Spec => []IInv
<1> QED  BY InitInv, NextInv, PTL DEF Spec

-----------------------------------------------------------------------------
(***************************************************************************)
(* The theorems.                                                           *)
(***************************************************************************)
\* Every name in the facts stands for a lock, in every state: what the annotations
\* are validated against (fillLockGuardFacts and the add functions) is enough for
\* every use of the facts.
THEOREM Typed == Spec => []TypeOK
<1>1. IInv => TypeOK  BY DEF IInv, Facing
<1> QED  BY InductiveInv, <1>1, PTL

\* The annotations that checkGuard and addExcludes accept, however many and in
\* whatever order, leave a caller that can make the call.
THEOREM Callable == Spec => []FactsAreCallable
<1>1. IInv => FactsAreCallable
  <2> SUFFICES ASSUME IInv
               PROVE  \E h \in [Name -> Mode \cup {"free"}] : Met(lff, [n \in Name |-> n], h, Name)
    BY DEF FactsAreCallable
  <2> DEFINE h == [n \in Name |-> IF lff.entry[n] = None THEN "free" ELSE lff.entry[n]]
  <2>1. lff \in Facts /\ FactsAreSound  BY DEF IInv, Facing, TypeOK
  <2>2. h \in [Name -> Mode \cup {"free"}]  BY <2>1 DEF Facts
  <2>3. ASSUME NEW n \in Name
        PROVE  /\ lff.excluded[n] # None => ~Satisfies(h[n], lff.excluded[n])
               /\ lff.entry[n] # None => h[n] = lff.entry[n] /\ Satisfies(h[n], lff.entry[n])
               /\ lff.exit[n] # None /\ lff.entry[n] = None => h[n] = "free"
    <3>1. lff.entry[n] \in Mode \cup {None}  BY <2>1 DEF Facts
    <3> QED  BY <2>1, <3>1 DEF FactsAreSound, Satisfies, Mode
  <2> HIDE DEF h
  <2>4. Met(lff, [n \in Name |-> n], h, Name)  BY <2>3 DEF Met
  <2> QED  BY <2>2, <2>4
<1> QED  BY InductiveInv, <1>1, PTL

\* lockField and isHeld are handed a value that is not valid only where the result
\* that a call acquires a lock in is thrown away.
THEOREM Panicking == Spec => []PanicsOnlyOnDiscard
<1>1. IInv => PanicsOnlyOnDiscard  BY DEF IInv
<1> QED  BY InductiveInv, <1>1, PTL

\* In the end every iteration is done.
LEMMA AllDone ==
    ASSUME Facing, Checked
    PROVE  /\ \A loop : \A n \in Given : Done(loop, n) <=> n \in Names(loop, site)
           /\ Given \subseteq Name
           /\ \A n \in Given : ~Unavailable(n)
<1>1. todo = {}  BY DEF Checked
<1> QED  BY <1>1 DEF Done, Given, Unavailable, Valid

\* A call that raises nothing (checkFunctionCall, postFunctionCallUpdate) keeps the
\* contract of the callee and leaves every lock as the contract says.
THEOREM SilenceIsSound == Spec => []SilenceKeepsContract
<1>1. IInv => SilenceKeepsContract
  <2> SUFFICES ASSUME IInv, Mine, Strict, raised = {}
               PROVE  /\ Met(lff, bind, before, Given)
                      /\ \A l \in Lock :
                           LET to == {n \in Given : bind[n] = l} IN
                           \/ \E n \in to : Acquired(n) /\ held[l] = lff.exit[n]
                           \/ ~(\E n \in to : Acquired(n)) /\ held[l] =
                                  IF \E n \in to : Released(n) THEN "free" ELSE before[l]
    BY DEF SilenceKeepsContract
  <2>1. StrictCall /\ Checked /\ Facing  BY DEF IInv, Mine, StrictCall, Checked
  <2>2. NamesChecked /\ LocksChanged  BY <2>1 DEF IInv, CheckedSoFar
  <2>3. /\ \A loop : \A n \in Given : Done(loop, n) <=> n \in Names(loop, site)
        /\ Given \subseteq Name
        /\ \A n \in Given : ~Unavailable(n)
    BY <2>1, AllDone
  <2>4. \A n \in Given : /\ Acquired(n) <=> Done("acquire", n)
                         /\ Released(n) <=> Done("release", n)
    BY <2>3, NamesAre DEF Acquired, Released
  <2>5. \A loop, n : Done(loop, n) => n \in Given  BY DEF Done
  <2>6. \A l : /\ AnyDone("acquire", l) <=> \E n \in Given : bind[n] = l /\ Acquired(n)
               /\ AnyDone("release", l) <=> \E n \in Given : bind[n] = l /\ Released(n)
    BY <2>3, <2>4, <2>5 DEF AnyDone
  <2>7. ASSUME NEW n \in Given
        PROVE  /\ lff.excluded[n] # None => ~Satisfies(before[bind[n]], lff.excluded[n])
               /\ lff.entry[n] # None => IF lff.exit[n] = None THEN before[bind[n]] = lff.entry[n]
                                         ELSE Satisfies(before[bind[n]], lff.entry[n])
               /\ lff.exit[n] # None /\ lff.entry[n] = None =>
                     \/ before[bind[n]] = "free"
                     \/ \E k \in Given : bind[k] = bind[n] /\ lff.entry[k] # None /\ lff.exit[k] = None
    <3>1. n \in Name  BY <2>3
    <3>2. lff.excluded[n] # None => Done("excluded", n)  BY <2>3, <3>1, NamesAre
    <3>3. lff.entry[n] # None => Done("required", n)  BY <2>3, <3>1, NamesAre
    <3>4. lff.entry[n] # None /\ lff.exit[n] = None => Done("release", n)  BY <2>3, <3>1, NamesAre
    <3>5. lff.exit[n] # None /\ lff.entry[n] = None => Done("acquire", n)  BY <2>3, <3>1, NamesAre
    <3>6. AnyDone("release", bind[n]) =>
             \E k \in Given : bind[k] = bind[n] /\ lff.entry[k] # None /\ lff.exit[k] = None
      BY <2>6 DEF Released
    <3> QED  BY <2>2, <3>1, <3>2, <3>3, <3>4, <3>5, <3>6 DEF NamesChecked
  <2>8. Met(lff, bind, before, Given)  BY <2>7 DEF Met
  <2>9. ASSUME NEW l \in Lock
        PROVE  LET to == {n \in Given : bind[n] = l} IN
                  \/ \E n \in to : Acquired(n) /\ held[l] = lff.exit[n]
                  \/ ~(\E n \in to : Acquired(n)) /\ held[l] =
                         IF \E n \in to : Released(n) THEN "free" ELSE before[l]
    BY <2>2, <2>4, <2>5, <2>6 DEF LocksChanged
  <2> QED  BY <2>8, <2>9
<1> QED  BY InductiveInv, <1>1, PTL

\* A call that keeps the contract, its names on different locks, is never reported.
THEOREM SilenceIsComplete == Spec => []ContractIsSilent
<1>1. IInv => ContractIsSilent
  BY DEF IInv, ContractIsSilent, SilentSoFar, StrictCall, Mine, Checked
<1> QED  BY InductiveInv, <1>1, PTL

\* A forced line leaves the locks that it asserts held, in checkFunctionCall and in
\* checkGuards.
THEOREM ForceHolds == Spec => []ForcedIsHeld
<1>1. IInv => ForcedIsHeld
  <2> SUFFICES ASSUME IInv, Checked, site.force, site.fresh = {}, NEW n \in Given,
                      lff.entry[n] # None \/ n \in guards, ~(n \in guards /\ site.ignored),
                      ~\E k \in Given : bind[k] = bind[n] /\ Released(k)
               PROVE  held[bind[n]] # "free"
    BY DEF ForcedIsHeld
  <2>1. /\ \A loop : \A k \in Given : Done(loop, k) <=> k \in Names(loop, site)
        /\ Given \subseteq Name
    BY AllDone DEF IInv
  <2>2. Done("required", n) \/ Done("access", n)  BY <2>1, NamesAre
  <2> QED  BY <2>2 DEF IInv, ForcedSoFar, Checked
<1> QED  BY InductiveInv, <1>1, PTL

-----------------------------------------------------------------------------
(***************************************************************************)
(* The expectations of a line.  A message takes the first expectation it   *)
(* matches, so one that is left was there when each message was raised:    *)
(* where no message matches two of them, all its messages are taken.       *)
(***************************************************************************)
LInv == Facing /\ RaisedOnce /\ LineSoFar

\* The place of the x-th expectation before the j-th one was removed.
Skip(x, j) == IF x < j THEN x ELSE x + 1

LEMMA StepSays ==
    ASSUME Facing, RaisedOnce, NEW i \in DOMAIN Loops, NEW n \in Name, Step(i, n)
    PROVE  /\ RaisedOnce'
           /\ Quiet \/ \E m : m \notin raised /\ Consider(m)
<1>1. Iterate(i, n) /\ UNCHANGED <<decl, line>> /\ Says(i, n)  BY DEF Step
<1>2. /\ <<Loops[i], n>> \in todo /\ todo' = todo \ {<<Loops[i], n>>}  BY <1>1 DEF Iterate
<1>3. Loops[i] \in Range(Loops) /\ Loops[3] = "release" /\ "unresolved" \notin Range(Loops)
  BY LoopsAre DEF Range
<1>4. CASE Quiet  BY <1>2, <1>4 DEF Quiet, RaisedOnce
<1>5. ASSUME NEW kind \in {Loops[i]} \cup {"unresolved"}, kind = "unresolved" => i = 3,
             Consider(<<kind, n>>)
      PROVE  RaisedOnce' /\ \E m : m \notin raised /\ Consider(m)
  <2>1. <<kind, n>> \notin raised  BY <1>2, <1>3, <1>5 DEF RaisedOnce
  <2>2. raised' = raised \cup {<<kind, n>>}  BY <1>5 DEF Consider
  <2>3. RaisedOnce'
    <3> SUFFICES ASSUME NEW x \in Name
                 PROVE  /\ \A loop \in Range(Loops) : <<loop, x>> \in raised' => <<loop, x>> \notin todo'
                        /\ <<"unresolved", x>> \in raised' => <<"release", x>> \notin todo'
      BY DEF RaisedOnce
    <3>1. ASSUME NEW loop \in Range(Loops), <<loop, x>> \in raised'  PROVE <<loop, x>> \notin todo'
      BY <1>2, <1>3, <2>2, <3>1 DEF RaisedOnce
    <3>2. ASSUME <<"unresolved", x>> \in raised'  PROVE <<"release", x>> \notin todo'
      BY <1>2, <1>3, <1>5, <2>2, <3>2 DEF RaisedOnce
    <3> QED  BY <3>1, <3>2
  <2> QED  BY <1>5, <2>1, <2>3
<1> QED  BY <1>1, <1>4, <1>5 DEF Says

LEMMA ConsiderKeepsLine ==
    ASSUME Facing, LineSoFar, site # None, site' = site, NEW m, m \notin raised, Consider(m)
    PROVE  LineSoFar'
<1> DEFINE W == DOMAIN site.wants
<1>0. wants \in Seq(Want) /\ site.exempt \in BOOLEAN  BY CheckTypes DEF Facing, TypeOK
<1>a. PICK left \in [DOMAIN wants -> W] :
         \E met \in [W \ Range(left) -> raised] : Assigned(site, wants, raised, said, left, met)
  BY DEF LineSoFar
<1>1. PICK met \in [W \ Range(left) -> raised] : Assigned(site, wants, raised, said, left, met)  BY <1>a
<1>2. /\ raised' = raised \cup {m}
      /\ \/ /\ \A j \in DOMAIN wants : ~Matches(m, wants[j])
            /\ wants' = wants
            /\ said' = IF site.exempt THEN said ELSE said \cup {m}
         \/ \E i \in DOMAIN wants : /\ Matches(m, wants[i])
                                    /\ wants' = RemoveAt(wants, i)
                                    /\ said' = said
  BY <1>0, ConsiderCases
<1>3. SUFFICES \E l \in [DOMAIN wants' -> W] : \E t \in [W \ Range(l) -> raised'] : Assigned(site, wants', raised', said', l, t)
  BY DEF LineSoFar
<1>4. /\ IsInjective(left) /\ IsInjective(met)
      /\ \A i \in DOMAIN wants : wants[i] = site.wants[left[i]]
      /\ \A i \in W \ Range(left) : met[i] \in raised /\ Matches(met[i], site.wants[i])
      /\ said = IF site.exempt THEN {} ELSE raised \ Range(met)
      /\ \A x \in raised \ Range(met), i \in DOMAIN wants : ~Matches(x, wants[i])
      /\ Range(met) \subseteq raised
  BY <1>1 DEF Assigned, Range
<1>5. CASE /\ \A j \in DOMAIN wants : ~Matches(m, wants[j])
           /\ wants' = wants
           /\ said' = IF site.exempt THEN said ELSE said \cup {m}
  <2>1. left \in [DOMAIN wants' -> W] /\ met \in [W \ Range(left) -> raised']  BY <1>1, <1>2, <1>5
  <2>2. said' = IF site.exempt THEN {} ELSE raised' \ Range(met)
    BY <1>2, <1>4, <1>5
  <2>3. \A x \in raised' \ Range(met), i \in DOMAIN wants' : ~Matches(x, wants'[i])
    BY <1>2, <1>4, <1>5
  <2>4. Assigned(site, wants', raised', said', left, met)  BY <1>1, <1>4, <1>5, <2>1, <2>2, <2>3 DEF Assigned
  <2> QED  BY <2>1, <2>4
<1>6. ASSUME NEW j \in DOMAIN wants, Matches(m, wants[j]), wants' = RemoveAt(wants, j), said' = said
      PROVE  \E l \in [DOMAIN wants' -> W] : \E t \in [W \ Range(l) -> raised'] : Assigned(site, wants', raised', said', l, t)
  <2> DEFINE l == [x \in 1 .. Len(wants) - 1 |-> left[Skip(x, j)]]
             t == [y \in W \ Range(l) |-> IF y = left[j] THEN m ELSE met[y]]
  <2>1. /\ DOMAIN wants' = 1 .. Len(wants) - 1
        /\ \A x \in 1 .. Len(wants) - 1 : wants'[x] = wants[Skip(x, j)]
    BY <1>0, <1>6, WithoutOne DEF Skip
  <2>2. /\ \A x \in 1 .. Len(wants) - 1 : Skip(x, j) \in DOMAIN wants /\ Skip(x, j) # j
        /\ \A x, y \in 1 .. Len(wants) - 1 : Skip(x, j) = Skip(y, j) => x = y
        /\ \A y \in DOMAIN wants : y # j => \E x \in 1 .. Len(wants) - 1 : y = Skip(x, j)
    <3>1. DOMAIN wants = 1 .. Len(wants) /\ Len(wants) \in Nat /\ j \in 1 .. Len(wants)  BY <1>0
    <3>2. \A x \in 1 .. Len(wants) - 1 : Skip(x, j) \in DOMAIN wants /\ Skip(x, j) # j
      BY <3>1 DEF Skip
    <3>3. \A x, y \in 1 .. Len(wants) - 1 : Skip(x, j) = Skip(y, j) => x = y
      BY <3>1 DEF Skip
    <3>4. ASSUME NEW y \in DOMAIN wants, y # j
          PROVE  \E x \in 1 .. Len(wants) - 1 : y = Skip(x, j)
      <4>1. CASE y < j
        <5>1. y \in 1 .. Len(wants) - 1 /\ y = Skip(y, j)  BY <3>1, <4>1 DEF Skip
        <5> QED  BY <5>1
      <4>2. CASE y > j
        <5>1. y - 1 \in 1 .. Len(wants) - 1 /\ y = Skip(y - 1, j)  BY <3>1, <4>2 DEF Skip
        <5> QED  BY <5>1
      <4> QED  BY <3>1, <3>4, <4>1, <4>2
    <3> QED  BY <3>2, <3>3, <3>4
  <2>3. l \in [DOMAIN wants' -> W]  BY <1>1, <2>1, <2>2
  <2>4. IsInjective(l)  BY <1>1, <1>4, <2>2 DEF IsInjective
  <2>5. Range(l) = Range(left) \ {left[j]}
    <3>1. \A x \in 1 .. Len(wants) - 1 : l[x] = left[Skip(x, j)]  OBVIOUS
    <3>2. \A x \in DOMAIN wants : left[x] = left[j] => x = j  BY <1>1, <1>4 DEF IsInjective
    <3>3. Range(l) \subseteq Range(left) \ {left[j]}
      BY <1>1, <2>2, <3>1, <3>2 DEF Range
    <3>4. Range(left) \ {left[j]} \subseteq Range(l)
      <4> SUFFICES ASSUME NEW y \in DOMAIN wants, left[y] # left[j]  PROVE left[y] \in Range(l)
        BY <1>1 DEF Range
      <4>1. PICK x \in 1 .. Len(wants) - 1 : y = Skip(x, j)  BY <2>2
      <4>2. x \in DOMAIN l /\ l[x] = left[y]  BY <3>1, <4>1
      <4> QED  BY <4>2 DEF Range
    <3> QED  BY <3>3, <3>4
  <2> HIDE DEF l
  <2>6. left[j] \in W /\ left[j] \in Range(left) /\ W \ Range(l) = (W \ Range(left)) \cup {left[j]}
    <3>1. left[j] \in W /\ DOMAIN left = DOMAIN wants  OBVIOUS
    <3>2. left[j] \in Range(left)  BY <3>1 DEF Range
    <3> QED  BY <2>5, <3>1, <3>2
  <2>7. t \in [W \ Range(l) -> raised']  BY <1>1, <1>2, <2>6
  <2>8. IsInjective(t)
    <3> SUFFICES ASSUME NEW a \in W \ Range(l), NEW b \in W \ Range(l), t[a] = t[b]  PROVE a = b
      BY DEF IsInjective
    <3>1. \A y \in W \ Range(left) : y # left[j] /\ met[y] \in raised  BY <1>4, <2>6
    <3>2. \A x, y \in W \ Range(left) : met[x] = met[y] => x = y  BY <1>1, <1>4 DEF IsInjective
    <3> QED  BY <2>6, <3>1, <3>2
  <2>9. \A y \in W \ Range(l) : Matches(t[y], site.wants[y])
    <3>1. Matches(m, site.wants[left[j]])  BY <1>4, <1>6
    <3>2. \A y \in W \ Range(left) : y # left[j]  BY <2>6
    <3> QED  BY <1>4, <2>6, <3>1, <3>2
  <2>10. Range(t) = Range(met) \cup {m}
    <3>1. \A y \in W \ Range(left) : y # left[j]  BY <2>6
    <3>2. t[left[j]] = m /\ \A y \in W \ Range(left) : t[y] = met[y]  BY <2>6, <3>1
    <3>3. DOMAIN t = (W \ Range(left)) \cup {left[j]} /\ DOMAIN met = W \ Range(left)  BY <1>1, <2>6
    <3> HIDE DEF t
    <3> QED  BY <3>2, <3>3 DEF Range
  <2>11. raised' \ Range(t) = raised \ Range(met)  BY <1>2, <2>10
  <2> HIDE DEF t
  <2>12. \A x \in raised' \ Range(t), i \in DOMAIN wants' : ~Matches(x, wants'[i])
    BY <1>4, <2>1, <2>2, <2>11
  <2>13. \A x \in DOMAIN wants' : wants'[x] = site.wants[l[x]]
    BY <1>4, <2>1, <2>2 DEF l
  <2>14. Assigned(site, wants', raised', said', l, t)
    BY <1>4, <1>6, <2>3, <2>4, <2>7, <2>8, <2>9, <2>11, <2>12, <2>13 DEF Assigned
  <2> QED  BY <2>3, <2>7, <2>14
<1> QED  BY <1>2, <1>5, <1>6

LEMMA LineInvInit == Init => LInv
<1> SUFFICES ASSUME Init  PROVE RaisedOnce /\ LineSoFar
  BY InitInv DEF LInv, IInv
<1> QED  BY DEF Init, RaisedOnce, LineSoFar

LEMMA LineInvNext == LInv /\ [Next]_vars => LInv'
<1> SUFFICES ASSUME LInv, [Next]_vars  PROVE LInv'  OBVIOUS
<1>1. CASE Declare
  <2>1. Facing' /\ site' = None /\ UNCHANGED <<todo, raised>>
    BY <1>1, DeclareFacing DEF LInv
  <2> QED  BY <2>1 DEF LInv, RaisedOnce, LineSoFar
<1>2. CASE Arrive
  <2>1. Facing' /\ site' # None /\ wants' = site'.wants /\ raised' = {} /\ said' = {}
    BY <1>2, ArriveFacing DEF LInv
  <2>2. RaisedOnce'  BY <2>1 DEF RaisedOnce
  <2> DEFINE W == DOMAIN site'.wants
             left == [i \in W |-> i]
             met == [i \in {} |-> i]
  <2>3. Range(left) = W /\ Range(met) = {}  BY DEF Range
  <2>4. left \in [W -> W] /\ met \in [W \ Range(left) -> raised']  BY <2>3
  <2>5. IsInjective(left) /\ IsInjective(met)  BY DEF IsInjective
  <2>6. \A i \in W : wants'[i] = site'.wants[left[i]]  BY <2>1
  <2> HIDE DEF left, met
  <2>7. Assigned(site', wants', raised', said', left, met)  BY <2>1, <2>3, <2>4, <2>5, <2>6 DEF Assigned
  <2>8. LineSoFar'  BY <2>1, <2>4, <2>7 DEF LineSoFar
  <2> QED  BY <2>1, <2>2, <2>8 DEF LInv
<1>3. ASSUME NEW n \in Name, Check(n)  PROVE LInv'
  <2>1. \A i \in 1 .. 6 : i \in DOMAIN Loops  BY LoopsAre
  <2>2. PICK i \in DOMAIN Loops : Step(i, n)  BY <1>3, <2>1, CheckIsStep DEF LInv, Check
  <2>3. Facing'  BY <2>2, StepFacing DEF LInv
  <2>4. RaisedOnce' /\ (Quiet \/ \E m : m \notin raised /\ Consider(m))
    BY <2>2, StepSays DEF LInv
  <2>5. site # None /\ site' = site  BY <2>2, Iterating DEF LInv, Step, line
  <2>6. CASE Quiet
    BY <2>3, <2>4, <2>5, <2>6 DEF LInv, Quiet, LineSoFar, Assigned
  <2>7. CASE \E m : m \notin raised /\ Consider(m)
    BY <2>3, <2>4, <2>5, <2>7, ConsiderKeepsLine DEF LInv
  <2> QED  BY <2>4, <2>6, <2>7
<1>4. CASE UNCHANGED vars
  <2>1. Facing'
    BY <1>4, StutterKeepsFacing DEF LInv
  <2> QED  BY <1>4, <2>1 DEF vars, LInv, RaisedOnce, LineSoFar, Assigned
<1> QED  BY <1>1, <1>2, <1>3, <1>4, NextCases

\* An injection that maps a finite set into itself misses none of it.
LEMMA NoneMissed ==
    ASSUME NEW S, IsFiniteSet(S), NEW g \in [S -> S], IsInjective(g), NEW x \in S
    PROVE  \E y \in S : g[y] = x
<1> SUFFICES ASSUME \A y \in S : g[y] # x  PROVE FALSE  OBVIOUS
<1>1. g \in Injection(S, S \ {x})  BY DEF Injection
<1>2. IsFiniteSet(S \ {x}) /\ Cardinality(S \ {x}) = Cardinality(S) - 1  BY FS_RemoveElement
<1>3. Cardinality(S) <= Cardinality(S \ {x})  BY <1>1, <1>2, FS_Injection
<1>4. Cardinality(S) \in Nat  BY FS_CardinalityType
<1> QED  BY <1>2, <1>3, <1>4

\* Where each expectation can have a message of its own, none is left.
LEMMA AllMet ==
    ASSUME NEW W, IsFiniteSet(W), NEW val, NEW msgs, NEW L \in SUBSET W,
           NEW f \in [W -> msgs], IsInjective(f), \A i \in W : Matches(f[i], val[i]),
           NEW met \in [W \ L -> msgs], IsInjective(met), \A i \in W \ L : Matches(met[i], val[i]),
           \A m \in msgs \ Range(met), i \in L : ~Matches(m, val[i]),
           \A m \in msgs, i, j \in W : Matches(m, val[i]) /\ Matches(m, val[j]) => val[i] = val[j]
    PROVE  L = {}
<1> SUFFICES ASSUME NEW a \in L  PROVE FALSE  OBVIOUS
<1> DEFINE I == {i \in W : val[i] = val[a]}
           g == [i \in I |-> CHOOSE k \in W \ L : met[k] = f[i]]
<1>1. IsFiniteSet(I) /\ a \in I  BY FS_Subset
<1>2. ASSUME NEW i \in I  PROVE g[i] \in I /\ g[i] \notin L /\ met[g[i]] = f[i]
  <2>1. Matches(f[i], val[a])  BY <1>2
  <2>2. f[i] \in msgs /\ f[i] \in Range(met)  BY <1>2, <2>1
  <2>3. \E k \in W \ L : met[k] = f[i]  BY <2>2 DEF Range
  <2>4. g[i] \in W \ L /\ met[g[i]] = f[i]  BY <1>2, <2>3
  <2>5. val[g[i]] = val[a]  BY <2>1, <2>2, <2>4
  <2> QED  BY <2>4, <2>5
<1>3. g \in [I -> I]  BY <1>2
<1>4. IsInjective(g)
  <2> SUFFICES ASSUME NEW i \in I, NEW j \in I, g[i] = g[j]  PROVE i = j
    BY DEF IsInjective
  <2>1. f[i] = f[j]  BY <1>2
  <2> QED  BY <2>1 DEF IsInjective
<1> HIDE DEF g, I
<1>5. PICK y \in I : g[y] = a  BY <1>1, <1>3, <1>4, NoneMissed
<1> QED  BY <1>2, <1>5

\* The verdict on a line (consider and the report of the expectations that are
\* left) does not depend on the order the facts are walked in: the line is settled
\* iff its expectations and its messages match one to one.
THEOREM LineSettles == Spec => []LineIsSettled
<1>1. LInv => LineIsSettled
  <2> SUFFICES ASSUME LInv, Checked, ~Ambiguous
               PROVE  said = {} /\ wants = <<>> <=>
                        \E f \in [DOMAIN site.wants -> raised] :
                          /\ IsInjective(f) /\ \A i \in DOMAIN f : Matches(f[i], site.wants[i])
                          /\ Range(f) = raised \/ site.exempt
    BY DEF LineIsSettled
  <2> DEFINE W == DOMAIN site.wants
  <2>0. /\ site # None /\ site.exempt \in BOOLEAN /\ site.wants \in Seq(Want) /\ wants \in Seq(Want)
        /\ W = 1 .. Len(site.wants) /\ Len(site.wants) \in Nat
    <3>1. Facing /\ site # None  BY DEF LInv, Checked
    <3>2. TypeOK  BY <3>1 DEF Facing
    <3>3. site \in Site /\ wants \in Seq(Want)  BY <3>1, <3>2 DEF TypeOK
    <3>4. site.exempt \in BOOLEAN /\ site.wants \in Seq(Want)  BY <3>3, SiteAssumption
    <3> QED  BY <3>1, <3>3, <3>4
  <2>1. PICK left \in [DOMAIN wants -> W] :
           \E met \in [W \ Range(left) -> raised] : Assigned(site, wants, raised, said, left, met)
    BY <2>0 DEF LInv, LineSoFar
  <2>2. PICK met \in [W \ Range(left) -> raised] : Assigned(site, wants, raised, said, left, met)
    BY <2>1
  <2>3. /\ IsInjective(left) /\ IsInjective(met)
        /\ \A i \in DOMAIN wants : wants[i] = site.wants[left[i]]
        /\ \A i \in W \ Range(left) : Matches(met[i], site.wants[i])
        /\ said = IF site.exempt THEN {} ELSE raised \ Range(met)
        /\ \A x \in raised \ Range(met), i \in DOMAIN wants : ~Matches(x, wants[i])
        /\ Range(met) \subseteq raised
    BY <2>2 DEF Assigned, Range
  <2>4. wants = <<>> <=> Range(left) = {}
    <3>1. Range(left) = {} <=> DOMAIN wants = {}  BY DEF Range
    <3>2. DOMAIN wants = {} <=> wants = <<>>  BY <2>0
    <3> QED  BY <3>1, <3>2
  <2>5. ASSUME said = {}, wants = <<>>
        PROVE  \E f \in [W -> raised] :
                  /\ IsInjective(f) /\ \A i \in DOMAIN f : Matches(f[i], site.wants[i])
                  /\ Range(f) = raised \/ site.exempt
    <3>1. met \in [W -> raised]  BY <2>4, <2>5
    <3>2. Range(met) = raised \/ site.exempt  BY <2>0, <2>3, <2>5
    <3> QED  BY <2>3, <2>4, <2>5, <3>1, <3>2
  <2>6. ASSUME NEW f \in [W -> raised], IsInjective(f), \A i \in DOMAIN f : Matches(f[i], site.wants[i]),
               Range(f) = raised \/ site.exempt
        PROVE  said = {} /\ wants = <<>>
    <3>1. IsFiniteSet(W)  BY <2>0, FS_Interval
    <3>2. \A m \in raised, i, j \in W :
             Matches(m, site.wants[i]) /\ Matches(m, site.wants[j]) => site.wants[i] = site.wants[j]
      <4>1. \A i \in W : site.wants[i] \in Range(site.wants)  BY DEF Range
      <4> QED  BY <4>1 DEF Ambiguous
    <3>3. Range(left) \in SUBSET W  BY DEF Range
    <3>4. \A m \in raised \ Range(met), i \in Range(left) : ~Matches(m, site.wants[i])
      BY <2>3 DEF Range
    <3>5. \A i \in W : Matches(f[i], site.wants[i])  BY <2>6
    <3>6. Range(left) = {}
      <4> DEFINE val == site.wants
      <4>1. /\ met \in [W \ Range(left) -> raised] /\ IsInjective(met)
            /\ \A i \in W \ Range(left) : Matches(met[i], val[i])
        BY <2>2, <2>3
      <4>2. f \in [W -> raised] /\ IsInjective(f) /\ \A i \in W : Matches(f[i], val[i])
        BY <2>6, <3>5
      <4>3. /\ \A m \in raised \ Range(met), i \in Range(left) : ~Matches(m, val[i])
            /\ \A m \in raised, i, j \in W :
                  Matches(m, val[i]) /\ Matches(m, val[j]) => val[i] = val[j]
        BY <3>2, <3>4
      <4> HIDE DEF W, val
      <4> QED  BY <3>1, <3>3, <4>1, <4>2, <4>3, AllMet
    <3>7. CASE ~site.exempt
      <4>1. Range(f) = raised  BY <2>6, <3>7
      <4>2. met \in [W -> raised]  BY <3>6
      <4>3. f \in Injection(W, raised) /\ f \in Surjection(W, raised)
        BY <2>6, <4>1 DEF Injection, Surjection, Range
      <4>4. IsFiniteSet(raised) /\ Cardinality(raised) = Cardinality(W)
        BY <3>1, <4>3, FS_Surjection
      <4>5. met \in Injection(W, raised)  BY <2>3, <4>2 DEF Injection
      <4>6. met \in Surjection(W, raised)  BY <4>4, <4>5, FS_Injection
      <4>7. Range(met) = raised  BY <2>3, <4>6 DEF Surjection, Range
      <4> QED  BY <2>3, <2>4, <3>6, <4>7
    <3>8. CASE site.exempt  BY <2>3, <2>4, <3>6, <3>8
    <3> QED  BY <3>7, <3>8
  <2> QED  BY <2>5, <2>6
<1> QED  BY LineInvInit, LineInvNext, <1>1, PTL DEF Spec

-----------------------------------------------------------------------------
(***************************************************************************)
(* Declarations.  Induction over the naturals, in the form that speaks of  *)
(* a set: what is found along the fields of a structure is found step by   *)
(* step.                                                                   *)
(***************************************************************************)
LEMMA NatSetInduction ==
    ASSUME NEW S, 0 \in S, \A n \in Nat : n \in S => n + 1 \in S
    PROVE  \A n \in Nat : n \in S
<1> SUFFICES ASSUME Nat \ S # {}  PROVE FALSE  OBVIOUS
<1>1. PICK x \in Nat \ S : \A y \in Nat \ S : x <= y
  <2>1. Nat \ S \in SUBSET Nat  OBVIOUS
  <2> QED  BY <2>1, LeastNat
<1>2. x # 0 /\ x - 1 \in Nat  BY <1>1
<1>3. x - 1 \in S  BY <1>1, <1>2
<1> QED  BY <1>1, <1>2, <1>3

\* A function that gives each element of X an element of X can be applied again and
\* again: the steps of a walk, which depend on the place n.
HasRun(X, base, N, step) ==
    \E g \in [0 .. N -> X] : g[0] = base /\ \A n \in 1 .. N : g[n] = step[n][g[n - 1]]
LEMMA Iterated ==
    ASSUME NEW X, NEW base \in X, NEW N \in Nat, NEW step \in [1 .. N -> [X -> X]]
    PROVE  HasRun(X, base, N, step)
<1> DEFINE Upto(n, g) == /\ g \in [0 .. n -> X] /\ g[0] = base
                         /\ \A k \in 1 .. n : g[k] = step[k][g[k - 1]]
           S == {n \in Nat : n <= N => \E g : Upto(n, g)}
<1>1. 0 \in S
  <2>1. Upto(0, [n \in 0 .. 0 |-> base])  OBVIOUS
  <2> QED  BY <2>1
<1>2. ASSUME NEW n \in Nat, n \in S  PROVE n + 1 \in S
  <2> SUFFICES ASSUME n + 1 <= N  PROVE \E g : Upto(n + 1, g)  OBVIOUS
  <2>1. PICK g : Upto(n, g)  BY <1>2
  <2> DEFINE h == [k \in 0 .. n + 1 |-> IF k = n + 1 THEN step[n + 1][g[n]] ELSE g[k]]
  <2>2. step[n + 1][g[n]] \in X  BY <2>1
  <2>3. h \in [0 .. n + 1 -> X] /\ h[0] = base  BY <2>1, <2>2
  <2>4. \A k \in 1 .. n + 1 : h[k] = step[k][h[k - 1]]
    <3> SUFFICES ASSUME NEW k \in 1 .. n + 1  PROVE h[k] = step[k][h[k - 1]]  OBVIOUS
    <3>1. k - 1 \in 0 .. n /\ h[k - 1] = g[k - 1]  OBVIOUS
    <3>2. CASE k = n + 1  BY <3>1, <3>2
    <3>3. CASE k # n + 1  BY <2>1, <3>1, <3>3
    <3> QED  BY <3>2, <3>3
  <2> HIDE DEF h
  <2>5. Upto(n + 1, h)  BY <2>3, <2>4
  <2> QED  BY <2>5
<1> HIDE DEF S
<1>3. N \in S  BY <1>1, <1>2, NatSetInduction
<1>4. PICK g : Upto(N, g)  BY <1>3 DEF S
<1> QED  BY <1>4 DEF HasRun


\* A function all of whose steps stay in X.
LEMMA StepsStay ==
    ASSUME NEW X, NEW N \in Nat, NEW f, f = [n \in 0 .. N |-> f[n]], f[0] \in X,
           \A n \in 1 .. N : f[n - 1] \in X => f[n] \in X
    PROVE  f \in [0 .. N -> X]
<1> DEFINE S == {n \in Nat : n <= N => f[n] \in X}
<1>1. 0 \in S  OBVIOUS
<1>2. \A n \in Nat : n \in S => n + 1 \in S
  <2> SUFFICES ASSUME NEW n \in Nat, n \in S, n + 1 <= N  PROVE f[n + 1] \in X  OBVIOUS
  <2>1. n + 1 \in 1 .. N /\ (n + 1) - 1 = n /\ f[n] \in X  OBVIOUS
  <2> QED  BY <2>1
<1> HIDE DEF S
<1>3. \A n \in Nat : n \in S  BY <1>1, <1>2, NatSetInduction
<1>4. \A n \in 0 .. N : f[n] \in X  BY <1>3 DEF S
<1> QED  BY <1>4

-----------------------------------------------------------------------------
(***************************************************************************)
(* Declarations.  A guard is found along the fields of a structure, and    *)
(* through the structures embedded in it (findField): what is found is a   *)
(* chain of fields of the package, whatever the package is.                *)
(***************************************************************************)
LEMMA FieldsAre ==
    ASSUME package \in Packages, NEW t \in Type, NEW f \in FieldsOf(t)
    PROVE  /\ f \in AllFields /\ f.of = t /\ Own(f) \in Seq(Path)
           /\ f.at[1] \in Nat /\ f.at[2] \in Nat
           /\ \A g \in FieldsOf(t) : f.at = g.at => f = g
<1>1. package[t] \in Declared  BY DeclarationsAssumption
<1>2. package[t].groups \in Seq(Group)  BY <1>1 DEF Declared
<1>3. ASSUME NEW g \in FieldsOf(t)
      PROVE  \E i \in DOMAIN package[t].groups : \E j \in DOMAIN NamesOf(package[t].groups[i]) :
                g = Field(t, i, j)
  BY DEF FieldsOf
<1>4. PICK i \in DOMAIN package[t].groups : \E j \in DOMAIN NamesOf(package[t].groups[i]) :
          f = Field(t, i, j)
  BY <1>3
<1>40. PICK j \in DOMAIN NamesOf(package[t].groups[i]) : f = Field(t, i, j)  BY <1>4
<1>5. package[t].groups[i] \in Group  BY <1>2
<1>6. NamesOf(package[t].groups[i]) \in Seq(FieldName) \/ NamesOf(package[t].groups[i]) = <<package[t].groups[i].type>>
  BY <1>5 DEF NamesOf, Group
<1>7. i \in Nat /\ j \in Nat
  <2>1. i \in 1 .. Len(package[t].groups)  BY <1>2
  <2>2. CASE NamesOf(package[t].groups[i]) \in Seq(FieldName)
    <3>1. j \in 1 .. Len(NamesOf(package[t].groups[i]))  BY <2>2
    <3> QED  BY <1>2, <2>1, <2>2, <3>1
  <2>3. CASE NamesOf(package[t].groups[i]) = <<package[t].groups[i].type>>
    <3>1. j = 1  BY <2>3
    <3> QED  BY <1>2, <2>1, <3>1
  <2> QED  BY <1>6, <2>2, <2>3
<1>8. f.of = t /\ f.at = <<i, j>>  BY <1>40 DEF Field
<1>9. ASSUME NEW g \in FieldsOf(t), f.at = g.at  PROVE f = g
  <2>1. PICK k \in DOMAIN package[t].groups : \E l \in DOMAIN NamesOf(package[t].groups[k]) :
            g = Field(t, k, l)
    BY <1>3
  <2>10. PICK l \in DOMAIN NamesOf(package[t].groups[k]) : g = Field(t, k, l)  BY <2>1
  <2>2. g.at = <<k, l>>  BY <2>10 DEF Field
  <2>3. i = k /\ j = l  BY <1>8, <1>9, <2>2
  <2> QED  BY <1>40, <2>10, <2>3
<1>10. Own(f) \in Seq(Path)
  <2>1. Own(f) = package[t].groups[i].own  BY <1>8 DEF Own
  <2> QED  BY <1>5, <2>1 DEF Group
<1> QED  BY <1>7, <1>8, <1>9, <1>10 DEF AllFields

LEMMA FieldsAreOfTypes ==
    ASSUME NEW f \in AllFields
    PROVE  f.of \in Type /\ f \in FieldsOf(f.of)
BY DEF AllFields, FieldsOf, Field

\* Of some fields of a structure there is a first.
LEMMA FirstIs ==
    ASSUME package \in Packages, NEW t \in Type, NEW fs \in SUBSET FieldsOf(t), fs # {}
    PROVE  First(fs) \in fs
<1> DEFINE Groups == {f.at[1] : f \in fs}
<1>1. \A f \in fs : f.at[1] \in Nat /\ f.at[2] \in Nat /\ \A g \in fs : f.at = g.at => f = g
  BY FieldsAre
<1>2. Groups \in SUBSET Nat /\ Groups # {}  BY <1>1
<1>3. PICK i \in Groups : \A k \in Groups : i <= k  BY <1>2, LeastNat
<1> DEFINE Places == {f.at[2] : f \in {g \in fs : g.at[1] = i}}
<1>4. Places \in SUBSET Nat /\ Places # {}  BY <1>1, <1>3
<1>5. PICK j \in Places : \A k \in Places : j <= k  BY <1>4, LeastNat
<1>6. PICK f \in fs : f.at[1] = i /\ f.at[2] = j  BY <1>5
<1>7. ASSUME NEW g \in fs \ {f}
      PROVE  f.at[1] < g.at[1] \/ (f.at[1] = g.at[1] /\ f.at[2] < g.at[2])
  <2>1. i <= g.at[1] /\ g.at[1] \in Nat /\ i \in Nat /\ j \in Nat /\ g.at[2] \in Nat
    BY <1>1, <1>2, <1>3, <1>4, <1>5
  <2>2. CASE g.at[1] = i
    <3>1. j <= g.at[2]  BY <1>5, <2>2
    <3>2. g.at[2] # j
      <4> SUFFICES ASSUME g.at[2] = j  PROVE FALSE  OBVIOUS
      <4>1. \A h \in fs : \E a, b : h.at = <<a, b>>  BY DEF FieldsOf, Field
      <4>2. f.at = g.at
        <5>1. PICK a, b : f.at = <<a, b>>  BY <4>1
        <5>2. PICK c, d : g.at = <<c, d>>  BY <4>1
        <5>3. a = c /\ b = d  BY <1>6, <2>2, <5>1, <5>2
        <5> QED  BY <5>1, <5>2, <5>3
      <4> QED  BY <1>1, <4>2
    <3> QED  BY <1>6, <2>1, <2>2, <3>1, <3>2
  <2>3. CASE g.at[1] # i  BY <1>6, <2>1, <2>3
  <2> QED  BY <2>2, <2>3
<1> QED  BY <1>6, <1>7 DEF First

Chains(t) == {path \in Seq(AllFields) : IsChain(t, path)}

\* A chain goes on with the fields of the type of its last.
LEMMA ChainsJoin ==
    ASSUME NEW t, NEW p \in Chains(t), p # <<>>, NEW q \in Chains(Last(p).type)
    PROVE  p \o q \in Chains(t)
<1>1. p \in Seq(AllFields) /\ q \in Seq(AllFields) /\ Len(p) \in Nat /\ Len(p) > 0 /\ Len(q) \in Nat
  BY DEF Chains
<1>2. p \o q \in Seq(AllFields) /\ Len(p \o q) = Len(p) + Len(q)  BY <1>1
<1>3. ASSUME NEW i \in 1 .. Len(p \o q)
      PROVE  (p \o q)[i].of = IF i = 1 THEN t ELSE (p \o q)[i - 1].type
  <2>1. CASE i <= Len(p)
    <3>1. i \in 1 .. Len(p) /\ (p \o q)[i] = p[i]  BY <1>1, <1>2, <2>1
    <3>2. i # 1 => (p \o q)[i - 1] = p[i - 1]  BY <1>1, <1>2, <2>1
    <3>3. p[i].of = IF i = 1 THEN t ELSE p[i - 1].type  BY <3>1 DEF Chains, IsChain
    <3> QED  BY <3>1, <3>2, <3>3
  <2>2. CASE i > Len(p)
    <3> DEFINE k == i - Len(p)
    <3>1. k \in 1 .. Len(q) /\ (p \o q)[i] = q[k] /\ i # 1  BY <1>1, <1>2, <2>2
    <3>2. q[k].of = IF k = 1 THEN Last(p).type ELSE q[k - 1].type  BY <3>1 DEF Chains, IsChain
    <3>3. k = 1 => (p \o q)[i - 1] = Last(p)  BY <1>1, <1>2, <2>2 DEF Last
    <3>4. k # 1 => (p \o q)[i - 1] = q[k - 1]
      <4> SUFFICES ASSUME k # 1  PROVE (p \o q)[i - 1] = q[k - 1]  OBVIOUS
      <4>1. i - 1 \in 1 .. Len(p) + Len(q) /\ i - 1 > Len(p) /\ (i - 1) - Len(p) = k - 1
        BY <1>1, <1>2, <2>2, <3>1
      <4> QED  BY <1>1, <4>1
    <3> QED  BY <3>1, <3>2, <3>3, <3>4
  <2> QED  BY <1>1, <1>2, <2>1, <2>2
<1> QED  BY <1>2, <1>3 DEF Chains, IsChain

LEMMA NoChain == ASSUME NEW t  PROVE <<>> \in Chains(t)
BY DEF Chains, IsChain

LEMMA OneChain ==
    ASSUME NEW f \in AllFields
    PROVE  <<f>> \in Chains(f.of)
BY DEF Chains, IsChain

LEMMA FindIs ==
    ASSUME package \in Packages, NEW t \in Type, NEW name, NEW below,
           \A u \in Type : below[u] \in Chains(u)
    PROVE  Find(t, name, below) \in Chains(t)
<1> DEFINE own == {f \in FieldsOf(t) : f.name = name}
           through == {f \in FieldsOf(t) : f.embedded /\ f.type \in Type /\ below[f.type] # <<>>}
           first == First(through)
<1>1. own # {} => First(own) \in own  BY FirstIs
<1>2. through # {} => first \in through  BY FirstIs
<1> HIDE DEF first
<1>3. CASE own # {}
  <2>1. First(own) \in AllFields /\ First(own).of = t  BY <1>1, <1>3, FieldsAre
  <2>2. Find(t, name, below) = <<First(own)>>  BY <1>3 DEF Find
  <2> QED  BY <2>1, <2>2, OneChain
<1>4. CASE own = {} /\ through # {}
  <2>1. first \in AllFields /\ first.of = t /\ first.type \in Type  BY <1>2, <1>4, FieldsAre
  <2>2. <<first>> \in Chains(t) /\ <<first>> # <<>> /\ Last(<<first>>) = first
    BY <2>1, OneChain DEF Last
  <2>3. Find(t, name, below) = <<first>> \o below[first.type]  BY <1>4 DEF Find, first
  <2> QED  BY <2>1, <2>2, <2>3, ChainsJoin
<1>5. CASE own = {} /\ through = {}
  <2>1. Find(t, name, below) = <<>>  BY <1>5 DEF Find
  <2> QED  BY <2>1, NoChain
<1> QED  BY <1>3, <1>4, <1>5

LEMMA FindFieldIs ==
    ASSUME package \in Packages, NEW t \in Type, NEW name
    PROVE  FindField(t, name) \in Chains(t)
<1> DEFINE N == Cardinality(Type)
           X == {b \in [Type -> Seq(AllFields)] : \A u \in Type : b[u] \in Chains(u)}
           base == [u \in Type |-> <<>>]
           once(b) == [u \in Type |-> Find(u, name, b)]
           Is(g) == g = [n \in 0 .. Cardinality(Type) |->
                           [u \in Type |-> IF n = 0 THEN <<>> ELSE Find(u, name, g[n - 1])]]
           find == CHOOSE g : Is(g)
<1>1. N \in Nat  BY DeclarationsAssumption, FS_CardinalityType
<1>2. FindField(t, name) = find[N][t]  BY DEF FindField
<1>3. base \in X  BY NoChain DEF Chains
<1>4. ASSUME NEW b \in X  PROVE once(b) \in X
  <2>1. \A u \in Type : Find(u, name, b) \in Chains(u)  BY FindIs
  <2> QED  BY <2>1 DEF Chains
<1>5. \E g : Is(g)
  <2> DEFINE step == [n \in 1 .. N |-> [b \in X |-> once(b)]]
  <2>1. step \in [1 .. N -> [X -> X]]  BY <1>4
  <2>2. \A n \in 1 .. N, b \in X : step[n][b] = once(b)  OBVIOUS
  <2> HIDE DEF step, once, X, base, N
  <2>3. HasRun(X, base, N, step)  BY <1>1, <1>3, <2>1, Iterated
  <2>4. PICK g \in [0 .. N -> X] : g[0] = base /\ \A n \in 1 .. N : g[n] = step[n][g[n - 1]]
    BY <2>3 DEF HasRun
  <2>5. \A n \in 1 .. N : g[n] = once(g[n - 1])
    <3> SUFFICES ASSUME NEW n \in 1 .. N  PROVE g[n] = once(g[n - 1])  OBVIOUS
    <3>1. n - 1 \in 0 .. N  BY <1>1
    <3> QED  BY <2>2, <2>4, <3>1
  <2>6. \A n \in 0 .. N : g[n] = [u \in Type |-> IF n = 0 THEN <<>> ELSE Find(u, name, g[n - 1])]
    <3> SUFFICES ASSUME NEW n \in 0 .. N
                 PROVE  g[n] = [u \in Type |-> IF n = 0 THEN <<>> ELSE Find(u, name, g[n - 1])]
      OBVIOUS
    <3>1. CASE n = 0  BY <2>4, <3>1 DEF base
    <3>2. CASE n # 0
      <4>1. n \in 1 .. N  BY <1>1, <3>2
      <4> QED  BY <2>5, <3>2, <4>1 DEF once
    <3> QED  BY <3>1, <3>2
  <2>7. Is(g)  BY <2>4, <2>6 DEF N
  <2> QED  BY <2>7
<1>6. Is(find)  BY <1>5
<1> HIDE DEF find
<1>7. find = [n \in 0 .. N |-> find[n]]  BY <1>6
<1>8. \A n \in 0 .. N : find[n] = [u \in Type |-> IF n = 0 THEN <<>> ELSE Find(u, name, find[n - 1])]
  BY <1>6
<1> HIDE DEF Is
<1>9. find[0] = base  BY <1>1, <1>8
<1>10. \A n \in 1 .. N : find[n - 1] \in X => find[n] \in X
  <2> SUFFICES ASSUME NEW n \in 1 .. N, find[n - 1] \in X  PROVE find[n] \in X  OBVIOUS
  <2>1. find[n] = once(find[n - 1])  BY <1>1, <1>8
  <2> QED  BY <1>4, <2>1
<1>11. find \in [0 .. N -> X]
  <2> HIDE DEF X, N, base
  <2>1. find[0] \in X  BY <1>3, <1>9
  <2> QED  BY <1>1, <1>7, <1>10, <2>1, StepsStay
<1>12. find[N] \in X  BY <1>1, <1>11
<1> QED  BY <1>2, <1>12

LEMMA OnwardIs ==
    ASSUME package \in Packages, NEW t \in Type, NEW path \in Chains(t), NEW name
    PROVE  Onward(path, name) \in Chains(t)
<1>1. CASE path = <<>> \/ Last(path).type \notin Type \/ FindField(Last(path).type, name) = <<>>
  BY <1>1, NoChain DEF Onward
<1>2. CASE ~(path = <<>> \/ Last(path).type \notin Type \/ FindField(Last(path).type, name) = <<>>)
  <2>1. FindField(Last(path).type, name) \in Chains(Last(path).type)  BY <1>2, FindFieldIs
  <2> QED  BY <1>2, <2>1, ChainsJoin DEF Onward
<1> QED  BY <1>1, <1>2

\* What a dotted name resolves to is a chain of fields of the package.
LEMMA ResolveIs ==
    ASSUME package \in Packages, NEW t \in Type, NEW parts \in Path
    PROVE  Resolve(t, parts) \in Chains(t)
<1> DEFINE N == Len(parts) - 1
           X == Chains(t)
           base == FindField(t, parts[1])
           Is(g) == g = [n \in 0 .. Len(parts) - 1 |->
                           IF n = 0 THEN FindField(t, parts[1]) ELSE Onward(g[n - 1], parts[n + 1])]
           way == CHOOSE g : Is(g)
<1>1. N \in Nat  BY DEF Path
<1>2. Resolve(t, parts) = way[N]  BY DEF Resolve
<1>3. base \in X  BY FindFieldIs
<1>4. ASSUME NEW path \in X, NEW n  PROVE Onward(path, parts[n + 1]) \in X  BY OnwardIs
<1>5. \E g : Is(g)
  <2> DEFINE step == [n \in 1 .. N |-> [path \in X |-> Onward(path, parts[n + 1])]]
  <2>1. step \in [1 .. N -> [X -> X]]  BY <1>4
  <2>2. \A n \in 1 .. N, path \in X : step[n][path] = Onward(path, parts[n + 1])  OBVIOUS
  <2> HIDE DEF step, X, base, N
  <2>3. HasRun(X, base, N, step)  BY <1>1, <1>3, <2>1, Iterated
  <2>4. PICK g \in [0 .. N -> X] : g[0] = base /\ \A n \in 1 .. N : g[n] = step[n][g[n - 1]]
    BY <2>3 DEF HasRun
  <2>5. \A n \in 1 .. N : g[n] = Onward(g[n - 1], parts[n + 1])
    <3> SUFFICES ASSUME NEW n \in 1 .. N  PROVE g[n] = Onward(g[n - 1], parts[n + 1])  OBVIOUS
    <3>1. n - 1 \in 0 .. N  BY <1>1
    <3> QED  BY <2>2, <2>4, <3>1
  <2>6. \A n \in 0 .. N : g[n] = IF n = 0 THEN FindField(t, parts[1]) ELSE Onward(g[n - 1], parts[n + 1])
    <3> SUFFICES ASSUME NEW n \in 0 .. N, n # 0  PROVE g[n] = Onward(g[n - 1], parts[n + 1])
      BY <2>4 DEF base
    <3>1. n \in 1 .. N  BY <1>1
    <3> QED  BY <2>5, <3>1
  <2>7. Is(g)  BY <2>4, <2>6 DEF N
  <2> QED  BY <2>7
<1>6. Is(way)  BY <1>5
<1> HIDE DEF way
<1>7. way = [n \in 0 .. N |-> way[n]]  BY <1>6
<1>8. \A n \in 0 .. N : way[n] = IF n = 0 THEN FindField(t, parts[1]) ELSE Onward(way[n - 1], parts[n + 1])
  BY <1>6
<1> HIDE DEF Is, X, N
<1>9. way[0] \in X  BY <1>1, <1>3, <1>8
<1>10. \A n \in 1 .. N : way[n - 1] \in X => way[n] \in X
  <2> SUFFICES ASSUME NEW n \in 1 .. N, way[n - 1] \in X  PROVE way[n] \in X  OBVIOUS
  <2>1. n # 0 /\ n \in 0 .. N  BY <1>1
  <2>2. way[n] = Onward(way[n - 1], parts[n + 1])  BY <1>8, <2>1
  <2> QED  BY <1>4, <2>2
<1>11. way \in [0 .. N -> X]  BY <1>1, <1>7, <1>9, <1>10, StepsStay
<1>12. way[N] \in X  BY <1>1, <1>11
<1> QED  BY <1>2, <1>12 DEF X

-----------------------------------------------------------------------------
(***************************************************************************)
(* The package does not change, and so neither do its fields nor what a    *)
(* name resolves to: what they are, as functions of the package.           *)
(***************************************************************************)
FieldsIn(p, t) ==
    UNION {{[of |-> t, at |-> <<i, j>>, name |-> NamesOf(p[t].groups[i])[j],
             type |-> p[t].groups[i].type, embedded |-> p[t].groups[i].names = <<>>] :
               j \in DOMAIN NamesOf(p[t].groups[i])} : i \in DOMAIN p[t].groups}
FindIn(p, t, name, below) ==
    LET own == {f \in FieldsIn(p, t) : f.name = name}
        through == {f \in FieldsIn(p, t) : f.embedded /\ f.type \in Type /\ below[f.type] # <<>>}
        first == First(through)
    IN  IF own # {} THEN <<First(own)>>
        ELSE IF through # {} THEN <<first>> \o below[first.type] ELSE <<>>
FindFieldIn(p, t, name) ==
    LET find[n \in 0 .. Cardinality(Type)] ==
            [u \in Type |-> IF n = 0 THEN <<>> ELSE FindIn(p, u, name, find[n - 1])]
    IN  find[Cardinality(Type)][t]
OnwardIn(p, path, name) ==
    IF path = <<>> \/ Last(path).type \notin Type \/ FindFieldIn(p, Last(path).type, name) = <<>>
    THEN <<>> ELSE path \o FindFieldIn(p, Last(path).type, name)
ResolveIn(p, t, parts) ==
    LET way[n \in 0 .. Len(parts) - 1] ==
            IF n = 0 THEN FindFieldIn(p, t, parts[1]) ELSE OnwardIn(p, way[n - 1], parts[n + 1])
    IN  way[Len(parts) - 1]

LEMMA FieldsAreIn ==
    ASSUME NEW t
    PROVE  FieldsOf(t) = FieldsIn(package, t) /\ FieldsOf(t)' = FieldsIn(package', t)
BY DEF FieldsOf, FieldsIn, Field

LEMMA ResolveIsIn ==
    ASSUME NEW t, NEW parts
    PROVE  /\ Resolve(t, parts) = ResolveIn(package, t, parts)
           /\ Resolve(t, parts)' = ResolveIn(package', t, parts)
<1>1. Resolve(t, parts) = ResolveIn(package, t, parts)
  BY DEF Resolve, ResolveIn, Onward, OnwardIn, FindField, FindFieldIn, Find, FindIn, FieldsOf, FieldsIn, Field
<1>2. Resolve(t, parts)' = ResolveIn(package', t, parts)
  BY DEF Resolve, ResolveIn, Onward, OnwardIn, FindField, FindFieldIn, Find, FindIn, FieldsOf, FieldsIn, Field
<1> QED  BY <1>1, <1>2

\* What is written does not change.
LEMMA SourceStays ==
    ASSUME package' = package, order' = order
    PROVE  /\ AllFields' = AllFields
           /\ \A t : FieldsOf(t)' = FieldsOf(t)
           /\ \A t, parts : Resolve(t, parts)' = Resolve(t, parts)
           /\ \A t, parts : Named(t, parts)' = Named(t, parts)
           /\ \A f : Own(f)' = Own(f) /\ Exempt(f)' = Exempt(f) /\ ByHand(f)' = ByHand(f)
           /\ \A type : IsReally(type)' = IsReally(type)
           /\ \A t, type : Unknown(t, type)' = Unknown(t, type)
<1>1. ASSUME NEW t  PROVE FieldsOf(t)' = FieldsOf(t)  BY FieldsAreIn
<1>2. AllFields' = AllFields  BY <1>1 DEF AllFields
<1>3. ASSUME NEW t, NEW parts
      PROVE  Resolve(t, parts)' = Resolve(t, parts) /\ Named(t, parts)' = Named(t, parts)
  BY ResolveIsIn DEF Named
<1>4. ASSUME NEW f
      PROVE  Own(f)' = Own(f) /\ Exempt(f)' = Exempt(f)
  BY DEF Own, Exempt
<1>5. ASSUME NEW type  PROVE IsReally(type)' = IsReally(type)  BY DEF IsReally
<1>6. ASSUME NEW t, NEW type  PROVE Unknown(t, type)' = Unknown(t, type)
  BY <1>5 DEF Unknown
<1>7. ASSUME NEW f  PROVE ByHand(f)' = ByHand(f)
  <2>1. \A n : Named(f.of, n)' = Named(f.of, n)  BY <1>3
  <2>2. Own(f)' = Own(f) /\ Exempt(f)' = Exempt(f)  BY <1>4
  <2>3. IsReally(f.type)' = IsReally(f.type)  BY <1>5
  <2>4. {Named(f.of, n) : n \in Range(Own(f))}' = {Named(f.of, n) : n \in Range(Own(f))}
    BY <2>1, <2>2
  <2> QED  BY <2>1, <2>2, <2>3, <2>4 DEF ByHand
<1> QED  BY <1>1, <1>2, <1>3, <1>4, <1>5, <1>6, <1>7

-----------------------------------------------------------------------------
(***************************************************************************)
(* The types that are read.                                                *)
(***************************************************************************)
DeclSource ==
    /\ package \in Packages
    /\ order \in Bijection(1 .. Cardinality(Type \ Inline), Type \ Inline)
    /\ next \in 1 .. Len(order) + 1
    /\ locks = {order[i] : i \in {j \in 1 .. next - 1 : package[order[j]].lock}}

LEMMA OrderIs ==
    ASSUME DeclSource
    PROVE  /\ order \in Seq(Type \ Inline) /\ Len(order) \in Nat
           /\ \A i, j \in 1 .. Len(order) : order[i] = order[j] => i = j
           /\ \A t \in Type \ Inline : \E i \in 1 .. Len(order) : order[i] = t
<1> DEFINE N == Cardinality(Type \ Inline)
<1>1. N \in Nat
  <2>1. IsFiniteSet(Type \ Inline)  BY DeclarationsAssumption, FS_Difference
  <2> QED  BY <2>1, FS_CardinalityType
<1> HIDE DEF N
<1>2. order \in Bijection(1 .. N, Type \ Inline)  BY DEF DeclSource, N
<1>3. order \in [1 .. N -> Type \ Inline] /\ IsInjective(order)
      /\ \A t \in Type \ Inline : \E i \in 1 .. N : order[i] = t
  BY <1>2 DEF Bijection, Injection, Surjection
<1>4. order \in Seq(Type \ Inline) /\ Len(order) = N  BY <1>1, <1>3
<1> QED  BY <1>1, <1>3, <1>4 DEF IsInjective

\* Only types that are really locks are known to be locks, and every one of those
\* that were read is known.
LEMMA LocksAre ==
    ASSUME DeclSource
    PROVE  /\ \A type : IsLock(type) => IsReally(type)
           /\ \A t \in Type \ Inline : \A type : order[next] = t /\ next <= Len(order)
                 /\ IsReally(type) /\ ~Unknown(t, type) => IsLock(type)
<1>1. ASSUME NEW type, IsLock(type)  PROVE IsReally(type)
  BY <1>1, OrderIs DEF IsLock, IsReally, DeclSource
<1>2. ASSUME NEW t \in Type \ Inline, NEW type, order[next] = t, next <= Len(order),
             IsReally(type), ~Unknown(t, type)
      PROVE  IsLock(type)
  <2>1. CASE type = Mutex  BY <2>1 DEF IsLock
  <2>2. CASE type # Mutex
    <3>1. type \in Type /\ package[type].lock  BY <1>2, <2>2 DEF IsReally
    <3>2. type \notin Inline  BY <3>1, DeclarationsAssumption DEF DeclSource
    <3>3. PICK j \in 1 .. Len(order) : order[j] = type  BY <3>1, <3>2, OrderIs
    <3>4. next \in 1 .. Len(order) /\ Len(order) \in Nat /\ DOMAIN order = 1 .. Len(order)
      BY <1>2, OrderIs DEF DeclSource
    <3>5. ~(next <= j)  BY <1>2, <2>2, <3>3, <3>4 DEF Unknown
    <3>6. j \in 1 .. next - 1  BY <3>3, <3>4, <3>5
    <3> QED  BY <3>1, <3>3, <3>6 DEF IsLock, DeclSource
  <2> QED  BY <2>1, <2>2
<1> QED  BY <1>1, <1>2

\* A type is read with those written in place in it, and with no other.
LEMMA ReadWithIs ==
    ASSUME NEW t \in Type
    PROVE  t \in ReadWith(t) /\ ReadWith(t) \subseteq {t} \cup Inline
<1>1. t \in ReadWith(t)  BY DEF ReadWith
<1>2. ASSUME NEW u \in ReadWith(t)  PROVE u \in {t} \cup Inline
  <2> DEFINE S == {t} \cup Inline
  <2>1. S \in SUBSET Type  BY DeclarationsAssumption
  <2>2. \A s \in S : \A f \in FieldsOf(s) : f.type \in Inline /\ ~f.embedded => f.type \in S
    OBVIOUS
  <2>3. t \in S  OBVIOUS
  <2> HIDE DEF S
  <2>4. u \in S  BY <1>2, <2>1, <2>2, <2>3 DEF ReadWith
  <2> QED  BY <2>4 DEF S
<1> QED  BY <1>1, <1>2

-----------------------------------------------------------------------------
(***************************************************************************)
(* The guards of one field.                                                *)
(***************************************************************************)
\* What is found for one name: the lock it resolves to, or one of the package.
LEMMA LocalGuardIs ==
    ASSUME NEW t, NEW n, NEW g \in LocalGuard(t, n)
    PROVE  g = Named(t, n) /\ g.path = Resolve(t, n) /\ g.path # <<>> /\ IsLock(Last(g.path).type)
BY DEF LocalGuard, Named

LEMMA GuardIs ==
    ASSUME NEW t, NEW n, NEW g \in Guard(t, n)
    PROVE  g \in LocalGuard(t, n) \/ g.path = <<>>
BY DEF Guard

LEMMA OwnGuardIs ==
    ASSUME NEW f, NEW g \in OwnGuards(f), g.path # <<>>
    PROVE  \E n \in Range(Own(f)) : g \in LocalGuard(f.of, n)
BY GuardIs DEF OwnGuards

\* With nothing to report every name is found, so each gives one guard.
LEMMA OwnGuardsAreNamed ==
    ASSUME NEW f, OwnReports(f) = {}
    PROVE  OwnGuards(f) = {Named(f.of, n) : n \in Range(Own(f))}
<1>1. ASSUME NEW n \in Range(Own(f))  PROVE Guard(f.of, n) = {Named(f.of, n)}
  <2>1. Guard(f.of, n) # {} /\ ~NotALock(f.of, n)
    <3>1. ~\E m \in Range(Own(f)) : Guard(f.of, m) = {} \/ NotALock(f.of, m)
      BY DEF OwnReports
    <3> QED  BY <3>1
  <2>2. CASE LocalGuard(f.of, n) # {}
    <3>1. Guard(f.of, n) = LocalGuard(f.of, n)  BY <2>2 DEF Guard
    <3>2. \A g \in LocalGuard(f.of, n) : g = Named(f.of, n)  BY LocalGuardIs
    <3> QED  BY <2>2, <3>1, <3>2
  <2>3. CASE LocalGuard(f.of, n) = {}
    <3>1. Resolve(f.of, n) = <<>>  BY <2>1, <2>3 DEF NotALock
    <3>2. Guard(f.of, n) = {[name |-> n, path |-> <<>>]}  BY <2>1, <2>3 DEF Guard
    <3> QED  BY <3>1, <3>2 DEF Named
  <2> QED  BY <2>2, <2>3
<1> QED  BY <1>1 DEF OwnGuards

\* The guard of the structure is the one of its first rule.
LEMMA StructGuardIs ==
    ASSUME NEW t, NEW g \in StructGuard(t)
    PROVE  package[t].rules # <<>> /\ g \in LocalGuard(t, package[t].rules[1].guard)
BY DEF StructGuard

-----------------------------------------------------------------------------
(***************************************************************************)
(* The guards recorded: the invariant and the theorems.                    *)
(***************************************************************************)
\* What is recorded of each field, and of the fields of the types read so far, in a
\* package with nothing to report, that it has the guards a reader would expect.
ChainsRecorded ==
    \A f \in AllFields : \A g \in guarded[f] :
        g.path \in Chains(f.of) /\ (g.path = <<>> \/ IsLock(Last(g.path).type))
ReadAsByHand ==
    \A i \in 1 .. next - 1 : \A f \in FieldsOf(order[i]) :
        reports = {} /\ ~Unknown(order[i], f.type) => guarded[f] = ByHand(f)

\* A lock has no guard but those written on it.
LocksAsWritten ==
    \A f \in AllFields : IsReally(f.type) /\ ~Unknown(f.of, f.type) =>
        \A g \in guarded[f] : g.path # <<>> => g \in OwnGuards(f)

DeclInv == /\ DeclSource /\ guarded = [f \in AllFields |-> guarded[f]]
           /\ ChainsRecorded /\ ReadAsByHand /\ LocksAsWritten

\* What is found stays found when more types are known as locks.
LEMMA FoundStays ==
    ASSUME package' = package, order' = order, locks \subseteq locks',
           NEW f, NEW g \in OwnGuards(f), g.path # <<>>
    PROVE  g \in OwnGuards(f)'
<1>1. PICK n \in Range(Own(f)) : g \in LocalGuard(f.of, n)  BY OwnGuardIs
<1>2. g = [name |-> n, path |-> Resolve(f.of, n)] /\ Resolve(f.of, n) # <<>>
      /\ IsLock(Last(Resolve(f.of, n)).type)
  BY <1>1, LocalGuardIs DEF LocalGuard
<1>3. IsLock(Last(Resolve(f.of, n)).type)'
  <2>1. Resolve(f.of, n)' = Resolve(f.of, n)  BY SourceStays
  <2> QED  BY <1>2, <2>1 DEF IsLock, Last
<1>4. g \in LocalGuard(f.of, n)'
  <2>1. Resolve(f.of, n)' = Resolve(f.of, n)  BY SourceStays
  <2> QED  BY <1>2, <1>3, <2>1 DEF LocalGuard
<1>5. LocalGuard(f.of, n)' \subseteq Guard(f.of, n)'  BY DEF Guard
<1>6. n \in Range(Own(f))'  BY SourceStays
<1> QED  BY <1>4, <1>5, <1>6 DEF OwnGuards

LEMMA DeclInitInv == DeclInit => DeclInv
<1> SUFFICES ASSUME DeclInit  PROVE DeclInv  OBVIOUS
<1>1. DeclSource
  <2> DEFINE N == Cardinality(Type \ Inline)
  <2>1. IsFiniteSet(Type \ Inline)  BY DeclarationsAssumption, FS_Difference
  <2>2. N \in Nat  BY <2>1, FS_CardinalityType
  <2> HIDE DEF N
  <2>3. order \in [1 .. N -> Type \ Inline]  BY DEF DeclInit, Bijection, Injection, N
  <2>4. Len(order) = N  BY <2>2, <2>3
  <2>5. next \in 1 .. Len(order) + 1 /\ 1 .. next - 1 = {}  BY <2>2, <2>4 DEF DeclInit
  <2>6. locks = {order[i] : i \in {j \in 1 .. next - 1 : package[order[j]].lock}}
    BY <2>5 DEF DeclInit
  <2> QED  BY <2>5, <2>6 DEF DeclSource, DeclInit
<1>2. next = 1 /\ guarded = [f \in AllFields |-> {}]  BY DEF DeclInit
<1>3. \A f \in AllFields : guarded[f] = {}  BY <1>2
<1>4. ChainsRecorded /\ LocksAsWritten  BY <1>3 DEF ChainsRecorded, LocksAsWritten
<1>5. ReadAsByHand  BY <1>2 DEF ReadAsByHand
<1> QED  BY <1>1, <1>2, <1>4, <1>5 DEF DeclInv

\* The fields read with a type t get their guards; those of t itself the ones a
\* reader would expect, if nothing is reported.
LEMMA OwnChains ==
    ASSUME DeclSource, NEW f \in AllFields, NEW g \in OwnGuards(f)
    PROVE  g.path \in Chains(f.of) /\ (g.path = <<>> \/ IsLock(Last(g.path).type))
<1>1. CASE g.path = <<>>  BY <1>1, NoChain
<1>2. CASE g.path # <<>>
  <2>1. PICK n \in Range(Own(f)) : g \in LocalGuard(f.of, n)  BY <1>2, OwnGuardIs
  <2>2. f.of \in Type /\ Own(f) \in Seq(Path)  BY FieldsAreOfTypes, FieldsAre DEF DeclSource
  <2>3. n \in Path  BY <2>1, <2>2 DEF Range
  <2>4. Resolve(f.of, n) \in Chains(f.of)  BY <2>2, <2>3, ResolveIs DEF DeclSource
  <2> QED  BY <2>1, <2>4, LocalGuardIs
<1> QED  BY <1>1, <1>2

LEMMA StructChains ==
    ASSUME DeclSource, NEW t \in Type, NEW g \in StructGuard(t)
    PROVE  g.path \in Chains(t) /\ g.path # <<>> /\ IsLock(Last(g.path).type)
<1>1. package[t] \in Declared  BY DeclarationsAssumption DEF DeclSource
<1>2. package[t].rules # <<>> /\ g \in LocalGuard(t, package[t].rules[1].guard)
  BY StructGuardIs
<1>3. package[t].rules[1].guard \in Path
  <2>1. package[t].rules \in Seq(Rule)  BY <1>1 DEF Declared
  <2>2. package[t].rules[1] \in Rule  BY <1>2, <2>1
  <2> QED  BY <2>2 DEF Rule
<1>4. Resolve(t, package[t].rules[1].guard) \in Chains(t)  BY <1>3, ResolveIs DEF DeclSource
<1> QED  BY <1>2, <1>4, LocalGuardIs

LEMMA GivenByHand ==
    ASSUME DeclSource, next <= Len(order), NEW t, t = order[next], NEW f \in FieldsOf(t),
           ~Unknown(t, f.type), StructReports(t) = {}, OwnReports(f) = {}
    PROVE  GuardsOf(f, StructGuard(t)) = ByHand(f)
<1>1. t \in Type \ Inline
  <2>1. next \in 1 .. Len(order)  BY OrderIs DEF DeclSource
  <2> QED  BY <2>1, OrderIs
<1>2. f.of = t /\ Own(f) \in Seq(Path)  BY <1>1, FieldsAre DEF DeclSource
<1>3. OwnGuards(f) = {Named(t, n) : n \in Range(Own(f))}  BY <1>2, OwnGuardsAreNamed
<1>4. IsReally(f.type) <=> IsLock(f.type)  BY <1>1, LocksAre
<1>5. CASE Own(f) # <<>>
  <2>1. Own(f)[1] \in Range(Own(f))  BY <1>2, <1>5 DEF Range
  <2>2. OwnGuards(f) # {}  BY <1>3, <2>1
  <2>3. GuardsOf(f, StructGuard(t)) = OwnGuards(f)  BY <2>2 DEF GuardsOf, LeftOut
  <2> QED  BY <1>2, <1>3, <1>5, <2>3 DEF ByHand
<1>6. CASE Own(f) = <<>>
  <2>1. OwnGuards(f) = {}
    <3>1. Range(Own(f)) = {}  BY <1>6 DEF Range
    <3> QED  BY <1>3, <3>1
  <2>2. CASE package[t].rules = <<>> \/ Exempt(f) \/ IsReally(f.type)
    <3>1. ByHand(f) = {}  BY <1>2, <1>6, <2>2 DEF ByHand
    <3>2. \A g \in StructGuard(t) : LeftOut(f, g)  BY <1>4, <2>2, StructGuardIs DEF LeftOut
    <3> QED  BY <2>1, <3>1, <3>2 DEF GuardsOf
  <2>3. CASE ~(package[t].rules = <<>> \/ Exempt(f) \/ IsReally(f.type))
    <3>1. ByHand(f) = {Named(t, package[t].rules[1].guard)}  BY <1>2, <1>6, <2>3 DEF ByHand
    <3>2. StructGuard(t) # {}  BY <2>3 DEF StructReports
    <3>3. ASSUME NEW g \in StructGuard(t)
          PROVE  g = Named(t, package[t].rules[1].guard) /\ ~LeftOut(f, g)
      <4>1. g \in LocalGuard(t, package[t].rules[1].guard)  BY StructGuardIs
      <4>2. g = Named(t, package[t].rules[1].guard) /\ IsLock(Last(g.path).type)
        BY <4>1, LocalGuardIs
      <4>3. f # Last(g.path)  BY <1>4, <2>3, <4>2
      <4> QED  BY <1>4, <2>1, <2>3, <4>2, <4>3 DEF LeftOut
    <3>4. GuardsOf(f, StructGuard(t)) = StructGuard(t)  BY <2>1, <3>3 DEF GuardsOf
    <3> QED  BY <3>1, <3>2, <3>3, <3>4
  <2> QED  BY <2>2, <2>3
<1> QED  BY <1>5, <1>6

\* What a step does, about any field.
LEMMA ReadTypeIs ==
    ASSUME DeclInv, ReadType
    PROVE  \E t \in Type \ Inline :
              /\ t = order[next] /\ next \in 1 .. Len(order) /\ next' = next + 1
              /\ package' = package /\ order' = order /\ locks \subseteq locks'
              /\ guarded' = [f \in AllFields |-> guarded'[f]]
              /\ \A f \in AllFields \ UNION {FieldsOf(u) : u \in ReadWith(t)} : guarded'[f] = guarded[f]
              /\ \A f \in AllFields \cap UNION {FieldsOf(u) : u \in ReadWith(t)} :
                    /\ guarded'[f] = GuardsOf(f, GuardFor(f, t))
                    /\ f.of # t => f.of \in Inline
              /\ \A f \in FieldsOf(t) :
                    /\ f \in UNION {FieldsOf(u) : u \in ReadWith(t)}
                    /\ reports' = {} => StructReports(t) = {} /\ OwnReports(f) = {}
              /\ reports' = {} => reports = {}
<1> DEFINE t == order[next]
           read == UNION {FieldsOf(u) : u \in ReadWith(t)}
<1>1. next \in 1 .. Len(order) /\ t \in Type \ Inline
  <2>1. next \in 1 .. Len(order)  BY OrderIs DEF ReadType, DeclInv, DeclSource
  <2> QED  BY <2>1, OrderIs DEF DeclInv
<1>2. /\ guarded' = [f \in AllFields |-> IF f \in read THEN GuardsOf(f, GuardFor(f, t)) ELSE guarded[f]]
      /\ reports' = reports \cup StructReports(t)
                    \cup UNION {OwnReports(f) \cup ApplyReports(f, GuardFor(f, t)) : f \in read}
      /\ locks' = IF package[t].lock THEN locks \cup {t} ELSE locks
      /\ next' = next + 1 /\ package' = package /\ order' = order
  BY DEF ReadType
<1> HIDE DEF t
<1>3. ASSUME NEW f \in read  PROVE f.of = t \/ f.of \in Inline
  <2>1. PICK u \in ReadWith(t) : f \in FieldsOf(u)  OBVIOUS
  <2>2. f.of = u  BY <2>1 DEF FieldsOf, Field
  <2> QED  BY <1>1, <2>1, <2>2, ReadWithIs
<1>4. FieldsOf(t) \subseteq read  BY <1>1, ReadWithIs
<1> HIDE DEF read
<1>5. guarded' = [f \in AllFields |-> guarded'[f]]  BY <1>2
<1>6. \A f \in AllFields : guarded'[f] = IF f \in read THEN GuardsOf(f, GuardFor(f, t)) ELSE guarded[f]
  BY <1>2
<1>7. locks \subseteq locks'  BY <1>2
<1>8. ASSUME reports' = {}
      PROVE  reports = {} /\ StructReports(t) = {} /\ \A f \in read : OwnReports(f) = {}
  BY <1>2, <1>8
<1> QED  BY <1>1, <1>2, <1>3, <1>4, <1>5, <1>6, <1>7, <1>8 DEF t, read

LEMMA ReadTypeKeeps ==
    ASSUME DeclInv, ReadType
    PROVE  DeclInv'
<1>1. PICK t \in Type \ Inline :
         /\ t = order[next] /\ next \in 1 .. Len(order) /\ next' = next + 1
         /\ package' = package /\ order' = order /\ locks \subseteq locks'
         /\ guarded' = [f \in AllFields |-> guarded'[f]]
         /\ \A f \in AllFields \ UNION {FieldsOf(u) : u \in ReadWith(t)} : guarded'[f] = guarded[f]
         /\ \A f \in AllFields \cap UNION {FieldsOf(u) : u \in ReadWith(t)} :
               /\ guarded'[f] = GuardsOf(f, GuardFor(f, t))
               /\ f.of # t => f.of \in Inline
         /\ \A f \in FieldsOf(t) :
               /\ f \in UNION {FieldsOf(u) : u \in ReadWith(t)}
               /\ reports' = {} => StructReports(t) = {} /\ OwnReports(f) = {}
         /\ reports' = {} => reports = {}
  BY ReadTypeIs
<1> DEFINE read == UNION {FieldsOf(u) : u \in ReadWith(t)}
<1>2. /\ \A f \in AllFields : \/ guarded'[f] = guarded[f]
                              \/ /\ guarded'[f] = GuardsOf(f, GuardFor(f, t))
                                 /\ f.of = t \/ f.of \in Inline
      /\ \A f \in AllFields \ read : guarded'[f] = guarded[f]
      /\ \A f \in AllFields \cap read : f.of = t \/ f.of \in Inline
      /\ \A f \in AllFields \cap read : guarded'[f] = GuardsOf(f, GuardFor(f, t))
      /\ FieldsOf(t) \subseteq read
  BY <1>1
<1> HIDE DEF read
<1>3. DeclSource /\ next \in 1 .. Len(order) /\ Len(order) \in Nat  BY <1>1, OrderIs DEF DeclInv
<1>4. DeclSource'
  <2>1. next' \in 1 .. Len(order') + 1  BY <1>1, <1>3
  <2>2. locks' = IF package[t].lock THEN locks \cup {t} ELSE locks  BY <1>1 DEF ReadType
  <2>3. locks = {order[i] : i \in {j \in 1 .. next - 1 : package[order[j]].lock}}
    BY <1>3 DEF DeclSource
  <2>4. 1 .. next' - 1 = (1 .. next - 1) \cup {next}  BY <1>1, <1>3
  <2>5. locks' = {order[i] : i \in {j \in 1 .. next' - 1 : package[order[j]].lock}}
    BY <1>1, <2>2, <2>3, <2>4
  <2> QED  BY <1>1, <1>3, <2>1, <2>5 DEF DeclSource
<1>5. ChainsRecorded'
  <2> SUFFICES ASSUME NEW f \in AllFields, NEW g \in guarded'[f]
               PROVE  g.path \in Chains(f.of) /\ (g.path = <<>> \/ IsLock(Last(g.path).type)')
    <3>1. AllFields' = AllFields  BY <1>1, SourceStays
    <3>2. \A u : Chains(u)' = Chains(u)  BY <3>1 DEF Chains, IsChain
    <3> QED  BY <3>1, <3>2 DEF ChainsRecorded, Last, IsLock
  <2>1. IsLock(Last(g.path).type) => IsLock(Last(g.path).type)'  BY <1>1 DEF IsLock, Last
  <2>2. CASE guarded'[f] = guarded[f]  BY <2>1, <2>2 DEF DeclInv, ChainsRecorded
  <2>3. CASE guarded'[f] = GuardsOf(f, GuardFor(f, t))
    <3>1. g \in OwnGuards(f) \/ (g \in StructGuard(t) /\ f.of = t)
      BY <2>3 DEF GuardsOf, GuardFor
    <3> QED  BY <1>3, <2>1, <3>1, OwnChains, StructChains
  <2> QED  BY <1>2, <2>2, <2>3
<1>6. ReadAsByHand'
  <2> SUFFICES ASSUME NEW i \in 1 .. next, NEW f \in FieldsOf(order[i]), reports' = {},
                      ~Unknown(order[i], f.type)
               PROVE  guarded'[f] = ByHand(f)
    <3>1. 1 .. next' - 1 = 1 .. next  BY <1>1, <1>3
    <3> QED  BY <1>1, <3>1, SourceStays DEF ReadAsByHand
  <2>1. order[i] \in Type \ Inline /\ f \in AllFields /\ f.of = order[i]
    <3>1. order[i] \in Type \ Inline  BY <1>3, OrderIs
    <3> QED  BY <1>3, <3>1, FieldsAre DEF DeclSource
  <2>2. CASE i = next
    <3>1. StructReports(t) = {} /\ OwnReports(f) = {}  BY <1>1, <2>2
    <3>2. GuardsOf(f, StructGuard(t)) = ByHand(f)  BY <1>1, <1>3, <2>2, <3>1, GivenByHand
    <3>3. guarded'[f] = GuardsOf(f, GuardFor(f, t))  BY <1>1, <1>2, <2>1, <2>2
    <3> QED  BY <1>1, <2>1, <2>2, <3>2, <3>3 DEF GuardFor
  <2>3. CASE i # next
    <3>1. i \in 1 .. next - 1 /\ i \in 1 .. Len(order)  BY <1>3, <2>3
    <3>2. f.of # t  BY <1>1, <1>3, <2>1, <2>3, <3>1, OrderIs
    <3>3. guarded'[f] = guarded[f]  BY <1>2, <2>1, <3>2
    <3>4. reports = {}  BY <1>1
    <3> QED  BY <3>1, <3>3, <3>4 DEF DeclInv, ReadAsByHand
  <2> QED  BY <2>2, <2>3
<1>7. LocksAsWritten'
  <2> SUFFICES ASSUME NEW f \in AllFields, IsReally(f.type), ~Unknown(f.of, f.type),
                      NEW g \in guarded'[f], g.path # <<>>
               PROVE  g \in OwnGuards(f)
    <3>1. ASSUME NEW f \in AllFields, NEW g \in OwnGuards(f), g.path # <<>>
          PROVE  g \in OwnGuards(f)'
      BY <1>1, <3>1, FoundStays
    <3> QED  BY <1>1, <3>1, SourceStays DEF LocksAsWritten
  <2>1. CASE guarded'[f] = guarded[f]  BY <2>1 DEF DeclInv, LocksAsWritten
  <2>2. CASE guarded'[f] = GuardsOf(f, GuardFor(f, t))
    <3> SUFFICES ASSUME g \in GuardFor(f, t), ~LeftOut(f, g)  PROVE FALSE
      BY <2>2 DEF GuardsOf
    <3>1. f.of = t  BY DEF GuardFor
    <3>2. IsLock(f.type)  BY <1>1, <1>3, <3>1, LocksAre
    <3> QED  BY <3>2 DEF LeftOut
  <2> QED  BY <1>2, <2>1, <2>2
<1>8. (guarded = [f \in AllFields |-> guarded[f]])'  BY <1>1, SourceStays
<1> QED  BY <1>4, <1>5, <1>6, <1>7, <1>8 DEF DeclInv

LEMMA DeclStutter ==
    ASSUME DeclInv, UNCHANGED declVars
    PROVE  DeclInv'
<1>1. package' = package /\ order' = order /\ next' = next /\ locks' = locks
      /\ guarded' = guarded /\ reports' = reports
  BY DEF declVars
<1>2. DeclSource'  BY <1>1 DEF DeclInv, DeclSource
<1>3. AllFields' = AllFields  BY <1>1, SourceStays
<1>4. ChainsRecorded'
  BY <1>1, <1>3 DEF DeclInv, ChainsRecorded, Chains, IsChain, IsLock, Last
<1>5. ReadAsByHand'  BY <1>1, SourceStays DEF DeclInv, ReadAsByHand
<1>6. LocksAsWritten'
  <2>1. ASSUME NEW f \in AllFields, NEW g \in OwnGuards(f), g.path # <<>>
        PROVE  g \in OwnGuards(f)'
    BY <1>1, <2>1, FoundStays
  <2> QED  BY <1>1, <2>1, SourceStays DEF DeclInv, LocksAsWritten
<1>7. (guarded = [f \in AllFields |-> guarded[f]])'  BY <1>1, <1>3 DEF DeclInv
<1> QED  BY <1>2, <1>4, <1>5, <1>6, <1>7 DEF DeclInv

LEMMA DeclInvIsInvariant == DeclSpec => []DeclInv
<1>1. DeclInv /\ [DeclNext]_declVars => DeclInv'
  BY ReadTypeKeeps, DeclStutter DEF DeclNext
<1> QED  BY DeclInitInv, <1>1, PTL DEF DeclSpec

\* The guards recorded of a field are chains of fields from its structure to a lock,
\* and only types that were declared locks and have been read are known as locks.
THEOREM DeclarationsTyped == DeclSpec => []DeclTypeOK
<1>1. ASSUME DeclInv  PROVE DeclTypeOK
  <2>1. DOMAIN guarded = AllFields  BY <1>1 DEF DeclInv
  <2>2. ASSUME NEW f \in AllFields, NEW g \in guarded[f]
        PROVE  IsChain(f.of, g.path) /\ (g.path = <<>> \/ IsReally(Last(g.path).type))
    <3>1. g.path \in Chains(f.of) /\ (g.path = <<>> \/ IsLock(Last(g.path).type))
      BY <1>1 DEF DeclInv, ChainsRecorded
    <3> QED  BY <1>1, <3>1, LocksAre DEF DeclInv, Chains
  <2> QED  BY <1>1, <2>1, <2>2 DEF DeclTypeOK, DeclInv, DeclSource
<1>2. DeclInv => DeclTypeOK  BY <1>1
<1> QED  BY <1>2, DeclInvIsInvariant, PTL

\* In a package that passes, in whatever order its types are declared, every field
\* has the guards that are written on it, or that of its structure.
THEOREM FieldsGuarded == DeclSpec => []FieldsAreGuarded
<1>1. ASSUME DeclInv  PROVE FieldsAreGuarded
  <2> SUFFICES ASSUME AllRead, reports = {}, NEW t \in Type \ Inline, NEW f \in FieldsOf(t),
                      ~Unknown(t, f.type)
               PROVE  guarded[f] = ByHand(f)
    BY DEF FieldsAreGuarded
  <2>1. DeclSource /\ ReadAsByHand  BY <1>1 DEF DeclInv
  <2>2. PICK i \in 1 .. Len(order) : order[i] = t  BY <2>1, OrderIs
  <2>3. next = Len(order) + 1 /\ Len(order) \in Nat
    <3>1. Len(order) \in Nat  BY <2>1, OrderIs
    <3>2. next \in 1 .. Len(order) + 1 /\ next > Len(order)  BY <2>1 DEF AllRead, DeclSource
    <3> QED  BY <3>1, <3>2
  <2>4. i \in 1 .. next - 1  BY <2>2, <2>3
  <2> QED  BY <2>1, <2>2, <2>4 DEF ReadAsByHand
<1>2. DeclInv => FieldsAreGuarded  BY <1>1
<1> QED  BY <1>2, DeclInvIsInvariant, PTL

LEMMA OneAtMost == \A n \in Nat : n <= 1 /\ n # 0 => n = 1
OBVIOUS

\* Where the locks are fields of the structure itself, the guard of the structure
\* makes no lock wait that the guards written on the fields let be taken.
THEOREM DirectSectionsEntered == DeclSpec => []DirectSectionsCanBeEntered
<1>1. ASSUME DeclInv  PROVE DirectSectionsCanBeEntered
  <2> SUFFICES ASSUME \A g \in Guards(guarded) : Len(g.path) <= 1,
                      \A f \in AllFields : ~Unknown(f.of, f.type),
                      AllEnterable(Written),
                      NEW S \in (SUBSET Guards(guarded)) \ {{}}
               PROVE  \E g \in S : \A f \in Range(g.path) : guarded[f] \cap S = {}
    BY DEF DirectSectionsCanBeEntered, SectionsCanBeEntered, AllEnterable
  <2> SUFFICES ASSUME \A g \in S : \E f \in Range(g.path) : guarded[f] \cap S # {}
               PROVE  FALSE
    OBVIOUS
  <2>1. ASSUME NEW g \in S
        PROVE  g.path # <<>> /\ \E f \in AllFields :
                  /\ Range(g.path) = {f}
                  /\ IsReally(f.type) /\ guarded[f] \cap S # {}
    <3>1. PICK e \in AllFields : g \in guarded[e]  BY <2>1 DEF Guards
    <3>2. g.path \in Seq(AllFields) /\ (g.path = <<>> \/ IsLock(Last(g.path).type)) /\ Len(g.path) <= 1
      BY <1>1, <2>1, <3>1 DEF DeclInv, ChainsRecorded, Chains
    <3>3. PICK f \in Range(g.path) : guarded[f] \cap S # {}  BY <2>1
    <3>4. g.path # <<>>  BY <3>3 DEF Range
    <3>5. Len(g.path) = 1
      <4>1. Len(g.path) \in Nat /\ Len(g.path) <= 1  BY <3>2
      <4>2. Len(g.path) # 0  BY <3>2, <3>4
      <4> QED  BY <4>1, <4>2, OneAtMost, Zenon
    <3>6. Range(g.path) = {g.path[1]} /\ Last(g.path) = g.path[1] /\ g.path[1] \in AllFields
      <4>1. DOMAIN g.path = {1}  BY <3>2, <3>5
      <4> QED  BY <3>2, <3>5, <4>1 DEF Range, Last
    <3>7. IsReally(g.path[1].type)  BY <1>1, <3>2, <3>4, <3>6, LocksAre DEF DeclInv
    <3> QED  BY <3>3, <3>4, <3>6, <3>7
  <2> DEFINE B == S \cap Guards(Written)
  <2>2. ASSUME NEW f \in AllFields, IsReally(f.type)
        PROVE  guarded[f] \cap S \subseteq Written[f] \cap B
    <3> SUFFICES ASSUME NEW g \in guarded[f] \cap S  PROVE g \in Written[f] \cap B  OBVIOUS
    <3>1. g \in OwnGuards(f)  BY <1>1, <2>1, <2>2 DEF DeclInv, LocksAsWritten
    <3>2. g \in Written[f]  BY <3>1 DEF Written
    <3> QED  BY <3>2 DEF Guards
  <2>3. B # {}
    <3>1. PICK g \in S : TRUE  OBVIOUS
    <3>2. PICK f \in AllFields : IsReally(f.type) /\ guarded[f] \cap S # {}  BY <2>1
    <3> QED  BY <2>2, <3>2
  <2>4. PICK g \in B : \A f \in Range(g.path) : Written[f] \cap B = {}
    <3>1. B \in (SUBSET Guards(Written)) \ {{}}  BY <2>3
    <3> HIDE DEF B
    <3> QED  BY <3>1 DEF AllEnterable
  <2>5. PICK f \in AllFields : Range(g.path) = {f} /\ IsReally(f.type) /\ guarded[f] \cap S # {}
    BY <2>1
  <2> HIDE DEF B
  <2> QED  BY <2>2, <2>4, <2>5
<1>2. DeclInv => DirectSectionsCanBeEntered  BY <1>1
<1> QED  BY <1>2, DeclInvIsInvariant, PTL
=============================================================================
