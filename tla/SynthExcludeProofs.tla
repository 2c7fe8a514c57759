------------------------- MODULE SynthExcludeProofs -------------------------
(***************************************************************************)
(* Proofs about SynthExclude, for every package, every order of its        *)
(* functions and every bound on the rounds: a derived exclusion is always  *)
(* of a lock the method takes, and when the rounds end by themselves every *)
(* lock a method takes is excluded of a caller that holds it for writing.  *)
(*                                                                         *)
(* The second rests on the comparison by size, which is sound for the set  *)
(* of the locks: what a method is found to take never shrinks (Grown), so  *)
(* a set of the same size is the same set.                                 *)
(***************************************************************************)
EXTENDS SynthExclude, TLAPS, FiniteSetTheorems

\* What is found is taken, in that mode.
Sound == \A m \in Method, l \in Lock :
            found[m][l] # "none" => m \in TakersOf(l, found[m][l])

\* Another look at a method finds every lock that is found already.
Grown == \A m \in Method : Taken(found[m]) \subseteq Taken(SelfLocksOf(m))

\* Another look at a method finds the same locks, though perhaps in another mode.
Same(m) == Taken(SelfLocksOf(m)) = Taken(found[m])
RoundSettled == stage = "rounds" /\ ~changed =>
                   \A i \in DOMAIN package.order : i < at => Same(package.order[i])
AllSettled == stage # "rounds" /\ round < MaxRounds => \A m \in Method : Same(m)

\* The derived exclusions are those of what is found now.
ExportsAreFound ==
    \A m \in Method, l \in Lock : DeclaredOf(m, l) # "excluded" =>
        excludes[m][l] = IF DeclaredOf(m, l) = "none" /\ m \in exported
                            /\ ~package.declared[m].ignore
                         THEN Conflicting(found[m][l]) ELSE {}
AllExported == Done => exported = Method

IInv == /\ package \in Programs /\ TypeOK
        /\ Sound /\ Grown /\ RoundSettled /\ AllSettled
        /\ ExportsAreFound /\ AllExported

-----------------------------------------------------------------------------
\* The bodies of a method are layers, so its operations are of Op.
LEMMA OpsAreOps ==
    ASSUME package \in Programs, NEW m \in Method
    PROVE  Ops(m) \subseteq Op
<1>1. package.code[m] \in Seq(Layer)  BY PackageAssumption DEF Package
<1>2. ASSUME NEW i \in DOMAIN package.code[m]  PROVE package.code[m][i].ops \subseteq Op
  <2>1. package.code[m][i] \in Layer
    <3> DEFINE code == package.code[m]
    <3>1. code \in Seq(Layer) /\ i \in DOMAIN code  BY <1>1, <1>2
    <3> HIDE DEF code
    <3>2. code[i] \in Layer  BY <3>1
    <3> QED  BY <3>2 DEF code
  <2> QED  BY <2>1 DEF Layer
<1> QED  BY <1>2 DEF Ops, Own

\* The modes of the operations of a method are modes.
LEMMA DirectModes ==
    ASSUME package \in Programs, NEW m \in Method, NEW l \in Lock
    PROVE  Direct(m, l) \subseteq Mode
<1>3. Ops(m) \subseteq Op  BY OpsAreOps
<1>4. ASSUME NEW o \in Op, o.do = "lock"  PROVE o.mode \in Mode
  BY <1>4 DEF Op
<1> QED  BY <1>3, <1>4 DEF Direct

\* A lock is found by a look at a method iff its body takes it or a method it
\* calls is found to take it.
LEMMA LooksAt ==
    ASSUME package \in Programs, found \in [Method -> [Lock -> Mode \cup {"none"}]],
           NEW m \in Method, NEW l \in Lock
    PROVE  /\ SelfLocksOf(m) \in [Lock -> Mode \cup {"none"}]
           /\ SelfLocksOf(m)[l] = Stronger(Direct(m, l) \cup {found[c][l] : c \in Callees(m)})
           /\ l \in Taken(SelfLocksOf(m)) <=>
                 \/ Direct(m, l) # {}
                 \/ \E c \in Callees(m) : found[c][l] # "none"
           /\ Callees(m) \subseteq Method
<1>1. Callees(m) \subseteq Method
  <2>3. Ops(m) \subseteq Op  BY OpsAreOps
  <2>4. ASSUME NEW o \in Op, o.do = "call"  PROVE o.of \in Method
    BY <2>4 DEF Op
  <2> QED  BY <2>3, <2>4 DEF Callees
<1> DEFINE modes == Direct(m, l) \cup {found[c][l] : c \in Callees(m)}
<1>2. modes \subseteq Mode \cup {"none"}
  <2>1. Direct(m, l) \subseteq Mode  BY DirectModes
  <2>2. ASSUME NEW c \in Callees(m)  PROVE found[c][l] \in Mode \cup {"none"}
    BY <1>1, <2>2
  <2> QED  BY <2>1, <2>2
<1>3. SelfLocksOf(m)[l] = Stronger(modes)  BY DEF SelfLocksOf
<1>4. SelfLocksOf(m) \in [Lock -> Mode \cup {"none"}]
  BY DEF SelfLocksOf, Stronger, Mode
<1>5. Stronger(modes) # "none" <=> "write" \in modes \/ "read" \in modes
  BY DEF Stronger
<1>6. Stronger(modes) # "none" <=> \E x \in modes : x # "none"
  BY <1>2, <1>5 DEF Mode
<1>7. (\E x \in modes : x # "none") <=>
         \/ Direct(m, l) # {}
         \/ \E c \in Callees(m) : found[c][l] # "none"
  <2>1. \A x \in Direct(m, l) : x # "none"
    BY DirectModes DEF Mode
  <2> QED  BY <2>1
<1> QED  BY <1>1, <1>3, <1>4, <1>6, <1>7 DEF Taken

\* What a look finds, in the mode it finds it in, is taken.
LEMMA LooksAtTaken ==
    ASSUME package \in Programs, found \in [Method -> [Lock -> Mode \cup {"none"}]], Sound,
           NEW m \in Method, NEW l \in Lock, SelfLocksOf(m)[l] # "none"
    PROVE  m \in TakersOf(l, SelfLocksOf(m)[l])
<1> DEFINE modes == Direct(m, l) \cup {found[c][l] : c \in Callees(m)}
           mode == SelfLocksOf(m)[l]
<1>1. mode = Stronger(modes) /\ mode # "none"  BY LooksAt
<1>2. mode \in modes
  BY <1>1 DEF Stronger
<1>3. SUFFICES ASSUME NEW S \in SUBSET Method, Closed(S, l, mode)  PROVE m \in S
  BY DEF TakersOf
<1>4. CASE mode \in Direct(m, l)  BY <1>3, <1>4 DEF Closed
<1>5. CASE \E c \in Callees(m) : found[c][l] = mode
  <2>1. PICK c \in Callees(m) : found[c][l] = mode  BY <1>5
  <2>2. c \in Method  BY LooksAt, <2>1
  <2>3. c \in TakersOf(l, mode)  BY <1>1, <2>1, <2>2 DEF Sound
  <2>4. c \in S  BY <1>3, <2>3 DEF TakersOf
  <2> QED  BY <1>3, <2>1, <2>4 DEF Closed
<1> QED  BY <1>2, <1>4, <1>5

\* When another look at any method finds the same locks, what is found is all
\* that is taken: the methods found to take a lock are closed under "calls".
LEMMA SettledIsAll ==
    ASSUME package \in Programs, found \in [Method -> [Lock -> Mode \cup {"none"}]],
           \A m \in Method : Same(m),
           NEW m \in Method, NEW l \in Lock, NEW mode \in Mode, m \in TakersOf(l, mode)
    PROVE  found[m][l] # "none"
<1> DEFINE S == {x \in Method : l \in Taken(found[x])}
<1>1. Closed(S, l, mode)
  <2> SUFFICES ASSUME NEW x \in Method, mode \in Direct(x, l) \/ Callees(x) \cap S # {}
               PROVE  x \in S
    BY DEF Closed
  <2>1. Direct(x, l) # {} \/ \E c \in Callees(x) : found[c][l] # "none"
    BY DEF Taken
  <2>2. l \in Taken(SelfLocksOf(x))  BY <2>1, LooksAt
  <2> QED  BY <2>2 DEF Same
<1>2. m \in S  BY <1>1 DEF TakersOf
<1> QED  BY <1>2 DEF Taken

\* The comparison by size, and what it does to what is found.
LEMMA SameSize ==
    ASSUME NEW A \in SUBSET Lock, NEW B \in SUBSET Lock, A \subseteq B,
           Cardinality(A) = Cardinality(B)
    PROVE  A = B
<1>1. IsFiniteSet(A) /\ IsFiniteSet(B)  BY LockAssumption, FS_Subset
<1> QED  BY <1>1, FS_Subset

-----------------------------------------------------------------------------
LEMMA InitInv == Init => IInv
<1> SUFFICES ASSUME Init PROVE IInv  OBVIOUS
<1> USE DEF Init
<1>1. package \in Programs  OBVIOUS
<1>2. TypeOK
  <2>1. found \in [Method -> [Lock -> Mode \cup {"none"}]]  BY DEF NoLocks
  <2>2. excludes \in [Method -> [Lock -> SUBSET Mode]]  OBVIOUS
  <2>3. round \in 0 .. MaxRounds /\ at \in Nat \ {0}  BY RoundAssumption
  <2> QED  BY <2>1, <2>2, <2>3 DEF TypeOK
<1>3. Sound /\ Grown  BY DEF Sound, Grown, NoLocks, Taken
<1>4. RoundSettled
  <2>1. package.order \in Seq(Method)  BY <1>1, PackageAssumption DEF Package
  <2>2. \A i \in DOMAIN package.order : ~(i < at)  BY <2>1
  <2> QED  BY <2>2 DEF RoundSettled
<1>5. AllSettled /\ ExportsAreFound /\ AllExported
  BY DEF AllSettled, ExportsAreFound, AllExported, Done, NoLocks
<1> QED  BY <1>1, <1>2, <1>3, <1>4, <1>5 DEF IInv

\* A look at a method in a round keeps the invariant.
LEMMA CollectKeeps == IInv /\ Collect => IInv'
<1> SUFFICES ASSUME IInv, Collect  PROVE IInv'  OBVIOUS
<1> USE DEF IInv
<1> DEFINE locks == SelfLocksOf(Current)
           new == Cardinality(Taken(locks)) # Cardinality(Taken(found[Current]))
<1>1. package.order \in Seq(Method) /\ at \in DOMAIN package.order /\ Current \in Method
  <2>1. package.order \in Seq(Method)  BY PackageAssumption DEF Package
  <2>2. at \in DOMAIN package.order  BY <2>1 DEF Collect, TypeOK
  <2> QED  BY <2>1, <2>2 DEF Current
<1>2. package' = package /\ stage' = stage /\ round' = round /\ exported' = exported
      /\ excludes' = excludes /\ stage = "rounds" /\ at' = at + 1 /\ at \in Nat \ {0}
  BY DEF Collect, TypeOK
<1>3. \A m \in Method, l \in Lock : Direct(m, l)' = Direct(m, l) /\ Callees(m)' = Callees(m)
  BY <1>2 DEF Direct, Callees, Ops, Own
<1>4. \A l, mode : TakersOf(l, mode)' = TakersOf(l, mode)
  BY <1>2 DEF TakersOf, Closed, Direct, Callees, Ops, Own
<1>5. found \in [Method -> [Lock -> Mode \cup {"none"}]]  BY DEF TypeOK
<1>6. locks \in [Lock -> Mode \cup {"none"}]  BY <1>1, <1>5, LooksAt DEF SelfLocksOf, Stronger, Mode
<1>7. found' = (IF new THEN [found EXCEPT ![Current] = locks] ELSE found)
      /\ changed' = (changed \/ new)
  BY DEF Collect
<1> HIDE DEF new, locks
<1>8. found' \in [Method -> [Lock -> Mode \cup {"none"}]]  BY <1>1, <1>5, <1>6, <1>7
<1>9. TypeOK'
  BY <1>2, <1>7, <1>8 DEF TypeOK, new
<1>10. Sound'
  <2> SUFFICES ASSUME NEW m \in Method, NEW l \in Lock, found'[m][l] # "none"
               PROVE  m \in TakersOf(l, found'[m][l])
    BY <1>4 DEF Sound
  <2>1. CASE new /\ m = Current
    <3>1. found'[m][l] = SelfLocksOf(m)[l]  BY <1>1, <1>5, <1>7, <2>1 DEF locks
    <3> QED  BY <1>5, <3>1, LooksAtTaken
  <2>2. CASE ~(new /\ m = Current)
    <3>1. found'[m] = found[m]  BY <1>5, <1>7, <2>2
    <3> QED  BY <3>1 DEF Sound
  <2> QED  BY <2>1, <2>2
<1>11. \A m \in Method : Taken(found[m]) \subseteq Taken(found'[m])
  <2> SUFFICES ASSUME NEW m \in Method PROVE Taken(found[m]) \subseteq Taken(found'[m])
    OBVIOUS
  <2>1. CASE new /\ m = Current
    <3>1. found'[m] = SelfLocksOf(m)  BY <1>1, <1>5, <1>7, <2>1 DEF locks
    <3> QED  BY <3>1 DEF Grown
  <2>2. CASE ~(new /\ m = Current)
    <3>1. found'[m] = found[m]  BY <1>5, <1>7, <2>2
    <3> QED  BY <3>1
  <2> QED  BY <2>1, <2>2
<1>12. ASSUME NEW m \in Method, NEW l \in Lock
       PROVE  l \in Taken(SelfLocksOf(m))' <=>
                 \/ Direct(m, l) # {}
                 \/ \E c \in Callees(m) : found'[c][l] # "none"
  <2>1. (/\ package \in Programs /\ found \in [Method -> [Lock -> Mode \cup {"none"}]]
         => (l \in Taken(SelfLocksOf(m)) <=>
                \/ Direct(m, l) # {}
                \/ \E c \in Callees(m) : found[c][l] # "none"))'
    BY LooksAt, PTL
  <2> QED  BY <1>2, <1>3, <1>8, <2>1
<1>13. Grown'
  <2> SUFFICES ASSUME NEW m \in Method, NEW l \in Taken(found'[m])
               PROVE  l \in Taken(SelfLocksOf(m))'
    BY DEF Grown
  <2>1. l \in Lock  BY DEF Taken
  <2>2. ASSUME l \in Taken(SelfLocksOf(m))  PROVE l \in Taken(SelfLocksOf(m))'
    <3>1. CASE Direct(m, l) # {}  BY <1>12, <2>1, <3>1
    <3>2. CASE \E c \in Callees(m) : found[c][l] # "none"
      <4>1. PICK c \in Callees(m) : found[c][l] # "none"  BY <3>2
      <4>2. c \in Method  BY <1>5, <2>1, <4>1, LooksAt
      <4>3. found'[c][l] # "none"  BY <1>11, <2>1, <4>1, <4>2 DEF Taken
      <4> QED  BY <1>12, <2>1, <4>1, <4>3
    <3> QED  BY <1>5, <2>1, <2>2, <3>1, <3>2, LooksAt
  <2>3. l \in Taken(SelfLocksOf(m))
    <3>1. CASE new /\ m = Current
      <4>1. found'[m] = SelfLocksOf(m)  BY <1>1, <1>5, <1>7, <3>1 DEF locks
      <4> QED  BY <4>1
    <3>2. CASE ~(new /\ m = Current)
      <4>1. found'[m] = found[m]  BY <1>5, <1>7, <3>2
      <4> QED  BY <4>1 DEF Grown
    <3> QED  BY <3>1, <3>2
  <2> QED  BY <2>2, <2>3
<1>14. RoundSettled'
  <2> SUFFICES ASSUME ~changed', NEW i \in DOMAIN package.order, i < at + 1
               PROVE  Same(package.order[i])'
    BY <1>2 DEF RoundSettled
  <2>1. ~changed /\ ~new /\ found' = found  BY <1>7
  <2>2. i \in Nat /\ (i < at \/ i = at)  BY <1>1, <1>2
  <2>3. Same(package.order[i])
    <3>1. CASE i < at  BY <1>2, <2>1, <3>1 DEF RoundSettled
    <3>2. CASE i = at
      <4>1. package.order[i] = Current  BY <3>2 DEF Current
      <4>2. Taken(found[Current]) \subseteq Taken(SelfLocksOf(Current))  BY <1>1 DEF Grown
      <4>3. Cardinality(Taken(SelfLocksOf(Current))) = Cardinality(Taken(found[Current]))
        BY <2>1 DEF new, locks
      <4>4. Taken(found[Current]) \in SUBSET Lock /\ Taken(SelfLocksOf(Current)) \in SUBSET Lock
        BY DEF Taken
      <4>5. Taken(found[Current]) = Taken(SelfLocksOf(Current))
        BY <4>2, <4>3, <4>4, SameSize
      <4> QED  BY <4>1, <4>5 DEF Same
    <3> QED  BY <2>2, <3>1, <3>2
  <2> QED  BY <1>2, <2>1, <2>3 DEF Same, SelfLocksOf, Direct, Callees, Ops, Own
<1>15. AllSettled' /\ AllExported'
  BY <1>2 DEF AllSettled, AllExported, Done
<1>16. ExportsAreFound'
  <2>1. exported = {}  BY <1>2 DEF TypeOK
  <2> QED  BY <1>2, <2>1 DEF ExportsAreFound, DeclaredOf
<1> QED  BY <1>2, <1>9, <1>10, <1>13, <1>14, <1>15, <1>16

\* The steps that leave what is found as it is leave what is said of it, too.
LEMMA FoundKept ==
    ASSUME package' = package, found' = found
    PROVE  /\ Sound' = Sound /\ Grown' = Grown
           /\ \A m : Same(m)' = Same(m)
           /\ \A m, l : DeclaredOf(m, l)' = DeclaredOf(m, l)
BY DEF Sound, Grown, Same, DeclaredOf, TakersOf, Closed, Direct, Callees, Ops, Own, SelfLocksOf

LEMMA NextInv == IInv /\ [Next]_vars => IInv'
<1> SUFFICES ASSUME IInv, [Next]_vars  PROVE IInv'  OBVIOUS
<1> USE DEF IInv
<1>1. CASE Collect  BY <1>1, CollectKeeps
<1>2. CASE EndRound
  <2>1. package' = package /\ found' = found /\ excludes' = excludes /\ exported' = exported
        /\ stage = "rounds" /\ round < MaxRounds /\ at' = 1 /\ changed' = FALSE
        /\ at > Len(package.order)
        /\ IF changed THEN round' = round + 1 /\ stage' = stage
                      ELSE stage' = "export" /\ round' = round
    BY <1>2 DEF EndRound
  <2>2. package.order \in Seq(Method) /\ {package.order[i] : i \in DOMAIN package.order} = Method
    BY PackageAssumption DEF Package
  <2>3. TypeOK'
    <3>1. round \in 0 .. MaxRounds /\ exported = {} /\ exported \in SUBSET Method
          /\ found \in [Method -> [Lock -> Mode \cup {"none"}]]
          /\ excludes \in [Method -> [Lock -> SUBSET Mode]]
      BY <2>1 DEF TypeOK
    <3>2. round' \in 0 .. MaxRounds /\ stage' \in {"rounds", "export", "done"}
      BY <2>1, <3>1, RoundAssumption
    <3>3. at' \in Nat \ {0} /\ changed' \in BOOLEAN
      <4>1. at' = 1 /\ changed' = FALSE  BY <2>1
      <4>2. changed' \in BOOLEAN  BY <4>1, Zenon
      <4> QED  BY <4>1, <4>2
    <3> HIDE DEF IInv
    <3> QED  BY <2>1, <3>1, <3>2, <3>3 DEF TypeOK
  <2>4. Sound' /\ Grown' /\ ExportsAreFound'
    <3>1. ExportsAreFound' = ExportsAreFound  BY <2>1, FoundKept DEF ExportsAreFound
    <3> QED  BY <2>1, <3>1, FoundKept
  <2>5. RoundSettled'
    <3>1. \A i \in DOMAIN package.order : ~(i < 1)  BY <2>2
    <3> QED  BY <2>1, <3>1 DEF RoundSettled
  <2>6. AllSettled'
    <3> SUFFICES ASSUME ~changed, NEW m \in Method  PROVE Same(m)'
      BY <2>1 DEF AllSettled
    <3>1. PICK i \in DOMAIN package.order : package.order[i] = m  BY <2>2
    <3>2. i < at  BY <2>1, <2>2 DEF TypeOK
    <3>3. Same(m)  BY <2>1, <3>1, <3>2 DEF RoundSettled
    <3> QED  BY <2>1, <3>3, FoundKept
  <2>7. AllExported'  BY <2>1 DEF AllExported, Done
  <2> QED  BY <2>1, <2>3, <2>4, <2>5, <2>6, <2>7
<1>3. CASE GiveUp
  <2>1. package' = package /\ found' = found /\ excludes' = excludes /\ exported' = exported
        /\ stage = "rounds" /\ stage' = "export" /\ round' = round /\ round >= MaxRounds
        /\ at' = at /\ changed' = changed
    BY <1>3 DEF GiveUp
  <2>2. TypeOK'  BY <2>1 DEF TypeOK
  <2>3. ExportsAreFound'  BY <2>1, FoundKept DEF ExportsAreFound
  <2>4. RoundSettled' /\ AllExported'  BY <2>1 DEF RoundSettled, AllExported, Done
  <2>5. AllSettled'
    <3>1. ~(round < MaxRounds)  BY <2>1, RoundAssumption DEF TypeOK
    <3> QED  BY <2>1, <3>1 DEF AllSettled
  <2> QED  BY <2>1, <2>2, <2>3, <2>4, <2>5, FoundKept
<1>4. ASSUME NEW m \in Method, Export(m)  PROVE IInv'
  <2>1. package' = package /\ found' = found /\ stage = "export" /\ stage' = stage
        /\ round' = round /\ at' = at /\ changed' = changed
        /\ m \notin exported /\ exported' = exported \cup {m}
        /\ excludes' = IF package.declared[m].ignore THEN excludes
                       ELSE [excludes EXCEPT ![m] = [l \in Lock |->
                               IF DeclaredOf(m, l) = "none" THEN Conflicting(found[m][l])
                               ELSE @[l]]]
    BY <1>4 DEF Export
  <2>2. TypeOK'
    <3>1. \A mode : Conflicting(mode) \in SUBSET Mode  BY DEF Conflicting, Mode
    <3>2. excludes' \in [Method -> [Lock -> SUBSET Mode]]
      BY <2>1, <3>1 DEF TypeOK
    <3> QED  BY <2>1, <3>2 DEF TypeOK
  <2>3. ExportsAreFound'
    <3> SUFFICES ASSUME NEW n \in Method, NEW l \in Lock, DeclaredOf(n, l) # "excluded"
                 PROVE  excludes'[n][l] = IF DeclaredOf(n, l) = "none" /\ n \in exported'
                                             /\ ~package.declared[n].ignore
                                          THEN Conflicting(found[n][l]) ELSE {}
      BY <2>1, FoundKept DEF ExportsAreFound
    <3>1. excludes[n][l] = IF DeclaredOf(n, l) = "none" /\ n \in exported
                              /\ ~package.declared[n].ignore
                           THEN Conflicting(found[n][l]) ELSE {}
      BY DEF ExportsAreFound
    <3>2. CASE n = m
      BY <2>1, <3>1, <3>2 DEF TypeOK
    <3>3. CASE n # m
      BY <2>1, <3>1, <3>3 DEF TypeOK
    <3> QED  BY <3>2, <3>3
  <2>4. RoundSettled' /\ AllExported'  BY <2>1 DEF RoundSettled, AllExported, Done
  <2>5. AllSettled'  BY <2>1, FoundKept DEF AllSettled
  <2> QED  BY <2>1, <2>2, <2>3, <2>4, <2>5, FoundKept
<1>5. CASE Finish
  <2>1. package' = package /\ found' = found /\ excludes' = excludes /\ exported' = exported
        /\ stage = "export" /\ stage' = "done" /\ round' = round /\ exported = Method
        /\ at' = at /\ changed' = changed
    BY <1>5 DEF Finish
  <2>2. TypeOK'  BY <2>1 DEF TypeOK
  <2>3. ExportsAreFound'  BY <2>1, FoundKept DEF ExportsAreFound
  <2>4. RoundSettled' /\ AllExported'  BY <2>1 DEF RoundSettled, AllExported, Done
  <2>5. AllSettled'  BY <2>1, FoundKept DEF AllSettled
  <2> QED  BY <2>1, <2>2, <2>3, <2>4, <2>5, FoundKept
<1>6. CASE UNCHANGED vars
  <2>1. package' = package /\ found' = found /\ excludes' = excludes /\ exported' = exported
        /\ stage' = stage /\ round' = round /\ at' = at /\ changed' = changed
    BY <1>6 DEF vars
  <2>2. TypeOK'  BY <2>1 DEF TypeOK
  <2>3. ExportsAreFound'  BY <2>1, FoundKept DEF ExportsAreFound
  <2>4. RoundSettled' /\ AllExported' /\ AllSettled'
    BY <2>1, FoundKept DEF RoundSettled, AllExported, AllSettled, Done
  <2> QED  BY <2>1, <2>2, <2>3, <2>4, FoundKept
<1> QED  BY <1>1, <1>2, <1>3, <1>4, <1>5, <1>6 DEF Next

LEMMA InductiveInv == Spec => []IInv
<1> QED  BY InitInv, NextInv, PTL DEF Spec

-----------------------------------------------------------------------------
(***************************************************************************)
(* The types, and that nothing is exported while the rounds go on.         *)
(***************************************************************************)
THEOREM TypesHold == Spec => []TypeOK
<1>1. IInv => TypeOK  BY DEF IInv
<1> QED  BY InductiveInv, <1>1, PTL

(***************************************************************************)
(* A call that is rejected for a derived exclusion would deadlock: the     *)
(* method can take the lock, in a conflicting mode, and nothing says that  *)
(* the lock is held on entry or on exit.                                   *)
(***************************************************************************)
THEOREM RejectionsAreReal == Spec => []NoFalseRejection
<1>1. IInv => NoFalseRejection
  <2> SUFFICES ASSUME IInv, NEW m \in Method, NEW l \in Lock, DeclaredOf(m, l) # "excluded",
                      NEW held \in excludes[m][l]
               PROVE  /\ DeclaredOf(m, l) = "none"
                      /\ \E mode \in Mode : m \in TakersOf(l, mode) /\ held \in Conflicting(mode)
    BY DEF NoFalseRejection
  <2>1. DeclaredOf(m, l) = "none" /\ held \in Conflicting(found[m][l])
    BY DEF IInv, ExportsAreFound
  <2>2. found[m][l] \in Mode
    BY <2>1 DEF IInv, TypeOK, Conflicting, Mode
  <2>3. m \in TakersOf(l, found[m][l])
    BY <2>2 DEF IInv, Sound, Mode
  <2> QED  BY <2>1, <2>2, <2>3
<1> QED  BY InductiveInv, <1>1, PTL

(***************************************************************************)
(* When the rounds end by themselves, a caller that holds a lock for       *)
(* writing is rejected by every method that takes the lock, in any mode,   *)
(* whatever the order the methods were visited in.                         *)
(***************************************************************************)
THEOREM WritersAreRejected == Spec => []WriterIsRejected
<1>1. IInv => WriterIsRejected
  <2> SUFFICES ASSUME IInv, Done, round < MaxRounds,
                      NEW m \in Method, NEW l \in Lock, NEW mode \in Mode,
                      m \in TakersOf(l, mode), DeclaredOf(m, l) = "none",
                      ~package.declared[m].ignore
               PROVE  "write" \in excludes[m][l]
    BY DEF WriterIsRejected
  <2>1. \A x \in Method : Same(x)  BY DEF IInv, AllSettled, Done
  <2>2. found[m][l] # "none"  BY <2>1, SettledIsAll DEF IInv, TypeOK
  <2>3. excludes[m][l] = Conflicting(found[m][l])
    BY DEF IInv, ExportsAreFound, AllExported
  <2>4. found[m][l] \in Mode  BY <2>2 DEF IInv, TypeOK
  <2> QED  BY <2>3, <2>4 DEF Conflicting, Mode
<1> QED  BY InductiveInv, <1>1, PTL
=============================================================================
