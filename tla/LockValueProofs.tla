-------------------------- MODULE LockValueProofs --------------------------
(***************************************************************************)
(* LockValue, for all sets of keys, handles and defers: it is well typed,  *)
(* aliasKey always ends, and every lock is recorded under a root.  First   *)
(* the lemmas about the operations of LockOps: each keeps the aliases a    *)
(* forest, so that aliasKey ends, and every lock under a root of it.  The  *)
(* proofs of LockState rest on them too.                                   *)
(***************************************************************************)
EXTENDS LockValue, TLAPS

\* The aliases of d are a forest and its locks are under roots.
Forest(aliases) == \A k \in Key : Reach(aliases, k) \cap Roots(aliases) # {}
Good(d) == /\ d \in Data
           /\ Forest(d.aliases)
           /\ \A k \in Key : d.locked[k] # "free" => k \in Roots(d.aliases)

-----------------------------------------------------------------------------
LEMMA AliasKeyIsRoot ==
    ASSUME NEW d, Good(d), NEW k \in Key
    PROVE  AliasKey(d, k) \in Key /\ AliasKey(d, k) \in Roots(d.aliases)
BY DEF Good, Forest, AliasKey, Reach

LEMMA LockKeyIsRoot ==
    ASSUME NEW d, Good(d), NEW v \in Key
    PROVE  LockKey(d, v) \in Key /\ LockKey(d, v) \in Roots(d.aliases)
<1>1. ValueAndObject(d, v) \in Key
  BY DEF Good, Data, ValueAndObject
<1>2. QED BY <1>1, AliasKeyIsRoot DEF LockKey

\* A root that becomes the child of another root leaves a forest a forest.
LEMMA LinkKeepsForest ==
    ASSUME NEW al \in [Key -> Key \cup {None}], Forest(al),
           NEW l \in Roots(al), NEW r \in Roots(al), l # r
    PROVE  Forest([al EXCEPT ![l] = r])
<1> DEFINE new == [al EXCEPT ![l] = r]
<1>0. /\ l \in Key /\ r \in Key /\ al[l] = None /\ new[l] = r /\ r # None
      /\ \A x \in Key : x # l => new[x] = al[x]
  BY NameAssumption DEF Roots
<1>1. SUFFICES ASSUME NEW k \in Key
               PROVE  Reach(new, k) \cap Roots(new) # {}
  BY DEF Forest
<1>2. Reach(al, k) \subseteq Reach(new, k)
  <2>1. ASSUME NEW S \in SUBSET Key, ClosedUnder(new, S)
        PROVE  ClosedUnder(al, S)
    BY <2>1, <1>0 DEF ClosedUnder
  <2>2. QED BY <2>1 DEF Reach
<1>3. PICK x \in Reach(al, k) : x \in Roots(al)
  BY DEF Forest
<1>4. CASE x # l
  <2>1. x \in Roots(new)
    BY <1>0, <1>3, <1>4 DEF Roots
  <2>2. QED BY <2>1, <1>2, <1>3
<1>5. CASE x = l
  <2>1. r \in Reach(new, k)
    <3>1. SUFFICES ASSUME NEW S \in SUBSET Key, k \in S, ClosedUnder(new, S)
                   PROVE  r \in S
      BY <1>0 DEF Reach
    <3>2. l \in S
      BY <3>1, <1>2, <1>3, <1>5 DEF Reach
    <3>3. QED BY <3>1, <3>2, <1>0 DEF ClosedUnder
  <2>2. r \in Roots(new)
    BY <1>0 DEF Roots
  <2>3. QED BY <2>1, <2>2
<1>6. QED BY <1>4, <1>5

-----------------------------------------------------------------------------
\* The value operations keep a good value good.
LEMMA EmptyIsGood == Good(EmptyData)
<1>1. EmptyData \in Data
  BY DEF EmptyData, Data
<1>2. ASSUME NEW k \in Key PROVE k \in Reach(EmptyData.aliases, k) \cap Roots(EmptyData.aliases)
  BY DEF Reach, Roots, EmptyData
<1>3. QED BY <1>1, <1>2 DEF Good, Forest, EmptyData

LEMMA SetModeIsGood ==
    ASSUME NEW d, Good(d), NEW v \in Key, NEW m \in {"free"} \cup Mode
    PROVE  Good([d EXCEPT !.locked[LockKey(d, v)] = m])
<1>1. LockKey(d, v) \in Key /\ LockKey(d, v) \in Roots(d.aliases)
  BY LockKeyIsRoot
<1> HIDE DEF LockKey
<1>2. QED BY <1>1 DEF Good, Data

LEMMA LockIsGood ==
    ASSUME NEW d, Good(d), NEW v \in Key, NEW m \in Mode
    PROVE  Good(Lock(d, v, m)) /\ Good(Unlock(d, v)) /\ Good(Downgrade(d, v))
BY SetModeIsGood DEF Lock, Unlock, Downgrade, Mode

LEMMA BindIsGood ==
    ASSUME NEW d, Good(d), NEW w \in Key
    PROVE  /\ \A a \in Addr : Good(StoreValue(d, a, w))
           /\ \A c \in Call : Good(SubstituteKey(d, c, w))
BY DEF Good, Data, StoreValue, SubstituteKey

LEMMA AliasIsGood ==
    ASSUME NEW d, Good(d), NEW v \in Key, NEW w \in Key, CanAlias(d, v, w)
    PROVE  Good(Alias(d, v, w))
<1> DEFINE l == LockKey(d, v)
           r == LockKey(d, w)
           m == IF "write" \in {d.locked[l], d.locked[r]} THEN "write" ELSE "read"
           al == [d.aliases EXCEPT ![l] = r]
           lk == IF d.locked[l] = "free" THEN d.locked
                 ELSE [d.locked EXCEPT ![r] = m, ![l] = "free"]
           e == [d EXCEPT !.aliases = al, !.locked = lk]
<1>1. /\ l \in Key /\ l \in Roots(d.aliases)
      /\ r \in Key /\ r \in Roots(d.aliases) /\ l # r
  BY LockKeyIsRoot DEF CanAlias
<1>2. Alias(d, v, w) = e
  BY DEF Alias, Good, Data
<1> HIDE DEF l, r
<1>3. Forest(al)
  BY <1>1, LinkKeepsForest DEF Good, Data
<1>4. al \in [Key -> Key \cup {None}] /\ lk \in [Key -> {"free"} \cup Mode]
  BY <1>1 DEF Good, Data, Mode
<1>5. \A k \in Key : lk[k] # "free" => k \in Roots(al)
  BY <1>1, <1>4 DEF Good, Data, Roots
<1> HIDE DEF al, lk
<1>6. e \in Data /\ e.aliases = al /\ e.locked = lk
  BY <1>4 DEF Good, Data
<1>7. QED BY <1>2, <1>3, <1>5, <1>6 DEF Good

-----------------------------------------------------------------------------
\* A key that is a child leads where its parent leads; a root leads nowhere.
LEMMA ReachOfChild ==
    ASSUME NEW al \in [Key -> Key \cup {None}], NEW x \in Key
    PROVE  /\ x \in Reach(al, x) /\ ClosedUnder(al, Reach(al, x)) /\ Reach(al, x) \subseteq Key
           /\ al[x] # None => Reach(al, x) \subseteq {x} \cup Reach(al, al[x])
           /\ al[x] = None => Reach(al, x) = {x}
<1>1. ASSUME NEW k \in Key
      PROVE  k \in Reach(al, k) /\ ClosedUnder(al, Reach(al, k)) /\ Reach(al, k) \subseteq Key
  BY DEF Reach, ClosedUnder
<1>2. ASSUME al[x] # None PROVE Reach(al, x) \subseteq {x} \cup Reach(al, al[x])
  <2> DEFINE S == {x} \cup Reach(al, al[x])
  <2>1. al[x] \in Key  BY <1>2
  <2>2. S \in SUBSET Key /\ x \in S /\ ClosedUnder(al, S)  BY <1>1, <2>1 DEF ClosedUnder
  <2> QED BY <2>2 DEF Reach
<1>3. ASSUME al[x] = None PROVE Reach(al, x) = {x}
  <2>1. {x} \in SUBSET Key /\ ClosedUnder(al, {x})  BY <1>3 DEF ClosedUnder
  <2> QED BY <1>1, <2>1 DEF Reach
<1> QED BY <1>1, <1>2, <1>3

\* There is one root at most: what a key leads to leads to each of its roots.
LEMMA OneRoot ==
    ASSUME NEW al \in [Key -> Key \cup {None}], NEW k \in Key,
           NEW r \in Reach(al, k) \cap Roots(al), NEW s \in Reach(al, k) \cap Roots(al)
    PROVE  r = s
<1> DEFINE S == {x \in Reach(al, k) : r \in Reach(al, x)}
<1>1. k \in S /\ S \in SUBSET Key  BY ReachOfChild
<1>2. ClosedUnder(al, S)
  <2> SUFFICES ASSUME NEW x \in S, al[x] # None PROVE al[x] \in S
    BY DEF ClosedUnder
  <2>1. x \in Key /\ x \in Reach(al, k) /\ r \in Reach(al, x)  BY <1>1
  <2>2. al[x] \in Reach(al, k)  BY <2>1, ReachOfChild DEF ClosedUnder
  <2>3. r # x  BY DEF Roots
  <2>4. r \in Reach(al, al[x])  BY <2>1, <2>3, ReachOfChild
  <2> QED BY <2>2, <2>4
<1> HIDE DEF S
<1>3. s \in S  BY <1>1, <1>2 DEF Reach
<1>4. Reach(al, s) = {s}  BY ReachOfChild DEF Roots
<1> QED BY <1>3, <1>4 DEF S

\* The root of a key, as the only one there is.
LEMMA AliasKeyIsTheRoot ==
    ASSUME NEW d, Good(d), NEW k \in Key, NEW r \in Reach(d.aliases, k) \cap Roots(d.aliases)
    PROVE  AliasKey(d, k) = r
<1>1. AliasKey(d, k) \in Reach(d.aliases, k) \cap Roots(d.aliases)  BY DEF AliasKey
<1> QED BY <1>1, OneRoot DEF Good, Data

\* What an alias does to the roots: those that were under l are under r.
LEMMA AliasMovesRoots ==
    ASSUME NEW d, Good(d), NEW e, Good(e), NEW l \in Roots(d.aliases), NEW r \in Roots(d.aliases),
           l # r, e.aliases = [d.aliases EXCEPT ![l] = r], NEW k \in Key
    PROVE  AliasKey(e, k) = IF AliasKey(d, k) = l THEN r ELSE AliasKey(d, k)
<1> DEFINE al == d.aliases
           new == e.aliases
           root == AliasKey(d, k)
<1>1. al \in [Key -> Key \cup {None}] /\ new \in [Key -> Key \cup {None}]  BY DEF Good, Data
<1>2. /\ l \in Key /\ r \in Key /\ al[l] = None /\ al[r] = None /\ new[l] = r /\ r # None
      /\ \A x \in Key : x # l => new[x] = al[x]
  BY <1>1, NameAssumption DEF Roots
<1>3. root \in Reach(al, k) /\ root \in Roots(al)
  BY DEF AliasKey, Good, Forest
<1>4. Reach(al, k) \subseteq Reach(new, k)
  <2>1. ASSUME NEW S \in SUBSET Key, ClosedUnder(new, S) PROVE ClosedUnder(al, S)
    BY <1>2, <2>1 DEF ClosedUnder
  <2> QED BY <2>1 DEF Reach
<1>5. CASE root # l
  <2>1. root \in Reach(new, k) /\ root \in Roots(new)  BY <1>2, <1>3, <1>4, <1>5 DEF Roots
  <2> QED BY <1>5, <2>1, AliasKeyIsTheRoot
<1>6. CASE root = l
  <2>1. r \in Reach(new, k)  BY <1>1, <1>2, <1>3, <1>4, <1>6, ReachOfChild DEF ClosedUnder
  <2>2. r \in Roots(new)  BY <1>2 DEF Roots
  <2> QED BY <1>6, <2>1, <2>2, AliasKeyIsTheRoot
<1> QED BY <1>5, <1>6

\* An alias makes two locks one, which is held as strongly as either was; it loses
\* no lock, weakens none and makes none held that neither name held.
LEMMA AliasKeepsModes ==
    ASSUME NEW d, Good(d), NEW v \in Key, NEW w \in Key, CanAlias(d, v, w),
           NEW k \in Key, NEW modes \in {Mode, {"write"}}
    PROVE  LET e == Alias(d, v, w) IN
           e.locked[AliasKey(e, k)] \in modes <=>
               \E j \in Key : /\ AliasKey(e, j) = AliasKey(e, k)
                              /\ d.locked[AliasKey(d, j)] \in modes
<1> DEFINE l == LockKey(d, v)
           r == LockKey(d, w)
           m == IF "write" \in {d.locked[l], d.locked[r]} THEN "write" ELSE "read"
           e == Alias(d, v, w)
           lk == IF d.locked[l] = "free" THEN d.locked
                 ELSE [d.locked EXCEPT ![r] = m, ![l] = "free"]
<1>1. l \in Roots(d.aliases) /\ r \in Roots(d.aliases) /\ l \in Key /\ r \in Key /\ l # r
  BY LockKeyIsRoot DEF CanAlias
<1>2. e.aliases = [d.aliases EXCEPT ![l] = r] /\ e.locked = lk
  BY DEF Alias, Good, Data
<1>3. Good(e)  BY AliasIsGood
<1> HIDE DEF e, l, r
<1>4. \A j \in Key : AliasKey(e, j) = IF AliasKey(d, j) = l THEN r ELSE AliasKey(d, j)
  BY <1>1, <1>2, <1>3, AliasMovesRoots
<1>5. AliasKey(d, l) = l /\ AliasKey(d, r) = r
  <2>1. d.aliases \in [Key -> Key \cup {None}]  BY DEF Good, Data
  <2> QED BY <1>1, <2>1, ReachOfChild, AliasKeyIsTheRoot DEF Roots
<1>6. \A j \in Key : AliasKey(d, j) \in Key  BY AliasKeyIsRoot
<1>7. d.locked \in [Key -> {"free"} \cup Mode]  BY DEF Good, Data
<1>8. lk[r] \in modes <=> d.locked[l] \in modes \/ d.locked[r] \in modes
  BY <1>1, <1>7 DEF Mode
<1>9. \A x \in Key : x \notin {l, r} => lk[x] = d.locked[x]
  BY <1>1, <1>7
<1> HIDE DEF lk
<1>10. CASE AliasKey(d, k) \in {l, r}
  <2>1. AliasKey(e, k) = r  BY <1>1, <1>4, <1>10
  <2>2. \A j \in Key : AliasKey(e, j) = r <=> AliasKey(d, j) \in {l, r}  BY <1>1, <1>4
  <2>3. (\E j \in Key : AliasKey(e, j) = r /\ d.locked[AliasKey(d, j)] \in modes)
          <=> d.locked[l] \in modes \/ d.locked[r] \in modes
    BY <1>1, <1>5, <2>2
  <2> QED BY <1>2, <1>8, <2>1, <2>3 DEF e
<1>11. CASE AliasKey(d, k) \notin {l, r}
  <2>1. AliasKey(e, k) = AliasKey(d, k)  BY <1>4, <1>11
  <2>2. \A j \in Key : AliasKey(e, j) = AliasKey(d, k) <=> AliasKey(d, j) = AliasKey(d, k)
    BY <1>4, <1>11
  <2>3. lk[AliasKey(d, k)] = d.locked[AliasKey(d, k)]  BY <1>6, <1>9, <1>11
  <2> QED BY <1>2, <2>1, <2>2, <2>3 DEF e
<1> QED BY <1>10, <1>11

-----------------------------------------------------------------------------
\* The inductive invariant of LockValue.  TypeOK alone is not inductive: the
\* key an operation writes under is a key only if aliasKey ends.
IInv == /\ TypeOK
        /\ \A h \in Open : Good(val[h].data)

-----------------------------------------------------------------------------
\* A step that replaces the data of one open handle by good data, and may
\* change its defers, keeps the invariant.
LEMMA ReplaceIsGood ==
    ASSUME IInv, NEW h \in Open, NEW e, Good(e), NEW s \in Seq(Deferred),
           val' = [val EXCEPT ![h] = [data |-> e, defers |-> s]], ret' \in Result
    PROVE  IInv'
<1>1. val[h] # None /\ val \in [Handle -> Value \cup {None}]
  BY DEF Open, IInv, TypeOK
<1>2. [data |-> e, defers |-> s] \in Value
  BY DEF Good, Value
<1>3. TypeOK'
  BY <1>1, <1>2 DEF TypeOK, Open
<1>4. \A g \in Open' : Good(val'[g].data)
  BY <1>1, <1>2 DEF Open, IInv
<1>5. QED BY <1>3, <1>4 DEF IInv

LEMMA ValueExcept ==
    ASSUME NEW v \in Value, NEW e, NEW s
    PROVE  /\ [v EXCEPT !.data = e] = [data |-> e, defers |-> v.defers]
           /\ [v EXCEPT !.defers = s] = [data |-> v.data, defers |-> s]
           /\ v.defers \in Seq(Deferred) /\ v.data \in Data
<1> HIDE DEF Data
<1> QED BY DEF Value

LEMMA UpdateIsGood ==
    ASSUME IInv, NEW h \in Open, NEW ok \in BOOLEAN, NEW e, ok => Good(e),
           NEW result \in Result, Update(h, ok, e, result)
    PROVE  IInv'
<1>1. val[h] \in Value /\ val \in [Handle -> Value \cup {None}] /\ h \in Handle
  BY DEF Open, IInv, TypeOK
<1>2. CASE ok
  <2>1. val' = [val EXCEPT ![h] = [data |-> e, defers |-> val[h].defers]]
    <3>1. val' = [val EXCEPT ![h] = [val[h] EXCEPT !.data = e]]
      BY <1>2 DEF Update
    <3>2. QED BY <3>1, <1>1, ValueExcept
  <2>2. val[h].defers \in Seq(Deferred) /\ ret' \in Result
    BY <1>1, ValueExcept DEF Update
  <2>3. QED BY <2>1, <2>2, <1>2, ReplaceIsGood
<1>3. CASE ~ok
  <2>1. val' = val /\ ret' \in Result
    BY <1>3 DEF Update
  <2>2. QED BY <2>1 DEF IInv, TypeOK, Open
<1>4. QED BY <1>2, <1>3

LEMMA InitIInv == Init => IInv
BY DEF Init, IInv, TypeOK, Open, Result

LEMMA NextIInv == IInv /\ [Next]_vars => IInv'
<1> SUFFICES ASSUME IInv, [Next]_vars PROVE IInv'
  OBVIOUS
<1> USE DEF Result
<1>0. \A h \in Open : Good(val[h].data) /\ h \in Handle /\ val[h] \in Value
  BY DEF IInv, TypeOK, Open
<1>1. ASSUME NEW h \in Handle, New(h) PROVE IInv'
  <2>1. [data |-> EmptyData, defers |-> <<>>] \in Value
    BY EmptyIsGood DEF Value, Good
  <2>2. TypeOK'
    BY <1>1, <2>1 DEF New, IInv, TypeOK
  <2>3. \A g \in Open' : Good(val'[g].data)
    BY <1>0, <1>1, EmptyIsGood DEF New, IInv, TypeOK, Open
  <2>4. QED BY <2>2, <2>3 DEF IInv
<1>2. ASSUME NEW h \in Handle, Drop(h) PROVE IInv'
  BY <1>0, <1>2 DEF Drop, IInv, TypeOK, Open
<1>3. ASSUME NEW h \in Handle, NEW g \in Handle, Fork(h, g) PROVE IInv'
  BY <1>0, <1>3 DEF Fork, IInv, TypeOK, Open
<1>4. ASSUME NEW h \in Handle, NEW v \in Key, NEW m \in Mode,
             LockField(h, v, m) \/ UnlockField(h, v, m)
      PROVE IInv'
  <2>1. h \in Open /\ CanLock(val[h].data, v) \in BOOLEAN
                   /\ CanUnlock(val[h].data, v, m) \in BOOLEAN
    BY <1>4 DEF LockField, UnlockField, CanLock, CanUnlock
  <2>2. Good(Lock(val[h].data, v, m)) /\ Good(Unlock(val[h].data, v))
    BY <2>1, <1>0, LockIsGood
  <2>3. QED BY <1>4, <2>1, <2>2, UpdateIsGood DEF LockField, UnlockField
<1>5. ASSUME NEW h \in Handle, NEW v \in Key, DowngradeField(h, v) PROVE IInv'
  <2>1. h \in Open /\ CanDowngrade(val[h].data, v) \in BOOLEAN
    BY <1>5 DEF DowngradeField, CanDowngrade
  <2>2. Good(Downgrade(val[h].data, v))
    BY <2>1, <1>0, LockIsGood DEF Mode
  <2>3. QED BY <1>5, <2>1, <2>2, UpdateIsGood DEF DowngradeField
<1>6. ASSUME NEW h \in Handle, NEW v \in Key, NEW w \in Key, AddAlias(h, v, w) PROVE IInv'
  <2>1. h \in Open /\ CanAlias(val[h].data, v, w) \in BOOLEAN
    BY <1>6 DEF AddAlias, CanAlias
  <2>2. CanAlias(val[h].data, v, w) => Good(Alias(val[h].data, v, w))
    BY <2>1, <1>0, AliasIsGood
  <2>3. QED BY <1>6, <2>1, <2>2, UpdateIsGood DEF AddAlias
<1>7. ASSUME NEW h \in Handle, NEW w \in Key,
             \/ \E a \in Addr : Store(h, a, w)
             \/ \E c \in Call : Substitute(h, c, w)
      PROVE IInv'
  <2>1. h \in Open
    BY <1>7 DEF Store, Substitute
  <2>2. QED BY <1>7, <2>1, <1>0, BindIsGood, UpdateIsGood DEF Store, Substitute
<1>8. ASSUME NEW h \in Handle, NEW v \in Key, NEW x \in BOOLEAN, IsHeldField(h, v, x)
      PROVE IInv'
  <2>1. h \in Open /\ IsHeld(val[h].data, v, x) \in Result
    BY <1>8 DEF IsHeldField, IsHeld
  <2>2. QED BY <1>8, <2>1, UpdateIsGood DEF IsHeldField
<1>9. ASSUME NEW h \in Handle, NEW g \in Handle, Compare(h, g) PROVE IInv'
  <2>1. h \in Open /\ IsCompatible(val[h].data, val[g].data) \in Result
    BY <1>9 DEF Compare, IsCompatible, IsSubset
  <2>2. QED BY <1>9, <2>1, UpdateIsGood DEF Compare
<1>10. ASSUME NEW h \in Handle, NEW i \in Deferred, PushDefer(h, i) PROVE IInv'
  <2>1. h \in Open /\ val[h].defers \in Seq(Deferred)
    BY <1>10, <1>0, ValueExcept DEF PushDefer
  <2>2. val' = [val EXCEPT ![h] = [data |-> val[h].data, defers |-> Append(val[h].defers, i)]]
    <3>1. val' = [val EXCEPT ![h] = [val[h] EXCEPT !.defers = Append(val[h].defers, i)]]
      BY <1>10 DEF PushDefer
    <3>2. QED BY <3>1, <1>0, <2>1, ValueExcept
  <2>3. Append(val[h].defers, i) \in Seq(Deferred) /\ ret' \in Result
    BY <1>10, <2>1 DEF PushDefer
  <2>4. QED BY <1>0, <2>1, <2>2, <2>3, ReplaceIsGood
<1>11. ASSUME NEW h \in Handle, PopDefer(h) PROVE IInv'
  <2> DEFINE s == val[h].defers
  <2>1. h \in Open /\ s \in Seq(Deferred)
    BY <1>11, <1>0, ValueExcept DEF PopDefer
  <2>2. CASE s = <<>>
    BY <1>11, <2>2 DEF PopDefer, IInv, TypeOK, Open
  <2>3. CASE s # <<>>
    <3>1. s[Len(s)] \in Deferred /\ SubSeq(s, 1, Len(s) - 1) \in Seq(Deferred)
      BY <2>1, <2>3
    <3>2. val' = [val EXCEPT ![h] = [data |-> val[h].data,
                                     defers |-> SubSeq(s, 1, Len(s) - 1)]]
      <4>1. val' = [val EXCEPT ![h] = [val[h] EXCEPT !.defers = SubSeq(s, 1, Len(s) - 1)]]
        BY <1>11, <2>3 DEF PopDefer
      <4>2. QED BY <4>1, <1>0, <2>1, ValueExcept
    <3>3. ret' \in Result
      BY <1>11, <2>3, <3>1 DEF PopDefer
    <3>4. QED BY <1>0, <2>1, <3>1, <3>2, <3>3, ReplaceIsGood
  <2>4. QED BY <2>2, <2>3
<1>12. CASE UNCHANGED vars
  BY <1>12 DEF vars, IInv, TypeOK, Open
<1>13. QED
  BY <1>1, <1>2, <1>3, <1>4, <1>5, <1>6, <1>7, <1>8, <1>9, <1>10, <1>11, <1>12 DEF Next

\* LockValue is well typed, aliasKey ends from every key of every state, and
\* every lock is recorded under a root.
THEOREM ValueInvariant == Spec => [](TypeOK /\ AliasKeyEnds /\ HeldUnderRoots)
<1>1. IInv => TypeOK /\ AliasKeyEnds /\ HeldUnderRoots
  BY DEF IInv, Good, Forest, AliasKeyEnds, HeldUnderRoots
<1>2. QED BY <1>1, InitIInv, NextIInv, PTL DEF Spec

\* Only an alias changes the aliases of a state that is open before and after.
LEMMA OnlyAliasing ==
    ASSUME IInv, Next, NEW g \in Open \cap Open', val'[g].data.aliases # val[g].data.aliases
    PROVE  \E v, w \in Key : CanAlias(val[g].data, v, w) /\ val'[g].data = Alias(val[g].data, v, w)
<1>1. /\ val \in [Handle -> Value \cup {None}] /\ g \in Handle
      /\ \A h \in Open : h \in Handle /\ val[h] \in Value /\ val[h].data \in Data
  BY DEF IInv, TypeOK, Open, Good
<1>2. PICK h \in Handle :
        \/ New(h) \/ Drop(h) \/ PopDefer(h)
        \/ \E f \in Handle : Fork(h, f) \/ Compare(h, f)
        \/ \E v \in Key, m \in Mode : LockField(h, v, m) \/ UnlockField(h, v, m)
        \/ \E v \in Key : DowngradeField(h, v)
        \/ \E v \in Key, x \in BOOLEAN : IsHeldField(h, v, x)
        \/ \E v, w \in Key : AddAlias(h, v, w)
        \/ \E v \in Addr, w \in Key : Store(h, v, w)
        \/ \E v \in Call, w \in Key : Substitute(h, v, w)
        \/ \E i \in Deferred : PushDefer(h, i)
  BY DEF Next
<1>3. ASSUME NEW d \in Data, NEW v, NEW w
      PROVE  /\ Lock(d, v, w).aliases = d.aliases /\ Unlock(d, v).aliases = d.aliases
             /\ Downgrade(d, v).aliases = d.aliases /\ StoreValue(d, v, w).aliases = d.aliases
             /\ SubstituteKey(d, v, w).aliases = d.aliases
  <2> HIDE DEF LockKey
  <2> QED BY DEF Data, Lock, Unlock, Downgrade, StoreValue, SubstituteKey
<1>4. ASSUME NEW ok, NEW e, NEW x, Update(h, ok, e, x)
      PROVE  ok /\ h = g /\ val'[g].data = e /\ e.aliases # val[g].data.aliases
  BY <1>1, <1>4 DEF Update, Open, Value
<1>5. ~New(h) /\ ~Drop(h) /\ ~PopDefer(h) /\ ~\E i \in Deferred : PushDefer(h, i)
  BY <1>1 DEF New, Drop, PopDefer, PushDefer, Open, Value
<1>6. ~\E f \in Handle : Fork(h, f) \/ Compare(h, f)
  BY <1>1, <1>4 DEF Fork, Compare, Open
<1>7. ~\E v \in Key, m \in Mode : LockField(h, v, m) \/ UnlockField(h, v, m)
  BY <1>1, <1>3, <1>4 DEF LockField, UnlockField
<1>8. ~\E v \in Key : DowngradeField(h, v)
  BY <1>1, <1>3, <1>4 DEF DowngradeField
<1>9. ~\E v \in Key, x \in BOOLEAN : IsHeldField(h, v, x)
  BY <1>4 DEF IsHeldField
<1>10. ~\E v \in Addr, w \in Key : Store(h, v, w)
  <2> SUFFICES ASSUME NEW v \in Addr, NEW w \in Key, Store(h, v, w) PROVE FALSE
    OBVIOUS
  <2>1. h \in Open /\ Update(h, TRUE, StoreValue(val[h].data, v, w), None)  BY DEF Store
  <2>2. StoreValue(val[h].data, v, w).aliases = val[h].data.aliases  BY <1>1, <1>3, <2>1
  <2> QED BY <1>4, <2>1, <2>2
<1>11. ~\E v \in Call, w \in Key : Substitute(h, v, w)
  <2> SUFFICES ASSUME NEW v \in Call, NEW w \in Key, Substitute(h, v, w) PROVE FALSE
    OBVIOUS
  <2>1. h \in Open /\ Update(h, TRUE, SubstituteKey(val[h].data, v, w), None)  BY DEF Substitute
  <2>2. SubstituteKey(val[h].data, v, w).aliases = val[h].data.aliases  BY <1>1, <1>3, <2>1
  <2> QED BY <1>4, <2>1, <2>2
<1>12. PICK v \in Key, w \in Key : AddAlias(h, v, w)
  BY <1>2, <1>5, <1>6, <1>7, <1>8, <1>9, <1>10, <1>11
<1> QED BY <1>4, <1>12 DEF AddAlias

\* Recording that two names are one lock loses no lock, weakens none and makes
\* none held that neither name held, in every state of every path.
THEOREM AliasLosesNothing == Spec => AliasKeepsLocks
<1>1. ASSUME IInv, [Next]_vars
      PROVE  [\A h \in Open \cap Open' :
             LET old  == val[h].data
                 new  == val'[h].data
                 was  == [k \in Key |-> old.locked[AliasKey(old, k)]]
                 root == [k \in Key |-> AliasKey(new, k)]
             IN  new.aliases # old.aliases =>
                   \A k \in Key, modes \in {Mode, {"write"}} :
                     new.locked[root[k]] \in modes <=>
                         \E j \in Key : root[j] = root[k] /\ was[j] \in modes]_vars
  <2>0. SUFFICES ASSUME Next, NEW g \in Open \cap Open', val'[g].data.aliases # val[g].data.aliases,
                      NEW k \in Key, NEW modes \in {Mode, {"write"}}
               PROVE  val'[g].data.locked[AliasKey(val'[g].data, k)] \in modes <=>
                        \E j \in Key : /\ AliasKey(val'[g].data, j) = AliasKey(val'[g].data, k)
                                       /\ val[g].data.locked[AliasKey(val[g].data, j)] \in modes
    BY <1>1
  <2>1. PICK v \in Key, w \in Key :
          CanAlias(val[g].data, v, w) /\ val'[g].data = Alias(val[g].data, v, w)
    BY <1>1, <2>0, OnlyAliasing
  <2>2. Good(val[g].data)  BY <1>1 DEF IInv
  <2> DEFINE d == val[g].data
  <2> HIDE DEF d
  <2> QED BY <2>1, <2>2, AliasKeepsModes DEF d
<1> QED BY <1>1, InitIInv, NextIInv, PTL DEF Spec, AliasKeepsLocks
=============================================================================
