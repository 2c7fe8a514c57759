-------------------------- MODULE LockStateProofs --------------------------
(***************************************************************************)
(* LockState implements LockValue, for every finite set of handles and all *)
(* sets of cells, keys and defers: whatever is forked, dropped and written *)
(* in whatever order, a handle sees the value it would see if fork copied. *)
(***************************************************************************)
EXTENDS LockState, FiniteSetTheorems, SequenceTheorems, TLAPS

\* The value of each handle, as the refinement mapping gives it to LockValue.
V == [h \in Handle |-> IF h \in Open THEN [data |-> Content(h), defers |-> Defers(h)]
                       ELSE None]

\* The aliases of d are a forest and its locks are under roots.
Forest(aliases) == \A k \in Key : Reach(aliases, k) \cap Roots(aliases) # {}
Good(d) == /\ d \in Data
           /\ Forest(d.aliases)
           /\ \A k \in Key : d.locked[k] # "free" => k \in Roots(d.aliases)

\* The inductive invariant.  What justifies an assignment in place is the third
\* conjunct: a cell counted once has one sharer.  popDefer is justified by the
\* fourth: a handle reads its own prefix of the array only.
IInv == /\ TypeOK
        /\ \A c \in Live(handle) : Good(heap[c].data)
        /\ \A c \in Live(handle) : heap[c].refs >= Cardinality(Sharers(c))
        /\ \A h \in Open : handle[h].n <= Len(heap[handle[h].cell].array)

-----------------------------------------------------------------------------
(***************************************************************************)
(* The operations of LockOps on data that is good, as LockValueProofs has  *)
(* them: its copies of the operations, it is instantiated, are these.      *)
(***************************************************************************)
OfValue == INSTANCE LockValueProofs WITH val <- V

LEMMA SameKey ==
    ASSUME NEW d, NEW v
    PROVE  /\ OfValue!LockKey(d, v) = LockKey(d, v)
           /\ OfValue!AliasKey(d, v) = AliasKey(d, v)
BY DEF OfValue!LockKey, LockKey, OfValue!AliasKey, AliasKey, OfValue!Reach, Reach,
       OfValue!Roots, Roots, OfValue!ClosedUnder, ClosedUnder,
       OfValue!ValueAndObject, ValueAndObject

LEMMA SameGood ==
    ASSUME NEW d
    PROVE  OfValue!Good(d) <=> Good(d)
BY DEF OfValue!Good, Good, OfValue!Forest, Forest, OfValue!Reach, Reach, OfValue!Roots, Roots,
       OfValue!ClosedUnder, ClosedUnder, OfValue!Data, Data, OfValue!Mode, Mode

LEMMA SameOperations ==
    ASSUME NEW d, NEW v, NEW w, NEW m
    PROVE  /\ OfValue!Lock(d, v, m) = Lock(d, v, m) /\ OfValue!Unlock(d, v) = Unlock(d, v)
           /\ OfValue!Downgrade(d, v) = Downgrade(d, v)
           /\ OfValue!CanAlias(d, v, w) = CanAlias(d, v, w)
           /\ OfValue!Alias(d, v, w) = Alias(d, v, w)
           /\ OfValue!StoreValue(d, v, w) = StoreValue(d, v, w)
           /\ OfValue!SubstituteKey(d, v, w) = SubstituteKey(d, v, w)
           /\ OfValue!EmptyData = EmptyData /\ OfValue!Mode = Mode
<1> HIDE DEF LockKey
<1> QED
  BY SameKey
  DEF OfValue!Lock, Lock, OfValue!Unlock, Unlock, OfValue!Downgrade, Downgrade,
      OfValue!CanAlias, CanAlias, OfValue!Alias, Alias, OfValue!StoreValue, StoreValue,
      OfValue!SubstituteKey, SubstituteKey, OfValue!EmptyData, EmptyData, OfValue!Mode, Mode

LEMMA EmptyIsGood == Good(EmptyData)
BY OfValue!EmptyIsGood, NameAssumption, SameGood, SameOperations

LEMMA LockIsGood ==
    ASSUME NEW d, Good(d), NEW v \in Key, NEW m \in Mode
    PROVE  Good(Lock(d, v, m)) /\ Good(Unlock(d, v)) /\ Good(Downgrade(d, v))
BY OfValue!LockIsGood, NameAssumption, SameGood, SameOperations

LEMMA BindIsGood ==
    ASSUME NEW d, Good(d), NEW w \in Key
    PROVE  /\ \A a \in Addr : Good(StoreValue(d, a, w))
           /\ \A c \in Call : Good(SubstituteKey(d, c, w))
BY OfValue!BindIsGood, NameAssumption, SameGood, SameOperations

LEMMA AliasIsGood ==
    ASSUME NEW d, Good(d), NEW v \in Key, NEW w \in Key, CanAlias(d, v, w)
    PROVE  Good(Alias(d, v, w))
BY OfValue!AliasIsGood, NameAssumption, SameGood, SameOperations

LEMMA AliasKeepsModes ==
    ASSUME NEW d, Good(d), NEW v \in Key, NEW w \in Key, CanAlias(d, v, w),
           NEW k \in Key, NEW modes \in {Mode, {"write"}}
    PROVE  LET e == Alias(d, v, w) IN
           e.locked[AliasKey(e, k)] \in modes <=>
               \E j \in Key : /\ AliasKey(e, j) = AliasKey(e, k)
                              /\ d.locked[AliasKey(d, j)] \in modes
BY OfValue!AliasKeepsModes, NameAssumption, SameGood, SameOperations, SameKey

-----------------------------------------------------------------------------
LEMMA SharersFinite ==
    ASSUME NEW c PROVE IsFiniteSet(Sharers(c)) /\ Cardinality(Sharers(c)) \in Nat
<1>1. Sharers(c) \subseteq Handle
  BY DEF Sharers
<1>2. QED BY <1>1, HandleAssumption, FS_Subset, FS_CardinalityType

\* What an open handle's cell is.
LEMMA OpenHandle ==
    ASSUME IInv, NEW h \in Open
    PROVE  /\ h \in Handle /\ handle[h].cell \in Cell /\ handle[h].n \in Nat
           /\ handle[h].cell \in Live(handle) /\ h \in Sharers(handle[h].cell)
           /\ handle[h].cell # None /\ handle[h] = [cell |-> handle[h].cell, n |-> handle[h].n]
           /\ heap[handle[h].cell] \in [data : Data, array : Seq(Deferred), refs : Nat]
           /\ Good(Content(h))
           /\ Defers(h) \in Seq(Deferred) /\ Len(Defers(h)) = handle[h].n
           /\ heap[handle[h].cell].refs \in Nat \ {0}
<1> HIDE DEF Data
<1>1. /\ h \in Handle /\ handle[h].cell \in Cell /\ handle[h].n \in Nat
      /\ handle[h].cell \in Live(handle) /\ h \in Sharers(handle[h].cell)
      /\ handle[h].cell # None /\ handle[h] = [cell |-> handle[h].cell, n |-> handle[h].n]
  BY DEF IInv, TypeOK, Open, Live, Sharers
<1>2. /\ heap[handle[h].cell] \in [data : Data, array : Seq(Deferred), refs : Nat]
      /\ Good(Content(h))
  BY <1>1 DEF IInv, TypeOK, Content
<1>3. Defers(h) \in Seq(Deferred) /\ Len(Defers(h)) = handle[h].n
  <2>1. handle[h].n <= Len(heap[handle[h].cell].array)
    BY DEF IInv
  <2>2. heap[handle[h].cell].array \in Seq(Deferred)
    BY <1>2
  <2>3. QED BY <1>1, <2>1, <2>2, SubSeqProperties DEF Defers
<1>4. heap[handle[h].cell].refs \in Nat \ {0}
  <2>1. Cardinality(Sharers(handle[h].cell)) # 0
    BY <1>1, SharersFinite, FS_EmptySet
  <2>2. QED BY <1>1, <1>2, <2>1, SharersFinite DEF IInv
<1>5. QED BY <1>1, <1>2, <1>3, <1>4

\* A cell counted once is seen by one handle.
LEMMA CountedOnce ==
    ASSUME IInv, NEW h \in Open, heap[handle[h].cell].refs <= 1
    PROVE  Sharers(handle[h].cell) = {h}
<1> DEFINE S == Sharers(handle[h].cell)
<1>1. h \in S /\ IsFiniteSet(S) /\ Cardinality(S) \in Nat /\ Cardinality(S) <= 1
  <2>1. /\ h \in S /\ handle[h].cell \in Live(handle)
        /\ heap[handle[h].cell].refs \in Nat \ {0}
    BY OpenHandle
  <2>2. heap[handle[h].cell].refs >= Cardinality(S)
    BY <2>1 DEF IInv
  <2>3. IsFiniteSet(S) /\ Cardinality(S) \in Nat
    BY SharersFinite
  <2> HIDE DEF S
  <2>4. QED BY <2>1, <2>2, <2>3
<1>2. IsFiniteSet(S \ {h}) /\ Cardinality(S \ {h}) = Cardinality(S) - 1
  BY <1>1, FS_RemoveElement
<1>3. Cardinality(S \ {h}) = 0
  BY <1>1, <1>2, FS_CardinalityType
<1>4. S \ {h} = {}
  BY <1>2, <1>3, FS_EmptySet
<1>5. QED BY <1>1, <1>4

\* append writes one element of the array and extends what a prefix shows by it.
LEMMA AppendAtPrefix ==
    ASSUME NEW array \in Seq(Deferred), NEW n \in Nat, n <= Len(array), NEW i \in Deferred
    PROVE  /\ AppendAt(array, n, i) \in Seq(Deferred)
           /\ n + 1 <= Len(AppendAt(array, n, i))
           /\ SubSeq(AppendAt(array, n, i), 1, n + 1) = Append(SubSeq(array, 1, n), i)
<1> DEFINE new == AppendAt(array, n, i)
<1>1. new \in Seq(Deferred) /\ n + 1 <= Len(new) /\ new[n + 1] = i
      /\ \A k \in 1 .. n : new[k] = array[k]
  <2>1. CASE n < Len(array)
    <3>1. n + 1 \in 1 .. Len(array)
      BY <2>1
    <3>2. new = [array EXCEPT ![n + 1] = i]
      BY <2>1 DEF AppendAt
    <3>3. /\ new \in Seq(Deferred) /\ Len(new) = Len(array)
          /\ \A k \in 1 .. Len(array) : new[k] = IF k = n + 1 THEN i ELSE array[k]
      BY <3>1, <3>2, ExceptSeq
    <3> HIDE DEF new
    <3>4. QED BY <2>1, <3>1, <3>3
  <2>2. CASE n = Len(array)
    BY <2>2, AppendProperties DEF AppendAt
  <2>3. QED BY <2>1, <2>2
<1> HIDE DEF new
<1>2. Len(array) \in Nat /\ Len(new) \in Nat
  BY <1>1
<1>3. /\ SubSeq(new, 1, n + 1) \in Seq(Deferred) /\ Len(SubSeq(new, 1, n + 1)) = n + 1
      /\ \A k \in 1 .. n + 1 : SubSeq(new, 1, n + 1)[k] = new[k]
  BY <1>1, <1>2
<1>4. /\ SubSeq(array, 1, n) \in Seq(Deferred) /\ Len(SubSeq(array, 1, n)) = n
      /\ \A k \in 1 .. n : SubSeq(array, 1, n)[k] = array[k]
  BY <1>2
<1>5. /\ Append(SubSeq(array, 1, n), i) \in Seq(Deferred)
      /\ Len(Append(SubSeq(array, 1, n), i)) = n + 1
      /\ \A k \in 1 .. n : Append(SubSeq(array, 1, n), i)[k] = array[k]
      /\ Append(SubSeq(array, 1, n), i)[n + 1] = i
  BY <1>4, AppendProperties
<1>6. SubSeq(new, 1, n + 1) = Append(SubSeq(array, 1, n), i)
  BY <1>1, <1>3, <1>5, SeqEqual
<1>7. QED BY <1>1, <1>6 DEF new

-----------------------------------------------------------------------------
(***************************************************************************)
(* What the two writes of lockState do to the values: modify, followed by  *)
(* an assignment, replaces the value of one handle and no other.           *)
(***************************************************************************)
\* "push" is one deferred instruction or none.
Pushes == {<<>>} \cup {<<i>> : i \in Deferred}

\* The record Write puts into the heap.
Pushed(array, n, push) == IF push = <<>> THEN array ELSE AppendAt(array, n, push[1])

LEMMA PushedPrefix ==
    ASSUME NEW array \in Seq(Deferred), NEW n \in Nat, n <= Len(array), NEW push \in Pushes
    PROVE  /\ Pushed(array, n, push) \in Seq(Deferred)
           /\ Len(push) \in Nat /\ n + Len(push) <= Len(Pushed(array, n, push))
           /\ SubSeq(Pushed(array, n, push), 1, n + Len(push)) = SubSeq(array, 1, n) \o push
<1>0. SubSeq(array, 1, n) \in Seq(Deferred)
  BY SubSeqProperties
<1>1. CASE push = <<>>
  BY <1>0, <1>1, ConcatEmptySeq DEF Pushed
<1>2. CASE push # <<>>
  <2>1. PICK i \in Deferred : push = <<i>>
    BY <1>2 DEF Pushes
  <2>2. Pushed(array, n, push) = AppendAt(array, n, i) /\ Len(push) = 1
    BY <2>1 DEF Pushed
  <2>3. Append(SubSeq(array, 1, n), i) = SubSeq(array, 1, n) \o push
    BY <1>0, <2>1, AppendIsConcat
  <2>4. AppendAt(array, n, i) \in Seq(Deferred) /\ n + 1 <= Len(AppendAt(array, n, i))
        /\ SubSeq(AppendAt(array, n, i), 1, n + 1) = Append(SubSeq(array, 1, n), i)
    BY AppendAtPrefix
  <2> DEFINE p == Pushed(array, n, push)
  <2>5. p \in Seq(Deferred) /\ Len(push) = 1 /\ n + 1 <= Len(p)
        /\ SubSeq(p, 1, n + 1) = SubSeq(array, 1, n) \o push
    BY <2>2, <2>3, <2>4
  <2> HIDE DEF p
  <2>6. p \in Seq(Deferred) /\ Len(push) \in Nat /\ n + Len(push) <= Len(p)
        /\ SubSeq(p, 1, n + Len(push)) = SubSeq(array, 1, n) \o push
    BY <2>5
  <2>7. QED BY <2>6 DEF p
<1>3. QED BY <1>1, <1>2

LEMMA CellExcept ==
    ASSUME NEW r \in [data : Data, array : Seq(Deferred), refs : Nat], NEW x
    PROVE  [r EXCEPT !.refs = x] = [data |-> r.data, array |-> r.array, refs |-> x]
<1> HIDE DEF Data
<1> QED OBVIOUS

\* modify when the cell is counted once: assignment in place.
LEMMA ModifyInPlace ==
    ASSUME IInv, NEW h \in Open, NEW e, Good(e), NEW push \in Pushes,
           heap[handle[h].cell].refs <= 1, Modify(h, e, push), ret' \in BOOLEAN \cup Deferred \cup {None}
    PROVE  IInv' /\ V' = [V EXCEPT ![h] = [data |-> e, defers |-> Defers(h) \o push]]
<1> DEFINE c == handle[h].cell
           n == handle[h].n
           array == Pushed(heap[c].array, n, push)
<1> HIDE DEF Data
<1>1. /\ h \in Handle /\ c \in Cell /\ n \in Nat /\ c \in Live(handle) /\ c # None
      /\ heap[c] \in [data : Data, array : Seq(Deferred), refs : Nat]
      /\ heap[c].refs = 1 /\ n <= Len(heap[c].array)
  <2>1. n <= Len(heap[c].array)
    BY DEF IInv
  <2>2. heap[c].refs \in Nat \ {0} /\ heap[c].refs <= 1
    BY OpenHandle
  <2>3. heap[c].refs = 1
    BY <2>2
  <2>4. QED BY <2>1, <2>3, OpenHandle
<1>2. Sharers(c) = {h}
  BY CountedOnce
<1>3. /\ array \in Seq(Deferred) /\ Len(push) \in Nat /\ n + Len(push) <= Len(array)
      /\ SubSeq(array, 1, n + Len(push)) = Defers(h) \o push
  BY <1>1, PushedPrefix DEF Defers
<1> DEFINE hd == [handle EXCEPT ![h] = [cell |-> c, n |-> n + Len(push)]]
           hp == [heap EXCEPT ![c] = [data |-> e, refs |-> 1, array |-> array]]
<1>4. Commit(hd, hp)
  BY <1>1 DEF Modify, Write, Pushed
<1>5. handle \in [Handle -> [cell : Cell \cup {None}, n : Nat]] /\ heap \in [Cell -> [data : Data, array : Seq(Deferred), refs : Nat]]
  BY DEF IInv, TypeOK
<1> HIDE DEF array, c, n
<1>6. /\ handle' = hd
      /\ handle'[h] = [cell |-> c, n |-> n + Len(push)]
      /\ \A g \in Handle : g # h => handle'[g] = handle[g]
      /\ \A g \in Handle : handle'[g].cell = handle[g].cell
  BY <1>1, <1>4, <1>5 DEF Commit, c
<1>7. Open' = Open /\ Live(handle') = Live(handle) /\ \A d : Sharers(d)' = Sharers(d)
  BY <1>6 DEF Open, Live, Sharers
<1>8. /\ heap'[c] = [data |-> e, refs |-> 1, array |-> array]
      /\ \A d \in Live(handle) : d # c => heap'[d] = heap[d]
      /\ heap' \in [Cell -> [data : Data, array : Seq(Deferred), refs : Nat]]
  <2>1. heap' = [d \in Cell |-> IF d \in Live(handle) THEN hp[d] ELSE NoCell]
    BY <1>4, <1>7 DEF Commit
  <2>2. Live(handle) \subseteq Cell
    BY <1>5 DEF Live
  <2>3. NoCell \in [data : Data, array : Seq(Deferred), refs : Nat]
    BY EmptyIsGood DEF NoCell, Good
  <2>4. e \in Data
    BY DEF Good
  <2>5. QED BY <1>1, <1>3, <1>5, <2>1, <2>2, <2>3, <2>4
<1>9. \A g \in Open : g # h => handle[g].cell # c /\ handle[g].cell \in Live(handle)
  BY <1>2 DEF Sharers, Open, Live
<1>10. handle' \in [Handle -> [cell : Cell \cup {None}, n : Nat]]
  BY <1>1, <1>3, <1>5, <1>6
<1>11. IInv'
  <2>1. TypeOK'
    BY <1>8, <1>10 DEF TypeOK
  <2>2. \A d \in Live(handle') : Good(heap'[d].data)
    BY <1>7, <1>8 DEF IInv
  <2>3. \A d \in Live(handle') : heap'[d].refs >= Cardinality(Sharers(d)')
    BY <1>1, <1>7, <1>8 DEF IInv
  <2>4. \A g \in Open' : handle'[g].n <= Len(heap'[handle'[g].cell].array)
    BY <1>3, <1>6, <1>7, <1>8, <1>9 DEF IInv
  <2>5. QED BY <2>1, <2>2, <2>3, <2>4 DEF IInv
<1>12. ASSUME NEW g \in Handle
       PROVE  V'[g] = IF g = h THEN [data |-> e, defers |-> Defers(h) \o push] ELSE V[g]
  <2>1. CASE g = h
    <3>1. h \in Open' /\ handle'[h].cell = c /\ handle'[h].n = n + Len(push)
      BY <1>6, <1>7
    <3>2. heap'[c].data = e /\ heap'[c].array = array
      BY <1>8
    <3>3. Content(h)' = e /\ Defers(h)' = SubSeq(array, 1, n + Len(push))
      BY <3>1, <3>2 DEF Content, Defers
    <3>4. QED BY <1>1, <1>3, <2>1, <3>1, <3>3 DEF V
  <2>2. CASE g # h
    BY <1>6, <1>7, <1>8, <1>9, <2>2 DEF V, Content, Defers
  <2>3. QED BY <2>1, <2>2
<1>13. V' = [V EXCEPT ![h] = [data |-> e, defers |-> Defers(h) \o push]]
  BY <1>1, <1>12 DEF V
<1>14. QED BY <1>11, <1>13

\* modify when the cell is counted more than once: a clone, counted once, and
\* one less for the cell it leaves, which may have become garbage.
LEMMA ModifyShared ==
    ASSUME IInv, NEW h \in Open, NEW e, Good(e), NEW push \in Pushes,
           heap[handle[h].cell].refs > 1, Modify(h, e, push), ret' \in BOOLEAN \cup Deferred \cup {None}
    PROVE  IInv' /\ V' = [V EXCEPT ![h] = [data |-> e, defers |-> Defers(h) \o push]]
<1> DEFINE c == handle[h].cell
           n == handle[h].n
           array == Pushed(Defers(h), n, push)
<1> HIDE DEF Data
<1>1. /\ h \in Handle /\ c \in Cell /\ n \in Nat /\ c \in Live(handle) /\ c # None
      /\ heap[c] \in [data : Data, array : Seq(Deferred), refs : Nat]
      /\ Defers(h) \in Seq(Deferred) /\ Len(Defers(h)) = n /\ h \in Sharers(c)
  BY OpenHandle
<1>2. SubSeq(Defers(h), 1, n) = Defers(h)
  <2>1. /\ SubSeq(Defers(h), 1, n) \in Seq(Deferred) /\ Len(SubSeq(Defers(h), 1, n)) = n
        /\ \A k \in 1 .. n : SubSeq(Defers(h), 1, n)[k] = Defers(h)[k]
    BY <1>1
  <2>2. QED BY <1>1, <2>1, SeqEqual
<1>3. /\ array \in Seq(Deferred) /\ Len(push) \in Nat /\ n + Len(push) <= Len(array)
      /\ SubSeq(array, 1, n + Len(push)) = Defers(h) \o push
  <2>1. /\ Pushed(Defers(h), n, push) \in Seq(Deferred) /\ Len(push) \in Nat
        /\ n + Len(push) <= Len(Pushed(Defers(h), n, push))
        /\ SubSeq(Pushed(Defers(h), n, push), 1, n + Len(push)) = SubSeq(Defers(h), 1, n) \o push
    <3> HIDE DEF n
    <3>1. n <= Len(Defers(h))
      BY <1>1
    <3>2. QED BY <1>1, <3>1, PushedPrefix
  <2>2. QED BY <1>2, <2>1
<1>4. PICK d \in Cell \ Live(handle) :
         Write(h, d, e, Defers(h), 1, push, [heap EXCEPT ![c].refs = @ - 1])
  BY DEF Modify
<1> DEFINE hd == [handle EXCEPT ![h] = [cell |-> d, n |-> n + Len(push)]]
           left == [heap EXCEPT ![c].refs = @ - 1]
           hp == [left EXCEPT ![d] = [data |-> e, refs |-> 1, array |-> array]]
<1>5. Commit(hd, hp)
  BY <1>4 DEF Write, Pushed
<1>6. /\ handle \in [Handle -> [cell : Cell \cup {None}, n : Nat]]
      /\ heap \in [Cell -> [data : Data, array : Seq(Deferred), refs : Nat]]
      /\ d \in Cell /\ d \notin Live(handle) /\ d # c /\ d # None
  BY <1>1, CellAssumption DEF IInv, TypeOK
<1>7. left \in [Cell -> [data : Data, array : Seq(Deferred), refs : Nat]]
      /\ left[c].refs = heap[c].refs - 1 /\ left[c].data = heap[c].data
      /\ left[c].array = heap[c].array /\ \A k \in Cell : k # c => left[k] = heap[k]
  <2>1. heap[c].refs - 1 \in Nat
    BY <1>1
  <2>2. left = [heap EXCEPT ![c] = [data |-> heap[c].data, array |-> heap[c].array,
                                    refs |-> heap[c].refs - 1]]
    <3>1. [heap[c] EXCEPT !.refs = heap[c].refs - 1]
            = [data |-> heap[c].data, array |-> heap[c].array, refs |-> heap[c].refs - 1]
      BY <1>1, CellExcept
    <3>2. QED BY <1>1, <1>6, <3>1
  <2>3. QED BY <1>1, <1>6, <2>1, <2>2
<1> HIDE DEF array, c, n, left
<1>8. /\ handle' = hd
      /\ handle'[h] = [cell |-> d, n |-> n + Len(push)]
      /\ \A g \in Handle : g # h => handle'[g] = handle[g]
      /\ handle' \in [Handle -> [cell : Cell \cup {None}, n : Nat]]
  BY <1>1, <1>3, <1>5, <1>6 DEF Commit
<1> DEFINE Sees(k) == {g \in Handle : handle'[g].cell = k}
<1>9. /\ Open' = Open /\ Live(handle') \subseteq Live(handle) \cup {d}
      /\ d \in Live(handle')
      /\ Sees(d) = {h} /\ Sees(c) = Sharers(c) \ {h}
      /\ \A k : k # c /\ k # d => Sees(k) = Sharers(k)
  <2>1. \A g \in Handle : handle'[g].cell = IF g = h THEN d ELSE handle[g].cell
    BY <1>1, <1>8
  <2>2. Open' = Open
    BY <1>1, <1>6, <2>1 DEF Open, c
  <2>3. Live(handle') \subseteq Live(handle) \cup {d} /\ d \in Live(handle')
    BY <1>1, <1>6, <2>1 DEF Live
  <2>4. Sees(d) = {h}
    BY <1>1, <1>6, <2>1 DEF Live
  <2>5. Sees(c) = Sharers(c) \ {h}
    BY <1>1, <1>6, <2>1 DEF Sharers, c
  <2>6. \A k : k # c /\ k # d => Sees(k) = Sharers(k)
    BY <1>1, <1>6, <2>1 DEF Sharers, c
  <2>7. QED BY <2>2, <2>3, <2>4, <2>5, <2>6
<1>10. /\ heap'[d] = [data |-> e, refs |-> 1, array |-> array]
       /\ \A k \in Live(handle') : k # d => heap'[k] = left[k]
       /\ heap' \in [Cell -> [data : Data, array : Seq(Deferred), refs : Nat]]
  <2>1. heap' = [k \in Cell |-> IF k \in Live(handle') THEN hp[k] ELSE NoCell]
    BY <1>5, <1>8 DEF Commit
  <2>2. Live(handle') \subseteq Cell
    BY <1>8 DEF Live
  <2>3. NoCell \in [data : Data, array : Seq(Deferred), refs : Nat]
    BY EmptyIsGood DEF NoCell, Good
  <2>4. e \in Data
    BY DEF Good
  <2>5. QED BY <1>3, <1>6, <1>7, <1>9, <2>1, <2>2, <2>3, <2>4
<1>11. \A g \in Open : g # h => /\ handle'[g] = handle[g] /\ handle[g].cell \in Live(handle)
                               /\ handle[g].cell \in Live(handle') /\ handle[g].cell # d
                               /\ heap'[handle[g].cell].data = heap[handle[g].cell].data
                               /\ heap'[handle[g].cell].array = heap[handle[g].cell].array
  <2>1. SUFFICES ASSUME NEW g \in Open, g # h
                 PROVE  /\ handle'[g] = handle[g] /\ handle[g].cell \in Live(handle)
                        /\ handle[g].cell \in Live(handle') /\ handle[g].cell # d
                        /\ heap'[handle[g].cell].data = heap[handle[g].cell].data
                        /\ heap'[handle[g].cell].array = heap[handle[g].cell].array
    OBVIOUS
  <2>2. /\ handle'[g] = handle[g] /\ handle[g].cell \in Live(handle)
        /\ handle[g].cell \in Live(handle') /\ handle[g].cell # d
    BY <1>6, <1>8, <2>1 DEF Open, Live
  <2>3. handle[g].cell \in Cell
    BY <1>6, <2>2 DEF Live
  <2>4. QED BY <1>7, <1>10, <2>2, <2>3
<1>12. IInv'
  <2>1. TypeOK'
    BY <1>8, <1>10 DEF TypeOK
  <2>2. ASSUME NEW k \in Live(handle')
        PROVE  Good(heap'[k].data)
    <3>1. CASE k = d
      BY <1>10, <3>1
    <3>2. CASE k # d
      <4>1. k \in Live(handle) /\ k \in Cell /\ heap'[k].data = heap[k].data
        <5>1. k \in Live(handle) /\ heap'[k] = left[k]
          BY <1>9, <1>10, <3>2
        <5>2. k \in Cell
          BY <1>6, <5>1 DEF Live
        <5>3. QED BY <1>7, <5>1, <5>2
      <4>2. QED BY <4>1 DEF IInv
    <3>3. QED BY <3>1, <3>2
  <2>3. ASSUME NEW k \in Live(handle')
        PROVE  heap'[k].refs >= Cardinality(Sees(k))
    <3>1. CASE k = d
      <4>1. heap'[k].refs = 1 /\ Sees(k) = {h}
        BY <1>9, <1>10, <3>1
      <4>2. Cardinality({h}) = 1
        BY FS_Singleton
      <4> HIDE DEF Sees
      <4>3. QED BY <4>1, <4>2
    <3>2. CASE k = c
      <4>1. Cardinality(Sharers(c) \ {h}) = Cardinality(Sharers(c)) - 1
        BY <1>1, SharersFinite, FS_RemoveElement
      <4>2. heap[c].refs >= Cardinality(Sharers(c)) /\ heap[c].refs \in Nat
        BY <1>1 DEF IInv
      <4>3. heap'[c].refs = heap[c].refs - 1 /\ Sees(k) = Sharers(c) \ {h}
        BY <1>1, <1>6, <1>7, <1>9, <1>10, <3>2
      <4>4. Cardinality(Sharers(c)) \in Nat
        BY SharersFinite
      <4> HIDE DEF Sees
      <4>5. QED BY <3>2, <4>1, <4>2, <4>3, <4>4
    <3>3. CASE k # d /\ k # c
      <4>1. /\ k \in Live(handle) /\ k \in Cell /\ heap'[k] = heap[k]
            /\ Sees(k) = Sharers(k)
        <5>1. k \in Live(handle) /\ heap'[k] = left[k] /\ Sees(k) = Sharers(k)
          BY <1>9, <1>10, <3>3
        <5>2. k \in Cell
          BY <1>6, <5>1 DEF Live
        <5>3. QED BY <1>7, <3>3, <5>1, <5>2
      <4> HIDE DEF Sees
      <4>2. heap[k].refs >= Cardinality(Sharers(k))
        BY <4>1 DEF IInv
      <4>3. QED BY <4>1, <4>2
    <3>4. QED BY <3>1, <3>2, <3>3
  <2>4. ASSUME NEW g \in Open'
        PROVE  handle'[g].n <= Len(heap'[handle'[g].cell].array)
    <3>1. CASE g = h
      BY <1>3, <1>8, <1>10, <3>1
    <3>2. CASE g # h
      BY <1>9, <1>11, <3>2 DEF IInv
    <3>3. QED BY <3>1, <3>2
  <2>5. QED BY <2>1, <2>2, <2>3, <2>4 DEF IInv, Sharers
<1>13. ASSUME NEW g \in Handle
       PROVE  V'[g] = IF g = h THEN [data |-> e, defers |-> Defers(h) \o push] ELSE V[g]
  <2>1. CASE g = h
    <3>1. h \in Open' /\ handle'[h].cell = d /\ handle'[h].n = n + Len(push)
      BY <1>8, <1>9
    <3>2. heap'[d].data = e /\ heap'[d].array = array
      BY <1>10
    <3>3. Content(h)' = e /\ Defers(h)' = SubSeq(array, 1, n + Len(push))
      BY <3>1, <3>2 DEF Content, Defers
    <3>4. QED BY <1>1, <1>3, <2>1, <3>1, <3>3 DEF V
  <2>2. CASE g # h
    BY <1>9, <1>11, <2>2 DEF V, Content, Defers
  <2>3. QED BY <2>1, <2>2
<1>14. V' = [V EXCEPT ![h] = [data |-> e, defers |-> Defers(h) \o push]]
  BY <1>1, <1>13 DEF V
<1>15. QED BY <1>12, <1>14

\* modify and the assignment after it, whichever of the two it does.
LEMMA ModifyReplaces ==
    ASSUME IInv, NEW h \in Open, NEW e, Good(e), NEW push \in Pushes,
           Modify(h, e, push), ret' \in BOOLEAN \cup Deferred \cup {None}
    PROVE  IInv' /\ V' = [V EXCEPT ![h] = [data |-> e, defers |-> Defers(h) \o push]]
<1>1. heap[handle[h].cell].refs \in Nat
  BY OpenHandle
<1>2. CASE heap[handle[h].cell].refs > 1
  BY <1>2, ModifyShared
<1>3. CASE heap[handle[h].cell].refs <= 1
  BY <1>3, ModifyInPlace
<1>4. QED BY <1>1, <1>2, <1>3

-----------------------------------------------------------------------------
(***************************************************************************)
(* The operations that do not go through modify.                           *)
(***************************************************************************)
HandleType == [Handle -> [cell : Cell \cup {None}, n : Nat]]
HeapType   == [Cell -> [data : Data, array : Seq(Deferred), refs : Nat]]

\* newLockState takes a cell nobody has.
LEMMA NewAdds ==
    ASSUME IInv, NEW h \in Handle, New(h)
    PROVE  IInv' /\ V' = [V EXCEPT ![h] = [data |-> EmptyData, defers |-> <<>>]]
<1> HIDE DEF Data
<1>1. PICK d \in Cell \ Live(handle) :
         Commit([handle EXCEPT ![h] = [cell |-> d, n |-> 0]],
                [heap EXCEPT ![d] = [data |-> EmptyData, array |-> <<>>, refs |-> 1]])
  BY DEF New
<1>2. /\ handle \in HandleType /\ heap \in HeapType /\ h \notin Open /\ ret' = None
      /\ d \in Cell /\ d # None /\ d \notin Live(handle)
  BY CellAssumption DEF IInv, TypeOK, HandleType, HeapType, New
<1>3. /\ handle' \in HandleType /\ handle'[h] = [cell |-> d, n |-> 0]
      /\ \A g \in Handle : g # h => handle'[g] = handle[g]
  BY <1>1, <1>2 DEF Commit, HandleType
<1>4. /\ Open' = Open \cup {h} /\ Live(handle') = Live(handle) \cup {d}
      /\ \A g \in Open : handle[g].cell \in Live(handle) /\ handle[g].cell # d
                         /\ handle[g].cell \in Cell /\ g # h
  BY <1>2, <1>3 DEF Open, Live, HandleType
<1>5. /\ heap'[d] = [data |-> EmptyData, array |-> <<>>, refs |-> 1]
      /\ \A k \in Live(handle) : k # d /\ heap'[k] = heap[k]
      /\ heap' \in HeapType
  <2>1. [data |-> EmptyData, array |-> <<>>, refs |-> 1]
            \in [data : Data, array : Seq(Deferred), refs : Nat]
        /\ NoCell \in [data : Data, array : Seq(Deferred), refs : Nat]
    BY EmptyIsGood DEF NoCell, Good
  <2>2. Live(handle) \subseteq Cell
    BY <1>2 DEF Live, HandleType
  <2>3. QED BY <1>1, <1>2, <1>3, <1>4, <2>1, <2>2 DEF Commit, HeapType
<1> DEFINE Sees(k) == {g \in Handle : handle'[g].cell = k}
<1>6. Sees(d) = {h} /\ \A k \in Live(handle) : Sees(k) = Sharers(k)
  BY <1>2, <1>3, <1>4 DEF Sharers, Open, Live
<1>7. IInv'
  <2>1. TypeOK'
    BY <1>2, <1>3, <1>5 DEF TypeOK, HandleType, HeapType
  <2>2. \A k \in Live(handle') : Good(heap'[k].data)
    BY <1>4, <1>5, EmptyIsGood DEF IInv
  <2>3. \A k \in Live(handle') : heap'[k].refs >= Cardinality(Sees(k))
    <3> HIDE DEF Sees
    <3>1. Cardinality(Sees(d)) = 1
      BY <1>6, FS_Singleton
    <3>2. \A k \in Live(handle) : heap[k].refs >= Cardinality(Sharers(k))
      BY DEF IInv
    <3>3. \A k \in Live(handle) : heap'[k].refs >= Cardinality(Sees(k))
      BY <1>5, <1>6, <3>2
    <3>4. heap'[d].refs = 1
      BY <1>5
    <3>5. QED BY <1>4, <3>1, <3>3, <3>4
  <2>4. ASSUME NEW g \in Open' PROVE handle'[g].n <= Len(heap'[handle'[g].cell].array)
    <3>1. CASE g = h
      BY <1>3, <1>5, <3>1
    <3>2. CASE g # h
      <4>1. /\ g \in Open /\ handle'[g] = handle[g]
            /\ heap'[handle[g].cell] = heap[handle[g].cell]
        BY <1>3, <1>4, <1>5, <3>2 DEF Open
      <4>2. handle[g].n <= Len(heap[handle[g].cell].array)
        BY <4>1 DEF IInv
      <4>3. QED BY <4>1, <4>2
    <3>3. QED BY <3>1, <3>2
  <2>5. QED BY <2>1, <2>2, <2>3, <2>4 DEF IInv, Sharers
<1>8. ASSUME NEW g \in Handle
      PROVE  V'[g] = IF g = h THEN [data |-> EmptyData, defers |-> <<>>] ELSE V[g]
  <2>1. CASE g = h
    <3>1. Content(h)' = EmptyData /\ Defers(h)' = <<>>
      BY <1>3, <1>5, SubSeqEmpty DEF Content, Defers
    <3>2. QED BY <1>4, <2>1, <3>1 DEF V
  <2>2. CASE g # h
    BY <1>3, <1>4, <1>5, <2>2 DEF V, Content, Defers
  <2>3. QED BY <2>1, <2>2
<1>9. QED BY <1>7, <1>8 DEF V

\* fork shares the cell, and counts the sharer.
LEMMA ForkCopies ==
    ASSUME IInv, NEW h \in Handle, NEW new \in Handle, Fork(h, new)
    PROVE  IInv' /\ V' = [V EXCEPT ![new] = V[h]]
<1> DEFINE c == handle[h].cell
<1> HIDE DEF Data
<1>1. /\ h \in Open /\ new \notin Open /\ ret' = None
      /\ Commit([handle EXCEPT ![new] = handle[h]], [heap EXCEPT ![c].refs = @ + 1])
  BY DEF Fork
<1>2. /\ handle \in HandleType /\ heap \in HeapType /\ c \in Cell /\ c # None
      /\ c \in Live(handle) /\ new # h
      /\ heap[c] \in [data : Data, array : Seq(Deferred), refs : Nat]
  BY <1>1, OpenHandle DEF IInv, TypeOK, HandleType, HeapType
<1>3. /\ handle' \in HandleType /\ handle'[new] = handle[h]
      /\ \A g \in Handle : g # new => handle'[g] = handle[g]
  BY <1>1, <1>2 DEF Commit, HandleType
<1>4. /\ Open' = Open \cup {new} /\ Live(handle') = Live(handle)
      /\ Live(handle) \subseteq Cell
      /\ \A g \in Open : handle[g].cell \in Live(handle) /\ g # new
  <2>1. \A g \in Handle : handle'[g].cell = IF g = new THEN c ELSE handle[g].cell
    BY <1>3
  <2>2. Open' = Open \cup {new}
    BY <1>2, <2>1 DEF Open
  <2>3. Live(handle') = Live(handle)
    <3> HIDE DEF c
    <3>1. handle[new].cell = None /\ h \in Handle /\ handle[h].cell = c
      BY <1>1 DEF Open, c
    <3>2. ASSUME NEW k PROVE k \in Live(handle') <=> k \in Live(handle)
      <4>1. k \in Live(handle') <=> k # None /\ \E g \in Handle : handle'[g].cell = k
        BY DEF Live
      <4>2. k \in Live(handle) <=> k # None /\ \E g \in Handle : handle[g].cell = k
        BY DEF Live
      <4>3. (\E g \in Handle : handle'[g].cell = k) => (\E g \in Handle : handle[g].cell = k)
        BY <2>1, <3>1
      <4>4. k # None /\ (\E g \in Handle : handle[g].cell = k) => (\E g \in Handle : handle'[g].cell = k)
        BY <2>1, <3>1
      <4>5. QED BY <4>1, <4>2, <4>3, <4>4
    <3>3. QED BY <3>2
  <2>4. Live(handle) \subseteq Cell
    BY <1>2 DEF Live, HandleType
  <2>5. \A g \in Open : handle[g].cell \in Live(handle) /\ g # new
    BY <1>1 DEF Open, Live
  <2>6. QED BY <2>2, <2>3, <2>4, <2>5
<1>5. /\ heap'[c] = [data |-> heap[c].data, array |-> heap[c].array, refs |-> heap[c].refs + 1]
      /\ \A k \in Live(handle) : k # c => heap'[k] = heap[k]
      /\ heap' \in HeapType
  <2>1. NoCell \in [data : Data, array : Seq(Deferred), refs : Nat]
    BY EmptyIsGood DEF NoCell, Good
  <2>2. [heap[c] EXCEPT !.refs = heap[c].refs + 1]
          = [data |-> heap[c].data, array |-> heap[c].array, refs |-> heap[c].refs + 1]
    BY <1>2, CellExcept
  <2> DEFINE hp == [heap EXCEPT ![c].refs = @ + 1]
             new_c == [data |-> heap[c].data, array |-> heap[c].array, refs |-> heap[c].refs + 1]
  <2>3. hp[c] = new_c /\ \A k \in Cell : k # c => hp[k] = heap[k]
    BY <1>2, <2>2 DEF HeapType
  <2>4. heap' = [k \in Cell |-> IF k \in Live(handle) THEN hp[k] ELSE NoCell]
    BY <1>1, <1>4 DEF Commit
  <2>5. new_c \in [data : Data, array : Seq(Deferred), refs : Nat]
    BY <1>2
  <2> HIDE DEF hp, new_c, c
  <2>6. /\ heap'[c] = new_c /\ heap' \in HeapType
        /\ \A k \in Live(handle) : k # c => heap'[k] = heap[k]
    BY <1>2, <1>4, <2>1, <2>3, <2>4, <2>5 DEF HeapType
  <2>7. QED BY <2>6 DEF new_c
<1> DEFINE Sees(k) == {g \in Handle : handle'[g].cell = k}
<1> HIDE DEF c
<1>6. Sees(c) = Sharers(c) \cup {new} /\ \A k \in Live(handle) : k # c => Sees(k) = Sharers(k)
  BY <1>1, <1>2, <1>3 DEF Sharers, Open, Live, c
<1>7. IInv'
  <2>1. TypeOK'
    BY <1>1, <1>3, <1>5 DEF TypeOK, HandleType, HeapType
  <2>2. \A k \in Live(handle') : Good(heap'[k].data)
    BY <1>2, <1>4, <1>5 DEF IInv
  <2>3. ASSUME NEW k \in Live(handle') PROVE heap'[k].refs >= Cardinality(Sees(k))
    <3> HIDE DEF Sees
    <3>1. heap[k].refs >= Cardinality(Sharers(k)) /\ Cardinality(Sharers(k)) \in Nat
      BY <1>4, SharersFinite DEF IInv
    <3>2. CASE k = c
      <4>1. Cardinality(Sharers(c) \cup {new}) <= Cardinality(Sharers(c)) + 1
        BY <3>1, <3>2, SharersFinite, FS_AddElement
      <4>2. Cardinality(Sharers(c) \cup {new}) \in Nat
        BY SharersFinite, FS_AddElement, FS_CardinalityType
      <4>3. heap'[c].refs = heap[c].refs + 1 /\ heap[c].refs \in Nat
        BY <1>2, <1>5
      <4>4. Sees(k) = Sharers(c) \cup {new} /\ heap[c].refs >= Cardinality(Sharers(c))
            /\ Cardinality(Sharers(c)) \in Nat
        BY <1>6, <3>1, <3>2
      <4>5. heap'[c].refs >= Cardinality(Sees(k))
        BY <4>1, <4>2, <4>3, <4>4
      <4>6. QED BY <3>2, <4>5
    <3>3. CASE k # c
      BY <1>4, <1>5, <1>6, <3>1, <3>3
    <3>4. QED BY <3>2, <3>3
  <2>4. \A g \in Open' : handle'[g].n <= Len(heap'[handle'[g].cell].array)
    <3>1. \A g \in Open : handle[g].n <= Len(heap[handle[g].cell].array)
      BY DEF IInv
    <3>2. \A k \in Live(handle) : heap'[k].array = heap[k].array
      BY <1>5
    <3>3. ASSUME NEW g \in Open'
          PROVE \E k \in Open : handle'[g] = handle[k]
      BY <1>1, <1>3, <1>4 DEF Open
    <3>4. \A k \in Open : handle[k].cell \in Live(handle)
      BY <1>4
    <3>5. QED BY <3>1, <3>2, <3>3, <3>4
  <2>5. QED BY <2>1, <2>2, <2>3, <2>4 DEF IInv, Sharers
<1>8. ASSUME NEW g \in Handle
      PROVE  V'[g] = IF g = new THEN V[h] ELSE V[g]
  <2>1. \A k \in Live(handle) : heap'[k].data = heap[k].data /\ heap'[k].array = heap[k].array
    BY <1>5
  <2>2. CASE g = new
    BY <1>1, <1>2, <1>3, <1>4, <2>1, <2>2 DEF V, Content, Defers, c
  <2>3. CASE g # new
    BY <1>1, <1>3, <1>4, <2>1, <2>3 DEF V, Content, Defers
  <2>4. QED BY <2>2, <2>3
<1>9. QED BY <1>7, <1>8 DEF V

\* A dropped handle leaves its cell counted: the count is then larger than the
\* number of sharers, which costs a copy and no more.
LEMMA DropRemoves ==
    ASSUME IInv, NEW h \in Handle, Drop(h)
    PROVE  IInv' /\ V' = [V EXCEPT ![h] = None]
<1> HIDE DEF Data
<1>1. /\ h \in Open /\ ret' = None /\ Commit([handle EXCEPT ![h] = NoHandle], heap)
      /\ handle \in HandleType /\ heap \in HeapType
  BY DEF Drop, IInv, TypeOK, HandleType, HeapType
<1>2. /\ handle' \in HandleType /\ handle'[h] = NoHandle
      /\ \A g \in Handle : g # h => handle'[g] = handle[g]
  BY <1>1 DEF Commit, HandleType, NoHandle
<1>3. /\ Open' = Open \ {h} /\ Live(handle') \subseteq Live(handle)
      /\ Live(handle) \subseteq Cell
  <2>1. Open' = Open \ {h}
    BY <1>1, <1>2 DEF Open, NoHandle
  <2>2. Live(handle') \subseteq Live(handle) /\ Live(handle) \subseteq Cell
    BY <1>1, <1>2 DEF Live, NoHandle, HandleType
  <2>3. QED BY <2>1, <2>2
<1>4. heap' \in HeapType /\ \A k \in Live(handle') : heap'[k] = heap[k]
  <2>1. NoCell \in [data : Data, array : Seq(Deferred), refs : Nat]
    BY EmptyIsGood DEF NoCell, Good
  <2>2. heap' = [k \in Cell |-> IF k \in Live(handle') THEN heap[k] ELSE NoCell]
    BY <1>1 DEF Commit
  <2>3. QED BY <1>1, <1>3, <2>1, <2>2 DEF HeapType
<1> DEFINE Sees(k) == {g \in Handle : handle'[g].cell = k}
<1>5. \A k \in Live(handle') : Sees(k) \subseteq Sharers(k)
  BY <1>2 DEF Sharers, Live, NoHandle
<1>6. \A g \in Open' : g \in Open /\ handle'[g] = handle[g] /\ handle[g].cell \in Live(handle')
  BY <1>2, <1>3 DEF Open, Live
<1>7. IInv'
  <2>1. TypeOK'
    BY <1>1, <1>2, <1>4 DEF TypeOK, HandleType, HeapType
  <2>2. \A k \in Live(handle') : Good(heap'[k].data)
    BY <1>3, <1>4 DEF IInv
  <2>3. ASSUME NEW k \in Live(handle') PROVE heap'[k].refs >= Cardinality(Sees(k))
    <3> HIDE DEF Sees
    <3>1. heap'[k].refs = heap[k].refs /\ heap[k].refs \in Nat
          /\ heap[k].refs >= Cardinality(Sharers(k))
      BY <1>1, <1>3, <1>4 DEF IInv, HeapType
    <3>2. Cardinality(Sees(k)) <= Cardinality(Sharers(k)) /\ Cardinality(Sees(k)) \in Nat
          /\ Cardinality(Sharers(k)) \in Nat
      BY <1>5, SharersFinite, FS_Subset, FS_CardinalityType
    <3>3. QED BY <3>1, <3>2
  <2>4. \A g \in Open' : handle'[g].n <= Len(heap'[handle'[g].cell].array)
    BY <1>4, <1>6 DEF IInv
  <2>5. QED BY <2>1, <2>2, <2>3, <2>4 DEF IInv, Sharers
<1>8. ASSUME NEW g \in Handle
      PROVE  V'[g] = IF g = h THEN None ELSE V[g]
  BY <1>3, <1>4, <1>6 DEF V, Content, Defers
<1>9. QED BY <1>7, <1>8 DEF V

\* popDefer shortens what one handle reads of the array; the array stays.
LEMMA PopShortens ==
    ASSUME IInv, NEW h \in Handle, PopDefer(h), handle[h].n # 0
    PROVE  /\ IInv'
           /\ ret' = Defers(h)[Len(Defers(h))]
           /\ V' = [V EXCEPT ![h] = [data |-> Content(h),
                                     defers |-> SubSeq(Defers(h), 1, Len(Defers(h)) - 1)]]
<1> DEFINE c == handle[h].cell
           n == handle[h].n
           array == heap[c].array
<1> HIDE DEF Data
<1>1. /\ h \in Open /\ ret' = array[n] /\ heap' = heap
      /\ handle' = [handle EXCEPT ![h].n = n - 1]
      /\ handle \in HandleType
  BY DEF PopDefer, IInv, TypeOK, HandleType
<1>2. /\ n \in Nat /\ n # 0 /\ array \in Seq(Deferred) /\ c \in Cell /\ c # None
      /\ Defers(h) \in Seq(Deferred) /\ Len(Defers(h)) = n
      /\ handle[h] = [cell |-> c, n |-> n]
  BY <1>1, OpenHandle
<1>3. n <= Len(array) /\ Len(array) \in Nat
  <2>1. n <= Len(array)
    BY <1>1 DEF IInv
  <2>2. QED BY <1>2, <2>1
<1> DEFINE shorter == [cell |-> c, n |-> n - 1]
<1>4. [handle[h] EXCEPT !.n = n - 1] = shorter
  BY <1>2
<1>5. /\ handle' \in HandleType /\ handle'[h] = shorter
      /\ \A g \in Handle : g # h => handle'[g] = handle[g]
  BY <1>1, <1>2, <1>4 DEF HandleType
<1>6. Open' = Open /\ Live(handle') = Live(handle) /\ \A k : Sharers(k)' = Sharers(k)
  BY <1>5 DEF Open, Live, Sharers
<1>7. \A k \in 1 .. n : Defers(h)[k] = array[k] /\ array[k] \in Deferred
  BY <1>2, <1>3 DEF Defers
<1>8. SubSeq(Defers(h), 1, n - 1) = SubSeq(array, 1, n - 1)
  <2>1. /\ SubSeq(array, 1, n - 1) \in Seq(Deferred) /\ Len(SubSeq(array, 1, n - 1)) = n - 1
        /\ \A k \in 1 .. n - 1 : SubSeq(array, 1, n - 1)[k] = array[k]
    BY <1>2, <1>3
  <2>2. /\ SubSeq(Defers(h), 1, n - 1) \in Seq(Deferred)
        /\ Len(SubSeq(Defers(h), 1, n - 1)) = n - 1
        /\ \A k \in 1 .. n - 1 : SubSeq(Defers(h), 1, n - 1)[k] = Defers(h)[k]
    BY <1>2
  <2>3. \A k \in 1 .. n - 1 : Defers(h)[k] = array[k]
    BY <1>2, <1>7
  <2> HIDE DEF array, n
  <2>4. QED BY <2>1, <2>2, <2>3, SeqEqual
<1>9. IInv'
  <2>1. ret' \in Deferred
    BY <1>1, <1>2, <1>7
  <2>2. TypeOK'
    BY <1>1, <1>5, <2>1 DEF IInv, TypeOK, HandleType
  <2>3. \A g \in Open' : handle'[g].n <= Len(heap'[handle'[g].cell].array)
    <3>1. \A g \in Open : handle[g].n <= Len(heap[handle[g].cell].array)
      BY DEF IInv
    <3>2. n - 1 <= Len(array)
      BY <1>2, <1>3
    <3>3. QED BY <1>1, <1>5, <1>6, <3>1, <3>2 DEF Open
  <2>4. QED BY <1>1, <1>6, <2>2, <2>3 DEF IInv
<1>10. ASSUME NEW g \in Handle
       PROVE  V'[g] = IF g = h THEN [data |-> Content(h), defers |-> SubSeq(Defers(h), 1, n - 1)]
                      ELSE V[g]
  <2>1. CASE g = h
    <3>1. h \in Open' /\ handle'[h].cell = c /\ handle'[h].n = n - 1 /\ heap' = heap
      BY <1>1, <1>5, <1>6
    <3>2. Content(h)' = Content(h) /\ Defers(h)' = SubSeq(array, 1, n - 1)
      BY <3>1 DEF Content, Defers
    <3>3. QED BY <1>8, <2>1, <3>1, <3>2 DEF V
  <2>2. CASE g # h
    BY <1>1, <1>5, <1>6, <2>2 DEF V, Content, Defers
  <2>3. QED BY <2>1, <2>2
<1>11. ret' = Defers(h)[Len(Defers(h))]
  BY <1>1, <1>2, <1>7
<1>12. QED BY <1>2, <1>9, <1>10, <1>11 DEF V

-----------------------------------------------------------------------------
(***************************************************************************)
(* The refinement.  LockValue has its own copy of the operations on values *)
(* (it is instantiated); the copies are equal.                             *)
(***************************************************************************)
LEMMA SameKeys ==
    ASSUME NEW d, NEW v
    PROVE  Abstract!LockKey(d, v) = LockKey(d, v)
BY DEF Abstract!LockKey, LockKey, Abstract!AliasKey, AliasKey, Abstract!Reach, Reach,
       Abstract!Roots, Roots, Abstract!ClosedUnder, ClosedUnder,
       Abstract!ValueAndObject, ValueAndObject

LEMMA SameOps ==
    ASSUME NEW d, NEW e, NEW v, NEW w, NEW m
    PROVE  /\ Abstract!CanLock(d, v) = CanLock(d, v)
           /\ Abstract!Lock(d, v, m) = Lock(d, v, m)
           /\ Abstract!CanUnlock(d, v, m) = CanUnlock(d, v, m)
           /\ Abstract!Unlock(d, v) = Unlock(d, v)
           /\ Abstract!CanDowngrade(d, v) = CanDowngrade(d, v)
           /\ Abstract!Downgrade(d, v) = Downgrade(d, v)
           /\ Abstract!CanAlias(d, v, w) = CanAlias(d, v, w)
           /\ Abstract!Alias(d, v, w) = Alias(d, v, w)
           /\ Abstract!StoreValue(d, v, w) = StoreValue(d, v, w)
           /\ Abstract!SubstituteKey(d, v, w) = SubstituteKey(d, v, w)
           /\ Abstract!IsHeld(d, v, m) = IsHeld(d, v, m)
           /\ Abstract!IsCompatible(d, e) = IsCompatible(d, e)
           /\ Abstract!EmptyData = EmptyData
           /\ Abstract!Mode = Mode
<1>1. Abstract!IsCompatible(d, e) = IsCompatible(d, e)
  BY DEF Abstract!IsCompatible, IsCompatible, Abstract!IsSubset, IsSubset, Abstract!Mode, Mode
<1> HIDE DEF LockKey
<1>2. QED
  BY <1>1, SameKeys
  DEF Abstract!CanLock, CanLock, Abstract!Lock, Lock, Abstract!CanUnlock, CanUnlock,
      Abstract!Unlock, Unlock, Abstract!CanDowngrade, CanDowngrade,
      Abstract!Downgrade, Downgrade, Abstract!CanAlias, CanAlias, Abstract!Alias, Alias,
      Abstract!StoreValue, StoreValue, Abstract!SubstituteKey, SubstituteKey,
      Abstract!IsHeld, IsHeld, Abstract!EmptyData, EmptyData, Abstract!Mode, Mode

LEMMA OpenInV ==
    ASSUME IInv, NEW h \in Handle
    PROVE  /\ h \in Open <=> V[h] # None
           /\ h \in Open => V[h] = [data |-> Content(h), defers |-> Defers(h)]
<1>1. CASE h \in Open
  <2>1. [data |-> Content(h), defers |-> Defers(h)] \in [data : Data, defers : Seq(Deferred)]
    BY <1>1, OpenHandle DEF Good
  <2>2. V[h] = [data |-> Content(h), defers |-> Defers(h)]
    BY <1>1 DEF V
  <2>3. QED BY <1>1, <2>1, <2>2, NoneAssumption
<1>2. CASE h \notin Open
  BY <1>2 DEF V
<1>3. QED BY <1>1, <1>2

\* The two outcomes of an operation that may fail: it replaces the maps of one
\* state, or it changes no state.
LEMMA ChangeStep ==
    ASSUME IInv, NEW h \in Open, NEW e, Good(e), Modify(h, e, <<>>),
           ret' \in BOOLEAN \cup Deferred \cup {None}
    PROVE  IInv' /\ V' = [V EXCEPT ![h] = [V[h] EXCEPT !.data = e]]
<1>1. h \in Handle /\ V[h] = [data |-> Content(h), defers |-> Defers(h)]
      /\ Defers(h) \in Seq(Deferred)
  BY OpenInV, OpenHandle DEF Open
<1>2. <<>> \in Pushes
  BY DEF Pushes
<1>3. IInv' /\ V' = [V EXCEPT ![h] = [data |-> e, defers |-> Defers(h) \o <<>>]]
  BY <1>1, <1>2, ModifyReplaces
<1>4. Defers(h) \o <<>> = Defers(h)
  BY <1>1, ConcatEmptySeq
<1>5. [V[h] EXCEPT !.data = e] = [data |-> e, defers |-> Defers(h)]
  BY <1>1
<1>6. QED BY <1>3, <1>4, <1>5

LEMMA KeepStep ==
    ASSUME IInv, UNCHANGED <<handle, heap>>, ret' \in BOOLEAN \cup Deferred \cup {None}
    PROVE  IInv' /\ V' = V
<1>1. IInv'
  BY DEF IInv, TypeOK, Open, Sharers
<1>2. V' = V
  BY DEF V, Open, Content, Defers
<1>3. QED BY <1>1, <1>2

\* What an open state is in the refinement, and the actions of LockValue there.
LEMMA OpenData ==
    ASSUME IInv, NEW h \in Open
    PROVE  /\ h \in Handle /\ V[h] # None /\ Good(Content(h))
           /\ V[h].data = Content(h) /\ V[h].defers = Defers(h)
<1>1. h \in Handle
  BY DEF Open
<1>2. V[h] = [data |-> Content(h), defers |-> Defers(h)] /\ V[h] # None
  BY <1>1, OpenInV
<1>3. [data |-> Content(h), defers |-> Defers(h)].data = Content(h)
      /\ [data |-> Content(h), defers |-> Defers(h)].defers = Defers(h)
  OBVIOUS
<1>4. Good(Content(h))
  BY <1>1, OpenHandle
<1>5. QED BY <1>1, <1>2, <1>3, <1>4

LEMMA AbstractOpen ==
    ASSUME NEW h \in Handle PROVE h \in Abstract!Open <=> V[h] # None
BY DEF Abstract!Open, V

LEMMA AbstractActions ==
    ASSUME NEW h, NEW g, NEW v, NEW w, NEW m
    PROVE  /\ Abstract!Fork(h, g) <=> /\ h \in Abstract!Open /\ g \notin Abstract!Open
                                      /\ V' = [V EXCEPT ![g] = V[h]] /\ ret' = None
           /\ Abstract!AddAlias(h, v, w) <=> h \in Abstract!Open /\ ret' = None /\
                V' = IF Abstract!CanAlias(V[h].data, v, w)
                     THEN [V EXCEPT ![h] = [V[h] EXCEPT !.data = Abstract!Alias(V[h].data, v, w)]]
                     ELSE V
           /\ Abstract!Store(h, v, w) <=> h \in Abstract!Open /\ ret' = None /\
                V' = [V EXCEPT ![h] = [V[h] EXCEPT !.data = Abstract!StoreValue(V[h].data, v, w)]]
           /\ Abstract!Substitute(h, v, w) <=> h \in Abstract!Open /\ ret' = None /\
                V' = [V EXCEPT ![h] = [V[h] EXCEPT !.data = Abstract!SubstituteKey(V[h].data, v, w)]]
BY DEF Abstract!Fork, Abstract!AddAlias, Abstract!Store, Abstract!Substitute, Abstract!Update, V

LEMMA ForkStep ==
    ASSUME IInv, NEW h \in Handle, NEW g \in Handle
    PROVE  /\ Fork(h, g) => IInv' /\ Abstract!Fork(h, g)
           /\ Compare(h, g) => IInv' /\ Abstract!Compare(h, g)
<1>1. ASSUME Fork(h, g) PROVE IInv' /\ Abstract!Fork(h, g)
  <2>1. h \in Open /\ g \notin Open /\ ret' = None
    BY <1>1 DEF Fork
  <2>2. V[h] # None /\ V[g] = None
    BY <2>1, OpenInV
  <2>3. h \in Abstract!Open /\ g \notin Abstract!Open
    BY <2>2, AbstractOpen
  <2>4. IInv' /\ V' = [V EXCEPT ![g] = V[h]]
    BY <1>1, ForkCopies
  <2>5. QED BY <2>1, <2>3, <2>4, AbstractActions
<1>2. ASSUME Compare(h, g) PROVE IInv' /\ Abstract!Compare(h, g)
  <2>1. h \in Open /\ g \in Open /\ UNCHANGED <<handle, heap>>
    BY <1>2 DEF Compare, Update
  <2>2. /\ V[h] # None /\ V[g] # None
        /\ V[h].data = Content(h) /\ V[g].data = Content(g)
    BY <2>1, OpenData
  <2>3. h \in Abstract!Open /\ g \in Abstract!Open
    BY <2>2, AbstractOpen
  <2>4. ret' = IsCompatible(V[h].data, V[g].data)
    BY <1>2, <2>2 DEF Compare, Update, IsCompatible, IsSubset
  <2>5. ret' \in BOOLEAN \cup Deferred \cup {None}
    BY <2>4 DEF IsCompatible, IsSubset
  <2>6. IInv' /\ V' = V
    BY <2>1, <2>5, KeepStep
  <2>7. ret' = Abstract!IsCompatible(V[h].data, V[g].data)
    BY <2>4 DEF Abstract!IsCompatible, IsCompatible, Abstract!IsSubset, IsSubset, Abstract!Mode, Mode
  <2>8. QED BY <2>3, <2>6, <2>7 DEF Abstract!Compare, Abstract!Update, V
<1>3. QED BY <1>1, <1>2

\* An operation that returns whether it applied, in the two cases.
LEMMA LockStep ==
    ASSUME IInv, NEW h \in Handle, NEW v \in Key, NEW m \in Mode
    PROVE  /\ LockField(h, v, m) => IInv' /\ Abstract!LockField(h, v, m)
           /\ UnlockField(h, v, m) => IInv' /\ Abstract!UnlockField(h, v, m)
           /\ DowngradeField(h, v) => IInv' /\ Abstract!DowngradeField(h, v)
<1> DEFINE d == Content(h)
           Replaced(e) == [V EXCEPT ![h] = [V[h] EXCEPT !.data = e]]
<1>1. SUFFICES ASSUME h \in Open
               PROVE  /\ LockField(h, v, m) => IInv' /\ Abstract!LockField(h, v, m)
                      /\ UnlockField(h, v, m) => IInv' /\ Abstract!UnlockField(h, v, m)
                      /\ DowngradeField(h, v) => IInv' /\ Abstract!DowngradeField(h, v)
  BY DEF LockField, UnlockField, DowngradeField
<1>2. V[h] # None /\ V[h].data = d /\ Good(d) /\ h \in Abstract!Open
  BY <1>1, OpenData, AbstractOpen
<1>3. Good(Lock(d, v, m)) /\ Good(Unlock(d, v)) /\ Good(Downgrade(d, v))
  BY <1>2, LockIsGood
<1>4. ASSUME NEW e, Good(e), Modify(h, e, <<>>), ret' = TRUE PROVE IInv' /\ V' = Replaced(e)
  BY <1>1, <1>4, ChangeStep
<1>5. ASSUME UNCHANGED <<handle, heap>>, ret' = FALSE PROVE IInv' /\ V' = V
  BY <1>5, KeepStep
<1>6. /\ Abstract!CanLock(V[h].data, v) <=> CanLock(d, v)
      /\ Abstract!CanUnlock(V[h].data, v, m) <=> CanUnlock(d, v, m)
      /\ Abstract!CanDowngrade(V[h].data, v) <=> CanDowngrade(d, v)
  BY <1>2, SameOps
<1>7. /\ Abstract!Lock(V[h].data, v, m) = Lock(d, v, m)
      /\ Abstract!Unlock(V[h].data, v) = Unlock(d, v)
      /\ Abstract!Downgrade(V[h].data, v) = Downgrade(d, v)
  BY <1>2, SameOps
<1>8. ASSUME LockField(h, v, m) PROVE IInv' /\ Abstract!LockField(h, v, m)
  <2>1. CASE CanLock(d, v)
    <3>1. Modify(h, Lock(d, v, m), <<>>) /\ ret' = TRUE
      BY <1>8, <2>1 DEF LockField, Update, CanLock
    <3>2. IInv' /\ V' = Replaced(Abstract!Lock(V[h].data, v, m))
      BY <1>3, <1>4, <1>7, <3>1
    <3>3. Abstract!CanLock(V[h].data, v)
      BY <1>6, <2>1
    <3>4. QED BY <1>2, <3>1, <3>2, <3>3 DEF Abstract!LockField, Abstract!Update, V, Abstract!CanLock
  <2>2. CASE ~CanLock(d, v)
    <3>1. UNCHANGED <<handle, heap>> /\ ret' = FALSE
      BY <1>8, <2>2 DEF LockField, Update, CanLock
    <3>2. IInv' /\ V' = V
      BY <1>5, <3>1
    <3>3. ~Abstract!CanLock(V[h].data, v)
      BY <1>6, <2>2
    <3>4. QED BY <1>2, <3>1, <3>2, <3>3 DEF Abstract!LockField, Abstract!Update, V, Abstract!CanLock
  <2>3. QED BY <2>1, <2>2
<1>9. ASSUME UnlockField(h, v, m) PROVE IInv' /\ Abstract!UnlockField(h, v, m)
  <2>1. CASE CanUnlock(d, v, m)
    <3>1. Modify(h, Unlock(d, v), <<>>) /\ ret' = TRUE
      BY <1>9, <2>1 DEF UnlockField, Update, CanUnlock
    <3>2. IInv' /\ V' = Replaced(Abstract!Unlock(V[h].data, v))
      BY <1>3, <1>4, <1>7, <3>1
    <3>3. Abstract!CanUnlock(V[h].data, v, m)
      BY <1>6, <2>1
    <3>4. QED BY <1>2, <3>1, <3>2, <3>3
          DEF Abstract!UnlockField, Abstract!Update, V, Abstract!CanUnlock
  <2>2. CASE ~CanUnlock(d, v, m)
    <3>1. UNCHANGED <<handle, heap>> /\ ret' = FALSE
      BY <1>9, <2>2 DEF UnlockField, Update, CanUnlock
    <3>2. IInv' /\ V' = V
      BY <1>5, <3>1
    <3>3. ~Abstract!CanUnlock(V[h].data, v, m)
      BY <1>6, <2>2
    <3>4. QED BY <1>2, <3>1, <3>2, <3>3
          DEF Abstract!UnlockField, Abstract!Update, V, Abstract!CanUnlock
  <2>3. QED BY <2>1, <2>2
<1>10. ASSUME DowngradeField(h, v) PROVE IInv' /\ Abstract!DowngradeField(h, v)
  <2>1. CASE CanDowngrade(d, v)
    <3>1. Modify(h, Downgrade(d, v), <<>>) /\ ret' = TRUE
      BY <1>10, <2>1 DEF DowngradeField, Update, CanDowngrade
    <3>2. IInv' /\ V' = Replaced(Abstract!Downgrade(V[h].data, v))
      BY <1>3, <1>4, <1>7, <3>1
    <3>3. Abstract!CanDowngrade(V[h].data, v)
      BY <1>6, <2>1
    <3>4. QED BY <1>2, <3>1, <3>2, <3>3
          DEF Abstract!DowngradeField, Abstract!Update, V, Abstract!CanDowngrade
  <2>2. CASE ~CanDowngrade(d, v)
    <3>1. UNCHANGED <<handle, heap>> /\ ret' = FALSE
      BY <1>10, <2>2 DEF DowngradeField, Update, CanDowngrade
    <3>2. IInv' /\ V' = V
      BY <1>5, <3>1
    <3>3. ~Abstract!CanDowngrade(V[h].data, v)
      BY <1>6, <2>2
    <3>4. QED BY <1>2, <3>1, <3>2, <3>3
          DEF Abstract!DowngradeField, Abstract!Update, V, Abstract!CanDowngrade
  <2>3. QED BY <2>1, <2>2
<1>11. QED BY <1>8, <1>9, <1>10

LEMMA BindStep ==
    ASSUME IInv, NEW h \in Handle, NEW w \in Key
    PROVE  /\ \A v \in Key : AddAlias(h, v, w) => IInv' /\ Abstract!AddAlias(h, v, w)
           /\ \A v \in Addr : Store(h, v, w) => IInv' /\ Abstract!Store(h, v, w)
           /\ \A v \in Call : Substitute(h, v, w) => IInv' /\ Abstract!Substitute(h, v, w)
<1> DEFINE d == Content(h)
<1>1. CASE h \notin Open
  BY <1>1 DEF AddAlias, Store, Substitute
<1>2. CASE h \in Open
  <2>1. V[h] # None /\ V[h].data = d /\ Good(d) /\ h \in Abstract!Open
    BY <1>2, OpenData, AbstractOpen
  <2>2. ASSUME NEW v \in Key, AddAlias(h, v, w) PROVE IInv' /\ Abstract!AddAlias(h, v, w)
    <3>1. CASE CanAlias(d, v, w)
      <4>1. Modify(h, Alias(d, v, w), <<>>) /\ ret' = None
        BY <2>2, <3>1 DEF AddAlias, Update
      <4> HIDE DEF d
      <4>2. Good(Alias(d, v, w))
        BY <2>1, <3>1, AliasIsGood
      <4>3. IInv' /\ V' = [V EXCEPT ![h] = [V[h] EXCEPT !.data = Alias(d, v, w)]]
        BY <1>2, <4>1, <4>2, ChangeStep
      <4>4. Abstract!CanAlias(V[h].data, v, w) /\ Abstract!Alias(V[h].data, v, w) = Alias(d, v, w)
        BY <2>1, <3>1, SameOps
      <4>5. QED BY <2>1, <4>1, <4>3, <4>4, AbstractActions
    <3>2. CASE ~CanAlias(d, v, w)
      <4>1. UNCHANGED <<handle, heap>> /\ ret' = None
        BY <2>2, <3>2 DEF AddAlias, Update
      <4> HIDE DEF d
      <4>2. IInv' /\ V' = V
        BY <4>1, KeepStep
      <4>3. ~Abstract!CanAlias(V[h].data, v, w)
        BY <2>1, <3>2, SameOps
      <4>4. QED BY <2>1, <4>1, <4>2, <4>3, AbstractActions
    <3>3. QED BY <3>1, <3>2
  <2>3. ASSUME NEW v \in Addr, Store(h, v, w) PROVE IInv' /\ Abstract!Store(h, v, w)
    <3>1. Modify(h, StoreValue(d, v, w), <<>>) /\ ret' = None
      BY <2>3 DEF Store, Update
    <3> HIDE DEF d
    <3>2. Good(StoreValue(d, v, w)) /\ Abstract!StoreValue(V[h].data, v, w) = StoreValue(d, v, w)
      BY <2>1, BindIsGood, SameOps
    <3>3. IInv' /\ V' = [V EXCEPT ![h] = [V[h] EXCEPT !.data = StoreValue(d, v, w)]]
      BY <1>2, <3>1, <3>2, ChangeStep
    <3>4. QED BY <2>1, <3>1, <3>2, <3>3, AbstractActions
  <2>4. ASSUME NEW v \in Call, Substitute(h, v, w) PROVE IInv' /\ Abstract!Substitute(h, v, w)
    <3>1. Modify(h, SubstituteKey(d, v, w), <<>>) /\ ret' = None
      BY <2>4 DEF Substitute, Update
    <3> HIDE DEF d
    <3>2. Good(SubstituteKey(d, v, w)) /\ Abstract!SubstituteKey(V[h].data, v, w) = SubstituteKey(d, v, w)
      BY <2>1, BindIsGood, SameOps
    <3>3. IInv' /\ V' = [V EXCEPT ![h] = [V[h] EXCEPT !.data = SubstituteKey(d, v, w)]]
      BY <1>2, <3>1, <3>2, ChangeStep
    <3>4. QED BY <2>1, <3>1, <3>2, <3>3, AbstractActions
  <2>5. QED BY <2>2, <2>3, <2>4
<1>3. QED BY <1>1, <1>2

LEMMA ReadStep ==
    ASSUME IInv, NEW h \in Handle, NEW v \in Key, NEW x \in BOOLEAN, IsHeldField(h, v, x)
    PROVE  IInv' /\ Abstract!IsHeldField(h, v, x)
<1>1. h \in Open /\ UNCHANGED <<handle, heap>>
  BY DEF IsHeldField, Update
<1>2. V[h].data = Content(h) /\ h \in Abstract!Open
  BY <1>1, OpenData, AbstractOpen
<1>3. ret' = IsHeld(V[h].data, v, x)
  BY <1>2 DEF IsHeldField, Update, IsHeld
<1>4. IInv' /\ V' = V
  BY <1>1, <1>3, KeepStep DEF IsHeld
<1>5. ret' = Abstract!IsHeld(V[h].data, v, x)
  BY <1>3, SameKeys DEF Abstract!IsHeld, IsHeld, Abstract!Mode, Mode
<1>6. QED BY <1>2, <1>4, <1>5 DEF Abstract!IsHeldField, Abstract!Update, V

LEMMA DeferStep ==
    ASSUME IInv, NEW h \in Handle
    PROVE  /\ \A i \in Deferred : PushDefer(h, i) => IInv' /\ Abstract!PushDefer(h, i)
           /\ PopDefer(h) => IInv' /\ Abstract!PopDefer(h)
<1> DEFINE s == Defers(h)
<1> DEFINE Entry(t) == [data |-> Content(h), defers |-> t]
<1>1. ASSUME h \in Open
      PROVE  /\ V[h] # None /\ V[h].data = Content(h) /\ V[h].defers = s /\ h \in Abstract!Open
             /\ V[h] = Entry(s) /\ Good(Content(h)) /\ s \in Seq(Deferred) /\ Len(s) = handle[h].n
  BY <1>1, OpenData, OpenInV, OpenHandle, AbstractOpen
<1>2. ASSUME NEW t, h \in Open PROVE [V[h] EXCEPT !.defers = t] = Entry(t)
  <2>1. [Entry(s) EXCEPT !.defers = t] = Entry(t)
    OBVIOUS
  <2>2. QED BY <1>1, <1>2, <2>1
<1> HIDE DEF Entry
<1>3. ASSUME NEW i \in Deferred, PushDefer(h, i) PROVE IInv' /\ Abstract!PushDefer(h, i)
  <2>1. h \in Open /\ handle[h].n < MaxDefers /\ Modify(h, Content(h), <<i>>) /\ ret' = None
    BY <1>3 DEF PushDefer
  <2>2. <<i>> \in Pushes
    BY DEF Pushes
  <2>3. IInv' /\ V' = [V EXCEPT ![h] = [data |-> Content(h), defers |-> Defers(h) \o <<i>>]]
    BY <1>1, <2>1, <2>2, ModifyReplaces
  <2>4. Append(s, i) = s \o <<i>>
    BY <1>1, <2>1, AppendIsConcat
  <2>5. [V[h] EXCEPT !.defers = Append(V[h].defers, i)] = Entry(s \o <<i>>)
    BY <1>1, <1>2, <2>1, <2>4
  <2>6. V' = [V EXCEPT ![h] = [V[h] EXCEPT !.defers = Append(V[h].defers, i)]]
    BY <2>3, <2>5 DEF Entry
  <2>7. Len(V[h].defers) < MaxDefers
    BY <1>1, <2>1
  <2>8. QED BY <1>1, <2>1, <2>3, <2>6, <2>7 DEF Abstract!PushDefer, V
<1>4. ASSUME PopDefer(h) PROVE IInv' /\ Abstract!PopDefer(h)
  <2>1. h \in Open
    BY <1>4 DEF PopDefer
  <2>2. CASE handle[h].n = 0
    <3>1. ret' = None /\ UNCHANGED <<handle, heap>>
      BY <1>4, <2>2 DEF PopDefer
    <3>2. IInv' /\ V' = V
      BY <3>1 DEF IInv, TypeOK, Open, Sharers, V, Content, Defers
    <3>3. V[h].defers = <<>>
      BY <1>1, <2>1, <2>2, EmptySeq
    <3>4. QED BY <1>1, <2>1, <3>1, <3>2, <3>3 DEF Abstract!PopDefer, V
  <2>3. CASE handle[h].n # 0
    <3>1. /\ IInv' /\ ret' = s[Len(s)]
          /\ V' = [V EXCEPT ![h] = [data |-> Content(h), defers |-> SubSeq(s, 1, Len(s) - 1)]]
      BY <1>4, <2>3, PopShortens
    <3>2. V[h].defers # <<>> /\ V[h].defers = s
      BY <1>1, <2>1, <2>3
    <3>3. [V[h] EXCEPT !.defers = SubSeq(V[h].defers, 1, Len(V[h].defers) - 1)]
            = Entry(SubSeq(s, 1, Len(s) - 1))
      BY <1>1, <1>2, <2>1
    <3>4. V' = [V EXCEPT ![h] = [V[h] EXCEPT !.defers = SubSeq(V[h].defers, 1, Len(V[h].defers) - 1)]]
      BY <3>1, <3>3 DEF Entry
    <3>5. QED BY <1>1, <2>1, <3>1, <3>2, <3>4 DEF Abstract!PopDefer, V
  <2>4. QED BY <2>2, <2>3
<1>5. QED BY <1>3, <1>4

-----------------------------------------------------------------------------
LEMMA InitIInv == Init => IInv /\ Abstract!Init
<1> HIDE DEF Data
<1> SUFFICES ASSUME Init PROVE IInv /\ Abstract!Init
  OBVIOUS
<1>1. Open = {} /\ Live(handle) = {}
  BY DEF Init, Open, Live, NoHandle
<1>2. NoCell \in [data : Data, array : Seq(Deferred), refs : Nat]
  BY EmptyIsGood DEF NoCell, Good
<1>3. TypeOK
  BY <1>2 DEF Init, TypeOK, NoHandle
<1>4. IInv
  BY <1>1, <1>3 DEF IInv
<1>5. QED BY <1>1, <1>4 DEF Abstract!Init, Init

LEMMA NextStep == IInv /\ [Next]_vars => IInv' /\ [Abstract!Next]_(Abstract!vars)
<1> SUFFICES ASSUME IInv, [Next]_vars PROVE IInv' /\ [Abstract!Next]_(Abstract!vars)
  OBVIOUS
<1> USE SameOps
<1>1. ASSUME NEW h \in Handle, New(h) PROVE IInv' /\ Abstract!New(h)
  <2>1. V[h] = None /\ ret' = None
    BY <1>1, OpenInV DEF New
  <2>2. QED BY <1>1, <2>1, NewAdds DEF Abstract!New, Abstract!Open, V
<1>2. ASSUME NEW h \in Handle, Drop(h) PROVE IInv' /\ Abstract!Drop(h)
  <2>1. V[h] # None /\ ret' = None
    BY <1>2, OpenInV DEF Drop
  <2>2. QED BY <1>2, <2>1, DropRemoves DEF Abstract!Drop, Abstract!Open, V
<1>3. CASE UNCHANGED vars
  <2>1. IInv'
    BY <1>3 DEF vars, IInv, TypeOK, Open, Sharers
  <2>2. UNCHANGED Abstract!vars
    BY <1>3 DEF vars, Abstract!vars, Open, Content, Defers
  <2>3. QED BY <2>1, <2>2
<1>4. CASE Next
  <2>1. PICK h \in Handle :
          \/ New(h) \/ Drop(h) \/ PopDefer(h)
          \/ \E g \in Handle : Fork(h, g) \/ Compare(h, g)
          \/ \E v \in Key, m \in Mode : LockField(h, v, m) \/ UnlockField(h, v, m)
          \/ \E v \in Key : DowngradeField(h, v)
          \/ \E v \in Key, x \in BOOLEAN : IsHeldField(h, v, x)
          \/ \E v, w \in Key : AddAlias(h, v, w)
          \/ \E v \in Addr, w \in Key : Store(h, v, w)
          \/ \E v \in Call, w \in Key : Substitute(h, v, w)
          \/ \E i \in Deferred : PushDefer(h, i)
    BY <1>4 DEF Next
  <2>2. Abstract!Mode = Mode /\ "read" \in Mode
    BY DEF Mode
  <2>3. CASE New(h) \/ Drop(h) \/ PopDefer(h)
    BY <2>3, <1>1, <1>2, DeferStep DEF Abstract!Next
  <2>4. CASE \E g \in Handle : Fork(h, g) \/ Compare(h, g)
    BY <2>4, ForkStep DEF Abstract!Next
  <2>5. CASE \E v \in Key, m \in Mode : LockField(h, v, m) \/ UnlockField(h, v, m)
    BY <2>2, <2>5, LockStep DEF Abstract!Next
  <2>6. CASE \E v \in Key : DowngradeField(h, v)
    BY <2>2, <2>6, LockStep DEF Abstract!Next
  <2>7. CASE \E v \in Key, x \in BOOLEAN : IsHeldField(h, v, x)
    BY <2>7, ReadStep DEF Abstract!Next
  <2>8. CASE \E v, w \in Key : AddAlias(h, v, w)
    BY <2>8, BindStep DEF Abstract!Next
  <2>9. CASE \E v \in Addr, w \in Key : Store(h, v, w)
    BY <2>9, BindStep DEF Abstract!Next
  <2>10. CASE \E v \in Call, w \in Key : Substitute(h, v, w)
    BY <2>10, BindStep DEF Abstract!Next
  <2>11. CASE \E i \in Deferred : PushDefer(h, i)
    BY <2>11, DeferStep DEF Abstract!Next
  <2>12. QED BY <2>1, <2>3, <2>4, <2>5, <2>6, <2>7, <2>8, <2>9, <2>10, <2>11
<1>5. QED BY <1>3, <1>4

\* LockState is well typed and its counts cover the sharers, always.
THEOREM StateInvariant == Spec => [](TypeOK /\ RefsCoverSharers)
<1>1. IInv => TypeOK /\ RefsCoverSharers
  BY DEF IInv, RefsCoverSharers
<1>2. QED BY <1>1, InitIInv, NextStep, PTL DEF Spec

\* Copy-on-write is invisible: LockState implements LockValue.
THEOREM Refinement == Spec => ForksAreValues
<1>1. QED BY InitIInv, NextStep, PTL DEF Spec, ForksAreValues, Abstract!Spec

\* The states the refinement shows are good ones, and its lookups are the module's.
LEMMA AbstractIsGood ==
    ASSUME IInv
    PROVE  /\ \A h \in Abstract!Open : h \in Handle /\ Good(V[h].data)
           /\ \A al, k : Abstract!Reach(al, k) = Reach(al, k) /\ Abstract!Roots(al) = Roots(al)
           /\ \A d, k : Abstract!AliasKey(d, k) = AliasKey(d, k)
<1>1. \A h \in Abstract!Open : h \in Handle /\ Good(V[h].data)
  <2> SUFFICES ASSUME NEW h \in Abstract!Open PROVE h \in Handle /\ Good(V[h].data)
    OBVIOUS
  <2>1. h \in Handle /\ V[h] # None  BY AbstractOpen DEF Abstract!Open
  <2>2. h \in Open  BY <2>1, OpenInV
  <2> QED BY <2>1, <2>2, OpenData
<1>2. ASSUME NEW al, NEW k
      PROVE  Abstract!Reach(al, k) = Reach(al, k) /\ Abstract!Roots(al) = Roots(al)
  BY DEF Abstract!Reach, Reach, Abstract!Roots, Roots, Abstract!ClosedUnder, ClosedUnder
<1>3. ASSUME NEW d, NEW k PROVE Abstract!AliasKey(d, k) = AliasKey(d, k)
  BY <1>2 DEF Abstract!AliasKey, AliasKey
<1> QED BY <1>1, <1>2, <1>3

\* aliasKey ends from every key of every open state.
THEOREM AliasForest == Spec => []AliasKeyEnds
<1>1. IInv => AliasKeyEnds
  BY AbstractIsGood DEF AliasKeyEnds, Abstract!AliasKeyEnds, Good, Forest, V
<1>2. QED BY <1>1, InitIInv, NextStep, PTL DEF Spec

\* Every held lock is recorded under the key it will be looked up by.
THEOREM LocksAreFound == Spec => []HeldUnderRoots
<1>1. IInv => HeldUnderRoots
  BY AbstractIsGood DEF HeldUnderRoots, Abstract!HeldUnderRoots, Good, V
<1>2. QED BY <1>1, InitIInv, NextStep, PTL DEF Spec

\* Seen through the refinement, only an alias changes the aliases of a state.
LEMMA OnlyAliasing ==
    ASSUME IInv, Abstract!Next, NEW g \in Handle, V[g] # None, V'[g] # None,
           V'[g].data.aliases # V[g].data.aliases
    PROVE  \E v, w \in Key : CanAlias(V[g].data, v, w) /\ V'[g].data = Alias(V[g].data, v, w)
<1>1. ASSUME NEW h \in Handle, V[h] # None
      PROVE  /\ V[h].data \in Data /\ h \in Open
             /\ V[h] = [data |-> V[h].data, defers |-> V[h].defers]
  <2>1. h \in Open  BY <1>1, OpenInV
  <2> QED BY <2>1, OpenInV, OpenData DEF Good
<1>2. PICK h \in Handle :
        \/ Abstract!New(h) \/ Abstract!Drop(h) \/ Abstract!PopDefer(h)
        \/ \E f \in Handle : Abstract!Fork(h, f) \/ Abstract!Compare(h, f)
        \/ \E v \in Key, m \in Mode : Abstract!LockField(h, v, m) \/ Abstract!UnlockField(h, v, m)
        \/ \E v \in Key : Abstract!DowngradeField(h, v)
        \/ \E v \in Key, x \in BOOLEAN : Abstract!IsHeldField(h, v, x)
        \/ \E v, w \in Key : Abstract!AddAlias(h, v, w)
        \/ \E v \in Addr, w \in Key : Abstract!Store(h, v, w)
        \/ \E v \in Call, w \in Key : Abstract!Substitute(h, v, w)
        \/ \E i \in Deferred : Abstract!PushDefer(h, i)
  BY SameOps DEF Abstract!Next
<1>3. ASSUME NEW d \in Data, NEW v, NEW w
      PROVE  /\ Abstract!Lock(d, v, w).aliases = d.aliases
             /\ Abstract!Unlock(d, v).aliases = d.aliases
             /\ Abstract!Downgrade(d, v).aliases = d.aliases
             /\ Abstract!StoreValue(d, v, w).aliases = d.aliases
             /\ Abstract!SubstituteKey(d, v, w).aliases = d.aliases
  <2> HIDE DEF LockKey
  <2>1. /\ Lock(d, v, w).aliases = d.aliases /\ Unlock(d, v).aliases = d.aliases
        /\ Downgrade(d, v).aliases = d.aliases /\ StoreValue(d, v, w).aliases = d.aliases
        /\ SubstituteKey(d, v, w).aliases = d.aliases
    BY DEF Data, Lock, Unlock, Downgrade, StoreValue, SubstituteKey
  <2> QED BY <2>1, SameOps
<1>4. V \in [Handle -> {V[k] : k \in Handle}]  BY DEF V
<1>5. ASSUME NEW e, V[h] # None, V' = [V EXCEPT ![h].data = e]
      PROVE  h = g /\ V'[g].data = e /\ e.aliases # V[g].data.aliases
  <2>1. h = g  BY <1>4, <1>5
  <2>2. V'[g] = [V[g] EXCEPT !.data = e]  BY <1>4, <1>5, <2>1
  <2>3. V'[g].data = e  BY <1>1, <1>5, <2>1, <2>2
  <2> QED BY <2>1, <2>3
<1>6. ~Abstract!New(h) /\ ~Abstract!Drop(h)
  BY <1>4 DEF Abstract!New, Abstract!Drop, Abstract!Open, V
<1>7. ~Abstract!PopDefer(h) /\ ~\E i \in Deferred : Abstract!PushDefer(h, i)
  <2>1. ASSUME NEW s, V[h] # None, V' = [V EXCEPT ![h].defers = s] PROVE FALSE
    <3>1. h = g /\ V'[g] = [V[g] EXCEPT !.defers = s]  BY <1>4, <2>1
    <3>2. V'[g].data = V[g].data  BY <1>1, <3>1
    <3> QED BY <3>2
  <2>2. ASSUME NEW i \in Deferred, Abstract!PushDefer(h, i) PROVE FALSE
    <3>1. V[h] # None  BY <2>2 DEF Abstract!PushDefer, Abstract!Open, V
    <3>2. V' = [V EXCEPT ![h].defers = Append(@, i)]  BY <2>2 DEF Abstract!PushDefer, V
    <3>3. V' = [V EXCEPT ![h].defers = Append(V[h].defers, i)]  BY <3>2
    <3> QED BY <2>1, <3>1, <3>3
  <2>3. ASSUME Abstract!PopDefer(h) PROVE FALSE
    <3> DEFINE s == V[h].defers
    <3>1. V[h] # None  BY <2>3 DEF Abstract!PopDefer, Abstract!Open, V
    <3>2. V' = V \/ V' = [V EXCEPT ![h].defers = SubSeq(s, 1, Len(s) - 1)]
      BY <2>3 DEF Abstract!PopDefer, V
    <3> QED BY <2>1, <3>1, <3>2
  <2> QED BY <2>2, <2>3
<1>8. ~\E f \in Handle : Abstract!Fork(h, f) \/ Abstract!Compare(h, f)
  BY <1>4 DEF Abstract!Fork, Abstract!Compare, Abstract!Update, Abstract!Open, V
<1>9. ~\E v \in Key, m \in Mode : Abstract!LockField(h, v, m)
  <2> SUFFICES ASSUME NEW v \in Key, NEW m \in Mode, Abstract!LockField(h, v, m) PROVE FALSE
    OBVIOUS
  <2>1. V[h] # None  BY DEF Abstract!LockField, Abstract!Update, Abstract!Open, V
  <2>2. V' = V \/ V' = [V EXCEPT ![h].data = Abstract!Lock(V[h].data, v, m)]
    BY DEF Abstract!LockField, Abstract!Update, V
  <2>3. V[h].data \in Data  BY <1>1, <2>1
  <2>4. Abstract!Lock(V[h].data, v, m).aliases = V[h].data.aliases  BY <1>3, <2>3
  <2> QED BY <1>5, <2>1, <2>2, <2>4
<1>10. ~\E v \in Key, m \in Mode : Abstract!UnlockField(h, v, m)
  <2> SUFFICES ASSUME NEW v \in Key, NEW m \in Mode, Abstract!UnlockField(h, v, m) PROVE FALSE
    OBVIOUS
  <2>1. V[h] # None  BY DEF Abstract!UnlockField, Abstract!Update, Abstract!Open, V
  <2>2. V' = V \/ V' = [V EXCEPT ![h].data = Abstract!Unlock(V[h].data, v)]
    BY DEF Abstract!UnlockField, Abstract!Update, V
  <2>3. V[h].data \in Data  BY <1>1, <2>1
  <2>4. Abstract!Unlock(V[h].data, v).aliases = V[h].data.aliases  BY <1>3, <2>3
  <2> QED BY <1>5, <2>1, <2>2, <2>4
<1>11. ~\E v \in Key : Abstract!DowngradeField(h, v)
  <2> SUFFICES ASSUME NEW v \in Key, Abstract!DowngradeField(h, v) PROVE FALSE
    OBVIOUS
  <2>1. V[h] # None  BY DEF Abstract!DowngradeField, Abstract!Update, Abstract!Open, V
  <2>2. V' = V \/ V' = [V EXCEPT ![h].data = Abstract!Downgrade(V[h].data, v)]
    BY DEF Abstract!DowngradeField, Abstract!Update, V
  <2>3. V[h].data \in Data  BY <1>1, <2>1
  <2>4. Abstract!Downgrade(V[h].data, v).aliases = V[h].data.aliases  BY <1>3, <2>3
  <2> QED BY <1>5, <2>1, <2>2, <2>4
<1>12. ~\E v \in Key, x \in BOOLEAN : Abstract!IsHeldField(h, v, x)
  BY DEF Abstract!IsHeldField, Abstract!Update, V
<1>13. ~\E v \in Addr, w \in Key : Abstract!Store(h, v, w)
  <2> SUFFICES ASSUME NEW v \in Addr, NEW w \in Key, Abstract!Store(h, v, w) PROVE FALSE
    OBVIOUS
  <2>1. V[h] # None  BY DEF Abstract!Store, Abstract!Update, Abstract!Open, V
  <2>2. V' = V \/ V' = [V EXCEPT ![h].data = Abstract!StoreValue(V[h].data, v, w)]
    BY DEF Abstract!Store, Abstract!Update, V
  <2>3. V[h].data \in Data  BY <1>1, <2>1
  <2>4. Abstract!StoreValue(V[h].data, v, w).aliases = V[h].data.aliases  BY <1>3, <2>3
  <2> QED BY <1>5, <2>1, <2>2, <2>4
<1>14. ~\E v \in Call, w \in Key : Abstract!Substitute(h, v, w)
  <2> SUFFICES ASSUME NEW v \in Call, NEW w \in Key, Abstract!Substitute(h, v, w) PROVE FALSE
    OBVIOUS
  <2>1. V[h] # None  BY DEF Abstract!Substitute, Abstract!Update, Abstract!Open, V
  <2>2. V' = V \/ V' = [V EXCEPT ![h].data = Abstract!SubstituteKey(V[h].data, v, w)]
    BY DEF Abstract!Substitute, Abstract!Update, V
  <2>3. V[h].data \in Data  BY <1>1, <2>1
  <2>4. Abstract!SubstituteKey(V[h].data, v, w).aliases = V[h].data.aliases  BY <1>3, <2>3
  <2> QED BY <1>5, <2>1, <2>2, <2>4
<1>15. PICK v \in Key, w \in Key : Abstract!AddAlias(h, v, w)
  BY <1>2, <1>6, <1>7, <1>8, <1>9, <1>10, <1>11, <1>12, <1>13, <1>14
<1>16. V[h] # None /\ (V' = V \/ V' = [V EXCEPT ![h].data = Alias(V[h].data, v, w)])
      /\ (~CanAlias(V[h].data, v, w) => V' = V)
  <2>1. /\ Abstract!CanAlias(V[h].data, v, w) <=> CanAlias(V[h].data, v, w)
        /\ Abstract!Alias(V[h].data, v, w) = Alias(V[h].data, v, w)
    BY SameOps
  <2>2. /\ h \in Abstract!Open
        /\ V' = IF Abstract!CanAlias(V[h].data, v, w)
                THEN [V EXCEPT ![h] = [V[h] EXCEPT !.data = Abstract!Alias(V[h].data, v, w)]]
                ELSE V
    BY <1>15, AbstractActions
  <2> QED BY <2>1, <2>2 DEF Abstract!Open, V
<1> QED BY <1>5, <1>16

\* Sharing does not undo it either: in the implementation, recording that two names
\* are one lock loses no lock of any state, weakens none and makes none held.
THEOREM AliasLosesNothing == Spec => AliasKeepsLocks
<1>1. ASSUME IInv, [Next]_vars
      PROVE  [\A h \in Abstract!Open \cap Abstract!Open' :
                 LET old  == V[h].data
                     new  == V'[h].data
                     was  == [k \in Key |-> old.locked[Abstract!AliasKey(old, k)]]
                     root == [k \in Key |-> Abstract!AliasKey(new, k)]
                 IN  new.aliases # old.aliases =>
                       \A k \in Key, modes \in {Abstract!Mode, {"write"}} :
                         new.locked[root[k]] \in modes <=>
                             \E j \in Key : root[j] = root[k] /\ was[j] \in modes]_(Abstract!vars)
  <2>0. [Abstract!Next]_(Abstract!vars)  BY <1>1, NextStep
  <2>1. SUFFICES ASSUME Abstract!Next, NEW g \in Abstract!Open \cap Abstract!Open',
                      V'[g].data.aliases # V[g].data.aliases,
                      NEW k \in Key, NEW modes \in {Mode, {"write"}}
               PROVE  V'[g].data.locked[AliasKey(V'[g].data, k)] \in modes <=>
                        \E j \in Key : /\ AliasKey(V'[g].data, j) = AliasKey(V'[g].data, k)
                                       /\ V[g].data.locked[AliasKey(V[g].data, j)] \in modes
    <3>1. \A d, k : Abstract!AliasKey(d, k) = AliasKey(d, k)  BY <1>1, AbstractIsGood
    <3>2. Abstract!Mode = Mode  BY DEF Abstract!Mode, Mode
    <3> QED BY <2>0, <3>1, <3>2
  <2>2. g \in Handle /\ V[g] # None /\ V'[g] # None  BY <2>1 DEF Abstract!Open, V
  <2>3. PICK v \in Key, w \in Key :
          CanAlias(V[g].data, v, w) /\ V'[g].data = Alias(V[g].data, v, w)
    BY <1>1, <2>1, <2>2, OnlyAliasing
  <2>4. Good(V[g].data)  BY <1>1, <2>1, AbstractIsGood
  <2> DEFINE d == V[g].data
  <2> HIDE DEF d
  <2> QED BY <2>1, <2>3, <2>4, AliasKeepsModes DEF d
<1> QED BY <1>1, InitIInv, NextStep, PTL DEF Spec, AliasKeepsLocks, Abstract!AliasKeepsLocks, V
=============================================================================
