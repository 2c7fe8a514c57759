----------------------------- MODULE LockState -----------------------------
(***************************************************************************)
(* lockState (state.go): the lock state of one path of the analysis, with  *)
(* copy-on-write sharing.  A cell is what the pointer "refs" identifies:   *)
(* the maps, the array behind "defers" and the count.  A handle is a       *)
(* *lockState: it points to a cell and has its own length of the defers    *)
(* slice.  fork makes a second handle on one cell and counts it; every     *)
(* operation that writes calls modify first, which clones the cell when it *)
(* is counted more than once.  popDefer re-slices without modify, so two   *)
(* handles of one cell may see different lengths of one array.             *)
(*                                                                         *)
(* The count is never given back when a state is dropped: the garbage      *)
(* collector takes the state, "refs" keeps counting it.                    *)
(***************************************************************************)
EXTENDS LockOps, Sequences, Integers, FiniteSets

CONSTANTS Handle,     \* the *lockState pointers
          Cell,       \* the shared parts of lock states
          Deferred,   \* the *ssa.Defer instructions
          MaxDefers,  \* bound on the length of a defer stack
          MaxRefs     \* bound on a reference count

ASSUME CellAssumption == None \notin Cell
ASSUME HandleAssumption == IsFiniteSet(Handle)
ASSUME NoneAssumption == None \notin [data : Data, defers : Seq(Deferred)]

VARIABLES handle,     \* [Handle -> the cell and the length of the defers slice]
          heap,       \* [Cell -> the maps, the array of defers, the count]
          ret         \* what the last operation returned

vars == <<handle, heap, ret>>

NoHandle == [cell |-> None, n |-> 0]
NoCell   == [data |-> EmptyData, array |-> <<>>, refs |-> 0]

Live(hd) == {hd[h].cell : h \in Handle} \ {None}
Open     == {h \in Handle : handle[h].cell # None}
Sharers(c) == {h \in Handle : handle[h].cell = c}

TypeOK == /\ handle \in [Handle -> [cell : Cell \cup {None}, n : Nat]]
          /\ heap \in [Cell -> [data : Data, array : Seq(Deferred), refs : Nat]]
          /\ ret \in BOOLEAN \cup Deferred \cup {None}

Init == /\ handle = [h \in Handle |-> NoHandle]
        /\ heap = [c \in Cell |-> NoCell]
        /\ ret = None

-----------------------------------------------------------------------------
\* Make hd and hp the state; a cell no handle points to is garbage.
Commit(hd, hp) == /\ handle' = hd
                  /\ heap' = [c \in Cell |-> IF c \in Live(hd) THEN hp[c] ELSE NoCell]

Content(h) == heap[handle[h].cell].data
Defers(h)  == SubSeq(heap[handle[h].cell].array, 1, handle[h].n)

\* append(s, i) where s is the first n elements of an array with spare room.
AppendAt(array, n, i) ==
    IF n < Len(array) THEN [array EXCEPT ![n + 1] = i] ELSE Append(array, i)

\* An assignment through h, without modify: the maps become "data" and the
\* slice of defers, first "array", is extended by the sequence "push" of at
\* most one instruction.
Write(h, c, data, array, refs, push, rest) ==
    LET n == handle[h].n IN
    Commit([handle EXCEPT ![h] = [cell |-> c, n |-> n + Len(push)]],
           [rest EXCEPT ![c] =
               [data |-> data, refs |-> refs,
                array |-> IF push = <<>> THEN array ELSE AppendAt(array, n, push[1])]])

\* modify, then the assignment.  A state counted once is changed in place; a
\* shared one gets a fresh cell, counted once, and leaves its old one.
Modify(h, data, push) ==
    LET c == handle[h].cell IN
    IF heap[c].refs > 1
    THEN \E d \in Cell \ Live(handle) :
            Write(h, d, data, Defers(h), 1, push, [heap EXCEPT ![c].refs = @ - 1])
    ELSE Write(h, c, data, heap[c].array, heap[c].refs, push, heap)

-----------------------------------------------------------------------------
New(h) ==
    /\ h \notin Open
    /\ \E c \in Cell \ Live(handle) :
         Commit([handle EXCEPT ![h] = [cell |-> c, n |-> 0]],
                [heap EXCEPT ![c] = [data |-> EmptyData, array |-> <<>>, refs |-> 1]])
    /\ ret' = None

\* Mutant: fork that does not count.
ForkUncounted(h, new) ==
    /\ h \in Open /\ new \notin Open
    /\ Commit([handle EXCEPT ![new] = handle[h]], heap)
    /\ ret' = None

Fork(h, new) ==
    /\ h \in Open /\ new \notin Open
    /\ LET c == handle[h].cell IN
         /\ heap[c].refs < MaxRefs
         /\ Commit([handle EXCEPT ![new] = handle[h]], [heap EXCEPT ![c].refs = @ + 1])
    /\ ret' = None

Drop(h) == /\ h \in Open
           /\ Commit([handle EXCEPT ![h] = NoHandle], heap)
           /\ ret' = None

\* The common shape of the operations that report whether they applied.
Update(h, ok, data, result) ==
    /\ IF ok THEN Modify(h, data, <<>>) ELSE UNCHANGED <<handle, heap>>
    /\ ret' = result

LockField(h, v, mode) ==
    h \in Open /\ LET d == Content(h) IN
        Update(h, CanLock(d, v), Lock(d, v, mode), CanLock(d, v))

UnlockField(h, v, mode) ==
    h \in Open /\ LET d == Content(h) IN
        Update(h, CanUnlock(d, v, mode), Unlock(d, v), CanUnlock(d, v, mode))

DowngradeField(h, v) ==
    h \in Open /\ LET d == Content(h) IN
        Update(h, CanDowngrade(d, v), Downgrade(d, v), CanDowngrade(d, v))

AddAlias(h, left, right) ==
    h \in Open /\ LET d == Content(h) IN
        Update(h, CanAlias(d, left, right), Alias(d, left, right), None)

Store(h, addr, v) == h \in Open /\ Update(h, TRUE, StoreValue(Content(h), addr, v), None)
Substitute(h, v, key) == h \in Open /\ Update(h, TRUE, SubstituteKey(Content(h), v, key), None)

IsHeldField(h, v, x) == h \in Open /\ Update(h, FALSE, Content(h), IsHeld(Content(h), v, x))
Compare(h, other) ==
    /\ h \in Open /\ other \in Open
    /\ Update(h, FALSE, Content(h), IsCompatible(Content(h), Content(other)))

\* Mutant: append without modify.
PushDeferInPlace(h, i) ==
    /\ h \in Open /\ handle[h].n < MaxDefers
    /\ LET c == handle[h].cell IN
         Write(h, c, Content(h), heap[c].array, heap[c].refs, <<i>>, heap)
    /\ ret' = None

PushDefer(h, i) == /\ h \in Open /\ handle[h].n < MaxDefers
                   /\ Modify(h, Content(h), <<i>>)
                   /\ ret' = None

\* No modify: only the length in the handle changes, the array is shared still.
PopDefer(h) ==
    /\ h \in Open
    /\ IF handle[h].n = 0
       THEN ret' = None /\ UNCHANGED <<handle, heap>>
       ELSE /\ ret' = heap[handle[h].cell].array[handle[h].n]
            /\ handle' = [handle EXCEPT ![h].n = @ - 1]
            /\ UNCHANGED heap

Next == \E h \in Handle :
    \/ New(h) \/ Drop(h) \/ PopDefer(h)
    \/ \E g \in Handle : Fork(h, g) \/ Compare(h, g)
    \/ \E v \in Key, m \in Mode : LockField(h, v, m) \/ UnlockField(h, v, m)
    \/ \E v \in Key : DowngradeField(h, v)
    \/ \E v \in Key, x \in BOOLEAN : IsHeldField(h, v, x)
    \/ \E v, w \in Key : AddAlias(h, v, w)
    \/ \E v \in Addr, w \in Key : Store(h, v, w)
    \/ \E v \in Call, w \in Key : Substitute(h, v, w)
    \/ \E i \in Deferred : PushDefer(h, i)

Spec == Init /\ [][Next]_vars

-----------------------------------------------------------------------------
\* fork and modify keep the count: it covers every state that shares the
\* maps, so a state that finds the count at 1 may write in place.
RefsCoverSharers ==
    \A c \in Live(handle) : heap[c].refs >= Cardinality(Sharers(c))

\* Sharing is invisible: the handles behave as separate values (LockValue).
\* In particular the states kept in "seen" and compared at a join are what
\* they were when they were put there, whatever later paths did.
Abstract == INSTANCE LockValue WITH
    val <- [h \in Handle |-> IF h \in Open THEN [data |-> Content(h), defers |-> Defers(h)]
                             ELSE None]
ForksAreValues == Abstract!Spec

\* What LockValue promises of the aliases, of the states this module keeps: the
\* loop of aliasKey ends, every lock is under the key isHeld looks it up by, and
\* an alias loses, weakens and invents no lock.
AliasKeyEnds    == Abstract!AliasKeyEnds
HeldUnderRoots  == Abstract!HeldUnderRoots
AliasKeepsLocks == Abstract!AliasKeepsLocks
=============================================================================
