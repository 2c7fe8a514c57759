----------------------------- MODULE LockValue -----------------------------
(***************************************************************************)
(* What lockState promises its user: every *lockState behaves as a value   *)
(* of its own.  fork copies the value, and an operation on one state       *)
(* changes that state only and returns what the value says.  LockState     *)
(* implements this with shared, counted, copy-on-write maps.               *)
(***************************************************************************)
EXTENDS LockOps, Sequences, Naturals

CONSTANTS Handle,     \* the *lockState pointers
          Deferred,   \* the *ssa.Defer instructions
          MaxDefers   \* bound on the length of a defer stack

VARIABLES val,        \* the value of each handle, None when it is not in use
          ret         \* what the last operation returned

vars == <<val, ret>>

Value == [data : Data, defers : Seq(Deferred)]
Result == BOOLEAN \cup Deferred \cup {None}

Open == {h \in Handle : val[h] # None}

TypeOK == /\ val \in [Handle -> Value \cup {None}]
          /\ ret \in Result

Init == /\ val = [h \in Handle |-> None]
        /\ ret = None

\* newLockState, or fork of a nil state.
New(h) == /\ h \notin Open
          /\ val' = [val EXCEPT ![h] = [data |-> EmptyData, defers |-> <<>>]]
          /\ ret' = None

Fork(h, new) == /\ h \in Open /\ new \notin Open
                /\ val' = [val EXCEPT ![new] = val[h]]
                /\ ret' = None

\* The last reference to a state goes out of scope.
Drop(h) == /\ h \in Open
           /\ val' = [val EXCEPT ![h] = None]
           /\ ret' = None

\* An operation that changes the maps of h to "data" if "ok", else nothing.
Update(h, ok, data, result) ==
    /\ h \in Open
    /\ val' = IF ok THEN [val EXCEPT ![h].data = data] ELSE val
    /\ ret' = result

LockField(h, v, mode) ==
    h \in Open /\ LET d == val[h].data IN
        Update(h, CanLock(d, v), Lock(d, v, mode), CanLock(d, v))

UnlockField(h, v, mode) ==
    h \in Open /\ LET d == val[h].data IN
        Update(h, CanUnlock(d, v, mode), Unlock(d, v), CanUnlock(d, v, mode))

DowngradeField(h, v) ==
    h \in Open /\ LET d == val[h].data IN
        Update(h, CanDowngrade(d, v), Downgrade(d, v), CanDowngrade(d, v))

AddAlias(h, left, right) ==
    h \in Open /\ LET d == val[h].data IN
        Update(h, CanAlias(d, left, right), Alias(d, left, right), None)

Store(h, addr, v) == h \in Open /\ Update(h, TRUE, StoreValue(val[h].data, addr, v), None)
Substitute(h, v, key) == h \in Open /\ Update(h, TRUE, SubstituteKey(val[h].data, v, key), None)

IsHeldField(h, v, x) == h \in Open /\ Update(h, FALSE, val[h].data, IsHeld(val[h].data, v, x))
Compare(h, other) ==
    /\ h \in Open /\ other \in Open
    /\ Update(h, FALSE, val[h].data, IsCompatible(val[h].data, val[other].data))

PushDefer(h, i) == /\ h \in Open /\ Len(val[h].defers) < MaxDefers
                   /\ val' = [val EXCEPT ![h].defers = Append(@, i)]
                   /\ ret' = None

\* Pops the most recent defer, or returns nil when there is none.
PopDefer(h) ==
    /\ h \in Open
    /\ LET s == val[h].defers IN
         IF s = <<>>
         THEN ret' = None /\ UNCHANGED val
         ELSE /\ ret' = s[Len(s)]
              /\ val' = [val EXCEPT ![h].defers = SubSeq(s, 1, Len(s) - 1)]

Next == \E h \in Handle :
    \/ New(h) \/ Drop(h) \/ PopDefer(h)
    \/ \E g \in Handle : Fork(h, g) \/ Compare(h, g)
    \/ \E v \in Key, m \in Mode : LockField(h, v, m) \/ UnlockField(h, v, m)
    \/ \E v \in Key : DowngradeField(h, v)
    \/ \E v \in Key, x \in BOOLEAN : IsHeldField(h, v, x)
    \/ \E v, w \in Key : AddAlias(h, v, w)
    \/ \E v \in Addr, w \in Key : Store(h, v, w)
    \/ \E v \in Call, w \in Key : Substitute(h, v, w)
    \/ \E i \in Deferred : PushDefer(h, i)

Spec == Init /\ [][Next]_vars

-----------------------------------------------------------------------------
\* The loop in aliasKey ends at a root from every key: no operation ever makes
\* the parents a cycle, however many aliases a path records.
AliasKeyEnds ==
    \A h \in Open, k \in Key : Reach(val[h].data.aliases, k) \cap Roots(val[h].data.aliases) # {}

\* A lock is recorded under a root only.  isHeld, lockField and unlockField look
\* a lock up under a root, so one recorded elsewhere could not be released.
HeldUnderRoots ==
    \A h \in Open, k \in Key : val[h].data.locked[k] # "free" => k \in Roots(val[h].data.aliases)

\* Recording that two names are one lock loses no lock and weakens none, seen
\* through any name, and makes no lock held that neither name held before.
AliasKeepsLocks ==
    [][\A h \in Open \cap Open' :
         LET old  == val[h].data
             new  == val'[h].data
             was  == [k \in Key |-> old.locked[AliasKey(old, k)]]
             root == [k \in Key |-> AliasKey(new, k)]
         IN  new.aliases # old.aliases =>
               \A k \in Key, modes \in {Mode, {"write"}} :
                 new.locked[root[k]] \in modes <=>
                     \E j \in Key : root[j] = root[k] /\ was[j] \in modes]_vars
=============================================================================
