------------------------------ MODULE LockOps ------------------------------
(***************************************************************************)
(* The value of a lock state (state.go) and the operations on it, as pure  *)
(* operators.  A key is what valueAndObject returns for an ssa.Value.  A   *)
(* Go map is a total function that is None (or "free") where the map has   *)
(* no entry.  The types.Object of a held lock, which only the inference of *)
(* annotations reads, is left out.                                         *)
(***************************************************************************)
CONSTANTS Key,      \* the resolved names of mutexes and of the values naming them
          Addr,     \* those that name a location, a parameter or a free variable
          Call,     \* those that name the result of a call of an accessor
          None      \* "no entry"

ASSUME NameAssumption == Addr \subseteq Key /\ Call \subseteq Key /\ None \notin Key

Mode == {"read", "write"}

\* lockState without defers and refs.  "used" lives only within one call of
\* valueAndObject and is not state between operations.
Data == [locked  : [Key -> {"free"} \cup Mode],
         aliases : [Key -> Key \cup {None}],
         stored  : [Addr -> Key \cup {None}],
         substs  : [Call -> Key \cup {None}]]

EmptyData == [locked  |-> [k \in Key |-> "free"],
              aliases |-> [k \in Key |-> None],
              stored  |-> [k \in Addr |-> None],
              substs  |-> [k \in Call |-> None]]

-----------------------------------------------------------------------------
(***************************************************************************)
(* aliasKey follows the parents in "aliases" until a key has none.  Reach  *)
(* is the set of keys that loop visits, as the least set that holds k and  *)
(* is closed under "parent of"; the loop ends iff that set has a root.     *)
(***************************************************************************)
ClosedUnder(aliases, S) == \A x \in S : aliases[x] # None => aliases[x] \in S

Reach(aliases, k) ==
    {x \in Key : \A S \in SUBSET Key : k \in S /\ ClosedUnder(aliases, S) => x \in S}

Roots(aliases) == {k \in Key : aliases[k] = None}

AliasKey(d, k) == CHOOSE r \in Reach(d.aliases, k) : r \in Roots(d.aliases)

\* valueAndObject: a substitution overrides everything, then a stored value
\* stands for its location; one hop stands for the chain of stored values.
ValueAndObject(d, v) ==
    IF v \in Call /\ d.substs[v] # None THEN d.substs[v]
    ELSE IF v \in Addr /\ d.stored[v] # None THEN d.stored[v] ELSE v

\* The key under which a lock named by v is recorded.
LockKey(d, v) == AliasKey(d, ValueAndObject(d, v))

-----------------------------------------------------------------------------
(***************************************************************************)
(* Each operation that may fail has the condition on which it returns true *)
(* and its effect when it does; a false return changes nothing.            *)
(***************************************************************************)
IsHeld(d, v, exclusiveRequired) ==
    d.locked[LockKey(d, v)] \in IF exclusiveRequired THEN {"write"} ELSE Mode

CanLock(d, v) == d.locked[LockKey(d, v)] = "free"
Lock(d, v, mode) == [d EXCEPT !.locked[LockKey(d, v)] = mode]

CanUnlock(d, v, mode) == d.locked[LockKey(d, v)] = mode
Unlock(d, v) == [d EXCEPT !.locked[LockKey(d, v)] = "free"]

CanDowngrade(d, v) == d.locked[LockKey(d, v)] = "write"
Downgrade(d, v) == [d EXCEPT !.locked[LockKey(d, v)] = "read"]

StoreValue(d, addr, v) == [d EXCEPT !.stored[addr] = v]
SubstituteKey(d, v, key) == [d EXCEPT !.substs[v] = key]

\* Mutants: no early return, the lock copied instead of moved, the left mode kept.
CanAliasAlways(d, left, right) == TRUE
AliasCopiesLock(d, left, right) ==
    LET l == LockKey(d, left)
        r == LockKey(d, right)
    IN  [d EXCEPT !.aliases[l] = r,
                  !.locked[r] = IF d.locked[l] = "free" THEN @ ELSE d.locked[l]]
AliasKeepsLeftMode(d, left, right) ==
    LET l == LockKey(d, left)
        r == LockKey(d, right)
    IN  [d EXCEPT !.aliases[l] = r,
                  !.locked = IF d.locked[l] = "free" THEN @
                             ELSE [@ EXCEPT ![r] = d.locked[l], ![l] = "free"]]

\* addAlias returns early when the two names already have one root.
CanAlias(d, left, right) == LockKey(d, left) # LockKey(d, right)

\* Otherwise the left root becomes a child of the right one, and a lock held
\* under the left root moves there, keeping the stronger of the two modes.
Alias(d, left, right) ==
    LET l == LockKey(d, left)
        r == LockKey(d, right)
        moved == IF "write" \in {d.locked[l], d.locked[r]} THEN "write" ELSE "read"
    IN  [d EXCEPT !.aliases[l] = r,
                  !.locked = IF d.locked[l] = "free" THEN @
                             ELSE [@ EXCEPT ![r] = moved, ![l] = "free"]]

\* isSubset and isCompatible compare the recorded keys, not what they name.
IsSubset(d, e) == \A k \in Key : d.locked[k] # "free" =>
                     e.locked[k] \in IF d.locked[k] = "write" THEN {"write"} ELSE Mode
IsCompatible(d, e) == IsSubset(d, e) /\ IsSubset(e, d)
=============================================================================
