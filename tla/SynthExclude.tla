---------------------------- MODULE SynthExclude ----------------------------
(***************************************************************************)
(* The exclusions derived for methods that take a lock of their own        *)
(* receiver (synthesizeExcludes).  Rounds over the methods collect the     *)
(* locks each one takes, in its body, in the closures it runs itself, or   *)
(* through another method of the same receiver, until a round changes      *)
(* nothing; then the exclusions are added to the facts of each method,     *)
(* where a call site finds them.                                           *)
(***************************************************************************)
EXTENDS Integers, Sequences, FiniteSets

CONSTANTS Lock,             \* the lock fields of the receiver's struct
          Method,           \* its methods
          Programs,         \* the packages analyzed, see Package
          MaxRounds,        \* maxFixpointRounds
          MaxClosureDepth   \* maxClosureDepth

Mode == {"read", "write"}

\* An operation on the receiver ("own") or on another object of its type.
Op == [do : {"lock"}, of : Lock, mode : Mode, own : BOOLEAN]
      \cup [do : {"call"}, of : Method, own : BOOLEAN]

\* A body and the closures nested in it, one in the other: what each of them
\* does, and whether it is run by someone else (started with "go", or handed on).
Layer == [ops : SUBSET Op, spawned : BOOLEAN]

\* What a method is annotated with: for a lock "entry" (held on entry), "exit"
\* (held on exit only), "excluded", or nothing; and whether it is ignored.
Declared == [locks : [Lock -> {"none", "entry", "exit", "excluded"}], ignore : BOOLEAN]

Package == [code : [Method -> Seq(Layer)], declared : [Method -> Declared],
            order : Seq(Method)]

ASSUME LockAssumption == IsFiniteSet(Lock)
ASSUME RoundAssumption == MaxRounds \in Nat
ASSUME PackageAssumption ==
    \A p \in Programs : p \in Package /\ {p.order[i] : i \in DOMAIN p.order} = Method

VARIABLES package,   \* the package analyzed, its functions in the order of SrcFuncs
          found,     \* Method -> Lock -> the mode the method takes it in, "none" if it does not
          stage,     \* "rounds", "export", "done"
          round, at, changed, \* the loop of the rounds
          exported,  \* the methods whose derived exclusions are exported
          excludes   \* Method -> Lock -> the modes of a caller that its facts reject

vars == <<package, found, stage, round, at, changed, exported, excludes>>

-----------------------------------------------------------------------------
\* The bodies whose operations are attributed to m: itself and the closures it
\* runs itself, to the depth of maxClosureDepth.
Own(m) == {i \in DOMAIN package.code[m] :
             /\ i <= MaxClosureDepth + 1
             /\ \A j \in 1 .. i : ~package.code[m][j].spawned}
Ops(m) == UNION {package.code[m][i].ops : i \in Own(m)}

Stronger(modes) == IF "write" \in modes THEN "write" ELSE IF "read" \in modes THEN "read" ELSE "none"

\* noteDirectSelfLock, and what merge keeps of the callees' locks.  A method that
\* is started with "go" is a callee like any other: ssa.Go is a call instruction.
Direct(m, l) == {o.mode : o \in {p \in Ops(m) : p.do = "lock" /\ p.own /\ p.of = l}}
Callees(m) == {o.of : o \in {p \in Ops(m) : p.do = "call" /\ p.own}} \ {m}

\* Mutant: a call of a method on any object counts.
SelfLocksOfAny(m) ==
    LET callees == {o.of : o \in {p \in Ops(m) : p.do = "call"}} \ {m}
    IN  [l \in Lock |-> Stronger(Direct(m, l) \cup {found[c][l] : c \in callees})]

SelfLocksOf(m) ==
    [l \in Lock |-> Stronger(Direct(m, l) \cup {found[c][l] : c \in Callees(m)})]

Taken(locks) == {l \in Lock : locks[l] # "none"}

-----------------------------------------------------------------------------
NoLocks == [l \in Lock |-> "none"]
DeclaredOf(m, l) == package.declared[m].locks[l]

Init == /\ package \in Programs
        /\ found = [m \in Method |-> NoLocks]
        /\ stage = "rounds" /\ round = 0 /\ at = 1 /\ changed = FALSE
        /\ exported = {}
        /\ excludes = [m \in Method |-> [l \in Lock |->
                          IF DeclaredOf(m, l) = "excluded" THEN Mode ELSE {}]]

Current == package.order[at]

\* Mutant: a change is forgotten when the next method does not change.
CollectForgets ==
    /\ stage = "rounds" /\ round < MaxRounds /\ at <= Len(package.order)
    /\ LET locks == SelfLocksOf(Current)
           new == Cardinality(Taken(locks)) # Cardinality(Taken(found[Current]))
       IN  /\ found' = IF new THEN [found EXCEPT ![Current] = locks] ELSE found
           /\ changed' = new
    /\ at' = at + 1
    /\ UNCHANGED <<package, stage, round, exported, excludes>>

\* One method of a round.  Its locks are replaced when their number is another.
Collect ==
    /\ stage = "rounds" /\ round < MaxRounds /\ at <= Len(package.order)
    /\ LET locks == SelfLocksOf(Current)
           new == Cardinality(Taken(locks)) # Cardinality(Taken(found[Current]))
       IN  /\ found' = IF new THEN [found EXCEPT ![Current] = locks] ELSE found
           /\ changed' = (changed \/ new)
    /\ at' = at + 1
    /\ UNCHANGED <<package, stage, round, exported, excludes>>

\* The end of a round, or of the rounds.
EndRound ==
    /\ stage = "rounds" /\ round < MaxRounds /\ at > Len(package.order)
    /\ IF changed THEN round' = round + 1 /\ UNCHANGED stage
                  ELSE stage' = "export" /\ UNCHANGED round
    /\ at' = 1 /\ changed' = FALSE
    /\ UNCHANGED <<package, found, exported, excludes>>

GiveUp ==
    /\ stage = "rounds" /\ round >= MaxRounds
    /\ stage' = "export"
    /\ UNCHANGED <<package, found, round, at, changed, exported, excludes>>

\* A writer keeps out a caller that holds the lock in any mode, a reader one
\* that holds it for writing.
Conflicting(mode) == CASE mode = "write" -> Mode [] mode = "read" -> {"write"} [] OTHER -> {}

\* Mutant: the exclusions of a method are exported while the rounds go on.
ExportEarly(m) ==
    /\ stage # "done" /\ m \notin exported
    /\ exported' = exported \cup {m}
    /\ excludes' = IF package.declared[m].ignore THEN excludes
                   ELSE [excludes EXCEPT ![m] = [l \in Lock |->
                            IF DeclaredOf(m, l) = "none" THEN Conflicting(found[m][l]) ELSE @[l]]]
    /\ UNCHANGED <<package, found, stage, round, at, changed>>

\* exportSynthesizedExcludes, in the order of a Go map; what is annotated wins.
Export(m) ==
    /\ stage = "export" /\ m \notin exported
    /\ exported' = exported \cup {m}
    /\ excludes' = IF package.declared[m].ignore THEN excludes
                   ELSE [excludes EXCEPT ![m] = [l \in Lock |->
                            IF DeclaredOf(m, l) = "none" THEN Conflicting(found[m][l]) ELSE @[l]]]
    /\ UNCHANGED <<package, found, stage, round, at, changed>>

Finish ==
    /\ stage = "export" /\ exported = Method
    /\ stage' = "done"
    /\ UNCHANGED <<package, found, round, at, changed, exported, excludes>>

Done == stage = "done"
Next == Collect \/ EndRound \/ GiveUp \/ (\E m \in Method : Export(m)) \/ Finish
        \/ (Done /\ UNCHANGED vars)

Spec == Init /\ [][Next]_vars

-----------------------------------------------------------------------------
\* The types; nothing is exported before the rounds are over.
TypeOK == /\ found \in [Method -> [Lock -> Mode \cup {"none"}]]
          /\ stage \in {"rounds", "export", "done"}
          /\ round \in 0 .. MaxRounds /\ at \in Nat \ {0} /\ changed \in BOOLEAN
          /\ exported \in SUBSET Method /\ (stage = "rounds" => exported = {})
          /\ excludes \in [Method -> [Lock -> SUBSET Mode]]

(***************************************************************************)
(* What a method does: the least set of methods that holds those whose own *)
(* bodies take the lock in the mode and those that call or start one of    *)
(* the set on their receiver.                                              *)
(***************************************************************************)
Closed(S, l, mode) ==
    \A m \in Method : mode \in Direct(m, l) \/ Callees(m) \cap S # {} => m \in S
TakersOf(l, mode) == {m \in Method : \A S \in SUBSET Method : Closed(S, l, mode) => m \in S}

\* A caller that is kept out conflicts, if no annotation keeps it out: the method
\* takes the lock in a mode that excludes the caller's, in a body it runs itself or
\* through methods of the same receiver, whatever the order the methods were visited
\* in; and no annotation says that it is held on entry or on exit, as a method that
\* asks for a lock and keeps out who holds it could not be called at all.
NoFalseRejection ==
    \A m \in Method, l \in Lock : DeclaredOf(m, l) # "excluded" =>
        \A held \in excludes[m][l] :
            /\ DeclaredOf(m, l) = "none"
            /\ \E mode \in Mode : m \in TakersOf(l, mode) /\ held \in Conflicting(mode)

\* A caller that holds the lock for writing is kept out of every method that
\* takes it in any mode, through however many methods, unless the rounds gave
\* up or the method is annotated otherwise.
WriterIsRejected ==
    Done /\ round < MaxRounds =>
        \A m \in Method, l \in Lock, mode \in Mode :
            m \in TakersOf(l, mode) /\ DeclaredOf(m, l) = "none" /\ ~package.declared[m].ignore
            => "write" \in excludes[m][l]
=============================================================================
