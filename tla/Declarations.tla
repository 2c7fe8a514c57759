---------------------------- MODULE Declarations ----------------------------
(***************************************************************************)
(* The guards of the fields of a package's structures (structLockGuardFacts *)
(* of facts.go, blockguards.go, locktype.go).  The types are read in the    *)
(* order of their declarations, each with what is known by then: a type     *)
(* declared to be a lock is one only for the types that come after it.      *)
(***************************************************************************)
EXTENDS Integers, SequencesExt, FiniteSets

CONSTANTS Type,      \* the types declared in the package, structures all of them
          Inline,    \* those written in place, as the type of a field
          FieldName, \* names of fields
          Global,    \* the variables of the package that are mutexes
          Packages   \* the packages read

\* The types of other packages that a field may have.
Mutex == "sync.Mutex"
Data == "int"

\* What is written on a type: whether it is declared a lock, the guards of the
\* structure, and the groups of fields that share a type and their comments.  A
\* group without names is an embedded field, whose name is that of its type.
Path == Seq(FieldName \cup Type \cup Global) \ {<<>>}
Rule == [guard : Path, strict : BOOLEAN]
Group == [names : Seq(FieldName), type : Type \cup {Mutex, Data}, own : Seq(Path), exempt : BOOLEAN]
Declared == [lock : BOOLEAN, rules : Seq(Rule), groups : Seq(Group)]

ASSUME DeclarationsAssumption ==
    /\ IsFiniteSet(Type) /\ Mutex \notin Type /\ Inline \subseteq Type
    /\ \A p \in Packages, t \in Type :
         p[t] \in Declared /\ (t \in Inline => ~p[t].lock /\ p[t].rules = <<>>)

VARIABLES package, \* Type -> Declared
          order,   \* the types in the order of the source
          next,    \* the type that is read next
          locks,   \* lockPrimitiveFacts: the types known to be locks
          guarded, \* lockGuardFacts: the guards of each field, by name and lock
          reports  \* the diagnostics, with the field or the type they are about

declVars == <<package, order, next, locks, guarded, reports>>

-----------------------------------------------------------------------------
\* structFields: one field for each name of a group, one for an embedded type.
NamesOf(g) == IF g.names = <<>> THEN <<g.type>> ELSE g.names
Field(t, i, j) == LET g == package[t].groups[i]
                  IN  [of |-> t, at |-> <<i, j>>, name |-> NamesOf(g)[j], type |-> g.type,
                       embedded |-> g.names = <<>>]
FieldsOf(t) == UNION {{Field(t, i, j) : j \in DOMAIN NamesOf(package[t].groups[i])} :
                         i \in DOMAIN package[t].groups}
AllFields == UNION {FieldsOf(t) : t \in Type}

\* The comments of a field, those of its group.
Own(f) == package[f.of].groups[f.at[1]].own
Exempt(f) == package[f.of].groups[f.at[1]].exempt

\* The first of some fields of a structure.
First(fs) == CHOOSE f \in fs : \A g \in fs \ {f} :
    f.at[1] < g.at[1] \/ (f.at[1] = g.at[1] /\ f.at[2] < g.at[2])

\* Mutant: the path to a field of an embedded structure starts at that structure.
FindInside(t, name, below) ==
    LET own == {f \in FieldsOf(t) : f.name = name}
        through == {f \in FieldsOf(t) : f.embedded /\ f.type \in Type /\ below[f.type] # <<>>}
    IN  IF own # {} THEN <<First(own)>>
        ELSE IF through # {} THEN below[First(through).type] ELSE <<>>

\* findField: the field of that name, else that of the first embedded structure that
\* has one, as the fields on the way to it.  Empty when there is none.  What it finds
\* in each of the embedded structures is below.
Find(t, name, below) ==
    LET own == {f \in FieldsOf(t) : f.name = name}
        through == {f \in FieldsOf(t) : f.embedded /\ f.type \in Type /\ below[f.type] # <<>>}
        first == First(through)
    IN  IF own # {} THEN <<First(own)>>
        ELSE IF through # {} THEN <<first>> \o below[first.type] ELSE <<>>

\* No structure is embedded in itself, so each is come through once at most.
FindField(t, name) ==
    LET find[n \in 0 .. Cardinality(Type)] ==
            [u \in Type |-> IF n = 0 THEN <<>> ELSE Find(u, name, find[n - 1])]
    IN  find[Cardinality(Type)][t]

\* resolveFieldListParts: the fields a dotted name goes through, empty if it fails.
Onward(path, name) ==
    IF path = <<>> \/ Last(path).type \notin Type \/ FindField(Last(path).type, name) = <<>>
    THEN <<>> ELSE path \o FindField(Last(path).type, name)
Resolve(t, parts) ==
    LET way[n \in 0 .. Len(parts) - 1] ==
            IF n = 0 THEN FindField(t, parts[1]) ELSE Onward(way[n - 1], parts[n + 1])
    IN  way[Len(parts) - 1]

\* lockKind, isLockField
IsLock(type) == type = Mutex \/ type \in locks

-----------------------------------------------------------------------------
\* findLocal: a lock of the structure, else one of the package; that the name is
\* of a field that is not a lock is reported even so.  There is one guard or none.
LocalGuard(t, name) ==
    {[name |-> name, path |-> path] :
        path \in {p \in {Resolve(t, name)} : p # <<>> /\ IsLock(Last(p).type)}}
NotALock(t, name) == Resolve(t, name) # <<>> /\ LocalGuard(t, name) = {}
Guard(t, name) ==
    IF LocalGuard(t, name) # {} THEN LocalGuard(t, name)
    ELSE IF Len(name) = 1 /\ name[1] \in Global THEN {[name |-> name, path |-> <<>>]} ELSE {}

\* structGuardFor: the first guard of the structure, whether it holds or not.
Say(what, t, name) == [what |-> what, of |-> t, name |-> name]
StructGuard(t) ==
    LET rules == package[t].rules IN IF rules = <<>> THEN {} ELSE LocalGuard(t, rules[1].guard)
IsStrict(t) == package[t].rules[1].strict
StructReports(t) ==
    (IF Len(package[t].rules) > 1 THEN {Say("more than once", t, "")} ELSE {})
    \cup (IF package[t].rules # <<>> /\ StructGuard(t) = {} THEN {Say("no such lock", t, "")} ELSE {})

\* fillLockGuardFacts, on the comments of a field.
OwnGuards(f) == UNION {Guard(f.of, n) : n \in Range(Own(f))}
OwnReports(f) ==
    (IF \E n \in Range(Own(f)) : Guard(f.of, n) = {} \/ NotALock(f.of, n)
     THEN {Say("no such lock", f.of, f.name)} ELSE {})
    \cup (IF IsInjective(Own(f)) THEN {} ELSE {Say("more than once", f.of, f.name)})

\* Mutants: only the lock itself is left out; the guard is added to those of the field.
LeftOutItself(f, g) == Exempt(f) \/ f = Last(g.path) \/ OwnGuards(f) # {}
LeftOutUnlessOther(f, g) == Exempt(f) \/ f = Last(g.path) \/ IsLock(f.type)

\* applyStructGuard: what the guard of the structure does not cover.
LeftOut(f, g) == Exempt(f) \/ f = Last(g.path) \/ IsLock(f.type) \/ OwnGuards(f) # {}
GuardsOf(f, sg) == OwnGuards(f) \cup {g \in sg : ~LeftOut(f, g)}
ApplyReports(f, sg) ==
    (IF sg = {} /\ Exempt(f) THEN {Say("nothing to exempt", f.of, f.name)} ELSE {})
    \cup {Say("redundant", f.of, f.name) :
             g \in {h \in sg : /\ ~Exempt(f) /\ f # Last(h.path) /\ ~IsLock(f.type) /\ IsStrict(f.of)
                               /\ \E o \in OwnGuards(f) : o.name = h.name}}

\* structLockGuardFacts.  A structure written in place is read with the field it
\* is the type of; no guard of the structure around it reaches its fields.
ReadWith(t) == {u \in Type : \A S \in SUBSET Type :
    t \in S /\ (\A s \in S : \A f \in FieldsOf(s) :
                  f.type \in Inline /\ ~f.embedded => f.type \in S) => u \in S}
GuardFor(f, t) == IF f.of = t THEN StructGuard(t) ELSE {}

-----------------------------------------------------------------------------
DeclInit == /\ package \in Packages
            /\ order \in Bijection(1 .. Cardinality(Type \ Inline), Type \ Inline)
            /\ next = 1
            /\ locks = {}
            /\ guarded = [f \in AllFields |-> {}]
            /\ reports = {}

\* The loop of run over all types, the fields of each before it is known as a lock.
ReadType ==
    /\ next <= Len(order)
    /\ LET t == order[next]
           read == UNION {FieldsOf(u) : u \in ReadWith(t)}
       IN  /\ guarded' = [f \in AllFields |-> IF f \in read THEN GuardsOf(f, GuardFor(f, t))
                                              ELSE guarded[f]]
           /\ reports' = reports \cup StructReports(t)
                         \cup UNION {OwnReports(f) \cup ApplyReports(f, GuardFor(f, t)) : f \in read}
           /\ locks' = IF package[t].lock THEN locks \cup {t} ELSE locks
    /\ next' = next + 1
    /\ UNCHANGED <<package, order>>

AllRead == next > Len(order)
DeclNext == ReadType \/ (AllRead /\ UNCHANGED declVars)
DeclSpec == DeclInit /\ [][DeclNext]_declVars

-----------------------------------------------------------------------------
\* What a reader of the source knows: every declared lock is a lock.
IsReally(type) == type = Mutex \/ (type \in Type /\ package[type].lock)
Unknown(t, type) == /\ IsReally(type) /\ type # Mutex
                    /\ \E i, j \in DOMAIN order : i <= j /\ order[i] = t /\ order[j] = type

\* Every guard recorded is a chain of fields, each of the type of the one before,
\* that ends at a lock; only types that were read are known as locks.
IsChain(t, path) ==
    \A i \in 1 .. Len(path) : path[i].of = IF i = 1 THEN t ELSE path[i - 1].type
DeclTypeOK ==
    /\ locks = {order[i] : i \in {j \in 1 .. next - 1 : package[order[j]].lock}}
    /\ DOMAIN guarded = AllFields
    /\ \A f \in AllFields : \A g \in guarded[f] :
         IsChain(f.of, g.path) /\ (g.path = <<>> \/ IsReally(Last(g.path).type))

\* "Each field ends up with the guard a per-field annotation would have given it",
\* "every field except three" (README.md:256-265): in a package that passes, in
\* whatever order its types are declared, a field has its own guards, or that of
\* its structure unless it is exempt or a lock.  Left out are fields of a lock
\* type that is declared after the structure: they are guarded as data are.
Named(t, n) == [name |-> n, path |-> Resolve(t, n)]
ByHand(f) ==
    LET rules == package[f.of].rules
    IN  IF Own(f) # <<>> THEN {Named(f.of, n) : n \in Range(Own(f))}
        ELSE IF rules = <<>> \/ Exempt(f) \/ IsReally(f.type) THEN {}
        ELSE {Named(f.of, rules[1].guard)}
FieldsAreGuarded ==
    AllRead /\ reports = {} =>
        \A t \in Type \ Inline : \A f \in FieldsOf(t) :
            ~Unknown(t, f.type) => guarded[f] = ByHand(f)

\* "An expansion that covered the lock would make every critical section
\* unenterable" (test/blockguards/blockguards.go:70).  A lock can be taken when
\* the guards of the fields on the way to it can be: if that holds of the guards
\* written on the fields, it holds with those of the structures.  It fails where
\* there are locks each of which waits for another of them.
Guards(facts) == UNION {facts[f] : f \in AllFields}
AllEnterable(facts) == \A S \in (SUBSET Guards(facts)) \ {{}} :
    \E g \in S : \A f \in Range(g.path) : facts[f] \cap S = {}
Written == [f \in AllFields |-> OwnGuards(f)]
SectionsCanBeEntered == AllRead /\ AllEnterable(Written) => AllEnterable(guarded)

\* It holds where the locks are fields of the structure itself, of types known by
\* then.  The code leaves out the lock a guard names and not the fields on the
\* way to it, so a guard that goes through another field guards that field too.
DirectSectionsCanBeEntered ==
    /\ \A g \in Guards(guarded) : Len(g.path) <= 1
    /\ \A f \in AllFields : ~Unknown(f.of, f.type)
    => SectionsCanBeEntered
=============================================================================
