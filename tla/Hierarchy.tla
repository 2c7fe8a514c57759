----------------------------- MODULE Hierarchy -----------------------------
(***************************************************************************)
(* The direction of a nesting within a hierarchical class, one function at *)
(* a time (analyzeFunction with checkHierarchy).  Both locks have the same *)
(* class, so the walk keeps the instances that hold one, each as the SSA   *)
(* value that received the call of Lock, and an acquisition is reported    *)
(* when its receiver was read from such a value through the parent field.  *)
(*                                                                         *)
(* What decides is the identity of values.  Every time a field is written  *)
(* out in the source it is a value of its own; a parameter, or a variable  *)
(* that a field was read into, is one value wherever it is used.           *)
(***************************************************************************)
EXTENDS Integers, Paths

CONSTANTS Shape,     \* the flow graphs: the sequence of the successors of each block
          Param,     \* the parameters, pointers to instances
          Local,     \* variable -> the expression that was read into it
          Result,    \* variable -> the expression a function returned for it
          Field,     \* the fields of the type
          Parent,    \* the one that is the parent
          Struct,    \* how the type may be declared
          Instr,     \* the calls of Lock and Unlock a block may make
          MaxCalls,  \* bound on the number of calls of a function
          Room,      \* bound on the number of calls of the first block; others make one
          MaxParentHops,
          Object, Heaps, Bindings, \* the instances a run works on, their fields, the parameters
          None       \* "no field", "no state", "nil"

\* An expression: a variable and the fields read from it.
Var == Param \cup DOMAIN Local \cup DOMAIN Result
Expr == [var : Var, path : Seq(Field)]

\* A declaration: the groups of fields with one comment, in order, whether the
\* comment has +lockhierarchyedge, and whether the fields have the type itself.
Group == [names : Seq(Field), edge : BOOLEAN, self : BOOLEAN]

\* The SSA values: a variable, and the fields read since, each at the place where it is
\* written out.  walkState: the receivers that hold a lock, the calls deferred on the way.
Written == [field : Field \cup {"lock"}, at : DOMAIN Local \cup (Nat \X Nat)]
Value == [root : Var, reads : Seq(Written)]
CallOn == [op : {"lock", "unlock"}, receiver : Value, at : Nat \X Nat]
State == [held : SUBSET Value, deferred : Seq(CallOn)]

ASSUME HierarchyAssumption ==
    /\ \A graph \in Shape : /\ graph \in Seq(Seq(DOMAIN graph)) /\ graph # <<>>
                           /\ \A b \in DOMAIN graph : \E p \in PathsOf(graph) : Last(p) = b
    /\ \A v \in DOMAIN Local : Local[v] \in Expr /\ Local[v].var \in Param
    /\ \A v \in DOMAIN Result : Result[v] \in Expr /\ Result[v].var \in Param
    /\ Param \cap (DOMAIN Local \cup DOMAIN Result) = {} /\ DOMAIN Local \cap DOMAIN Result = {}
    /\ Parent \in Field /\ "lock" \notin Field
    /\ Struct \subseteq [groups : Seq(Group), infer : BOOLEAN]
    /\ Instr \subseteq [op : {"lock", "unlock"}, of : Expr, deferred : BOOLEAN]
    /\ MaxParentHops \in Nat \ {0}
    /\ None \notin Field \cup State /\ MaxCalls \in Nat /\ Room \in Nat
    /\ IsFiniteSet(Object) /\ Heaps \subseteq [Object -> [Field -> Object \cup {None}]]
    /\ Bindings \subseteq [Param -> Object]

VARIABLES succs, code, \* the function: block -> successors, block -> calls
          struct,   \* how the type is declared
          lockedBy, \* "method" of the type, "field" that is promoted, or "declared" lock type
          unwalked,     \* the blocks still to walk, in order
          in,       \* block -> the state that reaches it
          reports   \* the places of the acquisitions reported

input == <<succs, code, struct, lockedBy>>
hierVars == <<succs, code, struct, lockedBy, unwalked, in, reports>>

Block == DOMAIN succs
Entry == 1

-----------------------------------------------------------------------------
\* edgeFieldName: the first field annotated, of those that are declared alone;
\* else, with -hierarchyinfer, the only field of the type itself.
Marked(s) == SelectSeq(s.groups, LAMBDA g : g.edge /\ Len(g.names) = 1)
SelfTyped(s) == {f \in Field : \E i \in 1 .. Len(s.groups) :
                                  s.groups[i].self /\ f \in Range(s.groups[i].names)}
EdgeField(s) ==
    IF Marked(s) # <<>> THEN Marked(s)[1].names[1]
    ELSE IF s.infer /\ Cardinality(SelfTyped(s)) = 1 THEN CHOOSE f \in SelfTyped(s) : TRUE
    ELSE None

(***************************************************************************)
(* Values of expressions at a place; a field that was read into a variable *)
(* was read there.                                                         *)
(***************************************************************************)
Reads(path, at) == [i \in 1 .. Len(path) |-> [field |-> path[i], at |-> at]]
Base(var) == IF var \in DOMAIN Local
             THEN [root |-> Local[var].var, reads |-> Reads(Local[var].path, var)]
             ELSE [root |-> var, reads |-> <<>>]
ValueOf(e, at) == [Base(e.var) EXCEPT !.reads = @ \o Reads(e.path, at)]

\* receiverOf: a promoted method is called on the address of the lock.
Receiver(e, at) ==
    IF lockedBy = "field" THEN [ValueOf(e, at) EXCEPT !.reads = @ \o Reads(<<"lock">>, at)]
    ELSE ValueOf(e, at)

\* lockOwner: one field is stripped that has the type of a lock.  When the type is
\* declared to be a lock, the field that holds the parent is such a field.
IsLockField(field) == field = "lock" \/ lockedBy = "declared"
LockOwner(v) ==
    IF v.reads # <<>> /\ IsLockField(Last(v.reads).field) THEN [v EXCEPT !.reads = Front(@)] ELSE v

\* Mutant: any field leads to the parent.
DerivesThroughAny(acquired, base) ==
    /\ acquired.root = base.root /\ IsStrictPrefix(base.reads, acquired.reads)
    /\ Len(acquired.reads) - Len(base.reads) <= MaxParentHops

DerivesFromParent(acquired, base) ==
    /\ acquired.root = base.root /\ IsStrictPrefix(base.reads, acquired.reads)
    /\ Len(acquired.reads) - Len(base.reads) <= MaxParentHops
    /\ \A i \in Len(base.reads) + 1 .. Len(acquired.reads) :
          acquired.reads[i].field = EdgeField(struct)

\* checkHierarchy
Climbs(acquired, held) ==
    /\ EdgeField(struct) # None
    /\ \E h \in held : /\ LockOwner(h) # LockOwner(acquired)
                       /\ DerivesFromParent(LockOwner(acquired), LockOwner(h))

-----------------------------------------------------------------------------
\* What a call does to the state of the walk, and to what the walk has reported.
Call(i, at) == [op |-> i.op, receiver |-> Receiver(i.of, at), at |-> at]
Empty == [held |-> {}, deferred |-> <<>>]

Merge(s, t) ==
    [held |-> s.held \cup t.held,
     deferred |-> IF Len(t.deferred) > Len(s.deferred) THEN t.deferred ELSE s.deferred]

\* visitCall on the pair of a state and the reports.
Visit(w, c) ==
    IF c.op = "unlock" THEN [w EXCEPT !.state.held = @ \ {c.receiver}]
    ELSE [w EXCEPT !.state.held = @ \cup {c.receiver},
                   !.found = @ \cup IF Climbs(c.receiver, w.state.held) THEN {c.at} ELSE {}]

Instruction(w, i, at) ==
    IF i.deferred THEN [w EXCEPT !.state.deferred = Append(@, Call(i, at))]
    ELSE Visit(w, Call(i, at))

\* The calls of a block; and those that were deferred, at a return, in a fork of the state.
Body(b, w) ==
    LET done[n \in 0 .. Len(code[b])] ==
            IF n = 0 THEN w ELSE Instruction(done[n - 1], code[b][n], <<b, n>>)
    IN  done[Len(code[b])]
Deferred(w) ==
    LET calls == w.state.deferred
        done[n \in 0 .. Len(calls)] ==
            IF n = 0 THEN w ELSE Visit(done[n - 1], calls[Len(calls) - n + 1])
    IN  done[Len(calls)]

\* Mutant: the blocks in the order of their numbers.
ByIndex == [b \in Block |-> b]

\* blockOrder: the reverse postorder of the blocks, all of which are reached.  The
\* visits below a visit are nested at most as deep as there are blocks.
Search == [order : Seq(Block), seen : SUBSET Block]
VisitBlock(s, b, below) ==
    LET visit[n \in 0 .. Len(succs[b])] ==
            IF n = 0 THEN [s EXCEPT !.seen = @ \cup {b}] ELSE below[visit[n - 1]][succs[b][n]]
    IN  IF b \in s.seen THEN s ELSE [visit[Len(succs[b])] EXCEPT !.order = Append(@, b)]
BlockOrder ==
    LET visit[n \in 0 .. Len(succs)] ==
            [s \in Search |-> [b \in Block |-> IF n = 0 THEN s ELSE VisitBlock(s, b, visit[n - 1])]]
    IN  Reverse(visit[Len(succs)][[order |-> <<>>, seen |-> {}]][Entry].order)

-----------------------------------------------------------------------------
HierInit ==
    /\ succs \in Shape
    /\ \E first \in BoundedSeq(Instr, Room), blocks \in SUBSET (DOMAIN succs \ {Entry}) :
         /\ Len(first) + Cardinality(blocks) <= MaxCalls
         /\ \E one \in [blocks -> Instr] :
              code = [b \in DOMAIN succs |-> IF b = Entry THEN first
                                             ELSE IF b \in blocks THEN <<one[b]>> ELSE <<>>]
    /\ struct \in Struct /\ lockedBy \in {"method", "field", "declared"}
    /\ unwalked = BlockOrder
    /\ in = [b \in Block |-> IF b = Entry THEN Empty ELSE None]
    /\ reports = {}

\* analyzeFunction, one turn of its loop.
WalkBlock ==
    /\ unwalked # <<>>
    /\ LET b == Head(unwalked)
           done == Body(b, [state |-> IF in[b] = None THEN Empty ELSE in[b], found |-> reports])
           Reaching(s) == IF in[s] = None THEN done.state ELSE Merge(in[s], done.state)
       IN  /\ in' = [s \in Block |-> IF s \in Range(succs[b]) THEN Reaching(s) ELSE in[s]]
           /\ reports' = IF succs[b] = <<>> THEN Deferred(done).found ELSE done.found
    /\ unwalked' = Tail(unwalked)
    /\ UNCHANGED input

AllWalked == unwalked = <<>>
HierNext == WalkBlock \/ (AllWalked /\ UNCHANGED hierVars)
HierSpec == HierInit /\ [][HierNext]_hierVars

-----------------------------------------------------------------------------
(***************************************************************************)
(* What the function does on the instances.  A run is a path; it holds     *)
(* read locks, so it may hold one twice, and ends where it reads a field   *)
(* of nil.  It notes each climb: the lock of an instance is taken while    *)
(* the lock of one below it is held.                                       *)
(***************************************************************************)
Eval(heap, o, path) ==
    LET at[n \in 0 .. Len(path)] ==
            IF n = 0 THEN o ELSE IF at[n - 1] = None THEN None ELSE heap[at[n - 1]][path[n]]
    IN  at[Len(path)]
ObjectOf(heap, binding, e) ==
    LET via == IF e.var \in DOMAIN Local THEN Local[e.var]
               ELSE IF e.var \in DOMAIN Result THEN Result[e.var]
               ELSE [var |-> e.var, path |-> <<>>]
    IN  Eval(heap, binding[via.var], via.path \o e.path)

Above(heap, o) ==
    LET parents[n \in 0 .. Cardinality(Object)] ==
            IF n = 0 THEN o ELSE IF parents[n - 1] = None THEN None ELSE heap[parents[n - 1]][Parent]
    IN  {parents[n] : n \in 1 .. Cardinality(Object)} \ {None}

\* held: each lock held, by the object and the value it was taken through; later: the
\* places of the calls deferred.
Locked(r, heap, o, v, at) ==
    [r EXCEPT !.held = @ \cup {[object |-> o, value |-> v]},
              !.twice = @ \/ \E h \in r.held : h.object = o,
              !.climbs = @ \cup {[at |-> at, value |-> v, below |-> h.value] :
                                    h \in {x \in r.held : o \in Above(heap, x.object)}}]
Unlocked(r, o, v) ==
    [r EXCEPT !.held = {h \in @ : h.object # o},
              !.elsewhere = @ \/ \E h \in r.held : h.object = o /\ h.value # v]

At(place) == code[place[1]][place[2]]
Execute(heap, binding, r, at) ==
    LET i == At(at)
        o == ObjectOf(heap, binding, i.of)
        v == ValueOf(i.of, at)
    IN  IF r.crashed \/ o = None THEN [r EXCEPT !.crashed = TRUE]
        ELSE IF i.op = "lock" THEN Locked(r, heap, o, v, at) ELSE Unlocked(r, o, v)
Come(heap, binding, r, at) ==
    IF At(at).deferred THEN [r EXCEPT !.later = Append(@, at)] ELSE Execute(heap, binding, r, at)

RunBlock(heap, binding, r, b) ==
    LET ran[n \in 0 .. Len(code[b])] ==
            IF n = 0 THEN r ELSE Come(heap, binding, ran[n - 1], <<b, n>>)
    IN  ran[Len(code[b])]
Begin == [held |-> {}, climbs |-> {}, later |-> <<>>,
          twice |-> FALSE, elsewhere |-> FALSE, crashed |-> FALSE]
Ran(heap, binding, run) ==
    LET ran[n \in 0 .. Len(run)] ==
            IF n = 0 THEN Begin ELSE RunBlock(heap, binding, ran[n - 1], run[n])
    IN  ran[Len(run)]
Return(heap, binding, r) ==
    LET ran[n \in 0 .. Len(r.later)] ==
            IF n = 0 THEN r ELSE Execute(heap, binding, ran[n - 1], r.later[Len(r.later) - n + 1])
    IN  ran[Len(r.later)]
Outcome(heap, binding, run) ==
    LET r == Ran(heap, binding, run)
    IN  IF succs[Last(run)] = <<>> THEN Return(heap, binding, r) ELSE r

RunsOf == [graph \in Shape |-> PathsOf(graph)]
Outcomes == {Outcome(h, b, run) : h \in Heaps, b \in Bindings, run \in RunsOf[succs]}

\* Where paths meet they have deferred the same calls.
DefersAgree == \A p1, p2 \in RunsOf[succs], h \in Heaps, b \in Bindings :
    Last(p1) = Last(p2) => Ran(h, b, Front(p1)).later = Ran(h, b, Front(p2)).later

\* A loop is entered at its head: a block that a run comes back to is on every run
\* that ends where this one does.  True of every function without goto.
LoopsHaveHeads == \A p1, p2 \in RunsOf[succs] :
    Last(p1) = Last(p2) => Range(succs[Last(p1)]) \cap Range(p1) \subseteq Range(p2)

-----------------------------------------------------------------------------
\* "Reached through that field of an instance already holding its lock"
\* (README.md:857): wherever a run climbs to an instance read through the parent
\* field from the value it locked below, the acquisition is reported, locks
\* taken on one path and released on another included.  It is about runs that enter no
\* block twice, as Paths has them.  Left out as well: more hops than are walked, a read lock held twice of which one is released, a type declared a
\* lock itself, whose parent field is then stripped as its lock, deferred
\* acquisitions where paths meet that defer different calls, as merge keeps one list,
\* and loops that are entered elsewhere than at their head: no order of the blocks has
\* then each after those that lead to it.
ReadUp(c) == /\ c.value.root = c.below.root /\ IsStrictPrefix(c.below.reads, c.value.reads)
             /\ Len(c.value.reads) - Len(c.below.reads) <= MaxParentHops
             /\ \A i \in Len(c.below.reads) + 1 .. Len(c.value.reads) : c.value.reads[i].field = Parent
ClimbIsReported ==
    AllWalked /\ LoopsHaveHeads /\ EdgeField(struct) = Parent /\ lockedBy # "declared" =>
        \A r \in Outcomes : \A c \in r.climbs :
            ~r.twice /\ ReadUp(c) /\ (At(c.at).deferred => DefersAgree) => c.at \in reports

\* "A report from it is strong evidence" (README.md:907): an acquisition reported
\* is a climb in some run.  This holds where the type has its own Lock method, and
\* a lock is released through the variable it was taken through: the receiver of
\* a promoted Unlock is never the value Lock was called on.  Of deferred calls it
\* holds where the paths that meet defer the same.
SomeRunClimbs(p) == \E r \in Outcomes : \E c \in r.climbs : c.at = p
ReportIsAClimb ==
    /\ AllWalked /\ Marked(struct) # <<>> /\ lockedBy = "method"
    /\ \A r \in Outcomes : ~r.elsewhere
    => \A p \in reports : (At(p).deferred => DefersAgree) => SomeRunClimbs(p)
=============================================================================
