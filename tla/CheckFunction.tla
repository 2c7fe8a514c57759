--------------------------- MODULE CheckFunction ---------------------------
(***************************************************************************)
(* The walk of one function (checkFunction, checkBasicBlock): a depth      *)
(* first search of the flow graph that carries the lock state down every   *)
(* edge.  A block entered before with compatible locks is not entered      *)
(* again (seen), nor is one the search is inside of (the recursion guard). *)
(*                                                                         *)
(* A lock state is a value here: that forks are separate values is what    *)
(* LockState shows.  Of an instruction only what the lock state depends on *)
(* is kept: it is a call with lock annotations, a sync.Mutex method being  *)
(* one that acquires or releases its receiver, the call of a function      *)
(* literal, which is walked where it is called, or the defer of one.       *)
(***************************************************************************)
EXTENDS Integers, Paths, TLC

CONSTANTS Lock,    \* the locks, all of them exclusive
          Shape,   \* the flow graphs: the sequence of the successors of each block
          Call,    \* the calls a block may make
          MaxCalls, \* bound on the number of calls of a function
          Room,    \* bound on the number of calls of the first block; others make one
          None     \* "no state"

\* The facts of a function: the locks that must be held, are held after, must not be held.
Facts == [entry : SUBSET Lock, exit : SUBSET Lock, excluded : SUBSET Lock]

\* A call, or its defer: a function with facts, body None, or a literal without
\* facts, whose body is the sequence of the calls in it.
Annotated == [entry : SUBSET Lock, exit : SUBSET Lock, excluded : SUBSET Lock,
              deferred : BOOLEAN, body : {None}]
Literal == [entry : {{}}, exit : {{}}, excluded : {{}}, deferred : BOOLEAN,
            body : Seq(Annotated)]

ASSUME CallAssumption == Call \subseteq Annotated \cup Literal
ASSUME BoundAssumption == MaxCalls \in Nat /\ Room \in Nat

\* The SSA builder leaves no block that cannot be reached.
ASSUME ShapeAssumption == \A graph \in Shape :
    /\ graph \in Seq(Seq(DOMAIN graph)) /\ graph # <<>>
    /\ \A b \in DOMAIN graph : \E p \in PathsOf(graph) : Last(p) = b

VARIABLES succs,   \* block -> the sequence of its successors; no successor: it returns
          code,    \* block -> the calls it makes
          facts,   \* the facts of the function walked, lff
          shown,   \* the kinds of the diagnostics that are not dropped
          stack,   \* the frames of checkBasicBlock, outermost first
          seen,    \* block -> the state it was last entered with
          reports, \* the kinds of the diagnostics reported
          recover  \* whether the recover block is still to be scanned

input == <<succs, code, facts, shown>>
vars == <<succs, code, facts, shown, stack, seen, reports, recover>>

Block == DOMAIN succs
Entry == 1
Returns(b) == succs[b] = <<>>

-----------------------------------------------------------------------------
(***************************************************************************)
(* A block on a lock state: the locks held, the stack of deferred calls,   *)
(* the kinds of the checks that failed on the way.                         *)
(***************************************************************************)
Kinds == {"call", "literal", "return", "incompatible", "recover"}
State == [held : SUBSET Lock, defers : Seq(Call), failed : SUBSET Kinds]

ASSUME NoneAssumption == None \notin State

\* checkFunctionCall: the checks of the annotations and of the lock primitives,
\* then the update of the locks, which is made whether or not a check failed.
CallFails(held, c) ==
    \/ c.excluded \cap held # {}
    \/ ~(c.entry \subseteq held)
    \/ (c.exit \ c.entry) \cap held # {}
DoAnnotated(s, c) ==
    [s EXCEPT !.held = (@ \ (c.entry \ c.exit)) \cup (c.exit \ c.entry),
              !.failed = @ \cup IF CallFails(s.held, c) THEN {"call"} ELSE {}]

\* The SSA builder leaves RunDefers out of a function that defers nothing.
Defers(calls) == \E i \in 1 .. Len(calls) : calls[i].deferred

\* The body of a literal: its calls, then those it defers, the last of them first.
DoBody(s, body) ==
    LET after[n \in 0 .. Len(body)] ==
            IF n = 0 THEN s
            ELSE IF body[n].deferred THEN after[n - 1] ELSE DoAnnotated(after[n - 1], body[n])
        ran[n \in 0 .. Len(body)] ==
            IF n = 0 THEN after[Len(body)]
            ELSE LET c == body[Len(body) + 1 - n]
                 IN  IF c.deferred THEN DoAnnotated(ran[n - 1], c) ELSE ran[n - 1]
    IN  ran[Len(body)]

\* The state s and then what rest makes of the locks it holds.
Then(s, rest) == [s EXCEPT !.held = rest[s.held].held, !.failed = @ \cup rest[s.held].failed]

\* checkClosure.  A literal is walked in a fork of the caller's state, the calls the
\* caller deferred included, rest.  Its return is checked against no facts, and its
\* locks are dropped, as postFunctionCallUpdate is given the fork.  If it defers calls
\* it has a recover block, which returns with the locks the literal is called with.
DoLiteral(s, c, rest) ==
    LET End(own) == IF Defers(c.body) THEN Then(own, rest) ELSE own
        Dropped(end) == [s EXCEPT !.failed = end.failed
                            \cup (IF end.held # {} THEN {"literal"} ELSE {})
                            \cup (IF Defers(c.body) /\ s.held # {} THEN {"recover"} ELSE {})]
    IN  Dropped(End(DoBody(s, c.body)))

\* In a run a literal works on the locks of its caller and runs its own deferred
\* calls.  Noted: that it leaves other locks, or has its own while its caller has.
RunLiteral(s, c) ==
    LET Noted(own) == [own EXCEPT !.failed = @ \cup (IF own.held # s.held THEN {"changes"} ELSE {})
                            \cup (IF s.held # {} THEN {"locked"} ELSE {})
                            \cup (IF Defers(c.body) /\ s.defers # <<>> THEN {"mixed"} ELSE {})]
    IN  Noted(DoBody(s, c.body))

\* checkCall.  Calls are done in two ways: as the walk does them, or, inRun, as a run
\* of the function does.  They differ in the call of a literal.
DoCall(s, c, rest, inRun) ==
    IF c.body = None THEN DoAnnotated(s, c)
    ELSE IF inRun THEN RunLiteral(s, c) ELSE DoLiteral(s, c, rest)

\* What running the deferred calls, the last of them first, makes of the locks held.
Ran(defers, inRun) ==
    LET ran[n \in 0 .. Len(defers)] == [held \in SUBSET Lock |->
            LET s == [held |-> held, defers |-> SubSeq(defers, 1, n - 1), failed |-> {}]
            IN  IF n = 0 THEN s
                ELSE Then(DoCall(s, defers[n], ran[n - 1], inRun), ran[n - 1])]
    IN  ran[Len(defers)]

\* RunDefers: pops and checks the most recent defer until there is none.
RunDefers(s, inRun) == [Then(s, Ran(s.defers, inRun)) EXCEPT !.defers = <<>>]

\* The instructions of a block, each a call or the defer of one.
DoCalls(s, calls, inRun) ==
    LET after[n \in 0 .. Len(calls)] ==
            IF n = 0 THEN s
            ELSE LET t == after[n - 1]
                 IN  IF calls[n].deferred THEN [t EXCEPT !.defers = Append(@, calls[n])]
                     ELSE DoCall(t, calls[n], Ran(t.defers, inRun), inRun)
    IN  after[Len(calls)]

DoBlock(s, b, inRun) ==
    LET t == DoCalls(s, code[b], inRun) IN IF Returns(b) THEN RunDefers(t, inRun) ELSE t

\* The two checks of a return: every lock of HeldOnExit is held, and no other.
ReturnFails(b, s) == Returns(b) /\ s.held # facts.exit

\* Mutant: states are compared by the number of locks.
CompatibleByCount(s, t) == Cardinality(s.held) >= Cardinality(t.held)

\* isCompatible compares the locks, not the deferred calls.
Compatible(s, t) == s.held = t.held

-----------------------------------------------------------------------------
\* A call of checkBasicBlock, its instructions done: the block, its state, the
\* state at the return it found so far, the next successor.
Frame(b, parent) ==
    LET s == DoBlock([parent EXCEPT !.failed = {}], b, FALSE)
    IN  [block |-> b, ls |-> s, rls |-> IF Returns(b) THEN s ELSE None, next |-> 1]

\* Without -wrappers a diagnostic that has no position is dropped: that of the
\* return of a recover block, and of the return at the end of a function, or of a
\* literal, that does not say "return".
Implied == {"literal", "return"}
Shown == {Kinds, Kinds \ {"recover"}, Kinds \ ({"recover"} \cup Implied)}

FrameReports(f) ==
    shown \cap (f.ls.failed \cup IF ReturnFails(f.block, f.ls) THEN {"return"} ELSE {})

\* The locks HeldOnEntry names are taken before the walk.
Start == [held |-> facts.entry, defers |-> <<>>, failed |-> {}]

Top == stack[Len(stack)]
Below == SubSeq(stack, 1, Len(stack) - 1)
OnStack == {stack[i].block : i \in 1 .. Len(stack)}
Succ == succs[Top.block][Top.next]
Advanced(f) == [f EXCEPT !.next = @ + 1]

Init == /\ succs \in Shape
        /\ \E first \in BoundedSeq(Call, Room), blocks \in SUBSET (DOMAIN succs \ {Entry}) :
             /\ Len(first) + Cardinality(blocks) <= MaxCalls
             /\ \E one \in [blocks -> Call] :
                  code = [b \in DOMAIN succs |-> IF b = Entry THEN first
                                                 ELSE IF b \in blocks THEN <<one[b]>> ELSE <<>>]
        /\ facts \in Facts /\ facts.excluded = {}
        /\ shown \in Shown
        /\ stack = <<Frame(Entry, Start)>>
        /\ seen = [b \in Block |-> IF b = Entry THEN Start ELSE None]
        /\ reports = FrameReports(Frame(Entry, Start))
        /\ recover = \E b \in Block : Defers(code[b])

Looking == stack # <<>> /\ Top.next <= Len(succs[Top.block])
Known(b) == seen[b] # None /\ Compatible(seen[b], Top.ls)

\* Mutants: no recursion guard, the successor works on the state itself, not a fork.
EnterUnguarded ==
    /\ Looking /\ ~Known(Succ)
    /\ LET f == Frame(Succ, Top.ls) IN
         /\ stack' = Append(stack, f)
         /\ seen' = [seen EXCEPT ![Succ] = Top.ls]
         /\ reports' = reports \cup FrameReports(f)
    /\ UNCHANGED <<input, recover>>
EnterUnforked ==
    /\ Looking /\ ~Known(Succ) /\ Succ \notin OnStack
    /\ LET f == Frame(Succ, Top.ls) IN
         /\ stack' = Append(Append(Below, [Top EXCEPT !.ls = f.ls]), f)
         /\ seen' = [seen EXCEPT ![Succ] = Top.ls]
         /\ reports' = reports \cup FrameReports(f)
    /\ UNCHANGED <<input, recover>>

\* checkBasicBlock on the next successor, its instructions included.
Enter ==
    /\ Looking /\ ~Known(Succ) /\ Succ \notin OnStack
    /\ LET f == Frame(Succ, Top.ls) IN
         /\ stack' = Append(stack, f)
         /\ seen' = [seen EXCEPT ![Succ] = Top.ls]
         /\ reports' = reports \cup FrameReports(f)
    /\ UNCHANGED <<input, recover>>

\* It returns nil at once for a block known or being walked.
Skip ==
    /\ Looking /\ (Known(Succ) \/ Succ \in OnStack)
    /\ stack' = Append(Below, Advanced(Top))
    /\ UNCHANGED <<input, seen, reports, recover>>

\* It returns the return state it found, which must agree with the caller's.
Leave ==
    /\ stack # <<>> /\ ~Looking
    /\ IF Below = <<>>
       THEN stack' = <<>> /\ UNCHANGED reports
       ELSE LET caller == stack[Len(stack) - 1]
                pls == Top.rls
            IN  /\ stack' = Append(Front(Below),
                        Advanced([caller EXCEPT !.rls = IF pls = None THEN @ ELSE pls]))
                /\ reports' = reports \cup
                     IF pls # None /\ caller.rls # None /\ ~Compatible(caller.rls, pls)
                     THEN {"incompatible"} ELSE {}
    /\ UNCHANGED <<input, seen, recover>>

\* The recover block, which a function that defers has: nothing but a return, walked
\* from the state at the entry, without the deferred calls.
ScanRecover ==
    /\ stack = <<>> /\ recover
    /\ recover' = FALSE
    /\ reports' = reports \cup (shown \cap IF Start.held # facts.exit THEN {"recover"} ELSE {})
    /\ UNCHANGED <<input, stack, seen>>

Done == stack = <<>> /\ ~recover
Next == Enter \/ Skip \/ Leave \/ ScanRecover \/ (Done /\ UNCHANGED vars)

Spec == Init /\ [][Next]_vars

-----------------------------------------------------------------------------
\* The search is never twice inside a block, so it ends.
TypeOK == /\ seen \in [Block -> State \cup {None}]
          /\ reports \subseteq Kinds
          /\ \A i \in 1 .. Len(stack) :
               /\ stack[i].block \in Block /\ stack[i].ls \in State
               /\ stack[i].rls \in State \cup {None}
               /\ stack[i].next \in 1 .. Len(succs[stack[i].block]) + 1
               /\ \A j \in 1 .. i - 1 : stack[j].block # stack[i].block

(***************************************************************************)
(* What the function does: the runs of its body that enter no block twice, *)
(* each a path in the flow graph, and the state at the end of each.        *)
(***************************************************************************)
RunsOf == [graph \in Shape |-> PathsOf(graph)]
Runs == RunsOf[succs]

After(run) ==
    LET after[n \in 0 .. Len(run)] ==
            IF n = 0 THEN Start ELSE DoBlock(after[n - 1], run[n], TRUE)
    IN  after[Len(run)]
SomeRun(what) == \E p \in Runs : what \in After(p).failed

\* A run goes wrong in a call, or at a return.
GoesWrong(run, s) == "call" \in s.failed \/ ("return" \in shown /\ ReturnFails(Last(run), s))
SomeRunWrong == \E p \in Runs : GoesWrong(p, After(p))

\* The same block, entered with the same locks and other deferred calls.
Confused(p, q) == Last(p) = Last(q) /\ Compatible(After(Front(p)), After(Front(q)))
                  /\ After(Front(p)).defers # After(Front(q)).defers

\* A run that comes back to a block holds the locks it first came with.
RoundsAgree(p) ==
    \A n \in 1 .. Len(p) : p[n] \in Range(succs[Last(p)]) =>
        Compatible(IF n = 1 THEN Start ELSE After(SubSeq(p, 1, n - 1)), After(p))

\* A loop is entered at its head: a block that a run comes back to is on every run
\* that ends where this one does.  True of every function without goto.
LoopsHaveHeads ==
    \A p, q \in Runs : Last(p) = Last(q) => Range(succs[Last(q)]) \cap Range(q) \subseteq Range(p)

\* What the walk overlooks.  What a literal does to the locks is lost to its caller.
\* The recursion guard, which is there to stop at loops, keeps the search out of a block
\* it is inside of, whatever the locks, also where a run gets there for the first time.
\* And of two runs that get somewhere with the same locks one is walked.
Overlooked == \/ SomeRun("changes") \/ ~LoopsHaveHeads
              \/ \E p, q \in Runs : Confused(p, q)

\* A function that has a wrong run does not pass, but for that: every run is walked, or
\* one that holds the same locks and has deferred the same calls.
NothingMissed == Done /\ reports = {} /\ SomeRunWrong => Overlooked

\* A function that is reported has a wrong run, or runs that return with
\* different locks: the walk is only ever in a state that some run reaches.  Of
\* literals this holds that are called with no lock held, and do not defer
\* calls while their caller has some deferred.  The recover block is reported of
\* every function that defers and is to return with other locks.
NoFalseAlarm ==
    Done /\ reports \ {"recover"} # {} =>
        \/ SomeRunWrong \/ SomeRun("changes") \/ SomeRun("locked") \/ SomeRun("mixed")
        \/ \E p, q \in Runs : /\ Returns(Last(p)) /\ Returns(Last(q))
                              /\ ~Compatible(After(p), After(q))
=============================================================================
