---------------------------- MODULE LockSummary ----------------------------
(***************************************************************************)
(* The summaries of a package's functions (analyzePackage).  Each round    *)
(* walks every function against the summaries of its callees, until a      *)
(* round changes none of them; a last walk of each function reports.       *)
(* Afterwards the program runs: one thread, calls and returns, so that     *)
(* what the analysis reported can be compared with what a run does.        *)
(*                                                                         *)
(* The functions are methods of one object and each class is the class of  *)
(* one of its locks, so a class and a lock are the same thing here, and    *)
(* every release and every call is on the receiver.  The blocks of a body  *)
(* are numbered in the order of blockOrder, its reverse postorder.         *)
(***************************************************************************)
EXTENDS Integers, SequencesExt

CONSTANTS Class,      \* the lock classes
          Function,   \* the functions of the package
          Programs,   \* the programs analyzed: the body of each function
          MaxRounds,  \* maxFixpointRounds
          MaxDepth,   \* bound on the depth of the stack of a run
          None        \* "no entry"

\* An instruction: "do" is lock or unlock with a class, call with a function,
\* or wait (a channel operation); "deferred" puts it off to the return.
Instr == [do : {"lock", "unlock"}, of : Class, deferred : BOOLEAN]
         \cup [do : {"call"}, of : Function, deferred : BOOLEAN]
         \cup [do : {"wait"}, of : {None}, deferred : BOOLEAN]

\* A body: the instructions and the successors of each block, and the classes
\* the function is annotated as holding on entry.
Body == [code : Seq(Seq(Instr)), succs : Seq(Seq(Nat)), entry : SUBSET Class]

\* What a walk carries from block to block (walkState): how often each class is
\* held, the caller's locks that were released, the calls deferred on the way.
State == [counts : [Class -> Nat], released : SUBSET Class, deferred : Seq(Instr)]

ASSUME FiniteAssumption == IsFiniteSet(Class) /\ IsFiniteSet(Function)
ASSUME BoundAssumption == MaxRounds \in Nat /\ MaxDepth \in Nat \ {0}
ASSUME NoneAssumption == (\A S \in SUBSET Class : S # None) /\ None \notin State
ASSUME ProgramAssumption ==
    \A p \in Programs, f \in Function :
        /\ p[f] \in Body /\ Len(p[f].code) = Len(p[f].succs) /\ Len(p[f].code) > 0
        /\ \A b \in DOMAIN p[f].succs : Range(p[f].succs[b]) \subseteq DOMAIN p[f].code

\* acquires: each class acquired, with what was released by then; a class that
\* is not acquired is None.  blocking: what was released by then, None if it does not.
Summary == [acquires : [Class -> (SUBSET Class) \cup {None}],
            pairs : SUBSET (Class \X Class),
            blocking : (SUBSET Class) \cup {None}]
NoSummary == [acquires |-> [c \in Class |-> None], pairs |-> {}, blocking |-> None]

\* What a walk reports: pairs held and acquired, classes held across a wait.
Report == [pairs : SUBSET (Class \X Class), waits : SUBSET Class]
NoReport == [pairs |-> {}, waits |-> {}]

VARIABLES body,      \* Function -> Body
          order,     \* the functions in the order of SrcFuncs
          phase,     \* "growing", then "reporting", then "running"
          round, at, changed, \* the loop of the fixpoint
          summary,   \* Function -> Summary, the exported facts
          reports,   \* Function -> Report
          thread,    \* the frames of the run, outermost first
          owner      \* Class -> the depth of the frame that holds it, 0 if none

analysis == <<body, order, phase, round, at, changed, summary, reports>>
vars == <<body, order, phase, round, at, changed, summary, reports, thread, owner>>

-----------------------------------------------------------------------------
(***************************************************************************)
(* The operations of classSet and walkState.                               *)
(***************************************************************************)
Entering(f) == [counts |-> [c \in Class |-> IF c \in body[f].entry THEN 1 ELSE 0],
                released |-> {}, deferred |-> <<>>]
Unreached == [counts |-> [c \in Class |-> 0], released |-> {}, deferred |-> <<>>]

EntryCount(f, c) == IF c \in body[f].entry THEN 1 ELSE 0
Held(w) == {c \in Class : w.counts[c] > 0}

Acquire(f, w, c) ==
    [w EXCEPT !.counts[c] = @ + 1,
              !.released = IF w.counts[c] + 1 >= EntryCount(f, c) THEN @ \ {c} ELSE @]
Release(f, w, c) ==
    IF w.counts[c] = 0 THEN [w EXCEPT !.released = @ \cup {c}]
    ELSE [w EXCEPT !.counts[c] = @ - 1,
                   !.released = IF w.counts[c] - 1 < EntryCount(f, c) THEN @ \cup {c} ELSE @]

\* Mutant: what one path into the block released counts as released.
MergeReleasedUnion(w, v) ==
    [counts |-> [c \in Class |-> IF v.counts[c] > w.counts[c] THEN v.counts[c] ELSE w.counts[c]],
     released |-> w.released \cup v.released,
     deferred |-> IF Len(v.deferred) > Len(w.deferred) THEN v.deferred ELSE w.deferred]

\* merge, at a join: held if held on one path, released if released on both,
\* the longer of the two lists of deferred calls.
Merge(w, v) ==
    [counts |-> [c \in Class |-> IF v.counts[c] > w.counts[c] THEN v.counts[c] ELSE w.counts[c]],
     released |-> w.released \cap v.released,
     deferred |-> IF Len(v.deferred) > Len(w.deferred) THEN v.deferred ELSE w.deferred]

-----------------------------------------------------------------------------
(***************************************************************************)
(* visitCall and visitChannelOp, on a walk: its state, the summary and the *)
(* report it has gathered so far.                                          *)
(***************************************************************************)
\* Mutant: the last set of released classes replaces the one before.
KeepLast(old, released) == released

\* addAcquire and addBlocking keep the intersection over all occurrences.
Keep(old, released) == IF old = None THEN released ELSE old \cap released

Noted(walk, pairs) == [walk EXCEPT !.sum.pairs = @ \cup pairs, !.rep.pairs = @ \cup pairs]

DoLock(f, walk, c) ==
    [Noted(walk, Held(walk.state) \X {c}) EXCEPT
        !.sum.acquires[c] = Keep(@, walk.state.released),
        !.state = Acquire(f, @, c)]

DoUnlock(f, walk, c) == [walk EXCEPT !.state = Release(f, @, c)]

DoWait(walk) == [walk EXCEPT !.sum.blocking = Keep(@, walk.state.released),
                             !.rep.waits = @ \cup Held(walk.state)]

\* A callee contributes its summary.  A function that calls itself is left out:
\* "the fixpoint already accounts for the function's own effects".
DoCall(f, walk, g) ==
    LET cs == summary[g]
        held == Held(walk.state)
        released == walk.state.released
        acquired == {c \in Class : cs.acquires[c] # None}
        pairs == {p \in held \X acquired : p[1] \notin cs.acquires[p[2]]}
        blocks == cs.blocking # None
    IN  IF f = g THEN walk
        ELSE [Noted(walk, pairs) EXCEPT
                !.sum.acquires = [c \in Class |-> IF c \in acquired
                                     THEN Keep(@[c], released \cup cs.acquires[c]) ELSE @[c]],
                !.sum.blocking = IF blocks THEN Keep(@, released \cup cs.blocking) ELSE @,
                !.rep.waits = IF blocks THEN @ \cup (held \ cs.blocking) ELSE @]

Visit(f, walk, i) ==
    CASE i.do = "lock"   -> DoLock(f, walk, i.of)
      [] i.do = "unlock" -> DoUnlock(f, walk, i.of)
      [] i.do = "call"   -> DoCall(f, walk, i.of)
      [] i.do = "wait"   -> DoWait(walk)

\* Mutant: deferred calls are taken up where they are written.
DeferAtOnce(f, walk, i) == Visit(f, walk, i)

Instruction(f, walk, i) ==
    IF i.deferred THEN [walk EXCEPT !.state.deferred = Append(@, i)] ELSE Visit(f, walk, i)

\* The walk after each prefix of the instructions of a block, and after each
\* prefix of the calls that run when the function returns.
Instructions(f, walk, code) ==
    LET after[n \in 0 .. Len(code)] ==
            IF n = 0 THEN walk ELSE Instruction(f, after[n - 1], code[n])
    IN  after
Deferreds(f, walk, calls) ==
    LET after[n \in 0 .. Len(calls)] ==
            IF n = 0 THEN walk ELSE Visit(f, after[n - 1], calls[n])
    IN  after

\* A block: its instructions, the deferred calls if it returns, its successors.
\* "in" maps a block to the state that reaches it, None so far.
WalkBlock(f, walk, b) ==
    LET start == IF walk.in[b] = None THEN Unreached ELSE walk.in[b]
        code == body[f].code[b]
        done == Instructions(f, [walk EXCEPT !.state = start], code)[Len(code)]
        calls == Reverse(done.state.deferred)
        exit == IF body[f].succs[b] = <<>> THEN Deferreds(f, done, calls)[Len(calls)] ELSE done
    IN  [exit EXCEPT !.in = [s \in DOMAIN @ |->
            IF s \notin Range(body[f].succs[b]) THEN @[s]
            ELSE IF @[s] = None THEN done.state ELSE Merge(@[s], done.state)]]

\* analyzeFunction: one pass over the blocks, starting from the summary so far.
NewWalk(f) == [state |-> Unreached, sum |-> summary[f], rep |-> NoReport,
               in |-> [b \in 1 .. Len(body[f].code) |-> IF b = 1 THEN Entering(f) ELSE None]]
Blocks(f) ==
    LET after[n \in 0 .. Len(body[f].code)] ==
            IF n = 0 THEN NewWalk(f) ELSE WalkBlock(f, after[n - 1], n)
    IN  after
Analyze(f) == Blocks(f)[Len(body[f].code)]

-----------------------------------------------------------------------------
Init == /\ body \in Programs
        /\ order \in SetToSeqs(Function)
        /\ phase = "growing" /\ round = 0 /\ at = 1 /\ changed = FALSE
        /\ summary = [f \in Function |-> NoSummary]
        /\ reports = [f \in Function |-> NoReport]
        /\ thread = <<>> /\ owner = [c \in Class |-> 0]

Current == order[at]

\* Mutant: a change is forgotten when the next function does not change.
GrowForgets ==
    /\ phase = "growing" /\ at <= Len(order)
    /\ LET next == Analyze(Current).sum IN
         /\ changed' = (next # summary[Current])
         /\ summary' = [summary EXCEPT ![Current] = next]
    /\ at' = at + 1
    /\ UNCHANGED <<body, order, phase, round, reports, thread, owner>>

\* One function of a round; the new summary is exported at once.
Grow ==
    /\ phase = "growing" /\ at <= Len(order)
    /\ LET next == Analyze(Current).sum IN
         /\ changed' = (changed \/ next # summary[Current])
         /\ summary' = [summary EXCEPT ![Current] = next]
    /\ at' = at + 1
    /\ UNCHANGED <<body, order, phase, round, reports, thread, owner>>

\* Mutant: "changed" is not reset for the next round.
EndRoundStale ==
    /\ phase = "growing" /\ at > Len(order)
    /\ IF changed /\ round <= MaxRounds
       THEN round' = round + 1 /\ UNCHANGED phase
       ELSE phase' = "reporting" /\ UNCHANGED round
    /\ at' = 1 /\ UNCHANGED changed
    /\ UNCHANGED <<body, order, summary, reports, thread, owner>>

\* The end of a round: another one if something changed and the bound allows it.
EndRound ==
    /\ phase = "growing" /\ at > Len(order)
    /\ IF changed /\ round <= MaxRounds
       THEN round' = round + 1 /\ UNCHANGED phase
       ELSE phase' = "reporting" /\ UNCHANGED round
    /\ at' = 1 /\ changed' = FALSE
    /\ UNCHANGED <<body, order, summary, reports, thread, owner>>

\* Phase two: the walk that reports, which writes to the summary as well.
ReportOn ==
    /\ phase = "reporting" /\ at <= Len(order)
    /\ LET walk == Analyze(Current) IN
         /\ reports' = [reports EXCEPT ![Current] = walk.rep]
         /\ summary' = [summary EXCEPT ![Current] = walk.sum]
    /\ at' = at + 1
    /\ UNCHANGED <<body, order, phase, round, changed, thread, owner>>

-----------------------------------------------------------------------------
(***************************************************************************)
(* A run of the program.  It starts in any function, with the locks held   *)
(* that the function is annotated to hold.  A frame is in a block, before  *)
(* instruction "next"; past the last one of a block that returns it runs   *)
(* its deferred calls.  A run that would lock a lock it holds, or unlock a *)
(* lock that is free, stops; so does one that returns with other locks     *)
(* held than it was called with: the analysis takes callees as balanced.   *)
(***************************************************************************)
NewFrame(f, held) == [fn |-> f, block |-> 1, next |-> 1, deferred |-> <<>>,
                      called |-> held, came |-> [s \in {1} |-> <<held, <<>>>>]]

Begin ==
    /\ phase = "reporting" /\ at > Len(order)
    /\ phase' = "running"
    /\ \E f \in Function :
         LET held == [c \in Class |-> IF c \in body[f].entry THEN 1 ELSE 0]
         IN  thread' = <<NewFrame(f, held)>> /\ owner' = held
    /\ UNCHANGED <<body, order, round, at, changed, summary, reports>>

Depth == Len(thread)
Frame == thread[Depth]
Code == body[Frame.fn].code[Frame.block]
Succs == body[Frame.fn].succs[Frame.block]
Running == phase = "running" /\ thread # <<>>
InBlock == Running /\ Frame.next <= Len(Code)
AtEnd == Running /\ Frame.next > Len(Code)
Returning == AtEnd /\ Succs = <<>>

\* The instruction about to run: the next one of the block, or the last deferred.
About == IF InBlock THEN IF Code[Frame.next].deferred THEN None ELSE Code[Frame.next]
         ELSE IF Returning /\ Frame.deferred # <<>> THEN Last(Frame.deferred) ELSE None

Moved(frame) == IF InBlock THEN [frame EXCEPT !.next = @ + 1]
                           ELSE [frame EXCEPT !.deferred = Front(@)]

RunDefer ==
    /\ InBlock /\ Code[Frame.next].deferred
    /\ thread' = [thread EXCEPT ![Depth].next = @ + 1,
                                ![Depth].deferred = Append(@, Code[Frame.next])]
    /\ UNCHANGED <<analysis, owner>>

RunInstr ==
    /\ Running /\ About # None
    /\ \/ /\ About.do = "lock" /\ owner[About.of] = 0
          /\ owner' = [owner EXCEPT ![About.of] = Depth]
          /\ thread' = [thread EXCEPT ![Depth] = Moved(@)]
       \/ /\ About.do = "unlock" /\ owner[About.of] # 0
          /\ owner' = [owner EXCEPT ![About.of] = 0]
          /\ thread' = [thread EXCEPT ![Depth] = Moved(@)]
       \/ /\ About.do = "wait" /\ thread' = [thread EXCEPT ![Depth] = Moved(@)]
          /\ UNCHANGED owner
       \/ /\ About.do = "call" /\ Depth < MaxDepth
          /\ \A c \in body[About.of].entry : owner[c] # 0
          /\ thread' = Append([thread EXCEPT ![Depth] = Moved(@)], NewFrame(About.of, owner))
          /\ UNCHANGED owner
    /\ UNCHANGED analysis

\* A run goes round a loop again unless it then holds a lock, or has deferred a
\* call, that it did not first come with: the analysis goes round once.  It goes
\* into a loop at its head: where a goto leads into the middle of one, a block
\* is walked before one that leads to it.
ComesBack(s) == LET first == Frame.came[s]
                IN  /\ \A c \in Class : owner[c] \in {0, first[1][c]}
                    /\ Frame.deferred = first[2]
RunBranch ==
    /\ AtEnd
    /\ \E s \in Range(Succs) :
         /\ IF s \in DOMAIN Frame.came THEN ComesBack(s) ELSE s > Frame.block
         /\ thread' = [thread EXCEPT ![Depth].block = s, ![Depth].next = 1,
                                     ![Depth].came = [t \in DOMAIN @ \cup {s} |->
                                         IF t \in DOMAIN @ THEN @[t] ELSE <<owner, Frame.deferred>>]]
    /\ UNCHANGED <<analysis, owner>>

RunReturn ==
    /\ Returning /\ Frame.deferred = <<>>
    /\ \A c \in Class : (owner[c] = 0) = (Frame.called[c] = 0)
    /\ thread' = Front(thread)
    /\ owner' = Frame.called
    /\ UNCHANGED analysis

RunStep == RunDefer \/ RunInstr \/ RunBranch \/ RunReturn

Analysis == Grow \/ EndRound \/ ReportOn \/ Begin

Next == Analysis \/ RunStep
Spec == Init /\ [][Next]_vars

-----------------------------------------------------------------------------
\* The types; of the rounds, that they end before the bound on them does it.
TypeOK == /\ phase \in {"growing", "reporting", "running"}
          /\ round \in 0 .. MaxRounds /\ at \in 1 .. Len(order) + 1 /\ changed \in BOOLEAN
          /\ summary \in [Function -> Summary]
          /\ reports \in [Function -> Report]
          /\ owner \in [Class -> 0 .. MaxDepth]
          /\ Len(thread) <= MaxDepth

\* The reports are made against settled summaries, whatever the order of the
\* functions: another walk of any of them would change nothing.
ReportsAreSettled ==
    phase # "growing" => \A f \in Function : Analyze(f).sum = summary[f]

\* A summary only grows: it gains classes and pairs, and what it says was
\* released by then shrinks, so that a caller is only ever told more.
Told(old, new) == old = None \/ (new # None /\ new \subseteq old)
SummariesGrow ==
    [][\A f \in Function :
         /\ summary[f].pairs \subseteq summary'[f].pairs
         /\ Told(summary[f].blocking, summary'[f].blocking)
         /\ \A c \in Class : Told(summary[f].acquires[c], summary'[f].acquires[c])]_vars

\* The frame at depth i holds c: it took it, or is annotated to be called with it.
Holds(i, c) == owner[c] = i \/ (c \in body[thread[i].fn].entry /\ owner[c] \in 1 .. i)

\* "list" says which calls a body has deferred after n instructions of block b,
\* whichever way it came to b.
Into(x, b) == {e \in DOMAIN x.code : b \in Range(x.succs[e])}
Ahead(x, b) == {e \in Into(x, b) : e < b}
Deferring(before, i) == IF i.deferred THEN Append(before, i) ELSE before
Defers(x, list) ==
    \A b \in DOMAIN x.code :
       /\ Ahead(x, b) = {} => list[<<b, 0>>] = <<>>
       /\ \A n \in 1 .. Len(x.code[b]) :
             list[<<b, n>>] = Deferring(list[<<b, n - 1>>], x.code[b][n])
       /\ \A e \in Into(x, b) : list[<<b, 0>>] = list[<<e, Len(x.code[e])>>]

\* The lists along one way to each block; there are no others if these are right.
ListsOf(x) ==
    LET list[p \in UNION {{b} \X (0 .. Len(x.code[b])) : b \in DOMAIN x.code}] ==
            IF p[2] > 0 THEN Deferring(list[<<p[1], p[2] - 1>>], x.code[p[1]][p[2]])
            ELSE IF Ahead(x, p[1]) = {} THEN <<>>
            ELSE LET e == CHOOSE e \in Ahead(x, p[1]) : TRUE IN list[<<e, Len(x.code[e])>>]
    IN  list
DefersAgree(f) == Defers(body[f], ListsOf(body[f]))

\* Where the code may overlook what happens above the frame at depth i: at a join
\* only one of two lists of deferred calls goes on, and a function that calls itself
\* directly is left out.
Overlooked(i) == \/ i < Depth /\ thread[i + 1].fn = thread[i].fn
                 \/ \E j \in i .. Depth : ~DefersAgree(thread[j].fn)

\* Every nesting of two locks that a run performs is reported in the function
\* that holds the outer one, through however many calls the inner one is taken,
\* and whatever was released and taken back on the way.
NestingsAreReported ==
    Running /\ About # None /\ About.do = "lock" =>
        \A i \in 1 .. Depth, c \in Class :
            Holds(i, c) => <<c, About.of>> \in reports[thread[i].fn].pairs \/ Overlooked(i)

\* Every wait that a run does with a lock held is reported where it is held.
WaitsAreReported ==
    Running /\ About # None /\ About.do = "wait" =>
        \A i \in 1 .. Depth, c \in Class :
            Holds(i, c) => c \in reports[thread[i].fn].waits \/ Overlooked(i)
=============================================================================
