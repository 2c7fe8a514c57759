------------------------------ MODULE LockGap ------------------------------
(***************************************************************************)
(* The lockgap analyzer, which runs on a function after its walk: a lock   *)
(* that is released and taken again in one body, or that the caller holds  *)
(* and the function gives up.  It does not look at lock states, but asks   *)
(* of every release which acquisition it dominates.                        *)
(*                                                                         *)
(* All locks are roots of their own here, the receiver's mutexes, and the  *)
(* calls that only take or only release a lock are those of its methods.   *)
(***************************************************************************)
EXTENDS CheckFunction

VARIABLES todo,  \* the lock operations still to be looked at
          gaps   \* the reports: kind, release, and the acquisition named or None

gapVars == <<succs, code, facts, shown, stack, seen, reports, recover, todo, gaps>>

-----------------------------------------------------------------------------
\* lockOperations: the calls of Lock and Unlock, but for a deferred release.  A
\* deferred acquisition stands where it is written.
IsAcquire(c) == c.body = None /\ c.entry = {} /\ c.exit # {}
IsRelease(c) == c.body = None /\ c.entry # {} /\ c.exit = {} /\ ~c.deferred
InstrOf(b) == {[block |-> b, index |-> i, call |-> code[b][i]] : i \in 1 .. Len(code[b])}
Ops == {o \in UNION {InstrOf(b) : b \in Block} : IsAcquire(o.call) \/ IsRelease(o.call)}

\* They are taken in the order of the blocks, and of the instructions in a block.
Earlier(o, p) == o.block < p.block \/ (o.block = p.block /\ o.index < p.index)
First(ops) == CHOOSE o \in ops : \A p \in ops \ {o} : Earlier(o, p)

\* The blocks that can be reached from those in from without going through block d.
Past(from, d) == {b \in Block : \A S \in SUBSET Block :
                    from \subseteq S /\ (\A x \in S : Range(succs[x]) \subseteq S \cup {d}) => b \in S}
Dominates(d, b) == d = b \/ b \notin Past({Entry} \ {d}, d)

\* Mutant: the acquisition can be reached from the release.
ReachesOnSomePath(rel, acq) ==
    IF rel.block = acq.block THEN rel.index < acq.index
    ELSE acq.block \in Past({rel.block}, None)

Reaches(rel, acq) ==
    IF rel.block = acq.block THEN rel.index < acq.index ELSE Dominates(rel.block, acq.block)

\* Mutant: what the function declares it releases counts as well.
HeldOnEntryAll == facts.entry

\* heldOnEntryKeys: without the locks the function declares it releases.
HeldOnEntry == facts.entry \cap facts.exit

\* The acquisitions of its lock that the release reaches; the first of them is named.
Again(rel) == {o \in Ops : IsAcquire(o.call) /\ o.call.exit = rel.call.entry /\ Reaches(rel, o)}

GapReport(kind, rel, acq) == [kind |-> kind, rel |-> rel, acq |-> acq]

\* Mutant: a release is looked at with no regard to what the caller holds.
VerdictOnOwn(rel) ==
    IF Again(rel) # {} THEN {GapReport("gap", rel, First(Again(rel)))} ELSE {}

\* The three reports on a release; none of a lock that was the function's own
\* and is not taken again.
Verdict(rel) ==
    LET caller == rel.call.entry \subseteq HeldOnEntry
    IN  IF Again(rel) # {}
        THEN {GapReport(IF caller THEN "split" ELSE "gap", rel, First(Again(rel)))}
        ELSE IF caller THEN {GapReport("ends", rel, None)} ELSE {}

-----------------------------------------------------------------------------
GapInit == Init /\ todo = Ops /\ gaps = {}

Walk == Next /\ ~Done /\ UNCHANGED <<todo, gaps>>

\* checkFunction of lockgap.go, one turn of its loop.
CheckRelease ==
    /\ Done /\ todo # {}
    /\ LET o == First(todo)
       IN  /\ todo' = todo \ {o}
           /\ gaps' = gaps \cup IF IsRelease(o.call) THEN Verdict(o) ELSE {}
    /\ UNCHANGED <<input, stack, seen, reports, recover>>

AllDone == Done /\ todo = {}
GapNext == Walk \/ CheckRelease \/ (AllDone /\ UNCHANGED gapVars)
GapSpec == GapInit /\ [][GapNext]_gapVars

-----------------------------------------------------------------------------
(***************************************************************************)
(* What the runs say.  A run does the instruction o when it goes through   *)
(* its block; a deferred call that it does not register it does not make.  *)
(***************************************************************************)
Places(run, b) == {n \in 1 .. Len(run) : run[n] = b}
Before(run, o, p) == \E n \in Places(run, o.block), m \in Places(run, p.block) :
                        n < m \/ (n = m /\ o.index < p.index)
Does(run, o) == Places(run, o.block) # {}

\* "Reached from the first on every path that reaches it at all" (lockgap.go:438-439):
\* a release is reported as followed by an acquisition exactly when some
\* acquisition of its lock is made in no run without the release before it.  The
\* critical section of each turn of a loop is therefore not reported.
GapIsOnEveryPath ==
    AllDone => \A rel \in Ops : IsRelease(rel.call) =>
        ((\E g \in gaps : g.rel = rel /\ g.kind # "ends") <=>
         (\E acq \in Ops : /\ IsAcquire(acq.call) /\ acq.call.exit = rel.call.entry
                          /\ \A run \in Runs : Does(run, acq) => Before(run, rel, acq)))

\* The calls that the analyzer knows, of Lock and Unlock, and those that leave the locks.
OnlyLocks == \A b \in Block : \A i \in 1 .. Len(code[b]) :
    LET c == code[b][i]
    IN  c.body = None /\ \/ c.entry = c.exit
                         \/ \E l \in Lock : \/ c.entry = {l} /\ c.exit = {}
                                            \/ c.entry = {} /\ c.exit = {l}

\* There is no way into blocks that the function does not get out of and return.
CanReturn == \A S \in (SUBSET Block) \ {{}} :
    (\A b \in S : Range(succs[b]) \subseteq S) => \E b \in S : Returns(b)

\* A function that passes its walk returns with the caller's lock, so "does not take it
\* back" would be wrong of it.  It is not said, unless the lock is taken back by a deferred
\* call, or by one that serves several releases, or is not because the turn of a loop
\* leaves other locks, which the walk does not see, or because it does not return.
Releases == {o \in Ops : IsRelease(o.call)}
EndsMeansEnds ==
    /\ AllDone /\ reports = {} /\ "return" \in shown
    /\ \A o, p \in Releases : o.call.entry = p.call.entry => o = p
    /\ \A o \in Ops : ~o.call.deferred
    /\ OnlyLocks /\ CanReturn /\ (\A p \in Runs : RoundsAgree(p)) /\ ~Overlooked
    => \A g \in gaps : g.kind # "ends"

\* The locks held when the run has done n of the instructions of its last block.
HeldAfter(run, n) == DoCalls(After(Front(run)), SubSeq(code[Last(run)], 1, n), TRUE).held

\* In a function that the analyzer does not report the caller's critical section is
\* whole, whatever the walk says of it.  Until it runs its deferred calls, no run gives
\* up a lock that the function was called with and is not declared to release.
SectionIsWhole ==
    AllDone /\ gaps = {} /\ OnlyLocks =>
        \A run \in Runs : \A n \in 0 .. Len(code[Last(run)]) :
            (facts.entry \cap facts.exit) \subseteq HeldAfter(run, n)
=============================================================================
