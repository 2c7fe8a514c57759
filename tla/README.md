# A TLA+ model of checklocks

Checklocks is a static analyzer for Go. It reads annotations of locks from
comments, and reports code that does not keep them. This directory holds TLA+
modules of the parts of it that carry state and decisions, TLC configurations
that check them on small instances, and proofs that TLAPS checks for every
instance. Files and line numbers are those of the repository (`src/` in
`PROJECT.json`); `README.md:482` is a line of the repository's own README.

The analyzer is sequential and its passes end. What makes it hard is something
else: it *simulates* programs that branch, loop, call each other and run
concurrently, with states that are shared between paths, caches that decide what
is looked at again, fixpoints over functions that call each other, and Go maps
that are walked in any order. A mistake in one of these does not crash. It makes
a lock misuse pass in silence, on a program no test has. So the properties here
compare what the analyzer concludes with what it is about: a set of paths, a run
of the analyzed program, a reachability relation.

## 1. Inventory

| Component | Code | State | Operations | Talks to |
|---|---|---|---|---|
| lock state | `state.go` | per path: held locks, aliases, stored values, substitutions, deferred calls; maps shared and counted | `fork`, `modify`, `lockField`, `unlockField`, `downgradeField`, `isHeld`, `addAlias`, `store`, `substituteKey`, `isCompatible`, `pushDefer`, `popDefer` | called by the function walk |
| function walk | `analysis.go` | `seen` (block -> state), recursion guard, return states | `checkBasicBlock`, `checkFunction`, `checkFunctionCall`, `checkGuards` | reads facts, changes lock states, reports to expectations |
| annotation facts | `facts.go`, `annotations.go`, `importfacts.go` | `functionFacts` of a function, guards of a field, exported between packages | `addGuardedBy`, `addAcquires`, `addReleases`, `addExcludes`, `checkGuard`, `fillLockGuardFacts` | read by the walk at every use |
| expectations | `expectations.go` | expected messages and exemptions of a line | `consider` | hears every report |
| lock order taxonomy | `lockorder.go`, `lockorder_order.go`, `lockorder_annotations.go`, `lockorder_facts.go` | edges, marks, the closed order, package facts | gather, `close`, cycle test, export | packages import each other's facts |
| lock order analysis | `lockorder_analysis.go`, `lockorder_lockset.go` | a summary per function, a walk state per block | `analyzePackage`, `analyzeFunction`, `visitCall`, `merge` | asks the taxonomy what a nesting violates |
| blocking | `lockblocking.go` | what a function waits for, in its summary | `visitChannelOp` | with the lock order analysis |
| derived exclusions | `synthexclude.go` | locks each method takes of its receiver | rounds, `exportSynthesizedExcludes` | adds facts that callers are checked against |
| unpublished objects | `fresh.go` | which functions publish a parameter, escapes of an object | `computePublishes`, `escapesOf`, `isFreshAt` | exempts accesses from guards |
| driver | `checklocks.go`, `cmd/` | flags, the order of passes | `run` | everything |
| structure guards | `blockguards.go`, `structLockGuardFacts` in `facts.go` | the lock types known so far | `structGuardFor`, `structFields`, `applyStructGuard` | adds guards of fields, read by the walk |
| lock gaps | `lockgap.go` | the lock operations of a function, as written | `lockOperations`, `reaches`, `heldOnEntryKeys` | runs on a function beside the walk |
| lock hierarchy | `lockorder_hierarchy.go`, `lockorder_classes.go` | per block: the values that hold a lock of a class | `acquire`, `release`, `merge`, `lockOwner`, `derivesFromParent`, `checkHierarchy` | part of the lock order walk |
| entry locks | `lockorder_entry.go` | classes held on entry | resolves a guard to a class | seeds the lock order walk |
| closures | `closure.go`, `checkClosure` in `analysis.go` | annotations of literals, by position; a fork of the caller's state | reads them; walks a literal where it is called | used by the walk |
| accessors, lock types, type assertions | `accessor.go`, `locktype.go`, `typeassert.go` | none | recognise a shape of code | used by the walk and the facts |
| lazy stringer | `lockstringer.go` | none | a syntactic search | reads guards |

What is hard, and what has to hold, by component:

* **Lock state.** Two paths share maps until one writes, and `popDefer` does not
  even clone. No path may see what another one did. Following aliases has to
  end and has to find the lock, whatever calls were made.
* **Function walk.** A block is not entered twice with the same locks, nor
  recursively. What is skipped must not hide a wrong path, and a report must be
  of a path that exists. A literal is walked where it is called, from a fork of
  its caller's state.
* **Lock gaps.** A search by dominance that knows nothing of lock states has to
  agree with the walk, which does: between them a caller's critical section is
  either whole or reported.
* **Declarations.** A guard of a structure has to mean what the same guard on
  every field would mean, in any order of the types, and must not guard the way
  to the lock itself.
* **Lock hierarchy.** Two locks of one class are told apart by the identity of
  SSA values. A climb from child to parent must be reported and nothing else.
* **Annotations.** Four operations look at each other's maps; the order of
  annotations must not admit a contradiction. Walking maps in any order must
  not change what a call site is told, two names for one lock included.
* **Taxonomy.** Every package computes the order from the facts of its imports,
  and must come to the conclusions the declarations below it imply, through
  diamonds and across packages that failed, and every package gets its turn.
* **Lock order and blocking.** Summaries grow in rounds. The last walk must be
  made against settled ones. What a run nests or waits under must be reported.
* **Derived exclusions.** Only callers that would deadlock may be kept out, and
  each writer that would must be, through any chain of methods.
* **Unpublished objects.** An access that is exempt from its guard must be of an
  object nobody else can reach, on any path, after any call.

The hazards, each with its line and the properties that watch it, are listed in
`PROJECT.json`.

## 2. Modules

| Module | Models | Built on |
|---|---|---|
| `LockOps` | the value of a lock state and its operations, as pure operators | |
| `LockValue` | what a lock state promises: every `*lockState` is a value of its own (abstract) | `LockOps` |
| `LockState` | the copy-on-write implementation; refines `LockValue` | `LockOps`, `INSTANCE LockValue` |
| `Taxonomy` | declared orders of packages that import each other | |
| `Declarations` | the guards of fields, from structures and fields, in the order of declarations | |
| `Paths` | the runs of a flow graph that enter no block twice | |
| `CheckFunction` | the walk of one function over its flow graph, literals included | lock states as values, `Paths` |
| `LockGap` | the search for gaps, on the function `CheckFunction` has walked | `CheckFunction` |
| `Hierarchy` | the walk of one function with the instances of one class, a run on a heap to compare with | `Paths` |
| `LockSummary` | the summaries, their fixpoint, the reports, a run of the program | |
| `SynthExclude` | the rounds and the export of derived exclusions | |
| `Fresh` | publication rounds, exemptions, a run of the program | |
| `Annotations` | annotation -> fact -> check of a use -> expectation of the line | |
| `MC...` | instances for TLC | the module they are named after |
| `...Proofs` | theorems, and the invariants they need | the module they are named after; `CheckFunctionProofs` also on `LockGap`, `AnnotationsProofs` on `Declarations`, `LockOrderProofs` is on `Taxonomy` and `Hierarchy` |

### How state and actions correspond to the code

**LockState.** A *handle* is a `*lockState`. It points to a *cell*: the maps, the
array behind the slice `defers`, and the counter `refs`, which in the code is
itself a pointer and so identifies what is shared. Every operation is one
action. `Modify` is `modify()` followed by the assignment: in place when the
count is one, otherwise into a fresh cell. `AppendAt` is Go's `append` to a slice
shorter than its array: it overwrites. `PopDefer` changes the length in the
handle only. `Drop` is garbage collection, which does not give the count back.
A key is what `valueAndObject` returns, a model value.

**LockOps.** `Reach`/`AliasKey` is the loop of `aliasKey`, `Alias` is `addAlias`,
with the move of a held lock to the new root in the stronger mode.

**CheckFunction.** The stack of frames is the recursion of `checkBasicBlock`.
`Enter` is a call on the next successor with the block's instructions, `Skip` the
two early returns (compatible with `seen`; being walked), `Leave` the return with
the comparison of return states, `ScanRecover` the walk of the recover block that a
function with a `defer` has. `shown` stands for the flag `-wrappers` and for returns
that have no position: it is the set of the kinds of report that are not dropped.
The initial state is `checkFunction`'s: the locks of the requirements taken, the
entry block entered. Calls follow `checkFunctionCall` for exclusive locks. A call may
be of a literal: `DoLiteral` is `checkClosure`, the body walked in a fork that still has
the deferred calls of the caller, of which nothing but the reports reaches the
caller. A literal's body is straight code. `RunLiteral` is what such a call does in a
run of the program, and `Runs` are the paths to compare with.

**LockGap.** It extends the state of the walk with the lock operations that are
still to be looked at (`Ops` is `lockOperations`, `Earlier` the order of its list) and
the reports. `CheckRelease` is one turn of the loop of `checkFunction` in
`lockgap.go`: `Again` are the acquisitions that the release `Reaches` (earlier in the
block, or in a block that dominates), the `First` of which is named, and `Verdict`
chooses among the three reports. Dominance is a least set of blocks (`Past`), not the
dominator tree. Each lock is a mutex of the receiver.

**Declarations.** `package` is what is written on each type, `order` the order of
the source. `ReadType` is one type of the loop in `run`: `structLockGuardFacts` with
the locks known so far, then `lockPrimitiveTypeFacts`. `Find` is one level of `findField` and `FindField`
all of them, `Resolve` `resolveFieldListParts`; `ReadWith` are the structures written in place in
a type, which are read with it; `StructGuard`, `LeftOut` and `GuardsOf` are `structGuardFor` and
`applyStructGuard`, and `LocalGuard` and `Guard` the closure that `structLockGuardFacts` hands to
`fillLockGuardFacts`: a lock of the structure, else a global one.

**Hierarchy.** A value is a root and the fields read from it, each with the place
of the read: `q.parent` written twice is two values, a variable is one. `WalkBlock` is
one block of `analyzeFunction`, in the order of `blockOrder`; `Visit` is `visitCall`
restricted to one class, `Climbs` is `checkHierarchy` with `lockOwner` and
`derivesFromParent`. `BlockOrder` is the depth-first search of `blockOrder`, by the number of visits
that are nested. `Outcome` is a run on a heap of instances: `Ran` the blocks of a path,
`Return` the calls they deferred.

**Annotations.** `Add...` are `functionFacts`' operations; each refuses what the
code refuses. `Use` and `UsePrimitive` reach a line. Each iteration of a loop over
a map is an action, and iterations of one loop come in any order:
`CheckExcluded`, `CheckRequired` (`checkFunctionCall`), `Release`, `Acquire`
(`postFunctionCallUpdate`), `CheckGuards`, `CallPrimitive`. `Consider` is the
greedy matching of a message with the expectations of its line. `crashed` records
that a value without meaning was handed to a function that panics on it.

**Taxonomy.** `Gather` is `loadDeclaredOrder` with `importOrderFacts`, `CloseClass`
one round of the outer loop of `close`, `Finish` the cycle test and the export. The
packages are analysed in any order their imports allow.

**LockSummary.** `Grow`/`EndRound` are the loop of `analyzePackage`, `ReportOn` its
second phase; `Analyze` is `analyzeFunction`, a fold over the blocks in reverse
postorder: the walk after each prefix of the blocks (`Blocks`), of the instructions of a
block (`Instructions`) and of the calls it deferred (`Deferreds`) is a recursive function, about
which the prover can reason. `Visit`, `DoLock`, `DoUnlock`, `DoWait`, `DoCall` are `visitCall` and
`visitChannelOp`; `Acquire`, `Release`, `Merge` are `classSet` and `walkState`. The
`Run...` actions are not the analyzer: they are one thread of the *analyzed*
program, there to say what the reports ought to cover. It goes round a loop again
only if it holds no lock, and has no deferred call, that it did not first come
with (`ComesBack`), and into a loop at its head.

**SynthExclude.** `Collect` is one method of one round, with the code's comparison
of *sizes*; `EndRound` and `GiveUp` are the two ways out of the loop; `Export` is
one iteration of `exportSynthesizedExcludes`.

**Fresh.** `Compute`/`EndRound` are the publication rounds of the driver and
`computePublishes`; `IsFreshAt`, `EscapesOf`, `CanReach` are the code's; `Reported` is
`checkFreshReturns` and `checkFreshArgs`. A value is given by one instruction (`Defines`), which is
what SSA form means. A store into a guarded container is no escape
for the function itself, whoever built the container: `pc.fresh`, of which
`protectedPublication` asks that, is set only after the escapes are computed. The
`Run...` actions follow one object of a running program.

## 3. What is checked

Passing runs:

| Run | What it shows | Bounds, and why they suffice |
|---|---|---|
| `lock_state` | `ForksAreValues`: the implementation refines `LockValue`; `RefsCoverSharers`: the count covers the sharers | two handles, two cells, one name, two deferred calls, stacks of two. Sharing is between a pair; two deferred calls are needed to see one overwritten; the counter goes to 3, past the number of handles, since `Drop` leaves it high. The theorems have no bounds; types are left to `StateInvariant` |
| `lock_state_aliases` | `AliasKeyEnds`, `HeldUnderRoots`, `AliasKeepsLocks` | one handle, four names, one of them an accessor's result: two trees of two are joined |
| `taxonomy` | `ClosureIsReachability`, `CycleIsReported`, `VerdictsAgree`, `ExemptionsTravel`; under fairness `EveryPackageIsAnalysed` | three classes, three packages in every acyclic import graph, every set of three declarations, one exemption: a cycle whose halves are in different packages, an exemption two imports away. Of declarations that differ by the names of classes only, one is taken (`UpToNames`); symmetry is not used, as a liveness property is checked |
| `check_function` | `NothingMissed`, `NoFalseAlarm`, `GapIsOnEveryPath`, `EndsMeansEnds`, `SectionIsWhole` | five flow graphs (if/else, early exit, two ifs, a loop with an inner loop and an exit, a loop entered at two places), every placement of up to three calls out of eight kinds, three of them literals, two in the first block, every contract, one lock. Three calls give: take, release and take again; a literal between two calls; and a deferred call on one of two branches. 3.9 million states in about three minutes; the theorems have no bounds |
| `annotations` | `FactsAreCallable`, `PanicsOnlyOnDiscard`, `SilenceKeepsContract`, `ContractIsSilent`, `LineIsSettled`, `ForcedIsHeld` | two names and two locks: contradictions and aliasing are between pairs. Every sequence of annotations, every state of the caller, eight kinds of line |
| `lock_summary` | `NestingsAreReported`, `WaitsAreReported`, `ReportsAreSettled`, `SummariesGrow`; `TypeOK` includes that the rounds end before `maxFixpointRounds` | three functions in every order, two locks, programs with gaps, deferred calls, branches, some that defer differently, loops, one of them entered at two places, and recursion, direct and through two functions; runs of depth five. The theorems have no bounds |
| `synth_exclude` | `NoFalseRejection`, which includes that nothing is derived where an annotation says that the lock is held (`synthexclude.go:267`), `WriterIsRejected` | three methods, two locks, every order of the methods, closures down to the code's depth of 4 and beyond, every annotation of one lock; three rounds, so that the bound is reached by some package too |
| `declarations` | `FieldsAreGuarded`, `DirectSectionsCanBeEntered`; `DeclTypeOK` includes that every guard is a chain of fields that ends at a lock | a structure with two locks, a structure embedded or as a field, one written in place and one declared lock type, in every order; every choice of seven guards of the structure and of seven sets of guards of a field, exemptions, strictness, a global lock and one that a field shadows |
| `hierarchy` | `ClimbIsReported`, `ReportIsAClimb` | three flow graphs: a loop, a loop entered at two places, and a short circuit condition, whose blocks are numbered out of order; every placement of three out of ten calls (the instance, its parent by field, by variable, by result and two up, a sibling's direction), three ways to declare the parent and three to have a lock, a chain of four instances entered at two |
| `fresh` | `ExemptIsUnshared`, `PublishesIsKnown`; `TypeOK` includes that the rounds end before `maxPublishRounds` | three functions, constructors among them that hand on a field or fill a container before they return, two fields of which one is guarded, straight code, a branch and a loop, helpers that call each other; runs of depth three |

Runs that TLC ends with a counterexample, each a sentence of the repository that
the code does not bear out (`findings` in `PROJECT.json`):

| Run | Sentence | What the run shows |
|---|---|---|
| `annotations_ignore` | `README.md:482-483`: the annotations of an ignored function "will enforce assertions in caller analysis" | `checkCall` takes the callee's `Ignore` for its own (`analysis.go:426`): callers of an ignored function are not checked |
| `fresh_section` | `README.md:595-596`: the rule "holds for the rest of that critical section and not beyond it" | an object put in a guarded container stays exempt to the end of the function; so does one put in a container the function built and then shared, which `README.md:605-606` says is treated as published |

Where a property needs an exception, the exception is a conjunct with a name
and is a limit of the analyzer, not of the model:

* `NothingMissed` leaves out functions with two paths to one block that hold the
  same locks and have deferred different calls (`Confused`): `isCompatible` does
  not look at deferred calls. `README.md:841-844` speaks of the memoisation. It is
  about runs that enter no block twice: a loop whose turn leaves other locks than
  it began with is cut short by the recursion guard (`analysis.go:797`) and passes.
  It also leaves out literals that change the locks of their caller ("changes"),
  which the caller does not learn of, and functions with a loop that is entered at two
  places, for which it takes a `goto` (`LoopsHaveHeads`): there the guard, which is to
  stop a second turn, also keeps the search out of a block that a path gets to for the
  first time, and a wrong path through it is not reported. These three are `Overlooked`.
  Without the second TLC finds the property violated on the last of the flow graphs;
  the guard was taken for harmless on the first turn until a proof asked why.
* `NoFalseAlarm` leaves out literals called with a lock held ("locked"), whose own
  return is reported for it, though `README.md:398-411` shows such a literal, and
  literals that defer a call while their caller has one deferred ("mixed"): the
  return of the literal runs both. Reports of the recover block ("recover") do not count:
  with `-wrappers` every function is reported that defers and is to return with other
  locks than it is called with, as the block is walked without the deferred calls.
* `EndsMeansEnds` states when "does not take it back" is never said of a function
  that passes its walk: each lock is released in one place and no acquisition is deferred, calls
  take a lock, release one or leave them (`OnlyLocks`), a way leads from each block to a return
  (`CanReturn`), and a turn of a loop leaves the locks it began with (`RoundsAgree`). With one
  acquisition after several releases, or a deferred one written first, it is said
  of functions that do take the lock back; of those that do not return it is said and right.
* `SectionIsWhole` is about functions that take and release locks one at a time, and
  looks at each instruction of each run, until the deferred calls run. It
  does not ask what the walk has found.
* `FieldsAreGuarded` leaves out fields of a lock type that is declared after the
  structure (`Unknown`): they are guarded as data are.
* `DirectSectionsCanBeEntered` is about guards that are fields of the structure
  itself. A guard reached through another field guards that field as well
  (`blockguards.go:179`), so the lock cannot be taken without itself being held.
* `ClimbIsReported` leaves out types that are declared to be locks: `lockOwner` strips
  the parent field, which has such a type. `ReportIsAClimb` is about types with a `Lock`
  method of their own and locks released through the variable they were taken
  through: a promoted lock is called on the address of the field, a new value each
  time, and is never released in the analysis. Both leave out deferred calls where
  branches defer differently (`DefersAgree`): `merge` keeps one list. And `ClimbIsReported`
  leaves out loops that are entered elsewhere than at their head, which takes a `goto`
  (`LoopsHaveHeads`): "a block is walked after the blocks that reach it"
  (`lockorder_analysis.go:159-160`) cannot be had there, and without this condition TLC finds
  the property violated on the third of the flow graphs. It is about runs that enter no block
  twice: blocks are walked once, and what a run holds when a loop goes round again is not
  held in the analysis at the head of the loop.
* `ExemptIsUnshared` does not say that no other goroutine reaches the object. It says that
  nobody shared it, that nobody handed on the address of the field accessed, and that
  nobody put it in a container, with two exceptions. The first is what the function itself
  inserts the object in, since the exemption outlives the critical section: `SectionEnds`
  shows that others do reach it then. The second is what was so before the object came as
  an unpublished result or parameter. `checkFreshReturns` and `checkFreshArgs` ask for escapes of all
  of the object (`fresh.go:648`, `fresh.go:718`), to which a field handed on before and an insertion in
  a guarded container do not count. The function that gets the object then accesses that field
  as if it were its own, although "`&obj.field` taken and passed on | publishes that field"
  (`README.md:585`). Without either exception TLC finds the property violated.
  Of an object that the function allocates itself nothing of the kind was so before.
* `PanicsOnlyOnDiscard` states what is left of "never panics": an acquired lock
  that lives in a result nobody extracts.
* `LineIsSettled` is about lines where no message contains two different
  expectations; otherwise the order of the messages decides.
* `ContractIsSilent` is about arguments that are different locks.
* `WriterIsRejected` is about a caller that holds the lock for writing. For one
  that reads, the comparison of sizes loses a read that becomes a write; see
  the hazard at `synthexclude.go:79`.
* A run of `LockSummary` does not return with other locks than it was called
  with, since the analysis takes calls as balanced, and does not come back to the
  head of a loop with a lock or a deferred call it did not first come with
  (`ComesBack`): the blocks are walked once, and rounds of the fixpoint start over, so
  "a class acquired on the second time round a loop is still seen"
  (`lockorder_analysis.go:29-32`) does not hold. Nor does it enter a loop elsewhere than
  at its head, which takes a `goto`: no order of the blocks has then each block after
  those that lead to it.
* `NestingsAreReported` and `WaitsAreReported` leave out two things (`Overlooked`). Where
  branches defer differently, `merge` keeps one list of deferred calls; the comment
  at `lockorder_analysis.go:146-149` takes the lists for prefixes of one sequence. And a
  function that calls itself directly is not looked at as its own callee
  (`lockorder_analysis.go:246`): "the fixpoint already accounts for the function's own
  effects" is true of its summary, but not of what it holds at that call. The frames around the
  one that calls itself are not excepted.
* Without any one of these conditions but the first, TLC finds `NestingsAreReported` or
  `WaitsAreReported` violated on the programs of the run.
* `SynthExclude` takes every call instruction for a call of the method itself, as the
  code does, and a `go` statement is one (`synthexclude.go:123`): what a method started
  in a goroutine takes is attributed to the one that starts it.

### Deadlock and fairness

The passes are loops of one goroutine. That they end is checked as safety: a walk
is never twice inside a block, rounds stay below their bounds (the type
invariants say so), and deadlock is checked wherever the modelled program has to
reach its last action. `CHECK_DEADLOCK FALSE` stands in the configurations of the
lock states, which need no next operation when all bounds are reached, and of
`LockSummary` and `Fresh`, whose *analyzed* programs may stop: at a lock that is
held, or at the end.

One system is concurrent: the passes over the packages of a build. A pass starts
when those of its imports are done, and `EveryPackageIsAnalysed` says that every
package is gone through in the end, also when one below it has a cycle and
returned early. It assumes `WF_vars(Pass(p))` for each package `p`, where `Pass` is the
disjunction of the steps of its pass. Weak fairness is what the driver gives: it
starts a pass whose imports are done, once, and a pass waits for nothing else, so
that its next step stays enabled until it is taken. Strong fairness is not needed,
and no step of a pass is assumed on its own.

The nondeterminism comes from what the code leaves open: the order of Go maps,
of functions in a package, of packages in a build, of branches in a run, and from
the inputs: programs, annotations, caller states.

## 4. What is proved

TLAPS proves these for every value of the constants.

| Theorem | States |
|---|---|
| `LockValueProofs!ValueInvariant` | types; following aliases ends; locks are under roots, of the values |
| `LockStateProofs!StateInvariant` | types and `RefsCoverSharers` |
| `LockStateProofs!Refinement` | `Spec => ForksAreValues`, the implementation refines the values |
| `LockStateProofs!AliasForest` | `AliasKeyEnds` |
| `LockStateProofs!LocksAreFound` | `HeldUnderRoots` |
| `LockValueProofs!AliasLosesNothing` | `AliasKeepsLocks`, of the values |
| `LockStateProofs!AliasLosesNothing` | `AliasKeepsLocks`, of the implementation |
| `LockOrderProofs!TypesHold` | types |
| `LockOrderProofs!ClosureIsCorrect` | `ClosureIsReachability` |
| `LockOrderProofs!CyclesAreCaught` | `CycleIsReported` |
| `LockOrderProofs!DependentsAgree` | `VerdictsAgree` |
| `LockOrderProofs!ExemptionsAreDeclared` | `ExemptionsTravel` |
| `LockOrderProofs!ClimbsAreReported` | `ClimbIsReported` |
| `SynthExcludeProofs!TypesHold` | types, no export before the rounds end |
| `SynthExcludeProofs!RejectionsAreReal` | `NoFalseRejection` |
| `SynthExcludeProofs!WritersAreRejected` | `WriterIsRejected` |
| `AnnotationsProofs!Typed` | types |
| `AnnotationsProofs!Callable` | `FactsAreCallable` |
| `AnnotationsProofs!Panicking` | `PanicsOnlyOnDiscard` |
| `AnnotationsProofs!SilenceIsSound` | `SilenceKeepsContract` |
| `AnnotationsProofs!SilenceIsComplete` | `ContractIsSilent` |
| `AnnotationsProofs!ForceHolds` | `ForcedIsHeld` |
| `AnnotationsProofs!LineSettles` | `LineIsSettled` |
| `AnnotationsProofs!DeclarationsTyped` | `DeclTypeOK`; every guard is a chain of fields to a lock |
| `AnnotationsProofs!FieldsGuarded` | `FieldsAreGuarded` |
| `AnnotationsProofs!DirectSectionsEntered` | `DirectSectionsCanBeEntered` |
| `LockSummaryProofs!FixpointIsReached` | `ReportsAreSettled`, unless the bound ended the rounds |
| `LockSummaryProofs!NothingIsTakenBack` | `SummariesGrow` |
| `LockSummaryProofs!TypesHold` | types, unless the bound ended the rounds |
| `LockSummaryProofs!NestingsNeverMissed` | `NestingsAreReported`, unless the bound ended the rounds |
| `LockSummaryProofs!WaitsNeverMissed` | `WaitsAreReported`, unless the bound ended the rounds |
| `FreshProofs!RightWhenSettled` | the three below, unless the bound ended the rounds |
| `FreshProofs!TypesHold` | types, given fewer functions than rounds |
| `FreshProofs!FindingsAreRight` | `PublishesIsKnown`, given fewer functions than rounds |
| `FreshProofs!ExemptionIsSound` | `ExemptIsUnshared`, given fewer functions than rounds |
| `CheckFunctionProofs!CheckFunctionTypeOK` | types; the walk is never twice inside a block |
| `CheckFunctionProofs!WalkMissesNothing` | `NothingMissed` |
| `CheckFunctionProofs!WalkHasNoFalseAlarm` | `NoFalseAlarm` |
| `CheckFunctionProofs!GapsFollowTheWalk` | `GapSpec => Spec`, the search leaves the walk as it is |
| `CheckFunctionProofs!GapsAreOnEveryPath` | `GapIsOnEveryPath` |
| `CheckFunctionProofs!EndsAreNotSaid` | `EndsMeansEnds` |
| `CheckFunctionProofs!UnreportedSectionIsWhole` | `SectionIsWhole` |

**Lock states.** The first part of `LockValueProofs` shows that each operation keeps `Good`: from each key
a root can be reached, and locks are recorded under roots. Reachability is a
least closed set, so that linking a root to another root keeps the forest is
shown without induction. `AliasKeepsLocks` is an action property: linking moves what
is held under the root that gives way to the one that stays (`OnlyAliasing` says that
nothing else touches an alias), and the implementation has it as its step maps to one
of the values. `ForksAreValues` needs more than `RefsCoverSharers`: a state
that writes in place must be alone in its cell, which the count shows only as it
is never below the number of sharers, and the slice of a handle must not be
longer than its array, or appending would not mean `Append`. The invariant `IInv` of
`LockStateProofs` is these three with the types. A step then maps to the step of
`LockValue` with the same name; where `Modify` moves to a fresh cell, the other
handles keep what they saw. Assumptions: `Addr` and `Call` are names, `None` is
neither a name, a cell nor a value, `Handle` is finite.

**Taxonomy.** `IInv` says of every package: the rows are reachability through the
classes that were gone through so far (`RowsInv`), the stage fits them (`StageInv`), and
what was gathered is what the package and its imports declare (`GatherInv`). One
round of `close` adds one class to those a path may pass: `ThroughOneMore`, the
lemma the closure rests on, whatever the order of classes. That a package
without a cycle below has gathered exactly the declarations below it is another
least-set argument, over the import graph. No assumption on the constants.

**Hierarchy.** First the order of the blocks. A visit leaves what is visited in order (`Good`):
a successor of a block comes before it in the postorder, or is on a run to it. That the visits
come to an end with every block seen is an induction on the blocks not yet on the way
(`VisitsGoOn`). A successor on a run to its predecessor is the head of a loop, by
`LoopsHaveHeads` on every run to that predecessor, so no run goes there from it
(`BackIsNotForward`); hence each block of a run is walked before the next
(`BlockOrderIs`). `HierInv` then says three things. Where all blocks of a run but the last
are walked, the state that has reached the last follows the run (`ReachInv`): what the run holds,
the state holds, under the value it was taken through (`Covers`), and the climbs of the run are in
the reports (`Told`). Where no two runs to a block have deferred differently, the state's list is
theirs (`DeferInv`). Where all blocks of a run are walked, the climbs at its end are reported too,
those of the deferred calls included (`DoneInv`). `Follows` is what goes through a walk step by step:
`ExecuteFollows` one call, `BodyFollows` a block, `DeferredFollows` a return. The step where values
matter is the release: a run releases the lock of an object, the analysis that of a value; and
as values that are the same lead to the same object (`Sound`), the analysis never drops a
value whose object the run still holds. Assumptions (`HierarchyAssumption`): each block can be
reached, variables are read from parameters and are not parameters, `lock` is no field of the type's own, the
objects are finitely many. There is no bound on calls, blocks, hops or objects.

**Derived exclusions.** The hard part is the comparison of sizes. `Grown` says that
another look at a method finds at least what is found, so equal sizes mean equal
sets (of locks, not of modes). With `RoundSettled` (the methods visited since the
last change would not change) a quiet round leaves a fixpoint, which contains the
least set of takers. `Sound` says that nothing is found that is not taken.
Assumptions: the locks are finitely many, the bound on rounds is a number, every
method is in the order of the functions.

**Annotations.** `checkFunctionCall` walks three maps and `postFunctionCallUpdate` two, in
any order. The invariant is about what is done: a name a loop is through with (`Done`)
was found to fit the locks *before* the line (`NamesChecked`), since the loops come one
after the other (`InOrder`) and only the last two change a lock, and the locks are those
before the line but for what was released and acquired (`LocksChanged`). At the end
nothing is left to do, and the contract is what has been checked. The other way round,
`SilentSoFar` says that each iteration of a call that keeps its contract was quiet.
`FactsAreSound`, of each name on its own, is what `checkGuard` and `addExcludes` leave, and
gives a caller for any set of annotations. `LineIsSettled` is about the greedy matching:
`LineSoFar` keeps the injection from the messages already matched into the expectations of
the line, through the removal of an expectation from the middle of a list. Assumptions: the
lines and the names are what the module's comments say, names are finitely many.

**Declarations.** A name resolves along fields, and at each of them through embedded
structures, two recursions of which `FindFieldIs` and `ResolveIs` show by induction that they give
a chain. `DeclInv` says what has been recorded: chains that end at a lock known by now
(`ChainsRecorded`); of the types read so far, if nothing is reported, what a reader would expect
(`ReadAsByHand`); and of a lock, only guards written on it (`LocksAsWritten`). The second is
where the order of declarations matters: that nothing is reported when a type is read says that its
guard was found with the locks known then, and a field's type was known as a lock unless
it is declared later (`Unknown`). It stays true as no other type reads these fields
(`ReadWithIs`), and as what was found stays found when there are more locks (`FoundStays`). For
`DirectSectionsCanBeEntered`, of a set of guards each of which waits for another in it, those that are
waited for are written on a lock, and wait for each other too; so it is enough that the
written ones do not. Assumptions: finitely many types, and what is written on them is as
`Declared` says; a structure written in place has no annotations of a type.

**Lock summaries.** A walk of a body is three recursions, one inside the other. What they
preserve is shown by induction on the length, in the form that speaks of a set of
numbers, which follows from well-foundedness of finite intervals (`LeastNat`,
`NatSetInduction`); `Iterated` is the one lemma the three recursions use. `More`, one summary
says more than another, is an order, each instruction goes up in it, and so does the
walk: `SummariesGrow`. For `ReportsAreSettled` the invariant says that if nothing has changed in
this round, walking again any function visited would change nothing (`RoundSettled`). A
walk reads the summaries only, so a quiet round is a fixpoint, and the reporting
walk, which writes too, writes what is there. The condition `round <= MaxRounds` is the
code's: `analyzePackage` gives up after `maxFixpointRounds` = 100 (`lockorder_analysis.go:490`),
silently. Assumptions: bodies as their type says, every function is in the order.

*What the summaries say of a run.* Two invariants join the analysis to the program it
is about. The first (`RunInv`) has a place in the walk for each frame of the stack (`At`):
after the same instructions of the same block, or the same deferred calls. The
state of the walk there covers what the program has done (`Covers`): what the frame holds is
counted as held, and what a frame further out holds is not counted as released. A walk
keeps the wider of two states where paths join (`Wider`, `Joins`), so covering survives an edge
to a later block; it survives one back to a block already walked since the run may come back
only with what it first came with (`CameCovered`). That the deferred calls are those of the walk
is where `DefersAgree` is needed: then each place has one list (`ReachDefers`). A frame that waits
for a callee has its call noted in the walk (`Waits`), and no callee changes whose
lock is whose below it (`Kept`, `Nested`). The second invariant (`RepInv`) is that what is
reported is what a walk against the settled summaries reports.

When the innermost frame is about to take a lock or to wait, the claim travels outwards by
induction on the distance from the top (`AllKnow`): the summary of each frame's function names
what is about to happen (`Says`), and says of no lock held further out that it was released
by then (`Knows`). A caller takes that up at its call (`CallSays`), and warns of each lock it holds
that the callee does not say it released (`CallerTells`). Recursion through other functions needs no
case of its own, as the summaries are settled; a direct call of itself passes on what is
known, but the frame that makes it has no call noted.

**Unpublished objects.** The invariant is in two parts. In the rounds (`RoundsInv`): if
nothing has changed, the functions visited would not be found now (`Settled`), and after
the rounds none would. In a run (`RunInv`), of the stack and the object: one frame, the
lowest that has anything to do with it, holds the object as its own (`OneHolder`); it was
handed up from frame to frame without a gap (`Handed`); a frame that is known to publish
makes those that handed it the object publishers (`Implied`), by the settled rounds; and
whatever has spread of the object is an escape, in each frame that holds it, at a place
from which control can get to where the frame is (`Seen`, `SeenFields`, `Publishers`), which
for a frame in the middle is the call it is in. Each of the nine steps of a run is one of three
moves: within a frame (`MoveKeeps`), a call (`PushKeeps`), a return (`PopKeeps`). A field
handed on, and a container, count from when a frame came to hold the object, of which the
frame keeps a copy (`entered`, `got`); a container is then one that the frame put the object in itself,
or one it did not come without (`SeenIn`, `Insertion`). `ExemptIsUnshared` is read off:
`isFreshAt` finds no escape from which the access can be reached. The rounds end before their bound because each but the last
finds a function (`RoundsArePaid`), so fewer functions than `maxPublishRounds` = 100
(`fresh.go:120`) suffice; a larger package is covered by `RightWhenSettled`, whose
condition is that the bound did not end the rounds. Assumptions: finitely many functions, a
value is given once, bodies as their type says.

**Function walk.** Three invariants on top of the types, each about all runs of the
function. `WalkInv` says that the state of a frame is what its block makes of the state of the
frame below, so that the blocks of the stack are a run (`Way`) and its locks are that run's
(`After`). A literal is where a walk and a run part: the walk goes on with the locks from before
it. `Follows` relates the two, call by call, deferred call by deferred call and block by
block, and is where the marks "changes", "locked" and "mixed" come from. `AlarmInv` reads off
that each report has a run, and that the return state a frame hands down is that of some run.
That nothing is missed is the hard half, since most runs are never walked. `SeenInv` says
of every run, at each of its blocks that was entered with the locks the run gets there with:
where the run ends has been looked at (`Looked`), or the search is in one of its later blocks and has
yet to go on along it (`Ahead`). It is not enough to say this of runs that were
walked, as a cached state stands for all runs that get there with the same locks; nor to say it
of the last block alone, as what is skipped is somewhere in the middle. `Enter` moves the claim one block
on, `Skip` of a compatible block leaves it to the cache, and `Skip` of a block that
is being walked would lose it if the run had not been there (`LoopsHaveHeads`). When the stack is
empty nothing is ahead.

**Lock gaps.** `GapInv` says that the reports are the verdicts on the releases looked at. The
rest is about the graph: a block is in `Past` exactly if a run ends there that avoids the
other (`PastIs`), so that dominance is a statement about all runs (`ReachesIs`). `First` exists as the
operations are finitely many (`FirstIs`). For `SectionIsWhole`, an instruction that takes a lock of the
caller from it is a release with a verdict of its own, and without reports there is none; so
every run keeps the lock (`RunsKeep`). For `EndsMeansEnds`, suppose "ends" is said of a release.
No acquisition of its lock is dominated by it, and one in a block that the release does not
dominate would fail, as some run comes there with the lock held (`AcquireFails`), which the
walk reports; so no run has the lock after the release (`NothingTakesItBack`), and one of them returns
(`CanReturn`), which it reports also. Here `WalkMissesNothing` is used: the theorem on the search
rests on that on the walk.

Assumptions: every flow graph is a graph, in which each block can be reached
(`ShapeAssumption`; the SSA builder drops the others); a call is annotated or of a literal
(`CallAssumption`); `None` is no state (`NoneAssumption`); the bounds of the
instances are numbers (`BoundAssumption`). There is no bound on blocks, calls or locks.
The recursions over runs and calls are recursive functions, and `Iterated` and `NatSetInduction`
are used as for the summaries.

Only model-checked:

* `ReportIsAClimb`: that some heap bears out a report holds of the heaps that are given, and
  there is no theorem to state for any set of them.
* `EveryPackageIsAnalysed`, which is liveness under fairness.

## 5. What is not modelled

* Literals with branches, literals that call literals, annotations written on a
  literal; `go` statements with a literal.
* Atomics, alignment, the inference of annotations, type aliases of locks beyond
  `Alias`, generics, several expectation comments on one line, grouped reports.
* The lists of functions and sinks to be ignored, summaries from other packages,
  standard library functions that block, annotations of blocking; several objects
  of one class in `LockSummary`; a hierarchy over two types.
* How a lock operation is traced to a class or to a root and a path of fields
  (`lockorder_classes.go`, `lockgap.go`): a value is given as its root and fields.
* In `Declarations`: structures that embed each other, for which `findField` may not
  end (`facts.go:629`), structures that are the type of a variable, parsing.
* In `Fresh`: pointers to fields passed on to callees, more than one object, literals.
* Type assertions (`typeassert.go`) and the lazy stringer (`lockstringer.go`): searches
  for a shape of syntax that keep no state, where every definition would repeat
  the code; flags, parsing and formatting.

## 6. Plan

The order of work was: lock states and their refinement, with proofs; the taxonomy,
with proofs; the function walk; lock summaries; derived exclusions, with proofs;
unpublished objects; annotations from comment to report; literals in the walk;
lock gaps; the hierarchy; declarations; liveness of the taxonomy; proofs about the
aliases, annotations, the summaries and what they say of a run, unpublished objects, the
walk, the search for gaps, declarations and the hierarchy, for which the paths of a graph were
made a set and the recursions recursive functions. The plan is done; what could be added is in the
section above.
