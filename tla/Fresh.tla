------------------------------- MODULE Fresh -------------------------------
(***************************************************************************)
(* Objects under construction (fresh.go).  Rounds over the functions find  *)
(* out which of them publish what they are passed, until a round finds     *)
(* nothing new.  From that, and from what a function does itself, follows  *)
(* which accesses are exempt from their guards: those of an object under   *)
(* construction, which it takes for unreachable by others.  Then the program runs: one goroutine, of   *)
(* whose objects one is followed, so that what is exempt can be compared   *)
(* with what others can reach.                                             *)
(*                                                                         *)
(* A function has one parameter "p" and one local "x", a new object or the *)
(* result of a call.  Of the ways to publish one is kept for each row of   *)
(* the table in escapesOf that differs in effect.                          *)
(***************************************************************************)
EXTENDS Integers, SequencesExt

CONSTANTS Function,   \* the functions of the package
          Field,      \* the fields of the objects
          Guarded,    \* those that are lock guarded
          Programs,   \* the programs analyzed: the body of each function
          MaxRounds,  \* maxPublishRounds
          MaxDepth,   \* bound on the depth of the stack of a run
          None        \* "no value", and allFields

\* What an instruction does to the value v:
\*   new, make    allocate x, or make it the result of calling a function
\*   share        store it where anyone can reach it, send it, hand it to "go"
\*   point        hand on the address of a field
\*   put          insert it in a guarded container, under its lock
\*   unlock       release that lock
\*   nest, expose insert it in a guarded field of a container the function built;
\*                share that container
\*   access       read or write a guarded field
\*   call         pass it to a function
\*   return       return it
Instr == [do : {"new", "share", "put", "unlock", "nest", "expose", "return"}, v : {"p", "x"}, of : {None}]
         \cup [do : {"make", "call"}, v : {"p", "x"}, of : Function]
         \cup [do : {"point"}, v : {"p", "x"}, of : Field]
         \cup [do : {"access"}, v : {"p", "x"}, of : Guarded]

\* A body, and the two declarations: its parameter must arrive unpublished
\* (FreshParams), what it returns is unpublished (ReturnsFresh).
Body == [code : Seq(Seq(Instr)), succs : Seq(SUBSET Nat),
         freshParam : BOOLEAN, returnsFresh : BOOLEAN]

ASSUME FieldAssumption == Guarded \subseteq Field /\ None \notin Field
ASSUME ProgramAssumption ==
    \A p \in Programs, f \in Function :
        /\ p[f] \in Body /\ DOMAIN p[f].code = DOMAIN p[f].succs /\ 1 \in DOMAIN p[f].code
        /\ \A b \in DOMAIN p[f].succs : p[f].succs[b] \subseteq DOMAIN p[f].code
\* A value has one definition (SSA): x is an allocation, or the result of a call.
Defines(p, f, b, n) == p[f].code[b][n].do \in {"new", "make"}
ASSUME DefinitionAssumption ==
    \A p \in Programs, f \in Function : \A b, c \in DOMAIN p[f].code :
        \A n \in DOMAIN p[f].code[b], m \in DOMAIN p[f].code[c] :
            Defines(p, f, b, n) /\ Defines(p, f, c, m) => p[f].code[b][n] = p[f].code[c][m]
ASSUME BoundAssumption ==
    IsFiniteSet(Function) /\ MaxRounds \in Nat \ {0} /\ MaxDepth \in Nat \ {0}

VARIABLES body,       \* Function -> Body
          order,      \* the functions in the order of SrcFuncs
          stage,      \* "rounds", "checked", then "running"
          round, at, changed, \* the loop of the rounds
          publishes,  \* the functions found to publish their parameter
          thread,     \* the frames of the run, outermost first
          object      \* the object followed

vars == <<body, order, stage, round, at, changed, publishes, thread, object>>

-----------------------------------------------------------------------------
(***************************************************************************)
(* The flow graph of a function: where control can get to from a block, in *)
(* one or more steps (blockReachability), and from an instruction.         *)
(***************************************************************************)
Block(f) == DOMAIN body[f].code
Instrs(f) == UNION {{b} \X DOMAIN body[f].code[b] : b \in Block(f)}
InstrAt(f, pos) == body[f].code[pos[1]][pos[2]]

Reaches(f, b) ==
    {c \in Block(f) : \A S \in SUBSET Block(f) :
        body[f].succs[b] \subseteq S /\ (\A s \in S : body[f].succs[s] \subseteq S) => c \in S}

\* Mutant: within a block only the order counts.
CanReachOnce(f, from, to) ==
    IF from[1] = to[1] THEN from[2] < to[2] ELSE to[1] \in Reaches(f, from[1])

CanReach(f, from, to) ==
    \/ to[1] \in Reaches(f, from[1])
    \/ from[1] = to[1] /\ from[2] < to[2]

-----------------------------------------------------------------------------
\* What v publishes at an instruction of f: all of the object, or one field of
\* it.  For a caller ("forExport") an insertion in a guarded container counts,
\* for the function itself it does not: the lock is held.  Nor does it when the
\* container is its own: pc.fresh, which would tell, is set only afterwards.
EscapesHere(f, v, pos, forExport) ==
    LET i == InstrAt(f, pos)
    IN  IF i.v # v THEN {}
        ELSE CASE i.do = "share" -> {None}
               [] i.do = "point" -> {i.of}
               [] i.do \in {"put", "nest"} -> IF forExport THEN {None} ELSE {}
               [] i.do = "call" -> IF i.of \in publishes THEN {None} ELSE {}
               [] OTHER -> {}

\* Mutant: the two questions are not told apart.
EscapesOfLocal(f, v, forExport) ==
    UNION {{[inst |-> pos, field |-> e] : e \in EscapesHere(f, v, pos, FALSE)} : pos \in Instrs(f)}

EscapesOf(f, v, forExport) ==
    UNION {{[inst |-> pos, field |-> e] : e \in EscapesHere(f, v, pos, forExport)} : pos \in Instrs(f)}

\* The values that start unpublished.
Roots(f) == (IF body[f].freshParam THEN {"p"} ELSE {})
            \cup {"x" : pos \in {a \in Instrs(f) : LET i == InstrAt(f, a) IN
                      i.do = "new" \/ (i.do = "make" /\ body[i.of].returnsFresh)}}

IsFreshAt(f, v, pos, field) ==
    /\ v \in Roots(f)
    /\ \A e \in EscapesOf(f, v, FALSE) :
          e.field \in {None, field} => ~CanReach(f, e.inst, pos)

\* An escape of the object, or of a field that a goroutine with its address
\* could race on.
PublishesObject(e) == e.field = None \/ e.field \in Guarded
ComputePublishes(f) ==
    f \in publishes \/ \E e \in EscapesOf(f, "p", TRUE) : PublishesObject(e)

\* checkFreshReturns and checkFreshArgs: the declarations are checked where
\* they are made and at every call.
Reported(f) ==
    \E pos \in Instrs(f) : LET i == InstrAt(f, pos) IN
        /\ \/ i.do = "return" /\ body[f].returnsFresh
           \/ i.do = "call" /\ body[i.of].freshParam
        /\ ~IsFreshAt(f, i.v, pos, None)

-----------------------------------------------------------------------------
NoObject == [shared |-> FALSE, fields |-> {}, contained |-> "no"]

\* A call: whether p was put in a container that others can reach, whether a
\* critical section is open that put the object there, whether the function's own
\* container has it, and the object when p arrived ("entered") and x did ("got").
Frame(f, p) == [fn |-> f, block |-> 1, next |-> 1, p |-> p, x |-> "none",
                got |-> NoObject, put |-> FALSE, section |-> FALSE,
                nested |-> FALSE, entered |-> object]

Init == /\ body \in Programs
        /\ order \in SetToSeqs(Function)
        /\ stage = "rounds" /\ round = 0 /\ at = 1 /\ changed = FALSE
        /\ publishes = {}
        /\ thread = <<>> /\ object = NoObject

\* Mutant: "changed" is not reset.
EndRoundStale ==
    /\ stage = "rounds" /\ at > Len(order)
    /\ IF changed /\ round + 1 < MaxRounds
       THEN round' = round + 1 /\ UNCHANGED stage
       ELSE stage' = "checked" /\ UNCHANGED round
    /\ at' = 1 /\ UNCHANGED changed
    /\ UNCHANGED <<body, order, publishes, thread, object>>

\* computePublishes of one function in a round.
Compute ==
    /\ stage = "rounds" /\ at <= Len(order)
    /\ publishes' = IF ComputePublishes(order[at]) THEN publishes \cup {order[at]} ELSE publishes
    /\ changed' = (changed \/ publishes' # publishes)
    /\ at' = at + 1
    /\ UNCHANGED <<body, order, stage, round, thread, object>>

\* The end of a round: another one if it changed something and the bound allows it.
EndRound ==
    /\ stage = "rounds" /\ at > Len(order)
    /\ IF changed /\ round + 1 < MaxRounds
       THEN round' = round + 1 /\ UNCHANGED stage
       ELSE stage' = "checked" /\ UNCHANGED round
    /\ at' = 1 /\ changed' = FALSE
    /\ UNCHANGED <<body, order, publishes, thread, object>>

-----------------------------------------------------------------------------
(***************************************************************************)
(* A run of a package without reports.  A value is "obj", the object that  *)
(* is followed, "other", or "none".  "contained" says whether obj is in a  *)
(* container: "locked" while the critical section that put it there lasts, *)
(* "after" from then on, and once the function's own container is shared.  *)
(***************************************************************************)
Begin ==
    /\ stage = "checked" /\ \A f \in Function : ~Reported(f)
    /\ stage' = "running"
    /\ \E f \in Function :
         thread' = <<Frame(f, IF body[f].freshParam THEN "obj" ELSE "other")>>
    /\ UNCHANGED <<body, order, round, at, changed, publishes, object>>

Depth == Len(thread)
Top == thread[Depth]
Code == body[Top.fn].code[Top.block]
Running == stage = "running" /\ thread # <<>>
InBlock == Running /\ Top.next <= Len(Code)
Here == <<Top.block, Top.next>>
This == Code[Top.next]
Value(v) == IF v = "p" THEN Top.p ELSE Top.x
OnObj == Value(This.v) = "obj"
Followed == \E i \in 1 .. Depth : "obj" \in {thread[i].p, thread[i].x}

Advance(frame) == [frame EXCEPT !.next = @ + 1]
Rest == <<body, order, stage, round, at, changed, publishes>>

\* An allocation; the first one may be of the object that is followed.
RunNew ==
    /\ InBlock /\ This.do = "new"
    /\ \E o \in IF Followed \/ object # NoObject THEN {"other"} ELSE {"obj", "other"} :
         thread' = [thread EXCEPT ![Depth] = [Advance(Top) EXCEPT !.x = o, !.got = NoObject]]
    /\ UNCHANGED <<Rest, object>>

\* The instructions that do something to one value.
RunUse ==
    /\ InBlock /\ This.do \in {"share", "point", "access"}
    /\ thread' = [thread EXCEPT ![Depth] = Advance(Top)]
    /\ object' = [object EXCEPT
                    !.shared = @ \/ (OnObj /\ This.do = "share"),
                    !.fields = @ \cup IF OnObj /\ This.do = "point" THEN {This.of} ELSE {}]
    /\ UNCHANGED Rest

RunPut ==
    /\ InBlock /\ This.do = "put"
    /\ thread' = [thread EXCEPT ![Depth] = [Advance(Top) EXCEPT
                     !.section = Top.section \/ OnObj, !.put = Top.put \/ (OnObj /\ This.v = "p")]]
    /\ object' = IF OnObj THEN [object EXCEPT !.contained = "locked"] ELSE object
    /\ UNCHANGED Rest

RunUnlock ==
    /\ InBlock /\ This.do = "unlock"
    /\ thread' = [thread EXCEPT ![Depth] = [Advance(Top) EXCEPT !.section = FALSE]]
    /\ object' = IF Top.section THEN [object EXCEPT !.contained = "after"] ELSE object
    /\ UNCHANGED Rest

RunNest ==
    /\ InBlock /\ This.do = "nest"
    /\ thread' = [thread EXCEPT ![Depth] = [Advance(Top) EXCEPT !.nested = Top.nested \/ OnObj]]
    /\ UNCHANGED <<Rest, object>>

RunExpose ==
    /\ InBlock /\ This.do = "expose"
    /\ thread' = [thread EXCEPT ![Depth] = [Advance(Top) EXCEPT
                     !.put = Top.put \/ (Top.nested /\ Top.p = "obj")]]
    /\ object' = IF Top.nested THEN [object EXCEPT !.contained = "after"] ELSE object
    /\ UNCHANGED Rest

RunCall ==
    /\ InBlock /\ This.do \in {"call", "make"} /\ Depth < MaxDepth
    /\ thread' = Append([thread EXCEPT ![Depth] = Advance(Top)],
                        Frame(This.of, IF This.do = "call" THEN Value(This.v) ELSE "other"))
    /\ UNCHANGED <<Rest, object>>

RunBranch ==
    /\ Running /\ Top.next > Len(Code)
    /\ \E s \in body[Top.fn].succs[Top.block] :
         thread' = [thread EXCEPT ![Depth].block = s, ![Depth].next = 1]
    /\ UNCHANGED <<Rest, object>>

\* A return, of a value or of none.  The critical sections of the function are
\* over; what it was passed and has put in a container is then shared, for the
\* function that called it.
Result == IF InBlock THEN Value(This.v) ELSE "none"
Left == [object EXCEPT !.shared = @ \/ Top.put, !.contained = IF Top.section THEN "after" ELSE @]
RunReturn ==
    /\ \/ InBlock /\ This.do = "return"
       \/ Running /\ Top.next > Len(Code) /\ body[Top.fn].succs[Top.block] = {}
    /\ LET under == SubSeq(thread, 1, Depth - 1)
           made == under # <<>> /\ LET c == under[Depth - 1] IN
                      body[c.fn].code[c.block][c.next - 1].do = "make"
       IN  thread' = IF made THEN [under EXCEPT ![Depth - 1].x = Result, ![Depth - 1].got = Left]
                             ELSE under
    /\ object' = Left
    /\ UNCHANGED Rest

Run == RunNew \/ RunUse \/ RunPut \/ RunUnlock \/ RunNest \/ RunExpose \/ RunCall \/ RunBranch \/ RunReturn
Next == Compute \/ EndRound \/ Begin \/ Run
Spec == Init /\ [][Next]_vars

-----------------------------------------------------------------------------
\* The types; the rounds end before the bound on them does it.
TypeOK == /\ stage \in {"rounds", "checked", "running"}
          /\ round \in 0 .. MaxRounds - 2 /\ at \in 1 .. Len(order) + 1 /\ changed \in BOOLEAN
          /\ publishes \subseteq Function
          /\ object \in [shared : BOOLEAN, fields : SUBSET Field,
                         contained : {"no", "locked", "after"}]
          /\ Depth <= MaxDepth
          /\ \A i \in 1 .. Depth : {thread[i].p, thread[i].x} \subseteq {"obj", "other", "none"}

\* The next step is an access of the object followed that is exempt from its guard.
Exempt == /\ InBlock /\ This.do = "access" /\ OnObj
          /\ IsFreshAt(Top.fn, This.v, Here, This.of)

\* The object when v came to hold it: as it was passed, made or allocated.
Came(v) == IF v = "p" THEN Top.entered ELSE Top.got
\* f itself inserts v in a container on some way to pos.
Inserts(f, v, pos) ==
    \E a \in Instrs(f) : /\ InstrAt(f, a).do \in {"put", "nest"} /\ InstrAt(f, a).v = v
                         /\ CanReach(f, a, pos)

\* An exempt access is of an object that nobody shared, neither this function nor
\* those that had it before or were passed it, and nobody has handed on the address
\* of the field, or inserted the object in a container, through which others could
\* reach it.  Two ways of theirs to it are left open, and are named here: what this
\* function inserts it in itself, as the exemption outlives the critical section
\* (SectionEnds below), and what was so before the object came as an unpublished
\* result or parameter, as checkFreshReturns and checkFreshArgs look for escapes of
\* all of the object only.  An object allocated here came with neither.
ExemptIsUnshared ==
    Exempt => LET v == This.v IN
        /\ ~object.shared
        /\ This.of \in object.fields => This.of \in Came(v).fields
        /\ object.contained # "no" => Came(v).contained # "no" \/ Inserts(Top.fn, v, Here)

\* A function that is not found to publish its parameter does not, nor does any
\* function that it calls: while it runs nothing of it becomes shared.
PublishesIsKnown ==
    stage = "running" => \A i \in 1 .. Depth :
        thread[i].p = "obj" /\ thread[i].fn \notin publishes =>
            LET before == thread[i].entered IN
                /\ object.shared => before.shared
                /\ object.fields \cap Guarded \subseteq before.fields

\* "Stored into a lock-guarded field of an object this function did not build:
\* not published for the rest of that critical section" (README.md:584), "and not
\* beyond it" (596): an exempt access is not of an object in a container that
\* others can reach and whose lock is not held.
SectionEnds == Exempt => object.contained # "after"
=============================================================================
