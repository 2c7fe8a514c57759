----------------------------- MODULE FreshProofs -----------------------------
(***************************************************************************)
(* Proofs about Fresh, for every package, every order of its functions and *)
(* every depth of the stack: what the rounds find out about the functions  *)
(* is right, and an access that is exempt from its guard is of an object   *)
(* that nobody shared, nor handed a field on, nor inserted in a container, *)
(* but for what was so when the function came to hold it and for what it   *)
(* inserts it in itself.                                                   *)
(*                                                                         *)
(* The invariant of a run speaks of the stack t and of the object o.  The  *)
(* object has one holder at the bottom, which has it as its x or was given *)
(* it first, and the functions that it was passed on to lie right above,   *)
(* each with the object as its p.  Whatever spread of it is an escape, in  *)
(* each function that holds it, from which control can get to where that   *)
(* function is now; or an insertion there, or from before it came.         *)
(***************************************************************************)
EXTENDS Fresh, TLAPS, FiniteSetTheorems

Values == {"obj", "other", "none"}
ObjectType == [shared : BOOLEAN, fields : SUBSET Field, contained : {"no", "locked", "after"}]
FrameType == [fn : Function, block : Nat, next : Nat \ {0}, p : Values, x : Values,
              got : ObjectType, put : BOOLEAN, section : BOOLEAN, nested : BOOLEAN,
              entered : ObjectType]

\* A frame, seen on its own.
ValueIn(fr, v) == IF v = "p" THEN fr.p ELSE fr.x
Holds(fr) == "obj" \in {fr.p, fr.x}
At(fr) == <<fr.block, fr.next>>
InBody(fr) == /\ fr \in FrameType /\ fr.block \in Block(fr.fn)
              /\ fr.next <= Len(body[fr.fn].code[fr.block]) + 1
Calling(fr) == InstrAt(fr.fn, <<fr.block, fr.next - 1>>)
CameIn(fr, v) == IF v = "p" THEN fr.entered ELSE fr.got

\* Something of v that concerns the field has escaped on a way to pos.
Escaped(f, v, field, pos) ==
    \E e \in EscapesOf(f, v, FALSE) : e.field \in {None, field} /\ CanReach(f, e.inst, pos)

-----------------------------------------------------------------------------
\* The stack: a frame under another one is in a call of it.
Stacked(t) == /\ t \in Seq(FrameType) /\ Len(t) <= MaxDepth
              /\ \A i \in DOMAIN t : InBody(t[i])
              /\ \A i \in DOMAIN t : i + 1 \in DOMAIN t =>
                    /\ t[i].next > 1 /\ Calling(t[i]).do \in {"call", "make"}
                    /\ Calling(t[i]).of = t[i + 1].fn
                    /\ t[i + 1].p = IF Calling(t[i]).do = "call"
                                    THEN ValueIn(t[i], Calling(t[i]).v) ELSE "other"

\* Who holds the object: one frame as x, and nothing under it; those above pass it on.
OneHolder(t) == \A j \in DOMAIN t : t[j].x = "obj" =>
                    t[j].p # "obj" /\ \A k \in DOMAIN t : k < j => ~Holds(t[k])
Handed(t) == \A j, k \in DOMAIN t : j < k /\ Holds(t[j]) /\ t[k].p = "obj" => t[j + 1].p = "obj"

\* What the functions on the way down do with their parameter is known of each.
Implied(t) == \A j, k \in DOMAIN t :
                  j < k /\ t[j].p = "obj" /\ t[k].p = "obj" /\ t[k].fn \in publishes
                  => t[j].fn \in publishes
\* fr, which is or becomes the jth frame, has inserted what it was passed, or an x
\* that no frame below has.
Insertion(t, j, fr) ==
    \/ fr.p = "obj" /\ fr.fn \in publishes /\ Inserts(fr.fn, "p", At(fr))
    \/ /\ fr.p # "obj" /\ Inserts(fr.fn, "x", At(fr))
       /\ \A k \in DOMAIN t : k < j => ~Holds(t[k])
Putters(t) == \A j \in DOMAIN t :
                  /\ t[j].put => t[j].p = "obj" /\ t[j].fn \in publishes
                  /\ t[j].nested => Insertion(t, j, t[j])

\* What has spread of the object since a function was called with it, or has held it.
Publishers(t, o) == \A j \in DOMAIN t : t[j].p = "obj" /\ t[j].fn \notin publishes =>
                        /\ o.shared => t[j].entered.shared
                        /\ o.fields \cap Guarded \subseteq t[j].entered.fields
Seen(t, o) == \A j \in DOMAIN t, v \in {"p", "x"} :
                  ValueIn(t[j], v) = "obj" /\ v \in Roots(t[j].fn) /\ o.shared
                  => Escaped(t[j].fn, v, None, At(t[j]))
SeenFields(t, o) == \A j \in DOMAIN t, v \in {"p", "x"}, c \in Guarded :
                        ValueIn(t[j], v) = "obj" /\ c \in o.fields
                        => c \in CameIn(t[j], v).fields \/ Escaped(t[j].fn, v, c, At(t[j]))
SeenIn(t, o) == \A j \in DOMAIN t, v \in {"p", "x"} :
                    ValueIn(t[j], v) = "obj" /\ o.contained # "no"
                    => \/ CameIn(t[j], v).contained # "no" \/ Inserts(t[j].fn, v, At(t[j]))
                       \/ Escaped(t[j].fn, v, None, At(t[j]))
InSection(t, o) == \A j \in DOMAIN t : t[j].section => o.contained # "no"

RunInv(t, o) == /\ o \in ObjectType /\ Stacked(t)
                /\ OneHolder(t) /\ Handed(t) /\ Implied(t) /\ Putters(t)
                /\ Publishers(t, o) /\ Seen(t, o)
                /\ SeenFields(t, o) /\ SeenIn(t, o) /\ InSection(t, o)

-----------------------------------------------------------------------------
\* The rounds: another look at a function finds nothing new.
Settled(f) == ComputePublishes(f) => f \in publishes
AllSettled == \A f \in Function : Settled(f)
Ordered == order \in Seq(Function) /\ \A f \in Function : \E i \in DOMAIN order : order[i] = f
Ended == round + 1 < MaxRounds   \* not the bound on the rounds ended them

Typed == /\ body \in Programs /\ Ordered /\ stage \in {"rounds", "checked", "running"}
         /\ round \in Nat /\ at \in 1 .. Len(order) + 1 /\ changed \in BOOLEAN
         /\ publishes \subseteq Function
Visited(f) == \E i \in DOMAIN order : i < at /\ order[i] = f
RoundsInv == /\ stage = "rounds" /\ ~changed => \A f \in Function : Visited(f) => Settled(f)
             /\ stage # "rounds" /\ Ended => AllSettled
Idle == stage # "running" => thread = <<>> /\ object = NoObject
Accepted == stage = "running" => \A f \in Function : ~Reported(f)
RunIsRight == stage = "running" /\ Ended => RunInv(thread, object)

IInv == Typed /\ RoundsInv /\ Idle /\ Accepted /\ RunIsRight

-----------------------------------------------------------------------------
(***************************************************************************)
(* The bodies, and where control can get to in them.                       *)
(***************************************************************************)
LEMMA InstrParts ==
    ASSUME NEW i \in Instr
    PROVE  /\ i.do \in {"new", "make", "share", "point", "put", "unlock", "nest", "expose",
                        "access", "call", "return"}
           /\ i.v \in {"p", "x"}
           /\ i.do \in {"make", "call"} => i.of \in Function
           /\ i.do = "point" => i.of \in Field
BY FieldAssumption DEF Instr

LEMMA BodyParts ==
    ASSUME body \in Programs, NEW f \in Function
    PROVE  /\ 1 \in Block(f) /\ Block(f) \subseteq Nat
           /\ \A b \in Block(f) : /\ body[f].succs[b] \subseteq Block(f)
                                  /\ body[f].code[b] \in Seq(Instr)
           /\ body[f].freshParam \in BOOLEAN /\ body[f].returnsFresh \in BOOLEAN
<1> HIDE DEF Instr
<1>1. /\ body[f] \in Body /\ DOMAIN body[f].code = DOMAIN body[f].succs
      /\ 1 \in DOMAIN body[f].code
      /\ \A b \in DOMAIN body[f].succs : body[f].succs[b] \subseteq DOMAIN body[f].code
  BY ProgramAssumption
<1>2. /\ body[f].code \in Seq(Seq(Instr))
      /\ body[f].freshParam \in BOOLEAN /\ body[f].returnsFresh \in BOOLEAN
  BY <1>1 DEF Body
<1> DEFINE code == body[f].code
<1>3. code \in Seq(Seq(Instr))  BY <1>2
<1> HIDE DEF code
<1>4. DOMAIN code \subseteq Nat /\ \A b \in DOMAIN code : code[b] \in Seq(Instr)
  BY <1>3
<1> QED  BY <1>1, <1>2, <1>4 DEF code, Block

\* An instruction of a body.
LEMMA InstrsAre ==
    ASSUME body \in Programs, NEW f \in Function, NEW b \in Block(f),
           NEW n \in DOMAIN body[f].code[b]
    PROVE  /\ <<b, n>> \in Instrs(f) /\ n \in Nat \ {0} /\ n <= Len(body[f].code[b])
           /\ InstrAt(f, <<b, n>>) = body[f].code[b][n] /\ InstrAt(f, <<b, n>>) \in Instr
<1> HIDE DEF Instr
<1>1. body[f].code[b] \in Seq(Instr)  BY BodyParts
<1>2. <<b, n>> \in {b} \X DOMAIN body[f].code[b]  OBVIOUS
<1>3. <<b, n>> \in Instrs(f)  BY <1>2 DEF Instrs
<1> QED  BY <1>1, <1>3 DEF InstrAt

LEMMA PositionsAre ==
    ASSUME body \in Programs, NEW f \in Function, NEW pos \in Instrs(f)
    PROVE  /\ pos[1] \in Block(f) /\ pos[2] \in DOMAIN body[f].code[pos[1]]
           /\ pos = <<pos[1], pos[2]>> /\ InstrAt(f, pos) \in Instr
<1> HIDE DEF Instr
<1>1. PICK b \in Block(f) : pos \in {b} \X DOMAIN body[f].code[b]  BY DEF Instrs
<1>2. pos[1] = b /\ pos[2] \in DOMAIN body[f].code[b] /\ pos = <<pos[1], pos[2]>>  BY <1>1
<1> QED  BY <1>2, InstrsAre

\* Reaches is closed under succs.
LEMMA ReachesOn ==
    ASSUME body \in Programs, NEW f \in Function, NEW b \in Block(f)
    PROVE  /\ body[f].succs[b] \subseteq Reaches(f, b)
           /\ \A c \in Reaches(f, b) : body[f].succs[c] \subseteq Reaches(f, b)
<1>1. \A c \in Block(f) : body[f].succs[c] \subseteq Block(f)  BY BodyParts
<1>2. body[f].succs[b] \subseteq Reaches(f, b)  BY <1>1 DEF Reaches
<1>3. ASSUME NEW c \in Reaches(f, b), NEW d \in body[f].succs[c]  PROVE d \in Reaches(f, b)
  BY <1>1 DEF Reaches
<1> QED  BY <1>2, <1>3

\* What can reach an instruction can reach the next one and the successors of its
\* block, and so can the instruction.
LEMMA ReachOn ==
    ASSUME body \in Programs, NEW f \in Function, NEW b \in Block(f), NEW n \in Nat,
           NEW e \in Instrs(f), CanReach(f, e, <<b, n>>)
    PROVE  /\ CanReach(f, e, <<b, n + 1>>)
           /\ \A s \in body[f].succs[b] : CanReach(f, e, <<s, 1>>)
<1>1. e[1] \in Block(f) /\ e[2] \in Nat
  <2>1. e[1] \in Block(f) /\ e = <<e[1], e[2]>> /\ e[2] \in DOMAIN body[f].code[e[1]]
    BY PositionsAre
  <2> QED  BY <2>1, InstrsAre
<1>2. \/ b \in Reaches(f, e[1])
      \/ e[1] = b /\ e[2] < n  BY DEF CanReach
<1>3. CanReach(f, e, <<b, n + 1>>)  BY <1>1, <1>2 DEF CanReach
<1>4. ASSUME NEW s \in body[f].succs[b]  PROVE CanReach(f, e, <<s, 1>>)
  BY <1>1, <1>2, ReachesOn DEF CanReach
<1> QED  BY <1>3, <1>4

LEMMA ReachNext == \A f, b : \A n \in Nat : CanReach(f, <<b, n>>, <<b, n + 1>>)
BY DEF CanReach

-----------------------------------------------------------------------------
(***************************************************************************)
(* The escapes of a value.                                                 *)
(***************************************************************************)
LEMMA EscapeOf ==
    ASSUME NEW f, NEW v, NEW pos \in Instrs(f), NEW how \in BOOLEAN,
           NEW field \in EscapesHere(f, v, pos, how)
    PROVE  [inst |-> pos, field |-> field] \in EscapesOf(f, v, how)
BY DEF EscapesOf

LEMMA EscapeIsAt ==
    ASSUME NEW f, NEW v, NEW how, NEW e \in EscapesOf(f, v, how)
    PROVE  e.inst \in Instrs(f)
<1>1. PICK pos \in Instrs(f) :
         e \in {[inst |-> pos, field |-> c] : c \in EscapesHere(f, v, pos, how)}
  BY DEF EscapesOf
<1>2. PICK c : e = [inst |-> pos, field |-> c]  BY <1>1
<1> QED  BY <1>2

LEMMA FreshMeans == \A f, v, pos, field :
    IsFreshAt(f, v, pos, field) <=> v \in Roots(f) /\ ~Escaped(f, v, field, pos)
BY DEF IsFreshAt, Escaped

\* What escapes here, by instruction.
LEMMA EscapesAre ==
    ASSUME NEW f, NEW pos, NEW how \in BOOLEAN
    PROVE  LET i == InstrAt(f, pos) IN
           /\ i.do = "share" => None \in EscapesHere(f, i.v, pos, how)
           /\ i.do = "point" => i.of \in EscapesHere(f, i.v, pos, how)
           /\ i.do = "call" /\ i.of \in publishes => None \in EscapesHere(f, i.v, pos, how)
           /\ i.do \in {"put", "nest"} => None \in EscapesHere(f, i.v, pos, TRUE)
BY DEF EscapesHere

\* A function that is not found to publish does none of this to its parameter.
LEMMA KeepsToItself ==
    ASSUME AllSettled, NEW f \in Function, f \notin publishes, NEW pos \in Instrs(f),
           InstrAt(f, pos).v = "p"
    PROVE  LET i == InstrAt(f, pos) IN
           /\ i.do \notin {"share", "put", "nest"}
           /\ i.do = "point" => i.of \notin Guarded
           /\ i.do = "call" => i.of \notin publishes
<1>1. \A e \in EscapesOf(f, "p", TRUE) : e.field # None /\ e.field \notin Guarded
  BY DEF AllSettled, Settled, ComputePublishes, PublishesObject
<1>2. \A field \in EscapesHere(f, "p", pos, TRUE) : field # None /\ field \notin Guarded
  <2> SUFFICES ASSUME NEW field \in EscapesHere(f, "p", pos, TRUE)
               PROVE  field # None /\ field \notin Guarded
    OBVIOUS
  <2>1. [inst |-> pos, field |-> field] \in EscapesOf(f, "p", TRUE)  BY EscapeOf
  <2> QED  BY <1>1, <2>1
<1> QED  BY <1>2, EscapesAre

-----------------------------------------------------------------------------
(***************************************************************************)
(* Frames and the stack.                                                   *)
(***************************************************************************)
LEMMA FrameParts ==
    ASSUME NEW fr \in FrameType
    PROVE  /\ fr.fn \in Function /\ fr.block \in Nat /\ fr.next \in Nat \ {0}
           /\ fr.p \in Values /\ fr.x \in Values
           /\ fr.got \in ObjectType /\ fr.put \in BOOLEAN /\ fr.section \in BOOLEAN
           /\ fr.nested \in BOOLEAN /\ fr.entered \in ObjectType
BY DEF FrameType

\* The frame with another position, other values and other marks.
Changed(fr, b, n, x, got, put, section, nested) ==
    [fn |-> fr.fn, block |-> b, next |-> n, p |-> fr.p, x |-> x, got |-> got, put |-> put,
     section |-> section, nested |-> nested, entered |-> fr.entered]

LEMMA ChangedFrame ==
    ASSUME NEW fr \in FrameType, NEW b \in Nat, NEW n \in Nat \ {0}, NEW x \in Values,
           NEW got \in ObjectType, NEW put \in BOOLEAN, NEW section \in BOOLEAN, NEW nested \in BOOLEAN
    PROVE  Changed(fr, b, n, x, got, put, section, nested) \in FrameType
BY FrameParts DEF FrameType, Changed

LEMMA FrameIs ==
    ASSUME NEW fr \in FrameType
    PROVE  fr = Changed(fr, fr.block, fr.next, fr.x, fr.got, fr.put, fr.section, fr.nested)
BY DEF FrameType, Changed

\* The frames that the actions put in place of the top.
StepFrames(fr, x, got, put, section, nested, b, n) ==
    /\ [Advance(fr) EXCEPT !.x = x, !.got = got]
       = Changed(fr, fr.block, fr.next + 1, x, got, fr.put, fr.section, fr.nested)
    /\ Advance(fr)
       = Changed(fr, fr.block, fr.next + 1, fr.x, fr.got, fr.put, fr.section, fr.nested)
    /\ [Advance(fr) EXCEPT !.section = section, !.put = put]
       = Changed(fr, fr.block, fr.next + 1, fr.x, fr.got, put, section, fr.nested)
    /\ [Advance(fr) EXCEPT !.section = section]
       = Changed(fr, fr.block, fr.next + 1, fr.x, fr.got, fr.put, section, fr.nested)
    /\ [Advance(fr) EXCEPT !.nested = nested]
       = Changed(fr, fr.block, fr.next + 1, fr.x, fr.got, fr.put, fr.section, nested)
    /\ [Advance(fr) EXCEPT !.put = put]
       = Changed(fr, fr.block, fr.next + 1, fr.x, fr.got, put, fr.section, fr.nested)
    /\ [[fr EXCEPT !.block = b] EXCEPT !.next = n]
       = Changed(fr, b, n, fr.x, fr.got, fr.put, fr.section, fr.nested)
    /\ [[fr EXCEPT !.x = x] EXCEPT !.got = got]
       = Changed(fr, fr.block, fr.next, x, got, fr.put, fr.section, fr.nested)

LEMMA FramesOfSteps ==
    ASSUME NEW fr \in FrameType, NEW x, NEW got, NEW put, NEW section, NEW nested, NEW b, NEW n
    PROVE  StepFrames(fr, x, got, put, section, nested, b, n)
<1>1. fr = Changed(fr, fr.block, fr.next, fr.x, fr.got, fr.put, fr.section, fr.nested)
  BY FrameIs
<1>2. [Changed(fr, fr.block, fr.next, fr.x, fr.got, fr.put, fr.section, fr.nested) EXCEPT !.next = @ + 1]
         = Changed(fr, fr.block, fr.next + 1, fr.x, fr.got, fr.put, fr.section, fr.nested)
  BY DEF Changed
<1>3. [Changed(fr, fr.block, fr.next + 1, fr.x, fr.got, fr.put, fr.section, fr.nested) EXCEPT !.x = x]
         = Changed(fr, fr.block, fr.next + 1, x, fr.got, fr.put, fr.section, fr.nested)
  BY DEF Changed
<1>4. [Changed(fr, fr.block, fr.next + 1, x, fr.got, fr.put, fr.section, fr.nested) EXCEPT !.got = got]
         = Changed(fr, fr.block, fr.next + 1, x, got, fr.put, fr.section, fr.nested)
  BY DEF Changed
<1>5. [Changed(fr, fr.block, fr.next + 1, fr.x, fr.got, fr.put, fr.section, fr.nested) EXCEPT !.section = section]
         = Changed(fr, fr.block, fr.next + 1, fr.x, fr.got, fr.put, section, fr.nested)
  BY DEF Changed
<1>6. [Changed(fr, fr.block, fr.next + 1, fr.x, fr.got, fr.put, section, fr.nested) EXCEPT !.put = put]
         = Changed(fr, fr.block, fr.next + 1, fr.x, fr.got, put, section, fr.nested)
  BY DEF Changed
<1>7. [Changed(fr, fr.block, fr.next + 1, fr.x, fr.got, fr.put, fr.section, fr.nested) EXCEPT !.nested = nested]
         = Changed(fr, fr.block, fr.next + 1, fr.x, fr.got, fr.put, fr.section, nested)
  BY DEF Changed
<1>8. [Changed(fr, fr.block, fr.next + 1, fr.x, fr.got, fr.put, fr.section, fr.nested) EXCEPT !.put = put]
         = Changed(fr, fr.block, fr.next + 1, fr.x, fr.got, put, fr.section, fr.nested)
  BY DEF Changed
<1>9. [Changed(fr, fr.block, fr.next, fr.x, fr.got, fr.put, fr.section, fr.nested) EXCEPT !.block = b]
         = Changed(fr, b, fr.next, fr.x, fr.got, fr.put, fr.section, fr.nested)
  BY DEF Changed
<1>10. [Changed(fr, b, fr.next, fr.x, fr.got, fr.put, fr.section, fr.nested) EXCEPT !.next = n]
         = Changed(fr, b, n, fr.x, fr.got, fr.put, fr.section, fr.nested)
  BY DEF Changed
<1>11. [Changed(fr, fr.block, fr.next, fr.x, fr.got, fr.put, fr.section, fr.nested) EXCEPT !.x = x]
         = Changed(fr, fr.block, fr.next, x, fr.got, fr.put, fr.section, fr.nested)
  BY DEF Changed
<1>12. [Changed(fr, fr.block, fr.next, x, fr.got, fr.put, fr.section, fr.nested) EXCEPT !.got = got]
         = Changed(fr, fr.block, fr.next, x, got, fr.put, fr.section, fr.nested)
  BY DEF Changed
<1>13. \A r, y, z : /\ [r EXCEPT !.x = y, !.got = z] = [[r EXCEPT !.x = y] EXCEPT !.got = z]
                   /\ [r EXCEPT !.section = y, !.put = z] = [[r EXCEPT !.section = y] EXCEPT !.put = z]
  OBVIOUS
<1> QED  BY <1>1, <1>2, <1>3, <1>4, <1>5, <1>6, <1>7, <1>8, <1>9, <1>10, <1>11, <1>12, <1>13 DEF Advance, StepFrames

-----------------------------------------------------------------------------
(***************************************************************************)
(* A step of the frame on top, seen from the stack.                        *)
(***************************************************************************)
\* The instruction that the frame is at lets a field of v escape, and is before "to".
Spreads(fr, to, v, field) ==
    /\ v \in {"p", "x"} /\ ValueIn(fr, v) = "obj"
    /\ At(fr) \in Instrs(fr.fn) /\ CanReach(fr.fn, At(fr), At(to))
    /\ field \in EscapesHere(fr.fn, v, At(fr), FALSE)
    /\ v = "p" /\ field \in Guarded \cup {None} => fr.fn \in publishes

\* The frame goes on, in its body.
GoesOn(fr, to) ==
    /\ InBody(to) /\ to.fn = fr.fn /\ to.p = fr.p /\ to.entered = fr.entered
    /\ \A e \in Instrs(fr.fn) : CanReach(fr.fn, e, At(fr)) => CanReach(fr.fn, e, At(to))

\* Its x is the same, or not the object, or the object, which no frame held.
TakesX(t, fr, to, o2) ==
    \/ to.x = fr.x /\ to.got = fr.got
    \/ to.x = "other" \/ to.x = "none"
    \/ /\ to.x = "obj" /\ \A j \in DOMAIN t : ~Holds(t[j])
       /\ "x" \in Roots(fr.fn) => ~o2.shared
       /\ o2.fields \cap Guarded \subseteq to.got.fields
       /\ o2.contained # "no" => to.got.contained # "no"

\* The object is, or has been, inserted by the top or by what it becomes.
Inserted(t, to) == t[Len(t)].nested \/ Insertion(t, Len(t), to)

Marks(t, to, o2) == /\ to.put => to.p = "obj" /\ to.fn \in publishes
                    /\ to.nested => Inserted(t, to)
                    /\ to.section => o2.contained # "no"

Spread(t, o, to, o2) ==
    LET fr == t[Len(t)] IN
    /\ o2.shared => o.shared \/ \E v : Spreads(fr, to, v, None)
    /\ \A c \in o2.fields : c \in o.fields \/ \E v : Spreads(fr, to, v, c)
    /\ o.contained # "no" => o2.contained # "no"
    /\ o2.contained # "no" => o.contained # "no" \/ Inserted(t, to)

Moves(t, o, to, o2) ==
    /\ GoesOn(t[Len(t)], to) /\ TakesX(t, t[Len(t)], to, o2) /\ Marks(t, to, o2)
    /\ o2 \in ObjectType /\ Spread(t, o, to, o2)

\* One frame holds the object in one of its two values, and so do frames below it.
LEMMA OneValue ==
    ASSUME NEW t, OneHolder(t), NEW j \in DOMAIN t, NEW v \in {"p", "x"}, NEW w \in {"p", "x"},
           ValueIn(t[j], v) = "obj", ValueIn(t[j], w) = "obj"
    PROVE  v = w
BY DEF OneHolder, ValueIn

LEMMA AboveIsP ==
    ASSUME NEW t, OneHolder(t), NEW j \in DOMAIN t, NEW k \in DOMAIN t, j < k, Holds(t[j]),
           NEW v \in {"p", "x"}, ValueIn(t[k], v) = "obj"
    PROVE  v = "p" /\ t[k].p = "obj"
BY DEF OneHolder, ValueIn

LEMMA HoldsValue ==
    \A fr : \A v \in {"p", "x"} : ValueIn(fr, v) = "obj" => Holds(fr)
BY DEF Holds, ValueIn

\* What the top publishes of its parameter has escaped in every frame below that holds it.
LEMMA Below ==
    ASSUME body \in Programs, NEW t, Stacked(t), OneHolder(t), Handed(t), Implied(t),
           NEW n \in DOMAIN t, t[n].p = "obj", t[n].fn \in publishes,
           NEW j \in DOMAIN t, j < n
    PROVE  /\ t[j].p = "obj" => t[j].fn \in publishes
           /\ \A v \in {"p", "x"} : \A field :
                 ValueIn(t[j], v) = "obj" => Escaped(t[j].fn, v, field, At(t[j]))
<1> HIDE DEF Instr
<1>1. t[j].p = "obj" => t[j].fn \in publishes  BY DEF Implied
<1>2. ASSUME NEW v \in {"p", "x"}, NEW field, ValueIn(t[j], v) = "obj"
      PROVE  Escaped(t[j].fn, v, field, At(t[j]))
  <2>0. t \in Seq(FrameType) /\ j \in Nat /\ n \in Nat /\ n <= Len(t)  BY DEF Stacked
  <2>1. j + 1 \in DOMAIN t /\ t[j] \in FrameType  BY <2>0
  <2>2. t[j + 1].p = "obj"  BY <1>2, HoldsValue DEF Handed
  <2>3. t[j + 1].fn \in publishes
    <3>1. j + 1 = n \/ j + 1 < n  BY <2>0
    <3> QED  BY <3>1, <2>1, <2>2 DEF Implied
  <2> DEFINE c == Calling(t[j])
  <2>4. /\ t[j].next > 1 /\ c.do \in {"call", "make"} /\ c.of = t[j + 1].fn
        /\ t[j + 1].p = IF c.do = "call" THEN ValueIn(t[j], c.v) ELSE "other"
    BY <2>1 DEF Stacked
  <2>5. /\ t[j].fn \in Function /\ t[j].block \in Block(t[j].fn) /\ t[j].next \in Nat
        /\ t[j].next <= Len(body[t[j].fn].code[t[j].block]) + 1
    BY <2>1, FrameParts DEF Stacked, InBody
  <2> DEFINE f == t[j].fn
             pos == <<t[j].block, t[j].next - 1>>
  <2>6. /\ t[j].next - 1 \in Nat /\ t[j].next = (t[j].next - 1) + 1
        /\ t[j].next - 1 \in DOMAIN body[f].code[t[j].block]
    <3>1. body[f].code[t[j].block] \in Seq(Instr)  BY <2>5, BodyParts
    <3> QED  BY <2>4, <2>5, <3>1
  <2>7. pos \in Instrs(f) /\ c \in Instr /\ InstrAt(f, pos) = c
    BY <2>5, <2>6, InstrsAre DEF Calling
  <2>8. CanReach(f, pos, At(t[j]))  BY <2>6, ReachNext DEF At
  <2>9. c.do = "call" /\ ValueIn(t[j], c.v) = "obj" /\ c.v \in {"p", "x"}
    BY <2>2, <2>4, <2>7, InstrParts
  <2>10. c.v = v  BY <1>2, <2>9, OneValue
  <2>11. None \in EscapesHere(f, v, pos, FALSE)
    BY <2>3, <2>4, <2>7, <2>9, <2>10, EscapesAre
  <2>12. [inst |-> pos, field |-> None] \in EscapesOf(f, v, FALSE)
    BY <2>7, <2>11, EscapeOf
  <2> QED  BY <2>8, <2>12 DEF Escaped
<1> QED  BY <1>1, <1>2

\* The stack with another frame on top.
LEMMA OnTop ==
    ASSUME NEW t \in Seq(FrameType), t # <<>>, NEW to \in FrameType
    PROVE  LET n == Len(t)  t2 == [t EXCEPT ![n] = to] IN
           /\ n \in DOMAIN t /\ n \in Nat /\ \A j \in DOMAIN t : j \in Nat /\ (j = n \/ j < n)
           /\ t2 \in Seq(FrameType) /\ Len(t2) = n /\ DOMAIN t2 = DOMAIN t
           /\ t2[n] = to /\ \A j \in DOMAIN t : j # n => t2[j] = t[j]
OBVIOUS

LEMMA MoveKeeps ==
    ASSUME body \in Programs, NEW t, NEW o, RunInv(t, o), t # <<>>,
           NEW to, NEW o2, Moves(t, o, to, o2)
    PROVE  RunInv([t EXCEPT ![Len(t)] = to], o2)
<1> HIDE DEF Instr, FrameType, ObjectType
<1> DEFINE n == Len(t)
           t2 == [t EXCEPT ![n] = to]
<1>1. /\ Stacked(t) /\ OneHolder(t) /\ Handed(t) /\ Implied(t) /\ Putters(t)
      /\ Publishers(t, o) /\ Seen(t, o) /\ SeenFields(t, o) /\ SeenIn(t, o) /\ InSection(t, o)
  BY DEF RunInv
<1>2. /\ GoesOn(t[n], to) /\ TakesX(t, t[n], to, o2) /\ Marks(t, to, o2) /\ o2 \in ObjectType
      /\ o2.shared => o.shared \/ \E v : Spreads(t[n], to, v, None)
      /\ \A c \in o2.fields : c \in o.fields \/ \E v : Spreads(t[n], to, v, c)
      /\ o.contained # "no" => o2.contained # "no"
      /\ o2.contained # "no" => o.contained # "no" \/ t[n].nested \/ Insertion(t, n, to)
  BY DEF Moves, Spread, Inserted
<1>3. /\ to \in FrameType /\ to.fn = t[n].fn /\ to.p = t[n].p /\ to.entered = t[n].entered
      /\ InBody(to)
      /\ \A e \in Instrs(t[n].fn) : CanReach(t[n].fn, e, At(t[n])) => CanReach(t[n].fn, e, At(to))
  BY <1>2 DEF GoesOn, InBody
<1>4. t \in Seq(FrameType)  BY <1>1 DEF Stacked
<1>5. /\ n \in DOMAIN t /\ n \in Nat /\ \A j \in DOMAIN t : j \in Nat /\ (j = n \/ j < n)
      /\ t2 \in Seq(FrameType) /\ Len(t2) = n /\ DOMAIN t2 = DOMAIN t
      /\ t2[n] = to /\ \A j \in DOMAIN t : j # n => t2[j] = t[j]
  BY <1>3, <1>4, OnTop
<1>6. \A j \in DOMAIN t : t2[j].fn = t[j].fn /\ t2[j].p = t[j].p /\ t2[j].entered = t[j].entered
  BY <1>3, <1>5
<1> HIDE DEF t2, n
\* What spreads is known of the functions below, or they do not hold the object.
<1>7. ASSUME NEW v, NEW c, Spreads(t[n], to, v, c), c \in Guarded \cup {None},
             NEW j \in DOMAIN t, j < n
      PROVE  /\ t[j].p = "obj" => t[j].fn \in publishes
             /\ \A w \in {"p", "x"} : \A field :
                   ValueIn(t[j], w) = "obj" => Escaped(t[j].fn, w, field, At(t[j]))
  <2>1. CASE ~Holds(t[j])
    BY <2>1, HoldsValue DEF ValueIn
  <2>2. CASE Holds(t[j])
    <3>1. v \in {"p", "x"} /\ ValueIn(t[n], v) = "obj" /\ (v = "p" => t[n].fn \in publishes)
      BY <1>7 DEF Spreads
    <3>2. v = "p" /\ t[n].p = "obj"  BY <1>1, <1>5, <1>7, <2>2, <3>1, AboveIsP
    <3> QED  BY <1>1, <1>5, <1>7, <3>1, <3>2, Below
  <2> QED  BY <2>1, <2>2
<1>8. ASSUME NEW v, NEW c, Spreads(t[n], to, v, c)
      PROVE  /\ v \in {"p", "x"} /\ ValueIn(t[n], v) = "obj"
             /\ v = "p" /\ c \in Guarded \cup {None} => t[n].fn \in publishes
             /\ Escaped(t[n].fn, v, c, At(to))
  <2>1. [inst |-> At(t[n]), field |-> c] \in EscapesOf(t[n].fn, v, FALSE)
    BY <1>8, EscapeOf DEF Spreads
  <2> QED  BY <1>8, <2>1 DEF Spreads, Escaped
<1>9. \A v, c : Escaped(t[n].fn, v, c, At(t[n])) => Escaped(t[n].fn, v, c, At(to))
  <2> SUFFICES ASSUME NEW v, NEW c, Escaped(t[n].fn, v, c, At(t[n]))
               PROVE  Escaped(t[n].fn, v, c, At(to))
    OBVIOUS
  <2>1. PICK e \in EscapesOf(t[n].fn, v, FALSE) :
           e.field \in {None, c} /\ CanReach(t[n].fn, e.inst, At(t[n]))
    BY DEF Escaped
  <2>2. e.inst \in Instrs(t[n].fn)  BY EscapeIsAt
  <2> QED  BY <1>3, <2>1, <2>2 DEF Escaped
<1>10. Stacked(t2)
  <2>1. \A j \in DOMAIN t2 : InBody(t2[j])  BY <1>1, <1>3, <1>5 DEF Stacked
  <2>2. ASSUME NEW i \in DOMAIN t2, i + 1 \in DOMAIN t2
        PROVE  /\ t2[i].next > 1 /\ Calling(t2[i]).do \in {"call", "make"}
               /\ Calling(t2[i]).of = t2[i + 1].fn
               /\ t2[i + 1].p = IF Calling(t2[i]).do = "call"
                                THEN ValueIn(t2[i], Calling(t2[i]).v) ELSE "other"
    <3>1. i \in DOMAIN t /\ i + 1 \in DOMAIN t /\ t2[i] = t[i]  BY <1>5, <2>2
    <3> QED  BY <1>1, <1>6, <3>1 DEF Stacked
  <2> QED  BY <1>1, <1>5, <2>1, <2>2 DEF Stacked, n
<1>11. OneHolder(t2)
  <2>1. ASSUME NEW j \in DOMAIN t2, t2[j].x = "obj"
        PROVE  t2[j].p # "obj" /\ \A k \in DOMAIN t2 : k < j => ~Holds(t2[k])
    <3>1. CASE t2[j].x = t[j].x
      BY <1>1, <1>5, <1>6, <2>1, <3>1 DEF OneHolder
    <3>2. CASE t2[j].x # t[j].x
      <4>1. j = n /\ \A k \in DOMAIN t : ~Holds(t[k])  BY <1>2, <1>5, <2>1, <3>2 DEF TakesX
      <4> QED  BY <1>5, <1>6, <4>1 DEF Holds
    <3> QED  BY <3>1, <3>2
  <2> QED  BY <2>1 DEF OneHolder
<1>12. Handed(t2)
  <2>1. ASSUME NEW j \in DOMAIN t2, NEW k \in DOMAIN t2, j < k, Holds(t2[j]), t2[k].p = "obj"
        PROVE  t2[j + 1].p = "obj"
    <3>1. j # n /\ j + 1 \in DOMAIN t  BY <1>4, <1>5, <2>1
    <3> QED  BY <1>1, <1>5, <1>6, <2>1, <3>1 DEF Handed
  <2> QED  BY <2>1 DEF Handed
<1>13. Implied(t2)  BY <1>1, <1>5, <1>6 DEF Implied
\* What the top has inserted it has still.
<1>14. \A v : Inserts(t[n].fn, v, At(t[n])) => Inserts(t[n].fn, v, At(to))
  BY <1>3 DEF Inserts
<1>15. t[n].nested => Insertion(t, n, to)
  <2>1. t[n].nested => Insertion(t, n, t[n])  BY <1>1, <1>5 DEF Putters
  <2> QED  BY <1>3, <1>14, <2>1 DEF Insertion
<1>16. Putters(t2)
  <2>1. to.nested => Insertion(t, n, to)  BY <1>2, <1>15 DEF Marks, Inserted, n
  <2>2. \A j \in DOMAIN t : \A fr : Insertion(t, j, fr) => Insertion(t2, j, fr)
    <3>1. \A j, k \in DOMAIN t : k < j => t2[k] = t[k]  BY <1>5
    <3> QED  BY <1>5, <3>1 DEF Insertion
  <2>3. \A j \in DOMAIN t2 : t2[j].put => t2[j].p = "obj" /\ t2[j].fn \in publishes
    BY <1>1, <1>2, <1>5 DEF Putters, Marks
  <2>4. \A j \in DOMAIN t2 : t2[j].nested => Insertion(t2, j, t2[j])
    BY <1>1, <1>5, <2>1, <2>2 DEF Putters
  <2> QED  BY <2>3, <2>4 DEF Putters
<1>17. ASSUME NEW j \in DOMAIN t, t[j].p = "obj", t[j].fn \notin publishes,
              NEW v, NEW c \in Guarded \cup {None}, Spreads(t[n], to, v, c)
       PROVE  FALSE
  <2>1. CASE j < n  BY <1>7, <1>17, <2>1
  <2>2. CASE j = n
    <3>1. v = "p"  BY <1>1, <1>5, <1>8, <1>17, <2>2, OneValue DEF ValueIn
    <3> QED  BY <1>8, <1>17, <2>2, <3>1
  <2> QED  BY <1>5, <2>1, <2>2
<1>18. Publishers(t2, o2)
  <2>1. ASSUME NEW j \in DOMAIN t, t[j].p = "obj", t[j].fn \notin publishes
        PROVE  /\ o2.shared => t[j].entered.shared
               /\ o2.fields \cap Guarded \subseteq t[j].entered.fields
    <3>1. (o.shared => t[j].entered.shared) /\ o.fields \cap Guarded \subseteq t[j].entered.fields
      BY <1>1, <2>1 DEF Publishers
    <3> QED  BY <1>2, <1>17, <2>1, <3>1
  <2> QED  BY <1>5, <1>6, <2>1 DEF Publishers
<1>19. Seen(t2, o2)
  <2>1. ASSUME NEW j \in DOMAIN t2, NEW v \in {"p", "x"},
               ValueIn(t2[j], v) = "obj", v \in Roots(t2[j].fn), o2.shared
        PROVE  Escaped(t2[j].fn, v, None, At(t2[j]))
    <3>1. CASE j # n
      <4>1. j \in DOMAIN t /\ j < n /\ t2[j] = t[j]  BY <1>5, <3>1
      <4>2. CASE o.shared  BY <1>1, <2>1, <4>1, <4>2 DEF Seen
      <4>3. CASE ~o.shared
        <5>1. PICK w : Spreads(t[n], to, w, None)  BY <1>2, <2>1, <4>3
        <5> QED  BY <1>7, <2>1, <4>1, <5>1
      <4> QED  BY <4>2, <4>3
    <3>2. CASE j = n
      <4>0. t2[j] = to /\ to.fn = t[n].fn  BY <1>3, <1>5, <3>2
      <4>1. CASE ValueIn(t[n], v) = "obj"
        <5>1. CASE o.shared
          BY <1>1, <1>5, <1>9, <2>1, <4>0, <4>1, <5>1 DEF Seen
        <5>2. CASE ~o.shared
          <6>1. PICK w : Spreads(t[n], to, w, None)  BY <1>2, <2>1, <5>2
          <6>2. w = v  BY <1>1, <1>5, <1>8, <4>1, <6>1, OneValue
          <6> QED  BY <1>8, <4>0, <6>1, <6>2
        <5> QED  BY <5>1, <5>2
      <4>2. CASE ValueIn(t[n], v) # "obj"
        BY <1>2, <1>3, <2>1, <4>0, <4>2 DEF TakesX, ValueIn
      <4> QED  BY <4>1, <4>2
    <3> QED  BY <3>1, <3>2
  <2> QED  BY <2>1 DEF Seen
\* A value of the top is that of before, or an x that no frame held.
<1>20. ASSUME NEW v \in {"p", "x"}, ValueIn(to, v) = "obj"
       PROVE  \/ ValueIn(t[n], v) = "obj" /\ CameIn(to, v) = CameIn(t[n], v)
              \/ /\ o2.fields \cap Guarded \subseteq CameIn(to, v).fields
                 /\ o2.contained # "no" => CameIn(to, v).contained # "no"
  BY <1>2, <1>3, <1>20 DEF TakesX, ValueIn, CameIn
<1>21. SeenFields(t2, o2)
  <2>1. ASSUME NEW j \in DOMAIN t2, NEW v \in {"p", "x"}, NEW c \in Guarded,
               ValueIn(t2[j], v) = "obj", c \in o2.fields
        PROVE  c \in CameIn(t2[j], v).fields \/ Escaped(t2[j].fn, v, c, At(t2[j]))
    <3>1. CASE j # n
      <4>1. j \in DOMAIN t /\ j < n /\ t2[j] = t[j]  BY <1>5, <3>1
      <4>2. CASE c \in o.fields  BY <1>1, <2>1, <4>1, <4>2 DEF SeenFields
      <4>3. CASE c \notin o.fields
        <5>1. PICK w : Spreads(t[n], to, w, c)  BY <1>2, <2>1, <4>3
        <5> QED  BY <1>7, <2>1, <4>1, <5>1
      <4> QED  BY <4>2, <4>3
    <3>2. CASE j = n
      <4>0. t2[j] = to /\ to.fn = t[n].fn  BY <1>3, <1>5, <3>2
      <4>1. CASE ValueIn(t[n], v) = "obj" /\ CameIn(to, v) = CameIn(t[n], v)
        <5>1. CASE c \in o.fields
          BY <1>1, <1>5, <1>9, <2>1, <4>0, <4>1, <5>1 DEF SeenFields
        <5>2. CASE c \notin o.fields
          <6>1. PICK w : Spreads(t[n], to, w, c)  BY <1>2, <2>1, <5>2
          <6>2. w = v  BY <1>1, <1>5, <1>8, <4>1, <6>1, OneValue
          <6> QED  BY <1>8, <4>0, <6>1, <6>2
        <5> QED  BY <5>1, <5>2
      <4>2. CASE o2.fields \cap Guarded \subseteq CameIn(to, v).fields
        BY <2>1, <4>0, <4>2
      <4> QED  BY <1>20, <2>1, <4>0, <4>1, <4>2
    <3> QED  BY <3>1, <3>2
  <2> QED  BY <2>1 DEF SeenFields
<1>22. SeenIn(t2, o2)
  <2>1. ASSUME NEW j \in DOMAIN t2, NEW v \in {"p", "x"},
               ValueIn(t2[j], v) = "obj", o2.contained # "no"
        PROVE  \/ CameIn(t2[j], v).contained # "no" \/ Inserts(t2[j].fn, v, At(t2[j]))
               \/ Escaped(t2[j].fn, v, None, At(t2[j]))
    <3>0. o.contained # "no" \/ Insertion(t, n, to)  BY <1>2, <1>15, <2>1
    <3>1. CASE j # n
      <4>1. j \in DOMAIN t /\ j < n /\ t2[j] = t[j]  BY <1>5, <3>1
      <4>2. CASE o.contained # "no"  BY <1>1, <2>1, <4>1, <4>2 DEF SeenIn
      <4>3. CASE Insertion(t, n, to)
        <5>1. Holds(t[j])  BY <2>1, <4>1, HoldsValue
        <5>2. t[n].p = "obj" /\ t[n].fn \in publishes  BY <1>3, <4>1, <4>3, <5>1 DEF Insertion
        <5> QED  BY <1>1, <1>5, <2>1, <4>1, <5>2, Below
      <4> QED  BY <3>0, <4>2, <4>3
    <3>2. CASE j = n
      <4>0. t2[j] = to /\ to.fn = t[n].fn  BY <1>3, <1>5, <3>2
      <4>1. CASE ValueIn(t[n], v) = "obj" /\ CameIn(to, v) = CameIn(t[n], v)
        <5>1. CASE o.contained # "no"
          <6>1. \/ CameIn(t[n], v).contained # "no" \/ Inserts(t[n].fn, v, At(t[n]))
                \/ Escaped(t[n].fn, v, None, At(t[n]))
            BY <1>1, <1>5, <4>1, <5>1 DEF SeenIn
          <6> QED  BY <1>9, <1>14, <4>0, <4>1, <6>1
        <5>2. CASE Insertion(t, n, to)
          <6>1. CASE to.p = "obj" /\ Inserts(to.fn, "p", At(to))
            <7>1. ValueIn(t[n], "p") = "obj"  BY <1>3, <6>1 DEF ValueIn
            <7>2. v = "p"  BY <1>1, <1>5, <4>1, <7>1, OneValue
            <7> QED  BY <4>0, <6>1, <7>2
          <6>2. CASE to.p # "obj" /\ Inserts(to.fn, "x", At(to))
            <7>1. v = "x"  BY <1>3, <4>1, <6>2 DEF ValueIn
            <7> QED  BY <4>0, <6>2, <7>1
          <6> QED  BY <5>2, <6>1, <6>2 DEF Insertion
        <5> QED  BY <3>0, <5>1, <5>2
      <4>2. CASE CameIn(to, v).contained # "no"  BY <4>0, <4>2
      <4> QED  BY <1>20, <2>1, <4>0, <4>1, <4>2
    <3> QED  BY <3>1, <3>2
  <2> QED  BY <2>1 DEF SeenIn
<1>23. InSection(t2, o2)  BY <1>1, <1>2, <1>5 DEF InSection, Marks
<1>24. RunInv(t2, o2)
  BY <1>2, <1>10, <1>11, <1>12, <1>13, <1>16, <1>18, <1>19, <1>21, <1>22, <1>23 DEF RunInv
<1> QED  BY <1>24 DEF t2, n

-----------------------------------------------------------------------------
(***************************************************************************)
(* A call and a return, seen from the stack.                               *)
(***************************************************************************)
\* The new frame of a call, and what makes it right to enter it.
Entered(fn, p, o) == [fn |-> fn, block |-> 1, next |-> 1, p |-> p, x |-> "none",
                      got |-> NoObject, put |-> FALSE, section |-> FALSE,
                      nested |-> FALSE, entered |-> o]

LEMMA EnteredIs ==
    ASSUME body \in Programs, NEW fn \in Function, NEW p \in Values, NEW o \in ObjectType
    PROVE  /\ InBody(Entered(fn, p, o)) /\ Entered(fn, p, o).fn = fn
           /\ Entered(fn, p, o).p = p /\ Entered(fn, p, o).x = "none"
           /\ Entered(fn, p, o).entered = o
           /\ ~Entered(fn, p, o).put /\ ~Entered(fn, p, o).nested /\ ~Entered(fn, p, o).section
<1> HIDE DEF Instr, ObjectType
<1> DEFINE fr == Entered(fn, p, o)
<1>0. NoObject \in ObjectType  BY DEF NoObject, ObjectType
<1>1. fr \in FrameType  BY <1>0 DEF FrameType, Entered, Values
<1>2. /\ fr.fn = fn /\ fr.p = p /\ fr.x = "none" /\ fr.entered = o
      /\ ~fr.put /\ ~fr.nested /\ ~fr.section /\ fr.block = 1 /\ fr.next = 1
  BY DEF Entered
<1>3. 1 \in Block(fn) /\ body[fn].code[1] \in Seq(Instr)  BY BodyParts
<1>4. Len(body[fn].code[1]) \in Nat  BY <1>3
<1> HIDE DEF fr
<1>5. InBody(fr)  BY <1>1, <1>2, <1>3, <1>4 DEF InBody
<1> QED  BY <1>2, <1>5 DEF fr

LEMMA OneFrame ==
    ASSUME body \in Programs, NEW fn \in Function, NEW p \in Values
    PROVE  RunInv(<<Entered(fn, p, NoObject)>>, NoObject)
<1> HIDE DEF Instr, FrameType
<1> DEFINE fr == Entered(fn, p, NoObject)
           t == <<fr>>
<1>1. NoObject \in ObjectType /\ ~NoObject.shared /\ NoObject.fields = {} /\ NoObject.contained = "no"
  BY DEF NoObject, ObjectType
<1>2. InBody(fr) /\ fr.x = "none" /\ ~fr.put /\ ~fr.nested /\ ~fr.section /\ fr.entered = NoObject
  BY <1>1, EnteredIs
<1>3. fr \in FrameType  BY <1>2 DEF InBody
<1> HIDE DEF fr
<1>4. t \in Seq(FrameType) /\ Len(t) = 1 /\ DOMAIN t = {1} /\ t[1] = fr  BY <1>3
<1> HIDE DEF t
<1>5. Stacked(t)  BY <1>2, <1>4, BoundAssumption DEF Stacked
<1>6. OneHolder(t) /\ Handed(t) /\ Implied(t) /\ Putters(t)
  BY <1>2, <1>4 DEF OneHolder, Handed, Implied, Putters
<1>7. /\ Publishers(t, NoObject) /\ Seen(t, NoObject) /\ SeenFields(t, NoObject)
      /\ SeenIn(t, NoObject) /\ InSection(t, NoObject)
  BY <1>1, <1>2, <1>4 DEF Publishers, Seen, SeenFields, SeenIn, InSection
<1>8. RunInv(t, NoObject)  BY <1>1, <1>5, <1>6, <1>7 DEF RunInv
<1> QED  BY <1>8 DEF t, fr

LEMMA PushKeeps ==
    ASSUME body \in Programs, AllSettled, NEW t, NEW o, RunInv(t, o), t # <<>>, Len(t) < MaxDepth,
           NEW p, NEW fn \in Function,
           t[Len(t)].next > 1, Calling(t[Len(t)]).do \in {"call", "make"},
           Calling(t[Len(t)]).of = fn,
           p = IF Calling(t[Len(t)]).do = "call"
               THEN ValueIn(t[Len(t)], Calling(t[Len(t)]).v) ELSE "other",
           p = "obj" /\ body[fn].freshParam => ~o.shared
    PROVE  RunInv(Append(t, Entered(fn, p, o)), o)
<1> HIDE DEF Instr, FrameType, ObjectType
<1> DEFINE n == Len(t)
           c == Calling(t[n])
           fr == Entered(fn, p, o)
           t2 == Append(t, fr)
<1>1. /\ Stacked(t) /\ OneHolder(t) /\ Handed(t) /\ Implied(t) /\ Putters(t)
      /\ Publishers(t, o) /\ Seen(t, o) /\ SeenFields(t, o) /\ SeenIn(t, o) /\ InSection(t, o)
      /\ o \in ObjectType
  BY DEF RunInv
<1>2. t \in Seq(FrameType)  BY <1>1 DEF Stacked
<1>3. n \in DOMAIN t /\ n \in Nat \ {0} /\ t[n] \in FrameType /\ DOMAIN t = 1 .. n  BY <1>2
<1>4. p \in Values  BY <1>3, FrameParts DEF Values, ValueIn
<1>5. InBody(fr) /\ fr.fn = fn /\ fr.p = p /\ fr.x = "none" /\ fr.entered = o
      /\ ~fr.put /\ ~fr.nested /\ ~fr.section
  BY <1>1, <1>4, EnteredIs
<1>6. fr \in FrameType  BY <1>5 DEF InBody
<1> HIDE DEF fr, c
<1>7. /\ t2 \in Seq(FrameType) /\ Len(t2) = n + 1 /\ DOMAIN t2 = DOMAIN t \cup {n + 1}
      /\ t2[n + 1] = fr /\ \A j \in DOMAIN t : t2[j] = t[j] /\ j \in Nat /\ j < n + 1
  BY <1>2, <1>3, <1>6
\* The object, when it is passed, is the caller's p, or no frame below the caller holds it.
<1>8. ASSUME p = "obj"
      PROVE  /\ c.do = "call" /\ c.v \in {"p", "x"} /\ ValueIn(t[n], c.v) = "obj" /\ Holds(t[n])
             /\ c = InstrAt(t[n].fn, <<t[n].block, t[n].next - 1>>)
             /\ <<t[n].block, t[n].next - 1>> \in Instrs(t[n].fn)
             /\ t[n].fn \in Function
  <2>1. c.do = "call" /\ ValueIn(t[n], c.v) = "obj"  BY <1>8 DEF c
  <2>2. /\ t[n].fn \in Function /\ t[n].block \in Block(t[n].fn) /\ t[n].next \in Nat
        /\ t[n].next <= Len(body[t[n].fn].code[t[n].block]) + 1
    BY <1>1, <1>3, FrameParts DEF Stacked, InBody
  <2>3. t[n].next - 1 \in DOMAIN body[t[n].fn].code[t[n].block]
    <3>1. body[t[n].fn].code[t[n].block] \in Seq(Instr)  BY <2>2, BodyParts
    <3> QED  BY <2>2, <3>1
  <2>4. /\ <<t[n].block, t[n].next - 1>> \in Instrs(t[n].fn) /\ c \in Instr
        /\ c = InstrAt(t[n].fn, <<t[n].block, t[n].next - 1>>)
    BY <2>2, <2>3, InstrsAre DEF c, Calling
  <2>5. c.v \in {"p", "x"}  BY <2>4, InstrParts
  <2> QED  BY <2>1, <2>2, <2>4, <2>5, HoldsValue
<1> HIDE DEF t2, n
<1>9. Stacked(t2)
  <2>1. \A j \in DOMAIN t2 : InBody(t2[j])  BY <1>1, <1>5, <1>7 DEF Stacked
  <2>2. ASSUME NEW i \in DOMAIN t2, i + 1 \in DOMAIN t2
        PROVE  /\ t2[i].next > 1 /\ Calling(t2[i]).do \in {"call", "make"}
               /\ Calling(t2[i]).of = t2[i + 1].fn
               /\ t2[i + 1].p = IF Calling(t2[i]).do = "call"
                                THEN ValueIn(t2[i], Calling(t2[i]).v) ELSE "other"
    <3>1. CASE i = n
      <4>1. t2[i] = t[n] /\ t2[i + 1] = fr  BY <1>3, <1>7, <3>1
      <4> QED  BY <1>5, <4>1 DEF n
    <3>2. CASE i # n
      <4>1. i \in DOMAIN t /\ i + 1 \in DOMAIN t /\ t2[i] = t[i] /\ t2[i + 1] = t[i + 1]
        BY <1>3, <1>7, <2>2, <3>2
      <4> QED  BY <1>1, <4>1 DEF Stacked
    <3> QED  BY <3>1, <3>2
  <2>3. Len(t2) <= MaxDepth  BY <1>3, <1>7, BoundAssumption DEF n
  <2> QED  BY <1>7, <2>1, <2>2, <2>3 DEF Stacked
<1>10. OneHolder(t2)
  <2>1. ASSUME NEW j \in DOMAIN t2, t2[j].x = "obj"
        PROVE  t2[j].p # "obj" /\ \A k \in DOMAIN t2 : k < j => ~Holds(t2[k])
    <3>1. j \in DOMAIN t  BY <1>5, <1>7, <2>1
    <3>2. t2[j] = t[j] /\ \A k \in DOMAIN t2 : k < j => k \in DOMAIN t /\ t2[k] = t[k]
      BY <1>7, <3>1
    <3> QED  BY <1>1, <2>1, <3>1, <3>2 DEF OneHolder
  <2> QED  BY <2>1 DEF OneHolder
\* A frame below the caller that holds the object handed it to the caller.
<1>11. ASSUME p = "obj", NEW j \in DOMAIN t, j < n, Holds(t[j])
       PROVE  t[n].p = "obj" /\ c.v = "p"
  BY <1>1, <1>3, <1>8, <1>11, AboveIsP
<1>12. Handed(t2)
  <2>1. ASSUME NEW j \in DOMAIN t2, NEW k \in DOMAIN t2, j < k, Holds(t2[j]), t2[k].p = "obj"
        PROVE  t2[j + 1].p = "obj"
    <3>1. CASE k \in DOMAIN t
      <4>1. j \in DOMAIN t /\ j + 1 \in DOMAIN t  BY <1>3, <1>7, <2>1, <3>1
      <4> QED  BY <1>1, <1>7, <2>1, <3>1, <4>1 DEF Handed
    <3>2. CASE k = n + 1 /\ j = n  BY <1>3, <1>7, <2>1, <3>2
    <3>3. CASE k = n + 1 /\ j # n
      <4>1. p = "obj"  BY <1>5, <1>7, <2>1, <3>3
      <4>2. j \in DOMAIN t /\ j < n /\ j + 1 \in DOMAIN t  BY <1>3, <1>7, <2>1, <3>3
      <4>3. t[n].p = "obj"  BY <1>7, <1>11, <2>1, <4>1, <4>2
      <4> QED  BY <1>1, <1>3, <1>7, <2>1, <4>2, <4>3 DEF Handed
    <3> QED  BY <1>7, <3>1, <3>2, <3>3
  <2> QED  BY <2>1 DEF Handed
<1>13. Implied(t2)
  <2>1. ASSUME NEW j \in DOMAIN t2, NEW k \in DOMAIN t2, j < k,
               t2[j].p = "obj", t2[k].p = "obj", t2[k].fn \in publishes
        PROVE  t2[j].fn \in publishes
    <3>0. j \in DOMAIN t /\ t2[j] = t[j]  BY <1>3, <1>7, <2>1
    <3>1. CASE k \in DOMAIN t  BY <1>1, <1>7, <2>1, <3>0, <3>1 DEF Implied
    <3>2. CASE k = n + 1
      <4>1. p = "obj" /\ fn \in publishes  BY <1>5, <1>7, <2>1, <3>2
      <4>2. t[n].p = "obj" /\ c.v = "p"
        <5>1. CASE j = n
          <6>1. ValueIn(t[n], "p") = "obj"  BY <2>1, <3>0, <5>1 DEF ValueIn
          <6> QED  BY <1>1, <1>3, <1>8, <4>1, <6>1, OneValue DEF ValueIn
        <5>2. CASE j # n
          <6>1. j < n /\ Holds(t[j])  BY <1>3, <2>1, <3>0, <5>2 DEF Holds
          <6> QED  BY <1>11, <3>0, <4>1, <6>1
        <5> QED  BY <5>1, <5>2
      <4>3. t[n].fn \in publishes
        <5>1. c.of = fn  BY DEF c, n
        <5> QED  BY <1>8, <4>1, <4>2, <5>1, KeepsToItself
      <4> QED  BY <1>1, <1>3, <2>1, <3>0, <4>2, <4>3 DEF Implied
    <3> QED  BY <1>7, <3>1, <3>2
  <2> QED  BY <2>1 DEF Implied
<1>14. Putters(t2)
  <2>1. \A j \in DOMAIN t : \A g : Insertion(t, j, g) => Insertion(t2, j, g)
    <3>1. \A j \in DOMAIN t : \A k \in DOMAIN t2 : k < j => k \in DOMAIN t /\ t2[k] = t[k]
      BY <1>3, <1>7
    <3> QED  BY <3>1 DEF Insertion
  <2> QED  BY <1>1, <1>5, <1>7, <2>1 DEF Putters
<1>15. Publishers(t2, o)  BY <1>1, <1>5, <1>7 DEF Publishers
<1>16. Seen(t2, o)
  <2>1. ASSUME NEW j \in DOMAIN t2, NEW v \in {"p", "x"},
               ValueIn(t2[j], v) = "obj", v \in Roots(t2[j].fn), o.shared
        PROVE  Escaped(t2[j].fn, v, None, At(t2[j]))
    <3>1. CASE j \in DOMAIN t  BY <1>1, <1>7, <2>1, <3>1 DEF Seen
    <3>2. CASE j = n + 1
      <4>1. v = "p" /\ p = "obj" /\ "p" \in Roots(fn)
        BY <1>5, <1>7, <2>1, <3>2 DEF ValueIn
      <4>2. body[fn].freshParam  BY <4>1 DEF Roots
      <4> QED  BY <2>1, <4>1, <4>2
    <3> QED  BY <1>7, <3>1, <3>2
  <2> QED  BY <2>1 DEF Seen
\* What the callee is passed comes to it as it is.
<1>17. \A v \in {"p", "x"} : ValueIn(fr, v) = "obj" => CameIn(fr, v) = o
  BY <1>5 DEF ValueIn, CameIn
<1>18. SeenFields(t2, o)  BY <1>1, <1>7, <1>17 DEF SeenFields
<1>19. SeenIn(t2, o)  BY <1>1, <1>7, <1>17 DEF SeenIn
<1>20. InSection(t2, o)  BY <1>1, <1>5, <1>7 DEF InSection
<1>21. RunInv(t2, o)
  BY <1>1, <1>9, <1>10, <1>12, <1>13, <1>14, <1>15, <1>16, <1>18, <1>19, <1>20 DEF RunInv
<1> QED  BY <1>21 DEF t2, fr

LEMMA PopKeeps ==
    ASSUME body \in Programs, NEW t, NEW o, RunInv(t, o), t # <<>>, NEW o2 \in ObjectType,
           o2.fields = o.fields, o2.shared => o.shared \/ t[Len(t)].put,
           o2.contained # "no" <=> o.contained # "no"
    PROVE  RunInv(SubSeq(t, 1, Len(t) - 1), o2)
<1> HIDE DEF Instr, FrameType, ObjectType
<1> DEFINE n == Len(t)
           u == SubSeq(t, 1, n - 1)
<1>1. /\ Stacked(t) /\ OneHolder(t) /\ Handed(t) /\ Implied(t) /\ Putters(t)
      /\ Publishers(t, o) /\ Seen(t, o) /\ SeenFields(t, o) /\ SeenIn(t, o) /\ InSection(t, o)
      /\ o \in ObjectType
  BY DEF RunInv
<1>2. t \in Seq(FrameType)  BY <1>1 DEF Stacked
<1>3. n \in DOMAIN t /\ n \in Nat \ {0} /\ DOMAIN t = 1 .. n  BY <1>2
<1>4. /\ u \in Seq(FrameType) /\ Len(u) = n - 1 /\ DOMAIN u = 1 .. n - 1
      /\ \A j \in DOMAIN u : u[j] = t[j]
  BY <1>2, <1>3
<1> HIDE DEF u
<1>5. \A j \in DOMAIN u : j \in DOMAIN t /\ j < n /\ j + 1 \in DOMAIN t  BY <1>3, <1>4
<1>6. Stacked(u)
  <2>1. Len(u) <= MaxDepth  BY <1>1, <1>3, <1>4, BoundAssumption DEF Stacked
  <2>2. \A i \in DOMAIN u : i + 1 \in DOMAIN u => u[i + 1] = t[i + 1]  BY <1>4
  <2> QED  BY <1>1, <1>4, <1>5, <2>1, <2>2 DEF Stacked
<1>7. OneHolder(u) /\ Implied(u) /\ Putters(u)
  <2>1. \A j \in DOMAIN u : \A g : Insertion(t, j, g) => Insertion(u, j, g)
    BY <1>4, <1>5 DEF Insertion
  <2> QED  BY <1>1, <1>4, <1>5, <2>1 DEF OneHolder, Implied, Putters
<1>8. Handed(u)
  <2>1. \A j, k \in DOMAIN u : j < k => j + 1 \in DOMAIN u  BY <1>4
  <2> QED  BY <1>1, <1>4, <1>5, <2>1 DEF Handed
\* What the callee put of its parameter has escaped in the frames below.
<1>9. ASSUME o2.shared, ~o.shared, NEW j \in DOMAIN u
      PROVE  /\ t[j].p = "obj" => t[j].fn \in publishes
             /\ \A v \in {"p", "x"} : \A field :
                   ValueIn(t[j], v) = "obj" => Escaped(t[j].fn, v, field, At(t[j]))
  <2>1. t[n].p = "obj" /\ t[n].fn \in publishes  BY <1>1, <1>3, <1>9 DEF Putters
  <2> QED  BY <1>1, <1>3, <1>5, <2>1, Below
<1>10. Publishers(u, o2)
  <2>1. ASSUME NEW j \in DOMAIN u, t[j].p = "obj", t[j].fn \notin publishes
        PROVE  /\ o2.shared => t[j].entered.shared
               /\ o2.fields \cap Guarded \subseteq t[j].entered.fields
    <3>1. (o.shared => t[j].entered.shared) /\ o.fields \cap Guarded \subseteq t[j].entered.fields
      BY <1>1, <1>5, <2>1 DEF Publishers
    <3> QED  BY <1>9, <2>1, <3>1
  <2> QED  BY <1>4, <2>1 DEF Publishers
<1>11. Seen(u, o2)
  <2>1. ASSUME NEW j \in DOMAIN u, NEW v \in {"p", "x"},
               ValueIn(t[j], v) = "obj", v \in Roots(t[j].fn), o2.shared
        PROVE  Escaped(t[j].fn, v, None, At(t[j]))
    <3>1. CASE o.shared  BY <1>1, <1>5, <2>1, <3>1 DEF Seen
    <3>2. CASE ~o.shared  BY <1>9, <2>1, <3>2
    <3> QED  BY <3>1, <3>2
  <2> QED  BY <1>4, <2>1 DEF Seen
<1>12. SeenFields(u, o2)
  <2>1. \A j \in DOMAIN u, v \in {"p", "x"}, c \in Guarded :
           ValueIn(t[j], v) = "obj" /\ c \in o2.fields
           => c \in CameIn(t[j], v).fields \/ Escaped(t[j].fn, v, c, At(t[j]))
    BY <1>1, <1>5 DEF SeenFields
  <2> QED  BY <1>4, <2>1 DEF SeenFields
<1>13. SeenIn(u, o2)
  <2>1. \A j \in DOMAIN u, v \in {"p", "x"} :
           ValueIn(t[j], v) = "obj" /\ o2.contained # "no"
           => \/ CameIn(t[j], v).contained # "no" \/ Inserts(t[j].fn, v, At(t[j]))
              \/ Escaped(t[j].fn, v, None, At(t[j]))
    BY <1>1, <1>5 DEF SeenIn
  <2> QED  BY <1>4, <2>1 DEF SeenIn
<1>14. InSection(u, o2)  BY <1>1, <1>4, <1>5 DEF InSection
<1>15. RunInv(u, o2)
  BY <1>6, <1>7, <1>8, <1>10, <1>11, <1>12, <1>13, <1>14 DEF RunInv
<1> QED  BY <1>15 DEF u

\* What a function that declares it returns is unpublished.
LEMMA ReturnsUnshared ==
    ASSUME body \in Programs, NEW t, NEW o, RunInv(t, o), t # <<>>, ~Reported(t[Len(t)].fn),
           body[t[Len(t)].fn].returnsFresh, At(t[Len(t)]) \in Instrs(t[Len(t)].fn),
           InstrAt(t[Len(t)].fn, At(t[Len(t)])).do = "return",
           ValueIn(t[Len(t)], InstrAt(t[Len(t)].fn, At(t[Len(t)])).v) = "obj"
    PROVE  ~o.shared
<1> HIDE DEF Instr, FrameType
<1> DEFINE fr == t[Len(t)]
           i == InstrAt(fr.fn, At(fr))
<1>1. Stacked(t) /\ Seen(t, o)  BY DEF RunInv
<1>2. t \in Seq(FrameType)  BY <1>1 DEF Stacked
<1>3. Len(t) \in DOMAIN t /\ fr \in FrameType  BY <1>2
<1>4. i \in Instr  BY <1>3, FrameParts, PositionsAre
<1>5. i.v \in {"p", "x"}  BY <1>4, InstrParts
<1>6. IsFreshAt(fr.fn, i.v, At(fr), None)  BY DEF Reported
<1>7. i.v \in Roots(fr.fn) /\ ~Escaped(fr.fn, i.v, None, At(fr))  BY <1>6, FreshMeans
<1> QED  BY <1>1, <1>3, <1>5, <1>7 DEF Seen

\* An x that is a root and the result of a call is that of a function that declares it.
LEMMA MadeIsDeclared ==
    ASSUME body \in Programs, NEW f \in Function, NEW pos \in Instrs(f),
           InstrAt(f, pos).do = "make", "x" \in Roots(f)
    PROVE  body[InstrAt(f, pos).of].returnsFresh
<1> HIDE DEF Instr
<1>1. PICK a \in Instrs(f) : LET i == InstrAt(f, a) IN
         i.do = "new" \/ (i.do = "make" /\ body[i.of].returnsFresh)
  BY DEF Roots
<1>2. /\ a[1] \in Block(f) /\ a[2] \in DOMAIN body[f].code[a[1]]
      /\ pos[1] \in Block(f) /\ pos[2] \in DOMAIN body[f].code[pos[1]]
  BY PositionsAre
<1>3. /\ Defines(body, f, a[1], a[2]) /\ Defines(body, f, pos[1], pos[2])
  BY <1>1 DEF Defines, InstrAt
<1>4. body[f].code[a[1]][a[2]] = body[f].code[pos[1]][pos[2]]
  BY <1>2, <1>3, DefinitionAssumption DEF Block
<1>5. InstrAt(f, a) = InstrAt(f, pos)  BY <1>4 DEF InstrAt
<1> QED  BY <1>1, <1>5

LEMMA ResultKeeps ==
    ASSUME body \in Programs, NEW t, NEW o, RunInv(t, o), Len(t) > 1, ~Reported(t[Len(t)].fn),
           NEW o2 \in ObjectType, o2.fields = o.fields, o2.shared => o.shared \/ t[Len(t)].put,
           o2.contained # "no" <=> o.contained # "no",
           Calling(t[Len(t) - 1]).do = "make", NEW r \in Values,
           r = "obj" => /\ At(t[Len(t)]) \in Instrs(t[Len(t)].fn)
                        /\ InstrAt(t[Len(t)].fn, At(t[Len(t)])).do = "return"
                        /\ r = ValueIn(t[Len(t)], InstrAt(t[Len(t)].fn, At(t[Len(t)])).v)
    PROVE  RunInv([SubSeq(t, 1, Len(t) - 1) EXCEPT ![Len(t) - 1].x = r, ![Len(t) - 1].got = o2], o2)
<1> HIDE DEF Instr, FrameType, ObjectType, Values
<1> DEFINE n == Len(t)
           u == SubSeq(t, 1, n - 1)
           below == t[n - 1]
           to == Changed(below, below.block, below.next, r, o2, below.put, below.section,
                         below.nested)
<1>1. /\ Stacked(t) /\ OneHolder(t) /\ Putters(t)
  BY DEF RunInv
<1>2. t \in Seq(FrameType)  BY <1>1 DEF Stacked
<1>3. n \in DOMAIN t /\ n - 1 \in DOMAIN t /\ n \in Nat /\ n - 1 \in Nat \ {0} /\ t # <<>>
      /\ below \in FrameType /\ t[n] \in FrameType
  BY <1>2
<1>4. /\ u \in Seq(FrameType) /\ u # <<>> /\ Len(u) = n - 1 /\ DOMAIN u = 1 .. n - 1
      /\ \A j \in DOMAIN u : u[j] = t[j] /\ j \in DOMAIN t /\ j < n
  <2>1. u \in Seq(FrameType) /\ Len(u) = n - 1 /\ DOMAIN u = 1 .. n - 1
    BY <1>2, <1>3
  <2>2. \A j \in 1 .. n - 1 : u[j] = t[j]  BY <1>2, <1>3
  <2>3. \A j \in 1 .. n - 1 : j \in DOMAIN t /\ j < n  BY <1>2, <1>3
  <2>4. u # <<>>  BY <1>3, <2>1
  <2> QED  BY <2>1, <2>2, <2>3, <2>4
<1>5. u[Len(u)] = below /\ n - 1 \in DOMAIN u  BY <1>3, <1>4
<1>6. RunInv(u, o2)  BY <1>3, PopKeeps
<1>7. to \in FrameType /\ to.fn = below.fn /\ to.p = below.p /\ to.entered = below.entered
      /\ to.block = below.block /\ to.next = below.next /\ to.x = r /\ to.got = o2
      /\ to.put = below.put /\ to.nested = below.nested /\ to.section = below.section
  <2>1. to \in FrameType  BY <1>3, FrameParts, ChangedFrame
  <2> QED  BY <2>1 DEF Changed
<1>8. [u EXCEPT ![n - 1].x = r, ![n - 1].got = o2] = [u EXCEPT ![n - 1] = to]
  <2>1. [[below EXCEPT !.x = r] EXCEPT !.got = o2] = to
    <3>1. StepFrames(below, r, o2, FALSE, FALSE, FALSE, 1, 1)  BY <1>3, FramesOfSteps
    <3> QED  BY <3>1 DEF StepFrames
  <2> HIDE DEF u, n, to, below
  <2>2. [u EXCEPT ![n - 1].x = r] = [u EXCEPT ![n - 1] = [below EXCEPT !.x = r]]
    BY <1>4, <1>5
  <2>3. [[u EXCEPT ![n - 1].x = r] EXCEPT ![n - 1].got = o2] = [u EXCEPT ![n - 1] = to]
    BY <1>4, <1>5, <2>1, <2>2
  <2>4. [u EXCEPT ![n - 1].x = r, ![n - 1].got = o2]
           = [[u EXCEPT ![n - 1].x = r] EXCEPT ![n - 1].got = o2]
    OBVIOUS
  <2> QED  BY <2>3, <2>4
<1> HIDE DEF to
<1>9. InBody(below) /\ below.fn \in Function
  BY <1>1, <1>3, FrameParts DEF Stacked
<1>10. GoesOn(below, to)
  <2>1. At(to) = At(below)  BY <1>7 DEF At
  <2>2. InBody(to)  BY <1>7, <1>9 DEF InBody
  <2> QED  BY <1>7, <2>1, <2>2 DEF GoesOn
<1>11. Marks(u, to, o2)
  <2>1. Putters(u) /\ InSection(u, o2)  BY <1>6 DEF RunInv
  <2> QED  BY <1>5, <1>4, <1>7, <2>1 DEF Marks, Putters, InSection, Inserted
<1>12. TakesX(u, below, to, o2)
  <2>1. CASE r # "obj"  BY <1>7, <2>1 DEF TakesX, Values
  <2>2. CASE r = "obj"
    <3> DEFINE i == InstrAt(t[n].fn, At(t[n]))
               pos == <<below.block, below.next - 1>>
    <3>1. /\ At(t[n]) \in Instrs(t[n].fn) /\ i.do = "return" /\ ValueIn(t[n], i.v) = "obj"
      BY <2>2
    <3>2. /\ Calling(below).of = t[n].fn /\ t[n].p = "other"
      <4>1. (n - 1) + 1 = n  BY <1>3
      <4> QED  BY <1>1, <1>3, <4>1 DEF Stacked
    <3>3. t[n].x = "obj"  BY <3>1, <3>2 DEF ValueIn
    <3>4. \A j \in DOMAIN u : ~Holds(u[j])  BY <1>1, <1>3, <1>4, <3>3 DEF OneHolder
    <3>5. ~t[n].put  BY <1>1, <1>3, <3>2 DEF Putters
    <3>6. ASSUME "x" \in Roots(below.fn)  PROVE ~o2.shared
      <4>1. /\ below.block \in Block(below.fn) /\ below.next > 1 /\ below.next \in Nat
            /\ below.next <= Len(body[below.fn].code[below.block]) + 1
        <5>1. (n - 1) + 1 = n  BY <1>3
        <5> QED  BY <1>1, <1>3, <5>1, FrameParts DEF Stacked, InBody
      <4>2. below.next - 1 \in DOMAIN body[below.fn].code[below.block]
        <5>1. body[below.fn].code[below.block] \in Seq(Instr)  BY <1>9, <4>1, BodyParts
        <5> QED  BY <4>1, <5>1
      <4>3. pos \in Instrs(below.fn) /\ InstrAt(below.fn, pos) = Calling(below)
        BY <1>9, <4>1, <4>2, InstrsAre DEF Calling
      <4>4. body[t[n].fn].returnsFresh
        BY <1>9, <3>2, <3>6, <4>3, MadeIsDeclared
      <4>5. ~o.shared  BY <1>3, <3>1, <4>4, ReturnsUnshared
      <4> QED  BY <3>5, <4>5
    <3> QED  BY <1>7, <2>2, <3>4, <3>6 DEF TakesX
  <2> QED  BY <2>1, <2>2
<1>13. Moves(u, o2, to, o2)
  BY <1>5, <1>10, <1>11, <1>12 DEF Moves, Spread
<1>14. RunInv([u EXCEPT ![Len(u)] = to], o2)  BY <1>4, <1>6, <1>13, MoveKeeps
<1> QED  BY <1>4, <1>8, <1>14

-----------------------------------------------------------------------------
(***************************************************************************)
(* The actions of a run.                                                   *)
(***************************************************************************)
LEMMA TopParts ==
    ASSUME body \in Programs, RunInv(thread, object), thread # <<>>
    PROVE  /\ thread \in Seq(FrameType) /\ Depth \in DOMAIN thread /\ Depth \in Nat \ {0}
           /\ Top \in FrameType /\ InBody(Top) /\ Top.fn \in Function /\ Top.block \in Block(Top.fn)
           /\ Top.next \in Nat \ {0} /\ Code \in Seq(Instr) /\ object \in ObjectType
           /\ Depth <= MaxDepth
<1> HIDE DEF Instr, FrameType, ObjectType
<1>1. Stacked(thread) /\ object \in ObjectType  BY DEF RunInv
<1>2. thread \in Seq(FrameType) /\ Len(thread) <= MaxDepth  BY <1>1 DEF Stacked
<1>3. Len(thread) \in DOMAIN thread /\ Len(thread) \in Nat \ {0} /\ thread[Len(thread)] \in FrameType
  BY <1>2
<1>4. Depth = Len(thread) /\ Top = thread[Len(thread)]  BY DEF Depth, Top
<1>5. InBody(Top)  BY <1>1, <1>3, <1>4 DEF Stacked
<1>6. Top.fn \in Function /\ Top.block \in Block(Top.fn) /\ Top.next \in Nat \ {0}
  BY <1>5, FrameParts DEF InBody
<1>7. Code \in Seq(Instr)  BY <1>6, BodyParts DEF Code
<1> QED  BY <1>1, <1>2, <1>3, <1>4, <1>5, <1>6, <1>7

LEMMA HereParts ==
    ASSUME body \in Programs, RunInv(thread, object), InBlock
    PROVE  /\ thread # <<>> /\ Here = At(Top) /\ Here \in Instrs(Top.fn) /\ This \in Instr
           /\ InstrAt(Top.fn, Here) = This /\ This.v \in {"p", "x"}
           /\ \A v : Value(v) = ValueIn(Top, v)
<1> HIDE DEF Instr, FrameType, ObjectType
<1>1. thread # <<>> /\ Top.next <= Len(Code)  BY DEF InBlock, Running
<1>2. Top.fn \in Function /\ Top.block \in Block(Top.fn) /\ Top.next \in Nat \ {0}
      /\ Code \in Seq(Instr)
  BY <1>1, TopParts
<1>3. Top.next \in DOMAIN Code  BY <1>1, <1>2
<1>4. Here \in Instrs(Top.fn) /\ This \in Instr /\ InstrAt(Top.fn, Here) = This
  BY <1>2, <1>3, InstrsAre DEF Here, This, Code
<1>5. This.v \in {"p", "x"}  BY <1>4, InstrParts
<1> QED  BY <1>1, <1>4, <1>5 DEF Here, At, Value, ValueIn

\* The frame on top, a step further.
Further(x, got, put, section, nested) ==
    Changed(Top, Top.block, Top.next + 1, x, got, put, section, nested)

IsFurther(to, x, got, put, section, nested) ==
    /\ GoesOn(Top, to) /\ to \in FrameType /\ CanReach(Top.fn, At(Top), At(to))
    /\ to.x = x /\ to.got = got /\ to.put = put /\ to.section = section /\ to.nested = nested
    /\ to.fn = Top.fn /\ to.p = Top.p /\ to.block = Top.block /\ to.next = Top.next + 1

LEMMA FurtherGoesOn ==
    ASSUME body \in Programs, RunInv(thread, object), InBlock,
           NEW x \in Values, NEW got \in ObjectType, NEW put \in BOOLEAN,
           NEW section \in BOOLEAN, NEW nested \in BOOLEAN,
           NEW to, to = Further(x, got, put, section, nested)
    PROVE  IsFurther(to, x, got, put, section, nested)
<1> HIDE DEF Instr, FrameType, ObjectType, Values
<1>1. thread # <<>> /\ Top.next <= Len(Code)  BY DEF InBlock, Running
<1>2. /\ Top \in FrameType /\ InBody(Top) /\ Top.fn \in Function /\ Top.block \in Block(Top.fn)
      /\ Top.next \in Nat \ {0} /\ Code \in Seq(Instr)
  BY <1>1, TopParts
<1>3. Top.block \in Nat /\ Top.next + 1 \in Nat \ {0}  BY <1>2, FrameParts
<1>4. to \in FrameType  BY <1>2, <1>3, ChangedFrame DEF Further
<1>5. /\ to.x = x /\ to.got = got /\ to.put = put /\ to.section = section /\ to.nested = nested
      /\ to.fn = Top.fn /\ to.p = Top.p /\ to.entered = Top.entered
      /\ to.block = Top.block /\ to.next = Top.next + 1
  BY DEF Further, Changed
<1>6. InBody(to)
  <2>1. to.next <= Len(Code) + 1  BY <1>1, <1>2, <1>5
  <2> QED  BY <1>2, <1>4, <1>5, <2>1 DEF InBody, Code
<1>7. At(to) = <<Top.block, Top.next + 1>>  BY <1>5 DEF At
<1>8. CanReach(Top.fn, At(Top), At(to))  BY <1>2, <1>7, ReachNext DEF At
<1>9. \A e \in Instrs(Top.fn) : CanReach(Top.fn, e, At(Top)) => CanReach(Top.fn, e, At(to))
  BY <1>2, <1>7, ReachOn DEF At
<1>10. GoesOn(Top, to)  BY <1>5, <1>6, <1>9 DEF GoesOn
<1> QED  BY <1>4, <1>5, <1>8, <1>10 DEF IsFurther

\* A value of the frame on top escapes by this instruction.
LEMMA ThisSpreads ==
    ASSUME body \in Programs, AllSettled, RunInv(thread, object), InBlock, OnObj,
           NEW to, CanReach(Top.fn, At(Top), At(to)), NEW c,
           \/ This.do = "share" /\ c = None
           \/ This.do = "point" /\ c = This.of
    PROVE  \E v : Spreads(Top, to, v, c)
<1> HIDE DEF Instr, FrameType, ObjectType
<1>1. /\ Here = At(Top) /\ Here \in Instrs(Top.fn) /\ InstrAt(Top.fn, Here) = This
      /\ This.v \in {"p", "x"} /\ ValueIn(Top, This.v) = "obj" /\ thread # <<>> /\ This \in Instr
  BY HereParts DEF OnObj
<1>2. Top.fn \in Function  BY <1>1, TopParts
<1>3. c \in EscapesHere(Top.fn, This.v, Here, FALSE)  BY <1>1, EscapesAre
<1>4. This.v = "p" /\ c \in Guarded \cup {None} => Top.fn \in publishes
  <2>1. This.do = "point" => c # None  BY <1>1, InstrParts, FieldAssumption
  <2> QED  BY <1>1, <1>2, <2>1, KeepsToItself
<1>5. Spreads(Top, to, This.v, c)  BY <1>1, <1>3, <1>4 DEF Spreads
<1> QED  BY <1>5

\* The frame on top inserts a value of its own by this instruction.
LEMMA ThisInserts ==
    ASSUME body \in Programs, AllSettled, RunInv(thread, object), InBlock, OnObj,
           This.do \in {"put", "nest"},
           NEW to, to.fn = Top.fn, to.p = Top.p, CanReach(Top.fn, At(Top), At(to))
    PROVE  Inserted(thread, to)
<1> HIDE DEF Instr, FrameType, ObjectType
<1>1. /\ Here = At(Top) /\ Here \in Instrs(Top.fn) /\ InstrAt(Top.fn, Here) = This
      /\ This.v \in {"p", "x"} /\ ValueIn(Top, This.v) = "obj" /\ thread # <<>>
  BY HereParts DEF OnObj
<1>2. Top.fn \in Function /\ Depth \in DOMAIN thread /\ Top = thread[Depth] /\ Depth = Len(thread)
  BY <1>1, TopParts DEF Top, Depth
<1>3. Inserts(Top.fn, This.v, At(to))  BY <1>1 DEF Inserts
<1>4. CASE This.v = "p"
  <2>1. to.p = "obj" /\ to.fn \in publishes
    BY <1>1, <1>2, <1>4, KeepsToItself DEF ValueIn
  <2> QED  BY <1>2, <1>3, <1>4, <2>1 DEF Inserted, Insertion
<1>5. CASE This.v = "x"
  <2>1. OneHolder(thread)  BY DEF RunInv
  <2>2. to.p # "obj" /\ \A k \in DOMAIN thread : k < Depth => ~Holds(thread[k])
    BY <1>1, <1>2, <1>5, <2>1 DEF ValueIn, OneHolder
  <2> QED  BY <1>2, <1>3, <1>5, <2>2 DEF Inserted, Insertion
<1> QED  BY <1>1, <1>4, <1>5

\* The marks of the frame on top are right as they are.
LEMMA TopMarks ==
    ASSUME body \in Programs, RunInv(thread, object), thread # <<>>
    PROVE  /\ Top.put => Top.p = "obj" /\ Top.fn \in publishes
           /\ Top.nested /\ Top.p = "obj" => Top.fn \in publishes
           /\ Top.section => object.contained # "no"
           /\ \A to : Top.nested => Inserted(thread, to)
<1>1. Depth \in DOMAIN thread  BY TopParts
<1>2. Putters(thread) /\ InSection(thread, object)  BY DEF RunInv
<1> QED  BY <1>1, <1>2 DEF Putters, Insertion, InSection, Inserted, Top, Depth

LEMMA MoveStep ==
    ASSUME body \in Programs, RunInv(thread, object), thread # <<>>,
           NEW to, thread' = [thread EXCEPT ![Depth] = to],
           GoesOn(Top, to), TakesX(thread, Top, to, object'), Marks(thread, to, object'),
           object' \in ObjectType, Spread(thread, object, to, object')
    PROVE  RunInv(thread', object')
<1>1. Moves(thread, object, to, object')  BY DEF Moves, Top, Depth
<1>2. thread' = [thread EXCEPT ![Len(thread)] = to]  BY DEF Depth
<1>3. RunInv([thread EXCEPT ![Len(thread)] = to], object')  BY <1>1, MoveKeeps
<1> QED  BY <1>2, <1>3

\* An object that a field is changed of.
LEMMA ObjectParts ==
    ASSUME NEW o \in ObjectType
    PROVE  /\ o.shared \in BOOLEAN /\ o.fields \in SUBSET Field
           /\ \A c \in {"no", "locked", "after"} :
                 /\ [o EXCEPT !.contained = c] \in ObjectType
                 /\ [o EXCEPT !.contained = c].shared = o.shared
                 /\ [o EXCEPT !.contained = c].fields = o.fields
                 /\ [o EXCEPT !.contained = c].contained = c
BY DEF ObjectType

LEMMA StepNew ==
    ASSUME body \in Programs, RunInv(thread, object), RunNew
    PROVE  RunInv(thread', object')
<1> HIDE DEF Instr, FrameType, ObjectType
<1>1. InBlock /\ object' = object  BY DEF RunNew
<1>2. PICK x \in IF Followed \/ object # NoObject THEN {"other"} ELSE {"obj", "other"} :
         thread' = [thread EXCEPT ![Depth] = [Advance(Top) EXCEPT !.x = x, !.got = NoObject]]
  BY DEF RunNew
<1>3. /\ thread # <<>> /\ Top \in FrameType /\ object \in ObjectType /\ Depth \in DOMAIN thread
      /\ Top = thread[Depth]
  BY <1>1, HereParts, TopParts DEF Top
<1>4. x \in Values  BY DEF Values
<1> DEFINE to == Further(x, NoObject, Top.put, Top.section, Top.nested)
<1>5. thread' = [thread EXCEPT ![Depth] = to]
  <2>1. StepFrames(Top, x, NoObject, TRUE, TRUE, TRUE, 1, 1)  BY <1>3, FramesOfSteps
  <2>2. [Advance(Top) EXCEPT !.x = x, !.got = NoObject] = to  BY <2>1 DEF StepFrames, Further
  <2> QED  BY <1>2, <1>3, <2>2
<1>6. /\ GoesOn(Top, to) /\ to.x = x /\ to.got = NoObject /\ to.put = Top.put
      /\ to.section = Top.section /\ to.nested = Top.nested /\ to.fn = Top.fn /\ to.p = Top.p
  <2>1. /\ Top.put \in BOOLEAN /\ Top.section \in BOOLEAN /\ Top.nested \in BOOLEAN
        /\ NoObject \in ObjectType
    BY <1>3, FrameParts DEF NoObject, ObjectType
  <2>2. IsFurther(to, x, NoObject, Top.put, Top.section, Top.nested)  BY <1>1, <1>4, <2>1, FurtherGoesOn
  <2> HIDE DEF to
  <2> QED  BY <2>2 DEF IsFurther
<1> HIDE DEF to
<1>7. Marks(thread, to, object')  BY <1>1, <1>3, <1>6, TopMarks DEF Marks
<1>8. TakesX(thread, Top, to, object')
  <2>1. CASE x = "other"  BY <1>6, <2>1 DEF TakesX
  <2>2. CASE x # "other"
    <3>1. x = "obj" /\ ~Followed /\ object = NoObject  BY <2>2
    <3>2. \A j \in DOMAIN thread : ~Holds(thread[j])
      <4>1. thread \in Seq(FrameType)  BY <1>3, TopParts
      <4>2. DOMAIN thread = 1 .. Depth  BY <4>1 DEF Depth
      <4> QED  BY <3>1, <4>2 DEF Followed, Holds
    <3>3. ~object'.shared /\ object'.fields = {} /\ object'.contained = "no"
      BY <1>1, <3>1 DEF NoObject
    <3> QED  BY <1>6, <3>1, <3>2, <3>3 DEF TakesX
  <2> QED  BY <2>1, <2>2
<1>9. Spread(thread, object, to, object')  BY <1>1 DEF Spread
<1> QED  BY <1>1, <1>3, <1>5, <1>6, <1>7, <1>8, <1>9, MoveStep

\* The steps that leave x alone, and spread nothing but to a container.
LEMMA PlainStep ==
    ASSUME body \in Programs, RunInv(thread, object), InBlock,
           NEW put \in BOOLEAN, NEW section \in BOOLEAN, NEW nested \in BOOLEAN,
           NEW to, to = Further(Top.x, Top.got, put, section, nested),
           thread' = [thread EXCEPT ![Depth] = to],
           put => Top.p = "obj" /\ Top.fn \in publishes,
           nested => Inserted(thread, to), section => object'.contained # "no",
           object' \in ObjectType, object'.shared = object.shared, object'.fields = object.fields,
           object.contained # "no" => object'.contained # "no",
           object'.contained # "no" => object.contained # "no" \/ Inserted(thread, to)
    PROVE  RunInv(thread', object')
<1> HIDE DEF Instr, FrameType, ObjectType
<1>1. thread # <<>> /\ Top \in FrameType  BY HereParts, TopParts
<1>2. Top.x \in Values /\ Top.got \in ObjectType  BY <1>1, FrameParts
<1>3. IsFurther(to, Top.x, Top.got, put, section, nested)  BY <1>2, FurtherGoesOn
<1>4. Marks(thread, to, object')  BY <1>3 DEF IsFurther, Marks
<1>5. TakesX(thread, Top, to, object')  BY <1>3 DEF IsFurther, TakesX
<1>6. Spread(thread, object, to, object')  BY DEF Spread
<1>7. GoesOn(Top, to)  BY <1>3 DEF IsFurther
<1> QED  BY <1>1, <1>4, <1>5, <1>6, <1>7, MoveStep

\* Where the next instruction finds the frame that this one moves on.
LEMMA ToNext ==
    ASSUME body \in Programs, RunInv(thread, object), InBlock,
           NEW put \in BOOLEAN, NEW section \in BOOLEAN, NEW nested \in BOOLEAN,
           NEW to, to = Further(Top.x, Top.got, put, section, nested)
    PROVE  to.fn = Top.fn /\ to.p = Top.p /\ CanReach(Top.fn, At(Top), At(to))
<1> HIDE DEF Instr, FrameType, ObjectType
<1>1. thread # <<>> /\ Top \in FrameType  BY HereParts, TopParts
<1>2. Top.x \in Values /\ Top.got \in ObjectType  BY <1>1, FrameParts
<1> QED  BY <1>2, FurtherGoesOn DEF IsFurther

LEMMA StepUse ==
    ASSUME body \in Programs, AllSettled, RunInv(thread, object), RunUse
    PROVE  RunInv(thread', object')
<1> HIDE DEF Instr, FrameType, ObjectType
<1>1. /\ InBlock /\ This.do \in {"share", "point", "access"}
      /\ thread' = [thread EXCEPT ![Depth] = Advance(Top)]
      /\ object' = [object EXCEPT
                      !.shared = @ \/ (OnObj /\ This.do = "share"),
                      !.fields = @ \cup IF OnObj /\ This.do = "point" THEN {This.of} ELSE {}]
  BY DEF RunUse
<1>2. /\ thread # <<>> /\ Top \in FrameType /\ object \in ObjectType /\ Depth \in DOMAIN thread
      /\ Top = thread[Depth] /\ This \in Instr
  BY <1>1, HereParts, TopParts DEF Top
<1> DEFINE to == Further(Top.x, Top.got, Top.put, Top.section, Top.nested)
           s == object.shared \/ (OnObj /\ This.do = "share")
           F == object.fields \cup IF OnObj /\ This.do = "point" THEN {This.of} ELSE {}
<1>3. thread' = [thread EXCEPT ![Depth] = to]
  <2>1. StepFrames(Top, "obj", TRUE, TRUE, TRUE, TRUE, 1, 1)  BY <1>2, FramesOfSteps
  <2>2. Advance(Top) = to  BY <2>1 DEF StepFrames, Further
  <2> QED  BY <1>1, <1>2, <2>2
<1>4. /\ GoesOn(Top, to) /\ to.x = Top.x /\ to.got = Top.got /\ to.put = Top.put
      /\ to.section = Top.section /\ to.nested = Top.nested /\ to.fn = Top.fn /\ to.p = Top.p
      /\ CanReach(Top.fn, At(Top), At(to))
  <2>1. /\ Top.put \in BOOLEAN /\ Top.section \in BOOLEAN /\ Top.nested \in BOOLEAN
        /\ Top.x \in Values /\ Top.got \in ObjectType
    BY <1>2, FrameParts
  <2>2. IsFurther(to, Top.x, Top.got, Top.put, Top.section, Top.nested)  BY <1>1, <2>1, FurtherGoesOn
  <2> HIDE DEF to
  <2> QED  BY <2>2 DEF IsFurther
<1> HIDE DEF to
<1>5. s \in BOOLEAN /\ F \in SUBSET Field
  BY <1>2, ObjectParts, InstrParts
<1>6. /\ object' \in ObjectType /\ (object'.shared <=> s) /\ object'.fields = F
      /\ object'.contained = object.contained
  <2> HIDE DEF s, F
  <2>1. object' = [object EXCEPT !.shared = s, !.fields = F]  BY <1>1 DEF s, F
  <2>2. object = [shared |-> object.shared, fields |-> object.fields,
                  contained |-> object.contained]
        /\ object.contained \in {"no", "locked", "after"}
    BY <1>2 DEF ObjectType
  <2>3. object' = [shared |-> s, fields |-> F, contained |-> object.contained]
    BY <2>1, <2>2
  <2> QED  BY <1>5, <2>2, <2>3 DEF ObjectType
<1>7. Marks(thread, to, object')  BY <1>2, <1>4, <1>6, TopMarks DEF Marks
<1>8. TakesX(thread, Top, to, object')  BY <1>4 DEF TakesX
<1>9. ASSUME object'.shared, ~object.shared  PROVE \E v : Spreads(Top, to, v, None)
  BY <1>1, <1>4, <1>6, <1>9, ThisSpreads
<1>10. ASSUME NEW c \in object'.fields, c \notin object.fields
       PROVE  \E v : Spreads(Top, to, v, c)
  BY <1>1, <1>4, <1>6, <1>10, ThisSpreads
<1>11. Spread(thread, object, to, object')
  BY <1>6, <1>9, <1>10 DEF Spread, Top, Depth
<1> QED  BY <1>2, <1>3, <1>4, <1>6, <1>7, <1>8, <1>11, MoveStep

LEMMA StepPut ==
    ASSUME body \in Programs, AllSettled, RunInv(thread, object), RunPut
    PROVE  RunInv(thread', object')
<1> HIDE DEF Instr, FrameType, ObjectType
<1>1. /\ InBlock /\ This.do = "put"
      /\ thread' = [thread EXCEPT ![Depth] = [Advance(Top) EXCEPT
                       !.section = Top.section \/ OnObj, !.put = Top.put \/ (OnObj /\ This.v = "p")]]
      /\ object' = IF OnObj THEN [object EXCEPT !.contained = "locked"] ELSE object
  BY DEF RunPut
<1>2. /\ thread # <<>> /\ Top \in FrameType /\ object \in ObjectType /\ Depth \in DOMAIN thread
      /\ Top = thread[Depth]
      /\ Top.fn \in Function /\ Here \in Instrs(Top.fn) /\ InstrAt(Top.fn, Here) = This
      /\ ValueIn(Top, This.v) = Value(This.v)
  BY <1>1, HereParts, TopParts DEF Top
<1>3. /\ Top.put \in BOOLEAN /\ Top.section \in BOOLEAN /\ Top.nested \in BOOLEAN
      /\ OnObj \in BOOLEAN
  BY <1>2, FrameParts DEF OnObj
<1> DEFINE put == Top.put \/ (OnObj /\ This.v = "p")
           section == Top.section \/ OnObj
           to == Further(Top.x, Top.got, put, section, Top.nested)
<1>4. thread' = [thread EXCEPT ![Depth] = to]
  <2>1. StepFrames(Top, "obj", TRUE, put, section, TRUE, 1, 1)  BY <1>2, FramesOfSteps
  <2>2. [Advance(Top) EXCEPT !.section = section, !.put = put]
           = Further(Top.x, Top.got, put, section, Top.nested)
    BY <2>1 DEF StepFrames, Further
  <2> QED  BY <1>1, <2>2
<1>5. put => Top.p = "obj" /\ Top.fn \in publishes
  <2>1. ASSUME OnObj, This.v = "p"  PROVE Top.p = "obj" /\ Top.fn \in publishes
    <3>1. Top.p = "obj"  BY <1>2, <2>1 DEF OnObj, ValueIn
    <3> QED  BY <1>1, <1>2, <2>1, <3>1, KeepsToItself
  <2> QED  BY <1>2, <2>1, TopMarks
<1>6. /\ object' \in ObjectType /\ object'.shared = object.shared /\ object'.fields = object.fields
      /\ IF OnObj THEN object'.contained = "locked" ELSE object' = object
  BY <1>1, <1>2, ObjectParts
<1>7. Top.nested => Inserted(thread, to)  BY <1>2, TopMarks
<1>8. put \in BOOLEAN /\ section \in BOOLEAN  BY <1>3
<1>9. OnObj => Inserted(thread, to)
  <2>1. to.fn = Top.fn /\ to.p = Top.p /\ CanReach(Top.fn, At(Top), At(to))
    <3> HIDE DEF put, section
    <3> QED  BY <1>1, <1>3, <1>8, ToNext
  <2> HIDE DEF to
  <2> QED  BY <1>1, <2>1, ThisInserts
<1>10. section => object'.contained # "no"  BY <1>2, <1>6, TopMarks
<1> HIDE DEF put, section
<1>11. to = Further(Top.x, Top.got, put, section, Top.nested)  OBVIOUS
<1> HIDE DEF to
<1> QED  BY <1>1, <1>3, <1>4, <1>5, <1>6, <1>7, <1>8, <1>9, <1>10, <1>11, PlainStep

LEMMA StepUnlock ==
    ASSUME body \in Programs, RunInv(thread, object), RunUnlock
    PROVE  RunInv(thread', object')
<1> HIDE DEF Instr, FrameType, ObjectType
<1>1. /\ InBlock /\ thread' = [thread EXCEPT ![Depth] = [Advance(Top) EXCEPT !.section = FALSE]]
      /\ object' = IF Top.section THEN [object EXCEPT !.contained = "after"] ELSE object
  BY DEF RunUnlock
<1>2. /\ thread # <<>> /\ Top \in FrameType /\ object \in ObjectType /\ Depth \in DOMAIN thread
      /\ Top = thread[Depth]
  BY <1>1, HereParts, TopParts DEF Top
<1>3. Top.put \in BOOLEAN /\ Top.nested \in BOOLEAN  BY <1>2, FrameParts
<1>4. thread' = [thread EXCEPT ![Depth] = Further(Top.x, Top.got, Top.put, FALSE, Top.nested)]
  <2>1. StepFrames(Top, "obj", TRUE, TRUE, FALSE, TRUE, 1, 1)  BY <1>2, FramesOfSteps
  <2>2. [Advance(Top) EXCEPT !.section = FALSE]
           = Further(Top.x, Top.got, Top.put, FALSE, Top.nested)
    BY <2>1 DEF StepFrames, Further
  <2> QED  BY <1>1, <1>2, <2>2
<1>5. /\ object' \in ObjectType /\ object'.shared = object.shared /\ object'.fields = object.fields
      /\ (object'.contained # "no" <=> object.contained # "no")
  <2>1. Top.section => object.contained # "no"  BY <1>2, TopMarks
  <2> QED  BY <1>1, <1>2, <2>1, ObjectParts
<1>6. /\ Top.put => Top.p = "obj" /\ Top.fn \in publishes
      /\ \A to : Top.nested => Inserted(thread, to)
  BY <1>2, TopMarks
<1> QED  BY <1>1, <1>3, <1>4, <1>5, <1>6, PlainStep

LEMMA StepNest ==
    ASSUME body \in Programs, AllSettled, RunInv(thread, object), RunNest
    PROVE  RunInv(thread', object')
<1> HIDE DEF Instr, FrameType, ObjectType
<1>1. /\ InBlock /\ This.do = "nest" /\ object' = object
      /\ thread' = [thread EXCEPT ![Depth] = [Advance(Top) EXCEPT !.nested = Top.nested \/ OnObj]]
  BY DEF RunNest
<1>2. /\ thread # <<>> /\ Top \in FrameType /\ object \in ObjectType /\ Depth \in DOMAIN thread
      /\ Top = thread[Depth] /\ This.v \in {"p", "x"}
      /\ Top.fn \in Function /\ Here \in Instrs(Top.fn) /\ InstrAt(Top.fn, Here) = This
      /\ ValueIn(Top, This.v) = Value(This.v)
  BY <1>1, HereParts, TopParts DEF Top
<1>3. /\ Top.put \in BOOLEAN /\ Top.section \in BOOLEAN /\ Top.nested \in BOOLEAN
      /\ OnObj \in BOOLEAN
  BY <1>2, FrameParts DEF OnObj
<1> DEFINE nested == Top.nested \/ OnObj
           to == Further(Top.x, Top.got, Top.put, Top.section, nested)
<1>4. thread' = [thread EXCEPT ![Depth] = to]
  <2>1. StepFrames(Top, "obj", TRUE, TRUE, TRUE, nested, 1, 1)  BY <1>2, FramesOfSteps
  <2>2. [Advance(Top) EXCEPT !.nested = nested]
           = Further(Top.x, Top.got, Top.put, Top.section, nested)
    BY <2>1 DEF StepFrames, Further
  <2> QED  BY <1>1, <2>2
<1>5. nested => Inserted(thread, to)
  <2>1. ASSUME OnObj  PROVE Inserted(thread, to)
    <3>1. to.fn = Top.fn /\ to.p = Top.p /\ CanReach(Top.fn, At(Top), At(to))
      BY <1>1, <1>3, ToNext
    <3> HIDE DEF to
    <3> QED  BY <1>1, <2>1, <3>1, ThisInserts
  <2> HIDE DEF to
  <2> QED  BY <1>2, <2>1, TopMarks
<1>6. /\ Top.put => Top.p = "obj" /\ Top.fn \in publishes
      /\ Top.section => object.contained # "no"
  BY <1>2, TopMarks
<1>7. nested \in BOOLEAN  BY <1>3
<1> HIDE DEF nested
<1>8. to = Further(Top.x, Top.got, Top.put, Top.section, nested)  OBVIOUS
<1> HIDE DEF to
<1> QED  BY <1>1, <1>2, <1>3, <1>4, <1>5, <1>6, <1>7, <1>8, PlainStep

LEMMA StepExpose ==
    ASSUME body \in Programs, RunInv(thread, object), RunExpose
    PROVE  RunInv(thread', object')
<1> HIDE DEF Instr, FrameType, ObjectType
<1>1. /\ InBlock
      /\ thread' = [thread EXCEPT ![Depth] = [Advance(Top) EXCEPT
                       !.put = Top.put \/ (Top.nested /\ Top.p = "obj")]]
      /\ object' = IF Top.nested THEN [object EXCEPT !.contained = "after"] ELSE object
  BY DEF RunExpose
<1>2. /\ thread # <<>> /\ Top \in FrameType /\ object \in ObjectType /\ Depth \in DOMAIN thread
      /\ Top = thread[Depth]
  BY <1>1, HereParts, TopParts DEF Top
<1>3. Top.put \in BOOLEAN /\ Top.section \in BOOLEAN /\ Top.nested \in BOOLEAN
  BY <1>2, FrameParts
<1> DEFINE put == Top.put \/ (Top.nested /\ Top.p = "obj")
           to == Further(Top.x, Top.got, put, Top.section, Top.nested)
<1>4. thread' = [thread EXCEPT ![Depth] = to]
  <2>1. StepFrames(Top, "obj", TRUE, put, TRUE, TRUE, 1, 1)  BY <1>2, FramesOfSteps
  <2>2. [Advance(Top) EXCEPT !.put = put]
           = Further(Top.x, Top.got, put, Top.section, Top.nested)
    BY <2>1 DEF StepFrames, Further
  <2> QED  BY <1>1, <2>2
<1>5. /\ put => Top.p = "obj" /\ Top.fn \in publishes
      /\ Top.nested => Inserted(thread, to)
      /\ Top.section => object.contained # "no"
  BY <1>2, TopMarks
<1>6. /\ object' \in ObjectType /\ object'.shared = object.shared /\ object'.fields = object.fields
      /\ IF Top.nested THEN object'.contained = "after" ELSE object' = object
  BY <1>1, <1>2, ObjectParts
<1>7. put \in BOOLEAN  BY <1>3
<1> HIDE DEF put
<1>8. to = Further(Top.x, Top.got, put, Top.section, Top.nested)  OBVIOUS
<1> HIDE DEF to
<1> QED  BY <1>1, <1>3, <1>4, <1>5, <1>6, <1>7, <1>8, PlainStep

LEMMA StepCall ==
    ASSUME body \in Programs, AllSettled, \A f \in Function : ~Reported(f),
           RunInv(thread, object), RunCall
    PROVE  RunInv(thread', object')
<1> HIDE DEF Instr, FrameType, ObjectType
<1> DEFINE fn == This.of
           p == IF This.do = "call" THEN Value(This.v) ELSE "other"
           to == Further(Top.x, Top.got, Top.put, Top.section, Top.nested)
           t1 == [thread EXCEPT ![Depth] = to]
<1>1. /\ InBlock /\ This.do \in {"call", "make"} /\ Depth < MaxDepth /\ object' = object
      /\ thread' = Append([thread EXCEPT ![Depth] = Advance(Top)], Frame(fn, p))
  BY DEF RunCall
<1>2. /\ thread # <<>> /\ Top \in FrameType /\ object \in ObjectType /\ Depth \in DOMAIN thread
      /\ Top = thread[Depth] /\ Depth = Len(thread) /\ thread \in Seq(FrameType)
      /\ Top.fn \in Function /\ Top.block \in Block(Top.fn) /\ Top.next \in Nat \ {0}
      /\ Here = At(Top) /\ Here \in Instrs(Top.fn) /\ This \in Instr
      /\ InstrAt(Top.fn, Here) = This /\ This.v \in {"p", "x"}
      /\ \A v : Value(v) = ValueIn(Top, v)
  BY <1>1, HereParts, TopParts DEF Top, Depth
<1>3. fn \in Function  BY <1>1, <1>2, InstrParts
<1>4. Advance(Top) = to
  <2>1. StepFrames(Top, "obj", TRUE, TRUE, TRUE, TRUE, 1, 1)  BY <1>2, FramesOfSteps
  <2> QED  BY <2>1 DEF StepFrames, Further
<1>5. /\ GoesOn(Top, to) /\ to.x = Top.x /\ to.got = Top.got /\ to.put = Top.put
      /\ to.section = Top.section /\ to.nested = Top.nested /\ to.fn = Top.fn /\ to.p = Top.p /\ to \in FrameType
      /\ to.block = Top.block /\ to.next = Top.next + 1
  <2>1. /\ Top.put \in BOOLEAN /\ Top.section \in BOOLEAN /\ Top.nested \in BOOLEAN
        /\ Top.x \in Values /\ Top.got \in ObjectType
    BY <1>2, FrameParts
  <2>2. IsFurther(to, Top.x, Top.got, Top.put, Top.section, Top.nested)  BY <1>1, <2>1, FurtherGoesOn
  <2> HIDE DEF to
  <2> QED  BY <2>2 DEF IsFurther
<1> HIDE DEF to
<1>6. RunInv(t1, object)
  <2>1. Marks(thread, to, object)  BY <1>2, <1>5, TopMarks DEF Marks
  <2>2. TakesX(thread, Top, to, object)  BY <1>5 DEF TakesX
  <2>3. Moves(thread, object, to, object)  BY <1>2, <1>5, <2>1, <2>2 DEF Moves, Spread
  <2> QED  BY <1>2, <2>3, MoveKeeps
<1>7. t1 # <<>> /\ Len(t1) = Depth /\ t1[Len(t1)] = to
  BY <1>2, <1>5
<1>8. /\ to.next > 1 /\ Calling(to) = This
      /\ p = IF This.do = "call" THEN ValueIn(to, This.v) ELSE "other"
  <2>1. to.next - 1 = Top.next /\ to.next > 1  BY <1>2, <1>5
  <2>2. <<to.block, to.next - 1>> = Here  BY <1>2, <1>5, <2>1 DEF At
  <2>3. ValueIn(to, This.v) = ValueIn(Top, This.v)  BY <1>5 DEF ValueIn
  <2> QED  BY <1>2, <1>5, <2>1, <2>2, <2>3 DEF Calling
<1>9. ASSUME p = "obj", body[fn].freshParam  PROVE ~object.shared
  <2>1. This.do = "call" /\ ValueIn(Top, This.v) = "obj"  BY <1>2, <1>9
  <2>2. IsFreshAt(Top.fn, This.v, Here, None)  BY <1>2, <1>9, <2>1 DEF Reported
  <2>3. This.v \in Roots(Top.fn) /\ ~Escaped(Top.fn, This.v, None, At(Top))
    BY <1>2, <2>2, FreshMeans
  <2>4. Seen(thread, object)  BY DEF RunInv
  <2> QED  BY <1>2, <2>1, <2>3, <2>4 DEF Seen
<1>10. Frame(fn, p) = Entered(fn, p, object)  BY DEF Frame, Entered
<1> HIDE DEF t1, p, fn
<1>11. RunInv(Append(t1, Entered(fn, p, object)), object)
  <2>1. Calling(to).of = fn /\ Calling(to).do = This.do /\ Calling(to).v = This.v
    BY <1>8 DEF fn
  <2> QED  BY <1>1, <1>3, <1>6, <1>7, <1>8, <1>9, <2>1, PushKeeps
<1>12. thread' = Append(t1, Entered(fn, p, object))  BY <1>1, <1>4, <1>10 DEF t1
<1> QED  BY <1>1, <1>11, <1>12

LEMMA StepBranch ==
    ASSUME body \in Programs, RunInv(thread, object), RunBranch
    PROVE  RunInv(thread', object')
<1> HIDE DEF Instr, FrameType, ObjectType
<1>1. thread # <<>> /\ object' = object /\ Top.next > Len(Code)
  BY DEF RunBranch, Running
<1>2. PICK s \in body[Top.fn].succs[Top.block] :
         thread' = [thread EXCEPT ![Depth].block = s, ![Depth].next = 1]
  BY DEF RunBranch
<1>3. /\ Top \in FrameType /\ object \in ObjectType /\ Depth \in DOMAIN thread
      /\ Top = thread[Depth] /\ thread \in Seq(FrameType) /\ InBody(Top)
      /\ Top.fn \in Function /\ Top.block \in Block(Top.fn) /\ Top.next \in Nat \ {0}
  BY <1>1, TopParts DEF Top
<1>4. s \in Block(Top.fn) /\ s \in Nat /\ Len(body[Top.fn].code[s]) \in Nat
  <2>1. s \in Block(Top.fn) /\ Block(Top.fn) \subseteq Nat  BY <1>3, BodyParts
  <2>2. body[Top.fn].code[s] \in Seq(Instr)  BY <1>3, <2>1, BodyParts
  <2> QED  BY <2>1, <2>2
<1> DEFINE to == Changed(Top, s, 1, Top.x, Top.got, Top.put, Top.section, Top.nested)
<1>5. thread' = [thread EXCEPT ![Depth] = to]
  <2>1. StepFrames(Top, "obj", TRUE, TRUE, TRUE, TRUE, s, 1)  BY <1>3, FramesOfSteps
  <2>2. [[Top EXCEPT !.block = s] EXCEPT !.next = 1] = to  BY <2>1 DEF StepFrames
  <2> HIDE DEF to
  <2>3. [thread EXCEPT ![Depth].block = s] = [thread EXCEPT ![Depth] = [Top EXCEPT !.block = s]]
    BY <1>3
  <2>4. [[thread EXCEPT ![Depth].block = s] EXCEPT ![Depth].next = 1] = [thread EXCEPT ![Depth] = to]
    BY <1>3, <2>2, <2>3
  <2>5. [thread EXCEPT ![Depth].block = s, ![Depth].next = 1]
           = [[thread EXCEPT ![Depth].block = s] EXCEPT ![Depth].next = 1]
    OBVIOUS
  <2> QED  BY <1>2, <2>4, <2>5
<1>6. /\ to \in FrameType /\ to.fn = Top.fn /\ to.p = Top.p /\ to.entered = Top.entered
      /\ to.x = Top.x /\ to.got = Top.got /\ to.put = Top.put /\ to.section = Top.section
      /\ to.nested = Top.nested /\ to.block = s /\ to.next = 1
  <2>1. /\ Top.x \in Values /\ Top.got \in ObjectType /\ Top.put \in BOOLEAN
        /\ Top.section \in BOOLEAN /\ Top.nested \in BOOLEAN
    BY <1>3, FrameParts
  <2>2. 1 \in Nat \ {0}  OBVIOUS
  <2>3. to \in FrameType  BY <1>3, <1>4, <2>1, <2>2, ChangedFrame
  <2> QED  BY <2>3 DEF Changed
<1> HIDE DEF to
<1>7. GoesOn(Top, to)
  <2>1. InBody(to)  BY <1>4, <1>6 DEF InBody
  <2>2. \A e \in Instrs(Top.fn) : CanReach(Top.fn, e, At(Top)) => CanReach(Top.fn, e, At(to))
    BY <1>3, <1>6, ReachOn DEF At
  <2> QED  BY <1>6, <2>1, <2>2 DEF GoesOn
<1>8. Marks(thread, to, object')  BY <1>1, <1>6, TopMarks DEF Marks
<1>9. TakesX(thread, Top, to, object')  BY <1>6 DEF TakesX
<1>10. Spread(thread, object, to, object')  BY <1>1 DEF Spread
<1> QED  BY <1>1, <1>3, <1>5, <1>7, <1>8, <1>9, <1>10, MoveStep

LEMMA StepReturn ==
    ASSUME body \in Programs, AllSettled, \A f \in Function : ~Reported(f),
           RunInv(thread, object), RunReturn
    PROVE  RunInv(thread', object')
<1> HIDE DEF Instr, FrameType, ObjectType, Values
<1> DEFINE under == SubSeq(thread, 1, Depth - 1)
           made == under # <<>> /\ LET c == under[Depth - 1] IN
                      body[c.fn].code[c.block][c.next - 1].do = "make"
<1>1. /\ thread # <<>>
      /\ thread' = IF made THEN [under EXCEPT ![Depth - 1].x = Result, ![Depth - 1].got = Left]
                   ELSE under
      /\ object' = Left
  <2>1. thread # <<>>  BY DEF RunReturn, Running, InBlock
  <2>2. thread' = IF made THEN [under EXCEPT ![Depth - 1].x = Result, ![Depth - 1].got = Left]
                  ELSE under
    BY Zenon DEF RunReturn
  <2> HIDE DEF made, under
  <2>3. object' = Left  BY DEF RunReturn
  <2> QED  BY <2>1, <2>2, <2>3
<1>2. /\ Top \in FrameType /\ object \in ObjectType /\ Depth \in DOMAIN thread
      /\ Top = thread[Depth] /\ thread \in Seq(FrameType) /\ Depth = Len(thread)
      /\ Top.fn \in Function /\ Depth \in Nat \ {0}
  BY <1>1, TopParts DEF Top, Depth
<1>3. object' \in ObjectType /\ (object'.shared <=> object.shared \/ Top.put)
      /\ object'.fields = object.fields
      /\ (object'.contained # "no" <=> object.contained # "no")
  <2>1. object = [shared |-> object.shared, fields |-> object.fields,
                  contained |-> object.contained]
        /\ object.contained \in {"no", "locked", "after"}
        /\ object.shared \in BOOLEAN /\ object.fields \in SUBSET Field
    BY <1>2 DEF ObjectType
  <2> DEFINE s == object.shared \/ Top.put
             k == IF Top.section THEN "after" ELSE object.contained
  <2>2. object' = [shared |-> s, fields |-> object.fields, contained |-> k]
    BY <1>1, <2>1 DEF Left
  <2>3. s \in BOOLEAN /\ k \in {"no", "locked", "after"}  BY <1>2, <2>1, FrameParts
  <2>4. k # "no" <=> object.contained # "no"  BY <1>1, TopMarks
  <2> HIDE DEF k
  <2> QED  BY <2>1, <2>2, <2>3, <2>4 DEF ObjectType
<1>4. CASE ~made
  <2>1. RunInv(SubSeq(thread, 1, Len(thread) - 1), object')
    BY <1>1, <1>2, <1>3, PopKeeps
  <2> QED  BY <1>1, <1>2, <1>4, <2>1
<1>5. CASE made
  <2>1. Depth > 1
    <3>1. under # <<>>  BY <1>5
    <3> QED  BY <1>2, <3>1
  <2>2. under[Depth - 1] = thread[Depth - 1]  BY <1>2, <2>1
  <2>3. Calling(thread[Depth - 1]).do = "make"
    BY <1>5, <2>2 DEF Calling, InstrAt
  <2>4. Result \in Values
    BY <1>2, FrameParts DEF Result, Value, Values
  <2>5. ASSUME Result = "obj"
        PROVE  /\ At(Top) \in Instrs(Top.fn) /\ InstrAt(Top.fn, At(Top)).do = "return"
               /\ Result = ValueIn(Top, InstrAt(Top.fn, At(Top)).v)
    <3>1. InBlock /\ Result = Value(This.v)  BY <2>5 DEF Result
    <3>2. Top.next <= Len(Code) /\ Top.next \in Nat /\ Len(Code) \in Nat
      <4>1. Top.next \in Nat /\ Code \in Seq(Instr)  BY <1>1, TopParts
      <4> QED  BY <3>1, <4>1 DEF InBlock
    <3>3. This.do = "return"
      <4>1. This.do = "return" \/ Top.next > Len(Code)  BY Zenon DEF RunReturn
      <4> QED  BY <3>2, <4>1
    <3> QED  BY <3>1, <3>3, HereParts
  <2> HIDE DEF under, made
  <2>6. RunInv([SubSeq(thread, 1, Len(thread) - 1) EXCEPT
                  ![Len(thread) - 1].x = Result, ![Len(thread) - 1].got = object'], object')
    BY <1>2, <1>3, <2>1, <2>3, <2>4, <2>5, ResultKeeps
  <2> QED  BY <1>1, <1>2, <1>5, <2>6 DEF under
<1> QED  BY <1>4, <1>5

-----------------------------------------------------------------------------
(***************************************************************************)
(* What depends on the bodies and the findings alone stays as they do.     *)
(***************************************************************************)
LEMMA SameEscapes ==
    ASSUME body' = body, publishes' = publishes
    PROVE  /\ \A f : Block(f)' = Block(f) /\ Instrs(f)' = Instrs(f) /\ Roots(f)' = Roots(f)
           /\ \A f, pos : InstrAt(f, pos)' = InstrAt(f, pos)
           /\ \A f, v, how : EscapesOf(f, v, how)' = EscapesOf(f, v, how)
           /\ \A f, from, to : CanReach(f, from, to)' <=> CanReach(f, from, to)
           /\ \A f, v, pos : Inserts(f, v, pos)' <=> Inserts(f, v, pos)
<1>1. \A f : Block(f)' = Block(f)  BY DEF Block
<1>2. \A f : Instrs(f)' = Instrs(f)  BY Zenon, <1>1 DEF Instrs
<1>3. \A f, pos : InstrAt(f, pos)' = InstrAt(f, pos)  BY DEF InstrAt
<1>4. \A f : Roots(f)' = Roots(f)  BY Zenon, <1>2, <1>3 DEF Roots
<1>5. \A f, v, pos, how : EscapesHere(f, v, pos, how)' = EscapesHere(f, v, pos, how)
  <2> TAKE f, v, pos, how
  <2> QED  BY <1>3 DEF EscapesHere
<1>6. \A f, v, how : EscapesOf(f, v, how)' = EscapesOf(f, v, how)
  <2> TAKE f, v, how
  <2>1. Instrs(f)' = Instrs(f)  BY <1>2
  <2>2. \A pos : EscapesHere(f, v, pos, how)' = EscapesHere(f, v, pos, how)  BY <1>5
  <2> QED  BY <2>1, <2>2 DEF EscapesOf
<1>7. \A f, b : Reaches(f, b)' = Reaches(f, b)  BY Zenon, <1>1 DEF Reaches
<1>8. \A f, from, to : CanReach(f, from, to)' <=> CanReach(f, from, to)
  BY <1>7 DEF CanReach
<1>9. \A f, v, pos : Inserts(f, v, pos)' <=> Inserts(f, v, pos)
  BY <1>2, <1>3, <1>8 DEF Inserts
<1> QED  BY <1>1, <1>2, <1>3, <1>4, <1>6, <1>8, <1>9

LEMMA SameReports ==
    ASSUME body' = body, publishes' = publishes
    PROVE  /\ \A f : Settled(f)' <=> Settled(f)
           /\ \A f : Reported(f)' <=> Reported(f)
           /\ \A f, v, pos, field : IsFreshAt(f, v, pos, field)' <=> IsFreshAt(f, v, pos, field)
           /\ \A f, v, field, pos : Escaped(f, v, field, pos)' <=> Escaped(f, v, field, pos)
           /\ AllSettled' <=> AllSettled
<1>1. \A f : Settled(f)' <=> Settled(f)
  BY SameEscapes DEF Settled, ComputePublishes, PublishesObject
<1>2. \A f, v, pos, field : IsFreshAt(f, v, pos, field)' <=> IsFreshAt(f, v, pos, field)
  BY SameEscapes DEF IsFreshAt
<1>3. \A f, v, field, pos : Escaped(f, v, field, pos)' <=> Escaped(f, v, field, pos)
  BY SameEscapes DEF Escaped
<1>4. \A f : Reported(f)' <=> Reported(f)
  BY SameEscapes, <1>2 DEF Reported
<1>5. AllSettled' <=> AllSettled  BY <1>1 DEF AllSettled
<1> QED  BY <1>1, <1>2, <1>3, <1>4, <1>5

LEMMA SameRun ==
    ASSUME body' = body, publishes' = publishes, NEW t, NEW o
    PROVE  RunInv(t, o)' <=> RunInv(t, o)
<1> HIDE DEF FrameType, ObjectType
<1>1. \A fr : InBody(fr)' <=> InBody(fr)  BY SameEscapes DEF InBody
<1>2. \A fr : Calling(fr)' = Calling(fr)  BY SameEscapes DEF Calling
<1>3. Stacked(t)' <=> Stacked(t)  BY <1>1, <1>2 DEF Stacked
<1>4. /\ OneHolder(t)' <=> OneHolder(t)
      /\ Handed(t)' <=> Handed(t)
  BY DEF OneHolder, Handed
<1>5. /\ Implied(t)' <=> Implied(t)
      /\ Putters(t)' <=> Putters(t)
      /\ Publishers(t, o)' <=> Publishers(t, o)
      /\ InSection(t, o)' <=> InSection(t, o)
  BY SameEscapes DEF Implied, Putters, Insertion, Publishers, InSection
<1>6. Seen(t, o)' <=> Seen(t, o)  BY SameEscapes, SameReports DEF Seen
<1>7. /\ SeenFields(t, o)' <=> SeenFields(t, o)
      /\ SeenIn(t, o)' <=> SeenIn(t, o)
  BY SameEscapes, SameReports DEF SeenFields, SeenIn
<1> QED  BY <1>3, <1>4, <1>5, <1>6, <1>7 DEF RunInv

-----------------------------------------------------------------------------
(***************************************************************************)
(* The invariant.                                                          *)
(***************************************************************************)
\* Every function is in the order.
LEMMA OrderNamesAll ==
    ASSUME NEW s \in SetToSeqs(Function)
    PROVE  s \in Seq(Function) /\ \A f \in Function : \E i \in DOMAIN s : s[i] = f
<1> DEFINE D == 1 .. Cardinality(Function)
<1>1. Cardinality(Function) \in Nat  BY BoundAssumption, FS_CardinalityType
<1>2. s \in [D -> Function] /\ \A i, j \in D : i # j => s[i] # s[j]  BY DEF SetToSeqs
<1>3. IsFiniteSet(D) /\ Cardinality(D) = Cardinality(Function)
  BY <1>1, FS_Interval
<1> HIDE DEF D
<1>4. s \in Injection(D, Function)  BY <1>2 DEF Injection, IsInjective
<1>5. s \in Surjection(D, Function)  BY <1>3, <1>4, BoundAssumption, FS_Injection
<1>6. \A f \in Function : \E i \in D : s[i] = f  BY <1>5 DEF Surjection
<1> QED  BY <1>1, <1>2, <1>6 DEF D

LEMMA InitInv == Init => IInv
<1> SUFFICES ASSUME Init  PROVE IInv  OBVIOUS
<1>1. order \in Seq(Function) /\ \A f \in Function : \E i \in DOMAIN order : order[i] = f
  BY OrderNamesAll DEF Init
<1>2. Typed
  <2>1. Len(order) \in Nat  BY <1>1
  <2>2. Ordered  BY <1>1 DEF Ordered
  <2>3. at \in 1 .. Len(order) + 1 /\ round \in Nat  BY <2>1 DEF Init
  <2> QED  BY <2>2, <2>3 DEF Init, Typed
<1>3. RoundsInv
  <2>1. stage = "rounds" /\ at = 1 /\ \A i \in DOMAIN order : ~(i < 1)
    BY <1>1 DEF Init
  <2> QED  BY <2>1 DEF RoundsInv, Visited
<1> QED  BY <1>2, <1>3 DEF Init, IInv, Idle, Accepted, RunIsRight

LEMMA ComputeKeeps == ASSUME IInv, Compute  PROVE IInv'
<1>1. /\ stage = "rounds" /\ at <= Len(order) /\ at' = at + 1
      /\ publishes' = IF ComputePublishes(order[at]) THEN publishes \cup {order[at]} ELSE publishes
      /\ changed' = (changed \/ publishes' # publishes)
      /\ UNCHANGED <<body, order, stage, round, thread, object>>
  BY DEF Compute
<1>2. Typed /\ RoundsInv /\ Idle  BY DEF IInv
<1>3. order \in Seq(Function) /\ at \in 1 .. Len(order) + 1  BY <1>2 DEF Typed, Ordered
<1>4. Len(order) \in Nat /\ at \in DOMAIN order /\ order[at] \in Function /\ DOMAIN order = 1 .. Len(order)
  BY <1>1, <1>3
<1>5. Ordered'  BY <1>1, <1>2 DEF Typed, Ordered
<1>6. Typed'
  <2>1. publishes' \subseteq Function /\ changed' \in BOOLEAN /\ at' \in 1 .. Len(order) + 1
    BY <1>1, <1>2, <1>4 DEF Typed
  <2> QED  BY <1>1, <1>2, <1>5, <2>1 DEF Typed
<1>7. RoundsInv'
  <2>1. ASSUME ~changed', NEW f \in Function, NEW i \in DOMAIN order, i < at + 1, order[i] = f
        PROVE  Settled(f)'
    <3>1. ~changed /\ publishes' = publishes /\ body' = body  BY <1>1, <2>1
    <3>2. Settled(f)
      <4>1. CASE i < at  BY <1>1, <1>2, <2>1, <3>1, <4>1 DEF RoundsInv, Visited
      <4>2. CASE i = at  BY <1>1, <2>1, <3>1, <4>2 DEF Settled
      <4> QED  BY <1>4, <2>1, <4>1, <4>2
    <3> QED  BY <3>1, <3>2, SameReports
  <2>2. stage' = "rounds" /\ order' = order /\ at' = at + 1  BY <1>1
  <2> QED  BY <2>1, <2>2 DEF RoundsInv, Visited
<1> QED  BY <1>1, <1>2, <1>6, <1>7 DEF IInv, Idle, Accepted, RunIsRight

LEMMA EndRoundKeeps == ASSUME IInv, EndRound  PROVE IInv'
<1>1. /\ stage = "rounds" /\ at > Len(order) /\ at' = 1 /\ changed' = FALSE
      /\ \/ changed /\ round' = round + 1 /\ stage' = "rounds"
         \/ ~(changed /\ round + 1 < MaxRounds) /\ stage' = "checked" /\ round' = round
      /\ UNCHANGED <<body, order, publishes, thread, object>>
  BY DEF EndRound
<1>2. Typed /\ RoundsInv /\ Idle  BY DEF IInv
<1>3. order \in Seq(Function) /\ round \in Nat  BY <1>2 DEF Typed, Ordered
<1>4. Len(order) \in Nat /\ DOMAIN order = 1 .. Len(order)  BY <1>3
<1>5. Ordered'  BY <1>1, <1>2 DEF Typed, Ordered
<1>6. Typed'
  <2>1. round' \in Nat /\ stage' \in {"rounds", "checked", "running"} /\ at' \in 1 .. Len(order) + 1
    BY <1>1, <1>3, <1>4
  <2> QED  BY <1>1, <1>2, <1>5, <2>1 DEF Typed
<1>7. RoundsInv'
  <2>1. ASSUME stage' = "rounds"  PROVE RoundsInv'
    <3>1. \A i \in DOMAIN order' : ~(i < at')  BY <1>1, <1>4
    <3> QED  BY <2>1, <3>1 DEF RoundsInv, Visited
  <2>2. ASSUME stage' = "checked", Ended'  PROVE AllSettled'
    <3>1. ~changed  BY <1>1, <2>2 DEF Ended
    <3>2. \A i \in DOMAIN order : i < at
      <4>1. at \in Nat  BY <1>2, <1>4 DEF Typed
      <4> QED  BY <1>1, <1>4, <4>1
    <3>3. \A f \in Function : Visited(f)  BY <1>2, <3>2 DEF Visited, Typed, Ordered
    <3>4. AllSettled  BY <1>1, <1>2, <3>1, <3>3 DEF RoundsInv, AllSettled
    <3> QED  BY <1>1, <3>4, SameReports
  <2>3. stage' = "rounds" \/ stage' = "checked"  BY <1>1
  <2> QED  BY <2>1, <2>2, <2>3 DEF RoundsInv
<1> QED  BY <1>1, <1>2, <1>6, <1>7 DEF IInv, Idle, Accepted, RunIsRight

\* The invariant of the run, of the stack and the object that the step leaves.
RunIs(t, o) == t = thread /\ o = object /\ RunInv(t, o) => RunInv(thread, object)
LEMMA RunOf == ASSUME NEW t, NEW o  PROVE RunIs(t, o)
BY DEF RunIs

LEMMA RunIsOf ==
    ASSUME NEW t, NEW o
    PROVE  RunIs(t, o)'
BY RunOf, PTL

LEMMA RunOn ==
    ASSUME body' = body, publishes' = publishes, RunInv(thread', object')
    PROVE  RunInv(thread, object)'
<1>1. PICK t, o : t = thread' /\ o = object'  OBVIOUS
<1>2. RunInv(t, o)'  BY <1>1, SameRun
<1>3. RunIs(t, o)'  BY RunIsOf
<1> QED  BY <1>1, <1>2, <1>3 DEF RunIs

LEMMA BeginKeeps == ASSUME IInv, Begin  PROVE IInv'
<1>1. /\ stage = "checked" /\ (\A f \in Function : ~Reported(f)) /\ stage' = "running"
      /\ UNCHANGED <<body, order, round, at, changed, publishes, object>>
  BY DEF Begin
<1>2. PICK f \in Function : thread' = <<Frame(f, IF body[f].freshParam THEN "obj" ELSE "other")>>
  BY DEF Begin
<1>3. Typed /\ RoundsInv /\ Idle  BY DEF IInv
<1>4. object = NoObject /\ body \in Programs  BY <1>1, <1>3 DEF Idle, Typed
<1> DEFINE p == IF body[f].freshParam THEN "obj" ELSE "other"
<1>5. p \in Values  BY DEF Values
<1>6. Frame(f, p) = Entered(f, p, NoObject)  BY <1>4 DEF Frame, Entered
<1> HIDE DEF p
<1>7. RunInv(<<Entered(f, p, NoObject)>>, NoObject)  BY <1>4, <1>5, OneFrame
<1>8. thread' = <<Entered(f, p, NoObject)>> /\ object' = NoObject
  BY <1>1, <1>2, <1>4, <1>6 DEF p
<1>9. RunInv(thread, object)'  BY <1>1, <1>7, <1>8, RunOn
<1>10. Ordered'  BY <1>1, <1>3 DEF Typed, Ordered
<1>11. Typed'  BY <1>1, <1>3, <1>10 DEF Typed
<1>12. AllSettled' <=> AllSettled  BY <1>1, SameReports
<1>13. RoundsInv'  BY <1>1, <1>3, <1>12 DEF RoundsInv, Ended
<1>14. Accepted'  BY <1>1, SameReports DEF Accepted
<1> QED  BY <1>1, <1>9, <1>11, <1>13, <1>14 DEF IInv, Idle, RunIsRight

LEMMA RunKeeps == ASSUME IInv, Run  PROVE IInv'
<1>1. /\ stage = "running"
      /\ UNCHANGED <<body, order, stage, round, at, changed, publishes>>
  BY DEF Run, RunNew, RunUse, RunPut, RunUnlock, RunNest, RunExpose, RunCall, RunBranch,
         RunReturn, InBlock, Running, Rest
<1>2. Typed /\ RoundsInv /\ Accepted /\ RunIsRight  BY DEF IInv
<1>3. body \in Programs  BY <1>2 DEF Typed
<1>4. Ended' <=> Ended  BY <1>1 DEF Ended
<1>5. ASSUME Ended  PROVE RunInv(thread, object)'
  <2>1. AllSettled /\ RunInv(thread, object) /\ \A f \in Function : ~Reported(f)
    BY <1>1, <1>2, <1>5 DEF RoundsInv, RunIsRight, Accepted
  <2>2. RunInv(thread', object')
    BY <1>3, <2>1, StepNew, StepUse, StepPut, StepUnlock, StepNest, StepExpose, StepCall,
       StepBranch, StepReturn DEF Run
  <2> QED  BY <1>1, <2>2, RunOn
<1>6. Ordered'  BY <1>1, <1>2 DEF Typed, Ordered
<1>7. Typed'  BY <1>1, <1>2, <1>6 DEF Typed
<1>8. AllSettled' <=> AllSettled  BY <1>1, SameReports
<1>9. RoundsInv'  BY <1>1, <1>2, <1>4, <1>8 DEF RoundsInv
<1>10. Accepted'  BY <1>1, <1>2, SameReports DEF Accepted
<1> QED  BY <1>1, <1>4, <1>5, <1>7, <1>9, <1>10 DEF IInv, Idle, RunIsRight

LEMMA StutterKeeps == ASSUME IInv, UNCHANGED vars  PROVE IInv'
<1>1. UNCHANGED <<body, order, stage, round, at, changed, publishes, thread, object>>
  BY DEF vars
<1>2. Typed /\ RoundsInv /\ Idle /\ Accepted /\ RunIsRight  BY DEF IInv
<1>3. Ordered'  BY <1>1, <1>2 DEF Typed, Ordered
<1>4. Typed'  BY <1>1, <1>2, <1>3 DEF Typed
<1>5. /\ Ended' <=> Ended
      /\ AllSettled' <=> AllSettled
      /\ \A f : Visited(f)' <=> Visited(f)
  BY <1>1, SameReports DEF Ended, Visited
<1>6. RoundsInv' /\ Accepted'
  BY <1>1, <1>2, <1>5, SameReports DEF RoundsInv, Accepted
<1>7. ASSUME stage = "running", Ended  PROVE RunInv(thread, object)'
  <2>1. RunInv(thread', object')  BY <1>1, <1>2, <1>7 DEF RunIsRight
  <2> QED  BY <1>1, <2>1, RunOn
<1> QED  BY <1>1, <1>2, <1>4, <1>5, <1>6, <1>7 DEF IInv, Idle, RunIsRight

LEMMA Invariant == Spec => []IInv
<1>1. IInv /\ [Next]_vars => IInv'
  BY ComputeKeeps, EndRoundKeeps, BeginKeeps, RunKeeps, StutterKeeps DEF Next
<1> QED  BY InitInv, <1>1, PTL DEF Spec

-----------------------------------------------------------------------------
(***************************************************************************)
(* Theorems.                                                               *)
(***************************************************************************)
\* The findings pay for the rounds: every round but the last one found a function
\* that publishes, so the bound on the rounds does not end them when it is more
\* than the number of functions and one.
Paid == /\ round <= Cardinality(publishes)
        /\ changed => round + 1 <= Cardinality(publishes)
LEMMA RoundsArePaid == Spec => []Paid
<1>1. Init => Paid
  <2>1. Cardinality({}) = 0  BY FS_EmptySet
  <2> QED  BY <2>1 DEF Init, Paid
<1>2. IInv /\ Paid /\ [Next]_vars => Paid'
  <2> SUFFICES ASSUME IInv, Paid, [Next]_vars  PROVE Paid'  OBVIOUS
  <2>0. publishes \subseteq Function /\ round \in Nat /\ changed \in BOOLEAN
    BY DEF IInv, Typed
  <2>1. IsFiniteSet(publishes) /\ Cardinality(publishes) \in Nat
    BY <2>0, BoundAssumption, FS_Subset, FS_CardinalityType
  <2>2. CASE Compute
    <3>1. round' = round /\ changed' = (changed \/ publishes' # publishes)
          /\ publishes' = IF ComputePublishes(order[at]) THEN publishes \cup {order[at]} ELSE publishes
      BY <2>2 DEF Compute
    <3>2. CASE publishes' = publishes  BY <2>0, <3>1, <3>2 DEF Paid
    <3>3. CASE publishes' # publishes
      <4>1. publishes' = publishes \cup {order[at]} /\ order[at] \notin publishes
        BY <3>1, <3>3
      <4>2. Cardinality(publishes') = Cardinality(publishes) + 1
        BY <2>1, <4>1, FS_AddElement
      <4> QED  BY <2>0, <2>1, <3>1, <4>2 DEF Paid
    <3> QED  BY <3>2, <3>3
  <2>3. CASE EndRound
    <3>1. /\ publishes' = publishes /\ changed' = FALSE
          /\ \/ changed /\ round' = round + 1
             \/ round' = round
      BY <2>3 DEF EndRound
    <3> QED  BY <2>0, <2>1, <3>1 DEF Paid
  <2>4. CASE Begin  BY <2>4 DEF Begin, Paid
  <2>5. CASE Run
    <3>1. UNCHANGED Rest
      BY <2>5, Zenon DEF Run, RunNew, RunUse, RunPut, RunUnlock, RunNest, RunExpose, RunCall,
         RunBranch, RunReturn
    <3> QED  BY <3>1 DEF Rest, Paid
  <2>6. CASE UNCHANGED vars  BY <2>6 DEF vars, Paid
  <2> QED  BY <2>2, <2>3, <2>4, <2>5, <2>6 DEF Next
<1> QED  BY <1>1, <1>2, Invariant, PTL DEF Spec

LEMMA RoundsSuffice ==
    ASSUME Cardinality(Function) + 1 < MaxRounds
    PROVE  Spec => []Ended
<1>1. IInv /\ Paid => Ended
  <2> SUFFICES ASSUME IInv, Paid  PROVE Ended  OBVIOUS
  <2>1. publishes \subseteq Function /\ round \in Nat  BY DEF IInv, Typed
  <2>2. Cardinality(publishes) <= Cardinality(Function) /\ Cardinality(Function) \in Nat
        /\ Cardinality(publishes) \in Nat
    BY <2>1, BoundAssumption, FS_Subset, FS_CardinalityType
  <2> QED  BY <2>1, <2>2, BoundAssumption DEF Paid, Ended
<1> QED  BY <1>1, Invariant, RoundsArePaid, PTL

LEMMA TypesFollow == IInv /\ Ended => TypeOK
<1> SUFFICES ASSUME IInv, Ended  PROVE TypeOK  OBVIOUS
<1>1. Typed /\ Idle /\ RunIsRight  BY DEF IInv
<1>2. round \in 0 .. MaxRounds - 2  BY <1>1, BoundAssumption DEF Typed, Ended
<1>3. CASE stage # "running"
  <2>1. thread = <<>> /\ object = NoObject  BY <1>1, <1>3 DEF Idle
  <2>2. Depth = 0  BY <2>1 DEF Depth
  <2>3. object \in [shared : BOOLEAN, fields : SUBSET Field, contained : {"no", "locked", "after"}]
    BY <2>1 DEF NoObject
  <2> QED  BY <1>1, <1>2, <2>2, <2>3, BoundAssumption DEF TypeOK, Typed
<1>4. CASE stage = "running"
  <2>1. RunInv(thread, object)  BY <1>1, <1>4 DEF RunIsRight
  <2>2. Stacked(thread) /\ object \in ObjectType  BY <2>1 DEF RunInv
  <2>3. thread \in Seq(FrameType) /\ Depth <= MaxDepth /\ DOMAIN thread = 1 .. Depth
    BY <2>2 DEF Stacked, Depth
  <2>4. \A i \in 1 .. Depth : {thread[i].p, thread[i].x} \subseteq {"obj", "other", "none"}
    <3>1. \A i \in 1 .. Depth : thread[i] \in FrameType
      BY <2>2, <2>3 DEF Stacked, InBody
    <3> QED  BY <3>1, FrameParts DEF Values
  <2> QED  BY <1>1, <1>2, <2>2, <2>3, <2>4 DEF TypeOK, Typed, ObjectType
<1> QED  BY <1>3, <1>4

LEMMA KnownFollows == IInv /\ Ended => PublishesIsKnown
<1> SUFFICES ASSUME IInv, Ended, stage = "running", NEW i \in 1 .. Depth,
                    thread[i].p = "obj", thread[i].fn \notin publishes
             PROVE  /\ object.shared => thread[i].entered.shared
                    /\ object.fields \cap Guarded \subseteq thread[i].entered.fields
  BY DEF PublishesIsKnown
<1>1. RunInv(thread, object)  BY DEF IInv, RunIsRight
<1>2. Stacked(thread) /\ Publishers(thread, object)  BY <1>1 DEF RunInv
<1>3. i \in DOMAIN thread  BY <1>2 DEF Stacked, Depth
<1> QED  BY <1>2, <1>3 DEF Publishers

LEMMA ExemptFollows == IInv /\ Ended => ExemptIsUnshared
<1> DEFINE v == This.v
<1> SUFFICES ASSUME IInv, Ended, Exempt
             PROVE  /\ ~object.shared
                    /\ This.of \in object.fields => This.of \in Came(v).fields
                    /\ object.contained # "no" => Came(v).contained # "no" \/ Inserts(Top.fn, v, Here)
  BY DEF ExemptIsUnshared
<1> HIDE DEF Instr, FrameType, ObjectType
<1>1. /\ InBlock /\ This.do = "access" /\ OnObj /\ IsFreshAt(Top.fn, v, Here, This.of)
  BY DEF Exempt
<1>2. RunInv(thread, object) /\ body \in Programs
  BY <1>1 DEF IInv, RunIsRight, Typed, InBlock, Running
<1>3. /\ thread # <<>> /\ Here = At(Top) /\ v \in {"p", "x"} /\ ValueIn(Top, v) = "obj"
      /\ This \in Instr
  BY <1>1, <1>2, HereParts DEF OnObj
<1>4. Depth \in DOMAIN thread /\ Top = thread[Depth]  BY <1>2, <1>3, TopParts DEF Top
<1>5. /\ v \in Roots(Top.fn) /\ ~Escaped(Top.fn, v, This.of, At(Top))
      /\ ~Escaped(Top.fn, v, None, At(Top))
  BY <1>1, <1>3, FreshMeans DEF Escaped
<1>6. Seen(thread, object) /\ SeenFields(thread, object) /\ SeenIn(thread, object)
  BY <1>2 DEF RunInv
<1>7. Came(v) = CameIn(Top, v)  BY DEF Came, CameIn
<1>8. This.of \in Guarded  BY <1>1, <1>3 DEF Instr
<1> HIDE DEF v
<1>9. ~object.shared  BY <1>3, <1>4, <1>5, <1>6 DEF Seen
<1>10. This.of \in object.fields => This.of \in Came(v).fields
  BY <1>3, <1>4, <1>5, <1>6, <1>7, <1>8 DEF SeenFields
<1>11. object.contained # "no" => Came(v).contained # "no" \/ Inserts(Top.fn, v, Here)
  BY <1>3, <1>4, <1>5, <1>6, <1>7 DEF SeenIn
<1> QED  BY <1>9, <1>10, <1>11

\* Whatever ends the rounds: if it is not the bound on them, every function that
\* publishes its parameter was found, and an exempt access is of an object that did
\* not spread, but for the two ways that ExemptIsUnshared names.
THEOREM RightWhenSettled ==
    Spec => [](Ended => TypeOK /\ PublishesIsKnown /\ ExemptIsUnshared)
BY Invariant, TypesFollow, KnownFollows, ExemptFollows, PTL

\* The same without the condition, of a package of fewer functions than that bound:
\* the types,
THEOREM TypesHold ==
    ASSUME Cardinality(Function) + 1 < MaxRounds
    PROVE  Spec => []TypeOK
BY Invariant, RoundsSuffice, TypesFollow, PTL

\* that a function found not to publish its parameter, and those that it calls,
\* leave it unpublished while it runs,
THEOREM FindingsAreRight ==
    ASSUME Cardinality(Function) + 1 < MaxRounds
    PROVE  Spec => []PublishesIsKnown
BY Invariant, RoundsSuffice, KnownFollows, PTL

\* and that an access exempt from its guard, through calls, results, loops and
\* branches, is of an object that nobody shared; that since the function came to
\* hold it nobody has handed on the address of the field; and that the object is in
\* a container only if the function inserts it itself, or it was in one when it came.
\* Of what was so when it came, and of the function's own insertions once the lock
\* is released, nothing is claimed: others may then reach the field or the object.
THEOREM ExemptionIsSound ==
    ASSUME Cardinality(Function) + 1 < MaxRounds
    PROVE  Spec => []ExemptIsUnshared
BY Invariant, RoundsSuffice, ExemptFollows, PTL
=============================================================================
