---------------------------- MODULE Annotations ----------------------------
(***************************************************************************)
(* From an annotation to a diagnostic.  The doc comment of a function or   *)
(* of a field becomes facts, one annotation at a time (facts.go); a use of *)
(* it is checked against the facts and changes the lock state              *)
(* (analysis.go); what a check has to say passes the expectations written  *)
(* on its line (expectations.go).  The facts are Go maps: the loops over   *)
(* them run in any order.                                                  *)
(***************************************************************************)
EXTENDS Integers, FiniteSets, SequencesExt

CONSTANTS Name,    \* the guard names used in annotations
          Sort,    \* what the names may stand for: functions from Name
          Lock,    \* the locks of the function that makes the use
          Site,    \* the lines the use may be on
          Anything, \* the part of an expectation that says nothing
          None     \* "no entry"

Mode == {"read", "write"}

\* A parameter, or a field of the same structure; a result; a global variable.
ASSUME SortAssumption ==
    Sort \subseteq [Name -> [place : {"parameter", "result", "global", "nowhere"},
                             kind : {"Mutex", "RWMutex", "other"}]]

Kind == {"excluded", "required", "release", "acquire", "access", "unresolved", "primitive"}
Message == Kind \X (Name \cup Lock)
Want == (Kind \cup {Anything}) \X (Name \cup {Anything})

\* force, exempt and wants are the annotations of the line; ignored: the function
\* around it carries +checklocksignore; absent: the globals that do not exist in
\* this package and the results nobody extracts; fresh: the names that reach an
\* object under construction; access: whether a field is written.
ASSUME SiteAssumption ==
    \A s \in Site : /\ s.force \in BOOLEAN /\ s.exempt \in BOOLEAN /\ s.ignored \in BOOLEAN
                    /\ s.wants \in Seq(Want)
                    /\ s.absent \subseteq Name /\ s.fresh \subseteq Name /\ s.access \in Mode
ASSUME NoneAssumption == None \notin Mode /\ None \notin Site

VARIABLES sort,    \* what each name stands for
          use,     \* "function", "field" or "primitive": what the line uses
          lff,     \* the facts of the function
          guards,  \* the guards of the field, lgf.GuardedBy
          site,    \* the line of the use, None while the facts are read
          bind,    \* name -> the lock it reaches at the use
          before,  \* lock -> its mode when the use is reached
          held,    \* lock -> its mode now
          todo,    \* the iterations of the loops that are left: <<loop, name>>
          wants,   \* the expectations of the line that are not met yet
          raised,  \* the failures the checks found
          said,    \* those of them that are reported
          crashed  \* lockField or isHeld got a value that is not valid

vars == <<sort, use, lff, guards, site, bind, before, held, todo, wants, raised, said, crashed>>
decl == <<sort, use, lff, guards>>
line == <<site, bind, before>>

-----------------------------------------------------------------------------
(***************************************************************************)
(* functionFacts.  The mode of an exclusion is "write" for one that allows *)
(* readers (+checklocksexcludewrite).                                      *)
(***************************************************************************)
Facts == [entry : [Name -> Mode \cup {None}], exit : [Name -> Mode \cup {None}],
          excluded : [Name -> Mode \cup {None}], ignore : BOOLEAN]
NoEntry == [n \in Name |-> None]
NoFacts == [entry |-> NoEntry, exit |-> NoEntry, excluded |-> NoEntry, ignore |-> FALSE]

\* isHeld: a lock held in the mode h is held as m demands.
Satisfies(h, m) == h = "write" \/ (h = "read" /\ m = "read")

Resolves(n, allowReturn) ==
    /\ sort[n].place \in {"parameter", "global"} \/ (sort[n].place = "result" /\ allowReturn)
    /\ sort[n].kind # "other"

\* checkGuard.
Acceptable(n, m, allowReturn) ==
    /\ ~(lff.excluded[n] # None /\ Satisfies(m, lff.excluded[n]))
    /\ lff.entry[n] = None /\ lff.exit[n] = None
    /\ Resolves(n, allowReturn)
    /\ m = "read" => sort[n].kind = "RWMutex"

\* An annotation that is refused is reported at the function, and changes nothing.
Reading(what) == site = None /\ use = what
Record(ok, facts) ==
    /\ Reading("function") /\ ok /\ lff' = facts
    /\ UNCHANGED <<sort, use, guards, line, held, todo, wants, raised, said, crashed>>

\* Mutants: a result may be required, a read guard may be on any lock, an
\* exclusion is not held against the requirements.
AddGuardedByResult(n, m) ==
    Record(Acceptable(n, m, TRUE), [lff EXCEPT !.entry[n] = m, !.exit[n] = m])
AddReleasesUnvalidated(n, m) ==
    Record(lff.entry[n] = None /\ Resolves(n, FALSE), [lff EXCEPT !.entry[n] = m])
AddExcludesUnchecked(n, m) ==
    Record(lff.excluded[n] = None /\ Resolves(n, FALSE), [lff EXCEPT !.excluded[n] = m])

AddGuardedBy(n, m) ==
    Record(Acceptable(n, m, FALSE), [lff EXCEPT !.entry[n] = m, !.exit[n] = m])
AddAcquires(n, m) == Record(Acceptable(n, m, TRUE), [lff EXCEPT !.exit[n] = m])
AddReleases(n, m) == Record(Acceptable(n, m, FALSE), [lff EXCEPT !.entry[n] = m])
AddExcludes(n, m) ==
    Record(/\ lff.excluded[n] = None
           /\ ~(lff.entry[n] # None /\ Satisfies(lff.entry[n], m))
           /\ Resolves(n, FALSE),
           [lff EXCEPT !.excluded[n] = m])
AddIgnore == Record(~lff.ignore, [lff EXCEPT !.ignore = TRUE])

\* fillLockGuardFacts: a guard of a field is demanded in the mode of the access.
AddFieldGuard(n) ==
    /\ Reading("field") /\ n \notin guards /\ Resolves(n, FALSE)
    /\ guards' = guards \cup {n}
    /\ UNCHANGED <<sort, use, lff, line, held, todo, wants, raised, said, crashed>>

-----------------------------------------------------------------------------
Matches(m, w) == w[1] \in {Anything, m[1]} /\ w[2] \in {Anything, m[2]}
FirstOf(expected, m) == SelectInSeq(expected, LAMBDA w : Matches(m, w))

\* Mutant: the exemption is looked at before the expectations.
ConsiderExemptFirst(m) ==
    LET i == FirstOf(wants, m) IN
    /\ raised' = raised \cup {m}
    /\ wants' = IF i = 0 \/ site.exempt THEN wants ELSE RemoveAt(wants, i)
    /\ said' = IF i = 0 /\ ~site.exempt THEN said \cup {m} ELSE said

\* consider: the first expectation that the message contains is met by it; then
\* the line may be exempt.
Consider(m) ==
    LET i == FirstOf(wants, m) IN
    /\ raised' = raised \cup {m}
    /\ wants' = IF i = 0 THEN wants ELSE RemoveAt(wants, i)
    /\ said' = IF i = 0 /\ ~site.exempt THEN said \cup {m} ELSE said
Quiet == UNCHANGED <<wants, raised, said>>

\* The callee's ignore counts like the caller's (checkCall: nlff.Ignore || lff.Ignore).
Ignored == site.ignored \/ lff.ignore
Fail(m) == IF site.force \/ Ignored THEN Quiet ELSE Consider(m)

\* The loops of checkFunctionCall and postFunctionCallUpdate, and of checkGuards.
Loops == <<"excluded", "required", "release", "acquire", "access", "primitive">>
Names(loop, s) ==
    CASE loop = "excluded" -> {n \in Name : lff.excluded[n] # None}
      [] loop = "required" -> {n \in Name : lff.entry[n] # None}
      [] loop = "release"  -> {n \in Name : lff.entry[n] # None /\ lff.exit[n] = None}
      [] loop = "acquire"  -> {n \in Name : lff.exit[n] # None /\ lff.entry[n] = None}
      [] loop = "primitive" -> {}
      [] loop = "access"   -> IF s.ignored \/ s.fresh # {} THEN {} ELSE guards
Iterations(s) == UNION {{loop} \X Names(loop, s) : loop \in Range(Loops)}

\* One more iteration of the loop: every name of the loops before it is done.
Iterate(i, n) ==
    /\ <<Loops[i], n>> \in todo
    /\ ~crashed
    /\ \A j \in 1 .. i - 1, k \in Name : <<Loops[j], k>> \notin todo
    /\ todo' = todo \ {<<Loops[i], n>>}

\* What a name resolves to: no value for a result nobody extracts, "unavailable"
\* for a global that is not visible in this package.
Valid(n) == n \notin site.absent
Unavailable(n) == ~Valid(n) /\ sort[n].place = "global"

HoldIfFree(l, m) == IF held[l] = "free" THEN [held EXCEPT ![l] = m] ELSE held

\* lockField and isHeld panic on a value that is not valid.
Resolved(n, effect) ==
    \/ Unavailable(n) /\ Quiet /\ UNCHANGED <<held, crashed>>
    \/ ~Unavailable(n) /\ ~Valid(n) /\ crashed' = TRUE /\ Quiet /\ UNCHANGED held
    \/ Valid(n) /\ effect /\ UNCHANGED crashed

CheckExcluded(n) ==
    /\ Iterate(1, n)
    /\ Resolved(n, /\ IF Satisfies(held[bind[n]], lff.excluded[n])
                      THEN Fail(<<"excluded", n>>) ELSE Quiet
                   /\ UNCHANGED held)
    /\ UNCHANGED <<decl, line>>

\* Mutant: a lock held in any mode will do.
CheckRequiredAnyMode(n) ==
    /\ Iterate(2, n)
    /\ Resolved(n, /\ IF held[bind[n]] = "free" THEN Fail(<<"required", n>>) ELSE Quiet
                   /\ UNCHANGED held)
    /\ UNCHANGED <<decl, line>>

\* Where the failure may not be said the lock is taken, unless it is held already.
CheckRequired(n) ==
    /\ Iterate(2, n)
    /\ Resolved(n,
         LET l == bind[n] IN
         IF n \in site.fresh \/ Satisfies(held[l], lff.entry[n])
         THEN Quiet /\ UNCHANGED held
         ELSE /\ Fail(<<"required", n>>)
              /\ held' = IF site.force \/ Ignored THEN HoldIfFree(l, lff.entry[n]) ELSE held)
    /\ UNCHANGED <<decl, line>>

\* A name that cannot be resolved is reported, forced or not.
Release(n) ==
    /\ Iterate(3, n)
    /\ IF Valid(n)
       THEN IF held[bind[n]] = lff.entry[n]
            THEN held' = [held EXCEPT ![bind[n]] = "free"] /\ Quiet
            ELSE Fail(<<"release", n>>) /\ UNCHANGED held
       ELSE /\ IF Unavailable(n) THEN Quiet ELSE Consider(<<"unresolved", n>>)
            /\ UNCHANGED held
    /\ UNCHANGED <<decl, line, crashed>>

Acquire(n) ==
    /\ Iterate(4, n)
    /\ Resolved(n, /\ IF held[bind[n]] = "free" THEN Quiet ELSE Fail(<<"acquire", n>>)
                   /\ held' = HoldIfFree(bind[n], lff.exit[n]))
    /\ UNCHANGED <<decl, line>>

\* checkGuards, for a field without an atomic disposition.  A force takes the lock
\* for writing.
CheckGuards(n) ==
    /\ Iterate(5, n)
    /\ IF Unavailable(n) \/ Satisfies(held[bind[n]], site.access)
       THEN Quiet /\ UNCHANGED held
       ELSE IF site.force THEN held' = HoldIfFree(bind[n], "write") /\ Quiet
                          ELSE Consider(<<"access", n>>) /\ UNCHANGED held
    /\ UNCHANGED <<decl, line, crashed>>

-----------------------------------------------------------------------------
Init == /\ sort \in Sort /\ use \in {"function", "field", "primitive"}
        /\ lff = NoFacts /\ guards = {}
        /\ site = None /\ bind = None /\ before = None /\ held = None
        /\ todo = {} /\ wants = <<>> /\ raised = {} /\ said = {} /\ crashed = FALSE

\* The walk reaches a line that uses the declaration.
Reach(s, b, h) ==
    /\ site = None /\ \A n \in s.absent : sort[n].place \in {"result", "global"}
    /\ site' = s /\ bind' = b /\ before' = h /\ held' = h /\ wants' = s.wants
    /\ UNCHANGED <<decl, raised, said, crashed>>

\* Mutant: the loop over the names to acquire does not skip the required ones.
UseReacquires(s, b, h) ==
    /\ use # "primitive" /\ Reach(s, b, h)
    /\ todo' = Iterations(s) \cup ({"acquire"} \X {n \in Name : lff.exit[n] # None})

\* A call of the function, or an access of the field.
Use(s, b, h) == use # "primitive" /\ Reach(s, b, h) /\ todo' = Iterations(s)

\* A call of a method of the lock that n reaches.
UsePrimitive(s, b, h, n) ==
    use = "primitive" /\ Reach(s, b, h) /\ todo' = {<<"primitive", n>>}

\* The methods of a lock: the mode each demands and the one it leaves.
Methods == {<<"free", "write">>, <<"free", "read">>, <<"write", "free">>, <<"read", "free">>,
            <<"write", "read">>}

\* The last part of checkFunctionCall.
CallPrimitive(n, method) ==
    /\ Iterate(6, n)
    /\ IF held[bind[n]] = method[1]
       THEN held' = [held EXCEPT ![bind[n]] = method[2]] /\ Quiet
       ELSE Fail(<<"primitive", n>>) /\ UNCHANGED held
    /\ UNCHANGED <<decl, line, crashed>>

Checked == site # None /\ todo = {} /\ ~crashed
Stopped == (Checked \/ crashed) /\ UNCHANGED vars

Next ==
    \/ AddIgnore
    \/ \E n \in Name, m \in Mode : \/ AddGuardedBy(n, m) \/ AddAcquires(n, m)
                                  \/ AddReleases(n, m) \/ AddExcludes(n, m)
    \/ \E n \in Name : AddFieldGuard(n)
    \/ \E s \in Site, b \in [Name -> Lock], h \in [Lock -> Mode \cup {"free"}] :
          Use(s, b, h) \/ \E n \in Name : UsePrimitive(s, b, h, n)
    \/ \E n \in Name : \/ CheckExcluded(n) \/ CheckRequired(n) \/ Release(n) \/ Acquire(n)
                      \/ CheckGuards(n)
                      \/ \E method \in Methods : CallPrimitive(n, method)
    \/ Stopped

Spec == Init /\ [][Next]_vars

-----------------------------------------------------------------------------
\* Every name in the facts stands for a lock, and one read for an RWMutex.
TypeOK ==
    /\ sort \in Sort /\ use \in {"function", "field", "primitive"}
    /\ lff \in Facts /\ guards \subseteq Name
    /\ \A n \in Name : \/ {lff.entry[n], lff.exit[n], lff.excluded[n]} = {None} /\ n \notin guards
                      \/ /\ sort[n].kind # "other"
                         /\ "read" \in {lff.entry[n], lff.exit[n]} => sort[n].kind = "RWMutex"
    /\ site \in Site \cup {None}
    /\ site # None => /\ bind \in [Name -> Lock]
                      /\ before \in [Lock -> Mode \cup {"free"}] /\ held \in [Lock -> Mode \cup {"free"}]
    /\ todo \subseteq Range(Loops) \X Name /\ wants \in Seq(Want)
    /\ said \subseteq raised /\ raised \subseteq Message /\ crashed \in BOOLEAN

Released(n) == lff.entry[n] # None /\ lff.exit[n] = None /\ ~Unavailable(n)
Acquired(n) == lff.exit[n] # None /\ lff.entry[n] = None /\ ~Unavailable(n)

\* What the facts demand of the locks "h" of the caller, where b is what the names
\* reach: an acquired lock is free, or is the one that another name releases.
Met(f, b, h, given) ==
    \A n \in given :
        /\ f.excluded[n] # None => ~Satisfies(h[b[n]], f.excluded[n])
        /\ f.entry[n] # None => IF f.exit[n] = None THEN h[b[n]] = f.entry[n]
                                                  ELSE Satisfies(h[b[n]], f.entry[n])
        /\ f.exit[n] # None /\ f.entry[n] = None =>
               \/ h[b[n]] = "free"
               \/ \E k \in given : b[k] = b[n] /\ f.entry[k] # None /\ f.exit[k] = None

\* The annotations that are accepted, in whatever order they are written, never
\* contradict each other: for some caller a call is in order (checkGuard and
\* addExcludes, which look at each other's maps).
FactsAreCallable ==
    site = None => \E h \in [Name -> Mode \cup {"free"}] : Met(lff, [n \in Name |-> n], h, Name)

\* isHeld and lockField are given what their preconditions demand (state.go:127,148),
\* except that a lock acquired in a result has no value where nobody extracts it:
\* a requirement or an exclusion always resolves, because checkGuard refused a result.
PanicsOnlyOnDiscard ==
    crashed => \E n \in site.absent : Acquired(n) /\ sort[n].place = "result"

Strict == ~site.force /\ ~Ignored /\ site.fresh = {}
Given == Name \ site.absent
Mine == Checked /\ use = "function"

\* A call that raises nothing keeps the contract, two names of one lock included,
\* and leaves the locks as the contract says, whatever order the maps were walked in.
SilenceKeepsContract ==
    Mine /\ Strict /\ raised = {} =>
        /\ Met(lff, bind, before, Given)
        /\ \A l \in Lock :
             LET to == {n \in Given : bind[n] = l} IN
             \/ \E n \in to : Acquired(n) /\ held[l] = lff.exit[n]
             \/ ~(\E n \in to : Acquired(n)) /\ held[l] =
                    IF \E n \in to : Released(n) THEN "free" ELSE before[l]

\* A call that keeps the contract, its names on different locks, raises nothing.
ContractIsSilent ==
    Mine /\ Strict /\ Met(lff, bind, before, Given) /\ IsInjective(bind) => raised = {}

\* Where no message contains two different expectations of the line, whether they
\* are met does not depend on the order of the messages: the line is settled iff
\* each expectation has a message of its own and no other message is left over.
Ambiguous == \E m \in raised : \E v, w \in Range(site.wants) : v # w /\ Matches(m, v) /\ Matches(m, w)
LineIsSettled ==
    Checked /\ ~Ambiguous =>
        (said = {} /\ wants = <<>> <=>
            \E f \in [DOMAIN site.wants -> raised] :
                /\ IsInjective(f) /\ \A i \in DOMAIN f : Matches(f[i], site.wants[i])
                /\ Range(f) = raised \/ site.exempt)

\* A forced line makes what it asserts true (README.md:495-497), for a lock that
\* is free: the locks it demands are held after it, unless the call releases them.
ForcedIsHeld ==
    Checked /\ site.force /\ site.fresh = {} =>
        \A n \in Given : /\ (lff.entry[n] # None \/ n \in guards) /\ ~(n \in guards /\ site.ignored)
                          /\ ~\E k \in Given : bind[k] = bind[n] /\ Released(k)
                         => held[bind[n]] # "free"

\* "Note that the other annotations can still be applied to the function, which
\* will enforce assertions in caller analysis" (README.md:482-483): the contract
\* of a function is enforced on its callers, though it is ignored itself.
IgnoredIsEnforced ==
    Mine /\ ~site.force /\ ~site.ignored /\ site.fresh = {} /\ raised = {} =>
        Met(lff, bind, before, Given)
=============================================================================
