--------------------------- MODULE KconfigSession ---------------------------
(***************************************************************************)
(* A program that uses the Kconfiglib classes: it reads attributes of      *)
(* symbols and choices and sets and unsets user values in any order, on    *)
(* one of the configurations in Trees.                                     *)
(***************************************************************************)
EXTENDS KconfigCache, DepLoop

LOCAL INSTANCE SequencesExt

CONSTANTS Values,       \* the values a caller passes to set_value
          Used,         \* the symbols and choices it reads
          Settable      \* and those it sets

VARIABLES st,           \* the configuration
          phase         \* "check", "use" or "refused"

vars == <<graph, visited, stack, loop, st, phase>>

Syms == DOMAIN st.tree.sym
Chos == DOMAIN st.tree.cho


\* The end of Kconfig.__init__: the configuration is parsed and finalized, its dependents are known.
InitFrom(tree) ==
    /\ st = NewState(tree, build_dep(tree))
    /\ phase = "check"
    /\ LoopInit([dep |-> st.dependents,
                 members |-> [c \in DOMAIN tree.cho |-> ToSet(tree.cho[c].syms)]])

CheckLoops == phase = "check" /\ LoopNext /\ UNCHANGED <<st, phase>>

Refuse == phase = "check" /\ LoopFound /\ phase' = "refused" /\ UNCHANGED <<loopVars, st>>

Accept ==
    /\ phase = "check" /\ Clean /\ phase' = "use"
    /\ st' = Ready(st)
    /\ UNCHANGED loopVars

----------------------------------------------------------------------------

Step(new) == phase = "use" /\ st' = (IF new = st THEN st ELSE Evaluated(new)) /\ UNCHANGED <<loopVars, phase>>

\* What a front end reads of an item it shows: its value, or selection, and what can be assigned.
Read(i) ==
    LET value == <<IF i \in Syms THEN "str" ELSE "selection", i>>
        new == ReadAttribute(ReadAttribute(st, value), <<"assignable", i>>)
    IN phase = "use" /\ new # st /\ st' = new /\ UNCHANGED <<loopVars, phase>>

SetSymbol(s, v) == Step(set_value(st, s, v))
SetChoice(c, v) == Step(choice_set_value(st, c, v))
UnsetSymbol(s)  == Step(unset_value(st, s))
UnsetChoice(c)  == Step(choice_unset_value(st, c))
UnsetAll        == Syms \cap Settable # {} /\ Step(unset_values(st))

Next ==
    \/ CheckLoops \/ Refuse \/ Accept
    \/ \E i \in (Syms \cup Chos) \cap Used : Read(i)
    \/ \E s \in Syms \cap Settable, v \in Values : SetSymbol(s, v)
    \/ \E c \in Chos \cap Settable, v \in Values : SetChoice(c, v)
    \/ \E s \in Syms \cap Settable : UnsetSymbol(s)
    \/ \E c \in Chos \cap Settable : UnsetChoice(c)
    \/ UnsetAll

----------------------------------------------------------------------------
(* Properties.                                                             *)

\* What is read without being declared: a choice may have a default that is none of its symbols, with a
\* warning, and the visibility of that symbol decides on the selection, while _build_dep makes the
\* choice depend on the default's condition alone.
Undeclared ==
    UNION {LET outside == {p \in ToSet(Cho(st, c).defaults) : p[1].name \notin ToSet(Cho(st, c).syms)}
           IN {<<<<"selection", c>>, <<"vis", p[1].name>>>> : p \in outside} : c \in Chos}

\* A cached value is the value that would be computed anew: no sequence of reads and
\* assignments leaves a stale visibility, value, selection or assignable set behind, but for the
\* selection of a choice with such a default.  What depends on that agrees with the one in the cache.
CacheSound ==
    st.cache # << >> =>
    LET stale == {u[1] : u \in Undeclared} \cap DOMAIN st.cache
        now == Evaluated([st EXCEPT !.cache = [p \in stale |-> @[p]]])
    IN \A p \in DOMAIN st.cache : st.cache[p] = Value(now, p)

\* The user values alone decide on the values computed anew, so for what is said of these it is enough
\* to look while nothing is cached, as it is after any assignments that no read comes between.
Anew == phase = "use" /\ st.cache = << >>

\* Whatever the computation of a value reads belongs to the item itself, to an item that lists it
\* as a dependent, or to MODULES: the static dependencies of _build_dep cover the dynamic reads, but for
\* the visibility of a choice's default that is outside the choice.
ReadsAreDeclared ==
    Anew => \A p \in Attributes(st.tree) : \A q \in Reads(st, p) :
        \/ q[2] \in {p[2], "MODULES"}
        \/ p[2] \in st.dependents[q[2]]
        \/ <<p, q>> \in Undeclared

\* A symbol that is selected or implied to y although its choice is in m mode.
RaisedInM(s) ==
    /\ InChoice(st, s) /\ Tri(st, Sym(st, s).choice) = 1
    /\ ExprValue(st, Sym(st, s).rev_dep) = 2 \/ ExprValue(st, Sym(st, s).weak_rev_dep) = 2

\* A value offered in 'assignable' is the value the symbol or choice has once it is assigned, but for a
\* y that is offered where only m can be had, in a symbol that is raised in m mode.
AssignableTakesEffect ==
    Anew =>
    /\ \A s \in Syms : \A v \in Value(st, <<"assignable", s>>) :
          Tri(Evaluated(set_value(st, s, v)), s) = (IF RaisedInM(s) THEN min(v, 1) ELSE v)
    /\ \A c \in Chos : \A v \in Value(st, <<"assignable", c>>) :
          Tri(Evaluated(choice_set_value(st, c, v)), c) = v

\* A choice in y mode has its selection at y and all other symbols at n, and a selection if a symbol
\* is visible, which is one of its own but for a visible default outside the choice; one in m mode has no
\* symbol at y; a hidden choice has all its symbols at n.
ChoiceConsistent ==
    Anew =>
    \A c \in Chos :
        LET syms == ToSet(Cho(st, c).syms)
            selected == Value(st, <<"selection", c>>)
        IN CASE Tri(st, c) = 2 -> /\ \A s \in syms : Tri(st, s) = (IF s = selected THEN 2 ELSE 0)
                                  /\ (\E s \in syms : Vis(st, s) # 0) =>
                                       \/ selected \in syms
                                       \/ /\ <<<<"selection", c>>, <<"vis", selected>>>> \in Undeclared
                                          /\ Vis(st, selected) # 0
             [] Tri(st, c) = 1 -> \A s \in syms : Tri(st, s) # 2
             [] Tri(st, c) = 0 -> \A s \in syms : Tri(st, s) = 0

\* The values that may lift a bool or tristate symbol from n: what selects it, and either the user's
\* value, as far as it is visible, or a default or, where its dependencies hold, an imply.
Lifts(s) ==
    {0, ExprValue(st, Sym(st, s).rev_dep)} \cup
    (IF Vis(st, s) # 0 /\ st.user[s] # None
     THEN {min(st.user[s], Vis(st, s))}
     ELSE {min(ExprValue(st, p[1]), ExprValue(st, p[2])) : p \in ToSet(Sym(st, s).defaults)} \cup
          (IF ExprValue(st, Sym(st, s).direct_dep) = 0 THEN {} ELSE {ExprValue(st, Sym(st, s).weak_rev_dep)}))

\* The user's value of a hidden symbol has no effect on it.  A symbol outside choices is never above
\* what lifts it, but for an m that is a y where m cannot be had, never below what selects it, and n
\* without dependencies that hold unless it is selected.  A number is inside the range in force.
WithinBounds ==
    Anew =>
    \A s \in Syms :
        /\ Vis(st, s) = 0 => Str(Evaluated([st EXCEPT !.user[s] = None]), s) = Str(st, s)
        /\ OrigType(st, s) \in BoolTristate /\ ~InChoice(st, s)
              => /\ \E v \in Lifts(s) :
                       \/ Tri(st, s) <= v
                       \/ v = 1 /\ (type(st, s) = "bool" \/ ExprValue(st, Sym(st, s).weak_rev_dep) = 2)
                 /\ Tri(st, s) >= ExprValue(st, Sym(st, s).rev_dep)
                 /\ type(st, s) = "bool" => Tri(st, s) # 1
                 /\ ExprValue(st, Sym(st, s).direct_dep) = 0
                      => Tri(st, s) = 0 \/ ExprValue(st, Sym(st, s).rev_dep) # 0
        /\ OrigType(st, s) \in IntHex /\ ActiveRange(st, s) # << >>
              => LET r == ActiveRange(st, s)
                     number == IF Str(st, s) = Empty THEN 0 ELSE Str(st, s)
                 IN r[1] <= r[2] => InRange(number, r)
=============================================================================
