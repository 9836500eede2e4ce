---------------------------- MODULE KconfigTools ----------------------------
(***************************************************************************)
(* The scripts beside kconfiglib.py: what alldefconfig, allnoconfig,       *)
(* allyesconfig, allmodconfig and setconfig make of a configuration, what  *)
(* listnewconfig lists, and what oldconfig asks for and does with answers. *)
(***************************************************************************)
EXTENDS KconfigLines
LOCAL INSTANCE SequencesExt

assignable(s0, s) == Value(s0, <<"assignable", s>>)

----------------------------------------------------------------------------
(* Every symbol at once.  Symbols that are neither bool nor tristate       *)
(* refuse n, m and y.                                                      *)

SetAll(s0, syms, Val(_)) ==
    LET settable == SelectSeq(syms, LAMBDA s : OrigType(s0, s) \in BoolTristate)
    IN FoldLeft(LAMBDA a, s : set_value(a, s, Val(s)), s0, settable)
SetChoices(s0, Val(_)) ==
    FoldLeft(LAMBDA a, c : choice_set_value(a, c, Val(c)), s0, SetToSeq(DOMAIN s0.tree.cho))

allnoconfig(s0) == Evaluated(SetAll(s0, unique_defined_syms(s0.tree), LAMBDA s : 0))

\* The symbols of a choice are set to m, which is the highest they can get in a choice in m mode.
allyesconfig(s0) ==
    Evaluated(SetChoices(SetAll(s0, unique_defined_syms(s0.tree), LAMBDA s : IF InChoice(s0, s) THEN 1 ELSE 2),
                         LAMBDA c : 2))

\* A mutant: bool symbols are set to m like the others, which they refuse.
allmodconfig_AllM(s0) == Evaluated(SetAll(s0, unique_defined_syms(s0.tree), LAMBDA s : 1))

\* The bool symbols of a choice are left to its defaults.
allmodconfig(s0) ==
    LET Bool(i) == OrigType(s0, i) = "bool"
        syms == SelectSeq(unique_defined_syms(s0.tree), LAMBDA s : ~(Bool(s) /\ InChoice(s0, s)))
    IN Evaluated(SetChoices(SetAll(s0, syms, LAMBDA s : IF Bool(s) THEN 2 ELSE 1),
                            LAMBDA c : IF Bool(c) THEN 2 ELSE 1))

\* One assignment of setconfig.  The symbol must exist, unless that is not to be checked, its type must
\* take the value, and the value must take effect, unless that is not to be checked; acc has the
\* configuration and whether all went well so far.
Assign(acc, name, value, checkExists, checkValue) ==
    IF name \notin DOMAIN acc.st.tree.sym THEN [acc EXCEPT !.ok = @ /\ ~checkExists]
    ELSE IF ~ValidFor(OrigType(acc.st, name), value) THEN [acc EXCEPT !.ok = FALSE]
    ELSE LET new == Evaluated(set_value(acc.st, name, value))
         IN [st |-> new, ok |-> acc.ok /\ (checkValue => Str(new, name) = value)]
setconfig(s0, assignments, checkExists, checkValue) ==
    FoldLeft(LAMBDA acc, a : Assign(acc, a[1], a[2], checkExists, checkValue), [st |-> s0, ok |-> TRUE], assignments)

----------------------------------------------------------------------------
(* New symbols.                                                            *)

\* listnewconfig.
IsNew(s0, s) ==
    /\ s0.user[s] = None
    /\ \/ Cardinality(assignable(s0, s)) > 1
       \/ Vis(s0, s) # 0 /\ (OrigType(s0, s) \in IntHex \cup {"string"} \/ InChoice(s0, s))
listnewconfig(s0) == {s \in defined_syms(s0.tree) : IsNew(s0, s)}

AsksSymbol(s0, s) ==
    /\ s0.user[s] = None /\ Cardinality(assignable(s0, s)) # 1
    /\ ~(InChoice(s0, s) /\ Tri(s0, Sym(s0, s).choice) = 2)

\* The choice symbols that can be picked.
options(s0, c) == {s \in ToSet(Cho(s0, c).syms) : Vis(s0, s) = 2}

AsksChoice(s0, c) ==
    LET selected == s0.selected[c]
        new == {s \in ToSet(Cho(s0, c).syms) \ {selected} : Vis(s0, s) # 0 /\ s0.user[s] = None}
    IN /\ options(s0, c) # {}
       /\ ~(selected # NoSym /\ Vis(s0, selected) = 2 /\ new = {})

\* Whether oldconfig asks at a node.
Asks(s0, node) ==
    /\ node.kind \in {"sym", "choice"} /\ node.prompt # << >>
    /\ Vis(s0, node.item) # 0
    /\ IF node.kind = "sym" THEN AsksSymbol(s0, node.item) ELSE AsksChoice(s0, node.item)

\* The next node at which it asks, 0 if there is none.
NextAsked(s0, at) ==
    SelectInSubSeq(s0.tree.node, at, Len(s0.tree.node), LAMBDA node : Asks(s0, node))

\* The values it accepts; an empty answer stands for the value the symbol has.
Answers(s0, s, values) == {v \in values \cup {Str(s0, s)} : ValidFor(OrigType(s0, s), v)}

\* A symbol of a choice is picked, by number or as the default; the others that can be seen are set to n.
Picked(s0, c, s) ==
    LET Others(new) == SelectSeq(Cho(s0, c).syms, LAMBDA o : o # s /\ Vis(new, o) # 0)
        Unpicked(new) == FoldLeft(LAMBDA a, o : set_value(a, o, 0), new, Others(new))
    IN Evaluated(Unpicked(Evaluated(set_value(s0, s, 2))))
=============================================================================
