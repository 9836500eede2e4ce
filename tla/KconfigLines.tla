---------------------------- MODULE KconfigLines ----------------------------
(***************************************************************************)
(* What kconfiglib.py writes to a configuration file, a minimal one, and   *)
(* auto.conf and the C header, and what loading a configuration does.      *)
(* A file of assignments is a sequence of pairs <<name, value>>.           *)
(***************************************************************************)
EXTENDS KconfigCache
LOCAL INSTANCE SequencesExt

----------------------------------------------------------------------------
(* Which symbols are written, and how.                                     *)

defined_syms(t) == {s \in DOMAIN t.sym : t.sym[s].nodes # << >>}

\* In the order of the first definition of each.
unique_defined_syms(t) ==
    LET first == SelectSeq([x \in DOMAIN t.node |-> x],
                   LAMBDA x : t.node[x].kind = "sym" /\ x = t.sym[t.node[x].item].nodes[1])
    IN [i \in DOMAIN first |-> t.node[first[i]].item]

\* _write_to_conf, as the computation of the value sets it: the symbol is visible, or has its value
\* from a default, an imply or a select.
write_to_conf(s0, s) ==
    LET x == Sym(s0, s)
        i == Active(s0, x.defaults)
        user == Vis(s0, s) # 0 /\ s0.user[s] # None
        inRange == s0.user[s] # Empty /\ InRange(s0.user[s], ActiveRange(s0, s))
    IN \/ x.type # "unknown" /\ Vis(s0, s) # 0
       \/ /\ x.type \in BoolTristate /\ ~InChoice(s0, s)
          /\ \/ ExprValue(s0, x.rev_dep) # 0
             \/ ~user /\ i # 0 /\ min(ExprValue(s0, x.defaults[i][1]), ExprValue(s0, x.defaults[i][2])) # 0
             \/ ~user /\ ExprValue(s0, x.weak_rev_dep) # 0 /\ ExprValue(s0, x.direct_dep) # 0
       \/ x.type \in IntHex /\ ~(user /\ inRange) /\ i # 0
       \/ x.type = "string" /\ ~user /\ i # 0

Written(s0) == SelectSeq(unique_defined_syms(s0.tree), LAMBDA s : write_to_conf(s0, s))
Assignments(s0, syms) == [i \in DOMAIN syms |-> <<syms[i], Str(s0, syms[i])>>]

\* A bool or tristate symbol that is n has no line in the header and in auto.conf.
NotN(s0, syms) == SelectSeq(syms, LAMBDA s : ~(OrigType(s0, s) \in BoolTristate /\ Tri(s0, s) = 0))

\* A mutant: "is not set" lines are left out, as in the header.
_config_contents_NotN(s0) == Assignments(s0, NotN(s0, Written(s0)))

_config_contents(s0) == Assignments(s0, Written(s0))
_autoconf_contents(s0) == Assignments(s0, NotN(s0, Written(s0)))
_old_vals_contents(s0) == Assignments(s0, NotN(s0, Written(s0)))

\* The value from defaults alone, taken to be what the symbol has without a user value.
_str_default(s0, s) ==
    LET x == Sym(s0, s)
        i == Active(s0, x.defaults)
        default == IF i = 0 THEN 0 ELSE min(ExprValue(s0, x.defaults[i][1]), ExprValue(s0, x.defaults[i][2]))
        val == max(max(ExprValue(s0, x.rev_dep), ExprValue(s0, x.weak_rev_dep)), default)
    IN CASE x.type \in BoolTristate ->
              IF InChoice(s0, s) THEN 0 ELSE IF val = 1 /\ type(s0, s) = "bool" THEN 2 ELSE val
         [] x.type = "unknown" -> Empty
         [] OTHER -> IF i = 0 THEN Empty ELSE StrOf(s0, x.defaults[i][1])

_selection_from_defaults(s0, c) ==
    LET defaults == SelectInSeq(Cho(s0, c).defaults,
                      LAMBDA p : ExprValue(s0, p[2]) # 0 /\ Vis(s0, p[1].name) # 0)
        first == SelectInSeq(Cho(s0, c).syms, LAMBDA s : Vis(s0, s) # 0)
    IN IF defaults # 0 THEN Cho(s0, c).defaults[defaults][1].name
       ELSE IF first # 0 THEN Cho(s0, c).syms[first] ELSE NoSym

\* What cannot be changed and what defaults would give anyway is left out.
_min_config_contents(s0) ==
    LET Fixed(s) == ~InChoice(s0, s) /\ Vis(s0, s) <= ExprValue(s0, Sym(s0, s).rev_dep)
        BySelection(s) == /\ InChoice(s0, s) /\ ~Cho(s0, Sym(s0, s).choice).optional
                          /\ _selection_from_defaults(s0, Sym(s0, s).choice) = s
                          /\ OrigType(s0, s) = "bool" /\ Tri(s0, s) = 2
    IN Assignments(s0, SelectSeq(Written(s0),
                           LAMBDA s : ~Fixed(s) /\ Str(s0, s) # _str_default(s0, s) /\ ~BySelection(s)))

----------------------------------------------------------------------------
(* Loading.                                                                *)

\* One line of a configuration; acc has the configuration and what was set (_was_set).  The mode of a
\* choice is set to what a symbol of it is set to, if that is not n.
load_line(acc, line) ==
    LET s == line[1]
        v == line[2]
        c == Sym(acc.st, s).choice
        mode == InChoice(acc.st, s) /\ v # 0
        moded == IF mode THEN choice_set_value(acc.st, c, v) ELSE acc.st
        set == (IF ValidFor(OrigType(acc.st, s), v) THEN {s} ELSE {})
                \cup (IF mode /\ ValidFor(OrigType(acc.st, c), v) THEN {c} ELSE {})
                \cup (IF mode /\ v = 2 THEN {c} ELSE {})
    IN IF s \notin defined_syms(acc.st.tree)
          \/ (OrigType(acc.st, s) \in BoolTristate /\ ~ValidFor(OrigType(acc.st, s), v)) THEN acc
       ELSE [st |-> set_value(moded, s, v), set |-> acc.set \cup set]

\* A mutant: what the file does not set is unset before it is loaded, but for the choices.
_load_config_SymbolsOnly(s0, lines, replace) ==
    LET acc == FoldLeft(load_line, [st |-> s0, set |-> {}], lines)
        syms == SelectSeq(unique_defined_syms(s0.tree), LAMBDA s : s \notin acc.set)
    IN Evaluated(IF replace THEN FoldLeft(unset_value, acc.st, syms) ELSE acc.st)

\* With 'replace', the symbols and choices that the file did not set are unset afterwards.
_load_config(s0, lines, replace) ==
    LET acc == FoldLeft(load_line, [st |-> s0, set |-> {}], lines)
        syms == SelectSeq(unique_defined_syms(s0.tree), LAMBDA s : s \notin acc.set)
        choices == SetToSeq(DOMAIN s0.tree.cho \ acc.set)
    IN Evaluated(IF replace THEN FoldLeft(choice_unset_value, FoldLeft(unset_value, acc.st, syms), choices)
                 ELSE acc.st)

----------------------------------------------------------------------------
(* What properties of files are stated with.                               *)

Unset(s0) == [s0 EXCEPT !.user = [i \in DOMAIN @ |-> None], !.selected = [c \in DOMAIN @ |-> NoSym]]
SymValues(s0) == [s \in defined_syms(s0.tree) |-> Str(s0, s)]

\* A default may lie above a visibility of m, where a user value cannot.
Overshoots(s0, s) ==
    /\ OrigType(s0, s) \in BoolTristate /\ ~InChoice(s0, s)
    /\ Vis(s0, s) # 0 /\ Tri(s0, s) > Vis(s0, s) /\ ExprValue(s0, Sym(s0, s).rev_dep) < Tri(s0, s)
    /\ ExprValue(s0, Sym(s0, s).weak_rev_dep) # 2

\* A choice with a bool symbol, for which the minimal configuration has no line although only its line
\* says that the choice is in y mode.
ModeUnsaid(s0, c) ==
    /\ Cho(s0, c).type = "tristate" /\ ~Cho(s0, c).optional /\ Tri(s0, c) = 2
    /\ Value(s0, <<"selection", c>>) = _selection_from_defaults(s0, c)
    /\ \E s \in ToSet(Cho(s0, c).syms) : OrigType(s0, s) = "bool"
=============================================================================
