--------------------------- MODULE KconfigValues ---------------------------
(***************************************************************************)
(* The values of symbols and choices, as kconfiglib.py computes them on    *)
(* demand, caches them, and throws caches away when a user value changes.  *)
(*                                                                         *)
(* A state of the configuration is a record st: the finalized tree, its    *)
(* dependents, the user values, the user selections of the choices, the    *)
(* cache, and st.val, what reading an attribute gives.  An attribute of an *)
(* item is a pair: <<"tri", i>>, <<"vis", i>>, <<"assignable", i>>,        *)
(* <<"str", s>> or <<"selection", c>>.  The code computes an attribute     *)
(* when it is read, and first what it is computed from; here all are       *)
(* computed one after the other, each after what it is computed from.      *)
(***************************************************************************)
EXTENDS KconfigMenu, TLC
LOCAL INSTANCE SequencesExt

None == -2
NoSym == "-"
NameString == 99        \* an undefined symbol has its name for a value, after all numbers

BoolTristate == {"bool", "tristate"}
IntHex == {"int", "hex"}

IsSym(st, i) == i \in DOMAIN st.tree.sym
Sym(st, s) == st.tree.sym[s]
Cho(st, c) == st.tree.cho[c]
OrigType(st, i) == IF IsSym(st, i) THEN Sym(st, i).type ELSE Cho(st, i).type
InChoice(st, s) == Sym(st, s).choice # NoChoice
PromptsOf(st, i) == Prompts(st.tree, IF IsSym(st, i) THEN Sym(st, i).nodes ELSE Cho(st, i).nodes)

Value(st, p) == st.val[p]
Tri(st, i) == Value(st, <<"tri", i>>)
Str(st, i) == Value(st, <<"str", i>>)
Vis(st, i) == Value(st, <<"vis", i>>)

RECURSIVE ExprValue(_, _)

\* A tristate item counts as a bool while modules are off, and in a choice in y mode.
type(st, i) ==
    IF OrigType(st, i) = "tristate"
       /\ \/ IsSym(st, i) /\ InChoice(st, i) /\ Tri(st, Sym(st, i).choice) = 2
          \/ Tri(st, "MODULES") = 0
    THEN "bool" ELSE OrigType(st, i)

\* A symbol or constant as an operand of a relation.
sym_to_num(st, e) ==
    CASE ~IsItem(e) -> e.str
      [] IsItem(e) /\ OrigType(st, e.name) \in BoolTristate -> Tri(st, e.name)
      [] OTHER -> Str(st, e.name)

ExprValue(st, e) ==
    CASE e.op = "item"  -> Tri(st, e.name)
      [] e.op = "const" -> e.tri
      [] e.op = "and"   -> IF ExprValue(st, e.l) = 0 THEN 0
                           ELSE min(ExprValue(st, e.l), ExprValue(st, e.r))
      [] e.op = "or"    -> IF ExprValue(st, e.l) = 2 THEN 2
                           ELSE max(ExprValue(st, e.l), ExprValue(st, e.r))
      [] e.op = "not"   -> 2 - ExprValue(st, e.l)
      [] OTHER -> IF Holds(e.op, sym_to_num(st, e.l), sym_to_num(st, e.r)) THEN 2 ELSE 0

StrOf(st, e) == IF IsItem(e) THEN Str(st, e.name) ELSE e.str

\* The position of the first property whose condition holds, 0 if there is none.
Active(st, props) ==
    SelectInSeq(props, LAMBDA p : ExprValue(st, p[Len(p)]) # 0)

\* That property, << >> if there is none.
InForce(st, props) == LET at(i) == IF i = 0 THEN << >> ELSE props[i] IN at(Active(st, props))

----------------------------------------------------------------------------
(* The attributes.                                                         *)

visibility(st, i) ==
    LET shown == {ExprValue(st, PromptsOf(st, i)[k]) : k \in DOMAIN PromptsOf(st, i)}
        vis == IF shown = {} THEN 0 ELSE CHOOSE v \in shown : \A w \in shown : w <= v
        hidden == /\ IsSym(st, i) /\ InChoice(st, i)
                  /\ LET c == Sym(st, i).choice IN
                     \/ OrigType(st, c) = "tristate" /\ OrigType(st, i) # "tristate" /\ Tri(st, c) # 2
                     \/ OrigType(st, i) = "tristate" /\ vis = 1 /\ Tri(st, c) = 2
    IN IF hidden THEN 0 ELSE IF vis = 1 /\ type(st, i) # "tristate" THEN 2 ELSE vis

\* The value of the default that is in force, if there is one; the condition is an upper bound.
DefaultTri(st, default) ==
    IF default = << >> THEN 0 ELSE min(ExprValue(st, default[1]), ExprValue(st, default[2]))

\* A mutant: the visibility is no upper bound on the user's value.
Unselected_Unbound(st, s) ==
    LET default == DefaultTri(st, InForce(st, Sym(st, s).defaults))
        implied == IF ExprValue(st, Sym(st, s).direct_dep) = 0 THEN 0 ELSE ExprValue(st, Sym(st, s).weak_rev_dep)
    IN IF Vis(st, s) # 0 /\ st.user[s] # None THEN st.user[s] ELSE max(implied, default)

\* The value of a symbol outside choices before selects, and with them.
Unselected(st, s) ==
    LET default == DefaultTri(st, InForce(st, Sym(st, s).defaults))
        implied == IF ExprValue(st, Sym(st, s).direct_dep) = 0 THEN 0 ELSE ExprValue(st, Sym(st, s).weak_rev_dep)
    IN IF Vis(st, s) # 0 /\ st.user[s] # None THEN min(st.user[s], Vis(st, s)) ELSE max(implied, default)

\* m is promoted to y in a symbol that has no m, or is implied to y.
Promoted(st, s, val) ==
    IF val = 1 /\ (type(st, s) = "bool" \/ ExprValue(st, Sym(st, s).weak_rev_dep) = 2) THEN 2 ELSE val

tri_value(st, s) ==
    CASE OrigType(st, s) \notin BoolTristate -> 0
      [] OrigType(st, s) \in BoolTristate /\ ~InChoice(st, s) ->
           Promoted(st, s, max(Unselected(st, s), ExprValue(st, Sym(st, s).rev_dep)))
      [] OTHER ->
           CASE Vis(st, s) = 2 -> IF Value(st, <<"selection", Sym(st, s).choice>>) = s THEN 2 ELSE 0
             [] Vis(st, s) = 1 -> IF st.user[s] \notin {None, 0} THEN 1 ELSE 0
             [] OTHER -> 0

choice_tri_value(st, c) ==
    LET own == IF Cho(st, c).optional THEN 0 ELSE 1
        val == min(IF st.user[c] = None THEN own ELSE max(own, st.user[c]), Vis(st, c))
    IN IF val = 1 /\ type(st, c) = "bool" THEN 2 ELSE val

\* The active range of an int or hex symbol, as a sequence <<low, high>>, empty when there is none.
ActiveRange(st, s) ==
    LET bound(e) == IF StrOf(st, e) = Empty THEN 0 ELSE StrOf(st, e)
        bounds(range) == IF range = << >> THEN << >> ELSE <<bound(range[1]), bound(range[2])>>
    IN bounds(InForce(st, Sym(st, s).ranges))

InRange(k, range) == range = << >> \/ (range[1] <= k /\ k <= range[2])

\* A default outside the range in force is moved to the nearer end of it.
Clamped(default, range) ==
    LET number == IF default = Empty THEN 0 ELSE default IN
    IF InRange(number, range) THEN default ELSE IF number < range[1] THEN range[1] ELSE range[2]

NumberValue(user, default, range) ==
    IF user \notin {None, Empty} /\ InRange(user, range) THEN user ELSE Clamped(default, range)

str_value(st, s) ==
    LET of(default) == IF default = << >> THEN Empty ELSE StrOf(st, default[1])
        default == of(InForce(st, Sym(st, s).defaults))
        user == IF Vis(st, s) = 0 THEN None ELSE st.user[s]
    IN CASE OrigType(st, s) \in BoolTristate -> Tri(st, s)
         [] OrigType(st, s) = "unknown" -> NameString
         [] OrigType(st, s) = "string" -> IF user # None THEN user ELSE default
         [] OrigType(st, s) \in IntHex -> NumberValue(user, default, ActiveRange(st, s))

\* A mutant: the user's selection stands although it is hidden.
selection_Hidden(st, c) ==
    LET first == SelectInSeq(Cho(st, c).syms, LAMBDA s : Vis(st, s) # 0)
    IN IF Tri(st, c) # 2 THEN NoSym
       ELSE IF st.selected[c] # NoSym THEN st.selected[c]
       ELSE IF first # 0 THEN Cho(st, c).syms[first] ELSE NoSym

selection(st, c) ==
    LET defaults == SelectInSeq(Cho(st, c).defaults,
                      LAMBDA p : ExprValue(st, p[2]) # 0 /\ Vis(st, p[1].name) # 0)
        first == SelectInSeq(Cho(st, c).syms, LAMBDA s : Vis(st, s) # 0)
    IN IF Tri(st, c) # 2 THEN NoSym
       ELSE IF st.selected[c] # NoSym /\ Vis(st, st.selected[c]) # 0 THEN st.selected[c]
       ELSE IF defaults # 0 THEN Cho(st, c).defaults[defaults][1].name
       ELSE IF first # 0 THEN Cho(st, c).syms[first] ELSE NoSym

\* A mutant: m is offered where an imply of y makes it y.
sym_assignable_NoWeak(st, s) ==
    LET vis == Vis(st, s)
        rev == ExprValue(st, Sym(st, s).rev_dep)
        top == IF vis = 2 \/ rev = 2 THEN 2 ELSE 1
    IN IF OrigType(st, s) \notin BoolTristate \/ vis = 0 THEN {}
       ELSE IF vis = 2 /\ InChoice(st, s) THEN {2}
       ELSE (rev..top) \ (IF type(st, s) = "bool" THEN {1} ELSE {})

sym_assignable(st, s) ==
    LET vis == Vis(st, s)
        rev == ExprValue(st, Sym(st, s).rev_dep)
        weak2 == ExprValue(st, Sym(st, s).weak_rev_dep) = 2
        noM == type(st, s) = "bool" \/ weak2
    IN CASE OrigType(st, s) \notin BoolTristate \/ vis = 0 -> {}
         [] OTHER ->
            IF vis = 2
            THEN IF InChoice(st, s) THEN {2}
                 ELSE CASE rev = 0 -> IF noM THEN {0, 2} ELSE {0, 1, 2}
                        [] rev = 1 -> IF noM THEN {2} ELSE {1, 2}
                        [] rev = 2 -> {2}
            ELSE CASE rev = 0 -> IF weak2 THEN {0, 2} ELSE {0, 1}
                   [] rev = 1 -> {1}
                   [] rev = 2 -> {2}

choice_assignable(st, c) ==
    LET values == CASE Vis(st, c) = 0 -> {}
                    [] Vis(st, c) = 1 -> {0, 1}
                    [] Vis(st, c) = 2 -> IF type(st, c) = "bool" THEN {0, 2} ELSE {0, 1, 2}
    IN IF Cho(st, c).optional THEN values ELSE values \ {0}

Attribute(st, p) ==
    CASE p[1] = "vis"        -> visibility(st, p[2])
      [] p[1] = "tri"        -> IF IsSym(st, p[2]) THEN tri_value(st, p[2])
                                ELSE choice_tri_value(st, p[2])
      [] p[1] = "str"        -> str_value(st, p[2])
      [] p[1] = "selection"  -> selection(st, p[2])
      [] p[1] = "assignable" -> IF IsSym(st, p[2]) THEN sym_assignable(st, p[2])
                                ELSE choice_assignable(st, p[2])

----------------------------------------------------------------------------
(* All attributes of a configuration.                                      *)

Attributes(t) ==
    ({"vis", "tri", "str", "assignable"} \X DOMAIN t.sym)
        \cup ({"vis", "tri", "assignable", "selection"} \X DOMAIN t.cho)

\* What an attribute may be computed from.
ComputedFrom(t, p) ==
    LET i == p[2]
        values(S) == {"tri", "str"} \X S
        member == i \in DOMAIN t.sym /\ t.sym[i].choice # NoChoice
        tristate == (IF i \in DOMAIN t.sym THEN t.sym[i].type ELSE t.cho[i].type) = "tristate"
        own == CASE p[1] = "vis"       -> IF member THEN {<<"tri", t.sym[i].choice>>} ELSE {}
                 [] p[1] = "tri"       -> {<<"vis", i>>} \cup
                                          (IF member THEN {<<"selection", t.sym[i].choice>>} ELSE {})
                 [] p[1] = "selection" -> {<<"tri", i>>} \cup ({"vis"} \X
                                            (ToSet(t.cho[i].syms) \cup {d[1].name : d \in ToSet(t.cho[i].defaults)}))
                 [] OTHER              -> {<<"vis", i>>, <<"tri", i>>}
    IN own \cup (IF i \in Defined(t) THEN values(BuildDepItems(t, i)) ELSE {})
           \cup (IF tristate THEN values({"MODULES"}) ELSE {})

RECURSIVE Sorted(_, _)
Sorted(from, rest) ==
    IF rest = {} THEN << >>
    ELSE LET p == CHOOSE q \in rest : from[q] \cap rest = {} IN <<p>> \o Sorted(from, rest \ {p})

\* The attributes in an order in which they can be computed; there is one unless items depend on each
\* other in a circle.
Order(t) == Sorted([p \in Attributes(t) |-> ComputedFrom(t, p)], Attributes(t))

\* A cached value is read, the others are computed.
Evaluated(st) ==
    LET add(u, p) == [u EXCEPT !.val = (p :> IF p \in DOMAIN st.cache THEN st.cache[p] ELSE Attribute(u, p)) @@ @]
    IN FoldLeft(add, [st EXCEPT !.val = << >>], st.order)
=============================================================================
