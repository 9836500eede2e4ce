---------------------------- MODULE KconfigCache ----------------------------
(***************************************************************************)
(* Which caches a read fills, which caches an assignment empties, and the  *)
(* assignments themselves, for the values of KconfigValues.                *)
(***************************************************************************)
EXTENDS KconfigValues
LOCAL INSTANCE SequencesExt
LOCAL INSTANCE FiniteSetsExt

\* Computed anew, without what is cached.
Fresh(st) == Evaluated([st EXCEPT !.cache = << >>])

----------------------------------------------------------------------------
(* Reading.  A computation reads no further than it has to: operands after *)
(* a decisive one and properties after the active one stay unread.         *)

RECURSIVE ExprReads(_, _)
ExprReads(st, e) ==
    LET operand(o) == IF ~IsItem(o) THEN {}
                      ELSE IF OrigType(st, o.name) \in BoolTristate THEN {<<"tri", o.name>>}
                      ELSE {<<"str", o.name>>}
    IN CASE e.op = "item"  -> {<<"tri", e.name>>}
         [] e.op = "const" -> {}
         [] e.op = "not"   -> ExprReads(st, e.l)
         [] e.op = "and"   -> ExprReads(st, e.l) \cup
                              (IF ExprValue(st, e.l) = 0 THEN {} ELSE ExprReads(st, e.r))
         [] e.op = "or"    -> ExprReads(st, e.l) \cup
                              (IF ExprValue(st, e.l) = 2 THEN {} ELSE ExprReads(st, e.r))
         [] OTHER          -> operand(e.l) \cup operand(e.r)

\* The reads of a scan for the active property.
ScanReads(st, props) ==
    LET i == Active(st, props)
        upto == IF i = 0 THEN Len(props) ELSE i
    IN UNION {ExprReads(st, props[j][Len(props[j])]) : j \in 1..upto}

ActiveReads(st, props, Of(_)) == LET i == Active(st, props) IN IF i = 0 THEN {} ELSE Of(props[i])

typeReads(st, i) ==
    LET c == IF IsSym(st, i) THEN Sym(st, i).choice ELSE NoChoice IN
    IF OrigType(st, i) # "tristate" THEN {}
    ELSE (IF c = NoChoice THEN {} ELSE {<<"tri", c>>}) \cup
         (IF c # NoChoice /\ Tri(st, c) = 2 THEN {} ELSE {<<"tri", "MODULES">>})

visReads(st, i) ==
    LET c == IF IsSym(st, i) THEN Sym(st, i).choice ELSE NoChoice
        types == {OrigType(st, j) : j \in {i} \cup ({c} \ {NoChoice})}
    IN UNION {ExprReads(st, PromptsOf(st, i)[k]) : k \in DOMAIN PromptsOf(st, i)}
       \cup (IF c # NoChoice /\ "tristate" \in types THEN {<<"tri", c>>} ELSE {})
       \cup (IF Vis(st, i) = 0 THEN {} ELSE typeReads(st, i))

\* What _warn_select_unsatisfied_deps looks at to word its warning.
warnReads(st, s) ==
    LET direct == ExprValue(st, Sym(st, s).direct_dep)
        ups == {e \in ToSet(split_expr(Sym(st, s).rev_dep, "or")) : ExprValue(st, e) > direct}
        by(e) == split_expr(e, "and")[1].name
    IN UNION {{<<"str", by(e)>>} \cup ExprReads(st, Sym(st, by(e)).direct_dep) : e \in ups}

triReads(st, s) ==
    LET x == Sym(st, s)
        implied == ExprValue(st, x.weak_rev_dep)
        rev == ExprValue(st, x.rev_dep)
        unset == Vis(st, s) = 0 \/ st.user[s] = None
        direct == ExprReads(st, x.direct_dep)
        default(p) == ExprReads(st, p[1])
        before == IF ~unset THEN {}
                  ELSE ScanReads(st, x.defaults) \cup ActiveReads(st, x.defaults, default)
                       \cup ExprReads(st, x.weak_rev_dep) \cup (IF implied = 0 THEN {} ELSE direct)
        selects == ExprReads(st, x.rev_dep) \cup (IF rev = 0 THEN {} ELSE direct)
        warn == IF rev > ExprValue(st, x.direct_dep) THEN warnReads(st, s) ELSE {}
        promote == IF max(Unselected(st, s), rev) # 1 THEN {}
                   ELSE typeReads(st, s) \cup
                        (IF type(st, s) = "bool" THEN {} ELSE ExprReads(st, x.weak_rev_dep))
    IN IF x.type \notin BoolTristate THEN {}
       ELSE {<<"vis", s>>} \cup
            (IF ~InChoice(st, s) THEN before \cup selects \cup warn \cup promote
             ELSE IF Vis(st, s) = 2 THEN {<<"selection", x.choice>>} ELSE {})

choiceTriReads(st, c) == {<<"vis", c>>} \cup typeReads(st, c)

strReads(st, s) ==
    LET x == Sym(st, s)
        str(e) == IF IsItem(e) THEN {<<"str", e.name>>} ELSE {}
        bounds(p) == str(p[1]) \cup str(p[2])
        default(p) == str(p[1])
        ranges == IF x.type \in IntHex
                  THEN ScanReads(st, x.ranges) \cup ActiveReads(st, x.ranges, bounds) ELSE {}
        used == /\ Vis(st, s) # 0 /\ st.user[s] # None
                /\ x.type \in IntHex => st.user[s] # Empty /\ InRange(st.user[s], ActiveRange(st, s))
        defaults == IF used THEN {}
                    ELSE ScanReads(st, x.defaults) \cup ActiveReads(st, x.defaults, default)
    IN CASE x.type \in BoolTristate -> {<<"tri", s>>}
         [] x.type = "unknown" -> {}
         [] OTHER -> {<<"vis", s>>} \cup ranges \cup defaults

selectionReads(st, c) ==
    LET vis(s) == {<<"vis", s>>}
        user == st.selected[c]
        scan == SelectInSeq(Cho(st, c).defaults,
                    LAMBDA p : ExprValue(st, p[2]) # 0 /\ Vis(st, p[1].name) # 0)
        upto == IF scan = 0 THEN Len(Cho(st, c).defaults) ELSE scan
        byDefault == UNION {ExprReads(st, Cho(st, c).defaults[j][2]) \cup
                            (IF ExprValue(st, Cho(st, c).defaults[j][2]) = 0 THEN {}
                             ELSE vis(Cho(st, c).defaults[j][1].name)) : j \in 1..upto}
        first == SelectInSeq(Cho(st, c).syms, LAMBDA s : Vis(st, s) # 0)
        byOrder == UNION {vis(Cho(st, c).syms[j]) :
                          j \in 1..(IF first = 0 THEN Len(Cho(st, c).syms) ELSE first)}
    IN {<<"tri", c>>} \cup
       (IF Tri(st, c) # 2 THEN {}
        ELSE (IF user = NoSym THEN {} ELSE vis(user)) \cup
             (IF user # NoSym /\ Vis(st, user) # 0 THEN {}
              ELSE byDefault \cup (IF scan # 0 THEN {} ELSE byOrder)))

assignableReads(st, i) ==
    IF ~IsSym(st, i)
    THEN {<<"vis", i>>} \cup (IF Vis(st, i) = 2 THEN typeReads(st, i) ELSE {})
    ELSE LET weak == ExprReads(st, Sym(st, i).weak_rev_dep) IN
         IF OrigType(st, i) \notin BoolTristate THEN {}
         ELSE {<<"vis", i>>} \cup
              (IF Vis(st, i) = 0 THEN {}
               ELSE ExprReads(st, Sym(st, i).rev_dep) \cup
                    (IF \/ Vis(st, i) = 2 /\ InChoice(st, i)
                        \/ ExprValue(st, Sym(st, i).rev_dep) = 2 THEN {}
                     ELSE IF Vis(st, i) = 2
                          THEN typeReads(st, i) \cup (IF type(st, i) = "bool" THEN {} ELSE weak)
                          ELSE IF ExprValue(st, Sym(st, i).rev_dep) = 0 THEN weak ELSE {}))

Reads(st, p) ==
    CASE p[1] = "vis"        -> visReads(st, p[2])
      [] p[1] = "tri"        -> IF IsSym(st, p[2]) THEN triReads(st, p[2])
                                ELSE choiceTriReads(st, p[2])
      [] p[1] = "str"        -> strReads(st, p[2])
      [] p[1] = "selection"  -> selectionReads(st, p[2])
      [] p[1] = "assignable" -> assignableReads(st, p[2])

\* Everything that is computed when p is read.
RECURSIVE Computed(_, _)
Computed(st, p) ==
    IF p \in DOMAIN st.cache THEN {}
    ELSE {p} \cup UNION {Computed(st, q) : q \in Reads(st, p)}

\* The mode of a choice is not cached.
IsCached(st, p) == ~(p[1] = "tri" /\ ~IsSym(st, p[2]))

ReadAttribute(st, p) ==
    LET new == {q \in Computed(st, p) : IsCached(st, q)}
    IN [st EXCEPT !.cache = [q \in new |-> Value(st, q)] @@ @]

----------------------------------------------------------------------------
(* Invalidation.                                                           *)

HasValues(st, i) == <<"vis", i>> \in DOMAIN st.cache

\* The items reached from 'done' and 'todo' along dependents that have values; a set that grows.
RECURSIVE Reached(_, _, _)
Reached(st, todo, done) ==
    IF todo = {} THEN done
    ELSE LET seen == done \cup todo
             next == {d \in UNION {st.dependents[i] : i \in todo} : HasValues(st, d)} \ seen
         IN Reached(st, next, seen)

\* A mutant: the walk takes a cached value, not the visibility, for the sign that an item has values.
rec_invalidate_ByTri(st, i) ==
    LET RECURSIVE R(_, _)
        R(todo, done) ==
            IF todo = {} THEN done
            ELSE R({d \in UNION {st.dependents[k] : k \in todo} : <<"tri", d>> \in DOMAIN st.cache}
                   \ (done \cup todo), done \cup todo)
        hit == R({i}, {})
        gone == IF "MODULES" \in hit THEN Defined(st.tree) ELSE hit
        kept == {p \in DOMAIN st.cache : p[2] \notin gone}
    IN [st EXCEPT !.cache = [p \in kept |-> @[p]]]

\* The item loses its caches and so does what depends on it; MODULES takes all with it.
rec_invalidate(st, i) ==
    LET hit == Reached(st, {i}, {})
        gone == IF "MODULES" \in hit THEN Defined(st.tree) ELSE hit
        kept == {p \in DOMAIN st.cache : p[2] \notin gone}
    IN [st EXCEPT !.cache = [p \in kept |-> @[p]]]

rec_invalidate_if_has_prompt(st, s) ==
    IF PromptsOf(st, s) = << >> THEN st ELSE rec_invalidate(st, s)

----------------------------------------------------------------------------
(* Assignments.                                                            *)

ValidFor(type_, v) ==
    CASE type_ = "bool"     -> v \in {0, 2}
      [] type_ = "tristate" -> v \in {0, 1, 2}
      [] type_ \in IntHex   -> v # Empty
      [] type_ = "string"   -> TRUE
      [] OTHER -> FALSE

\* Symbol.set_value.
set_value(st, s, v) ==
    LET new == [st EXCEPT !.user[s] = v] IN
    IF ~ValidFor(OrigType(st, s), v) \/ (v = st.user[s] /\ ~InChoice(st, s)) THEN st
    ELSE IF InChoice(st, s) /\ v = 2
         THEN rec_invalidate([new EXCEPT !.selected[Sym(st, s).choice] = s], Sym(st, s).choice)
         ELSE rec_invalidate_if_has_prompt(new, s)

\* Choice.set_value.
choice_set_value(st, c, v) ==
    IF v = st.user[c] \/ ~ValidFor(OrigType(st, c), v) THEN st
    ELSE rec_invalidate([st EXCEPT !.user[c] = v], c)

unset_value(st, s) ==
    IF st.user[s] = None THEN st
    ELSE rec_invalidate_if_has_prompt([st EXCEPT !.user[s] = None], s)

choice_unset_value(st, c) ==
    IF st.user[c] = None /\ st.selected[c] = NoSym THEN st
    ELSE rec_invalidate([st EXCEPT !.user[c] = None, !.selected[c] = NoSym], c)

\* Kconfig.unset_values.
unset_values(st) ==
    LET syms == FoldSet(LAMBDA s, a : unset_value(a, s), st, DOMAIN st.tree.sym \cap Defined(st.tree))
    IN FoldSet(LAMBDA c, a : choice_unset_value(a, c), syms, DOMAIN st.tree.cho)

\* The configuration just parsed, with the dependents D.
NewState(tree, D) ==
    [tree |-> tree, dependents |-> D, order |-> << >>,
     user |-> [i \in Items(tree) |-> None], selected |-> [c \in DOMAIN tree.cho |-> NoSym],
     cache |-> << >>, val |-> << >>]

\* A configuration that was checked for dependency loops is ready for use.
Ready(st) == Evaluated([st EXCEPT !.order = Order(st.tree), !.dependents = add_choice_deps(st.tree, @)])
=============================================================================
