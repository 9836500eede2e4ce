---------------------------- MODULE KconfigMenu ----------------------------
(***************************************************************************)
(* The menu tree, and what Kconfig._finalize_node makes of the parsed one. *)
(*                                                                         *)
(* A tree t has t.node, a record for each menu node (nodes are numbers,    *)
(* Top is the main menu, Nil no node), t.sym, one for each symbol, and     *)
(* t.cho, one for each choice.  A node has a kind, the item it defines     *)
(* (the name of a symbol or choice), the links parent, next and list, its  *)
(* dep and visibility, a prompt (an empty sequence or its condition) and   *)
(* the properties given at it.                                             *)
(***************************************************************************)
EXTENDS KconfigExpr, FiniteSets
LOCAL INSTANCE SequencesExt

Nil == 0
Top == 1
NoChoice == "-"

NewNode(kind, item, parent) ==
    [kind |-> kind, item |-> item, parent |-> parent, next |-> Nil, list |-> Nil, dep |-> Yes,
     visibility |-> Yes, prompt |-> << >>, defaults |-> << >>, ranges |-> << >>,
     selects |-> << >>, implies |-> << >>]
NewSymbol ==
    [type |-> "unknown", choice |-> NoChoice, nodes |-> << >>, direct_dep |-> No, rev_dep |-> No,
     weak_rev_dep |-> No, defaults |-> << >>, ranges |-> << >>, selects |-> << >>, implies |-> << >>]
NewChoice ==
    [type |-> "unknown", optional |-> FALSE, nodes |-> << >>, syms |-> << >>, direct_dep |-> No,
     defaults |-> << >>]

\* The nodes from x on, along next.
RECURSIVE Chain(_, _)
Chain(t, x) == IF x = Nil THEN << >> ELSE <<x>> \o Chain(t, t.node[x].next)

Children(t, x) == Chain(t, t.node[x].list)

Set(t, x, field, v) == [t EXCEPT !.node[x] = [@ EXCEPT ![field] = v]]

----------------------------------------------------------------------------

\* What a node passes on to its children: a choice stands for itself.
basedep(t, x) == IF t.node[x].kind = "choice" THEN Item(t.node[x].item) ELSE t.node[x].dep

AndCond(props, dep) ==
    [i \in DOMAIN props |-> [props[i] EXCEPT ![Len(props[i])] = make_and(@, dep)]]

\* The conditions of a child with the parent's dependency and 'visible if' added.
WithDep(c, base, visible_if) ==
    LET dep == make_and(c.dep, base)
        items == c.kind \in {"sym", "choice"}
        shown == IF items THEN make_and(visible_if, dep) ELSE dep
        prop(ps) == IF items THEN AndCond(ps, dep) ELSE ps
    IN [c EXCEPT !.dep = dep, !.prompt = [i \in DOMAIN @ |-> make_and(@[i], shown)],
                 !.defaults = prop(@), !.ranges = prop(@), !.selects = prop(@), !.implies = prop(@)]

propagate_deps(t, x, visible_if) ==
    LET kids == ToSet(Children(t, x)) IN
    [t EXCEPT !.node = [z \in DOMAIN @ |->
        IF z \in kids THEN WithDep(@[z], basedep(t, x), visible_if) ELSE @[z]]]

\* The symbol gets the properties of its node, and what it selects or implies the reverse dependency.
add_props_to_sym(t, x) ==
    LET c == t.node[x]
        s == c.item
        own == [t EXCEPT !.sym[s].direct_dep = make_or(@, c.dep),
                         !.sym[s].defaults = @ \o c.defaults, !.sym[s].ranges = @ \o c.ranges,
                         !.sym[s].selects = @ \o c.selects, !.sym[s].implies = @ \o c.implies]
        reverse(field, u, p) ==
            [u EXCEPT !.sym[p[1]] = [@ EXCEPT ![field] = make_or(@, make_and(Item(s), p[2]))]]
        select(u, p) == reverse("rev_dep", u, p)
        imply(u, p) == reverse("weak_rev_dep", u, p)
    IN FoldLeft(imply, FoldLeft(select, own, c.selects), c.implies)

auto_menu_dep(t, x, z) ==
    expr_depends_on(IF t.node[z].prompt # << >> THEN t.node[z].prompt[1] ELSE t.node[z].dep,
                    t.node[x].item)

\* Promptless nodes give up their children, which then follow them on the same level.
RECURSIVE flatten(_, _)
flatten(t, x) ==
    IF x = Nil THEN t
    ELSE LET c == t.node[x]
             kids == Children(t, x)
             up == [t EXCEPT !.node = [z \in DOMAIN @ |->
                     IF z = x THEN [@[z] EXCEPT !.next = c.list, !.list = Nil]
                     ELSE IF z = Last(kids) THEN [@[z] EXCEPT !.parent = c.parent, !.next = c.next]
                     ELSE IF z \in ToSet(kids) THEN [@[z] EXCEPT !.parent = c.parent]
                     ELSE @[z]]]
             u == IF c.list # Nil /\ c.prompt = << >> /\ c.kind # "choice" THEN up ELSE t
         IN flatten(u, u.node[x].next)

\* The children of x without the 'if' nodes.
remove_ifs(t, x) ==
    LET kids == SelectSeq(Children(t, x), LAMBDA z : t.node[z].kind # "if")
        after(i) == IF i = Len(kids) THEN Nil ELSE kids[i + 1]
    IN [t EXCEPT !.node = [z \in DOMAIN @ |->
          IF z = x THEN [@[z] EXCEPT !.list = IF kids = << >> THEN Nil ELSE kids[1]]
          ELSE IF z \in ToSet(kids)
               THEN [@[z] EXCEPT !.next = after(CHOOSE i \in DOMAIN kids : kids[i] = z)]
          ELSE @[z]]]

\* The symbols directly below a choice become its symbols; types are passed up and then down.
finalize_choice(t, x) ==
    LET c == t.node[x].item
        syms == LET below == SelectSeq(Children(t, x), LAMBDA z : t.node[z].kind = "sym")
                IN t.cho[c].syms \o [i \in DOMAIN below |-> t.node[below[i]].item]
        typed == SelectSeq(syms, LAMBDA s : t.sym[s].type # "unknown")
        type == IF t.cho[c].type # "unknown" \/ typed = << >> THEN t.cho[c].type
                ELSE t.sym[typed[1]].type
    IN [t EXCEPT
          !.cho[c].syms = syms, !.cho[c].type = type,
          !.cho[c].direct_dep = make_or(@, t.node[x].dep),
          !.cho[c].defaults = @ \o t.node[x].defaults,
          !.sym = [s \in DOMAIN @ |-> IF s \notin ToSet(syms) THEN @[s] ELSE
                     [@[s] EXCEPT !.choice = c, !.type = IF @ = "unknown" THEN type ELSE @]]]

RECURSIVE finalize_node(_, _, _), adopt(_, _, _, _), finalize_chain(_, _, _)

\* The nodes after cur that depend on the symbol of x go below x, each finalized first.
adopt(t, x, cur, visible_if) ==
    LET z == t.node[cur].next IN
    IF z # Nil /\ auto_menu_dep(t, x, z)
    THEN adopt(Set(finalize_node(t, z, visible_if), z, "parent", x), x, z, visible_if)
    ELSE IF cur = x THEN t
    ELSE [t EXCEPT !.node[x].list = t.node[x].next, !.node[x].next = t.node[cur].next,
                   !.node[cur].next = Nil]

finalize_chain(t, x, visible_if) ==
    IF x = Nil THEN t
    ELSE LET u == finalize_node(t, x, visible_if) IN finalize_chain(u, u.node[x].next, visible_if)

finalize_node(t, x, visible_if) ==
    LET c == t.node[x]
        vis == IF c.kind = "menu" THEN make_and(visible_if, c.visibility) ELSE visible_if
        inner == IF c.kind = "sym" THEN adopt(add_props_to_sym(t, x), x, x, visible_if)
                 ELSE IF c.list = Nil THEN t
                 ELSE finalize_chain(propagate_deps(t, x, vis), c.list, vis)
        level == IF inner.node[x].list = Nil THEN inner
                 ELSE remove_ifs(flatten(inner, inner.node[x].list), x)
    IN IF c.kind = "choice" THEN finalize_choice(level, x) ELSE level

Finalize(t) == finalize_node(t, Top, Yes)

----------------------------------------------------------------------------

\* The conditions of the prompts of an item.
Prompts(t, nodes) ==
    LET with == SelectSeq(nodes, LAMBDA z : t.node[z].prompt # << >>)
    IN [i \in DOMAIN with |-> t.node[with[i]].prompt[1]]

\* What the value of an item is computed from, but for a symbol's choice: Kconfig._build_dep.
BuildDepItems(t, i) ==
    LET ItemsOf(es) == UNION {expr_items(e) : e \in es}
        Flat(ps) == UNION {ToSet(ps[j]) : j \in DOMAIN ps}
    IN IF i \in DOMAIN t.sym
       THEN LET s == t.sym[i] IN
            ItemsOf(ToSet(Prompts(t, s.nodes)) \cup Flat(s.defaults) \cup Flat(s.ranges)
                    \cup {s.rev_dep, s.weak_rev_dep, s.direct_dep})
       ELSE LET c == t.cho[i] IN
            ItemsOf(ToSet(Prompts(t, c.nodes)) \cup {c.defaults[j][2] : j \in DOMAIN c.defaults})

Items(t) == DOMAIN t.sym \cup DOMAIN t.cho

Defined(t) == {s \in DOMAIN t.sym : t.sym[s].nodes # << >>} \cup DOMAIN t.cho

\* A mutant: direct dependencies are left to the properties they were propagated to.
build_dep_NoDirect(t) ==
    LET Direct(d) == IF d \in DOMAIN t.sym THEN expr_items(t.sym[d].direct_dep) ELSE {} IN
    [i \in Items(t) |-> {d \in Defined(t) : i \in BuildDepItems(t, d) \ Direct(d)}]

\* _dependents as the loop check sees it.
build_dep(t) == [i \in Items(t) |-> {d \in Defined(t) : i \in BuildDepItems(t, d)}]

\* _dependents as invalidation sees it: a choice depends on its symbols too.
add_choice_deps(t, deps) ==
    [i \in Items(t) |-> deps[i] \cup {c \in DOMAIN t.cho : i \in ToSet(t.cho[c].syms)}]
=============================================================================
