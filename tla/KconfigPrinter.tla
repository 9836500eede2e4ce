--------------------------- MODULE KconfigPrinter ---------------------------
(***************************************************************************)
(* How kconfiglib.py walks the finalized menu tree and prints expressions  *)
(* and the definitions at its nodes.  A printed definition is a sequence   *)
(* of lines, a line a sequence of words, "str" standing for quoted text.   *)
(* Help texts are left out.                                                *)
(***************************************************************************)
EXTENDS KconfigMenu
LOCAL INSTANCE SequencesExt

(* The walk.                                                               *)

\* Up to the first node around x that is followed by another, and on to that one.
RECURSIVE climb(_, _)
climb(t, x) ==
    LET p == t.node[x].parent IN
    IF p = Nil THEN Nil ELSE IF t.node[p].next # Nil THEN t.node[p].next ELSE climb(t, p)

following(t, x) ==
    LET c == t.node[x] IN
    IF c.list # Nil THEN c.list ELSE IF c.next # Nil THEN c.next ELSE climb(t, x)

\* The nodes that come after x.
RECURSIVE node_iter(_, _)
node_iter(t, x) ==
    LET z == following(t, x) IN IF z = Nil THEN << >> ELSE <<z>> \o node_iter(t, z)

----------------------------------------------------------------------------
(* Expressions.                                                            *)

\* A choice is printed by its name, as one word.
standard_sc_expr_str(e) == IF IsItem(e) THEN e.name ELSE <<"n", "m", "y">>[e.tri + 1]

RECURSIVE expr_str(_)
expr_str(e) ==
    LET bracketed(x) == <<"(">> \o expr_str(x) \o <<")">>
        parenthesize(x, op) == IF x.op = op THEN bracketed(x) ELSE expr_str(x)
    IN CASE e.op \in {"item", "const"} -> <<standard_sc_expr_str(e)>>
         [] e.op = "and" -> parenthesize(e.l, "or") \o <<"&&">> \o parenthesize(e.r, "or")
         [] e.op = "or"  -> parenthesize(e.l, "and") \o <<"||">> \o parenthesize(e.r, "and")
         [] e.op = "not" -> <<"!">> \o (IF e.l.op \in {"item", "const"} THEN expr_str(e.l) ELSE bracketed(e.l))
         [] OTHER -> <<standard_sc_expr_str(e.l), e.op, standard_sc_expr_str(e.r)>>

----------------------------------------------------------------------------
(* Definitions.                                                            *)

\* The condition without the dependency of the node, which make_and has put at its end.  The code
\* compares objects; conditions being made as they are, no others are equal.
_strip_dep(c, e) ==
    IF e = c.dep THEN Yes ELSE IF e.op = "and" /\ e.r = c.dep THEN e.l ELSE e

\* A property's condition comes last in it.
orig(c, props) == [k \in DOMAIN props |-> [props[k] EXCEPT ![Len(props[k])] = _strip_dep(c, @)]]

Conditional(words, cond) == words \o (IF cond = Yes THEN << >> ELSE <<"if">> \o expr_str(cond))
If(holds, lines) == IF holds THEN lines ELSE << >>

depends_on(c) == If(c.dep # Yes, <<<<"depends", "on">> \o expr_str(c.dep)>>)

_menu_comment_node_str(c) ==
    <<<<c.kind, "str">>>> \o depends_on(c)
    \o If(c.kind = "menu" /\ c.visibility # Yes, <<<<"visible", "if">> \o expr_str(c.visibility)>>)

_sym_choice_node_str(t, c) ==
    LET sym == c.kind = "sym"
        type == IF sym THEN t.sym[c.item].type ELSE t.cho[c.item].type
        typed == type # "unknown"
        lines(props, Words(_)) ==
            LET own == orig(c, props) IN [k \in DOMAIN own |-> Conditional(Words(own[k]), Last(own[k]))]
        reverse(word, props) == lines(props, LAMBDA p : <<word, p[1]>>)
    IN <<<<IF sym THEN "config" ELSE "choice", c.item>>>>
       \o If(typed /\ c.prompt = << >>, <<<<type>>>>)
       \o [k \in DOMAIN c.prompt |->
             Conditional(<<IF typed THEN type ELSE "prompt", "str">>, _strip_dep(c, c.prompt[k]))]
       \o If(sym, lines(c.ranges, LAMBDA p : <<"range", standard_sc_expr_str(p[1]), standard_sc_expr_str(p[2])>>))
       \o lines(c.defaults, LAMBDA p : <<"default">> \o expr_str(p[1]))
       \o If(~sym /\ t.cho[c.item].optional, <<<<"optional">>>>)
       \o If(sym, reverse("select", c.selects) \o reverse("imply", c.implies))
       \o depends_on(c)

custom_str(t, x) ==
    LET c == t.node[x] IN
    IF c.kind \in {"menu", "comment"} THEN _menu_comment_node_str(c) ELSE _sym_choice_node_str(t, c)

\* The symbols and choices that the definition refers to.
referenced(t, x) ==
    LET c == t.node[x]
        conds(props) == UNION {expr_items(Last(p)) : p \in ToSet(props)}
        values(props) == UNION {expr_items(p[1]) : p \in ToSet(props)}
    IN expr_items(c.dep) \cup UNION {expr_items(e) : e \in ToSet(c.prompt)}
       \cup (IF c.kind = "menu" THEN expr_items(c.visibility) ELSE {})
       \cup conds(c.defaults) \cup values(c.defaults)
       \cup conds(c.selects) \cup {p[1] : p \in ToSet(c.selects)}
       \cup conds(c.implies) \cup {p[1] : p \in ToSet(c.implies)}
       \cup conds(c.ranges) \cup values(c.ranges) \cup UNION {expr_items(p[2]) : p \in ToSet(c.ranges)}
=============================================================================
