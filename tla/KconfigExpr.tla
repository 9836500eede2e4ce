---------------------------- MODULE KconfigExpr ----------------------------
(***************************************************************************)
(* Kconfig expressions as kconfiglib.py builds and takes apart.            *)
(*                                                                         *)
(* A tristate is 0 (n), 1 (m) or 2 (y).  An expression is an item (the     *)
(* name of a symbol or choice), a constant symbol with its two values, or  *)
(* an operator over expressions.  A string value is a number: the strings  *)
(* of a model are ordered as strcmp orders them and those that are numbers *)
(* as numbers, and Empty, the empty string, comes before all others.       *)
(***************************************************************************)
EXTENDS Integers, Sequences

Empty == -1

Item(x)      == [op |-> "item", name |-> x]
Const(t, s)  == [op |-> "const", tri |-> t, str |-> s]
No           == Const(0, 0)
Mod          == Const(1, 1)
Yes          == Const(2, 2)
Number(k)    == Const(0, k)        \* an undefined symbol such as 5: its tristate value is n
And(e1, e2)  == [op |-> "and", l |-> e1, r |-> e2]
Or(e1, e2)   == [op |-> "or", l |-> e1, r |-> e2]
Not(e)       == [op |-> "not", l |-> e]
Rel(o, a, b) == [op |-> o, l |-> a, r |-> b]

Relations == {"=", "!=", "<", "<=", ">", ">="}
IsItem(e) == e.op = "item"

min(a, b) == IF a < b THEN a ELSE b
max(a, b) == IF a < b THEN b ELSE a

make_and(e1, e2) ==
    IF e1 = Yes THEN e2
    ELSE IF e2 = Yes THEN e1
    ELSE IF No \in {e1, e2} THEN No
    ELSE And(e1, e2)

make_or(e1, e2) ==
    IF e1 = No THEN e2
    ELSE IF e2 = No THEN e1
    ELSE IF Yes \in {e1, e2} THEN Yes
    ELSE Or(e1, e2)

\* The symbols and choices of an expression.  Constants are left out, as in _make_depend_on.
RECURSIVE expr_items(_)
expr_items(e) ==
    CASE e.op = "item"  -> {e.name}
      [] e.op = "const" -> {}
      [] e.op = "not"   -> expr_items(e.l)
      [] OTHER          -> expr_items(e.l) \cup expr_items(e.r)

\* The top-level operands of one operator, from left to right.
RECURSIVE split_expr(_, _)
split_expr(e, op) ==
    IF e.op = op THEN split_expr(e.l, op) \o split_expr(e.r, op) ELSE <<e>>

\* Does the expression require item x?  This decides on implicit submenus and on what a choice holds.
\* x != y is taken for a requirement too: in the code "and" binds tighter than the "or" before it.
RECURSIVE expr_depends_on(_, _)
expr_depends_on(e, x) ==
    CASE e.op = "item" -> e.name = x
      [] e.op = "and"  -> expr_depends_on(e.l, x) \/ expr_depends_on(e.r, x)
      [] e.op \in {"=", "!="} ->
            LET other == IF e.r = Item(x) THEN e.l ELSE e.r IN
            /\ Item(x) \in {e.l, e.r}
            /\ other \in (IF e.op = "=" THEN {Mod, Yes} ELSE {No, Yes})
      [] OTHER -> FALSE

\* What a relation makes of the outcome of the comparison.
Holds(op, a, b) ==
    CASE op = "="  -> a = b   [] op = "!=" -> a # b
      [] op = "<"  -> a < b   [] op = "<=" -> a <= b
      [] op = ">"  -> a > b   [] op = ">=" -> a >= b
=============================================================================
