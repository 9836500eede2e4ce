------------------------- MODULE KconfigPreprocessor -------------------------
(***************************************************************************)
(* The variables of the Kconfig preprocessor.  A string of the source is a *)
(* sequence of pieces: a word, or a macro call, whose function name and    *)
(* arguments are strings in turn.  What a string expands to is a sequence  *)
(* of words.  A variable has its value, whether it is recursive, and the   *)
(* number of its expansions under way.                                     *)
(***************************************************************************)
EXTENDS Integers, Sequences

CONSTANTS Environment,      \* environment variables, from names to sequences of words
          MaxExpansions     \* the bound on nested expansions of a function, 100 in the code

Word(w)    == [word |-> w]
Call(args) == [call |-> args]
IsCall(p)  == "call" \in DOMAIN p

Good(words) == [ok |-> TRUE, val |-> words]
Bad == [ok |-> FALSE, val |-> << >>]
Join(r1, r2) == IF r1.ok /\ r2.ok THEN Good(r1.val \o r2.val) ELSE Bad

ArgumentNames == <<<<"0">>, <<"1">>, <<"2">>>>      \* what $(0), $(1) and $(2) are called

RECURSIVE _expand_whole(_, _, _), _expand_macro(_, _, _), _fn_val(_, _)

\* All the macros of a string, with the arguments of the macro whose expansion it is part of.
_expand_whole(variables, s, args) ==
    IF s = << >> THEN Good(<< >>)
    ELSE Join(IF IsCall(Head(s)) THEN _expand_macro(variables, Head(s).call, args)
              ELSE Good(<<Head(s).word>>),
              _expand_whole(variables, Tail(s), args))

\* One macro: its arguments are expanded first, and what they expand to is not looked at again.
_expand_macro(variables, call, args) ==
    LET parts == [i \in DOMAIN call |-> _expand_whole(variables, call[i], args)]
        new_args == [i \in DOMAIN call |-> parts[i].val]
    IN IF \E i \in DOMAIN parts : ~parts[i].ok THEN Bad
       ELSE IF \E k \in DOMAIN ArgumentNames : ArgumentNames[k] = new_args[1] /\ k <= Len(args)
            THEN Good(args[CHOOSE k \in DOMAIN ArgumentNames : ArgumentNames[k] = new_args[1]])
       ELSE _fn_val(variables, new_args)

\* A plain variable must not be expanded inside its own expansion, a function not too often.
_fn_val(variables, args) ==
    LET fn == args[1] IN
    IF fn \in DOMAIN variables
    THEN IF variables[fn].n_expansions > (IF Len(args) = 1 THEN 0 ELSE MaxExpansions) THEN Bad
         ELSE _expand_whole([variables EXCEPT ![fn].n_expansions = @ + 1], variables[fn].value, args)
    ELSE IF fn \in DOMAIN Environment THEN Good(Environment[fn])
    ELSE Good(<< >>)

Literally(words) == [i \in DOMAIN words |-> Word(words[i])]
Put(variables, name, recursive, value) ==
    [v \in DOMAIN variables \cup {name} |->
        IF v = name THEN [is_recursive |-> recursive, value |-> value, n_expansions |-> 0]
        ELSE variables[v]]

\* A mutant: += defers the expansion of what it adds to any variable.
Assigned_NeverImmediate(variables, name, op, val) ==
    LET known == name \in DOMAIN variables
        expanded == _expand_whole(variables, val, << >>)
    IN IF op = ":=" THEN [ok |-> expanded.ok, variables |-> Put(variables, name, FALSE, Literally(expanded.val))]
       ELSE IF op = "+=" /\ known
       THEN [ok |-> TRUE, variables |-> [variables EXCEPT ![name].value = @ \o val]]
       ELSE [ok |-> TRUE, variables |-> Put(variables, name, TRUE, val)]

\* The variables after the assignment of 'val' to 'name', and whether it could be expanded.
Assigned(variables, name, op, val) ==
    LET known == name \in DOMAIN variables
        now == op = ":=" \/ (op = "+=" /\ known /\ ~variables[name].is_recursive)
        expanded == _expand_whole(variables, val, << >>)
        value == IF now THEN Literally(expanded.val) ELSE val
    IN [ok |-> now => expanded.ok,
        variables |-> IF op = "+=" /\ known
                      THEN [variables EXCEPT ![name].value = @ \o value]
                      ELSE Put(variables, name, op # ":=", value)]
=============================================================================
