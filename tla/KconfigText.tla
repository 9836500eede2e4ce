---------------------------- MODULE KconfigText ----------------------------
(***************************************************************************)
(* What the texts of a project mean, read without the parser's state, and  *)
(* the properties that compare the parser's tree with it.                  *)
(***************************************************************************)
EXTENDS KconfigParser, KconfigPrinter
LOCAL INSTANCE SequencesExt

(* Blocks.                                                                 *)

\* The lines of a file from the i-th on, with those that are joined left out.
RECURSIVE LogicalLines(_, _)
LogicalLines(f, i) ==
    IF i > Len(text[f]) THEN << >>
    ELSE (IF i > 1 /\ text[f][i - 1].cont THEN << >> ELSE <<text[f][i].tokens>>) \o LogicalLines(f, i + 1)

\* The words that begin and end nodes, with every sourced file where it is sourced, as a block.
RECURSIVE Unrolled(_), UnrolledLines(_)
UnrolledLines(ls) ==
    IF ls = << >> THEN << >>
    ELSE LET l == Head(ls)
             found == IF l # << >> /\ l[1] \in {"source", "osource"} /\ l[2] \in DOMAIN Glob THEN Glob[l[2]] ELSE << >>
         IN (IF l = << >> THEN << >> ELSE IF found = << >> THEN <<l[1]>>
             ELSE FlattenSeq([k \in DOMAIN found |-> Unrolled(found[k])])) \o UnrolledLines(Tail(ls))
Unrolled(f) == <<"file">> \o UnrolledLines(LogicalLines(f, 1)) \o <<"endfile">>

Closes == [w \in {"menu", "choice", "if", "file"} |->
             CASE w = "menu" -> "endmenu" [] w = "choice" -> "endchoice" [] w = "if" -> "endif" [] w = "file" -> "endfile"]

\* The parents of the nodes in the order of the text, and whether every block ends in its own file.
Nesting ==
    LET Read(b, w) ==
            CASE w \in DOMAIN Closes ->
                   LET x == IF w = "file" THEN b.open[1].node ELSE Len(b.parents) + 1 IN
                   [b EXCEPT !.open = <<[end |-> Closes[w], node |-> x]>> \o @,
                             !.parents = IF w = "file" THEN @ ELSE Append(@, b.open[1].node)]
              [] w \in Range(Closes) -> [b EXCEPT !.ok = @ /\ b.open[1].end = w, !.open = Tail(@)]
              [] w \in {"config", "comment"} -> [b EXCEPT !.parents = Append(@, b.open[1].node)]
              [] OTHER -> b
    IN FoldLeft(Read, [ok |-> TRUE, open |-> <<[end |-> NoEnd, node |-> Top]>>, parents |-> <<Nil>>],
                Unrolled(MainFile))

\* The tree has the nodes of the text in its order, each below the block it was written in, and blocks
\* end in the files that began them.  After _finalize_node, which moves nodes below the symbols they
\* depend on and drops the ifs, the tree still has every other node, in the same order.
TreeMatchesText ==
    LET ForHelp == \E f \in Files, i \in 1..Len(Projects[project]) :
                        i \in DOMAIN text[f] /\ text[f][i].tokens = <<"help">>
        menus == SelectSeq([x \in DOMAIN tree.node |-> x], LAMBDA x : tree.node[x].kind # "if")
    IN /\ status = "done" /\ ~ForHelp =>
            /\ Nesting.ok /\ Nesting.parents = [x \in DOMAIN tree.node |-> tree.node[x].parent]
       /\ status = "done" => node_iter(tree, Top) = Tail([x \in DOMAIN tree.node |-> x])
       /\ status = "finalized" =>
            /\ node_iter(tree, Top) = Tail(menus)
            /\ \A x \in ToSet(menus) : \A z \in ToSet(Children(tree, x)) : tree.node[z].parent = x

----------------------------------------------------------------------------
(* Locations.                                                              *)

\* While a line is handled, the parser's location names it: its file and number, also after help texts
\* and joined lines, and the chain of 'source' lines that led there, in which no file is twice.  Only a
\* backslash on the last line of a file makes the number one too high.
LocationsRight ==
    status = "parsing" =>
    /\ mode = "handle" =>
          \/ place.filename = at.file /\ place.linenr = at.pos
          \/ at.file \in ended /\ at.pos = Len(text[at.file]) /\ text[at.file][at.pos].cont /\ place.linenr = at.pos + 1
    /\ Len(place.include_path) = Len(filestack)
    /\ \A k \in DOMAIN place.include_path :
          LET from == place.include_path[k] IN
          /\ from[1] = filestack[k].at.file /\ from[1] # place.filename
          /\ text[from[1]][filestack[k].at.pos].tokens[1] \in {"source", "osource"}
          /\ \A j \in DOMAIN place.include_path : place.include_path[j][1] = from[1] => j = k

----------------------------------------------------------------------------
(* Conditions.                                                             *)

\* An expression's value when the items have those of env.
RECURSIVE ValueIn(_, _)
ValueIn(e, env) ==
    CASE e.op = "item"  -> env[e.name]
      [] e.op = "const" -> e.tri
      [] e.op = "and"   -> min(ValueIn(e.l, env), ValueIn(e.r, env))
      [] e.op = "or"    -> max(ValueIn(e.l, env), ValueIn(e.r, env))
      [] e.op = "not"   -> 2 - ValueIn(e.l, env)
      [] OTHER          -> IF Holds(e.op, ValueIn(e.l, env), ValueIn(e.r, env)) THEN 2 ELSE 0

\* The value of an expression's words: the first || outside parentheses, else the first &&, else the !.
RECURSIVE Meaning(_, _)
Meaning(ws, env) ==
    LET Depth(i) == Cardinality({j \in 1..i : ws[j] = "("}) - Cardinality({j \in 1..i : ws[j] = ")"})
        At(op) == {i \in DOMAIN ws : ws[i] = op /\ Depth(i) = 0}
        First(op) == CHOOSE i \in At(op) : \A j \in At(op) : i <= j
        Left(i) == Meaning(SubSeq(ws, 1, i - 1), env)
        Right(i) == Meaning(SubSeq(ws, i + 1, Len(ws)), env)
        Of(w) == IF w \in Words THEN SymOf(w).tri ELSE env[w]
    IN IF At("||") # {} THEN max(Left(First("||")), Right(First("||")))
       ELSE IF At("&&") # {} THEN min(Left(First("&&")), Right(First("&&")))
       ELSE IF ws[1] = "!" THEN 2 - Right(1)
       ELSE IF ws[1] = "(" THEN Meaning(SubSeq(ws, 2, Len(ws) - 1), env)
       ELSE IF Len(ws) = 3 THEN IF Holds(ws[2], Of(ws[1]), Of(ws[3])) THEN 2 ELSE 0
       ELSE IF ws = <<"m">> THEN min(1, env["MODULES"])
       ELSE Of(ws[1])

Valuations == [SymNames \cup DOMAIN tree.cho -> 0..2]
Least(S) == CHOOSE v \in S : \A w \in S : v <= w

\* The blocks around a node, but for the top.
RECURSIVE Around(_)
Around(x) == IF x = Top THEN {} ELSE {tree.node[x].parent} \cup Around(tree.node[x].parent)

\* Whatever the values of the symbols, the dependency of a node after _finalize_node is the least of
\* what its own text and that of the blocks around it say (a choice stands for itself), and the prompt
\* of a symbol is also limited by its own condition and by the 'visible if' of the menus around.
DependenciesPropagated ==
    status = "done" =>
    LET final == Finalize(tree).node
        Said(x, env) == {Meaning(tree.node[x].raw[k], env) : k \in DOMAIN tree.node[x].raw}
        Barrier(x) == {c \in Around(x) : tree.node[c].kind = "choice"}
        Below(x) == {a \in Around(x) : \A c \in Barrier(x) : a = c \/ c \in Around(a)}
        FromBlock(a, env) == IF tree.node[a].kind = "choice" THEN {env[tree.node[a].item]} ELSE Said(a, env)
        Expected(x, env) == Least({2} \cup Said(x, env) \cup UNION {FromBlock(a, env) : a \in Below(x)})
    IN \A env \in Valuations : \A x \in DOMAIN final :
         LET menus == {a \in Around(x) : tree.node[a].kind = "menu"}
             visible == {ValueIn(tree.node[a].visibility, env) : a \in menus}
         IN /\ ValueIn(final[x].dep, env) = Expected(x, env)
            /\ tree.node[x].kind = "sym" /\ tree.node[x].prompt # << >> =>
                  ValueIn(final[x].prompt[1], env)
                    = Least({Expected(x, env), ValueIn(tree.node[x].prompt[1], env)} \cup visible)

\* A definition as it is printed, read anew, has the same properties under the same conditions, now that
\* all dependencies are in its 'depends on' (a choice in it is understood by its name), and refers to
\* what its node does.  Properties that do nothing where they stand, as a default of a comment, are not
\* printed.
PrintedMeansSame ==
    status = "finalized" =>
    \A x \in ToSet(node_iter(tree, Top)) : \E lines \in {custom_str(tree, x)} :
        LET c == tree.node[x]
            Names == SymNames \cup DOMAIN tree.cho
            Starting(words) == SelectSeq(lines, LAMBDA l : l[1] \in words)
            Only(words) == LET ls == Starting(words) IN IF ls = << >> THEN <<"y">> ELSE SubSeq(ls[1], 3, Len(ls[1]))
            Cond(l) == LET i == SelectInSeq(l, LAMBDA w : w = "if") IN IF i = 0 THEN <<"y">> ELSE SubSeq(l, i + 1, Len(l))
            items == c.kind \in {"sym", "choice"}
            Same(words, given, env) ==
                LET ls == Starting(words) IN
                /\ Len(ls) = Len(given)
                /\ \A k \in DOMAIN ls : Least({Meaning(Cond(ls[k]), env), Meaning(Only({"depends"}), env)})
                                        = ValueIn(Last(given[k]), env)
            Prompt == SelectSeq(c.prompt, LAMBDA e : items)
            Mentioned == UNION {ToSet(l) \cap Names : l \in ToSet(Tail(lines))}
        IN /\ Mentioned \subseteq referenced(tree, x) /\ (c.kind = "sym" => Mentioned = referenced(tree, x))
           /\ \A env \in Valuations :
                /\ Meaning(Only({"depends"}), env) = ValueIn(c.dep, env)
                /\ c.kind = "menu" => Meaning(Only({"visible"}), env) = ValueIn(c.visibility, env)
                /\ items /\ Prompt # << >> =>
                      Same({"bool", "tristate", "prompt"}, [k \in DOMAIN Prompt |-> <<Prompt[k]>>], env)
                /\ items => Same({"default"}, c.defaults, env)
                /\ c.kind = "sym" => /\ Same({"range"}, c.ranges, env) /\ Same({"select"}, c.selects, env)
                                     /\ Same({"imply"}, c.implies, env)

\* The conditions of a definition are those of its text and of the blocks around it, and its printed form
\* keeps them.
ConditionsKept == DependenciesPropagated /\ PrintedMeansSame

----------------------------------------------------------------------------
(* Macros.                                                                 *)

\* The variables that a string names in macro calls without arguments.
Named(s) == {s[i].call[1][1].word : i \in {j \in DOMAIN s : IsCall(s[j])}}

RECURSIVE ReachedIn(_, _)
ReachedIn(names, steps) ==
    IF steps = 0 THEN names
    ELSE ReachedIn(names \cup UNION {Named(variables[<<v>>].value) : v \in {w \in names : <<w>> \in DOMAIN variables}},
                   steps - 1)
Reached(names) == ReachedIn(names, Cardinality(DOMAIN variables))

\* What a variable holds after := and after += to such a variable has no macros left, so that later
\* assignments do not change it.  A variable has an expansion if and only if no variable is reached from
\* it that is reached from itself.
MacrosExpand ==
    /\ \A v \in DOMAIN variables : ~variables[v].is_recursive => Named(variables[v].value) = {}
    /\ \A v \in DOMAIN variables :
         LET looped == \E w \in Reached({v[1]}) : <<w>> \in DOMAIN variables /\ w \in Reached(Named(variables[<<w>>].value))
         IN _expand_macro(variables, <<<<Word(v[1])>>>>, << >>).ok = ~looped
=============================================================================
