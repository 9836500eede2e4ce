---------------------------- MODULE KconfigTrees ----------------------------
(***************************************************************************)
(* The configurations that the models work on, as the parser leaves them.  *)
(***************************************************************************)
EXTENDS KconfigMenu, TLC

\* A parsed tree from a sequence of nodes <<kind, item, parent, fields>>, a function from symbols
\* to types and one from choices to the fields of the choice.
Parsed(nodes, types, choices) ==
    LET With(r, fields) == [f \in DOMAIN r |-> IF f \in DOMAIN fields THEN fields[f] ELSE r[f]]
        N == DOMAIN nodes
        First(S) == IF S = {} THEN Nil ELSE CHOOSE x \in S : \A y \in S : x <= y
        Numbers(S) == [k \in 1..Cardinality(S) |-> CHOOSE x \in S : Cardinality({y \in S : y <= x}) = k]
        Of(kind, i) == Numbers({x \in N : nodes[x][1] = kind /\ nodes[x][2] = i})
    IN [node |-> [x \in N |->
            [With(NewNode(nodes[x][1], nodes[x][2], nodes[x][3]), nodes[x][4]) EXCEPT
                !.next = First({y \in N : y > x /\ nodes[y][3] = nodes[x][3]}),
                !.list = First({y \in N : nodes[y][3] = x})]],
        sym |-> [s \in DOMAIN types |-> [NewSymbol EXCEPT !.type = types[s], !.nodes = Of("sym", s)]],
        cho |-> [c \in DOMAIN choices |-> With([NewChoice EXCEPT !.nodes = Of("choice", c)], choices[c])]]

Main == <<"menu", "main", Nil, [prompt |-> <<Yes>>]>>
Prompted == [prompt |-> <<Yes>>]
NoChoices == [c \in {} |-> << >>]

\* Modules are on while SWITCH is y.  D is selected by B in spite of its own dependency.
Selects == Parsed(
    <<Main,
      <<"sym", "SWITCH", Top, Prompted>>,
      <<"sym", "MODULES", Top, [defaults |-> <<<<Yes, Item("SWITCH")>>>>]>>,
      <<"sym", "A", Top, Prompted>>,
      <<"sym", "B", Top, [prompt |-> <<Yes>>, dep |-> Item("A"), selects |-> <<<<"D", Item("A")>>>>]>>,
      <<"sym", "D", Top, [prompt |-> <<Item("SWITCH")>>, dep |-> Item("SWITCH")]>> >>,
    ("SWITCH" :> "bool" @@ "MODULES" :> "bool" @@ "A" :> "tristate" @@ "B" :> "tristate" @@ "D" :> "tristate"),
    NoChoices)

\* A implies E, whose default depends on modules, and G, which needs modules off; F needs E.
Implies == Parsed(
    <<Main,
      <<"sym", "SWITCH", Top, Prompted>>,
      <<"sym", "MODULES", Top, [defaults |-> <<<<Yes, Item("SWITCH")>>>>]>>,
      <<"sym", "A", Top, [prompt |-> <<Yes>>, implies |-> <<<<"E", Yes>>, <<"G", Yes>>>>]>>,
      <<"sym", "G", Top, [dep |-> Not(Item("SWITCH"))]>>,
      <<"sym", "E", Top, [prompt |-> <<Yes>>, defaults |-> <<<<Mod, Not(Item("MODULES"))>>>>]>>,
      <<"sym", "F", Top, [dep |-> Item("E"), defaults |-> <<<<Yes, Yes>>>>]>> >>,
    ("SWITCH" :> "bool" @@ "MODULES" :> "bool" @@ "A" :> "tristate" @@ "E" :> "tristate" @@ "G" :> "bool" @@ "F" :> "bool"),
    NoChoices)

\* An optional tristate choice with a symbol that is at most m and one that is y or n.
Choices == Parsed(
    <<Main,
      <<"sym", "MODULES", Top, [defaults |-> <<<<Yes, Yes>>>>]>>,
      <<"choice", "C", Top, [prompt |-> <<Yes>>, defaults |-> <<<<Item("Z"), Yes>>>>]>>,
      <<"sym", "X", 3, Prompted>>,
      <<"sym", "Y", 3, [prompt |-> <<Mod>>]>>,
      <<"sym", "Z", 3, Prompted>> >>,
    ("MODULES" :> "bool" @@ "Z" :> "bool" @@ "X" :> "tristate" @@ "Y" :> "tristate"),
    "C" :> [type |-> "tristate", optional |-> TRUE])

\* A tristate choice, with W implying one of its symbols and selecting the other.
Implied == Parsed(
    <<Main,
      <<"sym", "MODULES", Top, [defaults |-> <<<<Yes, Yes>>>>]>>,
      <<"choice", "C", Top, [prompt |-> <<Yes>>]>>,
      <<"sym", "X", 3, Prompted>>,
      <<"sym", "R", 3, Prompted>>,
      <<"sym", "W", Top, [prompt |-> <<Yes>>, implies |-> <<<<"X", Yes>>>>, selects |-> <<<<"R", Yes>>>>]>> >>,
    ("MODULES" :> "bool" @@ "X" :> "tristate" @@ "R" :> "tristate" @@ "W" :> "bool"),
    "C" :> [type |-> "tristate"])

\* A bool choice, its type taken from its symbols, inside a menu that is visible if !W; S lies below X.
Menus == Parsed(
    <<Main,
      <<"menu", "m", Top, [prompt |-> <<Yes>>, visibility |-> Not(Item("W"))]>>,
      <<"choice", "C", 2, Prompted>>,
      <<"sym", "X", 3, Prompted>>,
      <<"sym", "Y", 3, Prompted>>,
      <<"sym", "S", 2, [dep |-> Item("X"), defaults |-> <<<<Yes, Yes>>>>]>>,
      <<"sym", "W", Top, Prompted>>,
      <<"sym", "MODULES", Top, << >>>> >>,
    ("MODULES" :> "unknown" @@ "X" :> "bool" @@ "Y" :> "bool" @@ "S" :> "bool" @@ "W" :> "bool"),
    "C" :> [type |-> "unknown"])

\* A choice whose default, V, is not one of its symbols and is shown while W is y.
Outside == Parsed(
    <<Main,
      <<"sym", "W", Top, Prompted>>,
      <<"sym", "V", Top, [prompt |-> <<Item("W")>>]>>,
      <<"choice", "C", Top, [prompt |-> <<Yes>>, defaults |-> <<<<Item("V"), Yes>>>>]>>,
      <<"sym", "X", 4, Prompted>>,
      <<"sym", "Y", 4, Prompted>>,
      <<"sym", "S", Top, [dep |-> Item("X"), defaults |-> <<<<Yes, Yes>>>>]>>,
      <<"sym", "MODULES", Top, << >>>> >>,
    ("MODULES" :> "unknown" @@ "W" :> "bool" @@ "V" :> "bool" @@ "X" :> "bool" @@ "Y" :> "bool" @@ "S" :> "bool"),
    "C" :> [type |-> "bool"])

\* Numbers: the range of SPEED ends at LIMIT, whose own range depends on FAST.
Numbers == Parsed(
    <<Main,
      <<"sym", "FAST", Top, Prompted>>,
      <<"sym", "LIMIT", Top, [prompt |-> <<Yes>>, defaults |-> <<<<Number(2), Yes>>>>,
                              ranges |-> <<<<Number(2), Number(3), Item("FAST")>>>>]>>,
      <<"sym", "SPEED", Top, [prompt |-> <<Rel(">", Item("LIMIT"), Number(1))>>,
                              defaults |-> <<<<Item("LIMIT"), Item("FAST")>>>>,
                              ranges |-> <<<<Number(1), Item("LIMIT"), Yes>>>>]>>,
      <<"sym", "NAME", Top, [prompt |-> <<Yes>>, defaults |-> <<<<Item("SPEED"), Item("FAST")>>>>]>>,
      <<"sym", "MODULES", Top, << >>>> >>,
    ("MODULES" :> "unknown" @@ "FAST" :> "bool" @@ "LIMIT" :> "int" @@ "SPEED" :> "int" @@ "NAME" :> "string"),
    NoChoices)
=============================================================================
