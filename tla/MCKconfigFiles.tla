--------------------------- MODULE MCKconfigFiles ---------------------------
EXTENDS KconfigFiles, KconfigTrees

NoHand == {<< >>}

Valued(tree, settable, hand) ==
    [trees |-> <<tree>>, ops |-> {"set", "load", "min"}, settable |-> settable, hand |-> hand,
     assignments |-> {}, defconfigs |-> <<<<"hand", Yes>>>>, max |-> 1]

\* Programs that make a configuration and write it, which may begin with a file of the user.
Makers == {"alldefconfig", "allnoconfig", "allyesconfig", "allmodconfig", "defconfig", "setconfig", "oldconfig"}
Tools(tree, hand, assignments) ==
    [Valued(tree, {}, hand) EXCEPT !.ops = Makers, !.assignments = assignments]

\* Two programs one after the other, of which the second finds what the first has left.
Converters == {"allmodconfig", "olddefconfig", "oldconfig", "savedefconfig", "genconfig"}

\* A has a default of y and can be set to m at most; T is in a choice that begins in m mode.
Above == Parsed(
    <<Main,
      <<"sym", "MODULES", Top, [prompt |-> <<Yes>>, defaults |-> <<<<Yes, Yes>>>>]>>,
      <<"sym", "A", Top, [prompt |-> <<Mod>>, defaults |-> <<<<Yes, Yes>>>>]>>,
      <<"choice", "C", Top, Prompted>>,
      <<"sym", "T", 4, Prompted>>,
      <<"sym", "B", 4, Prompted>> >>,
    ("MODULES" :> "bool" @@ "A" :> "tristate" @@ "T" :> "tristate" @@ "B" :> "bool"),
    "C" :> [type |-> "tristate"])

\* A bool choice that may be left out, with a default.
Optional == Parsed(
    <<Main,
      <<"choice", "C", Top, [prompt |-> <<Yes>>, defaults |-> <<<<Item("Y"), Yes>>>>]>>,
      <<"sym", "X", 2, Prompted>>,
      <<"sym", "Y", 2, Prompted>>,
      <<"sym", "MODULES", Top, << >>>> >>,
    ("MODULES" :> "unknown" @@ "X" :> "bool" @@ "Y" :> "bool"),
    "C" :> [type |-> "bool", optional |-> TRUE])

\* Lines that set the mode of a choice in two ways, set a symbol twice, to no value of its type, and
\* set one that does not exist.
ChoiceLines == {<< >>, <<<<"X", 1>>>>, <<<<"Y", 2>>, <<"X", 1>>>>, <<<<"X", 2>>, <<"X", 0>>>>, <<<<"Z", 1>>, <<"NONE", 2>>>>}

\* What a build goes through: A is defined, is gone, or is gone and still referred to.
Flat(symbols, types) == Parsed(<<Main>> \o symbols, types, NoChoices)
Plain(s) == <<"sym", s, Top, Prompted>>
Unknown == "MODULES" :> "unknown"
Full == Flat(<<Plain("A"), Plain("B"), <<"sym", "K", Top, [dep |-> Item("A"), defaults |-> <<<<Number(5), Yes>>>>]>>>>,
             Unknown @@ "A" :> "bool" @@ "B" :> "bool" @@ "K" :> "int")
Gone == Flat(<<Plain("B")>>, Unknown @@ "B" :> "bool")
Referred == Flat(<<<<"sym", "B", Top, [prompt |-> <<Not(Item("A"))>>]>>>>, Unknown @@ "A" :> "unknown" @@ "B" :> "bool")

\* The first symbol, and a symbol of the choice, depend on the last one.
Later == Parsed(
    <<Main,
      <<"sym", "MODULES", Top, << >>>>,
      <<"sym", "E", Top, [prompt |-> <<Item("L")>>]>>,
      <<"choice", "C", Top, Prompted>>,
      <<"sym", "X", 4, Prompted>>,
      <<"sym", "Y", 4, [prompt |-> <<Item("L")>>]>>,
      <<"sym", "L", Top, Prompted>> >>,
    ("MODULES" :> "unknown" @@ "E" :> "bool" @@ "X" :> "bool" @@ "Y" :> "bool" @@ "L" :> "bool"),
    "C" :> [type |-> "bool"])

\* Saves, and builds whose Kconfig files change, which are cut off; then what the values of seven
\* configurations become in files; then the programs that make a configuration.
ScenariosDef ==
    <<[trees |-> <<Full>>, ops |-> {"set", "save", "crash"}, settable |-> {"A", "B"}, hand |-> NoHand,
       assignments |-> {}, defconfigs |-> << >>, max |-> 5],
      [trees |-> <<Full, Gone, Referred>>, ops |-> {"set", "sync", "crash"}, settable |-> {"A", "B"}, hand |-> NoHand,
       assignments |-> {}, defconfigs |-> << >>, max |-> 6],
      Valued(Selects, {"SWITCH", "A", "B", "D"}, NoHand), Valued(Implies, {"SWITCH", "A", "E"}, NoHand),
      Valued(Choices, {"X", "Y", "Z"}, ChoiceLines), Valued(Menus, {"X", "Y", "W"}, NoHand),
      Valued(Optional, {"X", "Y"}, {<<<<"X", 2>>>>}), Valued(Above, {"MODULES", "A", "T", "B"}, {<<<<"T", 1>>>>}),
      Valued(Numbers, {"FAST", "LIMIT", "SPEED", "NAME"}, {<<<<"LIMIT", Empty>>, <<"SPEED", 5>>>>}),
      Tools(Selects, {<< >>, <<<<"A", 1>>>>}, {<<<<"A", 2>>, <<"D", 0>>>>, <<<<"SWITCH", 2>>, <<"A", 1>>>>}),
      Tools(Implies, {<<<<"SWITCH", 2>>>>}, {<<<<"E", 0>>>>}),
      Tools(Choices, {<< >>, <<<<"X", 1>>>>, <<<<"Y", 1>>, <<"Z", 0>>>>}, {<<<<"X", 2>>, <<"Z", 2>>>>, <<<<"NONE", 0>>>>}),
      Tools(Menus, {<<<<"W", 2>>>>, <<<<"Y", 2>>>>}, {}),
      Tools(Numbers, {<< >>, <<<<"SPEED", 2>>>>}, {<<<<"FAST", 2>>, <<"LIMIT", 5>>>>}),
      Tools(Later, {<< >>, <<<<"X", 2>>>>, <<<<"E", 2>>, <<"L", 2>>>>}, {<<<<"L", 2>>, <<"Y", 2>>, <<"L", 0>>>>}),
      [Tools(Implies, {<<<<"SWITCH", 2>>>>}, {}) EXCEPT !.ops = Converters, !.max = 2]>>
=============================================================================
