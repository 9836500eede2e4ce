--------------------------- MODULE MCMenuConfig ---------------------------
EXTENDS MenuConfig, KconfigTrees

Screen(height, width) == [height |-> height, width |-> width]
Disks(configs) ==
    {(".config" :> config @@ "other" :> Missing @@ "defconfig" :> Missing) : config \in configs}
None1 == Disks({Missing})

\* A scenario of what the user does, in which all else is as small as can be.
User(tree, ops, count) ==
    [tree |-> tree, menuconfig |-> {}, screens |-> {Screen(12, 30)}, disks |-> None1, ops |-> ops, values |-> {},
     matches |-> << >>, searches |-> {}, info |-> 3, typing |-> 1, longest |-> 1, max |-> count]

\* A menu visible if W, a 'menuconfig' symbol K with a child, P with a prompt only if W and a child that
\* is visible always, and the implicit menu of A.
Nested1 == Parsed(
    <<Main,
      <<"sym", "A", Top, Prompted>>,
      <<"sym", "B", Top, [prompt |-> <<Yes>>, dep |-> Item("A")]>>,
      <<"menu", "m", Top, [prompt |-> <<Yes>>, visibility |-> Item("W")]>>,
      <<"sym", "K", 4, [prompt |-> <<Yes>>]>>,
      <<"sym", "L", 4, [prompt |-> <<Yes>>, dep |-> Item("K")]>>,
      <<"sym", "P", Top, [prompt |-> <<Item("W")>>, defaults |-> <<<<Yes, Yes>>>>]>>,
      <<"sym", "Q", Top, [prompt |-> <<Yes>>, dep |-> Item("P")]>>,
      <<"sym", "W", Top, Prompted>>,
      <<"sym", "MODULES", Top, << >>>> >>,
    ("MODULES" :> "unknown" @@ "A" :> "bool" @@ "B" :> "bool" @@ "K" :> "bool" @@ "L" :> "bool" @@ "P" :> "bool"
     @@ "Q" :> "bool" @@ "W" :> "bool"), NoChoices)

\* A choice with two locations, the second visible if W; S is defined in both, and Y only in the second.
Twice == Parsed(
    <<Main,
      <<"choice", "C", Top, Prompted>>,
      <<"sym", "X", 2, Prompted>>,
      <<"sym", "S", 2, Prompted>>,
      <<"menu", "m", Top, Prompted>>,
      <<"choice", "C", 5, [prompt |-> <<Item("W")>>]>>,
      <<"sym", "Y", 6, Prompted>>,
      <<"sym", "S", 6, [prompt |-> <<Item("W")>>]>>,
      <<"sym", "W", Top, Prompted>>,
      <<"sym", "MODULES", Top, << >>>> >>,
    ("MODULES" :> "unknown" @@ "X" :> "bool" @@ "Y" :> "bool" @@ "S" :> "bool" @@ "W" :> "bool"),
    "C" :> [type |-> "bool"])

\* P can be set at its second definition also when its first is shown for the child Q only.
Shared == Parsed(
    <<Main,
      <<"sym", "P", Top, [prompt |-> <<Item("W")>>, defaults |-> <<<<Yes, Yes>>>>]>>,
      <<"sym", "Q", Top, [prompt |-> <<Yes>>, dep |-> Item("P")]>>,
      <<"sym", "P", Top, Prompted>>,
      <<"sym", "W", Top, Prompted>>,
      <<"sym", "MODULES", Top, << >>>> >>,
    ("MODULES" :> "unknown" @@ "P" :> "bool" @@ "Q" :> "bool" @@ "W" :> "bool"), NoChoices)

\* A list longer than the window, every other entry visible.
Long == Parsed(
    <<Main>> \o [k \in 1..13 |-> <<"comment", "c", Top, IF k % 3 = 2 THEN [prompt |-> <<No>>] ELSE Prompted>>],
    "MODULES" :> "unknown", NoChoices)

\* A menu below the lower edge of a small window.
Below == Parsed(
    <<Main>> \o [k \in 1..9 |-> <<"comment", "c", Top, Prompted>>]
             \o <<<<"menu", "m", Top, Prompted>>, <<"comment", "c", 11, Prompted>>>>,
    "MODULES" :> "unknown", NoChoices)

\* What is saved: a value above its visibility, a choice whose default is a bool symbol, a symbol that
\* needs the choice.
Saving == Parsed(
    <<Main,
      <<"sym", "MODULES", Top, [defaults |-> <<<<Yes, Yes>>>>]>>,
      <<"choice", "C", Top, [prompt |-> <<Yes>>, defaults |-> <<<<Item("Y"), Yes>>>>]>>,
      <<"sym", "X", 3, Prompted>>,
      <<"sym", "Y", 3, Prompted>>,
      <<"sym", "V", Top, [prompt |-> <<Item("Y")>>, defaults |-> <<<<Yes, Yes>>>>]>> >>,
    ("MODULES" :> "bool" @@ "X" :> "tristate" @@ "Y" :> "bool" @@ "V" :> "tristate"),
    "C" :> [type |-> "tristate"])
Configs == {Missing, Holding(<<<<"MODULES", 2>>, <<"X", 1>>>>), Holding(<<<<"NONE", 2>>>>),
            Holding(<<<<"MODULES", 2>>, <<"X", 2>>, <<"V", 0>>>>)}

\* A tristate with a default of y that can be set to m at most, and a number whose range ends at a
\* symbol without a value.
Odd == Parsed(
    <<Main,
      <<"sym", "MODULES", Top, [defaults |-> <<<<Yes, Yes>>>>]>>,
      <<"sym", "A", Top, [prompt |-> <<Mod>>, defaults |-> <<<<Yes, Yes>>>>]>>,
      <<"sym", "LIMIT", Top, Prompted>>,
      <<"sym", "SPEED", Top, [prompt |-> <<Yes>>, ranges |-> <<<<Number(1), Item("LIMIT"), Item("A")>>>>]>>,
      <<"sym", "NAME", Top, [prompt |-> <<Yes>>]>> >>,
    ("MODULES" :> "bool" @@ "A" :> "tristate" @@ "LIMIT" :> "int" @@ "SPEED" :> "int" @@ "NAME" :> "string"),
    NoChoices)

ScenariosDef ==
    <<[User(Nested1, {"move", "go", "all", "jump"}, 6) EXCEPT !.menuconfig = {5}, !.matches = <<2, 3, 5, 6, 7, 8, 4>>],
      [User(Twice, {"move", "go", "all", "jump"}, 7) EXCEPT !.matches = <<8, 7, 6>>],
      User(Shared, {"move", "go"}, 6),
      [User(Long, {"move", "all", "jump", "resize", "go"}, 5) EXCEPT
          !.matches = [k \in 1..13 |-> k + 1], !.info = 14, !.screens = {Screen(8, 30), Screen(14, 30), Screen(24, 30)}],
      [User(Below, {"move", "go", "resize"}, 6) EXCEPT !.screens = {Screen(8, 30), Screen(24, 30)}],
      [User(Long, {"edit", "save", "jump", "resize", "go"}, 6) EXCEPT
          !.screens = {Screen(24, 14), Screen(24, 30)}, !.matches = <<3, 6>>, !.searches = {{}, {6}}, !.typing = 8,
          !.longest = 12],
      [User(Saving, {"move", "go", "load", "save", "quit"}, 7) EXCEPT !.disks = Disks(Configs)],
      [User(Odd, {"move", "go"}, 6) EXCEPT !.values = {Empty, 0, 2}]>>
=============================================================================
