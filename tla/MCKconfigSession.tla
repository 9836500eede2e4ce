-------------------------- MODULE MCKconfigSession --------------------------
EXTENDS KconfigSession, KconfigTrees

Trees == {Selects, Implies, Choices, Implied, Menus, Outside, Numbers}

\* Symbols and a choice that may depend on each other in a circle, directly, through a select, or
\* through the choice, which has two or three symbols.  Y may end up in a submenu of X.
LoopedBy(third, choice, first, second, p, q, select) == Parsed(
    <<Main, <<"choice", "L", Top, [prompt |-> <<Yes>>, dep |-> choice]>> >>
    \o third \o
    << <<"sym", "L1", 2, [prompt |-> <<Yes>>, dep |-> first]>>,
       <<"sym", "L2", 2, [prompt |-> <<second>>, dep |-> second]>>,
       <<"sym", "P", Top, [prompt |-> <<Yes>>, dep |-> p]>>,
       <<"sym", "Q", Top, [prompt |-> <<q>>, selects |-> select]>>,
       <<"sym", "MODULES", Top, << >>>> >>,
    ("MODULES" :> "unknown" @@ "L0" :> "bool" @@ "L1" :> "bool" @@ "L2" :> "bool" @@ "P" :> "bool" @@ "Q" :> "bool"),
    "L" :> [type |-> "bool"])
Looped == {LoopedBy(third, choice, first, second, p, q, select) :
  third \in {<< >>, << <<"sym", "L0", 2, Prompted>> >>},
  choice \in {Yes, Item("P")}, first \in {Yes, Item("P"), Item("Q")}, second \in {Yes, Item("L1"), Rel("=", Item("L1"), Yes)},
  p \in {Yes, Item("L1"), Not(Item("L2")), Item("Q"), Item("P")}, q \in {Yes, Item("P"), Item("L1")},
  select \in {<< >>, <<<<"P", Yes>>>>} }

ValuesDef == 0..3
SettableDef == {"SWITCH", "A", "B", "D", "E", "C", "X", "Y", "R", "W", "FAST", "LIMIT", "SPEED"}
UsedDef == {"A", "B", "D", "E", "F", "G", "C", "X", "Z", "W", "S", "FAST", "LIMIT", "SPEED", "NAME"}
Init == \E t \in Trees \cup Looped : InitFrom(Finalize(t))

\* The values of a configuration whose loop the search has missed cannot be computed.
Computable == phase = "check" => NoLoopMissed
Spec == Init /\ [][Computable /\ Next]_vars

\* What a caller meets when it sets a circle free: a symbol inside a menu of a choice on which the
\* choice depends.
Missed == Parsed(
    <<Main,
      <<"choice", "L", Top, [prompt |-> <<Yes>>, dep |-> Item("M")]>>,
      <<"sym", "L1", 2, Prompted>>,
      <<"menu", "m", 2, Prompted>>,
      <<"sym", "M", 4, Prompted>>,
      <<"sym", "MODULES", Top, << >>>> >>,
    ("MODULES" :> "unknown" @@ "L1" :> "bool" @@ "M" :> "bool"),
    "L" :> [type |-> "bool"])
MissedSpec == InitFrom(Finalize(Missed)) /\ [][Next]_vars
=============================================================================
