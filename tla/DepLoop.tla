------------------------------- MODULE DepLoop -------------------------------
(***************************************************************************)
(* _check_dep_loop_sym and _check_dep_loop_choice: a depth-first search of *)
(* the dependents of symbols and choices, as Kconfig.__init__ runs it on   *)
(* each symbol before the first value is computed.                         *)
(*                                                                         *)
(* graph.dep is _dependents, before the choices are made to depend on      *)
(* their symbols, and graph.members the symbols of each choice.  A frame   *)
(* of the stack is a call under way: 'in' is the choice a symbol has still *)
(* to look into, 'todo' what is left of the loop over dependents.          *)
(***************************************************************************)
EXTENDS Integers, Sequences, FiniteSets

VARIABLES graph,        \* the dependency graph, fixed
          visited,      \* _visited: 0, 1 (in progress) or 2 (not part of a loop)
          stack,        \* the calls under way
          loop          \* the items recorded on the way back, empty before a loop is found

loopVars == <<graph, visited, stack, loop>>

None_ == "none"
Items_ == DOMAIN graph.dep
Chos_ == DOMAIN graph.members
Symbols_ == DOMAIN graph.dep \ Chos_
ChoiceOf(s) == IF \E c \in Chos_ : s \in graph.members[c]
               THEN CHOOSE c \in Chos_ : s \in graph.members[c] ELSE None_

LoopInit(g) ==
    /\ graph = g
    /\ visited = [i \in DOMAIN g.dep |-> 0]
    /\ stack = << >>
    /\ loop = << >>

CallSym(s, ignore_choice) ==
    [item |-> s, todo |-> graph.dep[s], in |-> IF ignore_choice THEN None_ ELSE ChoiceOf(s)]

\* A mutant: a choice entered through one of its symbols is taken for checked.
CallChoice_SkipsAll(c, skip) ==
    [item |-> c, todo |-> IF skip = None_ THEN graph.members[c] ELSE {}, in |-> None_]

CallChoice(c, skip) == [item |-> c, todo |-> graph.members[c] \ {skip}, in |-> None_]

frame == stack[Len(stack)]

\* The call of _check_dep_loop_* on item i, made from the frame that 'below' becomes.
Check(i, call, below) ==
    CASE visited[i] = 0 -> /\ visited' = [visited EXCEPT ![i] = 1]
                           /\ stack' = Append(below, call)
                           /\ UNCHANGED loop
      [] visited[i] = 1 -> /\ loop' = <<i>>
                           /\ stack' = below
                           /\ UNCHANGED visited
      [] OTHER          -> /\ stack' = below
                           /\ UNCHANGED <<visited, loop>>

CheckSym(s) ==
    /\ stack = << >> /\ loop = << >> /\ s \in Symbols_ /\ visited[s] = 0
    /\ Check(s, CallSym(s, FALSE), << >>)
    /\ UNCHANGED graph

\* The next dependent of a symbol, or the next symbol of a choice.
Examine ==
    /\ stack # << >> /\ loop = << >>
    /\ \E i \in frame.todo :
          Check(i, IF i \in Chos_ THEN CallChoice(i, None_)
                   ELSE CallSym(i, frame.item \in Chos_),
                [stack EXCEPT ![Len(stack)].todo = @ \ {i}])
    /\ UNCHANGED graph

EnterChoice ==
    /\ stack # << >> /\ loop = << >> /\ frame.todo = {} /\ frame.in # None_
    /\ Check(frame.in, CallChoice(frame.in, frame.item), [stack EXCEPT ![Len(stack)].in = None_])
    /\ UNCHANGED graph

\* The item is not part of a loop.
ReturnClean ==
    /\ stack # << >> /\ loop = << >> /\ frame.todo = {} /\ frame.in = None_
    /\ visited' = [visited EXCEPT ![frame.item] = 2]
    /\ stack' = SubSeq(stack, 1, Len(stack) - 1)
    /\ UNCHANGED <<graph, loop>>

\* _found_dep_loop while the item where the loop started has not been reached.
ReturnLoop ==
    /\ stack # << >> /\ loop # << >> /\ frame.item # loop[1]
    /\ loop' = Append(loop, frame.item)
    /\ stack' = SubSeq(stack, 1, Len(stack) - 1)
    /\ UNCHANGED <<graph, visited>>

LoopFound == stack # << >> /\ loop # << >> /\ frame.item = loop[1]
Clean == stack = << >> /\ loop = << >> /\ \A s \in Symbols_ : visited[s] # 0

LoopNext == (\E s \in Symbols_ : CheckSym(s)) \/ Examine \/ EnterChoice \/ ReturnClean \/ ReturnLoop

\* The graph of a configuration: the members of choices are symbols, and no symbol is in two of them.
IsGraph(g) ==
    /\ g.dep \in [DOMAIN g.dep -> SUBSET DOMAIN g.dep]
    /\ g.members \in [DOMAIN g.members -> SUBSET (DOMAIN g.dep \ DOMAIN g.members)]
    /\ DOMAIN g.members \subseteq DOMAIN g.dep
    /\ \A c, d \in DOMAIN g.members : c # d => g.members[c] \cap g.members[d] = {}
    /\ None_ \notin DOMAIN g.dep

LoopSpec == (\E g : IsGraph(g) /\ LoopInit(g)) /\ [][LoopNext]_loopVars

----------------------------------------------------------------------------
(* Properties.                                                             *)

\* A loop: some groups, each with an item that has an item of one of them next to it.
Circular(next, group) ==
    \E S \in SUBSET {group[i] : i \in {k \in DOMAIN next : next[k] # {}}} :
        /\ S # {}
        /\ \A a \in S : \E i \in DOMAIN next : group[i] = a /\ \E j \in next[i] : group[j] \in S

\* The order in which values are computed, a choice standing for all of its symbols: which of them
\* is selected depends on the others.
Group(i) == IF ChoiceOf(i) = None_ THEN i ELSE ChoiceOf(i)
Dependents(i) == IF i \in Chos_ THEN graph.dep[i] \ graph.members[i] ELSE graph.dep[i]
Circle == Circular([i \in Items_ |-> Dependents(i)], [i \in Items_ |-> Group(i)])

\* The loops that the search meets in whatever order it takes the items.  It does not follow the
\* dependents of a choice other than its symbols, and a choice and its symbols count as one only if
\* there are no more than two of them and the choice is a dependent of nothing.
Plain(c) == /\ \A i \in Items_ : c \notin graph.dep[i]
            /\ \A r, s, t \in graph.members[c] : r = s \/ s = t \/ t = r
PlainGroup(i) == IF ChoiceOf(i) # None_ /\ Plain(ChoiceOf(i)) THEN ChoiceOf(i) ELSE i
Searched(i) == IF i \notin Chos_ THEN graph.dep[i] ELSE IF Plain(i) THEN {} ELSE graph.members[i]
PlainCircle == Circular([i \in Items_ |-> Searched(i)], [i \in Items_ |-> PlainGroup(i)])

\* The search never reports a loop that is not there; a loop it meets is reported, for the item where
\* it starts is still being searched; and what it reports is one: each item is a dependent of the next,
\* the last of the first, or shares a choice with it.
LoopIsReal ==
    /\ loop # << >> => \E k \in DOMAIN stack : stack[k].item = loop[1]
    /\ LoopFound => Circle
    /\ LoopFound =>
         \A k \in DOMAIN loop :
              LET j == loop[k]
                  i == IF k = Len(loop) THEN loop[1] ELSE loop[k + 1]
              IN j \in graph.dep[i] \/ Group(i) = Group(j)

\* The search ends clean only if there is no loop, between symbols and choices or inside a choice.
NoLoopMissed == Clean => ~Circle

\* The search ends clean only if there is no loop of those that the order of the items cannot hide: a
\* symbol is taken for checked (_visited is 2) only when all that depends on it is.
PlainLoopFound == Clean => ~PlainCircle

\* The search rejects only configurations that have a loop, and every one with a loop that a choice of
\* three symbols, or one with other dependencies, does not hide.
LoopDetection == LoopIsReal /\ PlainLoopFound
=============================================================================
