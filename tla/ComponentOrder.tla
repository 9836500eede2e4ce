--------------------------- MODULE ComponentOrder ---------------------------
(***************************************************************************)
(* sort_components.py: the components in the order in which CMake takes    *)
(* them.  A component is a pair <<folder, name>>; the priority file is a   *)
(* sequence of names.                                                      *)
(***************************************************************************)
EXTENDS Naturals, Sequences, SequencesExt

\* The place of a name in the priority file: its last one, if it is there several times.
dict_order(priority, name) == SelectLastInSeq(priority, LAMBDA p : p = name)

\* A mutant: goes before components of the same place.
Inserted_NotAfter(priority, sorted, component) ==
    LET j == SelectInSeq(sorted, LAMBDA tmp : dict_order(priority, component[2]) <= dict_order(priority, tmp[2]))
    IN IF j = 0 THEN Append(sorted, component) ELSE InsertAt(sorted, j, component)

\* Before the first component that has a later place.
Inserted(priority, sorted, component) ==
    LET j == SelectInSeq(sorted, LAMBDA tmp : dict_order(priority, component[2]) < dict_order(priority, tmp[2]))
    IN IF j = 0 THEN Append(sorted, component) ELSE InsertAt(sorted, j, component)

\* The two lists after the first k components.
Taken(priority, components) ==
    LET taken[k \in 0..Len(components)] ==
            IF k = 0 THEN [final |-> << >>, not_ordered |-> << >>]
            ELSE IF dict_order(priority, components[k][2]) = 0
                 THEN [taken[k-1] EXCEPT !.not_ordered = Append(@, components[k])]
                 ELSE [taken[k-1] EXCEPT !.final = Inserted(priority, @, components[k])]
    IN taken

SortComponents(priority, components) ==
    LET lists == Taken(priority, components)[Len(components)] IN lists.final \o lists.not_ordered

\* Components with a place stand before those without and in the order of their places; what the
\* places do not tell apart stays in the order found.
InOrder(priority, components, sorted) ==
    LET At(s, c) == SelectInSeq(s, LAMBDA d : d = c)
        Place(c) == IF dict_order(priority, c[2]) = 0 THEN Len(priority) + 1 ELSE dict_order(priority, c[2])
    IN /\ Len(sorted) = Len(components) /\ ToSet(sorted) = ToSet(components)
       /\ \A c, d \in ToSet(components) :
            Place(c) < Place(d) \/ (Place(c) = Place(d) /\ At(components, c) < At(components, d))
              => At(sorted, c) < At(sorted, d)
=============================================================================
