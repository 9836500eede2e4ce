----------------------------- MODULE LinkedList -----------------------------
(***************************************************************************)
(* The intrusive doubly linked list of include/list.h.  A memory m holds   *)
(* the next and prev word of every struct list_head of the program; list   *)
(* heads and the list_head embedded in an entry are both nodes.  Each      *)
(* operator returns the memory after the C function of the same name, with *)
(* the assignments in the order of the source, so that aliased arguments   *)
(* (a list of one entry, an empty list) behave as they do in C.            *)
(***************************************************************************)
EXTENDS Integers, Sequences, FiniteSets

CONSTANTS Node,     \* every struct list_head
          Poison    \* what list_del writes, and a word never written

ASSUME PoisonAssumption == Poison \notin Node
ASSUME FiniteAssumption == IsFiniteSet(Node)

Memory == [next : [Node -> Node \cup {Poison}],
           prev : [Node -> Node \cup {Poison}]]

INIT_LIST_HEAD(m, list) ==
    [next |-> [m.next EXCEPT ![list] = list],
     prev |-> [m.prev EXCEPT ![list] = list]]

\* next->prev = new; new->next = next; new->prev = prev; prev->next = new
__list_add(m, new, prev, next) ==
    [next |-> [m.next EXCEPT ![new] = next, ![prev] = new],
     prev |-> [m.prev EXCEPT ![next] = new, ![new] = prev]]

list_add(m, new, head) == __list_add(m, new, head, m.next[head])

list_add_tail(m, new, head) == __list_add(m, new, m.prev[head], head)

__list_del(m, prev, next) ==
    [next |-> [m.next EXCEPT ![prev] = next],
     prev |-> [m.prev EXCEPT ![next] = prev]]

list_del(m, entry) ==
    LET cut == __list_del(m, m.prev[entry], m.next[entry])
    IN  [next |-> [cut.next EXCEPT ![entry] = Poison],
         prev |-> [cut.prev EXCEPT ![entry] = Poison]]

list_del_init(m, entry) ==
    INIT_LIST_HEAD(__list_del(m, m.prev[entry], m.next[entry]), entry)

\* new->next->prev and new->prev->next are read after new's own words are set
list_replace(m, old, new) ==
    LET half == [next |-> [m.next EXCEPT ![new] = m.next[old]],
                 prev |-> [m.prev EXCEPT ![m.next[old]] = new]]
    IN  [next |-> [half.next EXCEPT ![half.prev[old]] = new],
         prev |-> [half.prev EXCEPT ![new] = half.prev[old]]]

list_replace_init(m, old, new) == INIT_LIST_HEAD(list_replace(m, old, new), old)

list_move(m, list, head) ==
    list_add(__list_del(m, m.prev[list], m.next[list]), list, head)

list_move_tail(m, list, head) ==
    list_add_tail(__list_del(m, m.prev[list], m.next[list]), list, head)

list_empty(m, head) == m.next[head] = head

list_empty_careful(m, head) == m.next[head] = head /\ m.next[head] = m.prev[head]

\* mutant: the entry that followed head keeps its prev word
__list_splice_NoBack(m, list, head) ==
    LET first == m.next[list]
        last  == m.prev[list]
        at    == m.next[head]
    IN  [next |-> [m.next EXCEPT ![head] = first, ![last] = at],
         prev |-> [m.prev EXCEPT ![first] = head]]

__list_splice(m, list, head) ==
    LET first == m.next[list]
        last  == m.prev[list]
        at    == m.next[head]
    IN  [next |-> [m.next EXCEPT ![head] = first, ![last] = at],
         prev |-> [m.prev EXCEPT ![first] = head, ![at] = last]]

list_splice(m, list, head) ==
    IF list_empty(m, list) THEN m ELSE __list_splice(m, list, head)

list_splice_init(m, list, head) ==
    IF list_empty(m, list) THEN m
    ELSE INIT_LIST_HEAD(__list_splice(m, list, head), list)

-----------------------------------------------------------------------------
(***************************************************************************)
(* list_for_each and list_for_each_prev: the entries met from head until   *)
(* the cursor is back at head.  A walk that leaves the nodes, or that does *)
(* not come back after visiting as many nodes as there are, is cut there.  *)
(***************************************************************************)
Steps(step, head) ==
    LET pos[k \in 0 .. Cardinality(Node)] ==
            IF k = 0 THEN step[head]
            ELSE IF pos[k-1] \in Node \ {head} THEN step[pos[k-1]] ELSE pos[k-1]
    IN  pos

Walk(step, head) ==
    LET pos == Steps(step, head)
        stops == {k \in 0 .. Cardinality(Node) : pos[k] \notin Node \ {head}}
        len == IF stops = {} THEN Cardinality(Node)
               ELSE CHOOSE k \in stops : \A j \in stops : k <= j
    IN  [i \in 1 .. len |-> pos[i-1]]

list_for_each(m, head) == Walk(m.next, head)

list_for_each_prev(m, head) == Walk(m.prev, head)
=============================================================================
