---------------------------- MODULE SequenceLists ----------------------------
(***************************************************************************)
(* What include/list.h promises: each list head names a sequence of        *)
(* entries, an entry is in at most one of them, and an operation changes   *)
(* the sequences as its comment says.                                      *)
(***************************************************************************)
EXTENDS Integers, Sequences, Functions

CONSTANTS Heads, Entries
VARIABLES lists,   \* the sequence of each head
          op       \* the call that has just returned

Without(s, n) ==
    IF n \in Range(s)
    THEN LET k == CHOOSE k \in DOMAIN s : s[k] = n
         IN  SubSeq(s, 1, k - 1) \o SubSeq(s, k + 1, Len(s))
    ELSE s

Idle == Entries \ UNION {Range(lists[h]) : h \in Heads}

Init == lists = [h \in Heads |-> <<>>] /\ op = <<"start">>

\* list_add ("good for implementing stacks"), list_add_tail ("queues")
PushHead(h, n) ==
    /\ op' = <<"list_add", n, h>>
    /\ n \in Idle
    /\ lists' = [lists EXCEPT ![h] = <<n>> \o @]

PushTail(h, n) ==
    /\ op' = <<"list_add_tail", n, h>>
    /\ n \in Idle
    /\ lists' = [lists EXCEPT ![h] = @ \o <<n>>]

Drop(n) ==
    /\ op' \in {<<"list_del", n>>, <<"list_del_init", n>>}
    /\ n \notin Idle
    /\ lists' = [h \in Heads |-> Without(lists[h], n)]

MoveFirst(h, n) ==
    /\ op' = <<"list_move", n, h>>
    /\ n \notin Idle
    /\ lists' = [g \in Heads |-> IF g = h THEN <<n>> \o Without(lists[g], n)
                                 ELSE Without(lists[g], n)]

MoveLast(h, n) ==
    /\ op' = <<"list_move_tail", n, h>>
    /\ n \notin Idle
    /\ lists' = [g \in Heads |-> IF g = h THEN Without(lists[g], n) \o <<n>>
                                 ELSE Without(lists[g], n)]

Substitute(old, new) ==
    /\ op' = <<"list_replace_init", old, new>>
    /\ old \notin Idle /\ new \in Idle
    /\ lists' = [h \in Heads |-> [i \in DOMAIN lists[h] |->
                    IF lists[h][i] = old THEN new ELSE lists[h][i]]]

\* the entries of "from" come first, and "from" is left empty
Join(from, to) ==
    /\ \/ op' = <<"list_replace_init", from, to>> /\ lists[to] = <<>>
       \/ op' \in {<<"list_splice", from, to>>, <<"list_splice_init", from, to>>}
    /\ from # to
    /\ lists' = [lists EXCEPT ![to] = lists[from] \o @, ![from] = <<>>]

Reinit(h) ==
    /\ op' = <<"INIT_LIST_HEAD", h>>
    /\ lists[h] = <<>>
    /\ UNCHANGED lists

Next ==
    \/ \E h \in Heads, n \in Entries :
          PushHead(h, n) \/ PushTail(h, n) \/ MoveFirst(h, n) \/ MoveLast(h, n)
    \/ \E n \in Entries : Drop(n)
    \/ \E old, new \in Entries : Substitute(old, new)
    \/ \E from, to \in Heads : Join(from, to)
    \/ \E h \in Heads : Reinit(h)

Spec == Init /\ [][Next]_<<lists, op>>
=============================================================================
