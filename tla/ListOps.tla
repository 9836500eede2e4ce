------------------------------- MODULE ListOps -------------------------------
(***************************************************************************)
(* Any legal sequence of calls of include/list.h, by one caller, on a few  *)
(* list heads and entries.  list_splice leaves the joined head with stale  *)
(* words, which only INIT_LIST_HEAD may follow.                            *)
(***************************************************************************)
EXTENDS LinkedList

CONSTANT Heads      \* the nodes that are list heads; the others are entries

ASSUME HeadsAssumption == Heads \subseteq Node

VARIABLES mem,      \* the words of every node
          stale,    \* the heads whose entries list_splice gave away
          op        \* the call that has just returned

vars == <<mem, stale, op>>

Entries == Node \ Heads

Live == Heads \ stale

Listed(h) == LET s == list_for_each(mem, h) IN {s[i] : i \in DOMAIN s}

Loose == Entries \ UNION {Listed(h) : h \in Live}

Init ==
    /\ mem = [next |-> [n \in Node |-> IF n \in Heads THEN n ELSE Poison],
              prev |-> [n \in Node |-> IF n \in Heads THEN n ELSE Poison]]
    /\ stale = {}
    /\ op = <<"start">>

Insert(n, h) ==
    /\ n \in Loose
    /\ \/ op' = <<"list_add", n, h>> /\ mem' = list_add(mem, n, h)
       \/ op' = <<"list_add_tail", n, h>> /\ mem' = list_add_tail(mem, n, h)
    /\ UNCHANGED stale

Delete(n) ==
    /\ n \in Entries \ Loose
    /\ \/ op' = <<"list_del", n>> /\ mem' = list_del(mem, n)
       \/ op' = <<"list_del_init", n>> /\ mem' = list_del_init(mem, n)
    /\ UNCHANGED stale

Move(n, h) ==
    /\ n \in Entries \ Loose
    /\ \/ op' = <<"list_move", n, h>> /\ mem' = list_move(mem, n, h)
       \/ op' = <<"list_move_tail", n, h>> /\ mem' = list_move_tail(mem, n, h)
    /\ UNCHANGED stale

\* list_replace alone leaves "old" pointing into the list: a caller that keeps
\* the entry, or a head, uses list_replace_init
Replace(old, new) ==
    /\ \/ old \in Entries \ Loose /\ new \in Loose
       \/ old \in Live /\ new \in Live \ {old} /\ list_empty(mem, new)
    /\ op' = <<"list_replace_init", old, new>>
    /\ mem' = list_replace_init(mem, old, new)
    /\ UNCHANGED stale

Splice(from, to) ==
    /\ from # to
    /\ op' = <<"list_splice", from, to>>
    /\ mem' = list_splice(mem, from, to)
    /\ stale' = IF list_empty(mem, from) THEN stale ELSE stale \cup {from}

SpliceInit(from, to) ==
    /\ from # to
    /\ op' = <<"list_splice_init", from, to>>
    /\ mem' = list_splice_init(mem, from, to)
    /\ UNCHANGED stale

Reinit(h) ==
    /\ h \in stale
    /\ op' = <<"INIT_LIST_HEAD", h>>
    /\ mem' = INIT_LIST_HEAD(mem, h)
    /\ stale' = stale \ {h}

Next ==
    \/ \E h \in Live, n \in Entries : Insert(n, h) \/ Move(n, h)
    \/ \E n \in Entries : Delete(n)
    \/ \E old, new \in Node : Replace(old, new)
    \/ \E from, to \in Live : Splice(from, to) \/ SpliceInit(from, to)
    \/ \E h \in stale : Reinit(h)

Spec == Init /\ [][Next]_vars

-----------------------------------------------------------------------------
(***************************************************************************)
(* The list.h operations implement sequences: every call changes the       *)
(* forward walk of every head as its comment says and no other way.        *)
(***************************************************************************)
Contract == INSTANCE SequenceLists
    WITH Heads <- Heads, Entries <- Entries, op <- op,
         lists <- [h \in Heads |-> IF h \in stale THEN <<>>
                                   ELSE list_for_each(mem, h)]

ImplementsForward == Contract!Spec

(***************************************************************************)
(* The prev words mirror the next words: list_for_each_prev (and the       *)
(* reverse iterators built like it) meets exactly the entries of           *)
(* list_for_each, in the opposite order.                                   *)
(***************************************************************************)
BackwardMirrorsForward ==
    \A h \in Live :
        LET f == list_for_each(mem, h)
            b == list_for_each_prev(mem, h)
        IN  /\ Len(b) = Len(f)
            /\ \A i \in DOMAIN f : b[i] = f[Len(f) + 1 - i]

(***************************************************************************)
(* An entry that left its list is cut off from it: either both words are   *)
(* poisoned (list_del) or it is an empty list of its own, so that          *)
(* list_empty_careful(entry) is true as list_del_init promises.            *)
(***************************************************************************)
RemovedIsDetached ==
    \A n \in Loose : \/ mem.next[n] = Poison /\ mem.prev[n] = Poison
                     \/ list_empty_careful(mem, n)

(***************************************************************************)
(* The lists of list.h are sequences that can be walked in both directions *)
(* and whose removed entries can be told from the others.                  *)
(***************************************************************************)
ImplementsSequences == ImplementsForward /\ [](BackwardMirrorsForward /\ RemovedIsDetached)
=============================================================================
