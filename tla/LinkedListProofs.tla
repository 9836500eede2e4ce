--------------------------- MODULE LinkedListProofs ---------------------------
(***************************************************************************)
(* The operators of LinkedList on well-formed lists, for lists of any      *)
(* length: which sequence a list is after each of them, and that the walks *)
(* of list_for_each and list_for_each_prev meet that sequence.             *)
(***************************************************************************)
EXTENDS LinkedList, FiniteSetTheorems, SequenceTheorems,
        WellFoundedInduction, TLAPS

USE DEF Memory

(***************************************************************************)
(* Induction.  The library's induction theorems take an operator, but that *)
(* < is well founded on Nat does not, and every set of numbers is a set.   *)
(***************************************************************************)
LEMMA LessThan ==
    \E R : IsWellFoundedOn(R, Nat) /\ \A a, b \in Nat : a < b => <<a, b>> \in R
<1>1. \A a, b \in Nat : a < b => <<a, b>> \in OpToRel(<, Nat) BY DEF OpToRel
<1> QED BY <1>1, NatLessThanWellFounded

LEMMA LeastNumber ==
    ASSUME NEW S, S \subseteq Nat, S # {}
    PROVE  \E n \in S : \A m \in S : n <= m
<1>1. PICK R : IsWellFoundedOn(R, Nat) /\ \A a, b \in Nat : a < b => <<a, b>> \in R
      BY LessThan
<1>2. IsWellFoundedOn(R, Nat) BY <1>1
<1>3. \E n \in S : \A m \in S : ~(<<m, n>> \in R) BY <1>2, WFMin
<1>4. PICK n \in S : \A m \in S : ~(<<m, n>> \in R) BY <1>3
<1>5. \A m \in S : ~(m < n) BY <1>1, <1>4
<1>6. \A m \in S : m \in Nat /\ n \in Nat OBVIOUS
<1>7. \A m \in S : n <= m BY <1>5, <1>6
<1> QED BY <1>7

(***************************************************************************)
(* s is the list of head: its entries are different, and the words of the  *)
(* head and of the entries lead through s and back.  Neighbour(s, head, i) *)
(* is the i-th of them, the head before the first and after the last.      *)
(***************************************************************************)
Neighbour(s, head, i) == IF i \in 1 .. Len(s) THEN s[i] ELSE head

Distinct(s) == \A i, j \in 1 .. Len(s) : s[i] = s[j] => i = j

IsList(m, head, s) ==
    /\ head \in Node /\ s \in Seq(Node \ {head}) /\ Distinct(s)
    /\ \A i \in 0 .. Len(s) :
          /\ m.next[Neighbour(s, head, i)] = Neighbour(s, head, i + 1)
          /\ m.prev[Neighbour(s, head, i + 1)] = Neighbour(s, head, i)

\* a walk over words that lead through s and back to the head meets s
LEMMA WalkMeets ==
    ASSUME NEW head \in Node, NEW s \in Seq(Node \ {head}), Distinct(s), NEW step,
           \A i \in 0 .. Len(s) : step[Neighbour(s, head, i)] = Neighbour(s, head, i + 1)
    PROVE  Walk(step, head) = s
<1> DEFINE N == Cardinality(Node)
           pos == Steps(step, head)
           Rest(f, k) == IF k = 0 THEN step[head]
                         ELSE IF f[k-1] \in Node \ {head} THEN step[f[k-1]] ELSE f[k-1]
           known == [k \in 0 .. N |-> Neighbour(s, head, k + 1)]
<1>1. N \in Nat /\ Len(s) \in Nat /\ Len(s) < N
  <2>1. /\ IsFiniteSet(Node \ {head}) /\ N \in Nat /\ Cardinality(Node \ {head}) = N - 1
    BY FiniteAssumption, FS_RemoveElement, FS_CardinalityType
  <2>2. s \in Injection(1 .. Len(s), Node \ {head})
    <3>1. s \in [1 .. Len(s) -> Node \ {head}] OBVIOUS
    <3>2. IsInjective(s) BY <3>1 DEF IsInjective, Distinct
    <3> QED BY <3>1, <3>2 DEF Injection
  <2>3. Cardinality(1 .. Len(s)) <= N - 1
    BY <2>1, <2>2, FS_Injection
  <2>4. Cardinality(1 .. Len(s)) = Len(s)
    <3>1. 1 \in Int /\ Len(s) \in Nat OBVIOUS
    <3>2. Cardinality(1 .. Len(s)) = IF 1 > Len(s) THEN 0 ELSE Len(s) - 1 + 1
      BY <3>1, FS_Interval
    <3> QED BY <3>1, <3>2
  <2> QED BY <2>1, <2>3, <2>4
<1>2. known = [k \in 0 .. N |-> Rest(known, k)]
  <2> SUFFICES ASSUME NEW k \in 0 .. N PROVE Neighbour(s, head, k + 1) = Rest(known, k)
    OBVIOUS
  <2>1. CASE k = 0
    BY <2>1, <1>1 DEF Neighbour
  <2>2. CASE k # 0
    <3>1. known[k-1] = Neighbour(s, head, k) BY <1>1, <2>2
    <3>2. CASE k \in 1 .. Len(s)
      BY <1>1, <3>1, <3>2 DEF Neighbour
    <3>3. CASE k \notin 1 .. Len(s)
      BY <1>1, <2>2, <3>1, <3>3 DEF Neighbour
    <3> QED BY <3>2, <3>3
  <2> QED BY <2>1, <2>2
<1>3. pos = [k \in 0 .. N |-> Rest(pos, k)]
  <2> HIDE DEF known
  <2>1. \E f : f = [k \in 0 .. N |-> Rest(f, k)] BY <1>2
  <2> QED BY <2>1 DEF Steps
<1>4. \A k \in 0 .. N : pos[k] = Neighbour(s, head, k + 1)
  <2> HIDE DEF pos
  <2> DEFINE S == {k \in 0 .. N : pos[k] # known[k]}
  <2> SUFFICES ASSUME S # {} PROVE FALSE
    BY DEF known
  <2>1. S \subseteq Nat BY <1>1
  <2>2. PICK k \in S : \A j \in S : k <= j BY <2>1, LeastNumber
  <2>3. k # 0 => k - 1 \in 0 .. N /\ pos[k-1] = known[k-1] BY <1>1, <2>2
  <2>4. pos[k] = Rest(pos, k) /\ known[k] = Rest(known, k)
    BY <1>2, <1>3
  <2> HIDE DEF known
  <2> QED BY <2>2, <2>3, <2>4
<1>5. Walk(step, head) = [i \in 1 .. Len(s) |-> pos[i-1]]
  <2> DEFINE stops == {k \in 0 .. N : pos[k] \notin Node \ {head}}
             len == IF stops = {} THEN N ELSE CHOOSE k \in stops : \A j \in stops : k <= j
  <2>1. Walk(step, head) = [i \in 1 .. len |-> pos[i-1]] BY DEF Walk
  <2>2. Len(s) \in stops /\ \A k \in stops : Len(s) <= k
    <3> HIDE DEF pos
    <3> QED BY <1>1, <1>4 DEF Neighbour
  <2>3. stops \subseteq Nat BY <1>1
  <2> HIDE DEF stops
  <2>4. len = Len(s)
    <3> DEFINE first == CHOOSE k \in stops : \A j \in stops : k <= j
    <3>1. first \in stops /\ \A j \in stops : first <= j BY <2>2
    <3> HIDE DEF first
    <3>2. first \in Nat /\ first <= Len(s) /\ Len(s) <= first BY <2>2, <2>3, <3>1
    <3>3. first = Len(s) BY <1>1, <3>2
    <3>4. stops # {} BY <2>2
    <3> QED BY <3>3, <3>4 DEF first
  <2> HIDE DEF len
  <2> QED BY <2>1, <2>4
<1>6. \A i \in 1 .. Len(s) : pos[i-1] = s[i]
  <2> HIDE DEF pos
  <2> QED BY <1>1, <1>4 DEF Neighbour
<1> HIDE DEF pos
<1> QED BY <1>5, <1>6

\* the words of every node after __list_add between two different places
LEMMA AddWords ==
    ASSUME NEW m \in Memory, NEW new \in Node, NEW prev \in Node, NEW next \in Node,
           new # prev, new # next,
           NEW n \in Node
    PROVE  LET r == __list_add(m, new, prev, next)
           IN  /\ r.next[n] = IF n = prev THEN new
                              ELSE IF n = new THEN next ELSE m.next[n]
               /\ r.prev[n] = IF n = next THEN new
                              ELSE IF n = new THEN prev ELSE m.prev[n]
BY DEF __list_add

(***************************************************************************)
(* What a list is made of: the positions 0 .. Len(s) name different nodes, *)
(* and so do the positions 1 .. Len(s) + 1 that the prev words lead to.    *)
(***************************************************************************)
LEMMA Neighbours ==
    ASSUME NEW m, NEW head, NEW s, IsList(m, head, s)
    PROVE  /\ Len(s) \in Nat
           /\ Neighbour(s, head, 0) = head /\ Neighbour(s, head, Len(s) + 1) = head
           /\ \A i \in 1 .. Len(s) : Neighbour(s, head, i) = s[i] /\ s[i] \in Node \ {head}
           /\ \A i \in 0 .. Len(s) :
                 Neighbour(s, head, i) \in Node /\ Neighbour(s, head, i + 1) \in Node
           /\ \A i, j \in 0 .. Len(s) :
                 /\ Neighbour(s, head, i) = Neighbour(s, head, j) => i = j
                 /\ Neighbour(s, head, i + 1) = Neighbour(s, head, j + 1) => i = j
BY DEF IsList, Neighbour, Distinct

LEMMA ForEachMeets ==
    ASSUME NEW m, NEW head, NEW s, IsList(m, head, s)
    PROVE  list_for_each(m, head) = s
BY WalkMeets DEF IsList, list_for_each

Backwards(s) == [i \in 1 .. Len(s) |-> s[Len(s) + 1 - i]]

LEMMA ForEachPrevMeets ==
    ASSUME NEW m, NEW head, NEW s, IsList(m, head, s)
    PROVE  list_for_each_prev(m, head) = Backwards(s)
<1> DEFINE r == Backwards(s)
<1> USE DEF IsList
<1>1. Len(s) \in Nat /\ r \in Seq(Node \ {head}) /\ Len(r) = Len(s)
  BY DEF Backwards
<1>2. \A i \in 1 .. Len(s) : r[i] = s[Len(s) + 1 - i]
  BY DEF Backwards
<1> HIDE DEF r
<1>3. Distinct(r)
  <2> SUFFICES ASSUME NEW i \in 1 .. Len(s), NEW j \in 1 .. Len(s), r[i] = r[j] PROVE i = j
    BY <1>1 DEF Distinct
  <2>1. Len(s) + 1 - i \in 1 .. Len(s) /\ Len(s) + 1 - j \in 1 .. Len(s) BY <1>1
  <2>2. s[Len(s) + 1 - i] = s[Len(s) + 1 - j] BY <1>2
  <2>3. Len(s) + 1 - i = Len(s) + 1 - j BY <2>1, <2>2 DEF Distinct
  <2> QED BY <1>1, <2>3
<1>4. \A i \in 0 .. Len(s) + 1 : Neighbour(r, head, i) = Neighbour(s, head, Len(s) + 1 - i)
  BY <1>1, <1>2 DEF Neighbour
<1>5. \A i \in 0 .. Len(r) : m.prev[Neighbour(r, head, i)] = Neighbour(r, head, i + 1)
  <2> SUFFICES ASSUME NEW i \in 0 .. Len(s)
               PROVE  m.prev[Neighbour(r, head, i)] = Neighbour(r, head, i + 1)
    BY <1>1
  <2>1. Len(s) - i \in 0 .. Len(s) /\ i + 1 \in 0 .. Len(s) + 1 /\ i \in 0 .. Len(s) + 1
    BY <1>1
  <2>2. m.prev[Neighbour(s, head, Len(s) - i + 1)] = Neighbour(s, head, Len(s) - i)
    BY <2>1
  <2>3. Len(s) + 1 - (i + 1) = Len(s) - i /\ Len(s) + 1 - i = Len(s) - i + 1
    BY <1>1
  <2> QED BY <1>4, <2>1, <2>2, <2>3
<1> QED BY <1>1, <1>3, <1>5, WalkMeets DEF r, list_for_each_prev

\* a list is kept by whoever leaves the words of its nodes alone
LEMMA ListKept ==
    ASSUME NEW m, NEW r, NEW head, NEW s, IsList(m, head, s),
           \A i \in 0 .. Len(s) : LET n == Neighbour(s, head, i)
                                  IN  r.next[n] = m.next[n] /\ r.prev[n] = m.prev[n]
    PROVE  IsList(r, head, s)
<1>1. /\ Len(s) \in Nat
      /\ Neighbour(s, head, Len(s) + 1) = Neighbour(s, head, 0)
  BY DEF IsList, Neighbour
<1>2. ASSUME NEW i \in 0 .. Len(s)
      PROVE  /\ r.next[Neighbour(s, head, i)] = Neighbour(s, head, i + 1)
             /\ r.prev[Neighbour(s, head, i + 1)] = Neighbour(s, head, i)
  <2>1. CASE i = Len(s) BY <1>1, <2>1 DEF IsList
  <2>2. CASE i # Len(s)
    <3>1. i + 1 \in 0 .. Len(s) BY <1>1, <2>2
    <3> QED BY <3>1 DEF IsList
  <2> QED BY <2>1, <2>2
<1> QED BY <1>2 DEF IsList

\* s with n between the positions k and k + 1, and s without its k-th entry
Inserted(s, k, n) ==
    [j \in 1 .. Len(s) + 1 |-> IF j <= k THEN s[j] ELSE IF j = k + 1 THEN n ELSE s[j-1]]

Removed(s, k) == [j \in 1 .. Len(s) - 1 |-> IF j < k THEN s[j] ELSE s[j+1]]

\* __list_add between two neighbours enters the new node between them
LEMMA AddList ==
    ASSUME NEW m \in Memory, NEW head, NEW s, IsList(m, head, s), NEW k \in 0 .. Len(s),
           NEW new \in Node \ {head}, \A i \in 1 .. Len(s) : s[i] # new
    PROVE  IsList(__list_add(m, new, Neighbour(s, head, k), Neighbour(s, head, k + 1)),
                  head, Inserted(s, k, new))
<1> DEFINE prev == Neighbour(s, head, k)
           next == Neighbour(s, head, k + 1)
           r == __list_add(m, new, prev, next)
           t == Inserted(s, k, new)
<1>1. /\ Len(s) \in Nat /\ prev \in Node /\ next \in Node
      /\ \A i \in 0 .. Len(s) + 1 : Neighbour(s, head, i) \in Node \ {new}
  BY DEF IsList, Neighbour
<1>2. \A n \in Node :
        /\ r.next[n] = IF n = prev THEN new ELSE IF n = new THEN next ELSE m.next[n]
        /\ r.prev[n] = IF n = next THEN new ELSE IF n = new THEN prev ELSE m.prev[n]
  BY <1>1, AddWords
<1>3. t \in Seq(Node \ {head}) /\ Len(t) = Len(s) + 1
  BY <1>1 DEF IsList, Inserted
<1>4. \A j \in 1 .. Len(s) + 1 :
         t[j] = IF j <= k THEN s[j] ELSE IF j = k + 1 THEN new ELSE s[j-1]
  BY DEF Inserted
<1> HIDE DEF r, t
<1>5. Distinct(t)
  <2>1. ASSUME NEW i \in 1 .. Len(s) + 1, NEW j \in 1 .. Len(s) + 1, i < j
        PROVE  t[i] # t[j]
    <3>1. CASE j <= k BY <1>1, <1>4, <2>1, <3>1 DEF Distinct, IsList
    <3>2. CASE j = k + 1
      <4>1. t[i] = s[i] /\ t[j] = new /\ i \in 1 .. Len(s) BY <1>1, <1>4, <2>1, <3>2
      <4> QED BY <4>1
    <3>3. CASE j > k + 1
      <4>1. t[j] = s[j-1] /\ j - 1 \in 1 .. Len(s) BY <1>1, <1>4, <3>3
      <4>2. CASE i <= k
        <5>1. t[i] = s[i] /\ i \in 1 .. Len(s) /\ i # j - 1 BY <1>1, <1>4, <3>3, <4>2
        <5> QED BY <4>1, <5>1 DEF Distinct, IsList
      <4>3. CASE i = k + 1 BY <1>1, <1>4, <4>1, <4>3
      <4>4. CASE i > k + 1
        <5>1. t[i] = s[i-1] /\ i - 1 \in 1 .. Len(s) /\ i - 1 # j - 1
          BY <1>1, <1>4, <2>1, <4>4
        <5> QED BY <4>1, <5>1 DEF Distinct, IsList
      <4> QED BY <1>1, <4>2, <4>3, <4>4
    <3> QED BY <1>1, <3>1, <3>2, <3>3
  <2>2. ASSUME NEW i \in 1 .. Len(t), NEW j \in 1 .. Len(t), t[i] = t[j] PROVE i = j
    <3>1. ~(i < j) /\ ~(j < i) BY <1>3, <2>1, <2>2
    <3> QED BY <1>1, <1>3, <3>1
  <2> QED BY <2>2 DEF Distinct
<1>6. \A j \in 0 .. Len(s) + 2 :
         Neighbour(t, head, j) = IF j <= k THEN Neighbour(s, head, j)
                                 ELSE IF j = k + 1 THEN new ELSE Neighbour(s, head, j - 1)
  <2> TAKE j \in 0 .. Len(s) + 2
  <2>1. CASE j = 0 \/ j = Len(s) + 2 BY <1>1, <1>3, <2>1 DEF Neighbour
  <2>2. CASE j \in 1 .. Len(s) + 1
    <3>1. Neighbour(t, head, j) = t[j] BY <1>3, <2>2 DEF Neighbour
    <3> QED BY <1>1, <1>4, <2>2, <3>1 DEF Neighbour
  <2> QED BY <1>1, <2>1, <2>2
<1> HIDE DEF prev, next
<1>7. ASSUME NEW j \in 0 .. Len(s) + 1
      PROVE  /\ r.next[Neighbour(t, head, j)] = Neighbour(t, head, j + 1)
             /\ r.prev[Neighbour(t, head, j + 1)] = Neighbour(t, head, j)
  <2>1. \A i \in 0 .. Len(s) :
           /\ m.next[Neighbour(s, head, i)] = Neighbour(s, head, i + 1)
           /\ m.prev[Neighbour(s, head, i + 1)] = Neighbour(s, head, i)
           /\ Neighbour(s, head, i) = prev => i = k
           /\ Neighbour(s, head, i + 1) = next => i = k
    <3> TAKE i \in 0 .. Len(s)
    <3>1. /\ Neighbour(s, head, i) = Neighbour(s, head, k) => i = k
          /\ Neighbour(s, head, i + 1) = Neighbour(s, head, k + 1) => i = k
      BY Neighbours
    <3> QED BY <3>1 DEF IsList, prev, next
  <2>2. CASE j < k
    <3>1. /\ Neighbour(t, head, j) = Neighbour(s, head, j)
          /\ Neighbour(t, head, j + 1) = Neighbour(s, head, j + 1)
          /\ j \in 0 .. Len(s) /\ j + 1 \in 0 .. Len(s) + 1
      BY <1>1, <1>6, <2>2
    <3> QED BY <1>1, <1>2, <2>1, <2>2, <3>1
  <2>3. CASE j = k
    <3>1. Neighbour(t, head, j) = prev /\ Neighbour(t, head, j + 1) = new
      BY <1>1, <1>6, <2>3 DEF prev
    <3>2. new # next BY <1>1 DEF next
    <3> QED BY <1>1, <1>2, <3>1, <3>2
  <2>4. CASE j = k + 1
    <3>1. Neighbour(t, head, j) = new /\ Neighbour(t, head, j + 1) = next
      BY <1>1, <1>6, <2>4 DEF next
    <3>2. new # prev BY <1>1 DEF prev
    <3> QED BY <1>1, <1>2, <3>1, <3>2
  <2>5. CASE j > k + 1
    <3>1. /\ Neighbour(t, head, j) = Neighbour(s, head, j - 1)
          /\ Neighbour(t, head, j + 1) = Neighbour(s, head, j)
          /\ j - 1 \in 0 .. Len(s) /\ j - 1 # k /\ (j - 1) + 1 = j /\ (j + 1) - 1 = j
          /\ j \in 0 .. Len(s) + 1
      BY <1>1, <1>6, <2>5
    <3> QED BY <1>1, <1>2, <2>1, <3>1
  <2> QED BY <1>1, <2>2, <2>3, <2>4, <2>5
<1> QED BY <1>3, <1>5, <1>7 DEF IsList, r, t, prev, next

\* the words of the other nodes after __list_del between two nodes
LEMMA DelWords ==
    ASSUME NEW m \in Memory, NEW prev \in Node, NEW next \in Node, NEW n \in Node
    PROVE  LET r == __list_del(m, prev, next)
           IN  /\ r.next[n] = IF n = prev THEN next ELSE m.next[n]
               /\ r.prev[n] = IF n = next THEN prev ELSE m.prev[n]
BY DEF __list_del

\* a memory in which the k-th entry's neighbours are joined lists the others
LEMMA CutList ==
    ASSUME NEW m, NEW r, NEW head, NEW s, IsList(m, head, s), NEW k \in 1 .. Len(s),
           \A n \in Node \ {s[k]} :
              /\ r.next[n] = IF n = Neighbour(s, head, k - 1) THEN Neighbour(s, head, k + 1)
                             ELSE m.next[n]
              /\ r.prev[n] = IF n = Neighbour(s, head, k + 1) THEN Neighbour(s, head, k - 1)
                             ELSE m.prev[n]
    PROVE  IsList(r, head, Removed(s, k))
<1> DEFINE t == Removed(s, k)
           prev == Neighbour(s, head, k - 1)
           next == Neighbour(s, head, k + 1)
<1>1. Len(s) \in Nat /\ k \in Nat BY DEF IsList
<1>2. t \in Seq(Node \ {head}) /\ Len(t) = Len(s) - 1
  BY <1>1 DEF IsList, Removed
<1>3. \A j \in 1 .. Len(s) - 1 : t[j] = IF j < k THEN s[j] ELSE s[j+1]
  BY DEF Removed
<1> HIDE DEF t
<1>4. Distinct(t) BY <1>1, <1>2, <1>3 DEF Distinct, IsList
<1>5. \A j \in 0 .. Len(s) :
         Neighbour(t, head, j) = IF j < k THEN Neighbour(s, head, j)
                                 ELSE Neighbour(s, head, j + 1)
  BY <1>1, <1>2, <1>3 DEF Neighbour
<1> HIDE DEF prev, next
<1>6. ASSUME NEW j \in 0 .. Len(s) - 1
      PROVE  /\ r.next[Neighbour(t, head, j)] = Neighbour(t, head, j + 1)
             /\ r.prev[Neighbour(t, head, j + 1)] = Neighbour(t, head, j)
  <2>1. \A i \in 0 .. Len(s) :
           /\ m.next[Neighbour(s, head, i)] = Neighbour(s, head, i + 1)
           /\ m.prev[Neighbour(s, head, i + 1)] = Neighbour(s, head, i)
           /\ Neighbour(s, head, i) = prev => i = k - 1
           /\ Neighbour(s, head, i + 1) = next => i = k
           /\ Neighbour(s, head, i) = s[k] => i = k
           /\ Neighbour(s, head, i + 1) = s[k] => i + 1 = k
           /\ Neighbour(s, head, i) \in Node /\ Neighbour(s, head, i + 1) \in Node
    <3> TAKE i \in 0 .. Len(s)
    <3>1. s[k] = Neighbour(s, head, k) /\ k - 1 \in 0 .. Len(s) /\ k \in 0 .. Len(s)
          /\ (k - 1) + 1 = k
      BY <1>1 DEF Neighbour
    <3>2. Neighbour(s, head, i + 1) = Neighbour(s, head, (k - 1) + 1) => i = k - 1
      BY <3>1, Neighbours
    <3>3. i = k - 1 => i + 1 = k BY <1>1
    <3>4. /\ Neighbour(s, head, i) = Neighbour(s, head, k - 1) => i = k - 1
          /\ Neighbour(s, head, i + 1) = Neighbour(s, head, k + 1) => i = k
          /\ Neighbour(s, head, i) = Neighbour(s, head, k) => i = k
          /\ Neighbour(s, head, i) \in Node /\ Neighbour(s, head, i + 1) \in Node
      BY <3>1, Neighbours
    <3> QED BY <3>1, <3>2, <3>3, <3>4 DEF IsList, prev, next
  <2>2. \A n \in Node \ {s[k]} : /\ r.next[n] = IF n = prev THEN next ELSE m.next[n]
                                 /\ r.prev[n] = IF n = next THEN prev ELSE m.prev[n]
    BY DEF prev, next
  <2>3. CASE j < k - 1
    <3>1. /\ Neighbour(t, head, j) = Neighbour(s, head, j)
          /\ Neighbour(t, head, j + 1) = Neighbour(s, head, j + 1)
          /\ j \in 0 .. Len(s)
      BY <1>1, <1>5, <2>3
    <3> QED BY <1>1, <2>1, <2>2, <2>3, <3>1
  <2>4. CASE j = k - 1
    <3>1. /\ Neighbour(t, head, j) = prev /\ Neighbour(t, head, j + 1) = next
          /\ k - 1 \in 0 .. Len(s) /\ k \in 0 .. Len(s)
      BY <1>1, <1>5, <2>4 DEF prev, next
    <3>2. prev \in Node \ {s[k]} /\ next \in Node \ {s[k]}
      <4>1. prev = Neighbour(s, head, k - 1) /\ next = Neighbour(s, head, k + 1)
        BY DEF prev, next
      <4> QED BY <1>1, <2>1, <3>1, <4>1
    <3> QED BY <2>2, <3>1, <3>2
  <2>5. CASE j >= k
    <3>1. /\ Neighbour(t, head, j) = Neighbour(s, head, j + 1)
          /\ Neighbour(t, head, j + 1) = Neighbour(s, head, (j + 1) + 1)
          /\ j + 1 \in 0 .. Len(s) /\ j + 1 # k
      BY <1>1, <1>5, <2>5
    <3> QED BY <1>1, <2>1, <2>2, <2>5, <3>1
  <2> QED BY <1>1, <2>3, <2>4, <2>5
<1> QED BY <1>1, <1>2, <1>4, <1>6 DEF IsList, t

LEMMA Around ==
    ASSUME NEW m, NEW head, NEW s, IsList(m, head, s), NEW k \in 1 .. Len(s)
    PROVE  /\ m.prev[s[k]] = Neighbour(s, head, k - 1) /\ m.prev[s[k]] \in Node
           /\ m.next[s[k]] = Neighbour(s, head, k + 1) /\ m.next[s[k]] \in Node
           /\ s[k] \in Node
<1>1. /\ k - 1 \in 0 .. Len(s) /\ k \in 0 .. Len(s) /\ (k - 1) + 1 = k
      /\ s[k] = Neighbour(s, head, k) /\ s[k] \in Node
  BY DEF IsList, Neighbour
<1>2. m.prev[Neighbour(s, head, (k - 1) + 1)] = Neighbour(s, head, k - 1)
  BY <1>1 DEF IsList
<1>3. m.next[Neighbour(s, head, k)] = Neighbour(s, head, k + 1)
  BY <1>1 DEF IsList
<1>4. Neighbour(s, head, k - 1) \in Node /\ Neighbour(s, head, k + 1) \in Node
  BY <1>1, Neighbours
<1> QED BY <1>1, <1>2, <1>3, <1>4

\* list_del takes the k-th entry out
LEMMA DelList ==
    ASSUME NEW m \in Memory, NEW head, NEW s, IsList(m, head, s), NEW k \in 1 .. Len(s)
    PROVE  IsList(list_del(m, s[k]), head, Removed(s, k))
<1> DEFINE prev == m.prev[s[k]]
           next == m.next[s[k]]
           cut == __list_del(m, prev, next)
           r == list_del(m, s[k])
<1>1. /\ prev = Neighbour(s, head, k - 1) /\ prev \in Node
      /\ next = Neighbour(s, head, k + 1) /\ next \in Node
  BY Around
<1>2. \A n \in Node \ {s[k]} : r.next[n] = cut.next[n] /\ r.prev[n] = cut.prev[n]
  BY <1>1 DEF list_del, __list_del
<1>3. \A n \in Node : /\ cut.next[n] = IF n = prev THEN next ELSE m.next[n]
                      /\ cut.prev[n] = IF n = next THEN prev ELSE m.prev[n]
  BY <1>1, DelWords
<1> HIDE DEF prev, next, cut, r
<1>4. \A n \in Node \ {s[k]} :
        /\ r.next[n] = IF n = Neighbour(s, head, k - 1) THEN Neighbour(s, head, k + 1)
                       ELSE m.next[n]
        /\ r.prev[n] = IF n = Neighbour(s, head, k + 1) THEN Neighbour(s, head, k - 1)
                       ELSE m.prev[n]
  BY <1>1, <1>2, <1>3
<1>5. IsList(r, head, Removed(s, k)) BY <1>4, CutList
<1> QED BY <1>5 DEF r

-----------------------------------------------------------------------------
(* The operators that add and delete return memories.                      *)

LEMMA AddType ==
    ASSUME NEW m \in Memory, NEW new \in Node, NEW prev \in Node, NEW next \in Node
    PROVE  __list_add(m, new, prev, next) \in Memory
BY DEF __list_add

LEMMA DelType ==
    ASSUME NEW m \in Memory, NEW n \in Node, m.prev[n] \in Node, m.next[n] \in Node
    PROVE  list_del(m, n) \in Memory
BY DEF list_del, __list_del

(***************************************************************************)
(* list_add enters a node before the entries of the head, for a stack, and *)
(* list_add_tail after them, for a queue.                                  *)
(***************************************************************************)
LEMMA AddFirst ==
    ASSUME NEW m \in Memory, NEW head, NEW s, IsList(m, head, s),
           NEW new \in Node \ {head}, \A i \in 1 .. Len(s) : s[i] # new
    PROVE  /\ list_add(m, new, head) \in Memory
           /\ IsList(list_add(m, new, head), head, <<new>> \o s)
<1>1. /\ Len(s) \in Nat /\ s \in Seq(Node) /\ head \in Node
      /\ Neighbour(s, head, 0) = head
      /\ m.next[head] = Neighbour(s, head, 0 + 1)
      /\ m.next[head] \in Node
  <2>1. 0 \in 0 .. Len(s) BY Neighbours
  <2> QED BY <2>1, Neighbours DEF IsList
<1>2. Inserted(s, 0, new) = <<new>> \o s
  <2>1. /\ Inserted(s, 0, new) \in Seq(Node) /\ <<new>> \o s \in Seq(Node)
        /\ Len(Inserted(s, 0, new)) = Len(s) + 1 /\ Len(<<new>> \o s) = Len(s) + 1
    BY <1>1 DEF Inserted
  <2>2. \A i \in 1 .. Len(s) + 1 : Inserted(s, 0, new)[i] = (<<new>> \o s)[i]
    BY <1>1 DEF Inserted
  <2> QED BY <2>1, <2>2, SeqEqual
<1>3. 0 \in 0 .. Len(s) BY <1>1
<1>4. IsList(__list_add(m, new, Neighbour(s, head, 0), Neighbour(s, head, 0 + 1)),
             head, Inserted(s, 0, new))
  BY <1>3, AddList
<1> QED BY <1>1, <1>2, <1>4, AddType DEF list_add

LEMMA AddLast ==
    ASSUME NEW m \in Memory, NEW head, NEW s, IsList(m, head, s),
           NEW new \in Node \ {head}, \A i \in 1 .. Len(s) : s[i] # new
    PROVE  /\ list_add_tail(m, new, head) \in Memory
           /\ IsList(list_add_tail(m, new, head), head, Append(s, new))
<1>1. /\ Len(s) \in Nat /\ s \in Seq(Node) /\ head \in Node
      /\ Neighbour(s, head, Len(s) + 1) = head /\ m.prev[head] = Neighbour(s, head, Len(s))
      /\ m.prev[head] \in Node
  <2>1. Len(s) \in 0 .. Len(s) BY Neighbours
  <2> QED BY <2>1, Neighbours DEF IsList
<1>2. Inserted(s, Len(s), new) = Append(s, new)
  <2>1. /\ Inserted(s, Len(s), new) \in Seq(Node) /\ Append(s, new) \in Seq(Node)
        /\ Len(Inserted(s, Len(s), new)) = Len(s) + 1 /\ Len(Append(s, new)) = Len(s) + 1
    BY <1>1 DEF Inserted
  <2>2. \A i \in 1 .. Len(s) + 1 : Inserted(s, Len(s), new)[i] = Append(s, new)[i]
    BY <1>1 DEF Inserted
  <2> QED BY <2>1, <2>2, SeqEqual
<1>3. Len(s) \in 0 .. Len(s) BY <1>1
<1>4. IsList(__list_add(m, new, Neighbour(s, head, Len(s)), Neighbour(s, head, Len(s) + 1)),
             head, Inserted(s, Len(s), new))
  BY <1>3, AddList
<1> QED BY <1>1, <1>2, <1>4, AddType DEF list_add_tail

-----------------------------------------------------------------------------
(* The lists after the other operators.                                    *)

\* an initialised head is an empty list
LEMMA InitList ==
    ASSUME NEW m \in Memory, NEW head \in Node
    PROVE  /\ INIT_LIST_HEAD(m, head) \in Memory
           /\ IsList(INIT_LIST_HEAD(m, head), head, <<>>)
           /\ \A n \in Node \ {head} :
                 /\ INIT_LIST_HEAD(m, head).next[n] = m.next[n]
                 /\ INIT_LIST_HEAD(m, head).prev[n] = m.prev[n]
<1> DEFINE r == INIT_LIST_HEAD(m, head)
<1>1. r.next[head] = head /\ r.prev[head] = head BY DEF INIT_LIST_HEAD
<1>2. /\ <<>> \in Seq(Node \ {head}) /\ Len(<<>>) = 0 /\ Distinct(<<>>)
      /\ \A i \in {0, 1} : Neighbour(<<>>, head, i) = head
  BY DEF Distinct, Neighbour
<1>3. IsList(r, head, <<>>)
  <2> HIDE DEF r
  <2> QED BY <1>1, <1>2 DEF IsList
<1> QED BY <1>3 DEF INIT_LIST_HEAD

\* joining the neighbours of the k-th entry cuts it off
LEMMA CutEntry ==
    ASSUME NEW m \in Memory, NEW head, NEW s, IsList(m, head, s), NEW k \in 1 .. Len(s)
    PROVE  LET r == __list_del(m, m.prev[s[k]], m.next[s[k]])
           IN  /\ r \in Memory
               /\ IsList(r, head, Removed(s, k))
               /\ \A n \in Node : n # head /\ (\A i \in 1 .. Len(s) : s[i] # n)
                                  => r.next[n] = m.next[n] /\ r.prev[n] = m.prev[n]
<1> DEFINE prev == m.prev[s[k]]
           next == m.next[s[k]]
           r == __list_del(m, prev, next)
<1>1. /\ prev = Neighbour(s, head, k - 1) /\ prev \in Node
      /\ next = Neighbour(s, head, k + 1) /\ next \in Node
  BY Around
<1>2. \A n \in Node : /\ r.next[n] = IF n = prev THEN next ELSE m.next[n]
                      /\ r.prev[n] = IF n = next THEN prev ELSE m.prev[n]
  BY <1>1, DelWords
<1>3. r \in Memory BY <1>1 DEF __list_del
<1>4. \A n \in Node : n # head /\ (\A i \in 1 .. Len(s) : s[i] # n) => n # prev /\ n # next
  BY <1>1 DEF Neighbour
<1> HIDE DEF prev, next, r
<1>5. \A n \in Node \ {s[k]} :
        /\ r.next[n] = IF n = Neighbour(s, head, k - 1) THEN Neighbour(s, head, k + 1)
                       ELSE m.next[n]
        /\ r.prev[n] = IF n = Neighbour(s, head, k + 1) THEN Neighbour(s, head, k - 1)
                       ELSE m.prev[n]
  BY <1>1, <1>2
<1>6. IsList(r, head, Removed(s, k)) BY <1>5, CutList
<1>7. \A n \in Node : n # head /\ (\A i \in 1 .. Len(s) : s[i] # n)
                      => r.next[n] = m.next[n] /\ r.prev[n] = m.prev[n]
  BY <1>2, <1>4
<1> QED BY <1>3, <1>6, <1>7 DEF r, prev, next

\* s with n in the place of its k-th entry
Replaced(s, k, n) == [j \in 1 .. Len(s) |-> IF j = k THEN n ELSE s[j]]

\* list_replace_init gives the place of the k-th entry to a new one
LEMMA ReplaceEntry ==
    ASSUME NEW m \in Memory, NEW head, NEW s, IsList(m, head, s), NEW k \in 1 .. Len(s),
           NEW new \in Node \ {head}, \A i \in 1 .. Len(s) : s[i] # new
    PROVE  LET r == list_replace_init(m, s[k], new)
           IN  /\ r \in Memory
               /\ IsList(r, head, Replaced(s, k, new))
               /\ r.next[s[k]] = s[k] /\ r.prev[s[k]] = s[k]
               /\ \A n \in Node \ {new} : n # head /\ (\A i \in 1 .. Len(s) : s[i] # n)
                                          => r.next[n] = m.next[n] /\ r.prev[n] = m.prev[n]
<1> DEFINE old == s[k]
           prev == Neighbour(s, head, k - 1)
           next == Neighbour(s, head, k + 1)
           r == list_replace_init(m, old, new)
           t == Replaced(s, k, new)
<1>1. /\ Len(s) \in Nat /\ old \in Node \ {head} /\ new \in Node /\ head \in Node
      /\ m.prev[old] = prev /\ prev \in Node /\ m.next[old] = next /\ next \in Node
  BY Around, Neighbours DEF IsList
<1>2. prev # old /\ next # old /\ prev # new /\ next # new /\ old # new
  <2>1. /\ k - 1 \in 0 .. Len(s) /\ k \in 0 .. Len(s) /\ (k - 1) + 1 = k
        /\ Neighbour(s, head, k) = old
    BY <1>1 DEF Neighbour
  <2>2. prev # old BY <2>1, Neighbours
  <2>3. Neighbour(s, head, k + 1) # Neighbour(s, head, (k - 1) + 1) BY <2>1, Neighbours
  <2>4. prev # new /\ next # new BY DEF Neighbour
  <2> QED BY <2>1, <2>2, <2>3, <2>4
<1>3. /\ r \in Memory
      /\ \A n \in Node :
        /\ r.next[n] = IF n = old THEN old ELSE IF n = prev THEN new
                       ELSE IF n = new THEN next ELSE m.next[n]
        /\ r.prev[n] = IF n = old THEN old ELSE IF n = new THEN prev
                       ELSE IF n = next THEN new ELSE m.prev[n]
  <2> HIDE DEF prev, next, old
  <2> QED BY <1>1, <1>2 DEF list_replace_init, list_replace, INIT_LIST_HEAD
<1>4. \A n \in Node \ {new} : n # head /\ (\A i \in 1 .. Len(s) : s[i] # n)
                              => n # old /\ n # prev /\ n # next
  BY DEF Neighbour
<1> HIDE DEF r, prev, next
<1>5. t \in Seq(Node \ {head}) /\ Len(t) = Len(s)
      /\ \A j \in 1 .. Len(s) : t[j] = IF j = k THEN new ELSE s[j]
  BY <1>1 DEF IsList, Replaced
<1> HIDE DEF t, old
<1>6. Distinct(t) BY <1>1, <1>5 DEF Distinct, IsList
<1>7. \A j \in 0 .. Len(s) + 1 :
         Neighbour(t, head, j) = IF j = k THEN new ELSE Neighbour(s, head, j)
  BY <1>1, <1>5 DEF Neighbour
<1>8. \A i \in 0 .. Len(s) :
         /\ m.next[Neighbour(s, head, i)] = Neighbour(s, head, i + 1)
         /\ m.prev[Neighbour(s, head, i + 1)] = Neighbour(s, head, i)
         /\ Neighbour(s, head, i) = prev => i = k - 1
         /\ Neighbour(s, head, i + 1) = next => i = k
         /\ Neighbour(s, head, i) = old => i = k
         /\ Neighbour(s, head, i + 1) = old => i + 1 = k
         /\ Neighbour(s, head, i) \in Node \ {new}
         /\ Neighbour(s, head, i + 1) \in Node \ {new}
  <2> TAKE i \in 0 .. Len(s)
  <2>1. /\ old = Neighbour(s, head, k) /\ k - 1 \in 0 .. Len(s) /\ k \in 0 .. Len(s)
        /\ (k - 1) + 1 = k
    BY <1>1 DEF Neighbour, old
  <2>2. Neighbour(s, head, i + 1) = Neighbour(s, head, (k - 1) + 1) => i = k - 1
    <3>1. \A j \in 0 .. Len(s) :
             Neighbour(s, head, i + 1) = Neighbour(s, head, j + 1) => i = j
      BY Neighbours
    <3>2. k - 1 \in 0 .. Len(s) BY <2>1
    <3> QED BY <3>1, <3>2
  <2>3. i = k - 1 => i + 1 = k BY <1>1
  <2>4. /\ Neighbour(s, head, i) = Neighbour(s, head, k - 1) => i = k - 1
        /\ Neighbour(s, head, i + 1) = Neighbour(s, head, k + 1) => i = k
        /\ Neighbour(s, head, i) = Neighbour(s, head, k) => i = k
        /\ Neighbour(s, head, i) \in Node /\ Neighbour(s, head, i + 1) \in Node
    BY <2>1, Neighbours
  <2>5. Neighbour(s, head, i) # new /\ Neighbour(s, head, i + 1) # new BY DEF Neighbour
  <2> QED BY <2>1, <2>2, <2>3, <2>4, <2>5 DEF IsList, prev, next
<1>9. ASSUME NEW j \in 0 .. Len(s)
      PROVE  /\ r.next[Neighbour(t, head, j)] = Neighbour(t, head, j + 1)
             /\ r.prev[Neighbour(t, head, j + 1)] = Neighbour(t, head, j)
  <2>1. j \in 0 .. Len(s) + 1 /\ j + 1 \in 0 .. Len(s) + 1 BY <1>1
  <2>2. CASE j = k
    <3>1. Neighbour(t, head, j) = new /\ Neighbour(t, head, j + 1) = next /\ next \in Node
      BY <1>1, <1>7, <2>1, <2>2 DEF next
    <3> QED BY <1>1, <1>2, <1>3, <3>1
  <2>3. CASE j + 1 = k
    <3>1. Neighbour(t, head, j) = prev /\ Neighbour(t, head, j + 1) = new /\ prev \in Node
      BY <1>1, <1>7, <2>1, <2>3 DEF prev
    <3> QED BY <1>1, <1>2, <1>3, <3>1
  <2>4. CASE j # k /\ j + 1 # k
    <3>1. /\ Neighbour(t, head, j) = Neighbour(s, head, j)
          /\ Neighbour(t, head, j + 1) = Neighbour(s, head, j + 1)
      BY <1>7, <2>1, <2>4
    <3>2. j # k - 1 BY <1>1, <2>4
    <3> QED BY <1>3, <1>8, <2>4, <3>1, <3>2
  <2> QED BY <2>2, <2>3, <2>4
<1>10. IsList(r, head, t) BY <1>1, <1>5, <1>6, <1>9 DEF IsList
<1> QED BY <1>1, <1>3, <1>4, <1>10 DEF r, t, old

\* list_replace_init gives the entries of a head to an empty one
LEMMA ReplaceHead ==
    ASSUME NEW m \in Memory, NEW old, NEW s, IsList(m, old, s),
           NEW new, IsList(m, new, <<>>), \A i \in 1 .. Len(s) : s[i] # new, old # new
    PROVE  LET r == list_replace_init(m, old, new)
           IN  /\ r \in Memory
               /\ IsList(r, new, s) /\ IsList(r, old, <<>>)
               /\ \A n \in Node : n \notin {old, new} /\ (\A i \in 1 .. Len(s) : s[i] # n)
                                  => r.next[n] = m.next[n] /\ r.prev[n] = m.prev[n]
<1> DEFINE first == m.next[old]
           last == m.prev[old]
           r == list_replace_init(m, old, new)
<1>1. /\ Len(s) \in Nat /\ old \in Node /\ new \in Node
      /\ Neighbour(s, old, 0) = old /\ Neighbour(s, old, Len(s) + 1) = old
      /\ \A i \in 1 .. Len(s) : s[i] \in Node /\ s[i] # old /\ s[i] # new
  BY Neighbours DEF IsList
<1>2. first = Neighbour(s, old, 1) /\ last = Neighbour(s, old, Len(s))
  <2>1. 0 \in 0 .. Len(s) /\ Len(s) \in 0 .. Len(s) BY <1>1
  <2>2. m.next[Neighbour(s, old, 0)] = Neighbour(s, old, 0 + 1) BY <2>1 DEF IsList
  <2>3. m.prev[Neighbour(s, old, Len(s) + 1)] = Neighbour(s, old, Len(s))
    BY <2>1 DEF IsList
  <2> QED BY <1>1, <2>2, <2>3
<1>3. CASE Len(s) = 0
  <2>1. first = old /\ last = old BY <1>2, <1>3 DEF Neighbour
  <2>2. /\ r \in Memory
        /\ \A n \in Node : /\ r.next[n] = IF n \in {old, new} THEN n ELSE m.next[n]
                           /\ r.prev[n] = IF n \in {old, new} THEN n ELSE m.prev[n]
    BY <1>1, <2>1 DEF list_replace_init, list_replace, INIT_LIST_HEAD
  <2> HIDE DEF r
  <2>3. s = <<>>
    <3>1. s \in Seq(Node) /\ <<>> \in Seq(Node) /\ Len(<<>>) = 0 BY <1>1 DEF IsList
    <3> QED BY <1>3, <3>1
  <2>4. ASSUME NEW n \in {old, new} PROVE IsList(r, n, <<>>)
    <3>1. r.next[n] = n /\ r.prev[n] = n /\ n \in Node BY <1>1, <2>2
    <3>2. /\ <<>> \in Seq(Node \ {n}) /\ Len(<<>>) = 0 /\ Distinct(<<>>)
          /\ \A i \in {0, 1} : Neighbour(<<>>, n, i) = n
      BY DEF Distinct, Neighbour
    <3> QED BY <3>1, <3>2 DEF IsList
  <2> QED BY <2>2, <2>3, <2>4 DEF r
<1>4. CASE Len(s) > 0
  <2>1. first = s[1] /\ last = s[Len(s)] /\ first # old /\ last # old /\ first # new /\ last # new
        /\ first \in Node /\ last \in Node
    BY <1>1, <1>2, <1>4 DEF Neighbour
  <2> HIDE DEF first, last
  <2>2. /\ r \in Memory
        /\ \A n \in Node :
             /\ r.next[n] = IF n = old THEN old ELSE IF n = last THEN new
                            ELSE IF n = new THEN first ELSE m.next[n]
             /\ r.prev[n] = IF n = old THEN old ELSE IF n = new THEN last
                            ELSE IF n = first THEN new ELSE m.prev[n]
    BY <1>1, <2>1 DEF list_replace_init, list_replace, INIT_LIST_HEAD, first, last
  <2> HIDE DEF r
  <2>3. s \in Seq(Node \ {new}) /\ Distinct(s) BY <1>1 DEF IsList
  <2>4. \A i \in 0 .. Len(s) + 1 :
           Neighbour(s, new, i) = IF i \in 1 .. Len(s) THEN Neighbour(s, old, i) ELSE new
    BY DEF Neighbour
  <2>5. ASSUME NEW i \in 0 .. Len(s)
        PROVE  /\ r.next[Neighbour(s, new, i)] = Neighbour(s, new, i + 1)
               /\ r.prev[Neighbour(s, new, i + 1)] = Neighbour(s, new, i)
    <3>1. /\ m.next[Neighbour(s, old, i)] = Neighbour(s, old, i + 1)
          /\ m.prev[Neighbour(s, old, i + 1)] = Neighbour(s, old, i)
      BY DEF IsList
    <3>2. /\ Neighbour(s, new, i) = IF i = 0 THEN new ELSE s[i]
          /\ Neighbour(s, old, i) = IF i = 0 THEN old ELSE s[i]
          /\ Neighbour(s, new, i + 1) = IF i = Len(s) THEN new ELSE s[i+1]
          /\ Neighbour(s, old, i + 1) = IF i = Len(s) THEN old ELSE s[i+1]
      BY <1>1 DEF Neighbour
    <3>3. r.next[Neighbour(s, new, i)] = Neighbour(s, new, i + 1)
      <4>1. CASE i = 0 BY <1>1, <1>4, <2>1, <2>2, <3>2, <4>1
      <4>2. CASE i = Len(s) BY <1>1, <1>4, <2>1, <2>2, <3>2, <4>2
      <4>3. CASE i \in 1 .. Len(s) - 1
        <5>1. s[i] # last BY <1>1, <2>1, <2>3, <4>3 DEF Distinct
        <5> QED BY <1>1, <2>2, <3>1, <3>2, <4>3, <5>1
      <4> QED BY <1>1, <4>1, <4>2, <4>3
    <3>4. r.prev[Neighbour(s, new, i + 1)] = Neighbour(s, new, i)
      <4>1. CASE i = 0 BY <1>1, <1>4, <2>1, <2>2, <3>2, <4>1
      <4>2. CASE i = Len(s) BY <1>1, <1>4, <2>1, <2>2, <3>2, <4>2
      <4>3. CASE i \in 1 .. Len(s) - 1
        <5>1. s[i+1] # first /\ i + 1 \in 1 .. Len(s)
          BY <1>1, <2>1, <2>3, <4>3 DEF Distinct
        <5> QED BY <1>1, <2>2, <3>1, <3>2, <4>3, <5>1
      <4> QED BY <1>1, <4>1, <4>2, <4>3
    <3> QED BY <3>3, <3>4
  <2>6. IsList(r, new, s) BY <1>1, <2>3, <2>5 DEF IsList
  <2>7. IsList(r, old, <<>>)
    <3>1. r.next[old] = old /\ r.prev[old] = old BY <1>1, <2>2
    <3>2. /\ <<>> \in Seq(Node \ {old}) /\ Len(<<>>) = 0 /\ Distinct(<<>>)
          /\ \A i \in {0, 1} : Neighbour(<<>>, old, i) = old
      BY DEF Distinct, Neighbour
    <3> QED BY <1>1, <3>1, <3>2 DEF IsList
  <2>8. \A n \in Node : n \notin {old, new} /\ (\A i \in 1 .. Len(s) : s[i] # n)
                        => r.next[n] = m.next[n] /\ r.prev[n] = m.prev[n]
    <3>1. 1 \in 1 .. Len(s) /\ Len(s) \in 1 .. Len(s) BY <1>1, <1>4
    <3> QED BY <2>1, <2>2, <3>1
  <2> QED BY <2>2, <2>6, <2>7, <2>8 DEF r
<1> QED BY <1>1, <1>3, <1>4

\* list_splice puts the entries of another list before those of the head
LEMMA SpliceList ==
    ASSUME NEW m \in Memory, NEW list, NEW s, IsList(m, list, s), Len(s) > 0,
           NEW head, NEW t, IsList(m, head, t), list # head,
           \A i \in 1 .. Len(s) : s[i] # head, \A j \in 1 .. Len(t) : t[j] # list,
           \A i \in 1 .. Len(s), j \in 1 .. Len(t) : s[i] # t[j]
    PROVE  LET r == __list_splice(m, list, head)
           IN  /\ r \in Memory
               /\ IsList(r, head, s \o t)
               /\ \A n \in Node : /\ n # head
                                  /\ \A i \in 1 .. Len(s) : s[i] # n
                                  /\ \A j \in 1 .. Len(t) : t[j] # n
                                  => r.next[n] = m.next[n] /\ r.prev[n] = m.prev[n]
<1> DEFINE first == m.next[list]
           last == m.prev[list]
           at == m.next[head]
           r == __list_splice(m, list, head)
           u == s \o t
           A == Len(s)
           B == Len(t)
<1>1. /\ A \in Nat /\ B \in Nat /\ list \in Node /\ head \in Node
      /\ s \in Seq(Node \ {head}) /\ t \in Seq(Node \ {head})
      /\ \A i \in 1 .. A : s[i] \in Node /\ s[i] # list /\ s[i] # head
      /\ \A j \in 1 .. B : t[j] \in Node /\ t[j] # list /\ t[j] # head
      /\ Distinct(s) /\ Distinct(t)
  BY DEF IsList
<1>2. /\ \A i \in 1 .. A - 1 : m.next[s[i]] = s[i+1] /\ m.prev[s[i+1]] = s[i]
      /\ first = s[1] /\ last = s[A]
  <2>1. /\ Neighbour(s, list, 0) = list /\ Neighbour(s, list, A + 1) = list
        /\ Neighbour(s, list, 1) = s[1] /\ Neighbour(s, list, A) = s[A]
        /\ \A i \in 1 .. A - 1 : /\ Neighbour(s, list, i) = s[i]
                                 /\ Neighbour(s, list, i + 1) = s[i+1]
    BY <1>1 DEF Neighbour
  <2>2. /\ 0 \in 0 .. A /\ A \in 0 .. A /\ \A i \in 1 .. A - 1 : i \in 0 .. A
    BY <1>1
  <2>3. m.next[Neighbour(s, list, 0)] = Neighbour(s, list, 0 + 1) BY <2>2 DEF IsList
  <2>4. m.prev[Neighbour(s, list, A + 1)] = Neighbour(s, list, A) BY <2>2 DEF IsList
  <2>5. \A i \in 1 .. A - 1 : /\ m.next[Neighbour(s, list, i)] = Neighbour(s, list, i + 1)
                              /\ m.prev[Neighbour(s, list, i + 1)] = Neighbour(s, list, i)
    BY <2>2 DEF IsList
  <2> QED BY <2>1, <2>3, <2>4, <2>5
<1>3. \A j \in 0 .. B : /\ m.next[Neighbour(t, head, j)] = Neighbour(t, head, j + 1)
                        /\ m.prev[Neighbour(t, head, j + 1)] = Neighbour(t, head, j)
  BY DEF IsList
<1>4. at = Neighbour(t, head, 1)
  <2>1. 0 \in 0 .. B /\ Neighbour(t, head, 0) = head BY <1>1 DEF Neighbour
  <2>2. m.next[Neighbour(t, head, 0)] = Neighbour(t, head, 0 + 1) BY <1>3, <2>1
  <2> QED BY <2>1, <2>2
<1>5. /\ first \in Node /\ last \in Node /\ at \in Node /\ at # first /\ last # head
  BY <1>1, <1>2, <1>4 DEF Neighbour
<1>6. /\ r \in Memory
      /\ \A n \in Node :
           /\ r.next[n] = IF n = last THEN at ELSE IF n = head THEN first ELSE m.next[n]
           /\ r.prev[n] = IF n = at THEN last ELSE IF n = first THEN head ELSE m.prev[n]
  <2> HIDE DEF first, last, at
  <2> QED BY <1>1, <1>5 DEF __list_splice, first, last, at
<1>7. \A n \in Node : /\ n # head
                      /\ \A i \in 1 .. Len(s) : s[i] # n
                      /\ \A j \in 1 .. Len(t) : t[j] # n
                      => n # last /\ n # at /\ n # first
  BY <1>1, <1>2, <1>4 DEF Neighbour
<1> HIDE DEF r, first, last, at
<1>8. /\ u \in Seq(Node \ {head}) /\ Len(u) = A + B
      /\ \A i \in 1 .. A + B : u[i] = IF i <= A THEN s[i] ELSE t[i - A]
  BY <1>1
<1> HIDE DEF u
<1>9. Distinct(u)
  <2> SUFFICES ASSUME NEW i \in 1 .. A + B, NEW j \in 1 .. A + B, u[i] = u[j] PROVE i = j
    BY <1>8 DEF Distinct
  <2>1. CASE i <= A /\ j <= A BY <1>1, <1>8, <2>1 DEF Distinct
  <2>2. CASE i > A /\ j > A
    <3>1. i - A \in 1 .. B /\ j - A \in 1 .. B /\ t[i - A] = t[j - A] BY <1>1, <1>8, <2>2
    <3>2. i - A = j - A BY <1>1, <3>1 DEF Distinct
    <3> QED BY <1>1, <3>2
  <2>3. CASE i <= A /\ j > A
    <3>1. i \in 1 .. A /\ j - A \in 1 .. B /\ s[i] = t[j - A] BY <1>1, <1>8, <2>3
    <3> QED BY <3>1
  <2>4. CASE i > A /\ j <= A
    <3>1. j \in 1 .. A /\ i - A \in 1 .. B /\ s[j] = t[i - A] BY <1>1, <1>8, <2>4
    <3> QED BY <3>1
  <2> QED BY <1>1, <2>1, <2>2, <2>3, <2>4
<1>10. \A i \in 0 .. A + B + 1 :
          Neighbour(u, head, i) = IF i = 0 THEN head ELSE IF i <= A THEN s[i]
                                  ELSE Neighbour(t, head, i - A)
  <2> TAKE i \in 0 .. A + B + 1
  <2>1. CASE i = 0 \/ i = A + B + 1 BY <1>1, <1>8, <2>1 DEF Neighbour
  <2>2. CASE i \in 1 .. A BY <1>1, <1>8, <2>2 DEF Neighbour
  <2>3. CASE i \in A + 1 .. A + B BY <1>1, <1>8, <2>3 DEF Neighbour
  <2>0. A \in Nat /\ B \in Nat BY <1>1
  <2> HIDE DEF A, B
  <2>4. (i = 0 \/ i = A + B + 1) \/ i \in 1 .. A \/ i \in A + 1 .. A + B BY <2>0
  <2> QED BY <2>1, <2>2, <2>3, <2>4
<1>11. ASSUME NEW i \in 0 .. A + B
       PROVE  /\ r.next[Neighbour(u, head, i)] = Neighbour(u, head, i + 1)
              /\ r.prev[Neighbour(u, head, i + 1)] = Neighbour(u, head, i)
  <2>0. i \in 0 .. A + B + 1 /\ i + 1 \in 0 .. A + B + 1 BY <1>1
  <2>1. CASE i = 0
    <3>1. Neighbour(u, head, i) = head /\ Neighbour(u, head, i + 1) = first
      BY <1>1, <1>2, <1>10, <2>0, <2>1
    <3> QED BY <1>1, <1>5, <1>6, <3>1
  <2>2. CASE i \in 1 .. A - 1
    <3>1. /\ Neighbour(u, head, i) = s[i] /\ Neighbour(u, head, i + 1) = s[i+1]
          /\ i + 1 \in 1 .. A /\ i \in 1 .. A /\ 1 \in 1 .. A /\ A \in 1 .. A
      BY <1>1, <1>10, <2>0, <2>2
    <3>2. s[i] # last /\ s[i] # head /\ s[i+1] # first BY <1>1, <1>2, <2>2, <3>1 DEF Distinct
    <3>3. s[i+1] # at BY <1>1, <1>4, <3>1 DEF Neighbour
    <3> QED BY <1>1, <1>2, <1>6, <2>2, <3>1, <3>2, <3>3
  <2>3. CASE i = A
    <3>1. Neighbour(u, head, i) = last /\ Neighbour(u, head, i + 1) = Neighbour(t, head, i + 1 - A)
      BY <1>1, <1>2, <1>10, <2>0, <2>3
    <3>2. i + 1 - A = 1 BY <1>1, <2>3
    <3> QED BY <1>4, <1>5, <1>6, <3>1, <3>2
  <2>4. CASE i > A
    <3> DEFINE j == i - A
    <3>1. j \in 1 .. B /\ j \in 0 .. B /\ i + 1 - A = j + 1 BY <1>1, <2>4
    <3>2. /\ Neighbour(u, head, i) = Neighbour(t, head, j)
          /\ Neighbour(u, head, i + 1) = Neighbour(t, head, j + 1)
      BY <1>1, <1>10, <2>0, <2>4, <3>1
    <3> HIDE DEF j
    <3>3. Neighbour(t, head, j) = t[j] /\ t[j] \in Node /\ t[j] # head /\ t[j] # last
      BY <1>1, <1>2, <3>1 DEF Neighbour
    <3>4. Neighbour(t, head, j + 1) # first /\ Neighbour(t, head, j + 1) \in Node
      BY <1>1, <1>2 DEF Neighbour
    <3>5. Neighbour(t, head, j + 1) # at
      <4>1. \A a, b \in 0 .. B : Neighbour(t, head, a + 1) = Neighbour(t, head, b + 1) => a = b
        BY Neighbours
      <4>2. 0 \in 0 .. B /\ j # 0 BY <1>1, <3>1
      <4>3. Neighbour(t, head, j + 1) # Neighbour(t, head, 0 + 1) BY <3>1, <4>1, <4>2
      <4> QED BY <1>4, <4>3
    <3> QED BY <1>3, <1>6, <3>1, <3>2, <3>3, <3>4, <3>5
  <2> QED BY <1>1, <2>1, <2>2, <2>3, <2>4
<1>12. IsList(r, head, u) BY <1>1, <1>8, <1>9, <1>11 DEF IsList
<1> QED BY <1>6, <1>7, <1>12 DEF r, u

-----------------------------------------------------------------------------
(* Which nodes a list holds.                                               *)

In(n, s) == \E i \in 1 .. Len(s) : s[i] = n

LEMMA InSeqs ==
    ASSUME NEW S, NEW s \in Seq(S), NEW n \in S
    PROVE  /\ \A k \in S : In(k, <<n>> \o s) <=> k = n \/ In(k, s)
           /\ \A k \in S : In(k, Append(s, n)) <=> k = n \/ In(k, s)
           /\ <<n>> \o s \in Seq(S) /\ Append(s, n) \in Seq(S)
<1>1. /\ Len(s) \in Nat
      /\ <<n>> \o s \in Seq(S) /\ Len(<<n>> \o s) = Len(s) + 1
      /\ \A i \in 1 .. Len(s) + 1 : (<<n>> \o s)[i] = IF i = 1 THEN n ELSE s[i-1]
      /\ Append(s, n) \in Seq(S) /\ Len(Append(s, n)) = Len(s) + 1
      /\ \A i \in 1 .. Len(s) + 1 : Append(s, n)[i] = IF i = Len(s) + 1 THEN n ELSE s[i]
  OBVIOUS
<1>2. ASSUME NEW k \in S PROVE In(k, <<n>> \o s) <=> k = n \/ In(k, s)
  <2>1. In(k, <<n>> \o s) => k = n \/ In(k, s)
    <3> HAVE In(k, <<n>> \o s)
    <3>1. PICK i \in 1 .. Len(s) + 1 : (<<n>> \o s)[i] = k BY <1>1 DEF In
    <3>2. CASE i = 1 BY <1>1, <3>1, <3>2
    <3>3. CASE i # 1
      <4>1. i - 1 \in 1 .. Len(s) /\ s[i-1] = k BY <1>1, <3>1, <3>3
      <4> QED BY <4>1 DEF In
    <3> QED BY <3>2, <3>3
  <2>2. In(k, s) => In(k, <<n>> \o s)
    <3> HAVE In(k, s)
    <3>1. PICK i \in 1 .. Len(s) : s[i] = k BY DEF In
    <3>2. i + 1 \in 1 .. Len(s) + 1 /\ i + 1 # 1 /\ (i + 1) - 1 = i BY <1>1
    <3>3. (<<n>> \o s)[i+1] = s[i] BY <1>1, <3>2
    <3> QED BY <1>1, <3>1, <3>2, <3>3 DEF In
  <2>3. k = n => In(k, <<n>> \o s)
    <3>1. 1 \in 1 .. Len(s) + 1 BY <1>1
    <3> QED BY <1>1, <3>1 DEF In
  <2> QED BY <2>1, <2>2, <2>3
<1>3. ASSUME NEW k \in S PROVE In(k, Append(s, n)) <=> k = n \/ In(k, s)
  <2>1. In(k, Append(s, n)) => k = n \/ In(k, s)
    <3> HAVE In(k, Append(s, n))
    <3>1. PICK i \in 1 .. Len(s) + 1 : Append(s, n)[i] = k BY <1>1 DEF In
    <3>2. CASE i = Len(s) + 1 BY <1>1, <3>1, <3>2
    <3>3. CASE i # Len(s) + 1
      <4>1. i \in 1 .. Len(s) /\ s[i] = k BY <1>1, <3>1, <3>3
      <4> QED BY <4>1 DEF In
    <3> QED BY <3>2, <3>3
  <2>2. In(k, s) => In(k, Append(s, n))
    <3> HAVE In(k, s)
    <3>1. PICK i \in 1 .. Len(s) : s[i] = k BY DEF In
    <3>2. i \in 1 .. Len(s) + 1 /\ i # Len(s) + 1 BY <1>1
    <3> QED BY <1>1, <3>1, <3>2 DEF In
  <2>3. k = n => In(k, Append(s, n))
    <3>1. Len(s) + 1 \in 1 .. Len(s) + 1 BY <1>1
    <3> QED BY <1>1, <3>1 DEF In
  <2> QED BY <2>1, <2>2, <2>3
<1> QED BY <1>1, <1>2, <1>3

LEMMA RemovedWords ==
    ASSUME NEW S, NEW s \in Seq(S), Distinct(s), NEW k \in 1 .. Len(s)
    PROVE  /\ Removed(s, k) \in Seq(S)
           /\ \A n \in S : In(n, Removed(s, k)) <=> In(n, s) /\ n # s[k]
<1>1. /\ Len(s) \in Nat /\ Removed(s, k) \in Seq(S) /\ Len(Removed(s, k)) = Len(s) - 1
      /\ \A j \in 1 .. Len(s) - 1 : Removed(s, k)[j] = IF j < k THEN s[j] ELSE s[j+1]
  BY DEF Removed
<1>2. ASSUME NEW n \in S, In(n, Removed(s, k)) PROVE In(n, s) /\ n # s[k]
  <2>1. PICK j \in 1 .. Len(s) - 1 : Removed(s, k)[j] = n BY <1>1, <1>2 DEF In
  <2>2. CASE j < k
    <3>1. j \in 1 .. Len(s) /\ s[j] = n BY <1>1, <2>1, <2>2
    <3> QED BY <2>2, <3>1 DEF In, Distinct
  <2>3. CASE ~(j < k)
    <3>1. j + 1 \in 1 .. Len(s) /\ s[j+1] = n /\ j + 1 # k BY <1>1, <2>1, <2>3
    <3> QED BY <3>1 DEF In, Distinct
  <2> QED BY <2>2, <2>3
<1>3. ASSUME NEW n \in S, In(n, s), n # s[k] PROVE In(n, Removed(s, k))
  <2>1. PICK i \in 1 .. Len(s) : s[i] = n BY <1>3 DEF In
  <2>2. CASE i < k
    <3>1. i \in 1 .. Len(s) - 1 /\ Removed(s, k)[i] = n BY <1>1, <2>1, <2>2
    <3> QED BY <1>1, <3>1 DEF In
  <2>3. CASE i > k
    <3>1. i - 1 \in 1 .. Len(s) - 1 /\ ~(i - 1 < k) /\ (i - 1) + 1 = i BY <1>1, <2>3
    <3>2. Removed(s, k)[i-1] = n BY <1>1, <2>1, <3>1
    <3> QED BY <1>1, <3>1, <3>2 DEF In
  <2> QED BY <1>1, <1>3, <2>1, <2>2, <2>3
<1> QED BY <1>1, <1>2, <1>3

\* the word after the head or an entry names an entry or the head
LEMMA NextIn ==
    ASSUME NEW m, NEW head, NEW s, IsList(m, head, s), NEW n, n = head \/ In(n, s)
    PROVE  m.next[n] = head \/ In(m.next[n], s)
<1>1. PICK i \in 0 .. Len(s) : n = Neighbour(s, head, i)
  <2>1. CASE n = head
    <3>1. 0 \in 0 .. Len(s) /\ Neighbour(s, head, 0) = head BY Neighbours
    <3> QED BY <2>1, <3>1
  <2>2. CASE In(n, s)
    <3>1. PICK i \in 1 .. Len(s) : s[i] = n BY <2>2 DEF In
    <3>2. Len(s) \in Nat BY Neighbours
    <3>3. i \in 0 .. Len(s) /\ Neighbour(s, head, i) = s[i] BY <3>2 DEF Neighbour
    <3> QED BY <3>1, <3>3
  <2> QED BY <2>1, <2>2
<1>2. m.next[n] = Neighbour(s, head, i + 1) BY <1>1 DEF IsList
<1> QED BY <1>2 DEF Neighbour, In
=============================================================================
