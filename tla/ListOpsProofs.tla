----------------------------- MODULE ListOpsProofs -----------------------------
(***************************************************************************)
(* ListOps implements SequenceLists, for any number of heads and entries   *)
(* and lists of any length: every call of list.h changes the sequences as  *)
(* its comment says and no other way.                                      *)
(***************************************************************************)
EXTENDS ListOps, LinkedListProofs

USE HeadsAssumption, PoisonAssumption

Detached(m, n) == \/ m.next[n] = Poison /\ m.prev[n] = Poison
                  \/ list_empty_careful(m, n)

(***************************************************************************)
(* The strengthening: in m, each head that is not in st has the list that  *)
(* ls gives it, no entry is in two lists, and the entries that are in none *)
(* and not in X, on which a call is at work, are cut off.                  *)
(***************************************************************************)
Sound(m, st, ls, X) ==
    /\ m \in Memory /\ st \subseteq Heads
    /\ ls \in [Heads -> Seq(Entries)]
    /\ \A h \in Heads \ st : IsList(m, h, ls[h])
    /\ \A h \in st : ls[h] = <<>>
    /\ \A g, h \in Heads : \A n \in Entries : In(n, ls[g]) /\ In(n, ls[h]) => g = h
    /\ \A n \in Entries \ X : (\A h \in Heads : ~In(n, ls[h])) => Detached(m, n)

\* what a sound memory lists is what the walks meet
Walks(m, st) == [h \in Heads |-> IF h \in st THEN <<>> ELSE list_for_each(m, h)]

LEMMA ListsMet ==
    ASSUME NEW m, NEW st, NEW ls, NEW X, Sound(m, st, ls, X)
    PROVE  Walks(m, st) = ls
<1>1. ASSUME NEW h \in Heads \ st PROVE list_for_each(m, h) = ls[h]
  <2>1. IsList(m, h, ls[h]) BY DEF Sound
  <2> QED BY <2>1, ForEachMeets
<1> QED BY <1>1 DEF Sound, Walks

IInv == Sound(mem, stale, Walks(mem, stale), {})

-----------------------------------------------------------------------------
(***************************************************************************)
(* A call that writes words of the heads H, of their entries, and of the   *)
(* entries Y that are in no other list, leaves the rest alone.             *)
(***************************************************************************)
Writes(m, r, ls, H, Y) ==
    /\ r \in Memory /\ H \subseteq Heads /\ Y \subseteq Entries
    /\ \A n \in Y, h \in Heads \ H : ~In(n, ls[h])
    /\ \A n \in Node : n \notin H /\ n \notin Y /\ (\A h \in H : ~In(n, ls[h]))
                       => r.next[n] = m.next[n] /\ r.prev[n] = m.prev[n]

LEMMA Frame ==
    ASSUME NEW m, NEW st, NEW ls, NEW X, Sound(m, st, ls, X),
           NEW r, NEW H, NEW Y, Writes(m, r, ls, H, Y)
    PROVE  /\ \A g \in (Heads \ st) \ H : IsList(r, g, ls[g])
           /\ \A n \in Entries \ (X \cup Y) :
                 (\A h \in Heads : ~In(n, ls[h])) => Detached(r, n)
<1>1. /\ ls \in [Heads -> Seq(Entries)] /\ H \subseteq Heads /\ Y \subseteq Entries
      /\ \A g, h \in Heads : \A n \in Entries : In(n, ls[g]) /\ In(n, ls[h]) => g = h
      /\ \A n \in Y, h \in Heads \ H : ~In(n, ls[h])
      /\ \A n \in Node : n \notin H /\ n \notin Y /\ (\A h \in H : ~In(n, ls[h]))
                         => r.next[n] = m.next[n] /\ r.prev[n] = m.prev[n]
  BY DEF Sound, Writes
<1>2. \A h \in Heads, n \in Node : In(n, ls[h]) => n \in Entries
  BY <1>1 DEF In
<1>3. ASSUME NEW g \in (Heads \ st) \ H PROVE IsList(r, g, ls[g])
  <2>1. IsList(m, g, ls[g]) BY DEF Sound
  <2>2. ASSUME NEW i \in 0 .. Len(ls[g])
        PROVE  LET n == Neighbour(ls[g], g, i) IN r.next[n] = m.next[n] /\ r.prev[n] = m.prev[n]
    <3>1. CASE i \in 1 .. Len(ls[g])
      <4> DEFINE n == ls[g][i]
      <4>1. Neighbour(ls[g], g, i) = n /\ In(n, ls[g]) /\ n \in Entries
        BY <1>1, <3>1 DEF Neighbour, In
      <4> HIDE DEF n
      <4>2. n \notin H /\ n \notin Y /\ \A h \in H : ~In(n, ls[h])
        BY <1>1, <4>1 DEF Entries
      <4> QED BY <1>1, <4>1, <4>2 DEF Entries
    <3>2. CASE i \notin 1 .. Len(ls[g])
      <4>1. Neighbour(ls[g], g, i) = g BY <3>2 DEF Neighbour
      <4>2. g \in Node /\ g \notin H /\ g \notin Y /\ \A h \in H : ~In(g, ls[h])
        BY <1>1, <1>2 DEF Entries
      <4> QED BY <1>1, <4>1, <4>2
    <3> QED BY <3>1, <3>2
  <2> QED BY <2>1, <2>2, ListKept
<1>4. ASSUME NEW n \in Entries \ (X \cup Y), \A h \in Heads : ~In(n, ls[h])
      PROVE  Detached(r, n)
  <2>1. Detached(m, n) BY <1>4 DEF Sound
  <2>2. n \in Node /\ n \notin H /\ n \notin Y /\ \A h \in H : ~In(n, ls[h])
    BY <1>1, <1>4 DEF Entries
  <2>3. r.next[n] = m.next[n] /\ r.prev[n] = m.prev[n] BY <1>1, <2>2
  <2> QED BY <2>1, <2>3 DEF Detached, list_empty_careful
<1> QED BY <1>3, <1>4

(***************************************************************************)
(* When the lists of H after the call are those that ls2 gives, the memory *)
(* after the call is sound.                                                *)
(***************************************************************************)
Changed(ls, X, r, H, Y, st, st2, ls2, X2) ==
    /\ st2 \subseteq Heads /\ ls2 \in [Heads -> Seq(Entries)]
    /\ \A g \in Heads \ H : ls2[g] = ls[g] /\ (g \in st2 <=> g \in st)
    /\ \A h \in H : IF h \in st2 THEN ls2[h] = <<>> ELSE IsList(r, h, ls2[h])
    /\ \A h \in H : \A n \in Entries :
          In(n, ls2[h]) => n \in Y \/ \E g \in H : In(n, ls[g])
    /\ \A g, h \in H : \A n \in Entries : In(n, ls2[g]) /\ In(n, ls2[h]) => g = h
    /\ \A n \in Entries : n \in Y \/ (\E h \in H : In(n, ls[h]))
          => (\E h \in H : In(n, ls2[h])) \/ n \in X2 \/ Detached(r, n)
    /\ X \subseteq X2 \cup Y

LEMMA Update ==
    ASSUME NEW m, NEW st, NEW ls, NEW X, Sound(m, st, ls, X),
           NEW r, NEW H, NEW Y, Writes(m, r, ls, H, Y),
           NEW st2, NEW ls2, NEW X2, Changed(ls, X, r, H, Y, st, st2, ls2, X2)
    PROVE  Sound(r, st2, ls2, X2)
<1>0. /\ st2 \subseteq Heads /\ ls2 \in [Heads -> Seq(Entries)]
      /\ \A g \in Heads \ H : ls2[g] = ls[g] /\ (g \in st2 <=> g \in st)
      /\ \A h \in H : IF h \in st2 THEN ls2[h] = <<>> ELSE IsList(r, h, ls2[h])
      /\ \A h \in H : \A n \in Entries :
            In(n, ls2[h]) => n \in Y \/ \E g \in H : In(n, ls[g])
      /\ \A g, h \in H : \A n \in Entries : In(n, ls2[g]) /\ In(n, ls2[h]) => g = h
      /\ \A n \in Entries : n \in Y \/ (\E h \in H : In(n, ls[h]))
            => (\E h \in H : In(n, ls2[h])) \/ n \in X2 \/ Detached(r, n)
      /\ X \subseteq X2 \cup Y
  BY DEF Changed
<1>1. /\ \A g \in (Heads \ st) \ H : IsList(r, g, ls[g])
      /\ \A n \in Entries \ (X \cup Y) :
            (\A h \in Heads : ~In(n, ls[h])) => Detached(r, n)
  BY Frame
<1>2. /\ ls \in [Heads -> Seq(Entries)] /\ H \subseteq Heads /\ Y \subseteq Entries /\ r \in Memory
      /\ \A g, h \in Heads : \A n \in Entries : In(n, ls[g]) /\ In(n, ls[h]) => g = h
      /\ \A n \in Y, h \in Heads \ H : ~In(n, ls[h])
      /\ \A h \in st : ls[h] = <<>>
  BY DEF Sound, Writes
<1>3. \A h \in Heads \ st2 : IsList(r, h, ls2[h]) BY <1>0, <1>1, <1>2
<1>4. \A h \in st2 : ls2[h] = <<>> BY <1>0, <1>2
<1>5. ASSUME NEW g \in Heads, NEW h \in Heads, NEW n \in Entries,
             In(n, ls2[g]), In(n, ls2[h])
      PROVE  g = h
  <2>1. CASE g \in H /\ h \in H BY <1>0, <1>5, <2>1
  <2>2. CASE g \notin H /\ h \notin H
    <3>1. In(n, ls[g]) /\ In(n, ls[h]) BY <1>0, <1>5, <2>2
    <3> QED BY <1>2, <3>1
  <2>3. ASSUME NEW a \in H, NEW b \in Heads \ H, In(n, ls2[a]), In(n, ls2[b]) PROVE FALSE
    <3>1. In(n, ls[b]) BY <1>0, <2>3
    <3>2. n \notin Y BY <1>2, <3>1
    <3>3. PICK c \in H : In(n, ls[c]) BY <1>0, <2>3, <3>2
    <3> QED BY <1>2, <3>1, <3>3
  <2> QED BY <1>5, <2>1, <2>2, <2>3
<1>6. ASSUME NEW n \in Entries \ X2, \A h \in Heads : ~In(n, ls2[h])
      PROVE  Detached(r, n)
  <2>1. CASE n \in Y \/ \E h \in H : In(n, ls[h]) BY <1>0, <1>2, <1>6, <2>1
  <2>2. CASE n \notin Y /\ \A h \in H : ~In(n, ls[h])
    <3>1. \A h \in Heads : ~In(n, ls[h]) BY <1>0, <1>6, <2>2
    <3>2. n \notin X BY <1>0, <2>2
    <3> QED BY <1>1, <2>2, <3>1, <3>2
  <2> QED BY <2>1, <2>2
<1> QED BY <1>0, <1>2, <1>3, <1>4, <1>5, <1>6 DEF Sound

-----------------------------------------------------------------------------
(* The memory operators, one lemma each.                                   *)

\* entering an entry that is in no list, at either end
LEMMA InsertSound ==
    ASSUME NEW m, NEW st, NEW ls, NEW X, Sound(m, st, ls, X),
           NEW n \in Entries, X \subseteq {n}, \A g \in Heads : ~In(n, ls[g]),
           NEW h \in Heads \ st
    PROVE  /\ Sound(list_add(m, n, h), st, [ls EXCEPT ![h] = <<n>> \o @], {})
           /\ Sound(list_add_tail(m, n, h), st, [ls EXCEPT ![h] = Append(@, n)], {})
<1>1. /\ ls \in [Heads -> Seq(Entries)] /\ m \in Memory /\ IsList(m, h, ls[h])
      /\ n \in Node \ {h} /\ \A i \in 1 .. Len(ls[h]) : ls[h][i] # n
      /\ st \in SUBSET Heads /\ h \in Node
  BY DEF Sound, Entries, In
<1>2. ASSUME NEW r, NEW t \in Seq(Entries), r \in Memory, IsList(r, h, t),
             \A k \in Entries : In(k, t) <=> k = n \/ In(k, ls[h]),
             \E prev, next \in {h} \cup {ls[h][i] : i \in 1 .. Len(ls[h])} :
                r = __list_add(m, n, prev, next)
      PROVE  Sound(r, st, [ls EXCEPT ![h] = t], {})
  <2> DEFINE ls2 == [ls EXCEPT ![h] = t]
             H == {h}
             Y == {n}
             X2 == {}
  <2>1. Writes(m, r, ls, H, Y)
    <3>1. \A k \in Node : k # h /\ k # n /\ ~In(k, ls[h]) => r.next[k] = m.next[k] /\ r.prev[k] = m.prev[k]
      <4>1. PICK prev, next \in {h} \cup {ls[h][i] : i \in 1 .. Len(ls[h])} :
               r = __list_add(m, n, prev, next)
        BY <1>2
      <4>2. prev \in Node /\ next \in Node /\ n # prev /\ n # next BY <1>1, <4>1 DEF Entries
      <4>3. \A k \in Node : k # prev /\ k # next /\ k # n
                            => r.next[k] = m.next[k] /\ r.prev[k] = m.prev[k]
        BY <1>1, <4>1, <4>2, AddWords
      <4> QED BY <4>1, <4>3 DEF In
    <3> QED BY <1>1, <1>2, <3>1 DEF Writes
  <2>2. ls2 \in [Heads -> Seq(Entries)] /\ ls2[h] = t /\ \A g \in Heads \ {h} : ls2[g] = ls[g]
    BY <1>1
  <2> HIDE DEF ls2
  <2>3. \A g \in Heads \ H : ls2[g] = ls[g] /\ (g \in st <=> g \in st) BY <2>2
  <2>4. \A g \in H : IF g \in st THEN ls2[g] = <<>> ELSE IsList(r, g, ls2[g]) BY <1>2, <2>2
  <2>5. \A g \in H : \A k \in Entries : In(k, ls2[g]) => k \in Y \/ \E a \in H : In(k, ls[a])
    BY <1>2, <2>2
  <2>6. \A a, b \in H : \A k \in Entries : In(k, ls2[a]) /\ In(k, ls2[b]) => a = b OBVIOUS
  <2>7. \A k \in Entries : k \in Y \/ (\E a \in H : In(k, ls[a]))
                          => (\E a \in H : In(k, ls2[a])) \/ k \in X2 \/ Detached(r, k)
    BY <1>2, <2>2
  <2>8. X \subseteq X2 \cup Y OBVIOUS
  <2>9. st \subseteq Heads /\ ls2 \in [Heads -> Seq(Entries)] BY <1>1, <2>2
  <2> HIDE DEF H, Y, X2
  <2>10. Changed(ls, X, r, H, Y, st, st, ls2, X2)
    BY <2>3, <2>4, <2>5, <2>6, <2>7, <2>8, <2>9 DEF Changed
  <2>11. Sound(r, st, ls2, X2) BY <2>1, <2>10, Update
  <2> QED BY <2>11 DEF ls2, X2
<1>3. ls[h] \in Seq(Entries) BY <1>1
<1>4. /\ <<n>> \o ls[h] \in Seq(Entries) /\ Append(ls[h], n) \in Seq(Entries)
      /\ \A k \in Entries : In(k, <<n>> \o ls[h]) <=> k = n \/ In(k, ls[h])
      /\ \A k \in Entries : In(k, Append(ls[h], n)) <=> k = n \/ In(k, ls[h])
  BY <1>3, InSeqs
<1>5. /\ list_add(m, n, h) \in Memory /\ IsList(list_add(m, n, h), h, <<n>> \o ls[h])
      /\ list_add_tail(m, n, h) \in Memory
      /\ IsList(list_add_tail(m, n, h), h, Append(ls[h], n))
  BY <1>1, AddFirst, AddLast
<1>6. /\ m.next[h] \in {h} \cup {ls[h][i] : i \in 1 .. Len(ls[h])}
      /\ m.prev[h] \in {h} \cup {ls[h][i] : i \in 1 .. Len(ls[h])}
  <2>1. /\ Len(ls[h]) \in Nat /\ Neighbour(ls[h], h, 0) = h
        /\ Neighbour(ls[h], h, Len(ls[h]) + 1) = h
    BY <1>1, Neighbours
  <2>2. 0 \in 0 .. Len(ls[h]) /\ Len(ls[h]) \in 0 .. Len(ls[h]) BY <2>1
  <2>3. m.next[Neighbour(ls[h], h, 0)] = Neighbour(ls[h], h, 0 + 1) BY <1>1, <2>2 DEF IsList
  <2>4. m.prev[Neighbour(ls[h], h, Len(ls[h]) + 1)] = Neighbour(ls[h], h, Len(ls[h]))
    BY <1>1, <2>2 DEF IsList
  <2> QED BY <2>1, <2>3, <2>4 DEF Neighbour
<1>7. /\ \E prev, next \in {h} \cup {ls[h][i] : i \in 1 .. Len(ls[h])} :
            list_add(m, n, h) = __list_add(m, n, prev, next)
      /\ \E prev, next \in {h} \cup {ls[h][i] : i \in 1 .. Len(ls[h])} :
            list_add_tail(m, n, h) = __list_add(m, n, prev, next)
  BY <1>6 DEF list_add, list_add_tail
<1>8. /\ [ls EXCEPT ![h] = <<n>> \o @] = [ls EXCEPT ![h] = <<n>> \o ls[h]]
      /\ [ls EXCEPT ![h] = Append(@, n)] = [ls EXCEPT ![h] = Append(ls[h], n)]
  BY <1>1
<1>9. Sound(list_add(m, n, h), st, [ls EXCEPT ![h] = <<n>> \o ls[h]], {})
  BY <1>2, <1>4, <1>5, <1>7
<1>10. Sound(list_add_tail(m, n, h), st, [ls EXCEPT ![h] = Append(ls[h], n)], {})
  BY <1>2, <1>4, <1>5, <1>7
<1> QED BY <1>8, <1>9, <1>10

\* cutting an entry off leaves it to the call, in no list
LEMMA CutSound ==
    ASSUME NEW m, NEW st, NEW ls, Sound(m, st, ls, {}), NEW h \in Heads,
           NEW k \in 1 .. Len(ls[h])
    PROVE  LET n == ls[h][k]
               ls2 == [ls EXCEPT ![h] = Removed(@, k)]
           IN  /\ Sound(__list_del(m, m.prev[n], m.next[n]), st, ls2, {n})
               /\ \A g \in Heads : ~In(n, ls2[g])
<1> DEFINE n == ls[h][k]
           r == __list_del(m, m.prev[n], m.next[n])
           t == Removed(ls[h], k)
           ls2 == [ls EXCEPT ![h] = t]
           H == {h}
           Y == {}
           X == {}
<1>1. /\ ls \in [Heads -> Seq(Entries)] /\ m \in Memory /\ st \in SUBSET Heads
      /\ h \notin st /\ IsList(m, h, ls[h]) /\ ls[h] \in Seq(Entries) /\ n \in Entries
      /\ \A a, b \in Heads : \A e \in Entries : In(e, ls[a]) /\ In(e, ls[b]) => a = b
  BY DEF Sound
<1>2. /\ r \in Memory /\ IsList(r, h, t)
      /\ \A e \in Node : e # h /\ (\A i \in 1 .. Len(ls[h]) : ls[h][i] # e)
                         => r.next[e] = m.next[e] /\ r.prev[e] = m.prev[e]
  BY <1>1, CutEntry
<1>3. t \in Seq(Entries) /\ \A e \in Entries : In(e, t) <=> In(e, ls[h]) /\ e # n
  <2>1. Distinct(ls[h]) BY <1>1 DEF IsList
  <2> QED BY <1>1, <2>1, RemovedWords
<1> HIDE DEF r, t
<1>4. Writes(m, r, ls, H, Y)
  BY <1>1, <1>2 DEF Writes, In
<1>5. ls2 \in [Heads -> Seq(Entries)] /\ ls2[h] = t /\ \A g \in Heads \ {h} : ls2[g] = ls[g]
  BY <1>1, <1>3
<1>6. [ls EXCEPT ![h] = Removed(@, k)] = ls2 BY <1>1 DEF t
<1> HIDE DEF ls2
<1>7. \A g \in Heads \ H : ls2[g] = ls[g] /\ (g \in st <=> g \in st) BY <1>5
<1>8. \A g \in H : IF g \in st THEN ls2[g] = <<>> ELSE IsList(r, g, ls2[g]) BY <1>1, <1>2, <1>5
<1>9. \A g \in H : \A e \in Entries : In(e, ls2[g]) => e \in Y \/ \E a \in H : In(e, ls[a])
  BY <1>3, <1>5
<1>10. \A a, b \in H : \A e \in Entries : In(e, ls2[a]) /\ In(e, ls2[b]) => a = b OBVIOUS
<1>11. \A e \in Entries : e \in Y \/ (\E a \in H : In(e, ls[a]))
                        => (\E a \in H : In(e, ls2[a])) \/ e \in {n} \/ Detached(r, e)
  BY <1>3, <1>5
<1>12. X \subseteq {n} \cup Y OBVIOUS
<1>13. \A g \in Heads : ~In(n, ls2[g])
  <2>1. In(n, ls[h]) BY <1>1 DEF In
  <2> HIDE DEF n
  <2> QED BY <1>1, <1>3, <1>5, <2>1
<1>14. Sound(m, st, ls, X) OBVIOUS
<1>15. st \subseteq Heads /\ ls2 \in [Heads -> Seq(Entries)] BY <1>1, <1>5
<1> HIDE DEF H, Y, X, n
<1>16. Changed(ls, X, r, H, Y, st, st, ls2, {n})
  BY <1>7, <1>8, <1>9, <1>10, <1>11, <1>12, <1>15 DEF Changed
<1>17. Sound(r, st, ls2, {n}) BY <1>4, <1>14, <1>16, Update
<1> QED BY <1>6, <1>13, <1>17 DEF r, n

-----------------------------------------------------------------------------
(* The calls, one lemma each.                                              *)

LEMMA WithoutRemoved ==
    ASSUME NEW s \in Seq(Entries), Distinct(s), NEW n \in Entries
    PROVE  /\ ~In(n, s) => Contract!Without(s, n) = s
           /\ \A k \in 1 .. Len(s) : s[k] = n => Contract!Without(s, n) = Removed(s, k)
<1>1. DOMAIN s = 1 .. Len(s) /\ Len(s) \in Nat OBVIOUS
<1>2. n \in Contract!Range(s) <=> In(n, s)
  BY <1>1 DEF In, Contract!Range
<1>3. ASSUME NEW k \in 1 .. Len(s), s[k] = n PROVE Contract!Without(s, n) = Removed(s, k)
  <2> DEFINE j == CHOOSE j \in DOMAIN s : s[j] = n
  <2>1. j \in DOMAIN s /\ s[j] = n BY <1>1, <1>3
  <2>2. j = k
    <3> HIDE DEF j
    <3> QED BY <1>1, <1>3, <2>1 DEF Distinct
  <2>3. Contract!Without(s, n) = SubSeq(s, 1, j - 1) \o SubSeq(s, j + 1, Len(s))
    BY <1>2, <1>3 DEF Contract!Without, In
  <2>4. SubSeq(s, 1, k - 1) \o SubSeq(s, k + 1, Len(s)) = Removed(s, k)
    <3> DEFINE a == SubSeq(s, 1, k - 1)
               b == SubSeq(s, k + 1, Len(s))
               t == Removed(s, k)
    <3>1. /\ a \in Seq(Entries) /\ Len(a) = k - 1 /\ \A i \in 1 .. k - 1 : a[i] = s[i]
          /\ b \in Seq(Entries) /\ Len(b) = Len(s) - k
      <4>1. k \in Int /\ 1 <= k /\ k <= Len(s) /\ Len(s) \in Int BY <1>1
      <4>2. \A i \in k + 1 .. Len(s) : s[i] \in Entries BY <4>1
      <4>3. /\ b \in Seq(Entries)
            /\ Len(b) = IF k + 1 <= Len(s) THEN Len(s) - (k + 1) + 1 ELSE 0
        BY <4>1, <4>2, SubSeqProperties
      <4>4. Len(b) = Len(s) - k
        <5> HIDE DEF b
        <5> QED BY <4>1, <4>3
      <4>5. a \in Seq(Entries) /\ Len(a) = k - 1 /\ \A i \in 1 .. k - 1 : a[i] = s[i]
        BY <1>1
      <4> QED BY <4>3, <4>4, <4>5
    <3>1a. ASSUME NEW i \in 1 .. Len(s) - k PROVE b[i] = s[i + k]
      <4>1. i \in 1 .. Len(s) - (k + 1) + 1 /\ (k + 1) + i - 1 = i + k BY <1>1
      <4>2. b[i] = s[(k + 1) + i - 1] BY <1>1, <4>1
      <4> QED BY <4>1, <4>2
    <3>2. /\ t \in Seq(Entries) /\ Len(t) = Len(s) - 1
          /\ \A i \in 1 .. Len(s) - 1 : t[i] = IF i < k THEN s[i] ELSE s[i+1]
      BY <1>1 DEF Removed
    <3> HIDE DEF a, b, t
    <3>3. a \o b \in Seq(Entries) /\ Len(a \o b) = Len(s) - 1
      <4>1. a \o b \in Seq(Entries) /\ Len(a \o b) = Len(a) + Len(b)
        BY <3>1, ConcatProperties
      <4> QED BY <1>1, <3>1, <4>1
    <3>3a. ASSUME NEW i \in 1 .. Len(s) - 1
           PROVE  (a \o b)[i] = IF i < k THEN a[i] ELSE b[i - (k - 1)]
      <4>1. i \in 1 .. Len(a) + Len(b) /\ (i <= Len(a) <=> i < k) /\ Len(a) = k - 1
        BY <1>1, <3>1
      <4>2. (a \o b)[i] = IF i <= Len(a) THEN a[i] ELSE b[i - Len(a)] BY <3>1, <4>1
      <4> QED BY <4>1, <4>2
    <3>4. ASSUME NEW i \in 1 .. Len(s) - 1 PROVE (a \o b)[i] = t[i]
      <4>1. CASE i < k BY <1>1, <3>1, <3>2, <3>3a, <4>1
      <4>2. CASE ~(i < k)
        <5>1. i - (k - 1) \in 1 .. Len(s) - k /\ (i - (k - 1)) + k = i + 1 BY <1>1, <4>2
        <5>2. b[i - (k - 1)] = s[i + 1] BY <3>1a, <5>1
        <5> QED BY <3>2, <3>3a, <4>2, <5>2
      <4> QED BY <4>1, <4>2
    <3>5. a \o b = t BY <3>2, <3>3, <3>4, SeqEqual
    <3> QED BY <3>5 DEF a, b, t
  <2> HIDE DEF j
  <2> QED BY <2>2, <2>3, <2>4
<1> QED BY <1>2, <1>3 DEF Contract!Without

\* an entry that is in no list and that a call has cut off
LEMMA DetachSound ==
    ASSUME NEW m, NEW st, NEW ls, NEW n \in Entries, Sound(m, st, ls, {n}),
           \A g \in Heads : ~In(n, ls[g]),
           NEW r \in Memory, Detached(r, n),
           \A k \in Node \ {n} : r.next[k] = m.next[k] /\ r.prev[k] = m.prev[k]
    PROVE  Sound(r, st, ls, {})
<1> DEFINE H == {}
           Y == {n}
           X == {n}
           X2 == {}
<1>1. st \subseteq Heads /\ ls \in [Heads -> Seq(Entries)] BY DEF Sound
<1>2. Writes(m, r, ls, H, Y) BY DEF Writes
<1>3. Changed(ls, X, r, H, Y, st, st, ls, X2) BY <1>1 DEF Changed
<1> HIDE DEF H, Y, X2
<1>4. Sound(r, st, ls, X2) BY <1>2, <1>3, Update
<1> QED BY <1>4 DEF X2

\* the lists without the entry n
Cleared(ls, n) == [g \in Heads |-> Contract!Without(ls[g], n)]

LEMMA DeleteSound ==
    ASSUME NEW m, NEW st, NEW ls, Sound(m, st, ls, {}), NEW n \in Entries,
           NEW h \in Heads, In(n, ls[h])
    PROVE  LET ls2 == Cleared(ls, n)
           IN  /\ Sound(__list_del(m, m.prev[n], m.next[n]), st, ls2, {n})
               /\ Sound(list_del(m, n), st, ls2, {})
               /\ Sound(list_del_init(m, n), st, ls2, {})
               /\ \A g \in Heads : ~In(n, ls2[g])
<1> DEFINE ls2 == Cleared(ls, n)
           r == __list_del(m, m.prev[n], m.next[n])
<1>1. /\ ls \in [Heads -> Seq(Entries)]
      /\ h \notin st /\ \A g \in Heads \ st : IsList(m, g, ls[g])
      /\ \A g \in st : ls[g] = <<>>
      /\ \A a, b \in Heads : \A e \in Entries : In(e, ls[a]) /\ In(e, ls[b]) => a = b
  BY DEF Sound, In
<1>2. PICK k \in 1 .. Len(ls[h]) : ls[h][k] = n BY DEF In
<1>3. Distinct(ls[h]) /\ \A g \in Heads : Distinct(ls[g])
  <2>1. \A g \in Heads \ st : Distinct(ls[g]) BY <1>1 DEF IsList
  <2>2. Distinct(<<>>) BY DEF Distinct
  <2> QED BY <1>1, <2>1, <2>2
<1>4. [ls EXCEPT ![h] = Removed(@, k)] = ls2
  <2>1. Contract!Without(ls[h], n) = Removed(ls[h], k) BY <1>1, <1>2, <1>3, WithoutRemoved
  <2>2. \A g \in Heads \ {h} : Contract!Without(ls[g], n) = ls[g]
    BY <1>1, <1>3, WithoutRemoved
  <2> QED BY <1>1, <2>1, <2>2 DEF Cleared
<1> HIDE DEF ls2
<1>5. Sound(r, st, ls2, {n}) /\ \A g \in Heads : ~In(n, ls2[g])
  BY <1>2, <1>4, CutSound
<1> HIDE DEF r
<1>6. r \in Memory /\ n \in Node BY <1>5 DEF Sound, Entries
<1>7. Sound(list_del(m, n), st, ls2, {})
  <2> DEFINE r2 == [next |-> [r.next EXCEPT ![n] = Poison], prev |-> [r.prev EXCEPT ![n] = Poison]]
  <2>1. r2 \in Memory BY <1>6 DEF Memory
  <2>2. r2.next[n] = Poison /\ r2.prev[n] = Poison
    BY <1>6 DEF Memory
  <2>3. \A e \in Node \ {n} : r2.next[e] = r.next[e] /\ r2.prev[e] = r.prev[e]
    BY <1>6 DEF Memory
  <2>4. list_del(m, n) = r2 BY DEF list_del, r
  <2> HIDE DEF r2
  <2>5. Detached(r2, n) BY <2>2 DEF Detached
  <2>6. Sound(r2, st, ls2, {}) BY <1>5, <2>1, <2>3, <2>5, DetachSound
  <2> QED BY <2>4, <2>6
<1>8. Sound(list_del_init(m, n), st, ls2, {})
  <2> DEFINE r2 == INIT_LIST_HEAD(r, n)
  <2>1. /\ r2 \in Memory
        /\ \A e \in Node \ {n} : r2.next[e] = r.next[e] /\ r2.prev[e] = r.prev[e]
    BY <1>6, InitList
  <2>2. r2.next[n] = n /\ r2.prev[n] = n BY <1>6 DEF INIT_LIST_HEAD, Memory
  <2>3. list_del_init(m, n) = r2 BY DEF list_del_init, r
  <2> HIDE DEF r2
  <2>4. Detached(r2, n) BY <2>2 DEF Detached, list_empty_careful
  <2>5. Sound(r2, st, ls2, {}) BY <1>5, <2>1, <2>4, DetachSound
  <2> QED BY <2>3, <2>5
<1> QED BY <1>5, <1>7, <1>8 DEF ls2, r

LEMMA MoveSound ==
    ASSUME NEW m, NEW st, NEW ls, Sound(m, st, ls, {}), NEW n \in Entries,
           NEW h \in Heads, In(n, ls[h]), NEW to \in Heads \ st
    PROVE  LET ls2 == Cleared(ls, n)
           IN  /\ Sound(list_move(m, n, to), st, [ls2 EXCEPT ![to] = <<n>> \o @], {})
               /\ Sound(list_move_tail(m, n, to), st, [ls2 EXCEPT ![to] = Append(@, n)], {})
<1> DEFINE ls2 == Cleared(ls, n)
           r == __list_del(m, m.prev[n], m.next[n])
<1>1. Sound(r, st, ls2, {n}) /\ \A g \in Heads : ~In(n, ls2[g]) BY DeleteSound
<1>2. list_move(m, n, to) = list_add(r, n, to) /\ list_move_tail(m, n, to) = list_add_tail(r, n, to)
  BY DEF list_move, list_move_tail
<1> HIDE DEF ls2, r
<1>3. /\ Sound(list_add(r, n, to), st, [ls2 EXCEPT ![to] = <<n>> \o @], {})
      /\ Sound(list_add_tail(r, n, to), st, [ls2 EXCEPT ![to] = Append(@, n)], {})
  BY <1>1, InsertSound
<1> QED BY <1>2, <1>3 DEF ls2

LEMMA ReplaceEntrySound ==
    ASSUME NEW m, NEW st, NEW ls, Sound(m, st, ls, {}), NEW old \in Entries,
           NEW h \in Heads, In(old, ls[h]),
           NEW new \in Entries, \A g \in Heads : ~In(new, ls[g])
    PROVE  Sound(list_replace_init(m, old, new), st,
                 [g \in Heads |-> [i \in DOMAIN ls[g] |->
                     IF ls[g][i] = old THEN new ELSE ls[g][i]]], {})
<1> DEFINE r == list_replace_init(m, old, new)
           Put(s) == [i \in DOMAIN s |-> IF s[i] = old THEN new ELSE s[i]]
           ls2 == [g \in Heads |-> Put(ls[g])]
           H == {h}
           Y == {new}
           X == {}
<1>1. /\ ls \in [Heads -> Seq(Entries)] /\ m \in Memory /\ st \subseteq Heads
      /\ h \notin st /\ IsList(m, h, ls[h]) /\ ls[h] \in Seq(Entries)
      /\ \A g \in st : ls[g] = <<>>
      /\ \A a, b \in Heads : \A e \in Entries : In(e, ls[a]) /\ In(e, ls[b]) => a = b
  BY DEF Sound, In
<1>2. PICK k \in 1 .. Len(ls[h]) : ls[h][k] = old BY DEF In
<1> DEFINE t == Replaced(ls[h], k, new)
<1>3. new \in Node \ {h} /\ new # old /\ \A i \in 1 .. Len(ls[h]) : ls[h][i] # new
  BY DEF Entries, In
<1>4. /\ r \in Memory /\ IsList(r, h, t) /\ r.next[old] = old /\ r.prev[old] = old
      /\ \A e \in Node \ {new} : e # h /\ (\A i \in 1 .. Len(ls[h]) : ls[h][i] # e)
                                 => r.next[e] = m.next[e] /\ r.prev[e] = m.prev[e]
  BY <1>1, <1>2, <1>3, ReplaceEntry
<1> HIDE DEF r
<1>5. DOMAIN ls[h] = 1 .. Len(ls[h]) /\ Len(ls[h]) \in Nat
      /\ \A g \in Heads : DOMAIN ls[g] = 1 .. Len(ls[g])
  BY <1>1
<1>6. Put(ls[h]) = t
  <2>1. \A i \in 1 .. Len(ls[h]) : ls[h][i] = old <=> i = k
    BY <1>1, <1>2 DEF IsList, Distinct
  <2> QED BY <1>5, <2>1 DEF Replaced
<1>7. \A g \in Heads \ {h} : Put(ls[g]) = ls[g]
  <2> TAKE g \in Heads \ {h}
  <2>1. \A i \in 1 .. Len(ls[g]) : ls[g][i] # old BY <1>1 DEF In
  <2>2. ls[g] \in Seq(Entries) BY <1>1
  <2>3. ls[g] = [i \in DOMAIN ls[g] |-> ls[g][i]] BY <2>2
  <2> QED BY <1>5, <2>1, <2>3
<1>8. t \in Seq(Entries) /\ Len(t) = Len(ls[h])
      /\ \A i \in 1 .. Len(ls[h]) : t[i] = IF i = k THEN new ELSE ls[h][i]
  BY <1>1, <1>5 DEF Replaced
<1>9. /\ \A e \in Entries : In(e, t) => e = new \/ In(e, ls[h])
      /\ \A e \in Entries : e # old /\ In(e, ls[h]) => In(e, t)
      /\ In(new, t)
  <2>1. \A e \in Entries : In(e, t) => e = new \/ In(e, ls[h]) BY <1>8 DEF In
  <2>2. ASSUME NEW e \in Entries, e # old, In(e, ls[h]) PROVE In(e, t)
    <3>1. PICK i \in 1 .. Len(ls[h]) : ls[h][i] = e BY <2>2 DEF In
    <3>2. i # k BY <1>2, <2>2, <3>1
    <3> QED BY <1>8, <3>1, <3>2 DEF In
  <2>3. In(new, t) BY <1>8 DEF In
  <2> QED BY <2>1, <2>2, <2>3
<1> HIDE DEF t
<1>10. ls2 \in [Heads -> Seq(Entries)] /\ ls2[h] = t /\ \A g \in Heads \ {h} : ls2[g] = ls[g]
  <2> HIDE DEF Put
  <2>1. ls2[h] = t /\ \A g \in Heads \ {h} : ls2[g] = ls[g] BY <1>6, <1>7
  <2>2. \A g \in Heads : ls2[g] \in Seq(Entries) BY <1>1, <1>8, <2>1
  <2>3. ls2 = [g \in Heads |-> ls2[g]] OBVIOUS
  <2> HIDE DEF ls2
  <2> QED BY <2>1, <2>2, <2>3
<1> HIDE DEF ls2
<1>11. Writes(m, r, ls, H, Y) BY <1>1, <1>4 DEF Writes, In
<1>12. Changed(ls, X, r, H, Y, st, st, ls2, X)
  <2>1. \A g \in H : IF g \in st THEN ls2[g] = <<>> ELSE IsList(r, g, ls2[g]) BY <1>1, <1>4, <1>10
  <2>2. Detached(r, old) BY <1>4 DEF Detached, list_empty_careful
  <2>3. \A e \in Entries : e \in Y \/ (\E g \in H : In(e, ls[g]))
           => (\E g \in H : In(e, ls2[g])) \/ e \in X \/ Detached(r, e)
    BY <1>9, <1>10, <2>2
  <2>4. \A g \in H : \A e \in Entries : In(e, ls2[g]) => e \in Y \/ \E a \in H : In(e, ls[a])
    BY <1>9, <1>10
  <2> QED BY <1>1, <1>10, <2>1, <2>3, <2>4 DEF Changed
<1>13. Sound(m, st, ls, X) OBVIOUS
<1> HIDE DEF H, Y, X
<1>14. Sound(r, st, ls2, X) BY <1>11, <1>12, <1>13, Update
<1> QED BY <1>14 DEF r, ls2, X

\* what list_replace_init of a head and list_splice do to the sequences
Joined(ls, from, to) == [ls EXCEPT ![to] = ls[from] \o @, ![from] = <<>>]

IsJoin(ls, from, to, ls2) ==
    /\ ls2 \in [Heads -> Seq(Entries)]
    /\ ls2[to] = ls[from] \o ls[to] /\ ls2[from] = <<>>
    /\ \A g \in Heads \ {from, to} : ls2[g] = ls[g]
    /\ \A e \in Entries : In(e, ls[from] \o ls[to]) <=> In(e, ls[from]) \/ In(e, ls[to])
    /\ ls[from] = <<>> => ls2 = ls

LEMMA JoinedWords ==
    ASSUME NEW ls, ls \in [Heads -> Seq(Entries)],
           NEW from, from \in Heads, NEW to, to \in Heads, from # to
    PROVE  IsJoin(ls, from, to, Joined(ls, from, to))
<1> DEFINE ls2 == Joined(ls, from, to)
<1> DEFINE s == ls[from]
           t == ls[to]
<1>1. s \in Seq(Entries) /\ t \in Seq(Entries) /\ Len(s) \in Nat /\ Len(t) \in Nat OBVIOUS
<1>2. /\ s \o t \in Seq(Entries) /\ Len(s \o t) = Len(s) + Len(t)
      /\ \A i \in 1 .. Len(s) + Len(t) : (s \o t)[i] = IF i <= Len(s) THEN s[i] ELSE t[i - Len(s)]
  BY <1>1, ConcatProperties
<1>3. /\ ls2 \in [Heads -> Seq(Entries)] /\ ls2[to] = s \o t /\ ls2[from] = <<>>
      /\ \A g \in Heads \ {from, to} : ls2[g] = ls[g]
  <2> DEFINE u == s \o t
  <2>1. ls2 = [ls EXCEPT ![to] = u, ![from] = <<>>] BY DEF Joined
  <2>2. u \in Seq(Entries) /\ <<>> \in Seq(Entries) BY <1>2
  <2> HIDE DEF u
  <2>3. /\ [ls EXCEPT ![to] = u, ![from] = <<>>] \in [Heads -> Seq(Entries)]
        /\ [ls EXCEPT ![to] = u, ![from] = <<>>][to] = u
        /\ [ls EXCEPT ![to] = u, ![from] = <<>>][from] = <<>>
        /\ \A g \in Heads \ {from, to} : [ls EXCEPT ![to] = u, ![from] = <<>>][g] = ls[g]
    BY <2>2
  <2> QED BY <2>1, <2>3 DEF u
<1>4. s = <<>> => s \o t = t BY <1>1, ConcatEmptySeq
<1>5. s = <<>> => ls2 = ls BY <1>4 DEF Joined
<1>6. ASSUME NEW e \in Entries PROVE In(e, s \o t) <=> In(e, s) \/ In(e, t)
  <2> HIDE DEF s, t
  <2>1. ASSUME In(e, s \o t) PROVE In(e, s) \/ In(e, t)
    <3>1. PICK i \in 1 .. Len(s) + Len(t) : (s \o t)[i] = e BY <1>2, <2>1 DEF In
    <3>2. CASE i <= Len(s)
      <4>1. i \in 1 .. Len(s) /\ s[i] = e BY <1>1, <1>2, <3>1, <3>2
      <4> QED BY <4>1 DEF In
    <3>3. CASE ~(i <= Len(s))
      <4>1. i - Len(s) \in 1 .. Len(t) BY <1>1, <3>3
      <4>2. t[i - Len(s)] = e BY <1>2, <3>1, <3>3
      <4> QED BY <4>1, <4>2 DEF In
    <3> QED BY <3>2, <3>3
  <2>2. ASSUME In(e, s) PROVE In(e, s \o t)
    <3>1. PICK i \in 1 .. Len(s) : s[i] = e BY <2>2 DEF In
    <3>2. i \in 1 .. Len(s) + Len(t) /\ i <= Len(s) BY <1>1
    <3>3. (s \o t)[i] = e BY <1>2, <3>1, <3>2
    <3> QED BY <1>2, <3>2, <3>3 DEF In
  <2>3. ASSUME In(e, t) PROVE In(e, s \o t)
    <3>1. PICK i \in 1 .. Len(t) : t[i] = e BY <2>3 DEF In
    <3> DEFINE j == i + Len(s)
    <3>2. j \in 1 .. Len(s) + Len(t) /\ ~(j <= Len(s)) /\ j - Len(s) = i BY <1>1
    <3> HIDE DEF j
    <3>3. (s \o t)[j] = e BY <1>2, <3>1, <3>2
    <3> QED BY <1>2, <3>2, <3>3 DEF In
  <2> QED BY <2>1, <2>2, <2>3
<1> QED BY <1>3, <1>5, <1>6 DEF IsJoin

\* the words and the lists of two heads, when the lists of "from" and "to" become one
LEMMA JoinSound ==
    ASSUME NEW m, NEW st, NEW ls, Sound(m, st, ls, {}),
           NEW from \in Heads \ st, NEW to \in Heads \ st, from # to,
           NEW r \in Memory, IsList(r, to, ls[from] \o ls[to]),
           \A e \in Node : /\ e \notin {from, to}
                           /\ \A i \in 1 .. Len(ls[from]) : ls[from][i] # e
                           /\ \A i \in 1 .. Len(ls[to]) : ls[to][i] # e
                           => r.next[e] = m.next[e] /\ r.prev[e] = m.prev[e],
           NEW st2, st2 = st \cup {from} \/ (st2 = st /\ IsList(r, from, <<>>))
    PROVE  Sound(r, st2, Joined(ls, from, to), {})
<1> DEFINE ls2 == Joined(ls, from, to)
           H == {from, to}
           Y == {}
           X == {}
<1>1. /\ ls \in [Heads -> Seq(Entries)] /\ st \subseteq Heads
      /\ from \in Heads /\ to \in Heads \ {from} /\ st2 \subseteq Heads
  BY DEF Sound
<1>2. /\ ls2 \in [Heads -> Seq(Entries)]
      /\ ls2[to] = ls[from] \o ls[to] /\ ls2[from] = <<>>
      /\ \A g \in Heads \ {from, to} : ls2[g] = ls[g]
      /\ \A e \in Entries : In(e, ls2[to]) <=> In(e, ls[from]) \/ In(e, ls[to])
  <2>1. IsJoin(ls, from, to, ls2) BY <1>1, JoinedWords
  <2> HIDE DEF ls2
  <2> QED BY <2>1 DEF IsJoin
<1> HIDE DEF ls2
<1>3. Writes(m, r, ls, H, Y) BY <1>1 DEF Writes, In
<1>4. Changed(ls, X, r, H, Y, st, st2, ls2, X)
  <2>1. \A g \in Heads \ H : ls2[g] = ls[g] /\ (g \in st2 <=> g \in st) BY <1>2
  <2>2. \A g \in H : IF g \in st2 THEN ls2[g] = <<>> ELSE IsList(r, g, ls2[g]) BY <1>2
  <2>3. \A e \in Entries : ~In(e, ls2[from]) BY <1>2 DEF In
  <2>4. \A g \in H : \A e \in Entries : In(e, ls2[g]) => e \in Y \/ \E a \in H : In(e, ls[a])
    BY <1>2, <2>3
  <2>5. \A a, b \in H : \A e \in Entries : In(e, ls2[a]) /\ In(e, ls2[b]) => a = b BY <2>3
  <2>6. \A e \in Entries : e \in Y \/ (\E g \in H : In(e, ls[g]))
           => (\E g \in H : In(e, ls2[g])) \/ e \in X \/ Detached(r, e)
    BY <1>2
  <2> QED BY <1>1, <1>2, <2>1, <2>2, <2>4, <2>5, <2>6 DEF Changed
<1>5. Sound(m, st, ls, X) OBVIOUS
<1> HIDE DEF H, Y, X
<1>6. Sound(r, st2, ls2, X) BY <1>3, <1>4, <1>5, Update
<1> QED BY <1>6 DEF ls2, X

\* no entry is in the lists of two heads, and no head is in a list
LEMMA Apart ==
    ASSUME NEW m, NEW st, NEW ls, Sound(m, st, ls, {}),
           NEW from \in Heads \ st, NEW to \in Heads \ st, from # to
    PROVE  /\ ls[from] \in Seq(Entries) /\ ls[to] \in Seq(Entries)
           /\ IsList(m, from, ls[from]) /\ IsList(m, to, ls[to]) /\ m \in Memory
           /\ \A i \in 1 .. Len(ls[from]) : ls[from][i] \notin Heads
           /\ \A i \in 1 .. Len(ls[to]) : ls[to][i] \notin Heads
           /\ \A i \in 1 .. Len(ls[from]), j \in 1 .. Len(ls[to]) : ls[from][i] # ls[to][j]
<1>1. /\ ls[from] \in Seq(Entries) /\ ls[to] \in Seq(Entries)
      /\ IsList(m, from, ls[from]) /\ IsList(m, to, ls[to]) /\ m \in Memory
      /\ \A e \in Entries : In(e, ls[from]) /\ In(e, ls[to]) => from = to
  BY DEF Sound
<1>2. /\ \A i \in 1 .. Len(ls[from]) : ls[from][i] \in Entries
      /\ \A i \in 1 .. Len(ls[to]) : ls[to][i] \in Entries
  BY <1>1
<1>3. \A i \in 1 .. Len(ls[from]), j \in 1 .. Len(ls[to]) : ls[from][i] # ls[to][j]
  BY <1>1, <1>2 DEF In
<1> QED BY <1>1, <1>2, <1>3 DEF Entries

LEMMA EmptyHead ==
    ASSUME NEW m, NEW st, NEW ls, Sound(m, st, ls, {}), NEW h \in Heads \ st
    PROVE  list_empty(m, h) <=> ls[h] = <<>>
<1>1. ls[h] \in Seq(Entries) /\ Len(ls[h]) \in Nat /\ IsList(m, h, ls[h]) BY DEF Sound
<1>2. m.next[h] = Neighbour(ls[h], h, 1)
  <2>1. m.next[Neighbour(ls[h], h, 0)] = Neighbour(ls[h], h, 0 + 1) BY <1>1 DEF IsList
  <2> QED BY <2>1 DEF Neighbour
<1>3. CASE ls[h] = <<>> BY <1>2, <1>3 DEF list_empty, Neighbour
<1>4. CASE ls[h] # <<>>
  <2>1. 1 \in 1 .. Len(ls[h]) BY <1>1, <1>4
  <2>2. m.next[h] = ls[h][1] /\ ls[h][1] \in Entries BY <1>1, <1>2, <2>1 DEF Neighbour
  <2> QED BY <1>4, <2>2 DEF list_empty, Entries
<1> QED BY <1>3, <1>4

LEMMA ReplaceHeadSound ==
    ASSUME NEW m, NEW st, NEW ls, Sound(m, st, ls, {}),
           NEW old \in Heads \ st, NEW new \in Heads \ st, old # new, ls[new] = <<>>
    PROVE  Sound(list_replace_init(m, old, new), st, Joined(ls, old, new), {})
<1> DEFINE r == list_replace_init(m, old, new)
<1>1. /\ ls[old] \in Seq(Entries) /\ IsList(m, old, ls[old]) /\ IsList(m, new, <<>>)
      /\ m \in Memory /\ \A i \in 1 .. Len(ls[old]) : ls[old][i] # new
  BY Apart
<1>2. /\ r \in Memory /\ IsList(r, new, ls[old]) /\ IsList(r, old, <<>>)
      /\ \A n \in Node : n \notin {old, new} /\ (\A i \in 1 .. Len(ls[old]) : ls[old][i] # n)
                         => r.next[n] = m.next[n] /\ r.prev[n] = m.prev[n]
  BY <1>1, ReplaceHead
<1> HIDE DEF r
<1>3. ls[old] \o ls[new] = ls[old] BY <1>1, ConcatEmptySeq
<1>4. Sound(r, st, Joined(ls, old, new), {}) BY <1>2, <1>3, JoinSound
<1> QED BY <1>4 DEF r

LEMMA SpliceSound ==
    ASSUME NEW m, NEW st, NEW ls, Sound(m, st, ls, {}),
           NEW from \in Heads \ st, NEW to \in Heads \ st, from # to, ls[from] # <<>>
    PROVE  Sound(__list_splice(m, from, to), st \cup {from}, Joined(ls, from, to), {})
<1> DEFINE r == __list_splice(m, from, to)
<1>1. /\ ls[from] \in Seq(Entries) /\ ls[to] \in Seq(Entries)
      /\ IsList(m, from, ls[from]) /\ IsList(m, to, ls[to]) /\ m \in Memory
      /\ \A i \in 1 .. Len(ls[from]) : ls[from][i] # to
      /\ \A j \in 1 .. Len(ls[to]) : ls[to][j] # from
      /\ \A i \in 1 .. Len(ls[from]), j \in 1 .. Len(ls[to]) : ls[from][i] # ls[to][j]
  BY Apart
<1>2. Len(ls[from]) > 0 BY <1>1
<1>3. /\ r \in Memory /\ IsList(r, to, ls[from] \o ls[to])
      /\ \A n \in Node : /\ n # to
                         /\ \A i \in 1 .. Len(ls[from]) : ls[from][i] # n
                         /\ \A j \in 1 .. Len(ls[to]) : ls[to][j] # n
                         => r.next[n] = m.next[n] /\ r.prev[n] = m.prev[n]
  BY <1>1, <1>2, SpliceList
<1> HIDE DEF r
<1> DEFINE st2 == st \cup {from}
<1>4. st2 = st \cup {from} \/ (st2 = st /\ IsList(r, from, <<>>)) OBVIOUS
<1>5. \A e \in Node : /\ e \notin {from, to}
                      /\ \A i \in 1 .. Len(ls[from]) : ls[from][i] # e
                      /\ \A i \in 1 .. Len(ls[to]) : ls[to][i] # e
                      => r.next[e] = m.next[e] /\ r.prev[e] = m.prev[e]
  BY <1>3
<1> HIDE DEF st2
<1>6. Sound(r, st2, Joined(ls, from, to), {}) BY <1>3, <1>4, <1>5, JoinSound
<1> QED BY <1>6 DEF r, st2

\* INIT_LIST_HEAD gives a stale head back its empty list
LEMMA ReinitSound ==
    ASSUME NEW m, NEW st, NEW ls, Sound(m, st, ls, {}), NEW h \in st
    PROVE  Sound(INIT_LIST_HEAD(m, h), st \ {h}, ls, {})
<1> DEFINE r == INIT_LIST_HEAD(m, h)
           H == {h}
           Y == {}
           X == {}
           st2 == st \ {h}
<1>1. /\ ls \in [Heads -> Seq(Entries)] /\ st \subseteq Heads /\ m \in Memory
      /\ h \in Heads /\ h \in Node /\ ls[h] = <<>>
  BY DEF Sound
<1>2. /\ r \in Memory /\ IsList(r, h, <<>>)
      /\ \A n \in Node \ {h} : r.next[n] = m.next[n] /\ r.prev[n] = m.prev[n]
  BY <1>1, InitList
<1> HIDE DEF r
<1>3. Writes(m, r, ls, H, Y) BY <1>1, <1>2 DEF Writes
<1>4. \A e \in Entries : ~In(e, ls[h]) BY <1>1 DEF In
<1>5. Changed(ls, X, r, H, Y, st, st2, ls, X) BY <1>1, <1>2, <1>4 DEF Changed
<1>6. Sound(m, st, ls, X) OBVIOUS
<1> HIDE DEF H, Y, X, st2
<1>7. Sound(r, st2, ls, X) BY <1>3, <1>5, <1>6, Update
<1> QED BY <1>7 DEF r, X, st2

-----------------------------------------------------------------------------
(* The steps.                                                              *)

L == Walks(mem, stale)

LEMMA InitSound == Init => IInv /\ Contract!Init
<1> SUFFICES ASSUME Init PROVE IInv /\ Contract!Init OBVIOUS
<1> DEFINE none == [h \in Heads |-> <<>>]
<1>1. mem \in Memory /\ stale = {} BY DEF Init, Memory
<1>2. ASSUME NEW h \in Heads PROVE IsList(mem, h, <<>>)
  <2>1. h \in Node /\ mem.next[h] = h /\ mem.prev[h] = h BY DEF Init
  <2>2. Len(<<>>) = 0 /\ <<>> \in Seq(Node \ {h}) OBVIOUS
  <2>3. Neighbour(<<>>, h, 0) = h /\ Neighbour(<<>>, h, 0 + 1) = h BY <2>2 DEF Neighbour
  <2> QED BY <2>1, <2>2, <2>3 DEF IsList, Distinct
<1>3. none \in [Heads -> Seq(Entries)] OBVIOUS
<1>4. \A h \in Heads : \A n : ~In(n, none[h]) BY DEF In
<1>5. \A n \in Entries : Detached(mem, n) BY DEF Init, Entries, Detached
<1> HIDE DEF none
<1>6. \A h \in Heads : IsList(mem, h, none[h]) BY <1>2 DEF none
<1>7. Sound(mem, stale, none, {}) BY <1>1, <1>3, <1>4, <1>5, <1>6 DEF Sound
<1>8. Walks(mem, stale) = none BY <1>7, ListsMet
<1>9. IInv BY <1>7, <1>8 DEF IInv
<1>10. Contract!Init
  <2>1. Contract!Init <=> Walks(mem, stale) = [h \in Heads |-> <<>>] /\ op = <<"start">>
    BY DEF Contract!Init, Walks
  <2> QED BY <1>8, <2>1 DEF none, Init
<1> QED BY <1>9, <1>10

\* an entry is loose when no walk meets it
LEMMA LooseIdle ==
    ASSUME IInv
    PROVE  /\ Contract!Idle = Loose
           /\ \A n \in Entries : n \in Loose <=> \A h \in Heads : ~In(n, L[h])
           /\ L \in [Heads -> Seq(Entries)]
<1>1. L \in [Heads -> Seq(Entries)] /\ \A h \in stale : L[h] = <<>> BY DEF IInv, Sound, L
<1>2. \A h \in Heads : DOMAIN L[h] = 1 .. Len(L[h]) BY <1>1
<1>3. \A h \in Live : L[h] = list_for_each(mem, h) BY DEF Live, L, Walks
<1>4. ASSUME NEW n \in Entries PROVE n \in Loose <=> \A h \in Heads : ~In(n, L[h])
  <2>1. \A h \in Live : n \in Listed(h) <=> In(n, L[h])
    BY <1>2, <1>3 DEF Live, Listed, In
  <2>2. \A h \in stale : ~In(n, L[h]) BY <1>1 DEF In
  <2> QED BY <2>1, <2>2 DEF Loose, Live
<1>5. ASSUME NEW n \in Entries PROVE n \in Contract!Idle <=> \A h \in Heads : ~In(n, L[h])
  <2>1. Contract!Idle = Entries \ UNION {Contract!Range(L[h]) : h \in Heads}
    BY DEF Contract!Idle, L, Walks
  <2>2. \A h \in Heads : n \in Contract!Range(L[h]) <=> In(n, L[h])
    BY <1>2 DEF Contract!Range, In
  <2> QED BY <2>1, <2>2
<1>6. Contract!Idle = Loose BY <1>4, <1>5 DEF Contract!Idle, Loose
<1> QED BY <1>1, <1>4, <1>6

\* what a call leaves behind
Left(m2, st2, ls2) == mem' = m2 /\ stale' = st2 /\ Sound(m2, st2, ls2, {})

LEMMA LeftSound ==
    ASSUME NEW m2, NEW st2, NEW ls2, Left(m2, st2, ls2)
    PROVE  IInv' /\ L' = ls2
<1>1. Walks(m2, st2) = ls2 BY ListsMet DEF Left
<1> QED BY <1>1 DEF Left, IInv, L

\* the actions of the sequences, in terms of the walks
LEMMA Told ==
    ASSUME NEW h, NEW n
    PROVE  /\ Contract!PushHead(h, n) <=> /\ op' = <<"list_add", n, h>> /\ n \in Contract!Idle
                                          /\ L' = [L EXCEPT ![h] = <<n>> \o @]
           /\ Contract!PushTail(h, n) <=> /\ op' = <<"list_add_tail", n, h>> /\ n \in Contract!Idle
                                          /\ L' = [L EXCEPT ![h] = @ \o <<n>>]
           /\ Contract!Drop(n) <=> /\ op' \in {<<"list_del", n>>, <<"list_del_init", n>>}
                                   /\ n \notin Contract!Idle
                                   /\ L' = [g \in Heads |-> Contract!Without(L[g], n)]
           /\ Contract!Reinit(h) <=> op' = <<"INIT_LIST_HEAD", h>> /\ L[h] = <<>> /\ L' = L
<1> QED BY DEF Contract!PushHead, Contract!PushTail, Contract!Drop, Contract!Reinit, L, Walks

LEMMA ToldOfTwo ==
    ASSUME NEW a, NEW b
    PROVE  /\ Contract!MoveFirst(a, b) <=>
                 /\ op' = <<"list_move", b, a>> /\ b \notin Contract!Idle
                 /\ L' = [g \in Heads |-> IF g = a THEN <<b>> \o Contract!Without(L[g], b)
                                          ELSE Contract!Without(L[g], b)]
           /\ Contract!MoveLast(a, b) <=>
                 /\ op' = <<"list_move_tail", b, a>> /\ b \notin Contract!Idle
                 /\ L' = [g \in Heads |-> IF g = a THEN Contract!Without(L[g], b) \o <<b>>
                                          ELSE Contract!Without(L[g], b)]
           /\ Contract!Substitute(a, b) <=>
                 /\ op' = <<"list_replace_init", a, b>>
                 /\ a \notin Contract!Idle /\ b \in Contract!Idle
                 /\ L' = [g \in Heads |-> [i \in DOMAIN L[g] |->
                              IF L[g][i] = a THEN b ELSE L[g][i]]]
           /\ Contract!Join(a, b) <=>
                 /\ \/ op' = <<"list_replace_init", a, b>> /\ L[b] = <<>>
                    \/ op' \in {<<"list_splice", a, b>>, <<"list_splice_init", a, b>>}
                 /\ a # b
                 /\ L' = Joined(L, a, b)
<1> QED BY DEF Contract!MoveFirst, Contract!MoveLast, Contract!Substitute, Contract!Join,
               L, Walks, Joined

LEMMA InsertStep ==
    ASSUME IInv, NEW h \in Live, NEW n \in Entries, Insert(n, h)
    PROVE  IInv' /\ (Contract!PushHead(h, n) \/ Contract!PushTail(h, n))
<1>1. /\ Sound(mem, stale, L, {}) /\ h \in Heads \ stale /\ n \in Loose
      /\ L \in [Heads -> Seq(Entries)]
  BY LooseIdle DEF IInv, L, Live, Insert
<1>2. n \in Contract!Idle /\ \A g \in Heads : ~In(n, L[g]) BY <1>1, LooseIdle
<1>3. /\ Sound(list_add(mem, n, h), stale, [L EXCEPT ![h] = <<n>> \o @], {})
      /\ Sound(list_add_tail(mem, n, h), stale, [L EXCEPT ![h] = Append(@, n)], {})
  <2>1. PICK ls : ls = L OBVIOUS
  <2>2. Sound(mem, stale, ls, {}) /\ \A g \in Heads : ~In(n, ls[g]) BY <1>1, <1>2, <2>1
  <2>3. /\ Sound(list_add(mem, n, h), stale, [ls EXCEPT ![h] = <<n>> \o @], {})
        /\ Sound(list_add_tail(mem, n, h), stale, [ls EXCEPT ![h] = Append(@, n)], {})
    <3> DEFINE X == {}
    <3>1. Sound(mem, stale, ls, X) /\ X \subseteq {n} BY <2>2
    <3> HIDE DEF X
    <3> QED BY <1>1, <2>2, <3>1, InsertSound
  <2> QED BY <2>1, <2>3
<1>4. CASE op' = <<"list_add", n, h>> /\ mem' = list_add(mem, n, h)
  <2>1. Left(list_add(mem, n, h), stale, [L EXCEPT ![h] = <<n>> \o @])
    BY <1>3, <1>4 DEF Left, Insert
  <2>2. IInv' /\ L' = [L EXCEPT ![h] = <<n>> \o @] BY <2>1, LeftSound
  <2> QED BY <1>2, <1>4, <2>2, Told
<1>5. CASE op' = <<"list_add_tail", n, h>> /\ mem' = list_add_tail(mem, n, h)
  <2>1. Left(list_add_tail(mem, n, h), stale, [L EXCEPT ![h] = Append(@, n)])
    BY <1>3, <1>5 DEF Left, Insert
  <2>2. IInv' /\ L' = [L EXCEPT ![h] = Append(@, n)] BY <2>1, LeftSound
  <2>3. [L EXCEPT ![h] = Append(@, n)] = [L EXCEPT ![h] = @ \o <<n>>]
    <3>1. L[h] \in Seq(Entries) BY <1>1
    <3>2. Append(L[h], n) = L[h] \o <<n>> BY <3>1, AppendIsConcat
    <3> QED BY <3>2
  <2> QED BY <1>2, <1>5, <2>2, <2>3, Told
<1> QED BY <1>4, <1>5 DEF Insert

\* an entry that is not loose is in the list of a head
LEMMA ListedEntry ==
    ASSUME IInv, NEW n \in Entries \ Loose
    PROVE  n \notin Contract!Idle /\ Sound(mem, stale, L, {}) /\ \E h \in Heads : In(n, L[h])
BY LooseIdle DEF IInv, L

LEMMA DeleteStep ==
    ASSUME IInv, NEW n \in Entries, Delete(n)
    PROVE  IInv' /\ Contract!Drop(n)
<1> DEFINE ls2 == Cleared(L, n)
<1>1. n \notin Contract!Idle /\ Sound(mem, stale, L, {}) BY ListedEntry DEF Delete
<1>2. PICK h \in Heads : In(n, L[h]) BY ListedEntry DEF Delete
<1>3. Sound(list_del(mem, n), stale, ls2, {}) /\ Sound(list_del_init(mem, n), stale, ls2, {})
  <2>1. PICK ls : ls = L OBVIOUS
  <2>2. Sound(mem, stale, ls, {}) /\ In(n, ls[h]) BY <1>1, <1>2, <2>1
  <2>3. Sound(list_del(mem, n), stale, Cleared(ls, n), {})
    BY <2>2, DeleteSound
  <2>4. Sound(list_del_init(mem, n), stale, Cleared(ls, n), {})
    BY <2>2, DeleteSound
  <2> QED BY <2>1, <2>3, <2>4
<1> HIDE DEF ls2
<1>4. Left(list_del(mem, n), stale, ls2) \/ Left(list_del_init(mem, n), stale, ls2)
  BY <1>3 DEF Left, Delete
<1>5. IInv' /\ L' = ls2 BY <1>4, LeftSound
<1>6. op' \in {<<"list_del", n>>, <<"list_del_init", n>>} BY DEF Delete
<1> QED BY <1>1, <1>5, <1>6, Told DEF ls2, Cleared

LEMMA MoveStep ==
    ASSUME IInv, NEW h \in Live, NEW n \in Entries, Move(n, h)
    PROVE  IInv' /\ (Contract!MoveFirst(h, n) \/ Contract!MoveLast(h, n))
<1> DEFINE ls2 == Cleared(L, n)
           first == [g \in Heads |-> IF g = h THEN <<n>> \o Contract!Without(L[g], n)
                                     ELSE Contract!Without(L[g], n)]
           last == [g \in Heads |-> IF g = h THEN Contract!Without(L[g], n) \o <<n>>
                                    ELSE Contract!Without(L[g], n)]
<1>1. n \notin Contract!Idle /\ Sound(mem, stale, L, {}) /\ h \in Heads \ stale
  BY ListedEntry DEF Move, Live
<1>2. PICK from \in Heads : In(n, L[from]) BY ListedEntry DEF Move
<1>3. /\ Sound(list_move(mem, n, h), stale, [ls2 EXCEPT ![h] = <<n>> \o @], {})
      /\ Sound(list_move_tail(mem, n, h), stale, [ls2 EXCEPT ![h] = Append(@, n)], {})
  BY <1>1, <1>2, MoveSound
<1>4. [ls2 EXCEPT ![h] = <<n>> \o @] = first BY DEF Cleared
<1>5. [ls2 EXCEPT ![h] = Append(@, n)] = last
  <2>1. Contract!Without(L[h], n) \in Seq(Entries)
    <3>1. PICK ls : ls = L OBVIOUS
    <3>2. Sound(mem, stale, ls, {}) /\ In(n, ls[from]) BY <1>1, <1>2, <3>1
    <3>3. Sound(__list_del(mem, mem.prev[n], mem.next[n]), stale,
                Cleared(ls, n), {n})
      BY <3>2, DeleteSound
    <3>4. Cleared(ls, n) \in [Heads -> Seq(Entries)]
      BY <3>3 DEF Sound
    <3>5. Contract!Without(ls[h], n) \in Seq(Entries) BY <1>1, <3>4 DEF Cleared
    <3> QED BY <3>1, <3>5
  <2>2. Append(Contract!Without(L[h], n), n) = Contract!Without(L[h], n) \o <<n>>
    BY <2>1, AppendIsConcat
  <2> QED BY <2>2 DEF Cleared
<1> HIDE DEF ls2, first, last
<1>6. CASE op' = <<"list_move", n, h>> /\ mem' = list_move(mem, n, h)
  <2>1. Left(list_move(mem, n, h), stale, first) BY <1>3, <1>4, <1>6 DEF Left, Move
  <2>2. IInv' /\ L' = first BY <2>1, LeftSound
  <2> QED BY <1>1, <1>6, <2>2, ToldOfTwo DEF first
<1>7. CASE op' = <<"list_move_tail", n, h>> /\ mem' = list_move_tail(mem, n, h)
  <2>1. Left(list_move_tail(mem, n, h), stale, last) BY <1>3, <1>5, <1>7 DEF Left, Move
  <2>2. IInv' /\ L' = last BY <2>1, LeftSound
  <2> QED BY <1>1, <1>7, <2>2, ToldOfTwo DEF last
<1> QED BY <1>6, <1>7 DEF Move

LEMMA ReplaceStep ==
    ASSUME IInv, NEW old \in Node, NEW new \in Node, Replace(old, new)
    PROVE  IInv' /\ \/ old \in Entries /\ new \in Entries /\ Contract!Substitute(old, new)
                    \/ old \in Heads /\ new \in Heads /\ Contract!Join(old, new)
<1> DEFINE r == list_replace_init(mem, old, new)
<1>1. Sound(mem, stale, L, {}) BY DEF IInv, L
<1>2. op' = <<"list_replace_init", old, new>> /\ mem' = r /\ stale' = stale BY DEF Replace
<1>3. PICK ls : ls = L OBVIOUS
<1>4. Sound(mem, stale, ls, {}) BY <1>1, <1>3
<1>5. CASE old \in Entries \ Loose /\ new \in Loose
  <2> DEFINE ls2 == [g \in Heads |-> [i \in DOMAIN ls[g] |->
                        IF ls[g][i] = old THEN new ELSE ls[g][i]]]
  <2>1. old \in Entries /\ old \notin Contract!Idle /\ \E h \in Heads : In(old, ls[h])
    BY <1>3, <1>5, ListedEntry
  <2>2. /\ new \in Entries /\ new \in Contract!Idle
        /\ \A h \in Heads : ~In(new, ls[h])
    BY <1>3, <1>5, LooseIdle DEF Loose
  <2>3. Sound(r, stale, ls2, {}) BY <1>4, <2>1, <2>2, ReplaceEntrySound
  <2> HIDE DEF ls2, r
  <2>4. Left(r, stale, ls2) BY <1>2, <2>3 DEF Left
  <2>5. IInv' /\ L' = ls2 BY <2>4, LeftSound
  <2> QED BY <1>2, <1>3, <2>1, <2>2, <2>5, ToldOfTwo DEF ls2
<1>6. CASE old \in Live /\ new \in Live \ {old} /\ list_empty(mem, new)
  <2>1. old \in Heads \ stale /\ new \in Heads \ stale /\ old # new BY <1>6 DEF Live
  <2>2. ls[new] = <<>> BY <1>4, <1>6, <2>1, EmptyHead
  <2>3. Sound(r, stale, Joined(ls, old, new), {}) BY <1>4, <2>1, <2>2, ReplaceHeadSound
  <2> HIDE DEF r
  <2>4. Left(r, stale, Joined(ls, old, new)) BY <1>2, <2>3 DEF Left
  <2>5. IInv' /\ L' = Joined(ls, old, new) BY <2>4, LeftSound
  <2>6. Contract!Join(old, new) BY <1>2, <1>3, <2>1, <2>2, <2>5, ToldOfTwo
  <2> QED BY <2>1, <2>5, <2>6
<1> QED BY <1>5, <1>6 DEF Replace

LEMMA SpliceStep ==
    ASSUME IInv, NEW from \in Live, NEW to \in Live, Splice(from, to) \/ SpliceInit(from, to)
    PROVE  IInv' /\ Contract!Join(from, to)
<1>1. Sound(mem, stale, L, {}) BY DEF IInv, L
<1>2. from \in Heads \ stale /\ to \in Heads \ stale /\ from # to
  BY DEF Live, Splice, SpliceInit
<1>3. PICK ls : ls = L OBVIOUS
<1>4. Sound(mem, stale, ls, {}) BY <1>1, <1>3
<1>5. list_empty(mem, from) <=> ls[from] = <<>> BY <1>2, <1>4, EmptyHead
<1> DEFINE ls2 == Joined(ls, from, to)
           r == __list_splice(mem, from, to)
<1>6. ASSUME ls[from] = <<>> PROVE Left(mem, stale, ls2)
  <2>1. mem' = mem /\ stale' = stale
    BY <1>5, <1>6 DEF Splice, SpliceInit, list_splice, list_splice_init
  <2>2. ls \in [Heads -> Seq(Entries)] BY <1>4 DEF Sound
  <2>3. IsJoin(ls, from, to, ls2) BY <1>2, <2>2, JoinedWords
  <2>4. ls2 = ls BY <1>6, <2>3 DEF IsJoin
  <2> QED BY <1>4, <2>1, <2>4 DEF Left
<1>7. ASSUME ls[from] # <<>>
      PROVE  Left(r, stale \cup {from}, ls2) \/ Left(INIT_LIST_HEAD(r, from), stale, ls2)
  <2>1. Sound(r, stale \cup {from}, ls2, {}) BY <1>2, <1>4, <1>7, SpliceSound
  <2>2. CASE Splice(from, to)
    <3>1. mem' = r /\ stale' = stale \cup {from} BY <1>5, <1>7, <2>2 DEF Splice, list_splice
    <3> QED BY <2>1, <3>1 DEF Left
  <2>3. CASE SpliceInit(from, to)
    <3>1. mem' = INIT_LIST_HEAD(r, from) /\ stale' = stale
      BY <1>5, <1>7, <2>3 DEF SpliceInit, list_splice_init
    <3> HIDE DEF r, ls2
    <3>2. PICK st2 : st2 = stale \cup {from} OBVIOUS
    <3>3. Sound(r, st2, ls2, {}) /\ from \in st2 /\ st2 \ {from} = stale BY <1>2, <2>1, <3>2
    <3>4. Sound(INIT_LIST_HEAD(r, from), st2 \ {from}, ls2, {}) BY <3>3, ReinitSound
    <3> QED BY <3>1, <3>3, <3>4 DEF Left
  <2> QED BY <2>2, <2>3
<1> HIDE DEF ls2, r
<1>8. IInv' /\ L' = ls2
  <2>1. CASE ls[from] = <<>> BY <1>6, <2>1, LeftSound
  <2>2. CASE ls[from] # <<>> BY <1>7, <2>2, LeftSound
  <2> QED BY <2>1, <2>2
<1>9. op' \in {<<"list_splice", from, to>>, <<"list_splice_init", from, to>>}
  BY DEF Splice, SpliceInit
<1> QED BY <1>2, <1>3, <1>8, <1>9, ToldOfTwo DEF ls2

LEMMA ReinitStep ==
    ASSUME IInv, NEW h \in stale, Reinit(h)
    PROVE  IInv' /\ h \in Heads /\ Contract!Reinit(h)
<1>1. Sound(mem, stale, L, {}) BY DEF IInv, L
<1>2. h \in Heads /\ L[h] = <<>> BY <1>1 DEF Sound
<1>3. PICK ls : ls = L OBVIOUS
<1>4. Sound(INIT_LIST_HEAD(mem, h), stale \ {h}, ls, {}) BY <1>1, <1>3, ReinitSound
<1>5. Left(INIT_LIST_HEAD(mem, h), stale \ {h}, ls) BY <1>4 DEF Left, Reinit
<1>6. IInv' /\ L' = ls BY <1>5, LeftSound
<1> QED BY <1>2, <1>3, <1>6, Told DEF Reinit

LEMMA Step ==
    ASSUME IInv, [Next]_vars
    PROVE  IInv' /\ (Contract!Next \/ (L' = L /\ op' = op))
<1>1. ASSUME NEW h \in Live, NEW n \in Entries, Insert(n, h) PROVE IInv' /\ Contract!Next
  BY <1>1, InsertStep DEF Contract!Next, Live
<1>2. ASSUME NEW h \in Live, NEW n \in Entries, Move(n, h) PROVE IInv' /\ Contract!Next
  BY <1>2, MoveStep DEF Contract!Next, Live
<1>3. ASSUME NEW n \in Entries, Delete(n) PROVE IInv' /\ Contract!Next
  BY <1>3, DeleteStep DEF Contract!Next
<1>4. ASSUME NEW old \in Node, NEW new \in Node, Replace(old, new) PROVE IInv' /\ Contract!Next
  BY <1>4, ReplaceStep DEF Contract!Next
<1>5. ASSUME NEW from \in Live, NEW to \in Live, Splice(from, to) \/ SpliceInit(from, to)
      PROVE  IInv' /\ Contract!Next
  BY <1>5, SpliceStep DEF Contract!Next, Live
<1>6. ASSUME NEW h \in stale, Reinit(h) PROVE IInv' /\ Contract!Next
  BY <1>6, ReinitStep DEF Contract!Next
<1>7. CASE UNCHANGED vars BY <1>7 DEF vars, IInv, L
<1> QED BY <1>1, <1>2, <1>3, <1>4, <1>5, <1>6, <1>7 DEF Next

-----------------------------------------------------------------------------
(***************************************************************************)
(* The lists are always sound: what the next words lead through is what    *)
(* the prev words lead back through, no entry is in two lists, and what is *)
(* in none is poisoned or an empty list of its own.                        *)
(***************************************************************************)
THEOREM AlwaysSound == Spec => []IInv
<1>1. Init => IInv BY InitSound
<1>2. IInv /\ [Next]_vars => IInv' BY Step
<1> QED BY <1>1, <1>2, PTL DEF Spec

LEMMA BothWays == IInv => BackwardMirrorsForward /\ RemovedIsDetached
<1> SUFFICES ASSUME IInv PROVE BackwardMirrorsForward /\ RemovedIsDetached OBVIOUS
<1>1. ASSUME NEW h \in Live
      PROVE  LET f == list_for_each(mem, h)
                 b == list_for_each_prev(mem, h)
             IN  /\ Len(b) = Len(f)
                 /\ \A i \in DOMAIN f : b[i] = f[Len(f) + 1 - i]
  <2> DEFINE s == L[h]
  <2>1. IsList(mem, h, s) BY DEF IInv, Sound, L, Live
  <2>2. s \in Seq(Entries) BY DEF IInv, Sound, L, Live
  <2> HIDE DEF s
  <2>3. list_for_each(mem, h) = s /\ list_for_each_prev(mem, h) = Backwards(s)
    BY <2>1, ForEachMeets, ForEachPrevMeets
  <2>4. DOMAIN s = 1 .. Len(s) /\ Len(s) \in Nat BY <2>2
  <2>5. /\ Len(Backwards(s)) = Len(s)
        /\ \A i \in DOMAIN s : Backwards(s)[i] = s[Len(s) + 1 - i]
    BY <2>4 DEF Backwards
  <2> QED BY <2>3, <2>5
<1>2. ASSUME NEW n \in Loose
      PROVE  (mem.next[n] = Poison /\ mem.prev[n] = Poison) \/ list_empty_careful(mem, n)
  <2>1. n \in Entries /\ \A h \in Heads : ~In(n, L[h]) BY LooseIdle DEF Loose
  <2> QED BY <2>1 DEF IInv, Sound, L, Detached
<1> QED BY <1>1, <1>2 DEF BackwardMirrorsForward, RemovedIsDetached

(***************************************************************************)
(* Any sequence of calls of list.h, on any number of heads and entries,    *)
(* changes the sequences the walks meet as the comments of list.h say, can *)
(* be walked in both directions, and leaves removed entries recognisable.  *)
(***************************************************************************)
THEOREM ListsAreSequences == Spec => ImplementsSequences
<1>1. Init => IInv /\ Contract!Init BY InitSound
<1>2. IInv /\ [Next]_vars => IInv' /\ [Contract!Next]_<<L, op>>
  BY Step
<1>3. L = [h \in Heads |-> IF h \in stale THEN <<>> ELSE list_for_each(mem, h)]
  BY DEF L, Walks
<1>4. IInv => BackwardMirrorsForward /\ RemovedIsDetached BY BothWays
<1>5. IInv /\ [Next]_vars
        => IInv' /\ [Contract!Next]_<<[h \in Heads |-> IF h \in stale THEN <<>>
                                                     ELSE list_for_each(mem, h)], op>>
  BY <1>2 DEF L, Walks
<1> QED BY <1>1, <1>4, <1>5, PTL
        DEF Spec, ImplementsSequences, ImplementsForward, Contract!Spec
=============================================================================
